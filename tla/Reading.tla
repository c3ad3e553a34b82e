------------------------------ MODULE Reading ------------------------------
(***************************************************************************)
(* What the kernel's handles read from the volume of module Fat12 and the  *)
(* programs make of it: File_Handle::Read and Directory_Handle::Read       *)
(* (src/src/kernel/io_handles.cpp), Get_Items (fat12_functions.cpp), the   *)
(* arguments and lines of find (src/src/user/find.cpp), the lines of sort  *)
(* and the words of a command line (command_parser.cpp).                   *)
(*                                                                         *)
(* A text is a sequence of symbols.  A symbol is a character, a name or a  *)
(* whole message, and fills one row of a sector: here a row is a byte.     *)
(***************************************************************************)
EXTENDS Fat12, TLC, SequencesExt

CONSTANTS
    Batch,      \* max_item_count of dir.cpp: 20
    LineSize,   \* sizeof(line) in find.cpp: 512
    Order,      \* the symbols in the order of strcmp, the others come last
    Garbage     \* a byte nobody has written

ASSUME ReadingAssumption ==
    /\ RowBytes = 1
    /\ {Batch, LineSize} \subseteq Nat \ {0}

Rank(symbol) ==
    IF symbol \in ToSet(Order) THEN CHOOSE i \in DOMAIN Order : Order[i] = symbol
    ELSE Len(Order) + 1

---------------------------------------------------------------------------
(* Handles of items.                                                       *)

Item_Handle(kind, item, parent) ==
    [kind |-> kind, item |-> item, parent |-> parent, seek |-> 1,
     queue |-> <<>>, stop |-> FALSE, first |-> 0]

\* IO_Handle::Seek from the beginning, the only way the programs seek:
\* positions are counted from 1.
Seek(h, position) == [h EXCEPT !.seek = position + 1]

Symbols(sector) ==
    [k \in 1..SectorRows |->
        IF ~Unused(sector[k]) /\ "ch" \in DOMAIN sector[k] THEN sector[k].ch ELSE Garbage]

\* The sectors of a text, one more than it fills, zero behind its end.
Text_Sectors(text) ==
    [i \in 1..1 + (Len(text) \div SectorRows) |->
        [k \in 1..SectorRows |->
            LET at == (i - 1) * SectorRows + k
            IN  IF at <= Len(text) THEN [ch |-> text[at]] ELSE Free]]

\* memcpy out of a sector, which may go on behind it.
Copied(symbols, count) ==
    [i \in 1..count |-> IF i <= SectorRows THEN symbols[i] ELSE Garbage]

\* One turn of the loop of File_Handle::Read into a buffer of size n; the
\* tests come in the code's order.
Read_Turn(m, length, n, w) ==
    LET symbols == Symbols(Sector_At(m, Lba(w.at)))
        got     == Len(w.text)
        Last_Copy(count) == [w EXCEPT !.text = @ \o Copied(symbols, count), !.more = FALSE]
    IN  IF ~w.more \/ got >= n THEN [w EXCEPT !.more = FALSE]
        ELSE IF w.at \notin DOMAIN m.table THEN [w EXCEPT !.more = FALSE, !.fault = TRUE]
        ELSE IF length < n THEN Last_Copy(length)
        ELSE IF got + SectorRows > n THEN Last_Copy(got + SectorRows - n)
        ELSE IF Linked(m.table, w.at)
        THEN [w EXCEPT !.text = @ \o symbols, !.at = m.table[w.at]]
        ELSE Last_Copy(length % SectorRows)

\* The number of the sector in the file that the seek points into.
Sector_Of_Seek(seek) == (seek - 1) \div SectorRows

(* Mutant: the chain is not followed to the sector of the seek.            *)
Walk_Stays(table, start, count) == start

\* Find_Sector, which follows the table wherever it leads.
Walk(table, start, count) ==
    FoldLeft(LAMBDA at, i : IF at \in DOMAIN table THEN table[at] ELSE at,
             start, [i \in 1..count |-> i])

\* File_Handle::Read: the text, and whether memory was left on the way (the
\* table behind its end, or the buffer by more than it holds).
File_Read(m, h, n) ==
    LET start == [text |-> <<>>, more |-> TRUE, fault |-> FALSE,
                  at |-> Walk(m.table, h.item.start, Sector_Of_Seek(h.seek))]
        w == FoldLeft(LAMBDA v, i : Read_Turn(m, h.item.length, n, v),
                      start, [i \in 1..(n \div SectorRows) + 1 |-> i])
    IN  IF h.seek - 1 >= h.item.length THEN [text |-> <<>>, fault |-> FALSE]
        ELSE [text |-> w.text, fault |-> w.fault \/ Len(w.text) > n]

---------------------------------------------------------------------------
(* Directories.                                                            *)

\* A row of a text that is read as a directory's is an entry all the same.
As_Entry(row) == IF IsEntry(row) THEN row ELSE [NoItem EXCEPT !.name = row.ch]

Swapped(items, i, j) == [items EXCEPT ![i] = items[j], ![j] = items[i]]

\* Get_Items: the used rows, sorted by the two loops over all pairs.
Get_Items(m, start) ==
    LET rows  == SelectSeq(FlattenSeq(Read_Item(m, start)), LAMBDA row : ~Unused(row))
        items == FoldLeft(LAMBDA v, row : Append(v, As_Entry(row)), <<>>, rows)
        count == Len(items)
    IN  FoldLeft(
            LAMBDA v, n :
                LET i == (n \div count) + 1
                    j == (n % count) + 1
                IN  IF Rank(v[i].name) < Rank(v[j].name) THEN Swapped(v, i, j) ELSE v,
            items, [n \in 1..count * count |-> n - 1])

(* Mutant: subdirectories are listed before what was met earlier.          *)
Queued_In_Front(h, items) ==
    IF h.queue = <<>> THEN SelectSeq(items, LAMBDA entry : entry.dir)
    ELSE <<h.queue[1]>> \o SelectSeq(items, LAMBDA entry : entry.dir) \o Tail(h.queue)

\* The directories still to be listed, in the order they were met.
Queued(h, items) ==
    IF h.seek = 1 THEN h.queue \o SelectSeq(items, LAMBDA entry : entry.dir) ELSE h.queue

\* Directory_Handle::Read: the entries from the seek on, as many as fit.
\* name is that of the directory when it comes from the queue, mark the
\* first byte of the buffer: 0 when there was no room for all.
Directory_Read(m, h) ==
    LET start == IF h.queue # <<>> THEN h.queue[1].start ELSE h.item.start
        items == Get_Items(m, start)
        queue == Queued(h, items)
        first == IF h.first = 0 /\ ~h.stop THEN start ELSE h.first
        full  == Len(items) - (h.seek - 1) > Batch
    IN  [entries |-> SubSeq(items, h.seek, IF full THEN h.seek + Batch - 1 ELSE Len(items)),
         name    |-> IF h.queue # <<>> THEN h.queue[1].name ELSE NoName,
         mark    |-> IF full THEN "00" ELSE IF start = first /\ h.stop THEN "fe" ELSE "ff",
         handle  |-> [h EXCEPT !.stop = TRUE, !.first = first,
                        !.queue = IF ~full /\ queue # <<>> /\ start = queue[1].start
                                    THEN Tail(queue) ELSE queue]]

---------------------------------------------------------------------------
(* Words and lines.                                                        *)

\* The parts of a text between separators, the last one only if it is not
\* empty (std::getline).
Split(text, separator) ==
    LET ends == {i \in DOMAIN text : text[i] = separator} \cup {Len(text) + 1}
        from[i \in 1..Len(text) + 2] ==
            IF i > Len(text) THEN <<>>
            ELSE LET at == CHOOSE j \in ends : i <= j /\ \A k \in ends : i <= k => j <= k
                 IN  <<SubSeq(text, i, at - 1)>> \o from[at + 1]
    IN  from[1]

\* stream >> token: one more symbol of the text.  within says that the last
\* token has not ended.
Token_Turn(v, symbol) ==
    IF symbol = " " THEN [v EXCEPT !.within = FALSE]
    ELSE IF v.within THEN [v EXCEPT !.tokens[Len(v.tokens)] = Append(@, symbol)]
    ELSE [tokens |-> Append(v.tokens, <<symbol>>), within |-> TRUE]

Tokens(text) ==
    LET after[n \in 0..Len(text)] ==
            IF n = 0 THEN [tokens |-> <<>>, within |-> FALSE]
            ELSE Token_Turn(after[n - 1], text[n])
    IN  after[Len(text)].tokens

New_Command(base) ==
    [base |-> base, parameters |-> <<>>, filename |-> <<>>,
     is_pipe |-> FALSE, is_std_in |-> FALSE, is_std_out |-> FALSE]

\* One token of Parse_Commands.  The first one of a command names the
\* program, whatever it is, and all that follows a redirection is glued to
\* one file name.  state is where in the loops the parser is.
Parse_Turn(v, token) ==
    LET n == Len(v.commands)
    IN  CASE v.state = "base" ->
                [commands |-> Append(v.commands, New_Command(token)), state |-> "parameters"]
          [] v.state = "filename" -> [v EXCEPT !.commands[n].filename = @ \o token]
          [] v.state = "parameters" /\ token = <<"|">> ->
                [v EXCEPT !.commands[n].is_pipe = TRUE, !.state = "base"]
          [] v.state = "parameters" /\ token = <<"<">> ->
                [v EXCEPT !.commands[n].is_std_in = TRUE, !.state = "filename"]
          [] v.state = "parameters" /\ token = <<">">> ->
                [v EXCEPT !.commands[n].is_std_out = TRUE, !.state = "filename"]
          [] OTHER ->
                [v EXCEPT !.commands[n].parameters =
                    IF @ = <<>> THEN token ELSE @ \o <<" ">> \o token]

Parse_Commands(tokens) ==
    LET after[n \in 0..Len(tokens)] ==
            IF n = 0 THEN [commands |-> <<>>, state |-> "base"]
            ELSE Parse_Turn(after[n - 1], tokens[n])
    IN  after[Len(tokens)].commands

Before(a, b) ==
    \/ \E n \in 0..Len(a) :
        /\ SubSeq(a, 1, n) = SubSeq(b, 1, n)
        /\ n < Len(b)
        /\ n = Len(a) \/ Rank(a[n + 1]) < Rank(b[n + 1])

\* The output of sort.
Sorted_Lines(text) ==
    FoldLeft(LAMBDA out, line : out \o line \o <<" ">>,
             <<>>, SortSeq(Split(text, "\n"), Before)) \o <<"\n", "\n">>

---------------------------------------------------------------------------
(* find.                                                                   *)

No_Arguments == [ok |-> TRUE, fault |-> FALSE, param |-> FALSE, count |-> FALSE,
                 inverse |-> FALSE, filename |-> <<>>, find_str |-> <<>>, rest |-> <<>>]

\* Where a loop over text stops that runs up to the first of symbols.
Stop_At(text, symbols) ==
    LET stops == {i \in 1..Len(text) : text[i] \in symbols}
    IN  IF stops = {} THEN Len(text) + 1 ELSE CHOOSE i \in stops : \A j \in stops : i <= j

\* One turn of the loop of Parse_Arguments over what is left of the
\* arguments.  The searched text loses its first symbol and keeps the
\* closing quote (substr from start_index + 1), which is harmless only when
\* it is empty; a quote at the very end throws.
Argument_Turn(v) ==
    LET c       == Head(v.rest)
        rest    == Tail(v.rest)
        quote   == Stop_At(rest, {"\""})
        closing == IF quote > Len(rest) THEN Len(rest) ELSE quote
        word    == Stop_At(v.rest, {"\"", " "})
    IN  IF v.rest = <<>> \/ ~v.ok \/ v.fault THEN v
        ELSE IF c = "/" THEN [v EXCEPT !.rest = rest, !.param = TRUE]
        ELSE IF c = " " THEN [v EXCEPT !.rest = rest]
        ELSE IF v.param
        THEN [v EXCEPT !.rest = rest, !.param = FALSE, !.ok = c \in {"v", "c"},
                       !.inverse = @ \/ c = "v", !.count = @ \/ c = "c"]
        ELSE IF c = "\"" /\ rest = <<>> THEN [v EXCEPT !.fault = TRUE]
        ELSE IF c = "\""
        THEN [v EXCEPT !.rest = SubSeq(rest, quote + 1, Len(rest)),
                       !.find_str = IF quote = 1 THEN <<>> ELSE SubSeq(rest, 2, closing)]
        ELSE [v EXCEPT !.rest = SubSeq(v.rest, word + 1, Len(v.rest)),
                       !.filename = SubSeq(v.rest, 1, word - 1)]

Parse_Arguments(text) ==
    LET after[n \in 0..Len(text)] ==
            IF n = 0 THEN [No_Arguments EXCEPT !.rest = text] ELSE Argument_Turn(after[n - 1])
    IN  after[Len(text)]

Found(line, find_str) ==
    IF find_str = <<>> THEN line = <<>>
    ELSE \E i \in 0..Len(line) - Len(find_str) : SubSeq(line, i + 1, i + Len(find_str)) = find_str

(* Mutant: the end of a line is not forgotten after the line was looked at.*)
Line_Step_Unforgotten(f, c, next, flags, find_str) ==
    LET ended == f.new_line \/ Len(f.line) >= LineSize - 1
        hit   == ended /\ Found(f.line, find_str) # flags.inverse
        line  == IF ended THEN <<>> ELSE f.line
    IN  [line     |-> IF c = "\n" THEN line ELSE Append(line, c),
         new_line |-> f.new_line \/ c = "\n" \/ next = "\n",
         count    |-> IF hit THEN f.count + 1 ELSE f.count,
         out      |-> IF hit /\ ~flags.count THEN Append(f.out, f.line \o <<"\n">>) ELSE f.out]

\* The body of find's loop over the bytes of a buffer: the line is looked
\* at when the byte after its end, or the one after its full buffer, is
\* reached; next is the byte that follows.
Line_Step(f, c, next, flags, find_str) ==
    LET ended == f.new_line \/ Len(f.line) >= LineSize - 1
        hit   == ended /\ Found(f.line, find_str) # flags.inverse
        line  == IF ended THEN <<>> ELSE f.line
    IN  [line     |-> IF c = "\n" THEN line ELSE Append(line, c),
         new_line |-> (f.new_line /\ ~ended) \/ c = "\n" \/ next = "\n",
         count    |-> IF hit THEN f.count + 1 ELSE f.count,
         out      |-> IF hit /\ ~flags.count THEN Append(f.out, f.line \o <<"\n">>) ELSE f.out]

\* All bytes of a buffer; behind is what is found behind the last one.
Lines_Step(f, text, behind, flags, find_str) ==
    FoldLeftDomain(
        LAMBDA g, i : Line_Step(g, text[i], IF i < Len(text) THEN text[i + 1] ELSE behind,
                                flags, find_str),
        f, text)
=============================================================================
