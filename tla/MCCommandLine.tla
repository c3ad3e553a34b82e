---------------------------- MODULE MCCommandLine ---------------------------
(***************************************************************************)
(* A volume with sectors of four bytes or entries:                         *)
(*   f "a\nb" (3 bytes), d with w (8 bytes, exactly two sectors), m (6      *)
(*   bytes, more than a sector and less than the buffer of type) and the   *)
(*   directory e, which holds q, x with g (10 bytes, three sectors) and k  *)
(*   (9 bytes, with end codes where a read of sort begins and where a read *)
(*   of type ends).                                                        *)
(* The root directory has one free row in its first sector.  c stands for  *)
(* a name with a short extension.                                          *)
(***************************************************************************)
EXTENDS CommandLine

Item(name, dir, start, length) == [name |-> name, dir |-> dir, start |-> start, length |-> length]
Bytes(text) == [k \in 1..4 |-> IF k <= Len(text) THEN [ch |-> text[k]] ELSE Free]

MCTable == [s \in 0..18 |->
    CASE s = 0 -> Media
      [] s \in {1, 2, 3, 6, 8, 10, 11, 12, 13, 16} -> LAST_SECTOR
      [] s \in {4, 5, 7, 9, 14, 15} -> s + 1
      [] OTHER -> 0]
MCDisk == [lba \in 0..18 |->
    CASE lba = 0  -> <<Item("x", TRUE, 12, 0), Item("f", FALSE, 3, 3), Item("d", TRUE, 2, 0), Free>>
      [] lba = 2  -> <<Item("w", FALSE, 9, 8), Item("e", TRUE, 11, 0), Deleted, Item("m", FALSE, 7, 6)>>
      [] lba = 11 -> <<Free, Item("q", FALSE, 13, 1), Free, Free>>
      [] lba = 12 -> <<Item("g", FALSE, 4, 10), Item("k", FALSE, 14, 9), Free, Free>>
      [] lba = 3  -> Bytes(<<"a", "\n", "b">>)
      [] lba = 4  -> Bytes(<<"\n", "b", "c", "\n">>)
      [] lba = 5  -> Bytes(<<"a", "\n", "\n", "\n">>)
      [] lba = 6  -> Bytes(<<"c", "\n">>)
      [] lba = 7  -> Bytes(<<"a", "a", "b", "b">>)
      [] lba = 8  -> Bytes(<<"c", "c">>)
      [] lba = 9  -> Bytes(<<"a", "b", "c", "\n">>)
      [] lba = 10 -> Bytes(<<"c", "b", "a", "\n">>)
      [] lba = 13 -> Bytes(<<"q">>)
      [] lba = 14 -> Bytes(<<"b", "\n", "a", "\n">>)
      [] lba = 15 -> Bytes(<<"EOT", "a", "b", "EOT">>)
      [] lba = 16 -> Bytes(<<"c">>)
      [] OTHER -> Bytes(<<>>)]
MCImage == [table |-> MCTable, saved |-> MCTable, disk |-> MCDisk]

MCOrder == <<"\n", "a", "b", "c", "d", "e", "f", "g", "k", "m", "n", "q", "w", "x">>

Count == <<"find", " ", "\"", "\"", " ", "/", "v", " ", "/", "c">>
Search == <<"find", " ", "\"", "b", "b", "\"">>

SingleLines == {
    <<"type", " ", "f">>, <<"type", " ", "x", "/", "g">>, <<"type", " ", "d", "/", "m">>,
    <<"type", " ", "/", "d", "/", "w">>, <<"type", " ", "n">>, <<"type", " ", "d">>,
    <<"sort", " ", "f">>, <<"sort", " ", "n", "/", "n">>,
    <<"dir">>, <<"dir", " ", "/", "S">>, <<"dir", " ", "d">>, <<"dir", " ", "f">>,
    Count \o <<" ", "f">>, Count \o <<" ", "x", "/", "g">>, Count \o <<" ", "d", "/", "w">>,
    Search \o <<" ", "x", "/", "g">>, Count \o <<" ", "n">>, <<"find">>,
    <<"find", " ", "/", "x">>, <<"find", " ", "\"">>,
    <<"freq", " ", "f">>, <<"tasklist">>, <<"rd", " ", "d">>, <<"rd", " ", "f">>, <<"rd", " ", "d", "/", "m">>,
    <<"echo">>, <<"echo", " ", "/", "?">>, <<"@echo">>, <<"md", " ", "n", "/", "n">>, <<>>}

Redirected == {
    <<"echo", " ", "a", " ", ">", " ", "f">>, <<"echo", " ", "b", " ", ">", " ", "n">>,
    <<"echo", " ", "b", " ", ">", " ", "n", "/", "n">>, <<"echo", " ", "b", " ", ">", " ", "c">>,
    <<"echo", " ", "b", " ", ">", " ", "d", "/", "c">>, <<"echo", " ", "b", " ", ">", " ", "d", "/", ".">>,
    <<"echo", " ", "b", " ", ">">>, <<"type", " ", "f", " ", ">", " ", "n">>,
    <<"freq", " ", "<", " ", "f">>, <<"sort", " ", "<", " ", "d">>, <<"type", " ", "<", " ", "f">>,
    <<"echo", " ", "a", " ", "<", " ", "n">>}

Pipelines == {
    <<"echo", " ", "a", " ", "|", " ", "sort">>, <<"type", " ", "f", " ", "|", " ", "freq">>,
    <<"dir", " ", "|", " ">> \o Count, <<"type", " ", "f", " ", "|", " ", "type">>,
    <<"type", " ", "x", "/", "g", " ", "|", " ">> \o Search,
    <<"type", " ", "x", "/", "k", " ", "|", " ", "type">>,
    <<"type", " ", "x", "/", "k", " ", "|", " ", "sort">>,
    <<"type", " ", "f", " ", "|", " ", "sort", " ", "|", " ", "freq">>,
    <<"type", " ", "f", " ", "|", " ", "echo", " ", "a">>,
    <<"type", " ", "f", " ", "|", " ", "sort", " ", "<", " ", "f">>,
    Count \o <<" ", "f", " ", "|", " ">> \o Search,
    <<"md", " ", "n", " ", "|", " ", "sort">>, <<"echo", " ", "a", " ", "|">>,
    <<"echo", " ", "a", " ", "|", " ", "cd", " ", "d">>, <<"echo", " ", "a", " ", "|", " ", "b">>,
    <<"tasklist", " ", "|", " ", "sort">>}

Entered(line) == line \o <<"CR">>

Sessions == {
    <<"cd", " ", "d", "CR", "dir", " ", "/", "S", "CR">>,
    <<"cd", " ", "d", "/", "e", "CR", "type", " ", "..", "/", "m", "CR">>,
    <<"cd", " ", "f", "CR", "cd", "CR">>,
    <<"cd", " ", "d", "/", "e", "CR", "echo", " ", ">", " ", "..", "CR">>,
    <<"md", " ", "n", "CR", "dir", "CR", "dir", " ", "n", "CR">>,
    <<"md", " ", "n", "CR", "dir", " ", "/", "S", "CR">>,
    <<"md", " ", "f", "CR", "rd", " ", "d", "/", "e", "CR">>,
    <<"rd", " ", "f", "CR", "type", " ", "f", "CR">>,
    <<"@echo", " ", "off", "CR", "echo", "CR", "@echo", " ", "on", "CR">>,
    <<"\n", "sor", "BS", "BS", "sort", "CR", "b", "CR", "a", "CR", "NUL", "NUL", "exit", "CR">>,
    <<"freq", "CR", "a", "a", "closed">>,
    <<"type", "CR", "a", "CR", "b", "EOT", "a", "a", "a", "a", "a", "a", "EOT", "exit", "CR">>,
    <<"echo", " ", "a">> \o [i \in 1..24 |-> "b"] \o <<"CR">>}

MCScripts == {Entered(line) : line \in SingleLines \cup Redirected \cup Pipelines} \cup Sessions
=============================================================================
