---------------------------- MODULE CommandLine -----------------------------
(***************************************************************************)
(* The shell from the keys the user presses to the end of the command line *)
(* they make up: STD_Handle_In::Read (src/src/kernel/io_handles.cpp), the  *)
(* parser, Execute_Commands (src/src/user/command_executor.cpp), and the   *)
(* programs type, sort, find, dir, freq, echo, md, rd and tasklist, with   *)
(* the table of handles of module HandleTable and the volume of Reading.   *)
(*                                                                         *)
(* A step is one system call of one thread with the computation before or  *)
(* behind it; writes that follow each other, and a Seek and the Read after *)
(* it, are one step.  A pipe keeps what module Channel promises, with room *)
(* for everything (BOUND).  No line lets one program write the file that   *)
(* another one reads (BOUND), so each file call is a step.                 *)
(***************************************************************************)
EXTENDS HandleTable, Reading

CONSTANTS
    Image,       \* the volume the system boots from: [table, saved, disk]
    Scripts,     \* the keys that may be pressed
    LineMax,     \* buffer_size of shell.cpp: 256
    TypeSize,    \* buffer_size of type.cpp: 4096
    MaxPrograms  \* programs that one script starts (BOUND)

ASSUME CommandLineAssumption ==
    /\ Objects \subseteq Nat /\ NoObject = 0
    /\ {LineMax, TypeSize} \subseteq Nat \ {0, 1}
    /\ Image.saved = Image.table
    /\ Scripts \subseteq Seq(STRING)

VARIABLES
    fat12,      \* the volume, see Fat12
    object,     \* what the objects in the table of handles are
    keys,       \* the keys still to be pressed; "closed" is no key but the end of the input
    shown,      \* what the console was given since the line was entered
    globals,    \* is_echo_enabled, print_count, print_inverse of user.dll
    shell,      \* the shell's thread, see Init
    prog,       \* the programs in the order they were started, see New_Program
    fault,      \* undefined behaviour was reached: the simulator is gone
    hasty       \* history: Wait_For has returned while a program of the line was running

vars == <<table_vars, fat12, object, keys, shown, globals, shell, prog, fault, hasty>>

AtRoot == [path |-> <<>>, sector |-> 0]

Absent == [kind |-> "none"]

Init ==
    /\ HandleTable_Init
    /\ fat12 = Image
    /\ object = [o \in Objects |-> Absent]
    /\ keys \in Scripts
    /\ shown = <<>>
    /\ globals = [echo |-> TRUE, count |-> FALSE, inverse |-> FALSE]
    /\ shell = [pc |-> "boot", std_in |-> Invalid_Handle, std_out |-> Invalid_Handle,
                got |-> <<>>, wd |-> AtRoot,
                line |-> <<>>,      \* the commands of the line
                at |-> 1,           \* the one that is next
                first |-> 1,        \* the first program of the line
                mark |-> 0,         \* Last_Handle when the line was entered
                tmp_in |-> Invalid_Handle, tmp_out |-> Invalid_Handle,
                pipes |-> <<>>,     \* pipes_handle_in and pipes_handle_out
                handles |-> <<>>,   \* the programs to be waited for and reaped
                todo |-> <<>>]      \* the handles to be closed
    /\ prog = <<>>
    /\ fault = FALSE
    /\ hasty = FALSE

---------------------------------------------------------------------------
(* Objects.                                                                *)

Kind(o) == IF o = NoObject THEN "none" ELSE object[o].kind

Fresh == CHOOSE o \in Objects : /\ object[o] = Absent
                                /\ \A q \in Objects : object[q] = Absent => o <= q

\* A new object and its number, which is Last_Handle'.  There is one more
\* object (BOUND: the code allocates it).
Enter(record) ==
    /\ \E o \in Objects : object[o] = Absent
    /\ object' = [object EXCEPT ![Fresh] = record]
    /\ \E step \in 1..MaxStep : Convert_Native_Handle(Fresh, step)

\* A path: every symbol but the slash is a name.
Path(text) ==
    LET names[n \in 0..Len(text)] ==
            IF n = 0 THEN <<>>
            ELSE IF text[n] = "/" THEN names[n - 1] ELSE Append(names[n - 1], text[n])
    IN  [abs |-> text # <<>> /\ text[1] = "/", names |-> names[Len(text)]]

Stored_As(path) == IF path.names = <<>> THEN {NoName} ELSE Stored(Last(path.names))

Refused(message) == [fat12 |-> fat12, fault |-> FALSE, message |-> message, handle |-> Absent]

\* The created item is looked for again.  When it is not found (its name is
\* not allowed, or was stored as another one) the handle gets the directory
\* the search came to, and one that is all zero if it came to none.  The
\* search fails, and the item is a null pointer, on a volume without room and
\* for a directory that exists (see Lookup); md does not use it but to close.
Opened_New(made, new, parent, dir) ==
    [fat12 |-> made, fault |-> new.error /\ ~dir,
     message |-> IF made = fat12 THEN <<"Path not found or item already exists.">> ELSE <<>>,
     handle |-> Item_Handle(IF dir THEN "dir" ELSE "file", new.item, parent)]

\* found is what the search before the creation found.
Opened_Created(wd, path, found, made, parent, dir) ==
    Opened_New(made, Lookup(made, wd, path, found), parent, dir)

\* always and dir are those of Opened.
Opened_In(wd, path, got, parent, always, dir, stored) ==
    IF parent.error THEN [Refused(<<>>) EXCEPT !.fault = TRUE]
    ELSE IF always /\ ~got.found THEN Refused(<<"File does not exists.">>)
    ELSE IF always /\ dir # got.item.dir
    THEN Refused(<<IF dir THEN "Expected directory but item is a file."
                          ELSE "Expected file but item is a directory.">>)
    ELSE IF always \/ (got.found /\ ~dir)
    THEN [Refused(<<>>) EXCEPT
            !.handle = Item_Handle(IF dir THEN "dir" ELSE "file", got.item, parent.item.start)]
    ELSE Opened_Created(wd, path, got.found,
            IF got.found \/ stored \in {".", "..", NoName} THEN fat12
            ELSE Create_Item(fat12, parent.item.start, stored, dir), parent.item.start, dir)

Opened_Item(wd, path, got, always, dir, stored) ==
    IF got.error THEN Refused(<<"Path does not exists.">>)
    ELSE Opened_In(wd, path, got, Parent(fat12, wd, got), always, dir, stored)

\* Open_File, which writes its messages to the console whatever the output
\* of the caller is.  always is fmOpen_Always, dir asks for a directory,
\* stored is what a new name is stored as.
Opened(wd, path, always, dir, stored) ==
    Opened_Item(wd, path, Get_Item(fat12, wd, path), always, dir, stored)

\* The effect of an opened record.
Take(opened) ==
    /\ fat12' = opened.fat12
    /\ fault' = opened.fault
    /\ shown' = shown \o opened.message
    /\ IF opened.handle = Absent THEN UNCHANGED <<object, table_vars>>
       ELSE Enter(opened.handle)

\* What the caller of Open_File finds in rax.
Number(opened) == IF opened.handle = Absent THEN Invalid_Handle ELSE Last_Handle'

\* Close_Handle and the Close of the handle's class.
Close_Handle(n) ==
    LET o == Resolve_kiv_os_Handle(n)
    IN  \/ o = NoObject /\ UNCHANGED <<object, table_vars>>
        \/ /\ o # NoObject
           /\ object' = CASE Kind(o) = "pipe_out" -> [object EXCEPT ![o].shut = TRUE]
                          [] Kind(o) = "pipe_in"  -> [object EXCEPT ![object[o].pipe].done = TRUE]
                          [] OTHER -> object
           /\ Remove_Handle(n)

(* Mutant: the length stays in the handle's copy of the entry.             *)
Write_To_File_Length_Kept(o, text) ==
    LET h == object[o]
    IN  /\ fat12' = Write_Item(Remove_Item_Data(fat12, h.item.start),
                               Text_Sectors(text), h.item.start, 0)
        /\ object' = [object EXCEPT ![o].item.length = Len(text), ![o].seek = 1]

\* File_Handle::Write: the text takes the place of what was in the file.
Write_To_File(o, text) ==
    LET h       == object[o]
        item    == [h.item EXCEPT !.length = Len(text)]
        written == Write_Item(Remove_Item_Data(fat12, item.start),
                              Text_Sectors(text), item.start, 0)
        sectors == Read_Item(written, h.parent)
        slot    == FirstSlot(Slots(sectors, LAMBDA row : SameName(row, item)))
        row     == sectors[slot[1]][slot[2]]
    IN  /\ fat12' = IF Listed(written, h.parent, item) /\ row # Free
                    THEN Rewrite_Entry(written, h.parent, item, [row EXCEPT !.length = Len(text)])
                    ELSE written
        /\ object' = [object EXCEPT ![o].item = item, ![o].seek = 1]

\* The write end of a pipe whose read end is closed takes nothing.
Refuses(o) == Kind(o) = "pipe_in" /\ object[object[o].pipe].shut

\* Write_File.
Write_File(n, text) ==
    LET o == Resolve_kiv_os_Handle(n)
    IN  \/ /\ Kind(o) = "console_out"
           /\ shown' = shown \o text
           /\ UNCHANGED <<fat12, object>>
        \/ /\ Kind(o) = "pipe_in"
           /\ object' = IF Refuses(o) THEN object
                        ELSE [object EXCEPT ![object[o].pipe].data = @ \o text]
           /\ UNCHANGED <<fat12, shown>>
        \/ Kind(o) = "file" /\ Write_To_File(o, text) /\ UNCHANGED shown
        \/ Kind(o) = "none" /\ UNCHANGED <<fat12, object, shown>>

---------------------------------------------------------------------------
(* The keyboard.                                                           *)

(* Mutant: the buffer is left when it has one byte too many.               *)
Typed_Past_End(got, key, size) ==
    LET text == CASE key = "BS" /\ got # <<>> -> Front(got)
                  [] key \in {"BS", "\n", "closed"} -> got
                  [] key = "NUL" -> <<>>
                  [] key = "CR" -> Append(got, "\n")
                  [] OTHER -> Append(got, key)
    IN  [text |-> text, done |-> key \in {"NUL", "CR", "closed"} \/ Len(text) > size]

\* One turn of the loop of STD_Handle_In::Read.
Typed(got, key, size) ==
    LET text == CASE key = "BS" /\ got # <<>> -> Front(got)
                  [] key \in {"BS", "\n", "closed"} -> got
                  [] key = "NUL" -> <<>>
                  [] key = "CR" -> Append(got, "\n")
                  [] OTHER -> Append(got, key)
    IN  [text |-> text, done |-> key \in {"NUL", "CR", "closed"} \/ Len(text) >= size]

\* After a line that was not waited for to its end, nothing is typed (BOUND):
\* the programs left behind and the shell would share the keys.
Press ==
    /\ keys # <<>> /\ ~hasty
    /\ keys' = IF Head(keys) = "closed" THEN keys ELSE Tail(keys)

---------------------------------------------------------------------------
(* The shell.                                                              *)

Shell_At(pc) == ~fault /\ shell.pc = pc

\* Bootstrap_Loader opens the console for the shell.
Boot ==
    /\ Shell_At("boot")
    /\ IF shell.std_in = Invalid_Handle
       THEN /\ Enter([kind |-> "console_in"])
            /\ shell' = [shell EXCEPT !.std_in = Last_Handle']
       ELSE /\ Enter([kind |-> "console_out"])
            /\ shell' = [shell EXCEPT !.std_out = Last_Handle', !.pc = "keys"]
    /\ UNCHANGED <<fat12, keys, shown, globals, prog, fault, hasty>>

\* The line without its end; a full buffer loses a key more.
Line_Of(text) ==
    SubSeq(text, 1, IF Len(text) >= LineMax THEN LineMax - 2 ELSE Len(text) - 1)

\* Nothing read means: read again.
Shell_Key ==
    LET typed == Typed(shell.got, Head(keys), LineMax)
        line  == Parse_Commands(Tokens(Line_Of(typed.text)))
    IN  /\ Shell_At("keys") /\ Press
        /\ IF ~typed.done \/ typed.text = <<>>
           THEN shell' = [shell EXCEPT !.got = typed.text] /\ UNCHANGED shown
           ELSE /\ shell' = [shell EXCEPT !.got = <<>>, !.line = line, !.at = 1,
                                !.first = Len(prog) + 1, !.mark = Last_Handle,
                                !.pipes = <<>>, !.handles = <<>>,
                                !.tmp_in = shell.std_in, !.tmp_out = shell.std_out,
                                !.pc = IF Line_Of(typed.text) = <<"exit">> THEN "exited"
                                       ELSE IF line = <<>> THEN "wait" ELSE "command"]
                /\ shown' = <<>>
        /\ UNCHANGED <<table_vars, fat12, object, globals, prog, fault, hasty>>

Command == shell.line[shell.at]

\* rgen, shutdown, shell and exit are commands too, see module Session (BOUND).
Programs == {<<"type">>, <<"md">>, <<"rd">>, <<"dir">>, <<"@echo">>, <<"echo">>,
             <<"find">>, <<"sort">>, <<"freq">>, <<"tasklist">>}

\* The rest of the line is not looked at, and what was started is left alone.
Unknown_Command ==
    /\ Shell_At("command") /\ Command.base \notin Programs \cup {<<"cd">>}
    /\ shown' = shown \o <<"Unknown command.">>
    /\ shell' = [shell EXCEPT !.pc = "keys"]
    /\ UNCHANGED <<table_vars, fat12, object, keys, globals, prog, fault, hasty>>

\* The same with cd.
Change_Directory ==
    LET path == Path(Command.parameters)
        got  == Get_Item(fat12, shell.wd, path)
        ok   == Command.parameters = <<>> \/ (got.found /\ got.item.dir)
    IN  /\ Shell_At("command") /\ Command.base = <<"cd">>
        /\ shown' = IF ok THEN shown ELSE shown \o <<"The system cannot find the listed path.">>
        /\ shell' = [shell EXCEPT !.pc = "keys",
                        !.wd = IF ok /\ Command.parameters # <<>>
                               THEN [path |-> got.path, sector |-> got.item.start] ELSE @]
        /\ UNCHANGED <<table_vars, fat12, object, keys, globals, prog, fault, hasty>>

Prepare_Command ==
    /\ Shell_At("command") /\ Command.base \in Programs
    /\ shell' = [shell EXCEPT !.tmp_in = shell.std_in, !.tmp_out = shell.std_out,
                    !.pc = IF Command.is_std_in \/ Command.is_std_out THEN "redirect"
                           ELSE IF Command.is_pipe THEN "pipe" ELSE "create"]
    /\ UNCHANGED <<table_vars, fat12, object, keys, shown, globals, prog, fault, hasty>>

\* Only the last command of a line can be redirected.
Redirect ==
    /\ Shell_At("redirect")
    /\ \E stored \in Stored_As(Path(Command.filename)) :
        \E opened \in {Opened(shell.wd, Path(Command.filename), Command.is_std_in, FALSE, stored)} :
            /\ Take(opened)
            /\ shell' = [shell EXCEPT !.pc = "create",
                            !.tmp_in = IF Command.is_std_in THEN Number(opened) ELSE @,
                            !.tmp_out = IF Command.is_std_out THEN Number(opened) ELSE @]
    /\ UNCHANGED <<keys, globals, prog, hasty>>

\* Create_Pipe gives out the number of the read end, then the other one.
Create_Pipe ==
    /\ \/ /\ Shell_At("pipe")
          /\ Enter([kind |-> "pipe_out", data |-> <<>>, done |-> FALSE, shut |-> FALSE])
          /\ shell' = [shell EXCEPT !.pc = "pipe_in",
                          !.pipes = Append(@, [in |-> Last_Handle', out |-> Invalid_Handle,
                                               pipe |-> Fresh])]
       \/ /\ Shell_At("pipe_in")
          /\ Enter([kind |-> "pipe_in", pipe |-> Last(shell.pipes).pipe])
          /\ shell' = [shell EXCEPT !.pc = "create", !.tmp_out = Last_Handle',
                          !.pipes[Len(shell.pipes)].out = Last_Handle']
    /\ UNCHANGED <<fat12, keys, shown, globals, prog, fault, hasty>>

No_Lines == [line |-> <<>>, new_line |-> FALSE, count |-> 0, out |-> <<>>]

\* A program up to its first system call.
New_Program(name, args, in, out, wd) ==
    LET waits  == IF args = <<>> THEN "read" ELSE "open"
        start  == [echo |-> "echo", find |-> "reset", rd |-> "delete", md |-> "open",
                   dir |-> "open", tasklist |-> "open", sort |-> waits, type |-> waits,
                   freq |-> IF args = <<>> THEN "read" ELSE "write"]
    IN  [name |-> name, args |-> args, in |-> in, out |-> out, wd |-> wd,
         pc |-> start[name],
         exited |-> FALSE, reaped |-> FALSE,
         file |-> Invalid_Handle,       \* the handle it has opened itself
         position |-> 0,                \* and the position it will read from
         source |-> NoObject,           \* the pipe it reads from
         got |-> <<>>,                  \* what it has read with its last call
         text |-> <<>>,                 \* all it has read so far
         texts |-> IF args = <<>> THEN <<>> ELSE <<<<"Invalid arguments.">>>>,
                                        \* what it has still to write
         next |-> "exit",               \* where it goes on after a write
         lines |-> No_Lines, find |-> No_Arguments,
         dirs |-> 0, files |-> 0, end_dir |-> FALSE]

(* Mutant: the read end of the pipe is given to the first program only.    *)
Input_Of_First(s) == IF s.at = 2 THEN s.pipes[1].in ELSE s.tmp_in

\* handle_in_tmp: a pipe comes before a redirection.
Input(s) == IF s.at > 1 THEN s.pipes[s.at - 1].in ELSE s.tmp_in

Create_Process ==
    LET c    == Command
        echo == c.base = <<"@echo">>
    IN  /\ Shell_At("create")
        /\ prog' = Append(prog,
                New_Program(IF echo THEN "echo" ELSE c.base[1],
                            IF echo THEN <<"@">> \o c.parameters ELSE c.parameters,
                            Input(shell), shell.tmp_out, shell.wd))
        /\ shell' = [shell EXCEPT !.at = @ + 1, !.tmp_in = Input(shell),
                        !.handles = Append(@, Len(prog) + 1),
                        !.pc = IF shell.at = Len(shell.line) THEN "wait" ELSE "command"]
        /\ UNCHANGED <<table_vars, fat12, object, keys, shown, globals, fault, hasty>>

(* Mutant: the handles of the files stay open.                             *)
Closed_At_End_Pipes_Only(s) ==
    [i \in DOMAIN s.pipes |-> s.pipes[i].out] \o [i \in DOMAIN s.pipes |-> s.pipes[i].in]

\* What Execute_Commands closes at its end: the write ends, the read ends,
\* and what the last command was given for a file.
Closed_At_End(s) ==
    [i \in DOMAIN s.pipes |-> s.pipes[i].out] \o [i \in DOMAIN s.pipes |-> s.pipes[i].in]
    \o (IF s.line # <<>> /\ Last(s.line).is_std_in THEN <<s.tmp_in>> ELSE <<>>)
    \o (IF s.line # <<>> /\ Last(s.line).is_std_out THEN <<s.tmp_out>> ELSE <<>>)

Running == {p \in ToSet(shell.handles) : ~prog[p].exited}

\* Wait_For comes back at once when one program has exited already.
Wait_For ==
    /\ Shell_At("wait")
    /\ IF Running = ToSet(shell.handles)
       THEN shell' = [shell EXCEPT !.pc = "sleep"] /\ UNCHANGED hasty
       ELSE /\ shell' = [shell EXCEPT !.pc = "end", !.todo = Closed_At_End(shell)]
            /\ hasty' = (Running # {})
    /\ UNCHANGED <<table_vars, fat12, object, keys, shown, globals, prog, fault>>

(* Mutant: one notification ends the sleep.                                *)
Woken_By_First(running, handles) == running # handles \/ handles = {}

\* Stop sleeps as long as a handle has not been signalled.
Woken(running, handles) == running = {}

Wake ==
    /\ Shell_At("sleep") /\ Woken(Running, ToSet(shell.handles))
    /\ shell' = [shell EXCEPT !.pc = "end", !.todo = Closed_At_End(shell)]
    /\ UNCHANGED <<table_vars, fat12, object, keys, shown, globals, prog, fault, hasty>>

\* Whatever the program is doing.
Read_Exit_Code ==
    /\ Shell_At("end") /\ shell.handles # <<>>
    /\ prog' = [prog EXCEPT ![Head(shell.handles)].reaped = TRUE]
    /\ shell' = [shell EXCEPT !.handles = Tail(@)]
    /\ UNCHANGED <<table_vars, fat12, object, keys, shown, globals, fault, hasty>>

Close_Handles ==
    /\ Shell_At("end") /\ shell.handles = <<>>
    /\ IF shell.todo = <<>>
       THEN shell' = [shell EXCEPT !.pc = "keys"] /\ UNCHANGED <<object, table_vars>>
       ELSE shell' = [shell EXCEPT !.todo = Tail(@)] /\ Close_Handle(Head(shell.todo))
    /\ UNCHANGED <<fat12, keys, shown, globals, prog, fault, hasty>>

Shell ==
    \/ Boot \/ Shell_Key
    \/ Unknown_Command \/ Change_Directory \/ Prepare_Command
    \/ Redirect \/ Create_Pipe \/ Create_Process
    \/ Wait_For \/ Wake \/ Read_Exit_Code \/ Close_Handles

---------------------------------------------------------------------------
(* What the programs make of what they read.  These are computations: the  *)
(* result is the program at its next system call.                          *)

Has_File(r) == r.file # Invalid_Handle

\* The buffer a program reads into.
Size(r) == CASE r.name = "freq" -> 1 [] r.name = "type" -> TypeSize [] OTHER -> LineSize

Goes_On(r, text) == [r EXCEPT !.text = @ \o text, !.position = @ + Len(text), !.pc = "read"]

\* Each of the texts is written with a call of its own.
Writes(r, texts, next) == [r EXCEPT !.texts = texts, !.pc = "write", !.next = next]

\* The last byte of what was read.
Is_Type_End_Code(text) == text # <<>> /\ Last(text) \in {"NUL", "ETX", "EOT", "SUB"}

\* sort closes its file before it writes, and takes an EOT for the end.
Sort_Received(r, text) ==
    IF text # <<>> /\ text[1] # "EOT" THEN Goes_On(r, text)
    ELSE [Writes(r, <<Sorted_Lines(r.text)>>, "exit") EXCEPT !.pc = IF Has_File(r) THEN "close" ELSE @]

\* A file of its own type does not look at for end codes.
Type_Received(r, text) ==
    LET ends == Is_Type_End_Code(text)
        kept == IF ends THEN Front(text) ELSE text
    IN  IF Has_File(r)
        THEN IF text # <<>> THEN Goes_On(r, text) ELSE Writes(r, <<Append(r.text, "\n")>>, "close")
        ELSE IF kept = <<>> THEN [r EXCEPT !.pc = "exit"]
        ELSE Writes(r, <<<<"\n">>, kept>>, IF ends THEN "exit" ELSE "read")

\* The bytes in order, each with how often it was read.
Frequencies(text) ==
    FlattenSeq([i \in DOMAIN Order |->
        LET n == Len(SelectSeq(text, LAMBDA symbol : symbol = Order[i]))
        IN  IF n = 0 THEN <<>> ELSE <<<<Order[i], ToString(n)>>>>]) \o <<<<"\n">>>>

Freq_Received(r, text) ==
    IF text # <<>> THEN Goes_On(r, text) ELSE Writes(r, Frequencies(r.text), "exit")

Find_Received(r, text) ==
    [r EXCEPT !.got = text, !.pc = IF text = <<>> THEN "count" ELSE "lines"]

Received(r, text) ==
    CASE r.name = "sort" -> Sort_Received(r, text)
      [] r.name = "type" -> Type_Received(r, text)
      [] r.name = "freq" -> Freq_Received(r, text)
      [] r.name = "find" -> Find_Received(r, text)

Subdirectories(r) == r.args = <<"/", "S">>

\* What dir prints for the entries it was given.
Listing(r, d) ==
    (IF Subdirectories(r) /\ r.end_dir /\ d.name # NoName THEN <<<<"\n", d.name, "------------">>>>
                                                          ELSE <<>>)
    \o [i \in DOMAIN d.entries |->
            <<IF d.entries[i].dir THEN "<DIR>" ELSE "     ", d.entries[i].name>>]

Summary(r) == <<"File(s): ", ToString(r.files), "Dir(s): ", ToString(r.dirs)>>

\* dir goes on after a directory only with /S, and ends at the first answer
\* without entries or with the mark of the end.
Dir_Received(r, d) ==
    LET dirs == Len(SelectSeq(d.entries, LAMBDA entry : entry.dir))
        over == Subdirectories(r) /\ d.mark = "ff"
        read == [r EXCEPT !.dirs = @ + dirs, !.files = @ + Len(d.entries) - dirs,
                          !.position = IF over THEN 0 ELSE @ + Len(d.entries),
                          !.end_dir = over \/ (@ /\ d.name = NoName)]
    IN  IF d.entries = <<>> \/ d.mark = "fe" THEN Writes(r, <<Summary(r)>>, "close")
        ELSE Writes(read, Listing(r, d),
                IF Subdirectories(r) \/ d.mark # "ff" THEN "read" ELSE "summary")

---------------------------------------------------------------------------
(* The system calls of the programs.                                       *)

At(p, pc) == ~fault /\ p \in DOMAIN prog /\ prog[p].pc = pc

Only(p, r) == prog' = [prog EXCEPT ![p] = r]

Input_Handle(r) == IF Has_File(r) THEN r.file ELSE r.in

Asked(r) == CASE r.name = "dir"  -> Path(IF Subdirectories(r) THEN <<>> ELSE r.args)
              [] r.name = "find" -> Path(r.find.filename)
              [] OTHER           -> Path(r.args)

\* A program with the number Open_File gave it.
Continued(r, number) ==
    LET s == [r EXCEPT !.file = number]
    IN  CASE r.name = "md" -> [s EXCEPT !.pc = "close"]
          [] r.name = "dir" /\ ~Has_File(s) -> [s EXCEPT !.pc = "exit"]
          [] r.name # "dir" /\ ~Has_File(s) -> Writes(s, <<<<"File not found.">>>>, "exit")
          [] r.name = "find" /\ Has_File(s) ->
                Writes(s, <<<<"---------- ">> \o r.find.filename \o <<"\n">>>>, "read")
          [] OTHER -> [s EXCEPT !.pc = "read"]

\* A program that was reaped while it ran has no process any more.
Open_File(p) ==
    LET r == prog[p]
    IN  \E stored \in Stored_As(Asked(r)) :
        \E opened \in {IF r.reaped THEN [Refused(<<>>) EXCEPT !.fault = TRUE]
                       ELSE IF r.name = "tasklist"
                       THEN [Refused(<<>>) EXCEPT !.handle = [kind |-> "procfs"]]
                       ELSE Opened(r.wd, Asked(r), r.name # "md", r.name \in {"dir", "md"}, stored)} :
            /\ Take(opened)
            /\ Only(p, Continued(r, Number(opened)))
            /\ UNCHANGED <<keys, globals, shell, hasty>>

\* A program that reads from a number without an object finds the number
\* of the system call in rax, takes it for a length and never ends.
Read_Nothing(p) ==
    /\ Kind(Resolve_kiv_os_Handle(Input_Handle(prog[p]))) = "none"
    /\ Only(p, [prog[p] EXCEPT !.pc = "adrift"])
    /\ UNCHANGED <<object, fault>>

Start_Waiting(p) ==
    LET o == Resolve_kiv_os_Handle(Input_Handle(prog[p]))
    IN  /\ Kind(o) \in {"console_in", "pipe_out"}
        /\ Only(p, [prog[p] EXCEPT !.pc = Kind(o), !.got = <<>>, !.source = o])
        /\ UNCHANGED <<object, fault>>

\* A file that was opened by the shell is never sought in, so its first
\* bytes are read again and again: the program is given up here (BOUND).
Read_From_File(p) ==
    LET r    == prog[p]
        o    == Resolve_kiv_os_Handle(Input_Handle(r))
        h    == IF Has_File(r) THEN Seek(object[o], r.position) ELSE object[o]
        read == File_Read(fat12, h, Size(r))
    IN  /\ Kind(o) = "file"
        /\ object' = [object EXCEPT ![o] = h]
        /\ fault' = read.fault
        /\ Only(p, IF Has_File(r) \/ read.text = <<>> THEN Received(r, read.text)
                   ELSE [r EXCEPT !.pc = "adrift"])

Read_From_Directory(p) ==
    LET r == prog[p]
        o == Resolve_kiv_os_Handle(r.file)
        d == Directory_Read(fat12, Seek(object[o], r.position))
    IN  /\ Kind(o) = "dir"
        /\ object' = [object EXCEPT ![o] = d.handle]
        /\ Only(p, Dir_Received(r, d))
        /\ UNCHANGED fault

\* Procfs_Handle::Read walks the process table without its mutex.
Read_From_Procfs(p) ==
    LET alive == SelectSeq([i \in DOMAIN prog |-> i], LAMBDA i : ~prog[i].reaped)
    IN  /\ Kind(Resolve_kiv_os_Handle(prog[p].file)) = "procfs"
        /\ fault' \in {FALSE, Shell_At("create") \/ (Shell_At("end") /\ shell.handles # <<>>)}
        /\ Only(p, Writes(prog[p], <<<<"kernel", "shell">>
                    \o [i \in DOMAIN alive |-> prog[alive[i]].name], <<"\n">>>>, "close"))
        /\ UNCHANGED object

Read_File(p) ==
    /\ \/ Read_Nothing(p) \/ Start_Waiting(p)
       \/ Read_From_File(p) \/ Read_From_Directory(p) \/ Read_From_Procfs(p)
    /\ UNCHANGED <<table_vars, fat12, keys, shown, globals, shell, hasty>>

Read_Key(p) ==
    LET r     == prog[p]
        typed == Typed(r.got, Head(keys), Size(r))
    IN  /\ Press
        /\ Only(p, IF typed.done THEN Received(r, typed.text) ELSE [r EXCEPT !.got = typed.text])
        /\ UNCHANGED <<table_vars, fat12, object, shown, globals, shell, fault, hasty>>

\* Pipe_Handle::Read: a full buffer, or all there is once the writer is done.
Consume(p) ==
    LET r    == prog[p]
        data == object[r.source].data
        n    == IF Len(data) < Size(r) THEN Len(data) ELSE Size(r)
    IN  /\ n = Size(r) \/ object[r.source].done
        /\ object' = [object EXCEPT ![r.source].data = SubSeq(@, n + 1, Len(@))]
        /\ Only(p, [Received(r, SubSeq(data, 1, n)) EXCEPT !.got = SubSeq(data, 1, n)])
        /\ UNCHANGED <<table_vars, fat12, keys, shown, globals, shell, fault, hasty>>

\* type gives up without Exit when nothing was taken from it.
Write_Text(p) ==
    LET r       == prog[p]
        refused == r.name = "type" /\ ~Has_File(r) /\ Refuses(Resolve_kiv_os_Handle(r.out))
    IN  /\ Write_File(r.out, Head(r.texts))
        /\ Only(p, [r EXCEPT !.texts = Tail(@),
                             !.pc = IF refused THEN "left"
                                    ELSE IF Len(r.texts) = 1 THEN r.next ELSE "write"])
        /\ UNCHANGED <<table_vars, keys, globals, shell, fault, hasty>>

Summarize(p) ==
    /\ Only(p, Writes(prog[p], <<Summary(prog[p])>>, "close"))
    /\ UNCHANGED <<table_vars, fat12, object, keys, shown, globals, shell, fault, hasty>>

\* After the file sort still has to write.
Close_File(p) ==
    /\ Close_Handle(prog[p].file)
    /\ Only(p, [prog[p] EXCEPT !.pc = IF prog[p].name = "sort" THEN "write" ELSE "exit"])
    /\ UNCHANGED <<fat12, keys, shown, globals, shell, fault, hasty>>

\* find first sets its two globals back, whoever else is using them.
Reset_Find(p) ==
    /\ globals' = [globals EXCEPT !.count = FALSE, !.inverse = FALSE]
    /\ Only(p, [prog[p] EXCEPT !.pc = "parse"])
    /\ UNCHANGED <<table_vars, fat12, object, keys, shown, shell, fault, hasty>>

Parse_Find(p) ==
    LET r      == prog[p]
        parsed == Parse_Arguments(r.args)
        s      == [r EXCEPT !.find = parsed]
    IN  /\ globals' = [globals EXCEPT !.count = @ \/ parsed.count, !.inverse = @ \/ parsed.inverse]
        /\ fault' = parsed.fault
        /\ Only(p, IF r.args = <<>> \/ ~parsed.ok THEN Writes(s, <<<<"Invalid arguments.">>>>, "exit")
                   ELSE [s EXCEPT !.pc = IF parsed.filename = <<>> THEN "read" ELSE "open"])
        /\ UNCHANGED <<table_vars, fat12, object, keys, shown, shell, hasty>>

\* A full buffer is looked at past its end.
Find_Lines(p) ==
    LET r == prog[p]
    IN  \E behind \in IF Len(r.got) < LineSize THEN {"NUL"} ELSE {"\n", Garbage} :
        LET lines == Lines_Step([r.lines EXCEPT !.out = <<>>], r.got, behind, globals, r.find.find_str)
        IN  /\ Only(p, [Writes(r, lines.out, "read") EXCEPT
                        !.lines = lines, !.position = @ + Len(r.got),
                        !.pc = IF lines.out = <<>> THEN "read" ELSE @])
            /\ UNCHANGED <<table_vars, fat12, object, keys, shown, globals, shell, fault, hasty>>

Find_Count(p) ==
    LET after == IF Has_File(prog[p]) THEN "close" ELSE "exit"
    IN  /\ Only(p, IF globals.count THEN Writes(prog[p], <<<<": ", ToString(prog[p].lines.count)>>>>, after)
                   ELSE [prog[p] EXCEPT !.pc = after])
        /\ UNCHANGED <<table_vars, fat12, object, keys, shown, globals, shell, fault, hasty>>

Echo(p) ==
    LET r == prog[p]
        switch == r.args \in {<<"@", "on">>, <<"@", "off">>}
        help == <<"Enable or disable ECHO command:">>
        text == CASE r.args = <<>> -> <<IF globals.echo THEN "ECHO is enabled." ELSE "ECHO is disabled.">>
                  [] r.args = <<"@">> -> <<"ERROR: ">> \o help
                  [] r.args = <<"/", "?">> -> help
                  [] OTHER -> Append(r.args, "\n")
    IN  /\ globals' = [globals EXCEPT !.echo = IF switch THEN r.args[2] = "on" ELSE @]
        /\ Only(p, IF switch THEN [r EXCEPT !.pc = "exit"] ELSE Writes(r, <<text>>, "exit"))
        /\ UNCHANGED <<table_vars, fat12, object, keys, shown, shell, fault, hasty>>

\* Delete_File, which rd is for.
Delete_File(p) ==
    LET r == prog[p]
    IN  \E got \in {Get_Item(fat12, r.wd, Path(r.args))} :
        \E parent \in {Remove_Parent(fat12, r.wd, got)} :
        LET goes == /\ r.args # <<>> /\ got.found /\ ~IsRoot(got)
                    /\ Is_Directory_Empty(fat12, got.item)
        IN  /\ fault' = (r.reaped \/ (goes /\ parent.error))
            /\ fat12' = IF goes /\ ~parent.error /\ ~r.reaped
                        THEN Remove_Item(fat12, parent.item.start, got.item) ELSE fat12
            /\ Only(p, [r EXCEPT !.pc = "exit"])
            /\ UNCHANGED <<table_vars, object, keys, shown, globals, shell, hasty>>

(* Mutant: echo passes Exit a 0 for its output, too.                       *)
Hangs_Up_But_Echo(name) == name \notin {"md", "rd", "echo"}

\* The programs that tell Exit what their output is.
Hangs_Up(name) == name \notin {"md", "rd"}

\* Exit, first the system call of that name.
Exit(p) ==
    /\ Only(p, [prog[p] EXCEPT !.exited = TRUE,
                               !.pc = IF Hangs_Up(prog[p].name) THEN "hang_up" ELSE "gone"])
    /\ UNCHANGED <<table_vars, fat12, object, keys, shown, globals, shell, fault, hasty>>

\* Then Close_Handle with 0xFFFF in rbx: a write end is closed but keeps its
\* number, and an output that is gone is a null dereference.
Hang_Up(p) ==
    LET o == Resolve_kiv_os_Handle(prog[p].out)
    IN  /\ fault' = (o = NoObject)
        /\ object' = IF Kind(o) = "pipe_in" THEN [object EXCEPT ![object[o].pipe].done = TRUE]
                     ELSE object
        /\ Only(p, [prog[p] EXCEPT !.pc = IF o = NoObject THEN "lost" ELSE "gone"])
        /\ UNCHANGED <<table_vars, fat12, keys, shown, globals, shell, hasty>>

Program(p) ==
    \/ At(p, "open") /\ Open_File(p)
    \/ At(p, "read") /\ Read_File(p)
    \/ At(p, "console_in") /\ Read_Key(p)
    \/ At(p, "pipe_out") /\ Consume(p)
    \/ At(p, "write") /\ Write_Text(p)
    \/ At(p, "summary") /\ Summarize(p)
    \/ At(p, "close") /\ Close_File(p)
    \/ At(p, "reset") /\ Reset_Find(p)
    \/ At(p, "parse") /\ Parse_Find(p)
    \/ At(p, "lines") /\ Find_Lines(p)
    \/ At(p, "count") /\ Find_Count(p)
    \/ At(p, "echo") /\ Echo(p)
    \/ At(p, "delete") /\ Delete_File(p)
    \/ At(p, "exit") /\ Exit(p)
    \/ At(p, "hang_up") /\ Hang_Up(p)

Next == Shell \/ \E p \in DOMAIN prog : Program(p)

\* ENABLED Shell and ENABLED Program(p), which TLC is too slow to evaluate.
Shell_Ready ==
    /\ ~fault /\ shell.pc # "exited"
    /\ shell.pc = "keys" => keys # <<>> /\ ~hasty
    /\ shell.pc = "sleep" => Woken(Running, ToSet(shell.handles))

Ready(p) ==
    /\ ~fault /\ p \in DOMAIN prog /\ prog[p].pc \notin {"adrift", "left", "gone"}
    /\ prog[p].pc = "console_in" => keys # <<>> /\ ~hasty
    /\ prog[p].pc = "pipe_out" => \/ object[prog[p].source].done
                                  \/ Len(object[prog[p].source].data) >= Size(prog[p])

\* WF_vars(Shell) and WF_vars(Program(p)): the threads are the operating
\* system's, which lets each of them run; the keys of a script are pressed.
Fairness ==
    /\ []<>~Shell_Ready \/ []<><<Shell>>_vars
    /\ \A p \in 1..MaxPrograms : []<>~Ready(p) \/ []<><<Program(p)>>_vars

CommandLine_Spec == Init /\ [][Next]_vars /\ Fairness

---------------------------------------------------------------------------
(* Properties.                                                             *)

\* Every handle is a number or 65535, no buffer holds more than fits, and
\* who waits for a key has room for it.
CommandLineTypeOK ==
    /\ HandleTypeOK
    /\ shell.pc \in {"boot", "keys", "command", "redirect", "pipe", "pipe_in", "create",
                     "wait", "sleep", "end", "exited"}
    /\ Len(shell.got) < LineMax
    /\ Len(prog) <= MaxPrograms
    /\ \A p \in DOMAIN prog :
        /\ prog[p].file \in Numbers
        /\ Len(prog[p].got) <= Size(prog[p])
        /\ prog[p].pc = "console_in" => Len(prog[p].got) < Size(prog[p])
        /\ prog[p].pc = "write" => prog[p].texts # <<>>
    /\ {fault, hasty} \subseteq BOOLEAN

\* The shell has the whole line behind it and waits for the next one.
Prompted == ~fault /\ shell.pc = "keys" /\ shell.line # <<>> /\ shell.at > Len(shell.line)

Line_Programs == shell.first..Len(prog)

\* Waited for to its end, and no program of an earlier line is left.
Undisturbed ==
    /\ Prompted /\ ~hasty
    /\ \A p \in 1..shell.first - 1 : prog[p].pc = "gone"

\* A file that is read is the one its path ends with.  One that is written
\* may be a directory on the way to it instead, see Opened_New.
Named(c, item) ==
    LET names == Path(c.filename).names
    IN  item.name \in
            IF c.is_std_in /\ names # <<>> /\ Last(names) # ".." THEN {Last(names)}
            ELSE {NoName} \cup ToSet(shell.wd.path) \cup ToSet(names)

\* While a line runs, every program has what the line says: it reads from
\* the pipe its predecessor writes to, and only the ends of the line have
\* the console or the file named there.
ConnectedAsTyped ==
    (~fault /\ ~hasty /\ shell.pc \in {"command", "redirect", "pipe", "pipe_in", "create",
                                       "wait", "sleep"}) =>
        \A p \in Line_Programs :
            LET i   == p - shell.first + 1
                c   == shell.line[i]
                in  == Resolve_kiv_os_Handle(prog[p].in)
                out == Resolve_kiv_os_Handle(prog[p].out)
            IN  /\ i > 1 => /\ Kind(in) = "pipe_out"
                            /\ object[Resolve_kiv_os_Handle(prog[p - 1].out)].pipe = in
                /\ i = 1 => IF c.is_std_in THEN Kind(in) = "file" => Named(c, object[in].item)
                            ELSE Kind(in) = "console_in"
                /\ c.is_pipe => Kind(out) = "pipe_in"
                /\ ~c.is_pipe => IF c.is_std_out THEN Kind(out) = "file" => Named(c, object[out].item)
                                 ELSE Kind(out) = "console_out"

\* At the prompt nothing that the line opened is open any more, whichever
\* programs it ran, whether they found their files or not.  The file that a
\* program behind a pipe was to read instead is the exception: its handle
\* is forgotten.
LineHandlesClosed ==
    (Undisturbed /\ ~(Len(shell.line) > 1 /\ Last(shell.line).is_std_in)) =>
        \A o \in Objects : held[o] # Unheld => held[o] <= shell.mark

\* The program reads its standard input to the end.
Reads(c) ==
    \/ c.base \in {<<"type">>, <<"sort">>, <<"freq">>} /\ c.parameters = <<>>
    \/ c.base = <<"find">> /\ c.parameters # <<>>
        /\ LET parsed == Parse_Arguments(c.parameters)
           IN  parsed.ok /\ parsed.filename = <<>>

\* An item that rd may have been given is in the root directory: to remove
\* any other one is the end of the simulator.
At_Root(path) == path.names = <<>> \/ (Len(path.names) = 1 /\ (path.abs \/ shell.wd.path = <<>>))

\* Every program but the first waits for the one before it, and the output
\* of the last one is the console.
Orderly(line) ==
    /\ \A i \in 2..Len(line) : Reads(line[i])
    /\ \A i \in DOMAIN line :
        /\ ~line[i].is_std_out /\ ~(i = Len(line) /\ line[i].is_pipe)
        /\ ~(line[i].base = <<"freq">> /\ line[i].is_std_in)
        /\ line[i].base # <<"tasklist">>
        /\ line[i].base = <<"rd">> => At_Root(Path(line[i].parameters))
        /\ line[i].base = <<"find">> =>
            ~Parse_Arguments(line[i].parameters).fault

\* The program behind a pipe stopped at an end code in it.
Stopped(p) ==
    /\ p > shell.first /\ prog[p].got # <<>>
    /\ \/ prog[p].name = "type" /\ Is_Type_End_Code(prog[p].got)
       \/ prog[p].name = "sort" /\ prog[p].got[1] = "EOT"

\* Exit closes the output of a program that has been reported as exited, so
\* the shell may have closed it first.  In an orderly line that is waited
\* for to its end it has only if a program did not read what the one before
\* it wrote to its end, when no earlier line has left programs behind.
OrderlyLinesHold ==
    (fault /\ Orderly(shell.line) /\ \A p \in 1..shell.first - 1 : prog[p].pc = "gone")
        => hasty \/ \E p \in DOMAIN prog : Stopped(p)

\* A line comes back to the prompt, unless it reads a file by redirection
\* (which is read from its start for ever) or from a file that does not
\* exist, or pipes the output of md or rd, which nobody ends; the keyboard
\* is at some time ended by whoever lets a program read from it.
LineEnds ==
    (/\ shell.pc = "command" /\ shell.at = 1
     /\ \A i \in DOMAIN shell.line :
        /\ ~shell.line[i].is_std_in
        /\ shell.line[i].is_pipe => shell.line[i].base \notin {<<"md">>, <<"rd">>}
     /\ Reads(shell.line[1]) => \E i \in DOMAIN keys : keys[i] \in {"NUL", "closed"})
    ~> (shell.pc = "keys" \/ fault)

\* The line is one program without redirection, and nobody else ran.
Alone(name) ==
    /\ Undisturbed /\ Len(shell.line) = 1 /\ shell.line[1].base = <<name>>
    /\ ~shell.line[1].is_pipe /\ ~shell.line[1].is_std_in /\ ~shell.line[1].is_std_out

Asked_Item(text) == Get_Item(fat12, shell.wd, Path(text))

\* The bytes of a file.
Contents(item) ==
    SubSeq(FlattenSeq([i \in DOMAIN Chain(fat12.table, item.start) |->
                Symbols(Sector_At(fat12, Lba(Chain(fat12.table, item.start)[i])))]),
           1, item.length)

\* A file that is shorter than the buffer it is read into is taken from its
\* first sector; one that ends with its last sector loses it.
Readable(item, size) ==
    IF item.length < size THEN item.length <= SectorRows
    ELSE item.length % SectorRows # 0

\* type shows the bytes the file's chain holds, in order and once, through
\* all reads, positions and sectors (the readable ones).
ShownAsStored ==
    (Alone("type") /\ ~Reads(shell.line[1])) =>
        LET got == Asked_Item(shell.line[1].parameters)
        IN  (got.found /\ ~got.item.dir /\ Readable(got.item, TypeSize)) =>
                shown = Append(Contents(got.item), "\n")

\* The entries of a directory in the order of their names.
Entries(start) ==
    LET rows == SelectSeq(FlattenSeq(Read_Item(fat12, start)), LAMBDA row : ~Unused(row))
    IN  SortSeq([i \in DOMAIN rows |-> As_Entry(rows[i])], LAMBDA a, b : Rank(a.name) < Rank(b.name))

Inner(entries) == SelectSeq(entries, LAMBDA entry : entry.dir)

\* The directories from top downwards, level by level.
Levels(top) ==
    LET level[n \in 0..TableSize] ==
            IF n = 0 THEN <<top>>
            ELSE FlattenSeq([i \in DOMAIN level[n - 1] |->
                                Inner(Entries(level[n - 1][i].start))])
    IN  FlattenSeq([n \in 1..TableSize |-> level[n - 1]])

\* The entries that dir shows of a directory, what it writes for them, and
\* what it has counted in the end.
First_Batch(entries) == IF Len(entries) > Batch THEN SubSeq(entries, 1, Batch) ELSE entries

Headed(name, entries) ==
    (IF name = NoName THEN <<>> ELSE <<"\n", name, "------------">>)
    \o FlattenSeq([i \in DOMAIN entries |->
            <<IF entries[i].dir THEN "<DIR>" ELSE "     ", entries[i].name>>])

Counted(entries) ==
    <<"File(s): ", ToString(Len(entries) - Len(Inner(entries))),
      "Dir(s): ", ToString(Len(Inner(entries)))>>

Listings(dirs) ==
    FlattenSeq([i \in DOMAIN dirs |-> Headed(dirs[i].name, First_Batch(Entries(dirs[i].start)))])
    \o Counted(FlattenSeq([i \in DOMAIN dirs |-> First_Batch(Entries(dirs[i].start))]))

\* With /S no directory is empty and none has more than fits; without it
\* none within a too large one has.
Listable(dirs, sub) ==
    \A d \in ToSet(IF sub THEN dirs ELSE Inner(Entries(dirs[1].start))) :
        Len(Entries(d.start)) \in (IF sub THEN 1 ELSE 0)..Batch

\* dir shows a directory's entries in order, as many as it reads at once,
\* and with /S those of all directories below, level by level, and counts
\* what it has shown.  It does so only if they are listable.
DirShows ==
    Alone("dir") =>
        LET sub == shell.line[1].parameters = <<"/", "S">>
            got == Asked_Item(IF sub THEN <<>> ELSE shell.line[1].parameters)
            Shows(dirs) == Listable(dirs, sub) => shown = Listings(dirs)
        IN  (got.found /\ got.item.dir) =>
                IF sub THEN Shows(Levels([got.item EXCEPT !.name = NoName]))
                ELSE Shows(<<[got.item EXCEPT !.name = NoName]>>)

\* find /v "" /c counts the lines of a file that are not empty and end with
\* a newline, when no line is longer than its buffer and no read ends
\* within a line: there find looks at the byte behind its buffer.
FindCounts ==
    Alone("find") =>
        LET parsed == Parse_Arguments(shell.line[1].parameters)
            got    == Asked_Item(parsed.filename)
            text   == Contents(got.item)
            ends   == {i \in 2..Len(text) : text[i] = "\n" /\ text[i - 1] # "\n"}
        IN  (/\ parsed.ok /\ parsed.count /\ parsed.inverse /\ parsed.find_str = <<>>
             /\ parsed.filename # <<>> /\ got.found /\ ~got.item.dir
             /\ Readable(got.item, LineSize)
             /\ \A i \in 1..Len(text) - LineSize + 1 :
                    \E k \in i..i + LineSize - 1 : text[k] = "\n"
             /\ \A i \in DOMAIN text : i % LineSize = 0 => text[i] = "\n")
            => shown = <<"---------- ">> \o parsed.filename
                       \o <<"\n", ": ", ToString(Cardinality(ends))>>

\* What a program was to write to a file is in it when the prompt is back:
\* the message of echo, and the file type has read, if it fits a sector.
RedirectStored ==
    (Undisturbed /\ Last(shell.line).is_std_out) =>
        LET c    == Last(shell.line)
            read == Asked_Item(c.parameters)
            file == Asked_Item(c.filename)
            text == IF c.base = <<"echo">> THEN Append(c.parameters, "\n")
                    ELSE Append(Contents(read.item), "\n")
            sure == \/ c.base = <<"echo">> /\ c.parameters \notin {<<>>, <<"@", "on">>, <<"@", "off">>}
                    \/ /\ c.base = <<"type">> /\ c.parameters # <<>>
                       /\ read.found /\ ~read.item.dir /\ Readable(read.item, TypeSize)
                       /\ read.item.start # file.item.start
        IN  (sure /\ file.found /\ ~file.item.dir /\ Len(text) < SectorRows)
                => Contents(file.item) = text
=============================================================================
