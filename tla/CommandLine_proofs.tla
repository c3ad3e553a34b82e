-------------------------- MODULE CommandLine_proofs --------------------------
(***************************************************************************)
(* Proofs about the table of handles, for every width of a handle, every   *)
(* size of the random steps and every set of objects; and about the shell  *)
(* and its programs, for every volume and whatever is typed: that they     *)
(* work on that table, that a line's programs are connected as typed, and  *)
(* that a line's handles are closed when the prompt is back.               *)
(***************************************************************************)
EXTENDS CommandLine, Induction, SequenceTheorems, TLAPS

USE HandleAssumption

(* What is behind HandlesNameObjects: as long as nothing has wrapped,      *)
(* Last_Handle is the sum of the steps, and no number above it was ever    *)
(* given out, so that insert always finds its number free.                 *)
Ordered ==
    issued < Invalid_Handle =>
        /\ Last_Handle = issued
        /\ \A n \in Numbers : n > issued => Handles[n] = NoObject
        /\ \A o \in Objects : held[o] # Unheld =>
            /\ held[o] \in 1..issued
            /\ Handles[held[o]] = o

HandleInv == HandleTypeOK /\ Ordered

LEMMA OrderedIsEnough ==
    ASSUME HandleTypeOK, Ordered
    PROVE  HandlesNameObjects
BY DEF Ordered, HandlesNameObjects, HandleTypeOK, Numbers, Invalid_Handle, Unheld

LEMMA InitOrdered == HandleTable_Init => HandleInv
BY DEF HandleTable_Init, HandleInv, HandleTypeOK, Ordered, Numbers, Unheld, Invalid_Handle

(* An open keeps the order: the number it takes is above all others.       *)
LEMMA ConvertKeepsOrder ==
    ASSUME HandleInv, NEW o \in Objects, NEW step \in 1..MaxStep,
           held[o] = Unheld, Convert_Native_Handle(o, step)
    PROVE  HandleInv'
<1> DEFINE n == (Last_Handle + step) % Space
<1>1. step \in Nat /\ step > 0 /\ n \in Numbers
  BY DEF Numbers, HandleInv, HandleTypeOK
<1>2. /\ Handles' = IF Handles[n] = NoObject THEN [Handles EXCEPT ![n] = o] ELSE Handles
      /\ Last_Handle' = n
      /\ held' = [held EXCEPT ![o] = n]
      /\ issued' = issued + step
  BY DEF Convert_Native_Handle
<1> HIDE DEF n
<1>3. HandleTypeOK'
  BY <1>1, <1>2 DEF HandleInv, HandleTypeOK
<1>4. ASSUME issued' < Invalid_Handle
      PROVE  /\ Last_Handle' = issued'
             /\ \A k \in Numbers : k > issued' => Handles'[k] = NoObject
             /\ \A p \in Objects : held'[p] # Unheld =>
                  /\ held'[p] \in 1..issued'
                  /\ Handles'[held'[p]] = p
  <2>1. issued \in Nat /\ issued < Invalid_Handle
    BY <1>1, <1>2, <1>4 DEF HandleInv, HandleTypeOK, Invalid_Handle
  <2>2. Last_Handle = issued
    BY <2>1 DEF HandleInv, Ordered
  <2>3. n = issued + step
    BY <1>1, <1>2, <1>4, <2>1, <2>2 DEF n, Invalid_Handle
  <2>4. Handles[n] = NoObject
    BY <1>1, <2>1, <2>3 DEF HandleInv, Ordered
  <2>5. Handles' = [Handles EXCEPT ![n] = o]
    BY <1>2, <2>4
  <2>6. \A k \in Numbers : k > issued' => Handles'[k] = NoObject
    BY <1>1, <1>2, <2>1, <2>3, <2>5 DEF HandleInv, HandleTypeOK, Ordered, Numbers
  <2>7. ASSUME NEW p \in Objects, held'[p] # Unheld
        PROVE  held'[p] \in 1..issued' /\ Handles'[held'[p]] = p
    <3>1. CASE p = o
      BY <1>1, <1>2, <2>1, <2>3, <2>5, <3>1 DEF HandleInv, HandleTypeOK
    <3>2. CASE p # o
      <4>1. held'[p] = held[p]
        BY <1>2, <3>2 DEF HandleInv, HandleTypeOK
      <4>2. held[p] \in 1..issued /\ Handles[held[p]] = p
        BY <2>1, <2>7, <4>1 DEF HandleInv, Ordered
      <4>3. held[p] # n
        BY <1>1, <2>1, <2>3, <4>2
      <4> QED  BY <1>1, <1>2, <2>1, <2>5, <4>1, <4>2, <4>3 DEF HandleInv, HandleTypeOK
    <3> QED  BY <3>1, <3>2
  <2> QED  BY <1>2, <2>3, <2>6, <2>7
<1> QED  BY <1>3, <1>4 DEF HandleInv, Ordered

(* A removal takes the number from whoever held it, and from nobody else.  *)
LEMMA RemoveKeepsOrder ==
    ASSUME HandleInv, NEW n \in Numbers, Remove_Handle(n)
    PROVE  HandleInv'
<1>1. /\ Handles' = [Handles EXCEPT ![n] = NoObject]
      /\ held' = [o \in Objects |-> IF held[o] = n THEN Unheld ELSE held[o]]
      /\ Last_Handle' = Last_Handle /\ issued' = issued
  BY DEF Remove_Handle
<1>2. HandleTypeOK'
  BY <1>1 DEF HandleInv, HandleTypeOK
<1>3. Ordered'
  BY <1>1 DEF HandleInv, HandleTypeOK, Ordered, Invalid_Handle
<1> QED  BY <1>2, <1>3 DEF HandleInv

(* Every handle that is open names the object it was opened for, as long   *)
(* as fewer than 65535 numbers have been passed.                           *)
THEOREM OpenHandlesNameTheirObjects == HandleTable_Spec => []HandlesNameObjects
<1>1. HandleInv /\ [HandleTable_Next]_table_vars => HandleInv'
  <2> SUFFICES ASSUME HandleInv, [HandleTable_Next]_table_vars
               PROVE  HandleInv'
    OBVIOUS
  <2>1. CASE \E o \in Objects, step \in 1..MaxStep :
                held[o] = Unheld /\ Convert_Native_Handle(o, step)
    BY <2>1, ConvertKeepsOrder
  <2>2. CASE \E n \in Numbers : Remove_Handle(n)
    BY <2>2, RemoveKeepsOrder
  <2>3. CASE UNCHANGED table_vars
    BY <2>3 DEF table_vars, HandleInv, HandleTypeOK, Ordered
  <2> QED  BY <2>1, <2>2, <2>3 DEF HandleTable_Next
<1>2. HandleInv => HandlesNameObjects
  BY OrderedIsEnough DEF HandleInv
<1> QED  BY InitOrdered, <1>1, <1>2, PTL DEF HandleTable_Spec

---------------------------------------------------------------------------
(* The invariant of the command line.                                      *)

Kinds == {"console_in", "console_out", "pipe_out", "pipe_in", "file", "dir", "procfs"}

\* The number leads to an object of this kind.
Reaches(n, kind) ==
    Handles[n] \in Objects /\ object[Handles[n]].kind = kind

\* What is open exists, and knows what it was opened for.
ObjectsOK ==
    /\ object = [o \in Objects |-> object[o]]
    /\ \A n \in Numbers : Handles[n] # NoObject => held[Handles[n]] = n
    /\ \A o \in Objects :
        /\ "kind" \in DOMAIN object[o]
        /\ held[o] # Unheld =>
            /\ object[o].kind \in Kinds
            /\ object[o].kind = "pipe_in" => "pipe" \in DOMAIN object[o]

Program_Fields ==
    {"name", "args", "in", "out", "wd", "pc", "exited", "reaped", "file", "position", "source",
     "got", "text", "texts", "next", "lines", "find", "dirs", "files", "end_dir"}

Program_Names == {"type", "md", "rd", "dir", "echo", "find", "sort", "freq", "tasklist"}

Readers == {"sort", "type", "freq", "find"}

\* Where a program is, and whether it can have a file there.
PlaceOK(r) ==
    /\ r.exited => r.pc \in {"hang_up", "gone", "lost"}
    /\ r.pc \in {"open", "reset", "parse", "echo", "delete"} => r.file = Invalid_Handle
    /\ r.pc \in {"reset", "parse", "lines", "count"} => r.name = "find"
    /\ r.pc = "summary" => r.name = "dir"
    /\ r.name \in {"freq", "echo", "rd"} => r.pc # "open" /\ r.file = Invalid_Handle
    /\ r.pc \in {"console_in", "pipe_out"} => r.name \in Readers /\ r.file = Invalid_Handle
    /\ (r.pc = "read" \/ (r.pc = "write" /\ r.next = "read"))
        => r.name \in Readers \/ (r.name \in {"dir", "tasklist"} /\ r.file # Invalid_Handle)
    /\ r.pc = "write" => /\ r.next \in {"read", "summary", "close", "exit"}
                         /\ r.next = "summary" => r.name = "dir"
    /\ r.name = "sort" /\ r.pc \in {"write", "close"} => r.next = "exit"

ProgramOK(r) ==
    /\ Program_Fields \subseteq DOMAIN r
    /\ r.name \in Program_Names
    /\ {r.in, r.out, r.file} \subseteq Numbers
    /\ PlaceOK(r)

\* The program has closed its file, or has none.
Done(r) == r.pc \in {"exit", "hang_up", "gone", "lost"} \/ (r.pc = "write" /\ r.next = "exit")

File_Kind(name) == CASE name \in {"dir", "md"} -> "dir" [] name = "tasklist" -> "procfs" [] OTHER -> "file"

\* The handles that programs have opened: each its own, and open as long as
\* the program is not done.
FilesOK ==
    \A p \in DOMAIN prog : Has_File(prog[p]) =>
        /\ prog[p].file <= issued
        /\ \A q \in DOMAIN prog : q # p => prog[q].file # prog[p].file
        /\ ~Done(prog[p]) => Reaches(prog[p].file, File_Kind(prog[p].name))
        /\ Done(prog[p]) => Handles[prog[p].file] = NoObject

ProgramsOK ==
    /\ Len(prog) \in Nat /\ prog = [p \in 1..Len(prog) |-> prog[p]]
    /\ \A p \in DOMAIN prog : ProgramOK(prog[p])

\* STRING, said so that the provers know of these two that they are strings.
Symbol == STRING \cup {" ", "\n"}

Commands == [base : Seq(Symbol), parameters : Seq(Symbol), filename : Seq(Symbol),
             is_pipe : BOOLEAN, is_std_in : BOOLEAN, is_std_out : BOOLEAN]

\* What the parser makes of a line: the parts before the last are piped, and
\* a redirected one is not.
LineOK(line) ==
    /\ line \in Seq(Commands)
    /\ \A i \in 1..Len(line) - 1 : line[i].is_pipe
    /\ \A i \in 1..Len(line) : line[i].is_pipe => ~line[i].is_std_in /\ ~line[i].is_std_out
    /\ \A i \in 1..Len(line) : ~(line[i].is_std_in /\ line[i].is_std_out)

In_Line == {"command", "redirect", "pipe", "pipe_in", "create"}
Started == {"wait", "sleep"}

Ends == [in : Numbers, out : Numbers, pipe : Objects]

Shell_Fields ==
    {"pc", "std_in", "std_out", "got", "wd", "line", "at", "first", "mark",
     "tmp_in", "tmp_out", "pipes", "handles", "todo"}

ShellTypeOK ==
    /\ Shell_Fields \subseteq DOMAIN shell
    /\ shell.pc \in {"boot", "keys", "end", "exited"} \cup In_Line \cup Started
    /\ shell.got \in Seq(Symbol)
    /\ LineOK(shell.line)
    /\ {shell.at, shell.first} \subseteq Nat \ {0}
    /\ {shell.std_in, shell.std_out, shell.tmp_in, shell.tmp_out} \subseteq Numbers
    /\ shell.mark <= issued /\ shell.mark \in Nat
    /\ shell.pipes \in Seq(Ends)
    /\ shell.handles \in Seq(Nat) /\ shell.todo \in Seq(Numbers)
    /\ keys \in Seq(Symbol)
    /\ shell.wd.path \in Seq(Symbol)

\* Where in the line the shell is, and what it has made of it.
ProgressOK ==
    /\ shell.pc \in In_Line => shell.at <= Len(shell.line)
    /\ shell.pc \in Started \cup {"end"} => shell.at = Len(shell.line) + 1
    /\ shell.pc \in In_Line \cup Started =>
        /\ Len(prog) = shell.first + shell.at - 2
        /\ \A p \in shell.first..Len(prog) : \E i \in DOMAIN shell.handles : shell.handles[i] = p
    /\ shell.pc = "redirect" => Command.is_std_in \/ Command.is_std_out
    /\ shell.pc \in {"pipe", "pipe_in"} => Command.is_pipe
    /\ shell.pc \in In_Line \ {"command"} => Command.base \in Programs
    /\ shell.pc \in {"command", "redirect", "pipe"} => Len(shell.pipes) = shell.at - 1
    /\ shell.pc = "pipe_in" => Len(shell.pipes) = shell.at
    /\ shell.pc = "create" => Len(shell.pipes) = IF Command.is_pipe THEN shell.at ELSE shell.at - 1
    /\ shell.pc \in Started => \A i \in 1..Len(shell.line) :
                                    shell.line[i].is_pipe => i \in DOMAIN shell.pipes
    /\ shell.pc = "boot" => shell.line = <<>> /\ Len(prog) = 0
    /\ (shell.pc \in {"end", "keys"} /\ shell.at > Len(shell.line) /\ ~hasty) =>
        \A p \in shell.first..Len(prog) : prog[p].exited

Pipe_Numbers == {shell.pipes[i].in : i \in DOMAIN shell.pipes}
                \cup {shell.pipes[i].out : i \in DOMAIN shell.pipes}

Shell_Numbers ==
    {shell.std_in, shell.std_out, shell.tmp_in, shell.tmp_out}
    \cup Pipe_Numbers \cup ToSet(shell.todo)

\* No program opens, or closes, a handle of the shell's.
ApartOK ==
    \A n \in Shell_Numbers : n # Invalid_Handle =>
        n <= issued /\ \A p \in DOMAIN prog : prog[p].file # n

\* The console stays open.
ConsoleOK ==
    /\ shell.pc # "boot" =>
        Reaches(shell.std_in, "console_in") /\ Reaches(shell.std_out, "console_out")
    /\ shell.pc = "boot" =>
        /\ shell.std_in # Invalid_Handle => Reaches(shell.std_in, "console_in")
        /\ shell.pipes = <<>> /\ shell.todo = <<>>
    /\ shell.pc \in Started /\ shell.line # <<>> /\ Last(shell.line).is_std_in =>
        shell.tmp_in \notin {shell.std_in, shell.std_out}
    /\ \A i \in DOMAIN shell.todo : shell.todo[i] \notin {shell.std_in, shell.std_out}
    /\ \A i \in DOMAIN shell.pipes :
        /\ shell.pipes[i].in \notin {shell.std_in, shell.std_out}
        /\ shell.pipes[i].out \notin {shell.std_in, shell.std_out}

\* While a line runs its pipes are open at both ends.
PipesOK ==
    shell.pc \in In_Line \cup Started =>
        \A i \in DOMAIN shell.pipes :
            /\ Reaches(shell.pipes[i].in, "pipe_out")
            /\ Handles[shell.pipes[i].in] = shell.pipes[i].pipe
            /\ ~(shell.pc = "pipe_in" /\ i = Len(shell.pipes)) =>
                /\ Reaches(shell.pipes[i].out, "pipe_in")
                /\ object[Handles[shell.pipes[i].out]].pipe = shell.pipes[i].pipe

\* The item of a file, with its name.
Is_Named(h) == "item" \in DOMAIN h /\ "name" \in DOMAIN h.item

\* What a redirection can have opened.
Redirected(n, c) ==
    LET o == Handles[n]
    IN  /\ n \notin {shell.std_in, shell.std_out}
        /\ Kind(o) = "file" => Is_Named(object[o]) /\ Named(c, object[o].item)

\* What the shell has ready for the command that is next.
ReadyOK ==
    /\ shell.pc \in {"redirect", "pipe", "pipe_in"} =>
        shell.tmp_in = shell.std_in /\ shell.tmp_out = shell.std_out
    /\ shell.pc = "pipe_in" => shell.pipes[shell.at].out = Invalid_Handle
    /\ shell.pc = "create" =>
        /\ IF Command.is_std_in THEN Redirected(shell.tmp_in, Command)
           ELSE shell.tmp_in = shell.std_in
        /\ IF Command.is_std_out THEN Redirected(shell.tmp_out, Command)
           ELSE shell.tmp_out = IF Command.is_pipe THEN shell.pipes[shell.at].out ELSE shell.std_out

\* What the started programs have.
Wired(i) ==
    LET r == prog[shell.first + i - 1]
        c == shell.line[i]
    IN  /\ r.in = IF i > 1 THEN shell.pipes[i - 1].in
                  ELSE IF c.is_std_in THEN shell.tmp_in ELSE shell.std_in
        /\ r.out = IF c.is_pipe THEN shell.pipes[i].out
                   ELSE IF c.is_std_out THEN shell.tmp_out ELSE shell.std_out
        /\ i = 1 /\ c.is_std_in => Redirected(shell.tmp_in, c)
        /\ c.is_std_out => Redirected(shell.tmp_out, c)

WiredOK ==
    shell.pc \in In_Line \cup Started => \A i \in 1..shell.at - 1 : Wired(i)

\* What the shell is going to close.
To_Close ==
    IF shell.pc = "end" THEN ToSet(shell.todo)
    ELSE IF shell.pc \in In_Line \cup Started
    THEN Pipe_Numbers
         \cup (IF shell.pc \in Started \cup {"create"} /\ shell.at >= Len(shell.line)
                  /\ Last(shell.line).is_std_in THEN {shell.tmp_in} ELSE {})
         \cup (IF shell.pc \in Started \cup {"create"} /\ shell.at >= Len(shell.line)
                  /\ Last(shell.line).is_std_out THEN {shell.tmp_out} ELSE {})
    ELSE {}

\* Everything that was opened since the line was entered is somebody's.
Owned ==
    /\ shell.line # <<>> /\ ~(Len(shell.line) > 1 /\ Last(shell.line).is_std_in)
    /\ \/ shell.pc \in In_Line \cup Started \cup {"end"}
       \/ shell.pc = "keys" /\ shell.at > Len(shell.line)
    => \A o \in Objects : held[o] # Unheld /\ held[o] > shell.mark =>
            held[o] \in To_Close \cup {prog[p].file : p \in DOMAIN prog}

CoreInv ==
    /\ ObjectsOK /\ ProgramsOK /\ FilesOK
    /\ ShellTypeOK /\ ProgressOK
    /\ ApartOK /\ ConsoleOK /\ PipesOK /\ ReadyOK /\ WiredOK /\ Owned

\* As long as the numbers have not wrapped.
Sound == HandleInv /\ CoreInv /\ issued < Invalid_Handle

LineInv == issued \in Nat /\ (issued < Invalid_Handle => HandleInv /\ CoreInv)

---------------------------------------------------------------------------
(* What a step leaves of what is open.                                     *)

Same_Object(a, b) ==
    /\ "kind" \in DOMAIN b /\ b.kind = a.kind
    /\ a.kind = "pipe_in" => "pipe" \in DOMAIN b /\ b.pipe = a.pipe
    /\ a.kind = "file" /\ Is_Named(a) => Is_Named(b) /\ b.item.name = a.item.name

ObjectsKept ==
    /\ object' = [o \in Objects |-> object'[o]]
    /\ \A o \in Objects :
        /\ "kind" \in DOMAIN object'[o]
        /\ held[o] # Unheld => Same_Object(object[o], object'[o])

LEMMA SameObjects == ASSUME ObjectsOK, object' = object  PROVE ObjectsKept
BY DEF ObjectsOK, ObjectsKept, Same_Object, Is_Named

LEMMA OneObject ==
    ASSUME ObjectsOK, NEW o, NEW h, object' = [object EXCEPT ![o] = h],
           o \in Objects => /\ "kind" \in DOMAIN h
                            /\ held[o] # Unheld => Same_Object(object[o], h)
    PROVE  ObjectsKept
<1>1. object' = [q \in Objects |-> IF q = o THEN h ELSE object[q]]
  BY DEF ObjectsOK
<1>2. ASSUME NEW q \in Objects
      PROVE  /\ "kind" \in DOMAIN object'[q]
             /\ held[q] # Unheld => Same_Object(object[q], object'[q])
  <2>1. CASE q = o
    BY <1>1, <2>1 DEF Same_Object
  <2>2. CASE q # o
    BY <1>1, <2>2 DEF ObjectsOK, Same_Object, Is_Named
  <2> QED  BY <2>1, <2>2
<1> QED  BY <1>1, <1>2 DEF ObjectsKept

(* A step that neither opens nor closes.                                   *)
LEMMA TableKept ==
    ASSUME HandleInv, ObjectsOK, ObjectsKept, UNCHANGED table_vars
    PROVE  HandleInv' /\ ObjectsOK'
<1>1. Handles' = Handles /\ held' = held /\ Last_Handle' = Last_Handle /\ issued' = issued
  BY DEF table_vars
<1>2. HandleInv'
  BY <1>1 DEF HandleInv, HandleTypeOK, Ordered
<1>3. ObjectsOK'
  BY <1>1 DEF ObjectsOK, ObjectsKept, Same_Object, Is_Named
<1> QED  BY <1>2, <1>3

(* There is an object left, and nobody has it open.                        *)
LEMMA FreshOne ==
    ASSUME CommandLineAssumption, ObjectsOK, HandleInv, \E o \in Objects : object[o] = Absent
    PROVE  Fresh \in Objects /\ object[Fresh] = Absent /\ held[Fresh] = Unheld
<1> DEFINE T == {o \in Objects : object[o] = Absent}
<1>1. PICK o \in T : \A q \in T : o <= q
  <2>1. T \in SUBSET Nat /\ T # {}
    BY DEF CommandLineAssumption
  <2> HIDE DEF T
  <2> QED  BY <2>1, LeastElement
<1>2. Fresh \in Objects /\ object[Fresh] = Absent
  BY <1>1 DEF Fresh
<1> QED  BY <1>2 DEF ObjectsOK, Absent, Kinds

(* What an open leaves.                                                    *)
LEMMA Entered ==
    ASSUME CommandLineAssumption, Sound, NEW record, Enter(record), issued' < Invalid_Handle,
           "kind" \in DOMAIN record, record.kind \in Kinds,
           record.kind = "pipe_in" => "pipe" \in DOMAIN record
    PROVE  /\ HandleInv' /\ ObjectsOK' /\ ObjectsKept
           /\ Fresh \in Objects /\ object'[Fresh] = record
           /\ Last_Handle' = issued' /\ issued' \in Numbers /\ issued < issued' /\ issued' # 0
           /\ issued \in Nat
           /\ Handles'[issued'] = Fresh
           /\ \A n \in Numbers : n # issued' => Handles'[n] = Handles[n]
           /\ held'[Fresh] = issued'
           /\ \A o \in Objects : o # Fresh => held'[o] = held[o]
<1>1. Fresh \in Objects /\ object[Fresh] = Absent /\ held[Fresh] = Unheld
  BY FreshOne DEF Enter, Sound, CoreInv
<1>2. PICK step \in 1..MaxStep : Convert_Native_Handle(Fresh, step)
  BY DEF Enter
<1>3. HandleInv'
  BY <1>1, <1>2, ConvertKeepsOrder DEF Sound
<1>4. /\ issued \in Nat /\ step \in Nat /\ step > 0 /\ issued' = issued + step
      /\ Last_Handle = issued /\ issued < Invalid_Handle
  BY <1>2 DEF Convert_Native_Handle, Sound, HandleInv, HandleTypeOK, Ordered
<1>5. issued' \in Numbers /\ (Last_Handle + step) % Space = issued'
  BY <1>4 DEF Invalid_Handle, Numbers
<1>6. Handles[issued'] = NoObject
  BY <1>4, <1>5 DEF Sound, HandleInv, Ordered
<1>7. /\ Handles' = [Handles EXCEPT ![issued'] = Fresh] /\ Last_Handle' = issued'
      /\ held' = [held EXCEPT ![Fresh] = issued']
  BY <1>2, <1>5, <1>6 DEF Convert_Native_Handle
<1>8. object' = [object EXCEPT ![Fresh] = record]
  BY DEF Enter
<1> HIDE DEF Fresh
<1>9. /\ Handles'[issued'] = Fresh
      /\ \A n \in Numbers : n # issued' => Handles'[n] = Handles[n]
      /\ held'[Fresh] = issued'
      /\ \A o \in Objects : o # Fresh => held'[o] = held[o]
  BY <1>1, <1>5, <1>7 DEF Sound, HandleInv, HandleTypeOK
<1>10. /\ object' = [o \in Objects |-> object'[o]] /\ object'[Fresh] = record
       /\ \A o \in Objects : o # Fresh => object'[o] = object[o]
  BY <1>1, <1>8 DEF Sound, CoreInv, ObjectsOK
<1>11. ObjectsKept
  BY <1>1, <1>10 DEF Sound, CoreInv, ObjectsOK, ObjectsKept, Same_Object
<1>12. ObjectsOK'
  <2>1. ASSUME NEW n \in Numbers, Handles'[n] # NoObject  PROVE held'[Handles'[n]] = n
    <3>1. CASE n = issued'
      BY <1>9, <3>1
    <3>2. CASE n # issued'
      <4>1. Handles[n] \in Objects /\ held[Handles[n]] = n
        BY <1>9, <2>1, <3>2 DEF Sound, CoreInv, ObjectsOK, HandleInv, HandleTypeOK
      <4>2. Handles[n] # Fresh
        BY <1>1, <4>1 DEF Unheld, Numbers
      <4> QED  BY <1>9, <3>2, <4>1, <4>2
    <3> QED  BY <3>1, <3>2
  <2>2. ASSUME NEW o \in Objects
        PROVE  /\ "kind" \in DOMAIN object'[o]
               /\ held'[o] # Unheld =>
                   /\ object'[o].kind \in Kinds
                   /\ object'[o].kind = "pipe_in" => "pipe" \in DOMAIN object'[o]
    <3>1. CASE o = Fresh
      BY <1>10, <3>1
    <3>2. CASE o # Fresh
      BY <1>9, <1>10, <3>2 DEF Sound, CoreInv, ObjectsOK
    <3> QED  BY <3>1, <3>2
  <2> QED  BY <1>10, <2>1, <2>2 DEF ObjectsOK
<1> QED  BY <1>3, <1>1, <1>4, <1>5, <1>7, <1>9, <1>10, <1>11, <1>12

(* A field of an object that says how full or how far it is.               *)
LEMMA OneField ==
    ASSUME ObjectsOK, NEW o, NEW field \in {"shut", "done", "data", "seek"}, NEW value,
           object' = [object EXCEPT ![o] = [object[o] EXCEPT ![field] = value]]
    PROVE  ObjectsKept
<1> DEFINE h == [object[o] EXCEPT ![field] = value]
<1>1. ASSUME o \in Objects
      PROVE  "kind" \in DOMAIN h /\ (held[o] # Unheld => Same_Object(object[o], h))
  BY <1>1 DEF ObjectsOK, Same_Object, Is_Named
<1> HIDE DEF h
<1>2. object' = [object EXCEPT ![o] = h]
  BY DEF h
<1> QED  BY <1>1, <1>2, OneObject

(* What a removal leaves.                                                  *)
LEMMA Removed ==
    ASSUME HandleInv, ObjectsOK, ObjectsKept, NEW n \in Numbers, Remove_Handle(n)
    PROVE  /\ HandleInv' /\ ObjectsOK'
           /\ issued' = issued
           /\ Handles'[n] = NoObject
           /\ \A k \in Numbers : k # n => Handles'[k] = Handles[k]
           /\ \A o \in Objects : held'[o] # Unheld => held'[o] = held[o] /\ held[o] # n
<1>1. HandleInv'
  BY RemoveKeepsOrder
<1>2. /\ Handles' = [Handles EXCEPT ![n] = NoObject]
      /\ held' = [o \in Objects |-> IF held[o] = n THEN Unheld ELSE held[o]]
      /\ issued' = issued
  BY DEF Remove_Handle
<1>3. /\ Handles'[n] = NoObject
      /\ \A k \in Numbers : k # n => Handles'[k] = Handles[k]
      /\ \A o \in Objects : held'[o] # Unheld => held'[o] = held[o] /\ held[o] # n
      /\ \A o \in Objects : held[o] # n => held'[o] = held[o]
  BY <1>2 DEF HandleInv, HandleTypeOK
<1>4. ASSUME NEW k \in Numbers, Handles'[k] # NoObject  PROVE held'[Handles'[k]] = k
  <2>1. k # n /\ Handles'[k] = Handles[k] /\ Handles[k] \in Objects
    BY <1>3, <1>4 DEF HandleInv, HandleTypeOK
  <2>2. held[Handles[k]] = k
    BY <2>1, <1>4 DEF ObjectsOK
  <2> QED  BY <1>3, <2>1, <2>2
<1>5. ASSUME NEW o \in Objects
      PROVE  /\ "kind" \in DOMAIN object'[o]
             /\ held'[o] # Unheld =>
                 /\ object'[o].kind \in Kinds
                 /\ object'[o].kind = "pipe_in" => "pipe" \in DOMAIN object'[o]
  BY <1>3 DEF ObjectsOK, ObjectsKept, Same_Object, Is_Named
<1> QED  BY <1>1, <1>2, <1>3, <1>4, <1>5 DEF ObjectsOK, ObjectsKept

(* What a close leaves.                                                    *)
LEMMA Closed ==
    ASSUME Sound, NEW n \in Numbers, Close_Handle(n)
    PROVE  /\ HandleInv' /\ ObjectsOK' /\ ObjectsKept
           /\ issued' = issued
           /\ Handles'[n] = NoObject
           /\ \A k \in Numbers : k # n => Handles'[k] = Handles[k]
           /\ \A o \in Objects : held'[o] # Unheld => held'[o] = held[o] /\ held[o] # n
<1> DEFINE o == Handles[n]
<1>1. ObjectsOK /\ HandleInv
  BY DEF Sound, CoreInv
<1>2. CASE o = NoObject /\ UNCHANGED <<object, table_vars>>
  <2>1. ObjectsKept
    BY <1>1, <1>2, SameObjects
  <2>2. /\ Handles' = Handles /\ held' = held /\ issued' = issued /\ UNCHANGED table_vars
    BY <1>2 DEF table_vars
  <2>3. HandleInv' /\ ObjectsOK'
    BY <1>1, <2>1, <2>2, TableKept
  <2>4. \A p \in Objects : held[p] # Unheld => held[p] # n
    BY <1>2 DEF Sound, HandleInv, Ordered
  <2> QED  BY <1>2, <2>1, <2>2, <2>3, <2>4
<1>3. CASE o # NoObject /\ Remove_Handle(n)
           /\ object' = CASE Kind(o) = "pipe_out" -> [object EXCEPT ![o].shut = TRUE]
                          [] Kind(o) = "pipe_in"  -> [object EXCEPT ![object[o].pipe].done = TRUE]
                          [] OTHER -> object
  <2>1. ObjectsKept
    <3>1. CASE object' = [object EXCEPT ![o].shut = TRUE]
      BY <1>1, <3>1, OneField
    <3>2. CASE object' = [object EXCEPT ![object[o].pipe].done = TRUE]
      BY <1>1, <3>2, OneField
    <3>3. CASE object' = object
      BY <1>1, <3>3, SameObjects
    <3> QED  BY <1>3, <3>1, <3>2, <3>3
  <2> QED  BY <1>1, <1>3, <2>1, Removed
<1> QED  BY <1>2, <1>3 DEF Close_Handle, Resolve_kiv_os_Handle

---------------------------------------------------------------------------
(* What a step of a program leaves of what is the shell's.                 *)

LEMMA ShellNumbers ==
    ASSUME ShellTypeOK
    PROVE  /\ Shell_Numbers \subseteq Numbers
           /\ \A i \in DOMAIN shell.pipes :
                /\ shell.pipes[i] \in Ends
                /\ {shell.pipes[i].in, shell.pipes[i].out} \subseteq Shell_Numbers
           /\ \A i \in DOMAIN shell.todo : shell.todo[i] \in Shell_Numbers
<1>1. \A i \in DOMAIN shell.pipes : shell.pipes[i] \in Ends
  BY DEF ShellTypeOK
<1>2. Pipe_Numbers \subseteq Numbers
  BY <1>1 DEF Pipe_Numbers, Ends
<1>3. ToSet(shell.todo) \subseteq Numbers
  BY DEF ToSet, ShellTypeOK
<1>4. Shell_Numbers \subseteq Numbers
  BY <1>2, <1>3 DEF Shell_Numbers, ShellTypeOK
<1>5. \A i \in DOMAIN shell.pipes : {shell.pipes[i].in, shell.pipes[i].out} \subseteq Shell_Numbers
  BY DEF Shell_Numbers, Pipe_Numbers
<1>6. \A i \in DOMAIN shell.todo : shell.todo[i] \in Shell_Numbers
  BY DEF Shell_Numbers, ToSet
<1> QED  BY <1>1, <1>4, <1>5, <1>6

ShellUntouched ==
    /\ UNCHANGED <<shell, hasty>> /\ keys' \in Seq(Symbol)
    /\ issued' \in Nat /\ issued <= issued'
    /\ ObjectsKept
    /\ \A n \in Shell_Numbers : Handles'[n] = Handles[n]
    /\ Len(prog') = Len(prog) /\ DOMAIN prog' = DOMAIN prog
    /\ \A p \in DOMAIN prog :
        /\ prog'[p].in = prog[p].in /\ prog'[p].out = prog[p].out
        /\ prog[p].exited => prog'[p].exited

\* What a number of the shell's leads to is what it was.
LEMMA StillReached ==
    ASSUME Sound, ObjectsKept, NEW n \in Numbers, Handles'[n] = Handles[n]
    PROVE  /\ \A kind : Reaches(n, kind) => Reaches(n, kind)'
           /\ Handles[n] # NoObject => Same_Object(object[Handles[n]], object'[Handles[n]])
<1>1. ASSUME Handles[n] # NoObject
      PROVE  Handles[n] \in Objects /\ Same_Object(object[Handles[n]], object'[Handles[n]])
  <2>1. Handles[n] \in Objects /\ held[Handles[n]] = n
    BY <1>1 DEF Sound, CoreInv, ObjectsOK, HandleInv, HandleTypeOK
  <2>2. held[Handles[n]] # Unheld
    BY <2>1 DEF Unheld, Numbers
  <2> QED  BY <2>1, <2>2 DEF ObjectsKept
<1> QED  BY <1>1 DEF Reaches, Same_Object

LEMMA StillRedirected ==
    ASSUME Sound, ObjectsKept, NEW n \in Numbers, Handles'[n] = Handles[n], shell' = shell,
           NEW c, Redirected(n, c)
    PROVE  Redirected(n, c)'
<1>1. Handles[n] # NoObject => Same_Object(object[Handles[n]], object'[Handles[n]])
  BY StillReached
<1> QED  BY <1>1 DEF Redirected, Kind, Named, Same_Object, Is_Named

LEMMA ShellKept ==
    ASSUME Sound, ShellUntouched
    PROVE  ShellTypeOK' /\ ProgressOK' /\ ConsoleOK' /\ PipesOK' /\ ReadyOK' /\ WiredOK'
<1>1. /\ ShellTypeOK /\ ProgressOK /\ ConsoleOK /\ PipesOK /\ ReadyOK /\ WiredOK
      /\ ObjectsKept /\ issued \in Nat /\ shell' = shell /\ hasty' = hasty
  BY DEF Sound, CoreInv, ShellUntouched, HandleInv, HandleTypeOK
<1>2. \A n \in Shell_Numbers : n \in Numbers /\ Handles'[n] = Handles[n]
  BY <1>1, ShellNumbers DEF ShellUntouched
<1>3. \A n \in Shell_Numbers : Handles[n] \in Objects =>
        /\ object'[Handles[n]].kind = object[Handles[n]].kind
        /\ object[Handles[n]].kind = "pipe_in" => object'[Handles[n]].pipe = object[Handles[n]].pipe
  BY <1>1, <1>2, StillReached DEF Same_Object
<1>4. \A n \in Shell_Numbers : \A c : Redirected(n, c) => Redirected(n, c)'
  BY <1>1, <1>2, StillRedirected
<1>5. {shell.std_in, shell.std_out, shell.tmp_in, shell.tmp_out} \subseteq Shell_Numbers
  BY DEF Shell_Numbers
<1>6. \A i \in DOMAIN shell.pipes : {shell.pipes[i].in, shell.pipes[i].out} \subseteq Shell_Numbers
  BY <1>1, ShellNumbers
<1>7. ShellTypeOK'
  BY <1>1 DEF ShellTypeOK, ShellUntouched
<1>8. ProgressOK'
  <2>1. shell.first..Len(prog) \subseteq DOMAIN prog
    <3>1. shell.first \in Nat \ {0} /\ Len(prog) \in Nat /\ DOMAIN prog = 1..Len(prog)
      BY <1>1 DEF ShellTypeOK, Sound, CoreInv, ProgramsOK
    <3> QED  BY <3>1
  <2> QED  BY <1>1, <2>1 DEF ProgressOK, ShellUntouched, Command
<1>9. ConsoleOK'
  BY <1>1, <1>2, <1>3, <1>5 DEF ConsoleOK, Reaches
<1>10. PipesOK'
  BY <1>1, <1>2, <1>3, <1>6 DEF PipesOK, Reaches, Same_Object
<1>11. ReadyOK'
  BY <1>1, <1>4, <1>5 DEF ReadyOK, Command
<1>12. WiredOK'
  <2> SUFFICES ASSUME shell.pc \in In_Line \cup Started, NEW i \in 1..shell.at - 1
               PROVE  Wired(i)'
    BY <1>1 DEF WiredOK
  <2> DEFINE p == shell.first + i - 1
  <2>1. p \in DOMAIN prog
    <3>1. shell.first \in Nat \ {0} /\ shell.at \in Nat \ {0}
      BY <1>1 DEF ShellTypeOK
    <3>2. Len(prog) = shell.first + shell.at - 2
      BY <1>1 DEF ProgressOK
    <3>3. DOMAIN prog = 1..Len(prog)
      BY DEF Sound, CoreInv, ProgramsOK
    <3> QED  BY <3>1, <3>2, <3>3
  <2>2. prog'[p].in = prog[p].in /\ prog'[p].out = prog[p].out
    BY <2>1 DEF ShellUntouched
  <2>3. Wired(i)
    BY <1>1 DEF WiredOK
  <2> QED  BY <1>1, <1>4, <1>5, <2>2, <2>3 DEF Wired, Redirected
<1> QED  BY <1>7, <1>8, <1>9, <1>10, <1>11, <1>12

LEMMA SameShell ==
    ASSUME shell' = shell
    PROVE  Shell_Numbers' = Shell_Numbers /\ Pipe_Numbers' = Pipe_Numbers /\ To_Close' = To_Close
<1>1. Pipe_Numbers' = Pipe_Numbers
  BY DEF Pipe_Numbers
<1>2. ToSet(shell'.todo) = ToSet(shell.todo)
  OBVIOUS
<1>3. Shell_Numbers' = Shell_Numbers
  BY <1>1, <1>2 DEF Shell_Numbers
<1>4. To_Close' = To_Close
  BY <1>1, <1>2 DEF To_Close
<1> QED  BY <1>1, <1>3, <1>4

Kept(a, b) ==
    /\ b.name = a.name /\ b.in = a.in /\ b.out = a.out /\ b.file = a.file
    /\ a.exited => b.exited
    /\ Has_File(a) => (Done(a) <=> Done(b))

LEMMA OneProgram ==
    ASSUME ProgramsOK, NEW p \in DOMAIN prog, NEW r, Only(p, r)
    PROVE  /\ DOMAIN prog' = DOMAIN prog /\ Len(prog') = Len(prog)
           /\ prog' = [q \in 1..Len(prog') |-> prog'[q]]
           /\ prog'[p] = r
           /\ \A q \in DOMAIN prog : q # p => prog'[q] = prog[q]
<1>1. DOMAIN prog = 1..Len(prog) /\ Len(prog) \in Nat
  BY DEF ProgramsOK
<1>2. prog' = [q \in 1..Len(prog) |-> IF q = p THEN r ELSE prog[q]]
  BY <1>1 DEF Only
<1>3. Len(prog') = Len(prog)
  BY <1>1, <1>2
<1> QED  BY <1>1, <1>2, <1>3

(* A program's step that opens and closes nothing.                         *)
LEMMA ProgramMoves ==
    ASSUME Sound, ObjectsKept, UNCHANGED table_vars,
           UNCHANGED <<shell, hasty>>, keys' \in Seq(Symbol),
           NEW p \in DOMAIN prog, NEW r, Only(p, r), ProgramOK(r), Kept(prog[p], r)
    PROVE  HandleInv' /\ CoreInv'
<1>1. /\ Handles' = Handles /\ held' = held /\ issued' = issued /\ shell' = shell
      /\ ObjectsOK /\ ProgramsOK /\ HandleInv /\ issued \in Nat
  BY DEF table_vars, Sound, CoreInv, HandleInv, HandleTypeOK
<1>2. HandleInv' /\ ObjectsOK'
  BY <1>1, TableKept
<1>3. /\ DOMAIN prog' = DOMAIN prog /\ Len(prog') = Len(prog)
      /\ prog' = [q \in 1..Len(prog') |-> prog'[q]]
      /\ prog'[p] = r
      /\ \A q \in DOMAIN prog : q # p => prog'[q] = prog[q]
  BY <1>1, OneProgram
<1>4. \A q \in DOMAIN prog : Kept(prog[q], prog'[q])
  BY <1>3 DEF Kept
<1>5. ProgramsOK'
  BY <1>1, <1>3 DEF ProgramsOK
<1>6. FilesOK'
  <2> SUFFICES ASSUME NEW q \in DOMAIN prog, Has_File(prog'[q])
               PROVE  /\ prog'[q].file <= issued
                      /\ \A s \in DOMAIN prog : s # q => prog'[s].file # prog'[q].file
                      /\ ~Done(prog'[q]) =>
                          /\ Handles'[prog'[q].file] \in Objects
                          /\ object'[Handles'[prog'[q].file]].kind = File_Kind(prog'[q].name)
                      /\ Done(prog'[q]) => Handles'[prog'[q].file] = NoObject
    BY <1>1, <1>3 DEF FilesOK, Has_File, Reaches
  <2>1. /\ Kept(prog[q], prog'[q]) /\ \A s \in DOMAIN prog : Kept(prog[s], prog'[s])
        /\ Has_File(prog[q])
    BY <1>4 DEF Kept, Has_File
  <2>2. prog[q].file \in Numbers
    BY <1>1 DEF ProgramsOK, ProgramOK
  <2>3. Handles[prog[q].file] \in Objects =>
            object'[Handles[prog[q].file]].kind = object[Handles[prog[q].file]].kind
    BY <1>1, <2>2, StillReached DEF Same_Object
  <2> QED  BY <1>1, <2>1, <2>3 DEF FilesOK, Kept, Reaches, Sound, CoreInv
<1>7. ShellUntouched
  BY <1>1, <1>3, <1>4 DEF ShellUntouched, Kept
<1>8. ApartOK'
  BY <1>1, <1>3, <1>4, SameShell DEF ApartOK, Kept, Sound, CoreInv
<1>9. Owned'
  BY <1>1, <1>3, <1>4, SameShell DEF Owned, Kept, Sound, CoreInv
<1> QED  BY <1>2, <1>5, <1>6, <1>7, <1>8, <1>9, ShellKept DEF CoreInv

(* A program opens its file.                                               *)
LEMMA ProgramOpens ==
    ASSUME CommandLineAssumption, Sound, issued' < Invalid_Handle,
           NEW record, Enter(record), "kind" \in DOMAIN record, record.kind \in Kinds,
           record.kind = "pipe_in" => "pipe" \in DOMAIN record,
           UNCHANGED <<shell, hasty>>, keys' \in Seq(Symbol),
           NEW p \in DOMAIN prog, NEW r, Only(p, r), ProgramOK(r), ~Has_File(prog[p]),
           r.file = Last_Handle', r.in = prog[p].in, r.out = prog[p].out,
           prog[p].exited => r.exited, ~Done(r), record.kind = File_Kind(r.name)
    PROVE  HandleInv' /\ CoreInv'
<1>1. /\ HandleInv' /\ ObjectsOK' /\ ObjectsKept
      /\ Fresh \in Objects /\ object'[Fresh] = record
      /\ Last_Handle' = issued' /\ issued' \in Numbers /\ issued < issued'
      /\ issued \in Nat
      /\ Handles'[issued'] = Fresh
      /\ \A n \in Numbers : n # issued' => Handles'[n] = Handles[n]
      /\ held'[Fresh] = issued'
      /\ \A o \in Objects : o # Fresh => held'[o] = held[o]
  BY Entered
<1> HIDE DEF Fresh
<1>2. shell' = shell /\ hasty' = hasty /\ issued' \in Nat /\ ObjectsOK /\ ProgramsOK /\ HandleInv
  BY <1>1 DEF Sound, CoreInv, Numbers
<1>3. /\ DOMAIN prog' = DOMAIN prog /\ Len(prog') = Len(prog)
      /\ prog' = [q \in 1..Len(prog') |-> prog'[q]]
      /\ prog'[p] = r
      /\ \A q \in DOMAIN prog : q # p => prog'[q] = prog[q]
  BY <1>2, OneProgram
<1>4. \A q \in DOMAIN prog : q # p => /\ prog[q].file \in Numbers /\ prog[q].file # issued'
                                      /\ Has_File(prog[q]) => prog[q].file <= issued
  BY <1>1 DEF Has_File, Sound, CoreInv, FilesOK, ProgramsOK, ProgramOK, Invalid_Handle, Numbers
<1>5. \A n \in Shell_Numbers : n \in Numbers /\ n # issued' /\ Handles'[n] = Handles[n]
  <2>1. \A n \in Shell_Numbers : n \in Numbers /\ (n = Invalid_Handle \/ n <= issued)
    BY ShellNumbers DEF Sound, CoreInv, ApartOK
  <2> QED  BY <1>1, <2>1 DEF Numbers, Invalid_Handle
<1>6. ProgramsOK'
  BY <1>2, <1>3 DEF ProgramsOK
<1>7. FilesOK'
  <2> SUFFICES ASSUME NEW q \in DOMAIN prog, Has_File(prog'[q])
               PROVE  /\ prog'[q].file <= issued'
                      /\ \A s \in DOMAIN prog : s # q => prog'[s].file # prog'[q].file
                      /\ ~Done(prog'[q]) =>
                          /\ Handles'[prog'[q].file] \in Objects
                          /\ object'[Handles'[prog'[q].file]].kind = File_Kind(prog'[q].name)
                      /\ Done(prog'[q]) => Handles'[prog'[q].file] = NoObject
    BY <1>3 DEF FilesOK, Has_File, Reaches
  <2>1. CASE q = p
    BY <1>1, <1>2, <1>3, <1>4, <2>1
  <2>2. CASE q # p
    <3>1. prog'[q] = prog[q] /\ prog[q].file \in Numbers /\ prog[q].file # issued'
          /\ prog[q].file <= issued /\ Handles'[prog[q].file] = Handles[prog[q].file]
      BY <1>1, <1>3, <1>4, <2>2
    <3>2. Handles[prog[q].file] \in Objects =>
              object'[Handles[prog[q].file]].kind = object[Handles[prog[q].file]].kind
      BY <1>1, <1>2, <3>1, StillReached DEF Same_Object
    <3>3. /\ \A s \in DOMAIN prog : s # q => prog[s].file # prog[q].file
          /\ ~Done(prog[q]) =>
                /\ Handles[prog[q].file] \in Objects
                /\ object[Handles[prog[q].file]].kind = File_Kind(prog[q].name)
          /\ Done(prog[q]) => Handles[prog[q].file] = NoObject
      BY <3>1 DEF Sound, CoreInv, FilesOK, Reaches
    <3>4. ASSUME NEW s \in DOMAIN prog, s # q  PROVE prog'[s].file # prog[q].file
      <4>1. CASE s = p
        <5>1. prog'[p].file = issued'
          BY <1>1, <1>3
        <5> QED  BY <3>1, <4>1, <5>1
      <4>2. CASE s # p
        BY <1>3, <3>3, <3>4, <4>2
      <4> QED  BY <4>1, <4>2
    <3>5. prog[q].file <= issued'
      BY <1>1, <1>2, <3>1 DEF Numbers
    <3> QED  BY <3>1, <3>2, <3>3, <3>4, <3>5
  <2> QED  BY <2>1, <2>2
<1>8. ShellUntouched
  <2>1. \A q \in DOMAIN prog : /\ prog'[q].in = prog[q].in /\ prog'[q].out = prog[q].out
                               /\ prog[q].exited => prog'[q].exited
    BY <1>3
  <2>2. issued <= issued'
    BY <1>1, <1>2
  <2> QED  BY <1>1, <1>2, <1>3, <1>5, <2>1, <2>2 DEF ShellUntouched
<1>9. ApartOK'
  <2> SUFFICES ASSUME NEW n \in Shell_Numbers, n # Invalid_Handle
               PROVE  n <= issued' /\ \A q \in DOMAIN prog : prog'[q].file # n
    BY <1>2, <1>3, SameShell DEF ApartOK
  <2>1. n \in Numbers /\ n # issued' /\ n <= issued /\ \A q \in DOMAIN prog : prog[q].file # n
    BY <1>5 DEF Sound, CoreInv, ApartOK
  <2>2. n <= issued'
    BY <1>1, <1>2, <2>1 DEF Numbers
  <2>3. ASSUME NEW q \in DOMAIN prog  PROVE prog'[q].file # n
    <3>1. CASE q = p
      BY <1>1, <1>3, <2>1, <3>1
    <3>2. CASE q # p
      BY <1>3, <2>1, <3>2
    <3> QED  BY <3>1, <3>2
  <2> QED  BY <2>2, <2>3
<1>10. Owned'
  <2>1. \A o \in Objects : o # Fresh /\ held[o] # Unheld =>
            held[o] <= issued /\ held[o] \in Numbers
    BY <1>2 DEF Sound, HandleInv, Ordered, HandleTypeOK, Unheld, Numbers
  <2>2. \A o \in Objects : o # Fresh /\ held[o] # Unheld => held[o] # prog[p].file
    BY <1>1, <2>1 DEF Has_File, Invalid_Handle, Sound, Numbers
  <2>3. \A o \in Objects : o # Fresh /\ held[o] \in {prog[q].file : q \in DOMAIN prog} /\ held[o] # Unheld
            => held[o] \in {prog'[q].file : q \in DOMAIN prog}
    BY <1>3, <2>2
  <2>4. issued' \in {prog'[q].file : q \in DOMAIN prog}
    BY <1>1, <1>3
  <2>5. To_Close' = To_Close
    BY <1>2, SameShell
  <2>6. ASSUME NEW o \in Objects, held'[o] # Unheld, held'[o] > shell.mark,
               held[o] # Unheld /\ held[o] > shell.mark =>
                    held[o] \in To_Close \cup {prog[q].file : q \in DOMAIN prog}
        PROVE  held'[o] \in To_Close \cup {prog'[q].file : q \in DOMAIN prog}
    <3>1. CASE o = Fresh
      BY <1>1, <2>4, <3>1
    <3>2. CASE o # Fresh
      <4>1. held'[o] = held[o]
        BY <1>1, <3>2
      <4> QED  BY <2>3, <2>6, <3>2, <4>1
    <3> QED  BY <3>1, <3>2
  <2>7. Owned
    BY DEF Sound, CoreInv
  <2> QED  BY <1>2, <1>3, <2>5, <2>6, <2>7 DEF Owned
<1> QED  BY <1>1, <1>6, <1>7, <1>8, <1>9, <1>10, ShellKept DEF CoreInv

(* A program closes its file.                                              *)
LEMMA ProgramCloses ==
    ASSUME Sound, NEW p \in DOMAIN prog, Close_Handle(prog[p].file),
           UNCHANGED <<shell, hasty>>, keys' \in Seq(Symbol),
           NEW r, Only(p, r), ProgramOK(r), Done(r),
           r.file = prog[p].file, r.in = prog[p].in, r.out = prog[p].out,
           prog[p].exited => r.exited
    PROVE  HandleInv' /\ CoreInv'
<1> DEFINE n == prog[p].file
<1>1. n \in Numbers
  BY DEF Sound, CoreInv, ProgramsOK, ProgramOK
<1>2. /\ HandleInv' /\ ObjectsOK' /\ ObjectsKept
      /\ issued' = issued
      /\ Handles'[n] = NoObject
      /\ \A k \in Numbers : k # n => Handles'[k] = Handles[k]
      /\ \A o \in Objects : held'[o] # Unheld => held'[o] = held[o] /\ held[o] # n
  BY <1>1, Closed
<1>3. /\ shell' = shell /\ hasty' = hasty /\ issued \in Nat /\ ObjectsOK /\ ProgramsOK /\ HandleInv
  BY DEF Sound, CoreInv, HandleInv, HandleTypeOK
<1>4. /\ DOMAIN prog' = DOMAIN prog /\ Len(prog') = Len(prog)
      /\ prog' = [q \in 1..Len(prog') |-> prog'[q]]
      /\ prog'[p] = r
      /\ \A q \in DOMAIN prog : q # p => prog'[q] = prog[q]
  BY <1>3, OneProgram
<1>5. \A k \in Shell_Numbers : k \in Numbers /\ Handles'[k] = Handles[k]
  <2>2. \A k \in Shell_Numbers : k \in Numbers /\ (k = Invalid_Handle \/ k # n)
    BY ShellNumbers DEF Sound, CoreInv, ApartOK
  <2>3. Handles[Invalid_Handle] = NoObject
    BY DEF Sound, HandleInv, HandleTypeOK, Ordered, Invalid_Handle, Numbers
  <2> QED  BY <1>2, <2>2, <2>3
<1>6. ProgramsOK'
  BY <1>3, <1>4 DEF ProgramsOK
<1>7. FilesOK'
  <2> SUFFICES ASSUME NEW q \in DOMAIN prog, Has_File(prog'[q])
               PROVE  /\ prog'[q].file <= issued
                      /\ \A s \in DOMAIN prog : s # q => prog'[s].file # prog'[q].file
                      /\ ~Done(prog'[q]) =>
                          /\ Handles'[prog'[q].file] \in Objects
                          /\ object'[Handles'[prog'[q].file]].kind = File_Kind(prog'[q].name)
                      /\ Done(prog'[q]) => Handles'[prog'[q].file] = NoObject
    BY <1>2, <1>4 DEF FilesOK, Has_File, Reaches
  <2>1. /\ \A s \in DOMAIN prog : prog'[s].file = prog[s].file
        /\ Has_File(prog[q])
    BY <1>4 DEF Has_File
  <2>2. CASE q = p
    BY <1>2, <1>4, <2>1, <2>2 DEF Sound, CoreInv, FilesOK
  <2>3. CASE q # p
    <3>1. prog'[q] = prog[q] /\ prog[q].file \in Numbers /\ prog[q].file # n
          /\ Handles'[prog[q].file] = Handles[prog[q].file]
      BY <1>2, <1>4, <2>1, <2>3 DEF Sound, CoreInv, FilesOK, ProgramsOK, ProgramOK
    <3>2. Handles[prog[q].file] \in Objects =>
              object'[Handles[prog[q].file]].kind = object[Handles[prog[q].file]].kind
      BY <1>2, <1>3, <3>1, StillReached DEF Same_Object
    <3> QED  BY <1>3, <2>1, <3>1, <3>2 DEF FilesOK, Reaches, Sound, CoreInv
  <2> QED  BY <2>2, <2>3
<1>8. ShellUntouched
  BY <1>2, <1>3, <1>4, <1>5 DEF ShellUntouched
<1>9. ApartOK'
  BY <1>2, <1>3, <1>4, SameShell DEF ApartOK, Sound, CoreInv
<1>10. Owned'
  <2>1. {prog'[q].file : q \in DOMAIN prog} = {prog[q].file : q \in DOMAIN prog}
    BY <1>4
  <2> QED  BY <1>2, <1>3, <1>4, <2>1, SameShell DEF Owned, Sound, CoreInv
<1> QED  BY <1>2, <1>6, <1>7, <1>8, <1>9, <1>10, ShellKept DEF CoreInv

---------------------------------------------------------------------------
(* The programs: every step of one is one of the three above.              *)

Moved(r, s) == ProgramOK(s) /\ Kept(r, s)

LEMMA ReceivedMoves ==
    ASSUME NEW r, ProgramOK(r), r.pc \in {"read", "console_in", "pipe_out"}, r.name \in Readers,
           NEW text
    PROVE  Moved(r, Received(r, text))
<1>1. /\ Program_Fields \subseteq DOMAIN r /\ {r.in, r.out, r.file} \subseteq Numbers
      /\ r.name \in Program_Names /\ PlaceOK(r) /\ r.exited = r.exited
      /\ r.name = "freq" => r.file = Invalid_Handle
      /\ r.pc \in {"console_in", "pipe_out"} => r.file = Invalid_Handle
  BY DEF ProgramOK, PlaceOK
<1>2. ~r.exited
  BY <1>1 DEF PlaceOK
<1>3. CASE r.name = "sort"
  <2>1. Moved(r, Sort_Received(r, text))
    BY <1>1, <1>2, <1>3 DEF Moved, Kept, ProgramOK, PlaceOK, Done, Has_File, Readers, Program_Fields,
                            Sort_Received, Goes_On, Writes
  <2> QED  BY <1>3, <2>1 DEF Received
<1>4. CASE r.name = "type"
  <2>1. Moved(r, Type_Received(r, text))
    BY <1>1, <1>2, <1>4 DEF Moved, Kept, ProgramOK, PlaceOK, Done, Has_File, Readers, Program_Fields,
                            Type_Received, Goes_On, Writes
  <2> QED  BY <1>4, <2>1 DEF Received
<1>5. CASE r.name = "freq"
  <2>1. Moved(r, Freq_Received(r, text))
    BY <1>1, <1>2, <1>5 DEF Moved, Kept, ProgramOK, PlaceOK, Done, Has_File, Readers, Program_Fields,
                            Freq_Received, Goes_On, Writes
  <2> QED  BY <1>5, <2>1 DEF Received
<1>6. CASE r.name = "find"
  <2>1. Moved(r, Find_Received(r, text))
    BY <1>1, <1>2, <1>6 DEF Moved, Kept, ProgramOK, PlaceOK, Done, Has_File, Readers, Program_Fields,
                            Find_Received
  <2> QED  BY <1>6, <2>1 DEF Received
<1> QED  BY <1>3, <1>4, <1>5, <1>6 DEF Readers

LEMMA DirMoves ==
    ASSUME NEW r, ProgramOK(r), r.pc = "read", r.name = "dir", NEW d
    PROVE  Moved(r, Dir_Received(r, d))
<1>1. /\ Program_Fields \subseteq DOMAIN r /\ {r.in, r.out, r.file} \subseteq Numbers
      /\ r.name \in Program_Names /\ ~r.exited /\ r.file # Invalid_Handle
  BY DEF ProgramOK, PlaceOK, Readers
<1> QED
  BY <1>1 DEF Moved, Kept, ProgramOK, PlaceOK, Done, Has_File, Readers, Program_Fields,
              Dir_Received, Writes

(* The handle that Input_Handle leads to is of the kind the program opened.*)
LEMMA InputKind ==
    ASSUME Sound, NEW p \in DOMAIN prog, prog[p].pc = "read", Has_File(prog[p])
    PROVE  /\ Handles[prog[p].file] \in Objects
           /\ Kind(Handles[prog[p].file]) = File_Kind(prog[p].name)
<1>1. ~Done(prog[p])
  BY DEF Done
<1>2. Reaches(prog[p].file, File_Kind(prog[p].name))
  BY <1>1 DEF Sound, CoreInv, FilesOK
<1> QED  BY <1>2 DEF Reaches, Kind

LEMMA DirectoryKept ==
    ASSUME NEW m, NEW h, "kind" \in DOMAIN h
    PROVE  LET e == Directory_Read(m, h).handle
           IN  "kind" \in DOMAIN e /\ e.kind = h.kind
BY DEF Directory_Read

LEMMA Typing ==
    ASSUME Sound
    PROVE  /\ ObjectsOK /\ ProgramsOK /\ HandleInv /\ keys \in Seq(Symbol)
           /\ \A p \in DOMAIN prog : ProgramOK(prog[p])
           /\ Handles \in [Numbers -> Objects \cup {NoObject}]
           /\ Invalid_Handle \in Numbers /\ Handles[Invalid_Handle] = NoObject
<1>1. ObjectsOK /\ ProgramsOK /\ HandleInv /\ ShellTypeOK /\ issued < Invalid_Handle
  BY DEF Sound, CoreInv
<1>2. keys \in Seq(Symbol) /\ \A p \in DOMAIN prog : ProgramOK(prog[p])
  BY <1>1 DEF ShellTypeOK, ProgramsOK
<1>3. Invalid_Handle \in Numbers
  BY DEF Invalid_Handle, Numbers
<1> QED  BY <1>1, <1>2, <1>3 DEF HandleInv, HandleTypeOK, Ordered

LEMMA AnyMove ==
    ASSUME Sound, ObjectsKept, UNCHANGED <<table_vars, keys, shell, hasty>>,
           NEW p \in DOMAIN prog, NEW r, Only(p, r), Moved(prog[p], r)
    PROVE  HandleInv' /\ CoreInv'
<1>1. keys' \in Seq(Symbol)
  BY Typing
<1> QED  BY <1>1, ProgramMoves DEF Moved

LEMMA QuietMove ==
    ASSUME Sound, UNCHANGED <<table_vars, object, keys, shell, hasty>>,
           NEW p \in DOMAIN prog, NEW r, Only(p, r), Moved(prog[p], r)
    PROVE  HandleInv' /\ CoreInv'
<1>1. ObjectsKept
  BY Typing, SameObjects
<1> QED  BY <1>1, AnyMove

LEMMA ReadFileStep ==
    ASSUME Sound, NEW p, At(p, "read"), Read_File(p)
    PROVE  HandleInv' /\ CoreInv'
<1> DEFINE r == prog[p]
           o == Handles[Input_Handle(r)]
<1>1. /\ p \in DOMAIN prog /\ r.pc = "read" /\ ProgramOK(r) /\ ObjectsOK
      /\ UNCHANGED <<table_vars, keys, shell, hasty>>
  BY Typing DEF At, Read_File
<1>2. /\ Program_Fields \subseteq DOMAIN r /\ {r.in, r.out, r.file} \subseteq Numbers
      /\ r.name \in Program_Names /\ ~r.exited
      /\ r.name \in Readers \/ (r.name \in {"dir", "tasklist"} /\ Has_File(r))
      /\ PlaceOK(r)
  BY <1>1 DEF ProgramOK, PlaceOK, Has_File
<1>3. Has_File(r) => o \in Objects /\ Kind(o) = File_Kind(r.name)
  BY <1>1, InputKind DEF Input_Handle
<1>4. CASE Read_Nothing(p)
  <2> DEFINE s == [r EXCEPT !.pc = "adrift"]
  <2>1. Moved(r, s)
    BY <1>1, <1>2 DEF Moved, Kept, ProgramOK, PlaceOK, Done, Has_File, Program_Fields
  <2>2. Only(p, s) /\ object' = object
    BY <1>4 DEF Read_Nothing
  <2> HIDE DEF s
  <2> QED  BY <1>1, <2>1, <2>2, QuietMove
<1>5. CASE Start_Waiting(p)
  <2> DEFINE s == [r EXCEPT !.pc = Kind(o), !.got = <<>>, !.source = o]
  <2>1. Kind(o) \in {"console_in", "pipe_out"} /\ Only(p, s) /\ object' = object
    BY <1>5 DEF Start_Waiting, Resolve_kiv_os_Handle
  <2>2. ~Has_File(r)
    BY <1>2, <1>3, <2>1 DEF File_Kind
  <2>3. Moved(r, s)
    BY <1>1, <1>2, <2>1, <2>2 DEF Moved, Kept, ProgramOK, PlaceOK, Done, Has_File, Program_Fields
  <2> HIDE DEF s
  <2> QED  BY <1>1, <2>1, <2>3, QuietMove
<1>6. CASE Read_From_File(p)
  <2> DEFINE h == IF Has_File(r) THEN Seek(object[o], r.position) ELSE object[o]
             read == File_Read(fat12, h, Size(r))
             s == IF Has_File(r) \/ read.text = <<>> THEN Received(r, read.text)
                  ELSE [r EXCEPT !.pc = "adrift"]
  <2>1. Kind(o) = "file" /\ object' = [object EXCEPT ![o] = h] /\ Only(p, s)
    BY <1>6 DEF Read_From_File, Resolve_kiv_os_Handle
  <2>2. r.name \in Readers
    BY <1>2, <1>3, <2>1 DEF File_Kind
  <2>3. Moved(r, Received(r, read.text))
    BY <1>1, <2>2, ReceivedMoves
  <2>4. Moved(r, [r EXCEPT !.pc = "adrift"])
    BY <1>1, <1>2 DEF Moved, Kept, ProgramOK, PlaceOK, Done, Has_File, Program_Fields
  <2>5. Moved(r, s)
    BY <2>3, <2>4
  <2>6. ObjectsKept
    <3>1. ASSUME o \in Objects
          PROVE  "kind" \in DOMAIN h /\ (held[o] # Unheld => Same_Object(object[o], h))
      BY <1>1, <3>1 DEF ObjectsOK, Same_Object, Is_Named, Seek
    <3> HIDE DEF h
    <3> QED  BY <1>1, <2>1, <3>1, OneObject
  <2> HIDE DEF s
  <2> QED  BY <1>1, <2>1, <2>5, <2>6, AnyMove
<1>7. CASE Read_From_Directory(p)
  <2> DEFINE q == Handles[r.file]
             d == Directory_Read(fat12, Seek(object[q], r.position))
             s == Dir_Received(r, d)
  <2>1. Kind(q) = "dir" /\ object' = [object EXCEPT ![q] = d.handle] /\ Only(p, s)
    BY <1>7 DEF Read_From_Directory, Resolve_kiv_os_Handle
  <2>2. Has_File(r) /\ q = o
    BY <2>1, Typing DEF Has_File, Kind, Input_Handle
  <2>3. r.name = "dir"
    BY <1>2, <1>3, <2>1, <2>2 DEF File_Kind, Readers
  <2>4. Moved(r, s)
    BY <1>1, <2>3, DirMoves
  <2>5. ObjectsKept
    <3>1. "kind" \in DOMAIN Seek(object[q], r.position) /\ Seek(object[q], r.position).kind = "dir"
      BY <1>1, <1>3, <2>1, <2>2 DEF ObjectsOK, Kind, Seek
    <3>2. "kind" \in DOMAIN d.handle /\ d.handle.kind = "dir"
      BY <3>1, DirectoryKept
    <3>3. object[q].kind = "dir"
      BY <1>3, <2>1, <2>2 DEF Kind
    <3> HIDE DEF d
    <3>4. Same_Object(object[q], d.handle)
      BY <3>2, <3>3 DEF Same_Object
    <3> QED  BY <1>1, <2>1, <3>2, <3>4, OneObject
  <2> HIDE DEF s
  <2> QED  BY <1>1, <2>1, <2>4, <2>5, AnyMove
<1>8. CASE Read_From_Procfs(p)
  <2> DEFINE Made(texts) == Writes(r, texts, "close")
  <2>1. PICK texts : Only(p, Made(texts)) /\ object' = object
    BY <1>8 DEF Read_From_Procfs
  <2>2. Kind(Handles[r.file]) = "procfs"
    BY <1>8 DEF Read_From_Procfs, Resolve_kiv_os_Handle
  <2>3. Has_File(r) /\ r.name = "tasklist"
    BY <1>2, <1>3, <2>2, Typing DEF Has_File, Kind, Input_Handle, File_Kind, Readers
  <2>4. Moved(r, Made(texts))
    BY <1>1, <1>2, <2>3 DEF Moved, Kept, ProgramOK, PlaceOK, Done, Has_File, Program_Fields, Writes
  <2> HIDE DEF Made
  <2> QED  BY <1>1, <2>1, <2>4, QuietMove
<1> QED  BY <1>4, <1>5, <1>6, <1>7, <1>8 DEF Read_File

LEMMA TailTyped ==
    ASSUME NEW S, NEW s \in Seq(S), s # <<>>
    PROVE  Head(s) \in S /\ Tail(s) \in Seq(S)
OBVIOUS

LEMMA ReadKeyStep ==
    ASSUME Sound, NEW p, At(p, "console_in"), Read_Key(p)
    PROVE  HandleInv' /\ CoreInv'
<1> DEFINE r == prog[p]
           typed == Typed(r.got, Head(keys), Size(r))
           s == IF typed.done THEN Received(r, typed.text) ELSE [r EXCEPT !.got = typed.text]
<1>1. /\ p \in DOMAIN prog /\ r.pc = "console_in" /\ ProgramOK(r) /\ ObjectsOK
      /\ keys \in Seq(Symbol)
  BY Typing DEF At
<1>7. UNCHANGED <<table_vars, object, shell, hasty>> /\ Only(p, s) /\ Press
  BY DEF Read_Key
<1>2. keys' \in Seq(Symbol)
  <2>1. Tail(keys) \in Seq(Symbol)
    BY <1>1, <1>7, TailTyped DEF Press
  <2> QED  BY <1>1, <1>7, <2>1 DEF Press
<1>3. r.name \in Readers
  BY <1>1 DEF ProgramOK, PlaceOK
<1>4. Moved(r, Received(r, typed.text))
  BY <1>1, <1>3, ReceivedMoves
<1>5. Moved(r, [r EXCEPT !.got = typed.text])
  BY <1>1 DEF Moved, Kept, ProgramOK, PlaceOK, Done, Has_File, Program_Fields
<1>6. Moved(r, s) /\ ObjectsKept
  BY <1>1, <1>4, <1>5, <1>7, SameObjects
<1> HIDE DEF s
<1> QED  BY <1>1, <1>2, <1>6, <1>7, ProgramMoves DEF Moved

LEMMA ConsumeStep ==
    ASSUME Sound, NEW p, At(p, "pipe_out"), Consume(p)
    PROVE  HandleInv' /\ CoreInv'
<1> DEFINE r == prog[p]
           Data(value) == [object[r.source] EXCEPT !.data = value]
           Next_One(text) == [Received(r, text) EXCEPT !.got = text]
<1>1. /\ p \in DOMAIN prog /\ r.pc = "pipe_out" /\ ProgramOK(r) /\ ObjectsOK
      /\ UNCHANGED <<table_vars, keys, shell, hasty>>
  BY Typing DEF At, Consume
<1>2. PICK text, value : Only(p, Next_One(text)) /\ object' = [object EXCEPT ![r.source] = Data(value)]
  BY DEF Consume
<1>3. r.name \in Readers
  BY <1>1 DEF ProgramOK, PlaceOK
<1>4. Moved(r, Next_One(text))
  <2>1. Moved(r, Received(r, text))
    BY <1>1, <1>3, ReceivedMoves
  <2> QED  BY <2>1 DEF Moved, Kept, ProgramOK, PlaceOK, Done, Has_File, Program_Fields
<1>5. ObjectsKept
  BY <1>1, <1>2, OneField
<1> HIDE DEF Next_One
<1> QED  BY <1>1, <1>2, <1>4, <1>5, AnyMove

LEMMA WriteTextStep ==
    ASSUME Sound, NEW p, At(p, "write"), Write_Text(p)
    PROVE  HandleInv' /\ CoreInv'
<1> DEFINE r == prog[p]
           o == Handles[r.out]
           refused == r.name = "type" /\ ~Has_File(r) /\ Refuses(o)
           text == Head(r.texts)
           s == [r EXCEPT !.texts = Tail(@),
                          !.pc = IF refused THEN "left"
                                 ELSE IF Len(r.texts) = 1 THEN r.next ELSE "write"]
<1>1. /\ p \in DOMAIN prog /\ r.pc = "write" /\ ProgramOK(r) /\ ObjectsOK
      /\ UNCHANGED <<table_vars, keys, shell, hasty>>
      /\ Only(p, s) /\ Write_File(r.out, text)
  BY Typing DEF At, Write_Text, Resolve_kiv_os_Handle
<1>2. Moved(r, s)
  <2> HIDE DEF refused
  <2>1. refused => r.name = "type" /\ ~Has_File(r)
    BY DEF refused
  <2> QED
    BY <1>1, <2>1 DEF Moved, Kept, ProgramOK, PlaceOK, Done, Has_File, Program_Fields, Readers
<1>3. r.out \in Numbers /\ (Handles[r.out] # NoObject => Handles[r.out] \in Objects)
  BY <1>1, Typing DEF ProgramOK
<1>4. ObjectsKept
  <2>1. CASE object' = object
    BY <1>1, <2>1, SameObjects
  <2>2. CASE object' = [object EXCEPT ![object[o].pipe].data = @ \o text]
    BY <1>1, <2>2, OneField
  <2>3. CASE Kind(o) = "file" /\ Write_To_File(o, text)
    <3> DEFINE item == [object[o].item EXCEPT !.length = Len(text)]
               h == [object[o] EXCEPT !.item = item, !.seek = 1]
    <3>1. object' = [object EXCEPT ![o] = h]
      BY <2>3 DEF Write_To_File
    <3>2. ASSUME o \in Objects
          PROVE  "kind" \in DOMAIN h /\ (held[o] # Unheld => Same_Object(object[o], h))
      BY <1>1, <2>3, <3>2 DEF ObjectsOK, Same_Object, Is_Named, Kind
    <3> HIDE DEF h
    <3> QED  BY <1>1, <3>1, <3>2, OneObject
  <2> QED  BY <1>1, <2>1, <2>2, <2>3 DEF Write_File, Resolve_kiv_os_Handle
<1> HIDE DEF s
<1> QED  BY <1>1, <1>2, <1>4, AnyMove

LEMMA CloseFileStep ==
    ASSUME Sound, NEW p, At(p, "close"), Close_File(p)
    PROVE  HandleInv' /\ CoreInv'
<1> DEFINE r == prog[p]
           s == [r EXCEPT !.pc = IF r.name = "sort" THEN "write" ELSE "exit"]
<1>1. /\ p \in DOMAIN prog /\ r.pc = "close" /\ ProgramOK(r) /\ keys' \in Seq(Symbol)
      /\ UNCHANGED <<shell, hasty>>
      /\ Only(p, s) /\ Close_Handle(r.file)
  BY Typing DEF At, Close_File
<1>2. ProgramOK(s) /\ Done(s) /\ s.file = r.file /\ s.in = r.in /\ s.out = r.out
      /\ (r.exited => s.exited)
  BY <1>1 DEF ProgramOK, PlaceOK, Done, Has_File, Program_Fields, Readers
<1> HIDE DEF s
<1> QED  BY <1>1, <1>2, ProgramCloses

(* The steps that only compute or tell the console something.              *)
LEMMA LocalSteps ==
    ASSUME Sound, NEW p,
           \/ At(p, "summary") /\ Summarize(p)
           \/ At(p, "reset") /\ Reset_Find(p)
           \/ At(p, "parse") /\ Parse_Find(p)
           \/ At(p, "lines") /\ Find_Lines(p)
           \/ At(p, "count") /\ Find_Count(p)
           \/ At(p, "echo") /\ Echo(p)
           \/ At(p, "delete") /\ Delete_File(p)
           \/ At(p, "exit") /\ Exit(p)
    PROVE  HandleInv' /\ CoreInv'
<1> DEFINE r == prog[p]
<1>1. /\ p \in DOMAIN prog /\ ProgramOK(r)
      /\ UNCHANGED <<table_vars, object, keys, shell, hasty>>
  BY Typing DEF At, Summarize, Reset_Find, Parse_Find, Find_Lines, Find_Count, Echo, Delete_File, Exit
<1> SUFFICES \E s : Only(p, s) /\ Moved(r, s)
  BY <1>1, QuietMove
<1>2. CASE At(p, "summary") /\ Summarize(p)
  <2>1. Only(p, Writes(r, <<Summary(r)>>, "close"))
    BY <1>2 DEF Summarize
  <2>2. Moved(r, Writes(r, <<Summary(r)>>, "close"))
    BY <1>1, <1>2 DEF At, Moved, Kept, ProgramOK, PlaceOK, Done, Has_File, Program_Fields, Readers, Writes
  <2> QED  BY <2>1, <2>2
<1>3. CASE At(p, "reset") /\ Reset_Find(p)
  <2>1. Only(p, [r EXCEPT !.pc = "parse"])
    BY <1>3 DEF Reset_Find
  <2>2. Moved(r, [r EXCEPT !.pc = "parse"])
    BY <1>1, <1>3 DEF At, Moved, Kept, ProgramOK, PlaceOK, Done, Has_File, Program_Fields, Readers
  <2> QED  BY <2>1, <2>2
<1>4. CASE At(p, "parse") /\ Parse_Find(p)
  <2> DEFINE parsed == Parse_Arguments(r.args)
             t == [r EXCEPT !.find = parsed]
             a == Writes(t, <<<<"Invalid arguments.">>>>, "exit")
             b == [t EXCEPT !.pc = IF parsed.filename = <<>> THEN "read" ELSE "open"]
  <2>1. Only(p, a) \/ Only(p, b)
    BY <1>4 DEF Parse_Find
  <2>2. Moved(r, a)
    BY <1>1, <1>4 DEF At, Moved, Kept, ProgramOK, PlaceOK, Done, Has_File, Program_Fields, Readers, Writes
  <2>3. Moved(r, b)
    BY <1>1, <1>4 DEF At, Moved, Kept, ProgramOK, PlaceOK, Done, Has_File, Program_Fields, Readers
  <2> QED  BY <2>1, <2>2, <2>3
<1>5. CASE At(p, "lines") /\ Find_Lines(p)
  <2> DEFINE s(lines) == [Writes(r, lines.out, "read") EXCEPT
                            !.lines = lines, !.position = @ + Len(r.got),
                            !.pc = IF lines.out = <<>> THEN "read" ELSE @]
  <2>1. PICK lines : Only(p, s(lines))
    BY <1>5 DEF Find_Lines
  <2>2. Moved(r, s(lines))
    BY <1>1, <1>5 DEF At, Moved, Kept, ProgramOK, PlaceOK, Done, Has_File, Program_Fields, Readers, Writes
  <2> QED  BY <2>1, <2>2
<1>6. CASE At(p, "count") /\ Find_Count(p)
  <2> DEFINE after == IF Has_File(r) THEN "close" ELSE "exit"
             a(texts) == Writes(r, texts, after)
             b == [r EXCEPT !.pc = after]
  <2>1. (\E texts : Only(p, a(texts))) \/ Only(p, b)
    BY <1>6 DEF Find_Count
  <2>2. \A texts : Moved(r, a(texts))
    BY <1>1, <1>6 DEF At, Moved, Kept, ProgramOK, PlaceOK, Done, Has_File, Program_Fields, Readers, Writes
  <2>3. Moved(r, b)
    BY <1>1, <1>6 DEF At, Moved, Kept, ProgramOK, PlaceOK, Done, Has_File, Program_Fields, Readers
  <2> QED  BY <2>1, <2>2, <2>3
<1>7. CASE At(p, "echo") /\ Echo(p)
  <2> DEFINE a(texts) == Writes(r, texts, "exit")
             b == [r EXCEPT !.pc = "exit"]
  <2>1. (\E texts : Only(p, a(texts))) \/ Only(p, b)
    BY <1>7 DEF Echo
  <2>2. \A texts : Moved(r, a(texts))
    BY <1>1, <1>7 DEF At, Moved, Kept, ProgramOK, PlaceOK, Done, Has_File, Program_Fields, Readers, Writes
  <2>3. Moved(r, b)
    BY <1>1, <1>7 DEF At, Moved, Kept, ProgramOK, PlaceOK, Done, Has_File, Program_Fields, Readers
  <2> QED  BY <2>1, <2>2, <2>3
<1>8. CASE At(p, "delete") /\ Delete_File(p)
  <2>1. Only(p, [r EXCEPT !.pc = "exit"])
    BY <1>8 DEF Delete_File
  <2>2. Moved(r, [r EXCEPT !.pc = "exit"])
    BY <1>1, <1>8 DEF At, Moved, Kept, ProgramOK, PlaceOK, Done, Has_File, Program_Fields, Readers
  <2> QED  BY <2>1, <2>2
<1>9. CASE At(p, "exit") /\ Exit(p)
  <2> DEFINE s == [r EXCEPT !.exited = TRUE,
                            !.pc = IF Hangs_Up(r.name) THEN "hang_up" ELSE "gone"]
  <2>1. Only(p, s)
    BY <1>9 DEF Exit
  <2>2. Moved(r, s)
    BY <1>1, <1>9 DEF At, Moved, Kept, ProgramOK, PlaceOK, Done, Has_File, Program_Fields, Readers
  <2> QED  BY <2>1, <2>2
<1> QED  BY <1>2, <1>3, <1>4, <1>5, <1>6, <1>7, <1>8, <1>9

LEMMA HangUpStep ==
    ASSUME Sound, NEW p, At(p, "hang_up"), Hang_Up(p)
    PROVE  HandleInv' /\ CoreInv'
<1> DEFINE r == prog[p]
           o == Handles[r.out]
           s == [r EXCEPT !.pc = IF o = NoObject THEN "lost" ELSE "gone"]
<1>1. /\ p \in DOMAIN prog /\ r.pc = "hang_up" /\ ProgramOK(r) /\ ObjectsOK
      /\ UNCHANGED <<table_vars, keys, shell, hasty>> /\ Only(p, s)
  BY Typing DEF At, Hang_Up, Resolve_kiv_os_Handle
<1>2. Moved(r, s)
  BY <1>1 DEF Moved, Kept, ProgramOK, PlaceOK, Done, Has_File, Program_Fields, Readers
<1>3. ObjectsKept
  <2>1. CASE object' = object
    BY <1>1, <2>1, SameObjects
  <2>2. CASE object' = [object EXCEPT ![object[o].pipe].done = TRUE]
    BY <1>1, <2>2, OneField
  <2> QED  BY <2>1, <2>2 DEF Hang_Up, Resolve_kiv_os_Handle
<1> HIDE DEF s
<1> QED  BY <1>1, <1>2, <1>3, AnyMove

(* What Open_File has opened, if anything.                                 *)
LEMMA OpenedHandle ==
    ASSUME NEW stored, NEW wd, NEW path, NEW always \in BOOLEAN, NEW dir \in BOOLEAN
    PROVE  LET h == Opened(wd, path, always, dir, stored).handle
           IN  h = Absent \/ \E item, parent :
                                h = Item_Handle(IF dir THEN "dir" ELSE "file", item, parent)
BY DEF Opened, Opened_Item, Opened_In, Opened_Created, Opened_New, Refused, Absent

LEMMA OpenFileStep ==
    ASSUME CommandLineAssumption, Sound, issued' < Invalid_Handle,
           NEW p, At(p, "open"), Open_File(p)
    PROVE  HandleInv' /\ CoreInv'
<1> DEFINE r == prog[p]
           dir == r.name \in {"dir", "md"}
           Wanted(stored) ==
                IF r.reaped THEN [Refused(<<>>) EXCEPT !.fault = TRUE]
                ELSE IF r.name = "tasklist" THEN [Refused(<<>>) EXCEPT !.handle = [kind |-> "procfs"]]
                ELSE Opened(r.wd, Asked(r), r.name # "md", dir, stored)
<1>1. /\ p \in DOMAIN prog /\ r.pc = "open" /\ ProgramOK(r) /\ ObjectsOK
      /\ UNCHANGED <<shell, hasty, keys>> /\ keys' \in Seq(Symbol)
  BY Typing DEF At, Open_File
<1>2. PICK stored : LET opened == Wanted(stored)
                    IN  Take(opened) /\ Only(p, Continued(r, Number(opened)))
  BY DEF Open_File
<1> DEFINE h == Wanted(stored).handle
<1>3. \/ h = Absent
      \/ h = [kind |-> "procfs"] /\ r.name = "tasklist"
      \/ /\ \E item, parent : h = Item_Handle(IF dir THEN "dir" ELSE "file", item, parent)
         /\ r.name # "tasklist"
  <2>1. PICK always \in BOOLEAN, d \in BOOLEAN : always = (r.name # "md") /\ d = dir
    <3>1. CASE r.name = "md"
      <4>1. FALSE = (r.name # "md") /\ TRUE = dir
        BY <3>1
      <4> QED  BY <4>1
    <3>2. CASE r.name = "dir"
      <4>1. TRUE = (r.name # "md") /\ TRUE = dir
        BY <3>2
      <4> QED  BY <4>1
    <3>3. CASE ~dir
      <4>1. TRUE = (r.name # "md") /\ FALSE = dir
        BY <3>3
      <4> QED  BY <4>1
    <3> QED  BY <3>1, <3>2, <3>3
  <2>2. r.reaped => h = Absent
    BY DEF Refused
  <2>3. ~r.reaped /\ r.name = "tasklist" => h = [kind |-> "procfs"]
    BY DEF Refused
  <2>4. ~r.reaped /\ r.name # "tasklist" => h = Opened(r.wd, Asked(r), r.name # "md", dir, stored).handle
    OBVIOUS
  <2>5. ASSUME ~r.reaped, r.name # "tasklist"
        PROVE  h = Absent \/ \E item, parent : h = Item_Handle(IF d THEN "dir" ELSE "file", item, parent)
    <3>1. h = Opened(r.wd, Asked(r), always, d, stored).handle
      BY <2>1, <2>4, <2>5
    <3> HIDE DEF h
    <3> QED  BY <3>1, OpenedHandle
  <2> HIDE DEF h, Wanted
  <2> QED  BY <2>1, <2>2, <2>3, <2>5
<1>4. /\ Program_Fields \subseteq DOMAIN r /\ {r.in, r.out} \subseteq Numbers
      /\ r.name \in {"type", "md", "dir", "find", "sort", "tasklist"} /\ ~r.exited
      /\ r.file = Invalid_Handle
  BY <1>1 DEF ProgramOK, PlaceOK, Program_Names
<1>5. CASE h = Absent
  <2> DEFINE s == Continued(r, Invalid_Handle)
  <2>1. UNCHANGED <<object, table_vars>> /\ Only(p, s)
    BY <1>2, <1>5 DEF Take, Number
  <2>2. Moved(r, s)
    <3>1. ProgramOK(s)
      BY <1>4, Typing DEF ProgramOK, PlaceOK, Program_Fields, Program_Names, Readers,
                          Continued, Writes, Has_File
    <3>2. Kept(r, s)
      BY <1>4 DEF Kept, Has_File, Program_Fields, Program_Names, Continued, Writes
    <3> QED  BY <3>1, <3>2 DEF Moved
  <2> HIDE DEF s
  <2> QED  BY <1>1, <2>1, <2>2, QuietMove
<1>6. CASE h # Absent
  <2> DEFINE s == Continued(r, Last_Handle')
  <2>1. Enter(h) /\ Only(p, s)
    BY <1>2, <1>6 DEF Take, Number
  <2>2. "kind" \in DOMAIN h /\ h.kind = File_Kind(r.name) /\ h.kind \in Kinds /\ h.kind # "pipe_in"
    <3>1. CASE h = [kind |-> "procfs"] /\ r.name = "tasklist"
      <4> HIDE DEF h
      <4> QED  BY <3>1 DEF File_Kind, Kinds
    <3>2. CASE /\ \E item, parent : h = Item_Handle(IF dir THEN "dir" ELSE "file", item, parent)
               /\ r.name # "tasklist"
      <4> HIDE DEF h
      <4> QED  BY <3>2 DEF File_Kind, Kinds, Item_Handle
    <3> QED  BY <1>3, <1>6, <3>1, <3>2
  <2> HIDE DEF h
  <2>3. Last_Handle' \in Numbers /\ Last_Handle' # Invalid_Handle
    BY <2>1, <2>2, Entered DEF Numbers
  <2>4. /\ ProgramOK(s) /\ s.file = Last_Handle' /\ s.in = r.in /\ s.out = r.out
        /\ s.name = r.name /\ ~Done(s)
    <3>1. PICK n \in Numbers \ {Invalid_Handle} : n = Last_Handle'
      BY <2>3
    <3> DEFINE t == Continued(r, n)
    <3>2. ProgramOK(t)
      BY <1>4 DEF ProgramOK, PlaceOK, Program_Fields, Program_Names, Readers,
                  Continued, Writes, Has_File
    <3>3. t.file = n /\ t.in = r.in /\ t.out = r.out /\ t.name = r.name /\ ~Done(t)
      BY <1>4 DEF Has_File, Program_Fields, Program_Names, Continued, Writes, Done
    <3> QED  BY <3>1, <3>2, <3>3
  <2> HIDE DEF s
  <2>5. ~Has_File(r)
    BY <1>4 DEF Has_File
  <2> QED  BY <1>1, <1>4, <2>1, <2>2, <2>4, <2>5, ProgramOpens
<1> QED  BY <1>5, <1>6

(* The step of a program.                                                  *)
LEMMA ProgramStep ==
    ASSUME CommandLineAssumption, Sound, issued' < Invalid_Handle, NEW p, Program(p)
    PROVE  HandleInv' /\ CoreInv'
BY OpenFileStep, ReadFileStep, ReadKeyStep, ConsumeStep, WriteTextStep, CloseFileStep,
   LocalSteps, HangUpStep DEF Program

---------------------------------------------------------------------------
(* Texts.                                                                  *)

LEMMA PathTyped ==
    ASSUME NEW text \in Seq(Symbol)
    PROVE  Path(text).names \in Seq(Symbol)
<1> DEFINE V == Seq(Symbol)
           size == Len(text)
           More(v, n) == IF text[n] = "/" THEN v ELSE Append(v, text[n])
           next == [n \in 1..size |-> [v \in V |-> More(v, n)]]
           names[n \in 0..Len(text)] ==
               IF n = 0 THEN <<>>
               ELSE IF text[n] = "/" THEN names[n - 1] ELSE Append(names[n - 1], text[n])
<1>0. \A v \in V, n \in 1..size : More(v, n) \in V
  <2> SUFFICES ASSUME NEW v \in Seq(Symbol), NEW n \in 1..Len(text)
               PROVE  More(v, n) \in Seq(Symbol)
    OBVIOUS
  <2>1. text[n] \in Symbol
    OBVIOUS
  <2>2. Append(v, text[n]) \in Seq(Symbol)
    BY <2>1
  <2> QED  BY <2>2
<1>1. size \in Nat /\ <<>> \in V /\ next \in [1..size -> [V -> V]]
  <2>1. size \in Nat /\ <<>> \in V
    OBVIOUS
  <2> HIDE DEF V, More, size
  <2> QED  BY <1>0, <2>1
<1>2. PICK g \in [0..size -> V] : Turns(g, size, <<>>, next)
  <2> HIDE DEF V, next, size
  <2> QED  BY <1>1, Iteration
<1>3. ASSUME NEW n \in 0..size
      PROVE  g[n] = IF n = 0 THEN <<>> ELSE More(g[n - 1], n)
  <2> HIDE DEF V, More
  <2>1. CASE n = 0
    BY <1>2, <2>1 DEF Turns
  <2>2. CASE n # 0
    <3>1. n \in 1..size /\ n - 1 \in 0..size
      BY <1>1, <2>2
    <3> QED  BY <1>2, <2>2, <3>1 DEF Turns
  <2> QED  BY <2>1, <2>2
<1>4. g = [n \in 0..Len(text) |->
              IF n = 0 THEN <<>>
              ELSE IF text[n] = "/" THEN g[n - 1] ELSE Append(g[n - 1], text[n])]
  BY <1>3
<1>5. names = [n \in 0..Len(text) |->
                  IF n = 0 THEN <<>>
                  ELSE IF text[n] = "/" THEN names[n - 1] ELSE Append(names[n - 1], text[n])]
  BY <1>4 DEF names
<1> HIDE DEF names
<1> DEFINE S == {n \in 0..size : names[n] \in V}
<1>6. 0 \in S
  BY <1>1, <1>5
<1>7. ASSUME NEW n \in 1..size, n - 1 \in S  PROVE n \in S
  <2>1. n \in 0..size /\ n # 0
    BY <1>1
  <2>2. names[n] = More(names[n - 1], n)
    BY <1>5, <2>1
  <2> HIDE DEF V, More
  <2> QED  BY <1>0, <1>7, <2>1, <2>2
<1>8. names[size] \in V
  <2>1. size \in 0..size
    BY <1>1
  <2> HIDE DEF S, size
  <2>2. 0..size \subseteq S
    BY <1>1, <1>6, <1>7, Induction
  <2> QED  BY <2>1, <2>2 DEF S
<1> QED  BY <1>8 DEF Path, names

LEMMA TokenTurnTyped ==
    ASSUME NEW v \in [tokens : Seq(Seq(Symbol)), within : BOOLEAN], NEW symbol \in Symbol
    PROVE  Token_Turn(v, symbol) \in [tokens : Seq(Seq(Symbol)), within : BOOLEAN]
<1> DEFINE Texts == Seq(Symbol)
           n == Len(v.tokens)
           more == [v.tokens EXCEPT ![n] = Append(v.tokens[n], symbol)]
<1>1. v = [tokens |-> v.tokens, within |-> v.within] /\ v.tokens \in Seq(Texts) /\ v.within \in BOOLEAN
  OBVIOUS
<1>2. ASSUME Token_Turn(v, symbol) = [v EXCEPT !.within = FALSE]
      PROVE  Token_Turn(v, symbol) \in [tokens : Seq(Texts), within : BOOLEAN]
  BY <1>2
<1>3. ASSUME v.within, Token_Turn(v, symbol) = [v EXCEPT !.tokens[n] = Append(@, symbol)]
      PROVE  Token_Turn(v, symbol) \in [tokens : Seq(Texts), within : BOOLEAN]
  <2>1. more \in Seq(Texts)
    <3>1. CASE v.tokens = <<>>
      <4>1. n = 0 /\ DOMAIN v.tokens = {}
        BY <3>1
      <4>2. more = v.tokens
        BY <3>1, <4>1
      <4> QED  BY <1>1, <4>2
    <3>2. CASE v.tokens # <<>>
      <4>1. n \in 1..n /\ n \in Nat
        BY <1>1, <3>2
      <4>2. v.tokens[n] \in Texts
        BY <1>1, <4>1
      <4>3. Append(v.tokens[n], symbol) \in Texts
        BY <4>2
      <4>4. more \in [1..n -> Texts]
        <5>1. DOMAIN v.tokens = 1..n /\ \A i \in 1..n : v.tokens[i] \in Texts
          BY <1>1
        <5> HIDE DEF Texts, n
        <5> QED  BY <4>3, <5>1
      <4> HIDE DEF Texts, more, n
      <4> QED  BY <4>1, <4>4
    <3> QED  BY <3>1, <3>2
  <2>2. Token_Turn(v, symbol) = [tokens |-> more, within |-> v.within]
    BY <1>1, <1>3
  <2> HIDE DEF more
  <2> QED  BY <1>1, <2>1, <2>2
<1>4. ASSUME Token_Turn(v, symbol) = [tokens |-> Append(v.tokens, <<symbol>>), within |-> TRUE]
      PROVE  Token_Turn(v, symbol) \in [tokens : Seq(Texts), within : BOOLEAN]
  <2>1. <<symbol>> \in Texts
    OBVIOUS
  <2>2. Append(v.tokens, <<symbol>>) \in Seq(Texts)
    <3> DEFINE word == <<symbol>>
    <3>1. word \in Texts
      BY <2>1
    <3> HIDE DEF Texts, word
    <3>2. Append(v.tokens, word) \in Seq(Texts)
      BY <1>1, <3>1
    <3> QED  BY <3>2 DEF word
  <2>3. Token_Turn(v, symbol) = [tokens |-> Append(v.tokens, <<symbol>>), within |-> TRUE]
    BY <1>4
  <2> QED  BY <2>2, <2>3
<1>5. \/ Token_Turn(v, symbol) = [v EXCEPT !.within = FALSE]
      \/ v.within /\ Token_Turn(v, symbol) = [v EXCEPT !.tokens[n] = Append(@, symbol)]
      \/ Token_Turn(v, symbol) = [tokens |-> Append(v.tokens, <<symbol>>), within |-> TRUE]
  BY Zenon DEF Token_Turn
<1> QED  BY <1>2, <1>3, <1>4, <1>5

LEMMA TokensTyped ==
    ASSUME NEW text \in Seq(Symbol)
    PROVE  Tokens(text) \in Seq(Seq(Symbol))
<1> DEFINE V == [tokens : Seq(Seq(Symbol)), within : BOOLEAN]
           size == Len(text)
           first == [tokens |-> <<>>, within |-> FALSE]
           next == [n \in 1..size |-> [v \in V |-> Token_Turn(v, text[n])]]
           after[n \in 0..Len(text)] ==
               IF n = 0 THEN [tokens |-> <<>>, within |-> FALSE]
               ELSE Token_Turn(after[n - 1], text[n])
<1>0. \A v \in V, n \in 1..size : Token_Turn(v, text[n]) \in V
  <2> SUFFICES ASSUME NEW v \in V, NEW n \in 1..Len(text)
               PROVE  Token_Turn(v, text[n]) \in V
    OBVIOUS
  <2>1. text[n] \in Symbol
    OBVIOUS
  <2> QED  BY <2>1, TokenTurnTyped
<1>1. size \in Nat /\ first \in V /\ next \in [1..size -> [V -> V]]
  <2>1. size \in Nat /\ first \in V
    OBVIOUS
  <2> HIDE DEF V, size, first
  <2> QED  BY <1>0, <2>1
<1>2. PICK g \in [0..size -> V] : Turns(g, size, first, next)
  <2> HIDE DEF V, next, size, first
  <2> QED  BY <1>1, Iteration
<1>3. ASSUME NEW n \in 0..size
      PROVE  g[n] = IF n = 0 THEN first ELSE Token_Turn(g[n - 1], text[n])
  <2> HIDE DEF V, first
  <2>1. CASE n = 0
    BY <1>2, <2>1 DEF Turns
  <2>2. CASE n # 0
    <3>1. n \in 1..size /\ n - 1 \in 0..size
      BY <1>1, <2>2
    <3> QED  BY <1>2, <2>2, <3>1 DEF Turns
  <2> QED  BY <2>1, <2>2
<1>4. g = [n \in 0..Len(text) |->
              IF n = 0 THEN [tokens |-> <<>>, within |-> FALSE]
              ELSE Token_Turn(g[n - 1], text[n])]
  BY <1>3
<1>5. after = [n \in 0..Len(text) |->
                  IF n = 0 THEN [tokens |-> <<>>, within |-> FALSE]
                  ELSE Token_Turn(after[n - 1], text[n])]
  BY <1>4 DEF after
<1> HIDE DEF after
<1> DEFINE S == {n \in 0..size : after[n] \in V}
<1>6. 0 \in S
  BY <1>1, <1>5
<1>7. ASSUME NEW n \in 1..size, n - 1 \in S  PROVE n \in S
  <2>1. n \in 0..size /\ n # 0
    BY <1>1
  <2>2. after[n] = Token_Turn(after[n - 1], text[n])
    BY <1>5, <2>1
  <2> HIDE DEF V
  <2> QED  BY <1>0, <1>7, <2>1, <2>2
<1>8. after[size] \in V
  <2>1. size \in 0..size
    BY <1>1
  <2> HIDE DEF S, size
  <2>2. 0..size \subseteq S
    BY <1>1, <1>6, <1>7, Induction
  <2> QED  BY <2>1, <2>2 DEF S
<1> QED  BY <1>8 DEF Tokens, after

(* Where the parser can be, and what it has made of the line so far.       *)
Parsing ==
    {v \in [commands : Seq(Commands), state : {"base", "parameters", "filename"}] :
        LET n == Len(v.commands)
        IN  /\ \A i \in 1..n :
                /\ i < n \/ v.state = "base" => v.commands[i].is_pipe
                /\ v.commands[i].is_pipe => ~v.commands[i].is_std_in /\ ~v.commands[i].is_std_out
                /\ ~(v.commands[i].is_std_in /\ v.commands[i].is_std_out)
            /\ v.state # "base" => n > 0 /\ ~v.commands[n].is_pipe
            /\ v.state = "parameters" => ~v.commands[n].is_std_in /\ ~v.commands[n].is_std_out}

\* The last command of the line is changed.
LEMMA LastCommand ==
    ASSUME NEW v \in Parsing, v.state # "base", NEW state \in {"base", "parameters", "filename"},
           NEW c \in Commands,
           c.is_pipe => ~c.is_std_in /\ ~c.is_std_out, ~(c.is_std_in /\ c.is_std_out),
           c.is_pipe <=> state = "base", state = "parameters" => ~c.is_std_in /\ ~c.is_std_out
    PROVE  [commands |-> [v.commands EXCEPT ![Len(v.commands)] = c], state |-> state] \in Parsing
<1> DEFINE n == Len(v.commands)
           more == [v.commands EXCEPT ![n] = c]
<1>1. v.commands \in Seq(Commands) /\ n \in Nat /\ n > 0
  BY DEF Parsing
<1>2. DOMAIN v.commands = 1..n /\ \A i \in 1..n : v.commands[i] \in Commands
  BY <1>1
<1>3. more = [i \in 1..n |-> IF i = n THEN c ELSE v.commands[i]]
  BY <1>2
<1>4. more \in [1..n -> Commands]
  <2> HIDE DEF n, more
  <2> QED  BY <1>2, <1>3
<1>5. more \in Seq(Commands) /\ Len(more) = n
  <2> HIDE DEF n, more
  <2> QED  BY <1>1, <1>4
<1>6. \A i \in 1..n :
        /\ i < n => v.commands[i].is_pipe
        /\ v.commands[i].is_pipe => ~v.commands[i].is_std_in /\ ~v.commands[i].is_std_out
        /\ ~(v.commands[i].is_std_in /\ v.commands[i].is_std_out)
  BY DEF Parsing
<1>7. \A i \in 1..n :
        /\ i < n => more[i].is_pipe
        /\ more[i].is_pipe => ~more[i].is_std_in /\ ~more[i].is_std_out
        /\ ~(more[i].is_std_in /\ more[i].is_std_out)
        /\ i = n => more[i] = c
  <2> HIDE DEF n, more
  <2> QED  BY <1>3, <1>6
<1> HIDE DEF n, more
<1> QED  BY <1>1, <1>5, <1>7 DEF Parsing, n, more

LEMMA ParseTurnOK ==
    ASSUME NEW v \in Parsing, NEW token \in Seq(Symbol)
    PROVE  Parse_Turn(v, token) \in Parsing
<1> DEFINE n == Len(v.commands)
           c == v.commands[n]
           Set(d, state) == [commands |-> [v.commands EXCEPT ![n] = d], state |-> state]
           file == [c EXCEPT !.filename = @ \o token]
           pipe == [c EXCEPT !.is_pipe = TRUE]
           in   == [c EXCEPT !.is_std_in = TRUE]
           out  == [c EXCEPT !.is_std_out = TRUE]
           Args(glued) == [c EXCEPT !.parameters = IF @ = <<>> THEN token ELSE glued]
           glue == c.parameters \o <<" ">> \o token
<1>1. /\ v = [commands |-> v.commands, state |-> v.state] /\ v.commands \in Seq(Commands)
      /\ n \in Nat /\ v.state \in {"base", "parameters", "filename"}
      /\ v.state # "base" => /\ c \in Commands /\ ~c.is_pipe
                             /\ ~(c.is_std_in /\ c.is_std_out)
      /\ v.state = "parameters" => ~c.is_std_in /\ ~c.is_std_out
  BY DEF Parsing
<1>2. \/ /\ v.state = "base"
         /\ Parse_Turn(v, token) =
                [commands |-> Append(v.commands, New_Command(token)), state |-> "parameters"]
      \/ v.state = "filename" /\ Parse_Turn(v, token) = [v EXCEPT !.commands[n].filename = @ \o token]
      \/ /\ v.state = "parameters"
         /\ \/ Parse_Turn(v, token) = [v EXCEPT !.commands[n].is_pipe = TRUE, !.state = "base"]
            \/ Parse_Turn(v, token) = [v EXCEPT !.commands[n].is_std_in = TRUE, !.state = "filename"]
            \/ Parse_Turn(v, token) = [v EXCEPT !.commands[n].is_std_out = TRUE, !.state = "filename"]
            \/ Parse_Turn(v, token) = [v EXCEPT !.commands[n].parameters =
                                          IF @ = <<>> THEN token ELSE @ \o <<" ">> \o token]
  <2>1. v.state = "base" \/ v.state = "filename" \/ v.state = "parameters"
    BY <1>1
  <2>2. v.state = "base" => /\ v.state # "filename" /\ v.state # "parameters"
    BY <1>1
  <2>3. v.state = "filename" => /\ v.state # "base" /\ v.state # "parameters"
    BY <1>1
  <2>4. CASE token = <<"|">>
    <3>1. token # <<"<">> /\ token # <<">">>
      BY <2>4, Zenon
    <3> QED  BY <2>1, <2>2, <2>3, <2>4, <3>1, Zenon DEF Parse_Turn
  <2>5. CASE token = <<"<">>
    <3>1. token # <<"|">> /\ token # <<">">>
      BY <2>5, Zenon
    <3> QED  BY <2>1, <2>2, <2>3, <2>5, <3>1, Zenon DEF Parse_Turn
  <2>6. CASE token = <<">">>
    <3>1. token # <<"|">> /\ token # <<"<">>
      BY <2>6, Zenon
    <3> QED  BY <2>1, <2>2, <2>3, <2>6, <3>1, Zenon DEF Parse_Turn
  <2>7. CASE token # <<"|">> /\ token # <<"<">> /\ token # <<">">>
    BY <2>1, <2>2, <2>3, <2>7, Zenon DEF Parse_Turn
  <2> QED  BY <2>4, <2>5, <2>6, <2>7, Zenon
<1>3. ASSUME v.state = "base",
             Parse_Turn(v, token) =
                [commands |-> Append(v.commands, New_Command(token)), state |-> "parameters"]
      PROVE  Parse_Turn(v, token) \in Parsing
  <2> DEFINE d == New_Command(token)
             more == Append(v.commands, d)
  <2>1. d \in Commands /\ ~d.is_pipe /\ ~d.is_std_in /\ ~d.is_std_out
    BY DEF New_Command, Commands
  <2>2. \A i \in 1..n :
          /\ v.commands[i].is_pipe
          /\ v.commands[i].is_pipe => ~v.commands[i].is_std_in /\ ~v.commands[i].is_std_out
          /\ ~(v.commands[i].is_std_in /\ v.commands[i].is_std_out)
    BY <1>3 DEF Parsing
  <2> HIDE DEF d
  <2>3. more \in Seq(Commands) /\ Len(more) = n + 1 /\ more[n + 1] = d
        /\ \A i \in 1..n : more[i] = v.commands[i]
    BY <1>1, <2>1
  <2>4. [commands |-> more, state |-> "parameters"] \in Parsing
    <3> DEFINE w == [commands |-> more, state |-> "parameters"]
    <3>1. w \in [commands : Seq(Commands), state : {"base", "parameters", "filename"}]
      <4> HIDE DEF more
      <4> QED  BY <2>3
    <3>2. ASSUME NEW i \in 1..n + 1
          PROVE  /\ i < n + 1 => more[i].is_pipe
                 /\ more[i].is_pipe => ~more[i].is_std_in /\ ~more[i].is_std_out
                 /\ ~(more[i].is_std_in /\ more[i].is_std_out)
      <4> HIDE DEF more, n
      <4>1. CASE i = n + 1
        BY <1>1, <2>1, <2>3, <4>1
      <4>2. CASE i # n + 1
        <5>1. i \in 1..n
          BY <1>1, <4>2
        <5> QED  BY <2>2, <2>3, <5>1
      <4> QED  BY <4>1, <4>2
    <3>3. n + 1 > 0 /\ ~more[n + 1].is_pipe /\ ~more[n + 1].is_std_in /\ ~more[n + 1].is_std_out
      <4> HIDE DEF more, n
      <4> QED  BY <1>1, <2>1, <2>3
    <3> HIDE DEF more, n
    <3>4. w.commands = more /\ w.state = "parameters"
      OBVIOUS
    <3> HIDE DEF w
    <3>5. w \in Parsing
      BY <2>3, <3>1, <3>2, <3>3, <3>4 DEF Parsing
    <3> QED  BY <3>5 DEF w
  <2> QED  BY <1>3, <2>4 DEF d
<1>4. ASSUME v.state = "filename", Parse_Turn(v, token) = [v EXCEPT !.commands[n].filename = @ \o token]
      PROVE  Parse_Turn(v, token) \in Parsing
  <2>1. Parse_Turn(v, token) = Set(file, "filename")
    BY <1>1, <1>4
  <2>2. file \in Commands /\ ~file.is_pipe /\ ~(file.is_std_in /\ file.is_std_out)
    <3>1. c.filename \o token \in Seq(Symbol)
      BY <1>1, <1>4 DEF Commands
    <3> QED  BY <1>1, <1>4, <3>1 DEF Commands
  <2> HIDE DEF file
  <2>8. v.state # "base"
    BY <1>4
  <2>9. Set(file, "filename") \in Parsing
    BY <2>2, <2>8, LastCommand
  <2> QED  BY <2>1, <2>9
<1>5. ASSUME v.state = "parameters",
             Parse_Turn(v, token) = [v EXCEPT !.commands[n].is_pipe = TRUE, !.state = "base"]
      PROVE  Parse_Turn(v, token) \in Parsing
  <2>1. Parse_Turn(v, token) = Set(pipe, "base")
    BY <1>1, <1>5
  <2>2. pipe \in Commands /\ pipe.is_pipe /\ ~pipe.is_std_in /\ ~pipe.is_std_out
    BY <1>1, <1>5 DEF Commands
  <2> HIDE DEF pipe
  <2>8. v.state # "base"
    BY <1>5
  <2>9. Set(pipe, "base") \in Parsing
    BY <2>2, <2>8, LastCommand
  <2> QED  BY <2>1, <2>9
<1>6. ASSUME v.state = "parameters",
             Parse_Turn(v, token) = [v EXCEPT !.commands[n].is_std_in = TRUE, !.state = "filename"]
      PROVE  Parse_Turn(v, token) \in Parsing
  <2>1. Parse_Turn(v, token) = Set(in, "filename")
    BY <1>1, <1>6
  <2>2. in \in Commands /\ ~in.is_pipe /\ ~in.is_std_out
    BY <1>1, <1>6 DEF Commands
  <2> HIDE DEF in
  <2>8. v.state # "base"
    BY <1>6
  <2>9. Set(in, "filename") \in Parsing
    BY <2>2, <2>8, LastCommand
  <2> QED  BY <2>1, <2>9
<1>7. ASSUME v.state = "parameters",
             Parse_Turn(v, token) = [v EXCEPT !.commands[n].is_std_out = TRUE, !.state = "filename"]
      PROVE  Parse_Turn(v, token) \in Parsing
  <2>1. Parse_Turn(v, token) = Set(out, "filename")
    BY <1>1, <1>7
  <2>2. out \in Commands /\ ~out.is_pipe /\ ~out.is_std_in
    BY <1>1, <1>7 DEF Commands
  <2> HIDE DEF out
  <2>8. v.state # "base"
    BY <1>7
  <2>9. Set(out, "filename") \in Parsing
    BY <2>2, <2>8, LastCommand
  <2> QED  BY <2>1, <2>9
<1>8. ASSUME v.state = "parameters",
             Parse_Turn(v, token) = [v EXCEPT !.commands[n].parameters =
                                        IF @ = <<>> THEN token ELSE @ \o <<" ">> \o token]
      PROVE  Parse_Turn(v, token) \in Parsing
  <2>1. PICK blank \in Symbol : blank = " "
    BY Zenon DEF Symbol
  <2>2. c.parameters \o <<blank>> \o token \in Seq(Symbol)
    <3>1. c.parameters \in Seq(Symbol)
      BY <1>1, <1>8 DEF Commands
    <3>2. c.parameters \o <<blank>> \in Seq(Symbol)
      BY <3>1
    <3> DEFINE start == c.parameters \o <<blank>>
    <3> HIDE DEF start
    <3>3. start \o token \in Seq(Symbol)
      BY <3>2 DEF start
    <3> QED  BY <3>3 DEF start
  <2>3. glue \in Seq(Symbol)
    BY <2>1, <2>2, Zenon
  <2>4. PICK glued \in Seq(Symbol) :
            Parse_Turn(v, token) = [v EXCEPT !.commands[n].parameters = IF @ = <<>> THEN token ELSE glued]
    BY <1>8, <2>3, Zenon
  <2> DEFINE d == Args(glued)
  <2>5. Parse_Turn(v, token) = Set(d, "parameters")
    BY <1>1, <1>8, <2>4
  <2>6. d \in Commands /\ ~d.is_pipe /\ ~d.is_std_in /\ ~d.is_std_out
    BY <1>1, <1>8 DEF Commands
  <2> HIDE DEF d
  <2>8. v.state # "base"
    BY <1>8
  <2>9. Set(d, "parameters") \in Parsing
    BY <2>6, <2>8, LastCommand
  <2> QED  BY <2>5, <2>9
<1> QED  BY <1>2, <1>3, <1>4, <1>5, <1>6, <1>7, <1>8, Zenon

(* The commands of a line, whatever its tokens are.                        *)
LEMMA ParsedLine ==
    ASSUME NEW tokens \in Seq(Seq(Symbol))
    PROVE  LineOK(Parse_Commands(tokens))
<1> DEFINE size == Len(tokens)
           first == [commands |-> <<>>, state |-> "base"]
           next == [n \in 1..size |-> [v \in Parsing |-> Parse_Turn(v, tokens[n])]]
           after[n \in 0..Len(tokens)] ==
               IF n = 0 THEN [commands |-> <<>>, state |-> "base"]
               ELSE Parse_Turn(after[n - 1], tokens[n])
<1>0. \A v \in Parsing, n \in 1..size : Parse_Turn(v, tokens[n]) \in Parsing
  <2> SUFFICES ASSUME NEW v \in Parsing, NEW n \in 1..Len(tokens)
               PROVE  Parse_Turn(v, tokens[n]) \in Parsing
    OBVIOUS
  <2>1. tokens[n] \in Seq(Symbol)
    OBVIOUS
  <2> QED  BY <2>1, ParseTurnOK
<1>1. size \in Nat /\ first \in Parsing /\ next \in [1..size -> [Parsing -> Parsing]]
  <2>1. size \in Nat /\ first \in Parsing
    BY DEF Parsing
  <2> HIDE DEF size, first
  <2> QED  BY <1>0, <2>1
<1>2. PICK g \in [0..size -> Parsing] : Turns(g, size, first, next)
  <2> HIDE DEF next, size, first
  <2> QED  BY <1>1, Iteration
<1>3. ASSUME NEW n \in 0..size
      PROVE  g[n] = IF n = 0 THEN first ELSE Parse_Turn(g[n - 1], tokens[n])
  <2> HIDE DEF first
  <2>1. CASE n = 0
    BY <1>2, <2>1 DEF Turns
  <2>2. CASE n # 0
    <3>1. n \in 1..size /\ n - 1 \in 0..size
      BY <1>1, <2>2
    <3> QED  BY <1>2, <2>2, <3>1 DEF Turns
  <2> QED  BY <2>1, <2>2
<1>4. g = [n \in 0..Len(tokens) |->
              IF n = 0 THEN [commands |-> <<>>, state |-> "base"]
              ELSE Parse_Turn(g[n - 1], tokens[n])]
  BY <1>3
<1>5. after = [n \in 0..Len(tokens) |->
                  IF n = 0 THEN [commands |-> <<>>, state |-> "base"]
                  ELSE Parse_Turn(after[n - 1], tokens[n])]
  BY <1>4 DEF after
<1> HIDE DEF after
<1> DEFINE S == {n \in 0..size : after[n] \in Parsing}
<1>6. 0 \in S
  BY <1>1, <1>5
<1>7. ASSUME NEW n \in 1..size, n - 1 \in S  PROVE n \in S
  <2>1. n \in 0..size /\ n # 0
    BY <1>1
  <2>2. after[n] = Parse_Turn(after[n - 1], tokens[n])
    BY <1>5, <2>1
  <2> QED  BY <1>0, <1>7, <2>1, <2>2
<1>8. after[size] \in Parsing
  <2>1. size \in 0..size
    BY <1>1
  <2> HIDE DEF S, size
  <2>2. 0..size \subseteq S
    BY <1>1, <1>6, <1>7, Induction
  <2> QED  BY <2>1, <2>2 DEF S
<1> DEFINE line == after[size].commands
<1>9. LineOK(line)
  <2>1. /\ line \in Seq(Commands) /\ Len(line) \in Nat
        /\ \A i \in 1..Len(line) :
            /\ i < Len(line) => line[i].is_pipe
            /\ line[i].is_pipe => ~line[i].is_std_in /\ ~line[i].is_std_out
            /\ ~(line[i].is_std_in /\ line[i].is_std_out)
    BY <1>8 DEF Parsing
  <2> HIDE DEF line
  <2>2. \A i \in 1..Len(line) - 1 : i \in 1..Len(line) /\ i < Len(line)
    BY <2>1
  <2>3. \A i \in 1..Len(line) - 1 : line[i].is_pipe
    BY <2>1, <2>2
  <2> QED  BY <2>1, <2>3 DEF LineOK
<1> QED  BY <1>9 DEF Parse_Commands, after

(* The keyboard.                                                           *)
LEMMA TypedText ==
    ASSUME NEW got \in Seq(Symbol), NEW key \in Symbol, NEW size
    PROVE  Typed(got, key, size).text \in Seq(Symbol)
<1> DEFINE text == Typed(got, key, size).text
<1>1. PICK newline \in Symbol : newline = "\n"
  BY Zenon DEF Symbol
<1>2. Append(got, newline) \in Seq(Symbol) /\ Append(got, key) \in Seq(Symbol) /\ <<>> \in Seq(Symbol)
  OBVIOUS
<1>3. got # <<>> => Front(got) \in Seq(Symbol)
  BY DEF Front
<1>4. \/ got # <<>> /\ text = Front(got)
      \/ text = got \/ text = <<>> \/ text = Append(got, "\n") \/ text = Append(got, key)
  <2>1. CASE key \in {"BS", "\n", "closed"}
    <3>1. key # "NUL" /\ key # "CR"
      BY <2>1
    <3>2. text \in {Front(got), got}
      BY <2>1, <3>1, Zenon DEF Typed
    <3>3. CASE got = <<>>
      <4>1. ~(key = "BS" /\ got # <<>>)
        BY <3>3
      <4>2. text = got
        BY <2>1, <3>1, <4>1, Zenon DEF Typed
      <4> QED  BY <4>2
    <3> QED  BY <3>2, <3>3
  <2>2. CASE key \notin {"BS", "\n", "closed"}
    <3>1. key # "BS"
      BY <2>2
    <3>2. CASE key = "NUL"
      <4>1. key # "CR"
        BY <3>2
      <4> QED  BY <2>2, <3>1, <3>2, <4>1, Zenon DEF Typed
    <3>3. CASE key = "CR"
      <4>1. key # "NUL"
        BY <3>3
      <4> QED  BY <2>2, <3>1, <3>3, <4>1, Zenon DEF Typed
    <3>4. CASE key # "NUL" /\ key # "CR"
      BY <2>2, <3>1, <3>4, Zenon DEF Typed
    <3> QED  BY <3>2, <3>3, <3>4
  <2> QED  BY <2>1, <2>2
<1>5. Append(got, "\n") \in Seq(Symbol)
  BY <1>1, <1>2, Zenon
<1> HIDE DEF text
<1>6. text \in Seq(Symbol)
  BY <1>2, <1>3, <1>4, <1>5, Zenon
<1> QED  BY <1>6 DEF text

LEMMA LineTyped ==
    ASSUME CommandLineAssumption, NEW text \in Seq(Symbol)
    PROVE  LineOK(Parse_Commands(Tokens(Line_Of(text))))
<1>1. Line_Of(text) \in Seq(Symbol)
  <2>1. LineMax \in Nat
    BY DEF CommandLineAssumption
  <2> QED  BY <2>1 DEF Line_Of
<1> QED  BY <1>1, TokensTyped, ParsedLine

---------------------------------------------------------------------------
(* What a path leads to.                                                   *)

\* Where a walk along names can be.
Walking(v, names) ==
    /\ {"dir", "path", "item", "found", "error"} \subseteq DOMAIN v
    /\ v.path \in Seq(Symbol) /\ v.found \in BOOLEAN
    /\ "name" \in DOMAIN v.item /\ v.item.name \in {NoName} \cup names
    /\ v.error => ~v.found

LEMMA ComponentNamed ==
    ASSUME NEW m, NEW names, NEW v, Walking(v, names), ~v.error,
           NEW name \in Symbol, name \in names
    PROVE  LET next == Component(m, v, name)
           IN  Walking(next, names) /\ ~next.error /\ (next.found => next.item.name = name)
<1> DEFINE sectors == Read_Item(m, v.dir)
           hits    == Slots(sectors, LAMBDA row : IsEntry(row) /\ row.name = name)
           slot    == FirstSlot(hits)
           entry   == sectors[slot[1]][slot[2]]
           next    == [v EXCEPT !.dir = entry.start, !.item = entry, !.found = TRUE,
                                !.path = Append(v.path, entry.name)]
<1>1. CASE hits = {}
  <2>1. Component(m, v, name) = [v EXCEPT !.found = FALSE]
    BY <1>1 DEF Component
  <2> QED  BY <2>1 DEF Walking
<1>2. CASE hits # {}
  <2>1. DOMAIN sectors \subseteq Nat
    BY DEF Read_Item
  <2>2. hits \in SUBSET (Nat \X Nat)
    <3>1. 1..SectorRows \subseteq Nat
      BY Fat12Assumption
    <3> HIDE DEF sectors
    <3> QED  BY <2>1, <3>1 DEF Slots
  <2>3. \A hit \in hits : IsEntry(sectors[hit[1]][hit[2]]) /\ sectors[hit[1]][hit[2]].name = name
    BY DEF Slots
  <2>4. slot \in hits
    <3> HIDE DEF hits
    <3> QED  BY <1>2, <2>2, LeastPair DEF FirstSlot
  <2>5. "name" \in DOMAIN entry /\ entry.name = name
    BY <2>3, <2>4 DEF IsEntry
  <2>6. Component(m, v, name) = next
    BY <1>2 DEF Component
  <2> HIDE DEF entry
  <2>7. Append(v.path, entry.name) \in Seq(Symbol)
    BY <2>5 DEF Walking
  <2> QED  BY <2>5, <2>6, <2>7 DEF Walking
<1> QED  BY <1>1, <1>2

\* One turn of the loop that looks for errors.
LEMMA StepDownNamed ==
    ASSUME NEW m, NEW names, NEW v, Walking(v, names),
           NEW name \in Symbol, name \in names, NEW last \in BOOLEAN
    PROVE  LET next == Step_Down(m, v, name, last)
           IN  Walking(next, names) /\ (next.found /\ name # ".." => next.item.name = name)
<1> DEFINE next == Component(m, v, name)
<1>1. CASE v.error \/ name = ".."
  BY <1>1 DEF Step_Down, Walking
<1>2. CASE ~v.error /\ name # ".." /\ v.found /\ ~v.item.dir
  BY <1>2 DEF Step_Down, Walking
<1>3. CASE ~v.error /\ name # ".." /\ ~(v.found /\ ~v.item.dir)
  <2>1. Step_Down(m, v, name, last) = [next EXCEPT !.error = ~next.found /\ ~last]
    BY <1>3 DEF Step_Down
  <2>2. Walking(next, names) /\ ~next.error /\ (next.found => next.item.name = name)
    BY <1>3, ComponentNamed
  <2> HIDE DEF next
  <2> QED  BY <2>1, <2>2 DEF Walking
<1> QED  BY <1>1, <1>2, <1>3

LEMMA WalkDownNamed ==
    ASSUME NEW m, NEW names, NEW first, Walking(first, names),
           NEW path \in Seq(Symbol), \A i \in 1..Len(path) : path[i] \in names
    PROVE  LET v == Walk_Down(m, first, path)
           IN  /\ Walking(v, names)
               /\ path # <<>> /\ v.found /\ path[Len(path)] # ".." => v.item.name = path[Len(path)]
<1> DEFINE size == Len(path)
           Turn(v, n) == Step_Down(m, v, path[n], n = Len(path))
           walk[n \in 0..Len(path)] ==
               IF n = 0 THEN first ELSE Step_Down(m, walk[n - 1], path[n], n = Len(path))
           Solves(k, g) == g = [n \in 0..k |-> IF n = 0 THEN first ELSE Turn(g[n - 1], n)]
           T == {k \in 0..size : \E g : Solves(k, g)}
<1>1. size \in Nat /\ \A n \in 1..size : path[n] \in Symbol
  OBVIOUS
<1>2. 0 \in T
  <2> DEFINE g == [n \in 0..0 |-> first]
  <2> HIDE DEF Turn
  <2>1. Solves(0, g)
    OBVIOUS
  <2> HIDE DEF Solves
  <2> QED  BY <1>1, <2>1
<1>3. ASSUME NEW k \in 1..size, k - 1 \in T  PROVE k \in T
  <2> HIDE DEF Turn
  <2>1. PICK g : Solves(k - 1, g)
    BY <1>3
  <2> DEFINE h == [n \in 0..k |-> IF n = k THEN Turn(g[k - 1], k) ELSE g[n]]
  <2>2. ASSUME NEW n \in 0..k
        PROVE  h[n] = IF n = 0 THEN first ELSE Turn(h[n - 1], n)
    <3>1. k \in Nat /\ k > 0
      BY <1>1
    <3>2. CASE n = 0
      BY <2>1, <3>1, <3>2
    <3>3. CASE n # 0
      <4>1. n - 1 \in 0..k /\ n - 1 # k /\ h[n - 1] = g[n - 1]
        BY <3>1, <3>3
      <4>2. n # k => g[n] = Turn(g[n - 1], n)
        BY <2>1, <3>1, <3>3
      <4> QED  BY <3>3, <4>1, <4>2
    <3> QED  BY <3>2, <3>3
  <2>3. h = [n \in 0..k |-> h[n]]
    OBVIOUS
  <2> HIDE DEF h
  <2>4. Solves(k, h)
    BY <2>2, <2>3
  <2> HIDE DEF Solves
  <2> QED  BY <1>1, <2>4
<1>4. PICK g : Solves(size, g)
  <2>1. size \in 0..size
    BY <1>1
  <2> HIDE DEF T, size
  <2>2. 0..size \subseteq T
    BY <1>1, <1>2, <1>3, Induction
  <2> QED  BY <2>1, <2>2 DEF T
<1>5. walk = [n \in 0..Len(path) |-> IF n = 0 THEN first ELSE Step_Down(m, walk[n - 1], path[n], n = Len(path))]
  BY <1>4 DEF walk
<1> HIDE DEF walk
<1>6. ASSUME NEW n \in 1..size, Walking(walk[n - 1], names)
      PROVE  Walking(walk[n], names) /\ (walk[n].found /\ path[n] # ".." => walk[n].item.name = path[n])
  <2>1. n \in 0..size /\ n # 0 /\ path[n] \in Symbol /\ path[n] \in names
    BY <1>1
  <2>2. walk[n] = Step_Down(m, walk[n - 1], path[n], n = Len(path))
    BY <1>5, <2>1
  <2>3. PICK last \in BOOLEAN : walk[n] = Step_Down(m, walk[n - 1], path[n], last)
    <3>1. CASE n = Len(path)
      <4>1. walk[n] = Step_Down(m, walk[n - 1], path[n], TRUE)
        BY <2>2, <3>1
      <4> QED  BY <4>1
    <3>2. CASE n # Len(path)
      <4>1. walk[n] = Step_Down(m, walk[n - 1], path[n], FALSE)
        BY <2>2, <3>2
      <4> QED  BY <4>1
    <3> QED  BY <3>1, <3>2
  <2> QED  BY <1>6, <2>1, <2>3, StepDownNamed
<1> DEFINE S == {n \in 0..size : Walking(walk[n], names)}
<1>7. 0 \in S
  BY <1>1, <1>5
<1>8. \A n \in 0..size : Walking(walk[n], names)
  <2>1. ASSUME NEW n \in 1..size, n - 1 \in S  PROVE n \in S
    BY <1>1, <1>6, <2>1
  <2> HIDE DEF S
  <2>2. 0..size \subseteq S
    BY <1>1, <1>7, <2>1, Induction
  <2> QED  BY <2>2 DEF S
<1>9. Walk_Down(m, first, path) = walk[size]
  BY DEF Walk_Down, walk
<1>10. size \in 0..size /\ (path # <<>> => size \in 1..size /\ size - 1 \in 0..size)
  BY <1>1
<1> QED  BY <1>6, <1>8, <1>9, <1>10

LEMMA WalkKnownNamed ==
    ASSUME NEW m, NEW names, NEW first, Walking(first, names), ~first.error,
           NEW path \in Seq(Symbol), \A i \in 1..Len(path) : path[i] \in names
    PROVE  LET v == Walk_Known(m, first, path) IN Walking(v, names) /\ ~v.error
<1> DEFINE size == Len(path)
           Turn(v, n) == Component(m, v, path[n])
           walk[n \in 0..Len(path)] ==
               IF n = 0 THEN first ELSE Component(m, walk[n - 1], path[n])
           Solves(k, g) == g = [n \in 0..k |-> IF n = 0 THEN first ELSE Turn(g[n - 1], n)]
           T == {k \in 0..size : \E g : Solves(k, g)}
<1>1. size \in Nat /\ \A n \in 1..size : path[n] \in Symbol
  OBVIOUS
<1>2. 0 \in T
  <2> DEFINE g == [n \in 0..0 |-> first]
  <2> HIDE DEF Turn
  <2>1. Solves(0, g)
    OBVIOUS
  <2> HIDE DEF Solves
  <2> QED  BY <1>1, <2>1
<1>3. ASSUME NEW k \in 1..size, k - 1 \in T  PROVE k \in T
  <2> HIDE DEF Turn
  <2>1. PICK g : Solves(k - 1, g)
    BY <1>3
  <2> DEFINE h == [n \in 0..k |-> IF n = k THEN Turn(g[k - 1], k) ELSE g[n]]
  <2>2. ASSUME NEW n \in 0..k
        PROVE  h[n] = IF n = 0 THEN first ELSE Turn(h[n - 1], n)
    <3>1. k \in Nat /\ k > 0
      BY <1>1
    <3>2. CASE n = 0
      BY <2>1, <3>1, <3>2
    <3>3. CASE n # 0
      <4>1. n - 1 \in 0..k /\ n - 1 # k /\ h[n - 1] = g[n - 1]
        BY <3>1, <3>3
      <4>2. n # k => g[n] = Turn(g[n - 1], n)
        BY <2>1, <3>1, <3>3
      <4> QED  BY <3>3, <4>1, <4>2
    <3> QED  BY <3>2, <3>3
  <2>3. h = [n \in 0..k |-> h[n]]
    OBVIOUS
  <2> HIDE DEF h
  <2>4. Solves(k, h)
    BY <2>2, <2>3
  <2> HIDE DEF Solves
  <2> QED  BY <1>1, <2>4
<1>4. PICK g : Solves(size, g)
  <2>1. size \in 0..size
    BY <1>1
  <2> HIDE DEF T, size
  <2>2. 0..size \subseteq T
    BY <1>1, <1>2, <1>3, Induction
  <2> QED  BY <2>1, <2>2 DEF T
<1>5. walk = [n \in 0..Len(path) |-> IF n = 0 THEN first ELSE Component(m, walk[n - 1], path[n])]
  BY <1>4 DEF walk
<1> HIDE DEF walk
<1> DEFINE S == {n \in 0..size : Walking(walk[n], names) /\ ~walk[n].error}
<1>6. 0 \in S
  BY <1>1, <1>5
<1>7. ASSUME NEW n \in 1..size, n - 1 \in S  PROVE n \in S
  <2>1. n \in 0..size /\ n # 0 /\ path[n] \in Symbol /\ path[n] \in names
    BY <1>1
  <2>2. walk[n] = Component(m, walk[n - 1], path[n])
    BY <1>5, <2>1
  <2> QED  BY <1>7, <2>1, <2>2, ComponentNamed
<1>8. walk[size] \in {walk[n] : n \in S}
  <2>1. size \in 0..size
    BY <1>1
  <2> HIDE DEF S, size
  <2>2. 0..size \subseteq S
    BY <1>1, <1>6, <1>7, Induction
  <2> QED  BY <2>1, <2>2
<1>9. Walk_Known(m, first, path) = walk[size]
  BY DEF Walk_Known, walk
<1> QED  BY <1>8, <1>9

\* The names that a path can lead to: its own and those of the directory
\* where the process is.
LEMMA LookupNamed ==
    ASSUME NEW m, NEW wd, wd.path \in Seq(Symbol), NEW path, path.names \in Seq(Symbol),
           NEW found \in BOOLEAN
    PROVE  LET got == Lookup(m, wd, path, found)
           IN  /\ Walking(got, ToSet(wd.path) \cup ToSet(path.names))
               /\ path.names # <<>> /\ got.found /\ ~got.item.dir /\ Last(path.names) # ".."
                    => got.item.name = Last(path.names)
<1> DEFINE names == ToSet(wd.path) \cup ToSet(path.names)
           asked == IF path.names = <<>> THEN [abs |-> TRUE, names |-> wd.path] ELSE path
           ups   == Cardinality({i \in 1..Len(asked.names) : asked.names[i] = ".."})
           depth == Len(wd.path)
           start == [dir |-> 0, path |-> <<>>, item |-> NoItem, found |-> found, error |-> FALSE]
           above == SubSeq(wd.path, 1, depth - ups)
           known == Walk_Known(m, start, above)
           first == IF asked.abs THEN start
                    ELSE IF ups > 0 THEN known
                    ELSE [start EXCEPT !.dir = wd.sector, !.path = wd.path]
           down  == Walk_Down(m, first, asked.names)
           root  == [start EXCEPT !.item = Root, !.found = TRUE]
           none  == [start EXCEPT !.error = TRUE, !.found = FALSE]
           got   == Lookup(m, wd, path, found)
<1>1. got \in {root, none, down}
  BY DEF Lookup
<1>2. /\ asked.names \in Seq(Symbol) /\ \A i \in 1..Len(asked.names) : asked.names[i] \in names
      /\ path.names # <<>> => asked.names = path.names
  BY DEF ToSet
<1>3. Walking(start, names) /\ ~start.error
  BY DEF Walking, NoItem
<1>4. Walking(root, names) /\ root.item.dir
  <2>1. "name" \in DOMAIN Root /\ Root.name = NoName /\ Root.dir
    BY DEF Root, NoItem
  <2> HIDE DEF start
  <2> QED  BY <1>3, <2>1 DEF Walking
<1>5. Walking(none, names) /\ ~none.found
  <2> HIDE DEF start
  <2> QED  BY <1>3 DEF Walking
<1>6. ups > 0 => Walking(known, names)
  <2>1. ups \in Nat
    <3> DEFINE D == {i \in 1..Len(asked.names) : asked.names[i] = ".."}
    <3>1. Len(asked.names) \in Nat
      <4> HIDE DEF asked
      <4> QED  BY <1>2
    <3> HIDE DEF asked
    <3>4. IsFiniteSet(1..Len(asked.names)) /\ D \in SUBSET (1..Len(asked.names))
      <4>1. 1 \in Int /\ Len(asked.names) \in Int
        BY <3>1
      <4>2. IsFiniteSet(1..Len(asked.names))
        BY <4>1, FS_Interval
      <4> QED  BY <4>2
    <3> HIDE DEF D
    <3>2. IsFiniteSet(D)
      BY <3>4, FS_Subset
    <3>3. Cardinality(D) \in Nat
      BY <3>2, FS_CardinalityType
    <3> QED  BY <3>3 DEF D
  <2> HIDE DEF ups
  <2>2. above \in Seq(Symbol) /\ \A i \in 1..Len(above) : above[i] \in names
    BY <2>1 DEF ToSet
  <2> HIDE DEF above, start, names
  <2> QED  BY <1>3, <2>2, WalkKnownNamed
<1>7. Walking([start EXCEPT !.dir = wd.sector, !.path = wd.path], names)
  <2> HIDE DEF start
  <2> QED  BY <1>3 DEF Walking
<1>8. Walking(first, names)
  <2> HIDE DEF known, start, names
  <2> QED  BY <1>3, <1>6, <1>7
<1>9. /\ Walking(down, names)
      /\ asked.names # <<>> /\ down.found /\ asked.names[Len(asked.names)] # ".."
            => down.item.name = asked.names[Len(asked.names)]
  <2> DEFINE along == asked.names
  <2>1. along \in Seq(Symbol) /\ \A i \in 1..Len(along) : along[i] \in names
    <3> HIDE DEF asked, names
    <3> QED  BY <1>2
  <2> HIDE DEF names, along, first
  <2>2. LET v == Walk_Down(m, first, along)
        IN  /\ Walking(v, names)
            /\ along # <<>> /\ v.found /\ along[Len(along)] # ".." => v.item.name = along[Len(along)]
    BY <1>8, <2>1, WalkDownNamed
  <2> QED  BY <2>2 DEF along
<1> HIDE DEF asked, down, got, root, none, start, names
<1>10. Walking(got, names)
  BY <1>1, <1>4, <1>5, <1>9
<1>11. ASSUME path.names # <<>>, got.found, ~got.item.dir, Last(path.names) # ".."
       PROVE  got.item.name = Last(path.names)
  <2>1. CASE got = down
    BY <1>2, <1>9, <1>11, <2>1 DEF Last
  <2>2. CASE got = root
    BY <1>4, <1>11, <2>2
  <2>3. CASE got = none
    BY <1>5, <1>11, <2>3
  <2> QED  BY <1>1, <2>1, <2>2, <2>3
<1> QED  BY <1>10, <1>11 DEF got, names

LEMMA GotNamed ==
    ASSUME NEW m, NEW wd, wd.path \in Seq(Symbol), NEW path, path.names \in Seq(Symbol)
    PROVE  LET got == Get_Item(m, wd, path)
           IN  /\ Walking(got, ToSet(wd.path) \cup ToSet(path.names))
               /\ path.names # <<>> /\ got.found /\ ~got.item.dir /\ Last(path.names) # ".."
                    => got.item.name = Last(path.names)
BY LookupNamed DEF Get_Item

\* The file that a redirection opens, whether it was there or not.
LEMMA OpenedNamed ==
    ASSUME NEW wd, wd.path \in Seq(Symbol), NEW path, path.names \in Seq(Symbol),
           NEW always \in BOOLEAN, NEW stored
    PROVE  LET h == Opened(wd, path, always, FALSE, stored).handle
           IN  h # Absent =>
                /\ "kind" \in DOMAIN h /\ h.kind = "file" /\ Is_Named(h)
                /\ h.item.name \in
                    IF always /\ path.names # <<>> /\ Last(path.names) # ".." THEN {Last(path.names)}
                    ELSE {NoName} \cup ToSet(wd.path) \cup ToSet(path.names)
<1> DEFINE got == Get_Item(fat12, wd, path)
           parent == Parent(fat12, wd, got)
           made == IF got.found \/ stored \in {".", "..", NoName} THEN fat12
                   ELSE Create_Item(fat12, parent.item.start, stored, FALSE)
           new == Lookup(made, wd, path, got.found)
           h == Opened(wd, path, always, FALSE, stored).handle
           names == ToSet(wd.path) \cup ToSet(path.names)
           Of(item, at) == Item_Handle("file", item, at)
<1>1. Walking(got, names) /\ Walking(new, names)
  <2>1. Walking(got, names)
    BY GotNamed
  <2>2. got.found \in BOOLEAN
    BY <2>1 DEF Walking
  <2> HIDE DEF made, got
  <2> QED  BY <2>1, <2>2, LookupNamed
<1>2. path.names # <<>> /\ got.found /\ ~got.item.dir /\ Last(path.names) # ".."
        => got.item.name = Last(path.names)
  BY GotNamed
<1>3. \/ h = Absent
      \/ always /\ got.found /\ ~got.item.dir /\ h = Of(got.item, parent.item.start)
      \/ ~always /\ h = Of(got.item, parent.item.start)
      \/ ~always /\ h = Of(new.item, parent.item.start)
  <2> HIDE DEF got, parent
  <2>1. h = Opened_Item(wd, path, got, always, FALSE, stored).handle
    BY DEF Opened, got
  <2> HIDE DEF h
  <2>2. CASE got.error
    BY <2>1, <2>2 DEF Opened_Item, Refused
  <2>3. CASE ~got.error
    <3>1. h = Opened_In(wd, path, got, parent, always, FALSE, stored).handle
      BY <2>1, <2>3 DEF Opened_Item, parent
    <3>2. CASE parent.error
      BY <3>1, <3>2 DEF Opened_In, Refused
    <3>3. CASE ~parent.error /\ always
      BY <3>1, <3>3 DEF Opened_In, Refused
    <3>4. CASE ~parent.error /\ ~always /\ got.found
      BY <3>1, <3>4 DEF Opened_In, Refused
    <3>5. CASE ~parent.error /\ ~always /\ ~got.found
      BY <3>1, <3>5 DEF Opened_In, Opened_Created, Opened_New
    <3> QED  BY <3>2, <3>3, <3>4, <3>5
  <2> QED  BY <2>2, <2>3
<1> HIDE DEF got, parent, new, h
<1>4. ASSUME NEW item, NEW at, h = Of(item, at)
      PROVE  "kind" \in DOMAIN h /\ h.kind = "file" /\ "item" \in DOMAIN h /\ h.item = item
  BY <1>4 DEF Item_Handle
<1>5. CASE always /\ got.found /\ ~got.item.dir /\ h = Of(got.item, parent.item.start)
  <2>1. "kind" \in DOMAIN h /\ h.kind = "file" /\ "item" \in DOMAIN h /\ h.item = got.item
    BY <1>4, <1>5
  <2> QED  BY <1>1, <1>2, <1>5, <2>1 DEF Walking, Is_Named, h
<1>6. CASE ~always /\ h = Of(got.item, parent.item.start)
  <2>1. "kind" \in DOMAIN h /\ h.kind = "file" /\ "item" \in DOMAIN h /\ h.item = got.item
    BY <1>4, <1>6
  <2> QED  BY <1>1, <1>6, <2>1 DEF Walking, Is_Named, h
<1>7. CASE ~always /\ h = Of(new.item, parent.item.start)
  <2>1. "kind" \in DOMAIN h /\ h.kind = "file" /\ "item" \in DOMAIN h /\ h.item = new.item
    BY <1>4, <1>7
  <2> QED  BY <1>1, <1>7, <2>1 DEF Walking, Is_Named, h
<1> QED  BY <1>3, <1>5, <1>6, <1>7 DEF h

---------------------------------------------------------------------------
(* The steps of the shell.                                                 *)

\* What the shell leaves alone when it opens and closes nothing.
LEMMA QuietShell ==
    ASSUME Sound, UNCHANGED <<table_vars, object, prog>>
    PROVE  /\ HandleInv' /\ ObjectsOK' /\ ProgramsOK' /\ FilesOK'
           /\ Handles' = Handles /\ held' = held /\ issued' = issued /\ object' = object /\ prog' = prog
<1>1. Handles' = Handles /\ held' = held /\ issued' = issued /\ object' = object /\ prog' = prog
  BY DEF table_vars
<1>2. HandleInv' /\ ObjectsOK'
  BY Typing, SameObjects, TableKept
<1>3. ProgramsOK' /\ FilesOK'
  BY <1>1 DEF Sound, CoreInv, ProgramsOK, FilesOK, Reaches
<1> QED  BY <1>1, <1>2, <1>3

\* Where the shell's numbers are.
LEMMA NumbersAmong ==
    ASSUME NEW T,
           {shell'.std_in, shell'.std_out, shell'.tmp_in, shell'.tmp_out} \subseteq T,
           \A i \in DOMAIN shell'.pipes : {shell'.pipes[i].in, shell'.pipes[i].out} \subseteq T,
           \A i \in DOMAIN shell'.todo : shell'.todo[i] \in T
    PROVE  Shell_Numbers' \subseteq T
<1>1. Pipe_Numbers' \subseteq T
  BY DEF Pipe_Numbers
<1>2. ToSet(shell'.todo) \subseteq T
  BY DEF ToSet
<1>3. Shell_Numbers' = {shell'.std_in, shell'.std_out, shell'.tmp_in, shell'.tmp_out}
                       \cup Pipe_Numbers' \cup ToSet(shell'.todo)
  BY DEF Shell_Numbers
<1> QED  BY <1>1, <1>2, <1>3

\* The numbers that the shell has not got anew.
LEMMA OldNumbers ==
    ASSUME shell'.std_in = shell.std_in, shell'.std_out = shell.std_out,
           {shell'.tmp_in, shell'.tmp_out} \subseteq Shell_Numbers,
           \A i \in DOMAIN shell'.pipes : {shell'.pipes[i].in, shell'.pipes[i].out} \subseteq Shell_Numbers,
           \A i \in DOMAIN shell'.todo : shell'.todo[i] \in Shell_Numbers
    PROVE  Shell_Numbers' \subseteq Shell_Numbers
<1>1. {shell.std_in, shell.std_out} \subseteq Shell_Numbers
  BY DEF Shell_Numbers
<1> DEFINE T == Shell_Numbers
<1> HIDE DEF T
<1>2. Shell_Numbers' \subseteq T
  <2>1. /\ {shell'.std_in, shell'.std_out, shell'.tmp_in, shell'.tmp_out} \subseteq T
        /\ \A i \in DOMAIN shell'.pipes : {shell'.pipes[i].in, shell'.pipes[i].out} \subseteq T
        /\ \A i \in DOMAIN shell'.todo : shell'.todo[i] \in T
    BY <1>1 DEF T
  <2> QED  BY <2>1, NumbersAmong
<1> QED  BY <1>2 DEF T

LEMMA NumbersKept ==
    ASSUME Sound, issued' = issued, prog' = prog,
           shell'.std_in = shell.std_in, shell'.std_out = shell.std_out,
           {shell'.tmp_in, shell'.tmp_out} \subseteq Shell_Numbers,
           \A i \in DOMAIN shell'.pipes : {shell'.pipes[i].in, shell'.pipes[i].out} \subseteq Shell_Numbers,
           \A i \in DOMAIN shell'.todo : shell'.todo[i] \in Shell_Numbers
    PROVE  ApartOK'
<1>1. Shell_Numbers' \subseteq Shell_Numbers
  BY OldNumbers
<1>2. ApartOK
  BY DEF Sound, CoreInv
<1> QED  BY <1>1, <1>2 DEF ApartOK

\* The command that is next, and what the shell knows in the middle of a line.
LEMMA InLine ==
    ASSUME Sound, shell.pc \in In_Line
    PROVE  /\ Command \in Commands
           /\ shell.at \in Nat \ {0} /\ Len(shell.line) \in Nat /\ shell.at <= Len(shell.line)
           /\ shell.line # <<>>
           /\ shell.at < Len(shell.line) => Command.is_pipe
           /\ Command.is_pipe => ~Command.is_std_in /\ ~Command.is_std_out
           /\ ~(Command.is_std_in /\ Command.is_std_out)
           /\ \A i \in 1..shell.at - 1 : /\ i \in 1..Len(shell.line) /\ shell.line[i].is_pipe
                                         /\ ~shell.line[i].is_std_in /\ ~shell.line[i].is_std_out
           /\ shell.at = Len(shell.line) => Last(shell.line) = Command
<1>1. ShellTypeOK /\ ProgressOK
  BY DEF Sound, CoreInv
<1>2. /\ shell.at \in Nat \ {0} /\ Len(shell.line) \in Nat /\ shell.at <= Len(shell.line)
      /\ shell.line \in Seq(Commands) /\ LineOK(shell.line)
  <2>1. shell.at \in Nat \ {0} /\ LineOK(shell.line)
    BY <1>1 DEF ShellTypeOK
  <2>2. shell.line \in Seq(Commands)
    BY <2>1 DEF LineOK
  <2>3. shell.at <= Len(shell.line)
    BY <1>1 DEF ProgressOK
  <2> QED  BY <2>1, <2>2, <2>3
<1>3. shell.at \in 1..Len(shell.line)
  BY <1>2
<1>4. Command \in Commands
  BY <1>2, <1>3 DEF Command
<1>5. \A i \in 1..Len(shell.line) :
        /\ i < Len(shell.line) => shell.line[i].is_pipe
        /\ shell.line[i].is_pipe => ~shell.line[i].is_std_in /\ ~shell.line[i].is_std_out
        /\ ~(shell.line[i].is_std_in /\ shell.line[i].is_std_out)
  BY <1>2 DEF LineOK
<1> QED  BY <1>2, <1>3, <1>4, <1>5 DEF Command, Last

(* The rest of the line is given up.                                       *)
LEMMA GivenUpStep ==
    ASSUME Sound, Unknown_Command \/ Change_Directory
    PROVE  HandleInv' /\ CoreInv'
<1>1. UNCHANGED <<table_vars, object, prog, hasty, keys>> /\ shell.pc = "command"
  BY DEF Unknown_Command, Change_Directory, Shell_At
<1>2. ShellTypeOK /\ ProgressOK /\ ConsoleOK /\ PipesOK /\ ReadyOK /\ WiredOK /\ Owned
  BY DEF Sound, CoreInv
<1>3. /\ HandleInv' /\ ObjectsOK' /\ ProgramsOK' /\ FilesOK'
      /\ Handles' = Handles /\ held' = held /\ issued' = issued /\ object' = object /\ prog' = prog
  BY <1>1, QuietShell
<1>4. ASSUME Change_Directory
      PROVE  \E wd : wd.path \in Seq(Symbol) /\ shell' = [shell EXCEPT !.pc = "keys", !.wd = wd]
  <2> DEFINE path == Path(Command.parameters)
             got == Get_Item(fat12, shell.wd, path)
             ok == Command.parameters = <<>> \/ (got.found /\ got.item.dir)
             there == [path |-> got.path, sector |-> got.item.start]
             wd == IF ok /\ Command.parameters # <<>> THEN there ELSE shell.wd
  <2>1. shell.wd.path \in Seq(Symbol)
    BY <1>2 DEF ShellTypeOK
  <2>2. path.names \in Seq(Symbol)
    <3>1. Command.parameters \in Seq(Symbol)
      BY <1>1, InLine DEF In_Line, Commands
    <3> QED  BY <3>1, PathTyped
  <2>3. got.path \in Seq(Symbol)
    <3> HIDE DEF path
    <3> QED  BY <2>1, <2>2, GotNamed DEF Walking
  <2>4. shell' = [shell EXCEPT !.pc = "keys", !.wd = wd]
    BY <1>4 DEF Change_Directory
  <2>5. there.path \in Seq(Symbol)
    <3> HIDE DEF got
    <3> QED  BY <2>3
  <2>6. wd.path \in Seq(Symbol)
    <3> HIDE DEF there, ok
    <3> QED  BY <2>1, <2>5
  <2> HIDE DEF wd
  <2> QED  BY <2>4, <2>6
<1>5. /\ shell'.pc = "keys" /\ \A field \in Shell_Fields \ {"pc", "wd"} : shell'[field] = shell[field]
      /\ Shell_Fields \subseteq DOMAIN shell' /\ shell'.wd.path \in Seq(Symbol)
  <2>1. CASE Unknown_Command
    BY <1>2, <2>1 DEF Unknown_Command, ShellTypeOK, Shell_Fields
  <2>2. CASE Change_Directory
    BY <1>2, <1>4, <2>2 DEF ShellTypeOK, Shell_Fields
  <2> QED  BY <2>1, <2>2
<1>6. /\ shell'.std_in = shell.std_in /\ shell'.std_out = shell.std_out /\ shell'.line = shell.line
      /\ shell'.at = shell.at /\ shell'.pipes = shell.pipes /\ shell'.todo = shell.todo
      /\ shell'.tmp_in = shell.tmp_in /\ shell'.tmp_out = shell.tmp_out
  BY <1>5 DEF Shell_Fields
<1>7. ShellTypeOK'
  BY <1>1, <1>2, <1>3, <1>5 DEF ShellTypeOK, Shell_Fields
<1>8. shell.at <= Len(shell.line) /\ {shell.at, Len(shell.line)} \subseteq Nat
  BY <1>1, InLine DEF In_Line
<1>9. ProgressOK'
  BY <1>5, <1>6, <1>8 DEF ProgressOK, In_Line, Started
<1>10. ApartOK'
  BY <1>3, <1>2, <1>6, NumbersKept, ShellNumbers DEF Shell_Numbers
<1>11. ConsoleOK'
  BY <1>1, <1>2, <1>3, <1>5, <1>6 DEF ConsoleOK, Reaches, Started
<1>12. PipesOK' /\ ReadyOK' /\ WiredOK'
  BY <1>5 DEF PipesOK, ReadyOK, WiredOK, In_Line, Started
<1>13. Owned'
  BY <1>5, <1>6, <1>8 DEF Owned, In_Line, Started
<1> QED  BY <1>3, <1>7, <1>9, <1>10, <1>11, <1>12, <1>13 DEF CoreInv

\* What a program of the line has does not change with the shell's plans.
LEMMA WiredKept ==
    ASSUME NEW i, Wired(i), ~shell.line[i].is_std_in, ~shell.line[i].is_std_out,
           shell'.line = shell.line, shell'.first = shell.first,
           shell'.std_in = shell.std_in, shell'.std_out = shell.std_out,
           prog'[shell.first + i - 1] = prog[shell.first + i - 1],
           i > 1 => shell'.pipes[i - 1].in = shell.pipes[i - 1].in,
           shell.line[i].is_pipe => shell'.pipes[i].out = shell.pipes[i].out
    PROVE  Wired(i)'
BY DEF Wired

(* A command of the line is looked at.                                     *)
LEMMA PrepareStep ==
    ASSUME Sound, Prepare_Command
    PROVE  HandleInv' /\ CoreInv'
<1>1. UNCHANGED <<table_vars, object, prog, hasty, keys>> /\ shell.pc = "command"
  BY DEF Prepare_Command, Shell_At
<1>2. ShellTypeOK /\ ProgressOK /\ ConsoleOK /\ PipesOK /\ ReadyOK /\ WiredOK /\ Owned
  BY DEF Sound, CoreInv
<1>3. /\ HandleInv' /\ ObjectsOK' /\ ProgramsOK' /\ FilesOK'
      /\ Handles' = Handles /\ held' = held /\ issued' = issued /\ object' = object /\ prog' = prog
  BY <1>1, QuietShell
<1>4. /\ Command \in Commands
      /\ shell.at \in Nat \ {0} /\ Len(shell.line) \in Nat /\ shell.at <= Len(shell.line)
      /\ Command.is_pipe => ~Command.is_std_in /\ ~Command.is_std_out
      /\ \A i \in 1..shell.at - 1 : /\ shell.line[i].is_pipe
                                    /\ ~shell.line[i].is_std_in /\ ~shell.line[i].is_std_out
  BY <1>1, InLine DEF In_Line
<1>5. /\ \A field \in Shell_Fields \ {"pc", "tmp_in", "tmp_out"} : shell'[field] = shell[field]
      /\ Shell_Fields \subseteq DOMAIN shell'
      /\ shell'.tmp_in = shell.std_in /\ shell'.tmp_out = shell.std_out
      /\ shell'.pc = IF Command.is_std_in \/ Command.is_std_out THEN "redirect"
                     ELSE IF Command.is_pipe THEN "pipe" ELSE "create"
  BY <1>2 DEF Prepare_Command, ShellTypeOK, Shell_Fields
<1>6. /\ shell'.std_in = shell.std_in /\ shell'.std_out = shell.std_out /\ shell'.line = shell.line
      /\ shell'.at = shell.at /\ shell'.pipes = shell.pipes /\ shell'.todo = shell.todo
      /\ shell'.first = shell.first /\ shell'.mark = shell.mark /\ shell'.handles = shell.handles
      /\ Command' = Command
  BY <1>5 DEF Shell_Fields, Command
<1>7. /\ shell'.pc \in {"redirect", "pipe", "create"}
      /\ shell'.pc = "redirect" <=> Command.is_std_in \/ Command.is_std_out
      /\ shell'.pc = "pipe" <=> Command.is_pipe
      /\ Command.base \in Programs
  BY <1>4, <1>5 DEF Prepare_Command
<1>8. ShellTypeOK'
  BY <1>1, <1>2, <1>3, <1>5, <1>7 DEF ShellTypeOK, Shell_Fields, In_Line
<1>9. ProgressOK'
  BY <1>1, <1>2, <1>3, <1>6, <1>7 DEF ProgressOK, In_Line, Started
<1>10. ApartOK'
  BY <1>3, <1>2, <1>5, <1>6, NumbersKept, ShellNumbers DEF Shell_Numbers
<1>11. ConsoleOK'
  BY <1>1, <1>2, <1>3, <1>6, <1>7 DEF ConsoleOK, Reaches, Started
<1>12. PipesOK'
  BY <1>1, <1>2, <1>3, <1>6, <1>7 DEF PipesOK, Reaches, In_Line
<1>13. ReadyOK'
  BY <1>4, <1>5, <1>6, <1>7 DEF ReadyOK
<1>14. WiredOK'
  <2> SUFFICES ASSUME NEW i \in 1..shell.at - 1  PROVE Wired(i)'
    BY <1>6 DEF WiredOK
  <2>1. Wired(i)
    BY <1>1, <1>2 DEF WiredOK, In_Line
  <2> QED  BY <1>3, <1>4, <1>6, <2>1, WiredKept
<1>15. Owned'
  <2>1. Pipe_Numbers' = Pipe_Numbers
    BY <1>6 DEF Pipe_Numbers
  <2>2. To_Close \subseteq To_Close'
    BY <1>1, <1>7, <2>1 DEF To_Close, In_Line, Started
  <2> QED  BY <1>1, <1>2, <1>3, <1>6, <1>7, <2>2 DEF Owned, In_Line, Started
<1> QED  BY <1>3, <1>8, <1>9, <1>10, <1>11, <1>12, <1>13, <1>14, <1>15 DEF CoreInv

LEMMA Together ==
    ASSUME NEW S, NEW a \in Seq(S), NEW b \in Seq(S)
    PROVE  a \o b \in Seq(S) /\ ToSet(a) \cup ToSet(b) \subseteq ToSet(a \o b)
<1>1. a \o b \in Seq(S) /\ Len(a \o b) = Len(a) + Len(b) /\ Len(a) \in Nat /\ Len(b) \in Nat
  OBVIOUS
<1>2. ASSUME NEW i \in DOMAIN a  PROVE a[i] \in ToSet(a \o b)
  <2>1. i \in DOMAIN (a \o b) /\ (a \o b)[i] = a[i]
    BY <1>1
  <2> QED  BY <2>1 DEF ToSet
<1>3. ASSUME NEW i \in DOMAIN b  PROVE b[i] \in ToSet(a \o b)
  <2>1. Len(a) + i \in DOMAIN (a \o b) /\ (a \o b)[Len(a) + i] = b[i]
    BY <1>1
  <2> QED  BY <2>1 DEF ToSet
<1> QED  BY <1>1, <1>2, <1>3 DEF ToSet

\* The shell closes what is its own, all of it, and never the console.
LEMMA ClosedAtEnd ==
    ASSUME Sound, shell.pc \in Started
    PROVE  /\ Closed_At_End(shell) \in Seq(Shell_Numbers \ {shell.std_in, shell.std_out})
           /\ shell.line # <<>> => To_Close \subseteq ToSet(Closed_At_End(shell))
<1> DEFINE G == Shell_Numbers \ {shell.std_in, shell.std_out}
           c == Last(shell.line)
           outs == [i \in DOMAIN shell.pipes |-> shell.pipes[i].out]
           ins == [i \in DOMAIN shell.pipes |-> shell.pipes[i].in]
           read == IF shell.line # <<>> /\ c.is_std_in THEN <<shell.tmp_in>> ELSE <<>>
           written == IF shell.line # <<>> /\ c.is_std_out THEN <<shell.tmp_out>> ELSE <<>>
<1>1. ShellTypeOK /\ ProgressOK /\ ConsoleOK /\ WiredOK
  BY DEF Sound, CoreInv
<1>2. Len(shell.pipes) \in Nat /\ DOMAIN shell.pipes = 1..Len(shell.pipes)
  BY <1>1 DEF ShellTypeOK
<1>3. \A i \in DOMAIN shell.pipes : shell.pipes[i].in \in G /\ shell.pipes[i].out \in G
  BY <1>1, ShellNumbers DEF ConsoleOK
<1>4. {shell.tmp_in, shell.tmp_out} \subseteq Shell_Numbers
  BY DEF Shell_Numbers
<1>5. shell.line # <<>> /\ c.is_std_in => shell.tmp_in \in G
  BY <1>1, <1>4 DEF ConsoleOK
<1>6. ASSUME shell.line # <<>>, c.is_std_out  PROVE shell.tmp_out \in G
  <2>1. /\ Len(shell.line) \in Nat \ {0} /\ shell.at = Len(shell.line) + 1
        /\ c = shell.line[Len(shell.line)]
    BY <1>1, <1>6 DEF ShellTypeOK, LineOK, ProgressOK, Last
  <2>2. Wired(Len(shell.line))
    BY <1>1, <2>1 DEF WiredOK
  <2> QED  BY <1>4, <1>6, <2>1, <2>2 DEF Wired, Redirected
<1> HIDE DEF G, c
<1>7. outs \in Seq(G) /\ ins \in Seq(G)
  BY <1>2, <1>3
<1>8. read \in Seq(G) /\ written \in Seq(G)
  BY <1>5, <1>6
<1>9. /\ shell.line # <<>> /\ c.is_std_in => shell.tmp_in \in ToSet(read)
      /\ shell.line # <<>> /\ c.is_std_out => shell.tmp_out \in ToSet(written)
  BY DEF ToSet
<1>10. Pipe_Numbers \subseteq ToSet(outs) \cup ToSet(ins)
  BY DEF Pipe_Numbers, ToSet
<1>11. Closed_At_End(shell) = outs \o ins \o read \o written
  BY DEF Closed_At_End, c
<1> HIDE DEF outs, ins, read, written
<1>12. outs \o ins \o read \o written \in Seq(G)
       /\ ToSet(outs) \cup ToSet(ins) \cup ToSet(read) \cup ToSet(written)
            \subseteq ToSet(outs \o ins \o read \o written)
  <2>1. outs \o ins \in Seq(G) /\ ToSet(outs) \cup ToSet(ins) \subseteq ToSet(outs \o ins)
    BY <1>7, Together
  <2>2. /\ (outs \o ins) \o read \in Seq(G)
        /\ ToSet(outs \o ins) \cup ToSet(read) \subseteq ToSet((outs \o ins) \o read)
    BY <1>8, <2>1, Together
  <2>3. /\ ((outs \o ins) \o read) \o written \in Seq(G)
        /\ ToSet((outs \o ins) \o read) \cup ToSet(written)
            \subseteq ToSet(((outs \o ins) \o read) \o written)
    BY <1>8, <2>2, Together
  <2> QED  BY <2>1, <2>2, <2>3
<1>13. To_Close \subseteq Pipe_Numbers
          \cup {n \in {shell.tmp_in} : c.is_std_in} \cup {n \in {shell.tmp_out} : c.is_std_out}
  BY DEF To_Close, Started, c
<1>14. shell.line # <<>> => To_Close \subseteq ToSet(Closed_At_End(shell))
  BY <1>9, <1>10, <1>11, <1>12, <1>13
<1> QED  BY <1>11, <1>12, <1>14 DEF G

\* The programs of the line that nobody is waiting for any more have exited.
LEMMA NoneRunning ==
    ASSUME Sound, shell.pc \in Started, Running = {}
    PROVE  \A p \in shell.first..Len(prog) : prog[p].exited
<1> SUFFICES ASSUME NEW p \in shell.first..Len(prog)  PROVE prog[p].exited
  OBVIOUS
<1>1. PICK i \in DOMAIN shell.handles : shell.handles[i] = p
  BY DEF Sound, CoreInv, ProgressOK
<1>2. p \in ToSet(shell.handles)
  BY <1>1 DEF ToSet
<1> QED  BY <1>2 DEF Running

\* What a redirection has opened stays what it is.
LEMMA RedirectedKept ==
    ASSUME Sound, ObjectsKept, NEW n \in Numbers, Handles'[n] = Handles[n],
           shell'.std_in = shell.std_in, shell'.std_out = shell.std_out, shell'.wd = shell.wd,
           NEW c, Redirected(n, c)
    PROVE  Redirected(n, c)'
<1>1. Handles[n] # NoObject => Same_Object(object[Handles[n]], object'[Handles[n]])
  BY StillReached
<1> QED  BY <1>1 DEF Redirected, Kind, Named, Same_Object, Is_Named

\* The programs of the line keep what they have.
LEMMA StillWired ==
    ASSUME Sound, UNCHANGED <<table_vars, object, prog>>, NEW i, Wired(i),
           shell'.line = shell.line, shell'.first = shell.first, shell'.wd = shell.wd,
           shell'.std_in = shell.std_in, shell'.std_out = shell.std_out,
           shell'.tmp_in = shell.tmp_in, shell'.tmp_out = shell.tmp_out,
           shell'.pipes = shell.pipes
    PROVE  Wired(i)'
<1>1. Handles' = Handles /\ prog' = prog /\ ObjectsKept
  BY Typing, SameObjects DEF table_vars
<1>2. {shell.tmp_in, shell.tmp_out} \subseteq Numbers
  BY DEF Sound, CoreInv, ShellTypeOK
<1>3. \A n \in Numbers : \A c : Redirected(n, c) => Redirected(n, c)'
  BY <1>1, RedirectedKept
<1> DEFINE c == shell.line[i]
           r == prog[shell.first + i - 1]
<1>4. /\ r.in = IF i > 1 THEN shell.pipes[i - 1].in
                ELSE IF c.is_std_in THEN shell.tmp_in ELSE shell.std_in
      /\ r.out = IF c.is_pipe THEN shell.pipes[i].out
                 ELSE IF c.is_std_out THEN shell.tmp_out ELSE shell.std_out
      /\ i = 1 /\ c.is_std_in => Redirected(shell.tmp_in, c)
      /\ c.is_std_out => Redirected(shell.tmp_out, c)
  BY DEF Wired
<1> QED  BY <1>1, <1>2, <1>3, <1>4 DEF Wired, Redirected

(* The line is over.                                                       *)
LEMMA LineEnded ==
    ASSUME Sound, shell.pc \in Started,
           shell' = [shell EXCEPT !.pc = "end", !.todo = Closed_At_End(shell)],
           UNCHANGED <<table_vars, object, keys, prog>>, ~hasty' => Running = {}
    PROVE  HandleInv' /\ CoreInv'
<1> DEFINE todo == Closed_At_End(shell)
<1>1. keys' = keys /\ shell.pc \notin {"boot", "end", "keys"} \cup In_Line
  BY DEF Started, In_Line
<1>2. ShellTypeOK /\ ProgressOK /\ ConsoleOK /\ PipesOK /\ WiredOK /\ Owned
  BY DEF Sound, CoreInv
<1>3. /\ HandleInv' /\ ObjectsOK' /\ ProgramsOK' /\ FilesOK'
      /\ Handles' = Handles /\ held' = held /\ issued' = issued /\ object' = object /\ prog' = prog
  BY QuietShell
<1>4. /\ todo \in Seq(Shell_Numbers \ {shell.std_in, shell.std_out})
      /\ shell.line # <<>> => To_Close \subseteq ToSet(todo)
  BY ClosedAtEnd
<1> HIDE DEF todo
<1>5. /\ \A field \in Shell_Fields \ {"pc", "todo"} : shell'[field] = shell[field]
      /\ Shell_Fields \subseteq DOMAIN shell'
      /\ shell'.pc = "end" /\ shell'.todo = todo
  BY <1>2 DEF ShellTypeOK, Shell_Fields, todo
<1>6. /\ shell'.std_in = shell.std_in /\ shell'.std_out = shell.std_out /\ shell'.line = shell.line
      /\ shell'.at = shell.at /\ shell'.pipes = shell.pipes
      /\ shell'.tmp_in = shell.tmp_in /\ shell'.tmp_out = shell.tmp_out
      /\ shell'.first = shell.first /\ shell'.mark = shell.mark
  BY <1>5 DEF Shell_Fields
<1>7. \A i \in DOMAIN todo : todo[i] \in Shell_Numbers /\ todo[i] \notin {shell.std_in, shell.std_out}
  BY <1>4
<1>8. ShellTypeOK'
  <2>1. todo \in Seq(Numbers)
    <3>1. Shell_Numbers \ {shell.std_in, shell.std_out} \subseteq Numbers
      BY <1>2, ShellNumbers
    <3> QED  BY <1>4, <3>1
  <2> QED  BY <1>1, <1>2, <1>3, <1>5, <2>1 DEF ShellTypeOK, Shell_Fields
<1>9. ProgressOK'
  <2>1. ~hasty' => \A p \in shell.first..Len(prog) : prog[p].exited
    BY NoneRunning
  <2> QED  BY <1>2, <1>3, <1>5, <1>6, <2>1 DEF ProgressOK, In_Line, Started
<1>10. ApartOK'
  BY <1>2, <1>3, <1>5, <1>6, <1>7, NumbersKept, ShellNumbers DEF Shell_Numbers
<1>11. ConsoleOK'
  BY <1>1, <1>2, <1>3, <1>5, <1>6, <1>7 DEF ConsoleOK, Reaches, Started
<1>12. PipesOK' /\ ReadyOK' /\ WiredOK'
  BY <1>5 DEF PipesOK, ReadyOK, WiredOK, In_Line, Started
<1>13. Owned'
  <2>1. shell.line # <<>> => To_Close \subseteq To_Close'
    BY <1>4, <1>5 DEF To_Close
  <2> QED  BY <1>2, <1>3, <1>5, <1>6, <2>1 DEF Owned, In_Line, Started
<1> QED  BY <1>3, <1>8, <1>9, <1>10, <1>11, <1>12, <1>13 DEF CoreInv

LEMMA WaitStep ==
    ASSUME Sound, Wait_For \/ Wake
    PROVE  HandleInv' /\ CoreInv'
<1>1. UNCHANGED <<table_vars, object, keys, prog>> /\ shell.pc \in Started
  BY DEF Wait_For, Wake, Shell_At, Started
<1>2. CASE /\ shell' = [shell EXCEPT !.pc = "end", !.todo = Closed_At_End(shell)]
           /\ ~hasty' => Running = {}
  BY <1>1, <1>2, LineEnded
<1>3. CASE shell' = [shell EXCEPT !.pc = "sleep"] /\ hasty' = hasty
  <2>1. ShellTypeOK /\ ProgressOK /\ ApartOK /\ ConsoleOK /\ PipesOK /\ WiredOK /\ Owned
    BY DEF Sound, CoreInv
  <2>2. /\ HandleInv' /\ ObjectsOK' /\ ProgramsOK' /\ FilesOK'
        /\ Handles' = Handles /\ held' = held /\ issued' = issued /\ object' = object /\ prog' = prog
    BY <1>1, QuietShell
  <2>3. /\ \A field \in Shell_Fields \ {"pc"} : shell'[field] = shell[field]
        /\ Shell_Fields \subseteq DOMAIN shell'
        /\ shell'.pc = "sleep"
    BY <1>3, <2>1 DEF ShellTypeOK, Shell_Fields
  <2>4. /\ shell'.std_in = shell.std_in /\ shell'.std_out = shell.std_out /\ shell'.line = shell.line
        /\ shell'.at = shell.at /\ shell'.pipes = shell.pipes /\ shell'.todo = shell.todo
        /\ shell'.tmp_in = shell.tmp_in /\ shell'.tmp_out = shell.tmp_out
        /\ shell'.first = shell.first /\ shell'.mark = shell.mark /\ shell'.handles = shell.handles
        /\ shell'.wd = shell.wd
    BY <2>3 DEF Shell_Fields
  <2>5. ShellTypeOK'
    BY <1>1, <2>1, <2>2, <2>3 DEF ShellTypeOK, Shell_Fields, Started
  <2>6. ProgressOK'
    BY <1>1, <2>1, <2>2, <2>3, <2>4 DEF ProgressOK, In_Line, Started
  <2>7. ApartOK'
    BY <2>1, <2>2, <2>4, NumbersKept, ShellNumbers DEF Shell_Numbers
  <2>8. ConsoleOK'
    BY <1>1, <2>1, <2>2, <2>3, <2>4 DEF ConsoleOK, Reaches, Started
  <2>9. PipesOK'
    BY <1>1, <2>1, <2>2, <2>3, <2>4 DEF PipesOK, Reaches, In_Line, Started
  <2>10. ReadyOK'
    BY <2>3 DEF ReadyOK
  <2>11. WiredOK'
    <3>1. \A i \in 1..shell.at - 1 : Wired(i)
      BY <1>1, <2>1 DEF WiredOK
    <3>2. \A i \in 1..shell.at - 1 : Wired(i)'
      BY <1>1, <2>4, <3>1, StillWired
    <3> QED  BY <2>4, <3>2 DEF WiredOK
  <2>12. Owned'
    <3>1. Pipe_Numbers' = Pipe_Numbers
      BY <2>4 DEF Pipe_Numbers
    <3>2. To_Close \subseteq To_Close'
      BY <1>1, <2>3, <2>4, <3>1 DEF To_Close, In_Line, Started
    <3> QED  BY <1>1, <2>1, <2>2, <2>3, <2>4, <3>2 DEF Owned, In_Line, Started
  <2> QED  BY <2>2, <2>5, <2>6, <2>7, <2>8, <2>9, <2>10, <2>11, <2>12 DEF CoreInv
<1> QED  BY <1>2, <1>3 DEF Wait_For, Wake, Woken

(* A program's process is forgotten, whatever the program does.            *)
LEMMA ExitCodeStep ==
    ASSUME Sound, Read_Exit_Code
    PROVE  HandleInv' /\ CoreInv'
<1> DEFINE h == Head(shell.handles)
           Reaped(r) == [r EXCEPT !.reaped = TRUE]
<1>1. /\ UNCHANGED <<table_vars, object, hasty, keys>> /\ shell.pc = "end" /\ shell.handles # <<>>
      /\ prog' = [prog EXCEPT ![h] = Reaped(prog[h])]
      /\ shell' = [shell EXCEPT !.handles = Tail(shell.handles)]
  BY DEF Read_Exit_Code, Shell_At
<1>2. /\ ShellTypeOK /\ ProgressOK /\ ApartOK /\ ConsoleOK /\ FilesOK /\ Owned
      /\ ObjectsOK /\ ProgramsOK
  BY DEF Sound, CoreInv
<1>3. Handles' = Handles /\ held' = held /\ issued' = issued /\ object' = object
  BY <1>1 DEF table_vars
<1>4. HandleInv' /\ ObjectsOK'
  BY <1>1, Typing, SameObjects, TableKept
<1> HIDE DEF h
<1>5. /\ Len(prog) \in Nat /\ DOMAIN prog = 1..Len(prog)
      /\ prog' = [p \in 1..Len(prog) |-> IF p = h THEN Reaped(prog[p]) ELSE prog[p]]
  BY <1>1, <1>2 DEF ProgramsOK
<1>6. DOMAIN prog' = DOMAIN prog /\ Len(prog') = Len(prog) /\ prog' = [p \in 1..Len(prog') |-> prog'[p]]
  BY <1>5
<1>7. ASSUME NEW p \in DOMAIN prog
      PROVE  /\ ProgramOK(prog'[p])
             /\ prog'[p].file = prog[p].file /\ prog'[p].name = prog[p].name
             /\ prog'[p].exited = prog[p].exited /\ (Done(prog'[p]) <=> Done(prog[p]))
             /\ Has_File(prog'[p]) <=> Has_File(prog[p])
  <2>1. ProgramOK(prog[p])
    BY <1>2 DEF ProgramsOK
  <2>2. CASE p = h
    <3>1. prog'[p] = Reaped(prog[p])
      BY <1>5, <2>2
    <3> QED  BY <2>1, <3>1 DEF ProgramOK, PlaceOK, Program_Fields, Done, Has_File
  <2>3. CASE p # h
    <3>1. prog'[p] = prog[p]
      BY <1>5, <2>3
    <3> QED  BY <2>1, <3>1
  <2> QED  BY <2>2, <2>3
<1>8. ProgramsOK'
  BY <1>5, <1>6, <1>7 DEF ProgramsOK
<1>9. FilesOK'
  BY <1>2, <1>3, <1>6, <1>7 DEF FilesOK, Reaches
<1>10. /\ \A field \in Shell_Fields \ {"handles"} : shell'[field] = shell[field]
       /\ Shell_Fields \subseteq DOMAIN shell'
       /\ shell'.handles \in Seq(Nat)
  <2>1. Tail(shell.handles) \in Seq(Nat)
    BY <1>1, <1>2, TailTyped DEF ShellTypeOK
  <2> QED  BY <1>1, <1>2, <2>1 DEF ShellTypeOK, Shell_Fields
<1>11. /\ shell'.std_in = shell.std_in /\ shell'.std_out = shell.std_out /\ shell'.line = shell.line
       /\ shell'.at = shell.at /\ shell'.pipes = shell.pipes /\ shell'.todo = shell.todo
       /\ shell'.tmp_in = shell.tmp_in /\ shell'.tmp_out = shell.tmp_out
       /\ shell'.first = shell.first /\ shell'.mark = shell.mark /\ shell'.pc = "end"
  BY <1>1, <1>10 DEF Shell_Fields
<1>12. ShellTypeOK'
  BY <1>1, <1>2, <1>3, <1>10 DEF ShellTypeOK, Shell_Fields
<1>13. ProgressOK'
  <2>1. shell.first \in Nat \ {0}
    BY <1>2 DEF ShellTypeOK
  <2>2. shell.first..Len(prog) \subseteq DOMAIN prog
    BY <1>5, <2>1
  <2> QED  BY <1>1, <1>2, <1>6, <1>7, <1>11, <2>2 DEF ProgressOK, In_Line, Started
<1>14. Shell_Numbers' = Shell_Numbers /\ Pipe_Numbers' = Pipe_Numbers /\ To_Close' = To_Close
  <2>1. Pipe_Numbers' = Pipe_Numbers
    BY <1>11 DEF Pipe_Numbers
  <2>2. ToSet(shell'.todo) = ToSet(shell.todo)
    BY <1>11
  <2> QED  BY <1>1, <1>11, <2>1, <2>2 DEF Shell_Numbers, To_Close
<1>15. ApartOK'
  BY <1>2, <1>3, <1>6, <1>7, <1>14 DEF ApartOK
<1>16. ConsoleOK'
  BY <1>1, <1>2, <1>3, <1>11 DEF ConsoleOK, Reaches, Started
<1>17. PipesOK' /\ ReadyOK' /\ WiredOK'
  BY <1>11 DEF PipesOK, ReadyOK, WiredOK, In_Line, Started
<1>18. Owned'
  <2>1. {prog'[p].file : p \in DOMAIN prog'} = {prog[p].file : p \in DOMAIN prog}
    BY <1>6, <1>7
  <2> QED  BY <1>1, <1>2, <1>3, <1>11, <1>14, <2>1 DEF Owned
<1> QED  BY <1>4, <1>8, <1>9, <1>12, <1>13, <1>15, <1>16, <1>17, <1>18 DEF CoreInv

LEMMA HeadAndTail ==
    ASSUME NEW S, NEW s \in Seq(S), s # <<>>
    PROVE  /\ Head(s) \in S /\ Tail(s) \in Seq(S) /\ Len(s) \in Nat \ {0} /\ Head(s) = s[1]
           /\ \A i \in DOMAIN Tail(s) : i + 1 \in DOMAIN s /\ Tail(s)[i] = s[i + 1]
           /\ \A i \in DOMAIN s : i = 1 \/ (i - 1 \in DOMAIN Tail(s) /\ Tail(s)[i - 1] = s[i])
<1>1. /\ Head(s) \in S /\ Tail(s) \in Seq(S) /\ Len(s) \in Nat \ {0} /\ Head(s) = s[1]
      /\ DOMAIN s = 1..Len(s)
  OBVIOUS
<1>2. Len(Tail(s)) = Len(s) - 1 /\ DOMAIN Tail(s) = 1..Len(s) - 1
  OBVIOUS
<1>3. \A i \in 1..Len(s) - 1 : Tail(s)[i] = s[i + 1]
  OBVIOUS
<1>4. \A i \in DOMAIN Tail(s) : i + 1 \in DOMAIN s /\ Tail(s)[i] = s[i + 1]
  BY <1>1, <1>2, <1>3
<1>5. ASSUME NEW i \in DOMAIN s, i # 1
      PROVE  i - 1 \in DOMAIN Tail(s) /\ Tail(s)[i - 1] = s[i]
  <2>1. i - 1 \in 1..Len(s) - 1 /\ (i - 1) + 1 = i
    BY <1>1, <1>5
  <2> QED  BY <1>2, <1>3, <2>1
<1> QED  BY <1>1, <1>4, <1>5

(* A handle is closed, or the prompt is back.                              *)
LEMMA CloseStep ==
    ASSUME Sound, Close_Handles
    PROVE  HandleInv' /\ CoreInv'
<1>1. UNCHANGED <<hasty, keys, prog>> /\ shell.pc = "end"
  BY DEF Close_Handles, Shell_At
<1>2. /\ ShellTypeOK /\ ProgressOK /\ ApartOK /\ ConsoleOK /\ FilesOK /\ Owned
      /\ ObjectsOK /\ ProgramsOK
  BY DEF Sound, CoreInv
<1>3. CASE /\ shell.todo = <<>> /\ shell' = [shell EXCEPT !.pc = "keys"]
           /\ UNCHANGED <<object, table_vars>>
  <2>1. /\ HandleInv' /\ ObjectsOK' /\ ProgramsOK' /\ FilesOK'
        /\ Handles' = Handles /\ held' = held /\ issued' = issued /\ object' = object /\ prog' = prog
    BY <1>1, <1>3, QuietShell
  <2>2. /\ \A field \in Shell_Fields \ {"pc"} : shell'[field] = shell[field]
        /\ Shell_Fields \subseteq DOMAIN shell' /\ shell'.pc = "keys"
    BY <1>2, <1>3 DEF ShellTypeOK, Shell_Fields
  <2>3. /\ shell'.std_in = shell.std_in /\ shell'.std_out = shell.std_out /\ shell'.line = shell.line
        /\ shell'.at = shell.at /\ shell'.pipes = shell.pipes /\ shell'.todo = shell.todo
        /\ shell'.tmp_in = shell.tmp_in /\ shell'.tmp_out = shell.tmp_out
        /\ shell'.first = shell.first /\ shell'.mark = shell.mark
    BY <2>2 DEF Shell_Fields
  <2>4. ShellTypeOK'
    BY <1>1, <1>2, <2>1, <2>2 DEF ShellTypeOK, Shell_Fields
  <2>5. ProgressOK'
    BY <1>1, <1>2, <2>1, <2>2, <2>3 DEF ProgressOK, In_Line, Started
  <2>6. ApartOK'
    BY <1>2, <2>1, <2>3, NumbersKept, ShellNumbers DEF Shell_Numbers
  <2>7. ConsoleOK'
    BY <1>1, <1>2, <2>1, <2>2, <2>3 DEF ConsoleOK, Reaches, Started
  <2>8. PipesOK' /\ ReadyOK' /\ WiredOK'
    BY <2>2 DEF PipesOK, ReadyOK, WiredOK, In_Line, Started
  <2>9. Owned'
    <3>1. To_Close = {}
      BY <1>1, <1>3 DEF To_Close, ToSet
    <3> QED  BY <1>1, <1>2, <2>1, <2>2, <2>3, <3>1 DEF Owned, In_Line, Started
  <2> QED  BY <2>1, <2>4, <2>5, <2>6, <2>7, <2>8, <2>9 DEF CoreInv
<1>4. CASE /\ shell.todo # <<>> /\ shell' = [shell EXCEPT !.todo = Tail(shell.todo)]
           /\ Close_Handle(Head(shell.todo))
  <2> DEFINE n == Head(shell.todo)
             rest == Tail(shell.todo)
  <2>1. /\ shell.todo \in Seq(Numbers) /\ n \in Numbers /\ rest \in Seq(Numbers)
        /\ Len(shell.todo) \in Nat \ {0} /\ n = shell.todo[1]
        /\ \A i \in DOMAIN rest : i + 1 \in DOMAIN shell.todo /\ rest[i] = shell.todo[i + 1]
        /\ \A i \in DOMAIN shell.todo : i = 1 \/ (i - 1 \in DOMAIN rest /\ rest[i - 1] = shell.todo[i])
    <3>1. shell.todo \in Seq(Numbers)
      BY <1>2 DEF ShellTypeOK
    <3> QED  BY <1>4, <3>1, HeadAndTail
  <2> HIDE DEF n, rest
  <2>2. /\ HandleInv' /\ ObjectsOK' /\ ObjectsKept /\ issued' = issued
        /\ Handles'[n] = NoObject
        /\ \A k \in Numbers : k # n => Handles'[k] = Handles[k]
        /\ \A o \in Objects : held'[o] # Unheld => held'[o] = held[o] /\ held[o] # n
    BY <1>4, <2>1, Closed DEF n
  <2>3. /\ \A field \in Shell_Fields \ {"todo"} : shell'[field] = shell[field]
        /\ Shell_Fields \subseteq DOMAIN shell' /\ shell'.todo = rest
    BY <1>2, <1>4 DEF ShellTypeOK, Shell_Fields, rest
  <2>4. /\ shell'.std_in = shell.std_in /\ shell'.std_out = shell.std_out /\ shell'.line = shell.line
        /\ shell'.at = shell.at /\ shell'.pipes = shell.pipes
        /\ shell'.tmp_in = shell.tmp_in /\ shell'.tmp_out = shell.tmp_out
        /\ shell'.first = shell.first /\ shell'.mark = shell.mark /\ shell'.pc = "end"
    BY <1>1, <2>3 DEF Shell_Fields
  <2>5. ProgramsOK'
    BY <1>1, <1>2 DEF ProgramsOK
  <2>6. n \in Shell_Numbers
    BY <1>2, <2>1, ShellNumbers
  <2>7. FilesOK'
    <3> SUFFICES ASSUME NEW p \in DOMAIN prog, Has_File(prog[p])
                 PROVE  /\ prog[p].file <= issued
                        /\ \A q \in DOMAIN prog : q # p => prog[q].file # prog[p].file
                        /\ ~Done(prog[p]) =>
                            /\ Handles'[prog[p].file] \in Objects
                            /\ object'[Handles'[prog[p].file]].kind = File_Kind(prog[p].name)
                        /\ Done(prog[p]) => Handles'[prog[p].file] = NoObject
      BY <1>1, <2>2 DEF FilesOK, Reaches
    <3>1. prog[p].file \in Numbers
      BY <1>2 DEF ProgramsOK, ProgramOK
    <3>2. prog[p].file # n
      BY <1>2, <2>6 DEF ApartOK, Has_File
    <3>3. Handles'[prog[p].file] = Handles[prog[p].file]
      BY <2>2, <3>1, <3>2
    <3>4. Handles[prog[p].file] \in Objects =>
            object'[Handles[prog[p].file]].kind = object[Handles[prog[p].file]].kind
      BY <2>2, <3>1, <3>3, StillReached, Typing DEF Same_Object
    <3> QED  BY <1>2, <3>3, <3>4 DEF FilesOK, Reaches
  <2>8. ShellTypeOK'
    BY <1>1, <1>2, <2>1, <2>2, <2>3 DEF ShellTypeOK, Shell_Fields
  <2>9. ProgressOK'
    BY <1>1, <1>2, <2>4 DEF ProgressOK, In_Line, Started
  <2>10. \A i \in DOMAIN rest : rest[i] \in Shell_Numbers
                                /\ rest[i] \notin {shell.std_in, shell.std_out}
    BY <1>2, <2>1, ShellNumbers DEF ConsoleOK
  <2>11. ApartOK'
    BY <1>1, <1>2, <2>2, <2>3, <2>4, <2>10, NumbersKept, ShellNumbers DEF Shell_Numbers
  <2>12. ConsoleOK'
    <3>1. {shell.std_in, shell.std_out} \subseteq Numbers
      BY <1>2 DEF ShellTypeOK
    <3>2. n \notin {shell.std_in, shell.std_out}
      BY <1>2, <2>1 DEF ConsoleOK
    <3>3. /\ Reaches(shell.std_in, "console_in")' /\ Reaches(shell.std_out, "console_out")'
      BY <1>1, <1>2, <2>2, <2>4, <3>1, <3>2, StillReached DEF ConsoleOK, Reaches
    <3> QED  BY <1>1, <1>2, <2>3, <2>4, <2>10, <3>3 DEF ConsoleOK, Started
  <2>13. PipesOK' /\ ReadyOK' /\ WiredOK'
    BY <2>4 DEF PipesOK, ReadyOK, WiredOK, In_Line, Started
  <2>14. Owned'
    <3>1. ASSUME NEW k \in ToSet(shell.todo), k # n  PROVE k \in ToSet(rest)
      <4>1. PICK i \in DOMAIN shell.todo : k = shell.todo[i]
        BY DEF ToSet
      <4>2. i - 1 \in DOMAIN rest /\ rest[i - 1] = k
        <5>1. i # 1
          BY <2>1, <3>1, <4>1
        <5> QED  BY <2>1, <4>1, <5>1
      <4> QED  BY <4>2 DEF ToSet
    <3>2. To_Close = ToSet(shell.todo) /\ To_Close' = ToSet(rest)
      BY <1>1, <2>3, <2>4 DEF To_Close
    <3>3. \A o \in Objects : held'[o] \in To_Close /\ held'[o] # n => held'[o] \in To_Close'
      BY <3>1, <3>2
    <3> HIDE DEF To_Close
    <3> SUFFICES ASSUME shell.line # <<>>, ~(Len(shell.line) > 1 /\ Last(shell.line).is_std_in),
                        NEW o \in Objects, held'[o] # Unheld, held'[o] > shell.mark
                 PROVE  held'[o] \in To_Close' \cup {prog[p].file : p \in DOMAIN prog}
      BY <1>1, <2>4 DEF Owned
    <3>4. held'[o] = held[o] /\ held[o] # n
      BY <2>2
    <3>5. held[o] \in To_Close \cup {prog[p].file : p \in DOMAIN prog}
      BY <1>1, <1>2, <3>4 DEF Owned
    <3> QED  BY <3>3, <3>4, <3>5
  <2> QED  BY <2>2, <2>5, <2>7, <2>8, <2>9, <2>11, <2>12, <2>13, <2>14 DEF CoreInv
<1> QED  BY <1>3, <1>4 DEF Close_Handles

\* A program before its first system call.
LEMMA NewProgramOK ==
    ASSUME NEW name \in Program_Names, NEW args, NEW in \in Numbers, NEW out \in Numbers, NEW wd,
           Invalid_Handle \in Numbers
    PROVE  LET r == New_Program(name, args, in, out, wd)
           IN  ProgramOK(r) /\ r.in = in /\ r.out = out /\ r.file = Invalid_Handle
<1> DEFINE r == New_Program(name, args, in, out, wd)
<1>1. /\ Program_Fields \subseteq DOMAIN r /\ r.name = name /\ r.in = in /\ r.out = out
      /\ r.file = Invalid_Handle /\ r.next = "exit" /\ r.exited = FALSE
  BY DEF New_Program, Program_Fields
<1>2. \/ name = "echo" /\ r.pc = "echo"
      \/ name = "find" /\ r.pc = "reset"
      \/ name = "rd" /\ r.pc = "delete"
      \/ name \in {"md", "dir", "tasklist"} /\ r.pc = "open"
      \/ name \in {"sort", "type"} /\ r.pc \in {"read", "open"}
      \/ name = "freq" /\ r.pc \in {"read", "write"}
  BY DEF New_Program, Program_Names
<1> HIDE DEF r
<1>3. PlaceOK(r)
  BY <1>1, <1>2 DEF PlaceOK, Readers
<1>4. ProgramOK(r)
  BY <1>1, <1>3 DEF ProgramOK
<1> QED  BY <1>1, <1>4 DEF r

\* The name of a program is one of those.
LEMMA BaseNamed ==
    ASSUME NEW base \in Programs
    PROVE  (IF base = <<"@echo">> THEN "echo" ELSE base[1]) \in Program_Names
<1>1. CASE base = <<"@echo">>
  BY <1>1 DEF Program_Names
<1>2. CASE base # <<"@echo">>
  <2>1. base \in {<<"type">>, <<"md">>, <<"rd">>, <<"dir">>, <<"echo">>,
                  <<"find">>, <<"sort">>, <<"freq">>, <<"tasklist">>}
    BY <1>2 DEF Programs
  <2>2. base[1] \in Program_Names
    BY <2>1 DEF Program_Names
  <2> QED  BY <1>2, <2>2
<1> QED  BY <1>1, <1>2

LEMMA Appended ==
    ASSUME NEW S, NEW s \in Seq(S), NEW x \in S
    PROVE  /\ Len(s) \in Nat /\ DOMAIN s = 1..Len(s) /\ Len(Append(s, x)) = Len(s) + 1
           /\ Append(s, x) = [i \in 1..Len(s) + 1 |-> IF i = Len(s) + 1 THEN x ELSE s[i]]
<1>1. /\ Append(s, x) \in Seq(S) /\ Len(s) \in Nat /\ DOMAIN s = 1..Len(s)
      /\ Len(Append(s, x)) = Len(s) + 1
  OBVIOUS
<1>2. ASSUME NEW i \in 1..Len(s) + 1  PROVE Append(s, x)[i] = IF i = Len(s) + 1 THEN x ELSE s[i]
  <2>1. CASE i = Len(s) + 1
    BY <2>1
  <2>2. CASE i # Len(s) + 1
    <3>1. i \in 1..Len(s)
      BY <1>1, <2>2
    <3> QED  BY <2>2, <3>1
  <2> QED  BY <2>1, <2>2
<1>3. \A q \in Seq(S) : q = [i \in 1..Len(q) |-> q[i]]
  OBVIOUS
<1> DEFINE q == Append(s, x)
<1>4. /\ q \in Seq(S) /\ Len(q) = Len(s) + 1
      /\ \A i \in 1..Len(s) + 1 : q[i] = IF i = Len(s) + 1 THEN x ELSE s[i]
  BY <1>1, <1>2
<1> HIDE DEF q
<1>5. q = [i \in 1..Len(s) + 1 |-> IF i = Len(s) + 1 THEN x ELSE s[i]]
  BY <1>3, <1>4
<1> QED  BY <1>1, <1>5 DEF q

(* A program is started.                                                   *)
LEMMA CreateStep ==
    ASSUME Sound, Create_Process
    PROVE  HandleInv' /\ CoreInv'
<1> DEFINE name == IF Command.base = <<"@echo">> THEN "echo" ELSE Command.base[1]
           args == IF Command.base = <<"@echo">> THEN <<"@">> \o Command.parameters
                   ELSE Command.parameters
           r == New_Program(name, args, Input(shell), shell.tmp_out, shell.wd)
           new == Len(prog) + 1
           last == shell.at = Len(shell.line)
<1>1. UNCHANGED <<table_vars, object, hasty, keys>> /\ shell.pc = "create" /\ prog' = Append(prog, r)
  BY DEF Create_Process, Shell_At
<1>2. /\ ShellTypeOK /\ ProgressOK /\ ApartOK /\ ConsoleOK /\ PipesOK /\ ReadyOK /\ WiredOK
      /\ Owned /\ ObjectsOK /\ ProgramsOK /\ FilesOK /\ HandleInv
      /\ Invalid_Handle \in Numbers
  BY Typing DEF Sound, CoreInv
<1>3. Handles' = Handles /\ held' = held /\ issued' = issued /\ object' = object
  BY <1>1 DEF table_vars
<1>4. HandleInv' /\ ObjectsOK' /\ ObjectsKept
  BY <1>1, <1>2, SameObjects, TableKept
<1>5. /\ Command \in Commands
      /\ shell.at \in Nat \ {0} /\ Len(shell.line) \in Nat /\ shell.at <= Len(shell.line)
      /\ shell.line # <<>>
      /\ ~last => Command.is_pipe
      /\ Command.is_pipe => ~Command.is_std_in /\ ~Command.is_std_out
      /\ ~(Command.is_std_in /\ Command.is_std_out)
      /\ \A i \in 1..shell.at - 1 : /\ shell.line[i].is_pipe
                                    /\ ~shell.line[i].is_std_in /\ ~shell.line[i].is_std_out
      /\ last => Last(shell.line) = Command
  BY <1>1, InLine DEF In_Line
<1>6. /\ Len(shell.pipes) \in Nat /\ DOMAIN shell.pipes = 1..Len(shell.pipes)
      /\ Len(shell.pipes) = IF Command.is_pipe THEN shell.at ELSE shell.at - 1
      /\ shell.at > 1 => shell.at - 1 \in DOMAIN shell.pipes
  <2>1. Len(shell.pipes) \in Nat /\ DOMAIN shell.pipes = 1..Len(shell.pipes)
    BY <1>2 DEF ShellTypeOK
  <2>2. Len(shell.pipes) = IF Command.is_pipe THEN shell.at ELSE shell.at - 1
    BY <1>1, <1>2 DEF ProgressOK
  <2> QED  BY <1>5, <2>1, <2>2
<1>7. /\ Input(shell) \in Shell_Numbers
      /\ shell.at > 1 => Input(shell) = shell.pipes[shell.at - 1].in
      /\ shell.at = 1 => Input(shell) = shell.tmp_in
  <2>1. shell.tmp_in \in Shell_Numbers
    BY DEF Shell_Numbers
  <2>2. shell.at > 1 => shell.pipes[shell.at - 1].in \in Shell_Numbers
    BY <1>2, <1>6, ShellNumbers
  <2> QED  BY <1>5, <2>1, <2>2 DEF Input
<1>8. Input(shell) \in Numbers /\ shell.tmp_out \in Numbers
  BY <1>2, <1>7, ShellNumbers DEF ShellTypeOK
<1>9. ProgramOK(r) /\ r.in = Input(shell) /\ r.out = shell.tmp_out /\ r.file = Invalid_Handle
  <2>1. name \in Program_Names
    BY <1>1, <1>2, BaseNamed DEF ProgressOK, In_Line
  <2> HIDE DEF name, args
  <2> QED  BY <1>2, <1>8, <2>1, NewProgramOK
<1> HIDE DEF r
<1>10. /\ Len(prog) \in Nat /\ Len(prog) = shell.first + shell.at - 2 /\ DOMAIN prog = 1..Len(prog)
       /\ Len(prog') = new /\ DOMAIN prog' = 1..new /\ new \in Nat
       /\ prog'[new] = r /\ prog' = [p \in 1..Len(prog') |-> prog'[p]]
       /\ \A p \in DOMAIN prog : prog'[p] = prog[p] /\ p \in DOMAIN prog' /\ p # new
       /\ \A p \in DOMAIN prog' : p \in DOMAIN prog \/ p = new
       /\ shell.first \in Nat \ {0}
  <2>1. /\ Len(prog) \in Nat /\ prog = [p \in 1..Len(prog) |-> prog[p]]
        /\ Len(prog) = shell.first + shell.at - 2 /\ shell.first \in Nat \ {0}
    BY <1>1, <1>2 DEF ProgramsOK, ProgressOK, In_Line, ShellTypeOK
  <2>2. prog' = [p \in 1..new |-> IF p = new THEN r ELSE prog[p]]
    <3> DEFINE S == {prog[p] : p \in DOMAIN prog} \cup {r}
    <3>1. prog \in Seq(S) /\ r \in S
      BY <2>1
    <3> HIDE DEF S
    <3> QED  BY <1>1, <3>1, Appended
  <2>3. Len(prog') = new
    BY <2>1, <2>2
  <2> QED  BY <2>1, <2>2, <2>3
<1>11. /\ \A field \in Shell_Fields \ {"pc", "at", "tmp_in", "handles"} : shell'[field] = shell[field]
       /\ Shell_Fields \subseteq DOMAIN shell'
       /\ shell'.at = shell.at + 1 /\ shell'.tmp_in = Input(shell)
       /\ shell'.handles = Append(shell.handles, new)
       /\ shell'.pc = IF last THEN "wait" ELSE "command"
  BY <1>2 DEF Create_Process, ShellTypeOK, Shell_Fields
<1>12. /\ shell'.std_in = shell.std_in /\ shell'.std_out = shell.std_out /\ shell'.line = shell.line
       /\ shell'.pipes = shell.pipes /\ shell'.todo = shell.todo /\ shell'.tmp_out = shell.tmp_out
       /\ shell'.first = shell.first /\ shell'.mark = shell.mark /\ shell'.wd = shell.wd
       /\ shell'.at = shell.at + 1 /\ shell'.tmp_in = Input(shell)
       /\ shell'.handles = Append(shell.handles, new)
  BY <1>11 DEF Shell_Fields
<1> HIDE DEF new, last
<1>13. /\ last => shell'.pc = "wait" /\ shell'.at = Len(shell.line) + 1
       /\ ~last => shell'.pc = "command" /\ shell'.at <= Len(shell.line)
       /\ shell'.pc \in {"wait", "command"}
  BY <1>5, <1>11 DEF last
<1>14. ProgramsOK' /\ FilesOK'
  <2>1. ProgramsOK'
    BY <1>2, <1>9, <1>10 DEF ProgramsOK
  <2>2. FilesOK'
    <3> SUFFICES ASSUME NEW p \in DOMAIN prog', Has_File(prog'[p])
                 PROVE  /\ prog'[p].file <= issued
                        /\ \A q \in DOMAIN prog' : q # p => prog'[q].file # prog'[p].file
                        /\ ~Done(prog'[p]) => Reaches(prog'[p].file, File_Kind(prog'[p].name))
                        /\ Done(prog'[p]) => Handles[prog'[p].file] = NoObject
      BY <1>3 DEF FilesOK, Reaches
    <3>1. p \in DOMAIN prog /\ prog'[p] = prog[p] /\ prog[p].file # Invalid_Handle
      BY <1>9, <1>10 DEF Has_File
    <3>2. /\ prog[p].file <= issued
          /\ \A q \in DOMAIN prog : q # p => prog[q].file # prog[p].file
          /\ ~Done(prog[p]) => Reaches(prog[p].file, File_Kind(prog[p].name))
          /\ Done(prog[p]) => Handles[prog[p].file] = NoObject
      BY <1>2, <3>1 DEF FilesOK, Has_File
    <3>3. ASSUME NEW q \in DOMAIN prog', q # p  PROVE prog'[q].file # prog'[p].file
      BY <1>9, <1>10, <3>1, <3>2, <3>3
    <3> QED  BY <3>1, <3>2, <3>3
  <2> QED  BY <2>1, <2>2
<1>15. ShellTypeOK'
  <2>1. Append(shell.handles, new) \in Seq(Nat)
    BY <1>2, <1>10 DEF ShellTypeOK
  <2>2. shell.at + 1 \in Nat \ {0}
    BY <1>5
  <2> QED  BY <1>1, <1>2, <1>3, <1>8, <1>11, <1>13, <2>1, <2>2
           DEF ShellTypeOK, Shell_Fields, In_Line, Started
<1>16. ProgressOK'
  <2>1. Len(prog') = shell'.first + shell'.at - 2
    BY <1>5, <1>10, <1>11, <1>12 DEF new
  <2>2. ASSUME NEW p \in shell'.first..Len(prog')
        PROVE  \E i \in DOMAIN shell'.handles : shell'.handles[i] = p
    <3>1. /\ Len(shell.handles) \in Nat
          /\ \A i \in DOMAIN shell.handles :
                i \in DOMAIN shell'.handles /\ shell'.handles[i] = shell.handles[i]
          /\ Len(shell.handles) + 1 \in DOMAIN shell'.handles
          /\ shell'.handles[Len(shell.handles) + 1] = new
      <4>1. shell.handles \in Seq(Nat) /\ new \in Nat
        BY <1>2, <1>10 DEF ShellTypeOK
      <4>2. /\ Len(shell.handles) \in Nat /\ DOMAIN shell.handles = 1..Len(shell.handles)
            /\ shell'.handles = [i \in 1..Len(shell.handles) + 1 |->
                                    IF i = Len(shell.handles) + 1 THEN new ELSE shell.handles[i]]
        BY <1>12, <4>1, Appended
      <4> QED  BY <4>2
    <3>2. CASE p = new
      BY <3>1, <3>2
    <3>3. CASE p # new
      <4>1. p \in shell.first..Len(prog)
        BY <1>10, <1>12, <3>3 DEF new
      <4> QED  BY <1>1, <1>2, <3>1, <4>1 DEF ProgressOK, In_Line
    <3> QED  BY <3>2, <3>3
  <2>3. shell'.pc = "command" => Len(shell'.pipes) = shell'.at - 1
    BY <1>5, <1>6, <1>11, <1>12, <1>13
  <2>4. \A i \in 1..Len(shell.line) : shell'.pc = "wait" /\ shell.line[i].is_pipe => i \in DOMAIN shell.pipes
    <3> SUFFICES ASSUME last, NEW i \in 1..Len(shell.line), shell.line[i].is_pipe
                 PROVE  i \in DOMAIN shell.pipes
      BY <1>13
    <3>1. i = shell.at => Command.is_pipe
      BY DEF Command
    <3> QED  BY <1>5, <1>6, <3>1 DEF last
  <2> QED  BY <1>5, <1>12, <1>13, <2>1, <2>2, <2>3, <2>4 DEF ProgressOK, In_Line, Started
<1>17. ApartOK'
  <2>1. Shell_Numbers' \subseteq Shell_Numbers
    <3>1. shell.tmp_out \in Shell_Numbers
      BY DEF Shell_Numbers
    <3> QED  BY <1>2, <1>7, <1>11, <1>12, <3>1, OldNumbers, ShellNumbers
  <2>2. ASSUME NEW n \in Shell_Numbers', n # Invalid_Handle
        PROVE  n <= issued' /\ \A p \in DOMAIN prog' : prog'[p].file # n
    BY <1>2, <1>3, <1>9, <1>10, <2>1, <2>2 DEF ApartOK
  <2> QED  BY <1>3, <2>2 DEF ApartOK
<1>18. ConsoleOK'
  <2>1. ASSUME last, Last(shell.line).is_std_in
        PROVE  shell'.tmp_in \notin {shell.std_in, shell.std_out}
    <3>1. CASE shell.at > 1
      BY <1>2, <1>6, <1>7, <1>11, <3>1 DEF ConsoleOK
    <3>2. CASE shell.at = 1
      BY <1>1, <1>2, <1>5, <1>7, <1>11, <2>1, <3>2 DEF ReadyOK, Redirected
    <3> QED  BY <1>5, <3>1, <3>2
  <2> QED  BY <1>1, <1>2, <1>3, <1>12, <1>13, <2>1 DEF ConsoleOK, Reaches, Started
<1>19. PipesOK'
  BY <1>1, <1>2, <1>3, <1>12, <1>13 DEF PipesOK, Reaches, In_Line, Started
<1>20. ReadyOK'
  BY <1>13 DEF ReadyOK
<1>21. WiredOK'
  <2> SUFFICES ASSUME NEW i \in 1..shell'.at - 1  PROVE Wired(i)'
    BY DEF WiredOK
  <2>1. CASE i # shell.at
    <3>1. i \in 1..shell.at - 1
      BY <1>5, <1>11, <2>1
    <3>2. Wired(i)
      BY <1>1, <1>2, <3>1 DEF WiredOK, In_Line
    <3>3. shell.first + i - 1 \in DOMAIN prog
      <4>1. /\ shell.first \in Nat \ {0} /\ shell.at \in Nat /\ i \in 1..shell.at - 1
            /\ Len(prog) = shell.first + shell.at - 2 /\ DOMAIN prog = 1..Len(prog)
        BY <1>5, <1>10, <3>1
      <4> QED  BY <4>1
    <3> QED  BY <1>5, <1>10, <1>12, <3>1, <3>2, <3>3, WiredKept
  <2>2. CASE i = shell.at
    <3>1. prog'[shell.first + i - 1] = r
      BY <1>5, <1>10, <2>2 DEF new
    <3>2. {shell.tmp_in, shell.tmp_out} \subseteq Numbers
      BY <1>2 DEF ShellTypeOK
    <3>3. \A n \in Numbers : \A c : Redirected(n, c) => Redirected(n, c)'
      BY <1>3, <1>4, <1>12, RedirectedKept
    <3> DEFINE c == shell.line[i]
    <3>4. Command = c
      BY <2>2 DEF Command
    <3>5. /\ r.in = IF i > 1 THEN shell.pipes[i - 1].in
                    ELSE IF c.is_std_in THEN shell'.tmp_in ELSE shell.std_in
          /\ r.out = IF c.is_pipe THEN shell.pipes[i].out
                     ELSE IF c.is_std_out THEN shell.tmp_out ELSE shell.std_out
          /\ i = 1 /\ c.is_std_in => Redirected(shell.tmp_in, c) /\ shell'.tmp_in = shell.tmp_in
          /\ c.is_std_out => Redirected(shell.tmp_out, c)
      <4>1. shell'.tmp_in = Input(shell) /\ r.in = Input(shell) /\ r.out = shell.tmp_out
        BY <1>9, <1>12
      <4>2. /\ i > 1 => Input(shell) = shell.pipes[i - 1].in
            /\ i = 1 => Input(shell) = shell.tmp_in
            /\ i = 1 \/ i > 1
        BY <1>5, <1>7, <2>2
      <4>3. /\ IF c.is_std_in THEN Redirected(shell.tmp_in, c) ELSE shell.tmp_in = shell.std_in
            /\ IF c.is_std_out THEN Redirected(shell.tmp_out, c)
               ELSE shell.tmp_out = IF c.is_pipe THEN shell.pipes[i].out ELSE shell.std_out
        BY <1>1, <1>2, <2>2, <3>4 DEF ReadyOK
      <4>4. c.is_pipe => ~c.is_std_out
        BY <1>5, <3>4
      <4> HIDE DEF c, r
      <4> QED  BY <4>1, <4>2, <4>3, <4>4
    <3> HIDE DEF r
    <3>6. /\ i = 1 /\ c.is_std_in => Redirected(shell.tmp_in, c)'
          /\ c.is_std_out => Redirected(shell.tmp_out, c)'
      <4>1. i = 1 /\ c.is_std_in => Redirected(shell.tmp_in, c)'
        BY <1>11, <1>12, <3>2, <3>3, <3>5 DEF Redirected
      <4>2. c.is_std_out => Redirected(shell.tmp_out, c)'
        BY <1>11, <1>12, <3>2, <3>3, <3>5 DEF Redirected
      <4> QED  BY <4>1, <4>2
    <3> QED  BY <1>12, <3>1, <3>5, <3>6 DEF Wired
  <2> QED  BY <2>1, <2>2, <1>5, <1>11
<1>22. Owned'
  <2>1. Pipe_Numbers' = Pipe_Numbers
    BY <1>12 DEF Pipe_Numbers
  <2>2. ASSUME ~(Len(shell.line) > 1 /\ Last(shell.line).is_std_in)
        PROVE  To_Close \subseteq To_Close'
    <3>1. CASE ~last
      <4>1. To_Close = Pipe_Numbers /\ To_Close' = Pipe_Numbers'
        BY <1>1, <1>5, <1>13, <3>1 DEF To_Close, In_Line, Started, last
      <4> QED  BY <2>1, <4>1
    <3>2. CASE last
      <4>1. Last(shell.line).is_std_in => shell'.tmp_in = shell.tmp_in
        <5>1. Last(shell.line).is_std_in => shell.at = 1
          <6>1. shell.at \in Nat \ {0} /\ Len(shell.line) \in Nat /\ shell.at = Len(shell.line)
            BY <1>5, <3>2 DEF last
          <6>2. \A a \in Nat \ {0}, n \in Nat : a = n /\ ~(n > 1) => a = 1
            OBVIOUS
          <6>3. ~(Len(shell.line) > 1) => shell.at = 1
            BY <6>1, <6>2
          <6> QED  BY <2>2, <6>3
        <5> QED  BY <1>7, <1>12, <5>1
      <4> QED  BY <1>1, <1>5, <1>12, <1>13, <2>1, <3>2, <4>1 DEF To_Close, In_Line, Started
    <3> QED  BY <3>1, <3>2
  <2>3. {prog[p].file : p \in DOMAIN prog} \subseteq {prog'[p].file : p \in DOMAIN prog'}
    BY <1>10
  <2> QED  BY <1>1, <1>2, <1>3, <1>12, <1>13, <2>2, <2>3 DEF Owned, In_Line, Started
<1> QED  BY <1>4, <1>14, <1>15, <1>16, <1>17, <1>18, <1>19, <1>20, <1>21, <1>22 DEF CoreInv

\* The shell opens something.
LEMMA ShellOpens ==
    ASSUME CommandLineAssumption, Sound, issued' < Invalid_Handle, prog' = prog,
           NEW record, Enter(record), "kind" \in DOMAIN record, record.kind \in Kinds,
           record.kind = "pipe_in" => "pipe" \in DOMAIN record
    PROVE  /\ HandleInv' /\ ObjectsOK' /\ ObjectsKept /\ ProgramsOK' /\ FilesOK'
           /\ Last_Handle' = issued' /\ issued' \in Numbers /\ issued \in Nat /\ issued < issued'
           /\ Fresh \in Objects /\ Handles'[issued'] = Fresh /\ object'[Fresh] = record
           /\ \A n \in Shell_Numbers : /\ n \in Numbers /\ n # issued' /\ Handles'[n] = Handles[n]
                                       /\ n = Invalid_Handle \/ n <= issued
           /\ \A o \in Objects : held'[o] # Unheld /\ held'[o] # issued' => held'[o] = held[o]
           /\ \A p \in DOMAIN prog : prog[p].file # issued'
<1>1. /\ HandleInv' /\ ObjectsOK' /\ ObjectsKept
      /\ Fresh \in Objects /\ object'[Fresh] = record
      /\ Last_Handle' = issued' /\ issued' \in Numbers /\ issued < issued'
      /\ issued \in Nat
      /\ Handles'[issued'] = Fresh
      /\ \A n \in Numbers : n # issued' => Handles'[n] = Handles[n]
      /\ held'[Fresh] = issued'
      /\ \A o \in Objects : o # Fresh => held'[o] = held[o]
  BY Entered
<1> HIDE DEF Fresh
<1>2. \A n \in Shell_Numbers : /\ n \in Numbers /\ n # issued' /\ Handles'[n] = Handles[n]
                               /\ n = Invalid_Handle \/ n <= issued
  <2>1. \A n \in Shell_Numbers : n \in Numbers /\ (n = Invalid_Handle \/ n <= issued)
    BY ShellNumbers DEF Sound, CoreInv, ApartOK
  <2> QED  BY <1>1, <2>1 DEF Numbers, Invalid_Handle
<1>3. \A p \in DOMAIN prog : /\ prog[p].file \in Numbers /\ prog[p].file # issued'
                             /\ Has_File(prog[p]) => prog[p].file <= issued
  BY <1>1 DEF Has_File, Sound, CoreInv, FilesOK, ProgramsOK, ProgramOK, Invalid_Handle, Numbers
<1>4. ProgramsOK'
  BY DEF Sound, CoreInv, ProgramsOK
<1>5. FilesOK'
  <2> SUFFICES ASSUME NEW p \in DOMAIN prog, Has_File(prog[p])
               PROVE  /\ prog[p].file <= issued'
                      /\ \A q \in DOMAIN prog : q # p => prog[q].file # prog[p].file
                      /\ ~Done(prog[p]) =>
                          /\ Handles'[prog[p].file] \in Objects
                          /\ object'[Handles'[prog[p].file]].kind = File_Kind(prog[p].name)
                      /\ Done(prog[p]) => Handles'[prog[p].file] = NoObject
    BY DEF FilesOK, Reaches
  <2>1. prog[p].file \in Numbers /\ Handles'[prog[p].file] = Handles[prog[p].file]
    BY <1>1, <1>3
  <2>2. Handles[prog[p].file] \in Objects =>
            object'[Handles[prog[p].file]].kind = object[Handles[prog[p].file]].kind
    BY <1>1, <2>1, StillReached, Typing DEF Same_Object
  <2>3. prog[p].file <= issued'
    <3>1. prog[p].file <= issued
      BY <1>3
    <3> QED  BY <1>1, <2>1, <3>1 DEF Numbers
  <2> QED  BY <2>1, <2>2, <2>3 DEF FilesOK, Reaches, Sound, CoreInv
<1> QED  BY <1>1, <1>2, <1>3, <1>4, <1>5

(* The console is opened for the shell.                                    *)
LEMMA BootStep ==
    ASSUME CommandLineAssumption, Sound, issued' < Invalid_Handle, Boot
    PROVE  HandleInv' /\ CoreInv'
<1> DEFINE record == [kind |-> IF shell.std_in = Invalid_Handle THEN "console_in" ELSE "console_out"]
<1>1. UNCHANGED <<hasty, keys, prog>> /\ shell.pc = "boot" /\ Enter(record)
  <2>1. CASE shell.std_in = Invalid_Handle
    BY <2>1 DEF Boot, Shell_At
  <2>2. CASE shell.std_in # Invalid_Handle
    BY <2>2 DEF Boot, Shell_At
  <2> QED  BY <2>1, <2>2
<1>2. /\ ShellTypeOK /\ ProgressOK /\ ConsoleOK
  BY DEF Sound, CoreInv
<1>3. /\ HandleInv' /\ ObjectsOK' /\ ObjectsKept /\ ProgramsOK' /\ FilesOK'
      /\ Last_Handle' = issued' /\ issued' \in Numbers /\ issued \in Nat /\ issued < issued'
      /\ Fresh \in Objects /\ Handles'[issued'] = Fresh /\ object'[Fresh] = record
      /\ \A n \in Shell_Numbers : /\ n \in Numbers /\ n # issued' /\ Handles'[n] = Handles[n]
                                  /\ n = Invalid_Handle \/ n <= issued
      /\ \A p \in DOMAIN prog : prog[p].file # issued'
  <2>1. "kind" \in DOMAIN record /\ record.kind \in Kinds /\ record.kind # "pipe_in"
    BY DEF Kinds
  <2> HIDE DEF record
  <2> QED  BY <1>1, <2>1, ShellOpens
<1> HIDE DEF Fresh
<1>4. shell.line = <<>> /\ Len(prog) = 0 /\ shell.pipes = <<>> /\ shell.todo = <<>>
  BY <1>1, <1>2 DEF ProgressOK, ConsoleOK
<1>5. /\ \A field \in Shell_Fields \ {"pc", "std_in", "std_out"} : shell'[field] = shell[field]
      /\ Shell_Fields \subseteq DOMAIN shell'
      /\ \/ /\ shell.std_in = Invalid_Handle /\ shell'.pc = "boot"
            /\ shell'.std_in = issued' /\ shell'.std_out = shell.std_out
         \/ /\ shell.std_in # Invalid_Handle /\ shell'.pc = "keys"
            /\ shell'.std_in = shell.std_in /\ shell'.std_out = issued'
  <2>1. CASE shell.std_in = Invalid_Handle
    BY <1>1, <1>2, <1>3, <2>1 DEF Boot, ShellTypeOK, Shell_Fields
  <2>2. CASE shell.std_in # Invalid_Handle
    BY <1>1, <1>2, <1>3, <2>2 DEF Boot, ShellTypeOK, Shell_Fields
  <2> QED  BY <2>1, <2>2
<1>6. /\ shell'.line = shell.line /\ shell'.at = shell.at /\ shell'.first = shell.first
      /\ shell'.pipes = shell.pipes /\ shell'.todo = shell.todo
      /\ shell'.tmp_in = shell.tmp_in /\ shell'.tmp_out = shell.tmp_out
      /\ shell'.pc \in {"boot", "keys"}
  BY <1>5 DEF Shell_Fields
<1>7. issued' \in Nat /\ \A m \in Nat : m <= issued => m <= issued'
  BY <1>3 DEF Numbers
<1>8. ShellTypeOK'
  <2>1. shell'.std_in \in Numbers /\ shell'.std_out \in Numbers
    BY <1>2, <1>3, <1>5 DEF ShellTypeOK
  <2>2. shell.mark <= issued'
    BY <1>2, <1>7 DEF ShellTypeOK
  <2> QED  BY <1>1, <1>2, <1>5, <1>6, <2>1, <2>2 DEF ShellTypeOK, Shell_Fields
<1>9. ProgressOK'
  <2>1. shell.first \in Nat \ {0}
    BY <1>2 DEF ShellTypeOK
  <2>2. shell.first..Len(prog) = {}
    BY <1>4, <2>1
  <2> QED  BY <1>1, <1>4, <1>6, <2>2 DEF ProgressOK, In_Line, Started
<1>10. ApartOK'
  <2>1. Shell_Numbers' \subseteq Shell_Numbers \cup {issued'}
    <3> DEFINE T == Shell_Numbers \cup {issued'}
    <3>1. {shell.std_in, shell.std_out, shell.tmp_in, shell.tmp_out} \subseteq T
      BY DEF Shell_Numbers
    <3> HIDE DEF T
    <3>2. issued' \in T
      BY DEF T
    <3>3. /\ {shell'.std_in, shell'.std_out, shell'.tmp_in, shell'.tmp_out} \subseteq T
          /\ \A i \in DOMAIN shell'.pipes : {shell'.pipes[i].in, shell'.pipes[i].out} \subseteq T
          /\ \A i \in DOMAIN shell'.todo : shell'.todo[i] \in T
      BY <1>4, <1>5, <1>6, <3>1, <3>2
    <3>4. Shell_Numbers' \subseteq T
      BY <3>3, NumbersAmong
    <3> QED  BY <3>4 DEF T
  <2>2. ASSUME NEW n \in Shell_Numbers', n # Invalid_Handle
        PROVE  n <= issued' /\ \A p \in DOMAIN prog : prog[p].file # n
    <3>1. CASE n = issued'
      BY <1>3, <1>7, <3>1
    <3>2. CASE n # issued'
      BY <1>3, <1>7, <2>1, <2>2, <3>2 DEF Sound, CoreInv, ApartOK, Numbers
    <3> QED  BY <3>1, <3>2
  <2> QED  BY <1>1, <2>2 DEF ApartOK
<1>11. ConsoleOK'
  <2>1. CASE shell.std_in = Invalid_Handle
    BY <1>3, <1>4, <1>5, <1>6, <2>1 DEF ConsoleOK, Reaches, Started
  <2>2. CASE shell.std_in # Invalid_Handle
    <3>1. Reaches(shell.std_in, "console_in")
      BY <1>1, <1>2, <2>2 DEF ConsoleOK
    <3>2. shell.std_in \in Shell_Numbers
      BY DEF Shell_Numbers
    <3>3. Reaches(shell.std_in, "console_in")'
      <4>1. /\ Handles'[shell.std_in] = Handles[shell.std_in] /\ Handles[shell.std_in] \in Objects
            /\ Same_Object(object[Handles[shell.std_in]], object'[Handles[shell.std_in]])
        BY <1>3, <3>1, <3>2, StillReached, Typing DEF Reaches
      <4> QED  BY <1>5, <2>2, <3>1, <4>1 DEF Reaches, Same_Object
    <3> QED  BY <1>3, <1>4, <1>5, <1>6, <2>2, <3>3 DEF ConsoleOK, Reaches, Started
  <2> QED  BY <2>1, <2>2
<1>12. PipesOK' /\ ReadyOK' /\ WiredOK'
  BY <1>6 DEF PipesOK, ReadyOK, WiredOK, In_Line, Started
<1>13. Owned'
  BY <1>4, <1>6 DEF Owned
<1> QED  BY <1>3, <1>8, <1>9, <1>10, <1>11, <1>12, <1>13 DEF CoreInv

\* The pipes of the line through a step that closes none of their ends.
LEMMA PipesStay ==
    ASSUME Sound, shell.pc \in In_Line \cup Started, ObjectsKept,
           \A n \in Shell_Numbers : Handles'[n] = Handles[n],
           NEW i \in DOMAIN shell.pipes
    PROVE  /\ Handles'[shell.pipes[i].in] \in Objects
           /\ object'[Handles'[shell.pipes[i].in]].kind = "pipe_out"
           /\ Handles'[shell.pipes[i].in] = shell.pipes[i].pipe
           /\ ~(shell.pc = "pipe_in" /\ i = Len(shell.pipes)) =>
               /\ Handles'[shell.pipes[i].out] \in Objects
               /\ object'[Handles'[shell.pipes[i].out]].kind = "pipe_in"
               /\ object'[Handles'[shell.pipes[i].out]].pipe = shell.pipes[i].pipe
<1>1. PipesOK /\ ShellTypeOK
  BY DEF Sound, CoreInv
<1>2. \A n \in {shell.pipes[i].in, shell.pipes[i].out} : n \in Numbers /\ Handles'[n] = Handles[n]
  BY <1>1, ShellNumbers
<1>3. ASSUME NEW n \in {shell.pipes[i].in, shell.pipes[i].out}, Handles[n] \in Objects
      PROVE  Same_Object(object[Handles[n]], object'[Handles[n]])
  BY <1>2, <1>3, StillReached, Typing
<1>4. /\ Handles[shell.pipes[i].in] \in Objects
      /\ object[Handles[shell.pipes[i].in]].kind = "pipe_out"
      /\ Handles[shell.pipes[i].in] = shell.pipes[i].pipe
      /\ ~(shell.pc = "pipe_in" /\ i = Len(shell.pipes)) =>
          /\ Handles[shell.pipes[i].out] \in Objects
          /\ object[Handles[shell.pipes[i].out]].kind = "pipe_in"
          /\ object[Handles[shell.pipes[i].out]].pipe = shell.pipes[i].pipe
  BY <1>1 DEF PipesOK, Reaches
<1> QED  BY <1>2, <1>3, <1>4 DEF Same_Object

\* The console of the shell through such a step.
LEMMA ConsoleStays ==
    ASSUME Sound, shell.pc # "boot", ObjectsKept,
           \A n \in Shell_Numbers : Handles'[n] = Handles[n]
    PROVE  /\ Handles'[shell.std_in] \in Objects
           /\ object'[Handles'[shell.std_in]].kind = "console_in"
           /\ Handles'[shell.std_out] \in Objects
           /\ object'[Handles'[shell.std_out]].kind = "console_out"
<1>1. Reaches(shell.std_in, "console_in") /\ Reaches(shell.std_out, "console_out")
  BY DEF Sound, CoreInv, ConsoleOK
<1>2. \A n \in {shell.std_in, shell.std_out} : n \in Numbers /\ Handles'[n] = Handles[n]
  BY ShellNumbers DEF Shell_Numbers, Sound, CoreInv
<1>3. \A n \in {shell.std_in, shell.std_out} :
        Handles[n] \in Objects => Same_Object(object[Handles[n]], object'[Handles[n]])
  BY <1>2, StillReached, Typing
<1> QED  BY <1>1, <1>2, <1>3 DEF Same_Object, Reaches

(* What a redirection leaves: a number that leads to a file of that name,  *)
(* to a directory on the way to it, or to nothing.                         *)
LEMMA RedirectOpens ==
    ASSUME CommandLineAssumption, Sound, issued' < Invalid_Handle, Redirect
    PROVE  \E n \in Numbers :
            /\ shell' = [shell EXCEPT !.pc = "create",
                            !.tmp_in = IF Command.is_std_in THEN n ELSE shell.tmp_in,
                            !.tmp_out = IF Command.is_std_out THEN n ELSE shell.tmp_out]
            /\ HandleInv' /\ ObjectsOK' /\ ObjectsKept /\ ProgramsOK' /\ FilesOK'
            /\ {issued, issued'} \subseteq Nat /\ issued <= issued'
            /\ \A m \in Shell_Numbers : Handles'[m] = Handles[m]
            /\ n \notin {shell.std_in, shell.std_out}
            /\ n # Invalid_Handle => n <= issued' /\ \A p \in DOMAIN prog : prog[p].file # n
            /\ \/ Handles'[n] = NoObject
               \/ /\ Is_Named(object'[Handles'[n]])
                  /\ Named(Command, object'[Handles'[n]].item)
            /\ \A o \in Objects : held'[o] # Unheld /\ held'[o] # n => held'[o] = held[o]
<1> DEFINE path == Path(Command.filename)
           Wanted(stored) == Opened(shell.wd, path, Command.is_std_in, FALSE, stored)
           Next_Shell(n) == [shell EXCEPT !.pc = "create",
                                !.tmp_in = IF Command.is_std_in THEN n ELSE shell.tmp_in,
                                !.tmp_out = IF Command.is_std_out THEN n ELSE shell.tmp_out]
<1>1. shell.pc = "redirect" /\ prog' = prog
  BY DEF Redirect, Shell_At
<1>2. PICK stored : Take(Wanted(stored)) /\ shell' = Next_Shell(Number(Wanted(stored)))
  BY DEF Redirect
<1>3. Command \in Commands
  BY <1>1, InLine DEF In_Line
<1>4. shell.wd.path \in Seq(Symbol) /\ path.names \in Seq(Symbol) /\ Command.is_std_in \in BOOLEAN
  BY <1>3, PathTyped DEF Commands, Sound, CoreInv, ShellTypeOK
<1> DEFINE h == Wanted(stored).handle
<1>5. h # Absent =>
        /\ "kind" \in DOMAIN h /\ h.kind = "file" /\ Is_Named(h)
        /\ h.item.name \in
            IF Command.is_std_in /\ path.names # <<>> /\ Last(path.names) # ".."
            THEN {Last(path.names)}
            ELSE {NoName} \cup ToSet(shell.wd.path) \cup ToSet(path.names)
  <2> HIDE DEF path
  <2> QED  BY <1>4, OpenedNamed
<1>6. h # Absent => Named(Command, h.item)
  <2> HIDE DEF h
  <2> QED  BY <1>5 DEF Named
<1>8. CASE h = Absent
  <2>1. UNCHANGED <<object, table_vars>> /\ shell' = Next_Shell(Invalid_Handle)
    BY <1>2, <1>8 DEF Take, Number
  <2> HIDE DEF Wanted, Next_Shell, path
  <2>2. /\ HandleInv' /\ ObjectsOK' /\ ProgramsOK' /\ FilesOK' /\ ObjectsKept
        /\ Handles' = Handles /\ held' = held /\ issued' = issued
    BY <1>1, <2>1, QuietShell, Typing, SameObjects
  <2>3. Invalid_Handle \in Numbers /\ Handles[Invalid_Handle] = NoObject
    BY Typing
  <2>4. Invalid_Handle \notin {shell.std_in, shell.std_out}
    <3>1. Reaches(shell.std_in, "console_in") /\ Reaches(shell.std_out, "console_out")
      BY <1>1 DEF Sound, CoreInv, ConsoleOK
    <3> QED  BY <2>3, <3>1 DEF Reaches
  <2>5. issued \in Nat
    BY DEF Sound, HandleInv, HandleTypeOK
  <2> DEFINE n == Invalid_Handle
  <2>6. /\ shell' = [shell EXCEPT !.pc = "create",
                        !.tmp_in = IF Command.is_std_in THEN n ELSE shell.tmp_in,
                        !.tmp_out = IF Command.is_std_out THEN n ELSE shell.tmp_out]
    BY <2>1 DEF Next_Shell
  <2>7. /\ n \in Numbers /\ n \notin {shell.std_in, shell.std_out} /\ n = Invalid_Handle
        /\ Handles'[n] = NoObject /\ issued' = issued /\ issued \in Nat /\ issued <= issued
        /\ Handles' = Handles /\ held' = held
    BY <2>2, <2>3, <2>4, <2>5
  <2> HIDE DEF n
  <2> QED  BY <2>2, <2>6, <2>7
<1>9. CASE h # Absent
  <2>1. Enter(h) /\ shell' = Next_Shell(Last_Handle')
    BY <1>2, <1>9 DEF Take, Number
  <2> HIDE DEF h, Next_Shell, path
  <2>2. h.kind \in Kinds /\ h.kind # "pipe_in" /\ "kind" \in DOMAIN h
    BY <1>5, <1>9 DEF Kinds
  <2>3. /\ HandleInv' /\ ObjectsOK' /\ ObjectsKept /\ ProgramsOK' /\ FilesOK'
        /\ Last_Handle' = issued' /\ issued' \in Numbers /\ issued \in Nat /\ issued < issued'
        /\ Fresh \in Objects /\ Handles'[issued'] = Fresh /\ object'[Fresh] = h
        /\ \A n \in Shell_Numbers : n \in Numbers /\ n # issued' /\ Handles'[n] = Handles[n]
        /\ \A o \in Objects : held'[o] # Unheld /\ held'[o] # issued' => held'[o] = held[o]
        /\ \A p \in DOMAIN prog : prog[p].file # issued'
    BY <1>1, <2>1, <2>2, ShellOpens
  <2> HIDE DEF Fresh
  <2>4. {shell.std_in, shell.std_out} \subseteq Shell_Numbers
    BY DEF Shell_Numbers
  <2>5. issued' \in Nat /\ issued <= issued' /\ issued' <= issued'
    BY <2>3 DEF Numbers
  <2>6. Is_Named(object'[Handles'[issued']]) /\ Named(Command, object'[Handles'[issued']].item)
    BY <1>5, <1>6, <1>9, <2>3
  <2>7. shell' = [shell EXCEPT !.pc = "create",
                        !.tmp_in = IF Command.is_std_in THEN issued' ELSE shell.tmp_in,
                        !.tmp_out = IF Command.is_std_out THEN issued' ELSE shell.tmp_out]
    BY <2>1, <2>3 DEF Next_Shell
  <2> QED  BY <2>3, <2>4, <2>5, <2>6, <2>7
<1> QED  BY <1>8, <1>9

(* The output or the input of the last command is opened.                  *)
LEMMA RedirectStep ==
    ASSUME CommandLineAssumption, Sound, issued' < Invalid_Handle, Redirect
    PROVE  HandleInv' /\ CoreInv'
<1>1. UNCHANGED <<keys, prog, hasty>> /\ shell.pc = "redirect"
  BY DEF Redirect, Shell_At
<1>2. ShellTypeOK /\ ProgressOK /\ ApartOK /\ ConsoleOK /\ ReadyOK /\ WiredOK /\ Owned
  BY DEF Sound, CoreInv
<1>3. /\ Command \in Commands
      /\ shell.at \in Nat \ {0} /\ Len(shell.line) \in Nat /\ shell.at <= Len(shell.line)
      /\ shell.at < Len(shell.line) => Command.is_pipe
      /\ Command.is_pipe => ~Command.is_std_in /\ ~Command.is_std_out
      /\ \A i \in 1..shell.at - 1 : /\ shell.line[i].is_pipe
                                    /\ ~shell.line[i].is_std_in /\ ~shell.line[i].is_std_out
      /\ shell.at = Len(shell.line) => Last(shell.line) = Command
  BY <1>1, InLine DEF In_Line
<1>4. /\ Command.is_std_in \/ Command.is_std_out
      /\ ~Command.is_pipe /\ shell.at = Len(shell.line) /\ Last(shell.line) = Command
      /\ Command.base \in Programs
  <2>1. Command.is_std_in \/ Command.is_std_out
    BY <1>1, <1>2 DEF ProgressOK
  <2>2. ~Command.is_pipe
    BY <1>3, <2>1
  <2>3. shell.at = Len(shell.line)
    BY <1>3, <2>2
  <2>4. Command.base \in Programs
    BY <1>1, <1>2 DEF ProgressOK, In_Line
  <2> QED  BY <1>3, <2>1, <2>2, <2>3, <2>4
<1>5. PICK n \in Numbers :
        /\ shell' = [shell EXCEPT !.pc = "create",
                        !.tmp_in = IF Command.is_std_in THEN n ELSE shell.tmp_in,
                        !.tmp_out = IF Command.is_std_out THEN n ELSE shell.tmp_out]
        /\ HandleInv' /\ ObjectsOK' /\ ObjectsKept /\ ProgramsOK' /\ FilesOK'
        /\ {issued, issued'} \subseteq Nat /\ issued <= issued'
        /\ \A m \in Shell_Numbers : Handles'[m] = Handles[m]
        /\ n \notin {shell.std_in, shell.std_out}
        /\ n # Invalid_Handle => n <= issued' /\ \A p \in DOMAIN prog : prog[p].file # n
        /\ \/ Handles'[n] = NoObject
           \/ /\ Is_Named(object'[Handles'[n]])
              /\ Named(Command, object'[Handles'[n]].item)
        /\ \A o \in Objects : held'[o] # Unheld /\ held'[o] # n => held'[o] = held[o]
  BY RedirectOpens
<1>6. /\ \A field \in Shell_Fields \ {"pc", "tmp_in", "tmp_out"} : shell'[field] = shell[field]
      /\ Shell_Fields \subseteq DOMAIN shell'
      /\ shell'.pc = "create"
      /\ shell'.tmp_in = IF Command.is_std_in THEN n ELSE shell.std_in
      /\ shell'.tmp_out = IF Command.is_std_out THEN n ELSE shell.std_out
  <2>1. shell.tmp_in = shell.std_in /\ shell.tmp_out = shell.std_out
    BY <1>1, <1>2 DEF ReadyOK
  <2> QED  BY <1>2, <1>5, <2>1 DEF ShellTypeOK, Shell_Fields
<1>7. /\ shell'.std_in = shell.std_in /\ shell'.std_out = shell.std_out /\ shell'.line = shell.line
      /\ shell'.at = shell.at /\ shell'.pipes = shell.pipes /\ shell'.todo = shell.todo
      /\ shell'.first = shell.first /\ shell'.mark = shell.mark /\ shell'.handles = shell.handles
      /\ shell'.wd = shell.wd /\ Command' = Command
  BY <1>6 DEF Shell_Fields, Command
<1>8. ShellTypeOK'
  <2>1. shell.mark <= issued'
    BY <1>2, <1>5 DEF ShellTypeOK
  <2>2. shell'.tmp_in \in Numbers /\ shell'.tmp_out \in Numbers
    BY <1>2, <1>6 DEF ShellTypeOK
  <2> QED  BY <1>1, <1>2, <1>6, <2>1, <2>2 DEF ShellTypeOK, Shell_Fields, In_Line
<1>9. ProgressOK'
  BY <1>1, <1>2, <1>4, <1>6, <1>7 DEF ProgressOK, In_Line, Started
<1>10. ApartOK'
  <2>1. Shell_Numbers' \subseteq Shell_Numbers \cup {n}
    <3> DEFINE T == Shell_Numbers \cup {n}
    <3>1. /\ {shell.std_in, shell.std_out} \subseteq T /\ n \in T
          /\ \A i \in DOMAIN shell.pipes : {shell.pipes[i].in, shell.pipes[i].out} \subseteq T
          /\ \A i \in DOMAIN shell.todo : shell.todo[i] \in T
      BY <1>2, ShellNumbers DEF Shell_Numbers
    <3> HIDE DEF T
    <3>2. Shell_Numbers' \subseteq T
      BY <1>6, <1>7, <3>1, NumbersAmong
    <3> QED  BY <3>2 DEF T
  <2>2. ASSUME NEW m \in Shell_Numbers', m # Invalid_Handle
        PROVE  m <= issued' /\ \A p \in DOMAIN prog : prog[p].file # m
    <3>1. CASE m = n
      BY <1>5, <2>2, <3>1
    <3>2. CASE m # n
      <4>1. m \in Shell_Numbers /\ m \in Numbers
        BY <1>2, <2>1, <3>2, ShellNumbers
      <4>2. m <= issued /\ \A p \in DOMAIN prog : prog[p].file # m
        BY <1>2, <2>2, <4>1 DEF ApartOK
      <4> QED  BY <1>5, <4>1, <4>2 DEF Numbers
    <3> QED  BY <3>1, <3>2
  <2> QED  BY <1>1, <2>2 DEF ApartOK
<1>11. ConsoleOK'
  BY <1>1, <1>2, <1>5, <1>6, <1>7, ConsoleStays DEF ConsoleOK, Reaches, Started
<1>12. PipesOK'
  <2>1. shell.pc \in In_Line \cup Started /\ shell'.pc # "pipe_in" /\ shell.pc # "pipe_in"
    BY <1>1, <1>6 DEF In_Line
  <2>2. \A i \in DOMAIN shell.pipes :
          /\ Handles'[shell.pipes[i].in] \in Objects
          /\ object'[Handles'[shell.pipes[i].in]].kind = "pipe_out"
          /\ Handles'[shell.pipes[i].in] = shell.pipes[i].pipe
          /\ Handles'[shell.pipes[i].out] \in Objects
          /\ object'[Handles'[shell.pipes[i].out]].kind = "pipe_in"
          /\ object'[Handles'[shell.pipes[i].out]].pipe = shell.pipes[i].pipe
    BY <1>5, <2>1, PipesStay
  <2> QED  BY <1>7, <2>1, <2>2 DEF PipesOK, Reaches
<1>13. ReadyOK'
  <2>1. PICK c : /\ c = Command
                 /\ n \notin {shell.std_in, shell.std_out}
                 /\ \/ Handles'[n] = NoObject
                    \/ Is_Named(object'[Handles'[n]]) /\ Named(c, object'[Handles'[n]].item)
    BY <1>5
  <2>2. Redirected(n, c)'
    BY <1>7, <2>1 DEF Redirected, Kind, Named, Is_Named
  <2>3. Command' = c /\ ~c.is_pipe
    BY <1>4, <1>7, <2>1
  <2>4. shell'.tmp_in = (IF c.is_std_in THEN n ELSE shell.std_in)
        /\ shell'.tmp_out = (IF c.is_std_out THEN n ELSE shell.std_out)
    BY <1>6, <2>1
  <2> QED  BY <1>6, <1>7, <2>2, <2>3, <2>4 DEF ReadyOK, Redirected
<1>14. WiredOK'
  <2> SUFFICES ASSUME NEW i \in 1..shell.at - 1  PROVE Wired(i)'
    BY <1>7 DEF WiredOK
  <2>1. Wired(i)
    BY <1>1, <1>2 DEF WiredOK, In_Line
  <2> QED  BY <1>1, <1>3, <1>7, <2>1, WiredKept
<1>15. Owned'
  <2>1. Pipe_Numbers' = Pipe_Numbers
    BY <1>7 DEF Pipe_Numbers
  <2>2. To_Close = Pipe_Numbers
    BY <1>1 DEF To_Close, In_Line, Started
  <2>3. To_Close \cup {n} \subseteq To_Close'
    BY <1>3, <1>4, <1>6, <1>7, <2>1, <2>2 DEF To_Close, In_Line, Started
  <2> HIDE DEF To_Close
  <2>4. shell.line = shell'.line /\ shell'.mark = shell.mark
        /\ shell.pc \in In_Line /\ shell'.pc \in In_Line
    BY <1>1, <1>6, <1>7 DEF In_Line
  <2> SUFFICES ASSUME shell.line # <<>>, ~(Len(shell.line) > 1 /\ Last(shell.line).is_std_in),
                      NEW o \in Objects, held'[o] # Unheld, held'[o] > shell.mark
               PROVE  held'[o] \in To_Close' \cup {prog[p].file : p \in DOMAIN prog}
    BY <1>1, <2>4 DEF Owned
  <2>5. CASE held'[o] = n
    BY <2>3, <2>5
  <2>6. CASE held'[o] # n
    <3>1. held'[o] = held[o]
      BY <1>5, <2>6
    <3>2. held[o] \in To_Close \cup {prog[p].file : p \in DOMAIN prog}
      BY <1>2, <2>4, <3>1 DEF Owned
    <3> QED  BY <2>3, <3>1, <3>2
  <2> QED  BY <2>5, <2>6
<1> QED  BY <1>5, <1>8, <1>9, <1>10, <1>11, <1>12, <1>13, <1>14, <1>15 DEF CoreInv

(* The read end of a pipe is opened.                                       *)
LEMMA PipeStep ==
    ASSUME CommandLineAssumption, Sound, issued' < Invalid_Handle, Shell_At("pipe"), Create_Pipe
    PROVE  HandleInv' /\ CoreInv'
<1> DEFINE record == [kind |-> "pipe_out", data |-> <<>>, done |-> FALSE, shut |-> FALSE]
           end == [in |-> Last_Handle', out |-> Invalid_Handle, pipe |-> Fresh]
           k == Len(shell.pipes) + 1
<1>1. /\ UNCHANGED <<keys, prog, hasty>> /\ shell.pc = "pipe" /\ Enter(record)
      /\ shell' = [shell EXCEPT !.pc = "pipe_in", !.pipes = Append(shell.pipes, end)]
  BY DEF Create_Pipe, Shell_At
<1>2. /\ ShellTypeOK /\ ProgressOK /\ ApartOK /\ ConsoleOK /\ ReadyOK /\ WiredOK /\ Owned
      /\ Invalid_Handle \in Numbers /\ Handles[Invalid_Handle] = NoObject
  BY Typing DEF Sound, CoreInv
<1>3. /\ HandleInv' /\ ObjectsOK' /\ ObjectsKept /\ ProgramsOK' /\ FilesOK'
      /\ Last_Handle' = issued' /\ issued' \in Numbers /\ issued \in Nat /\ issued < issued'
      /\ Fresh \in Objects /\ Handles'[issued'] = Fresh /\ object'[Fresh] = record
      /\ \A n \in Shell_Numbers : /\ n \in Numbers /\ n # issued' /\ Handles'[n] = Handles[n]
                                  /\ n = Invalid_Handle \/ n <= issued
      /\ \A o \in Objects : held'[o] # Unheld /\ held'[o] # issued' => held'[o] = held[o]
      /\ \A p \in DOMAIN prog : prog[p].file # issued'
  <2>1. "kind" \in DOMAIN record /\ record.kind \in Kinds /\ record.kind # "pipe_in"
    BY DEF Kinds
  <2> HIDE DEF record
  <2> QED  BY <1>1, <2>1, ShellOpens
<1>4. issued' \in Nat /\ \A m \in Nat : m <= issued => m <= issued'
  BY <1>3 DEF Numbers
<1>5. end \in Ends /\ end.in = issued' /\ end.out = Invalid_Handle /\ end.pipe = Fresh
  BY <1>2, <1>3 DEF Ends
<1>6. object'[Fresh].kind = "pipe_out"
  BY <1>3
<1> HIDE DEF Fresh, record, end
<1>7. /\ Len(shell.pipes) \in Nat /\ DOMAIN shell.pipes = 1..Len(shell.pipes)
      /\ Append(shell.pipes, end) \in Seq(Ends) /\ Len(Append(shell.pipes, end)) = k
      /\ Append(shell.pipes, end) = [i \in 1..k |-> IF i = k THEN end ELSE shell.pipes[i]]
  <2>1. shell.pipes \in Seq(Ends)
    BY <1>2 DEF ShellTypeOK
  <2> QED  BY <1>5, <2>1, Appended, AppendProperties
<1>8. /\ \A field \in Shell_Fields \ {"pc", "pipes"} : shell'[field] = shell[field]
      /\ Shell_Fields \subseteq DOMAIN shell'
      /\ shell'.pc = "pipe_in" /\ shell'.pipes = Append(shell.pipes, end)
  BY <1>1, <1>2 DEF ShellTypeOK, Shell_Fields
<1>9. /\ DOMAIN shell'.pipes = 1..k /\ Len(shell'.pipes) = k /\ k \in Nat \ {0}
      /\ shell'.pipes \in Seq(Ends) /\ shell'.pipes[k] = end
      /\ \A i \in 1..k : i # k => i \in DOMAIN shell.pipes /\ shell'.pipes[i] = shell.pipes[i]
      /\ \A i \in DOMAIN shell.pipes : i \in 1..k /\ i # k
  BY <1>7, <1>8
<1>10. /\ shell'.std_in = shell.std_in /\ shell'.std_out = shell.std_out /\ shell'.line = shell.line
       /\ shell'.at = shell.at /\ shell'.todo = shell.todo
       /\ shell'.tmp_in = shell.tmp_in /\ shell'.tmp_out = shell.tmp_out
       /\ shell'.first = shell.first /\ shell'.mark = shell.mark /\ shell'.handles = shell.handles
       /\ Command' = Command
  BY <1>8 DEF Shell_Fields, Command
<1>11. /\ Command \in Commands /\ Command.is_pipe
       /\ shell.at \in Nat \ {0} /\ k = shell.at /\ shell.at <= Len(shell.line)
       /\ \A i \in 1..shell.at - 1 : /\ shell.line[i].is_pipe
                                     /\ ~shell.line[i].is_std_in /\ ~shell.line[i].is_std_out
  <2>1. /\ Command \in Commands /\ shell.at \in Nat \ {0} /\ shell.at <= Len(shell.line)
        /\ \A i \in 1..shell.at - 1 : /\ shell.line[i].is_pipe
                                      /\ ~shell.line[i].is_std_in /\ ~shell.line[i].is_std_out
    BY <1>1, InLine DEF In_Line
  <2>2. Command.is_pipe /\ Len(shell.pipes) = shell.at - 1
    BY <1>1, <1>2 DEF ProgressOK
  <2>3. k = shell.at
    BY <2>1, <2>2
  <2> QED  BY <2>1, <2>2, <2>3
<1> HIDE DEF k
<1>12. ShellTypeOK'
  <2>1. shell.mark <= issued'
    BY <1>2, <1>4 DEF ShellTypeOK
  <2> QED  BY <1>1, <1>2, <1>8, <1>9, <2>1 DEF ShellTypeOK, Shell_Fields, In_Line
<1>13. ProgressOK'
  BY <1>1, <1>2, <1>8, <1>9, <1>10, <1>11 DEF ProgressOK, In_Line, Started
<1>14. {shell.std_in, shell.std_out} \subseteq Shell_Numbers
  BY DEF Shell_Numbers
<1>15. ApartOK'
  <2>1. Shell_Numbers' \subseteq Shell_Numbers \cup {issued', Invalid_Handle}
    <3> DEFINE T == Shell_Numbers \cup {issued', Invalid_Handle}
    <3>1. /\ {shell.std_in, shell.std_out, shell.tmp_in, shell.tmp_out} \subseteq T
          /\ issued' \in T /\ Invalid_Handle \in T
          /\ \A i \in DOMAIN shell.pipes : {shell.pipes[i].in, shell.pipes[i].out} \subseteq T
          /\ \A i \in DOMAIN shell.todo : shell.todo[i] \in T
      BY <1>2, ShellNumbers DEF Shell_Numbers
    <3> HIDE DEF T
    <3>2. \A i \in DOMAIN shell'.pipes : {shell'.pipes[i].in, shell'.pipes[i].out} \subseteq T
      BY <1>5, <1>9, <3>1
    <3>3. Shell_Numbers' \subseteq T
      BY <1>10, <3>1, <3>2, NumbersAmong
    <3> QED  BY <3>3 DEF T
  <2>2. ASSUME NEW m \in Shell_Numbers', m # Invalid_Handle
        PROVE  m <= issued' /\ \A p \in DOMAIN prog : prog[p].file # m
    <3>1. CASE m = issued'
      BY <1>3, <1>4, <3>1
    <3>2. CASE m # issued'
      BY <1>2, <1>3, <1>4, <2>1, <2>2, <3>2 DEF ApartOK, Numbers
    <3> QED  BY <3>1, <3>2
  <2> QED  BY <1>1, <2>2 DEF ApartOK
<1>16. ConsoleOK'
  <2>1. Invalid_Handle \notin {shell.std_in, shell.std_out}
    BY <1>1, <1>2 DEF ConsoleOK, Reaches
  <2>2. issued' \notin {shell.std_in, shell.std_out}
    BY <1>3, <1>14
  <2>3. \A i \in 1..k : /\ shell'.pipes[i].in \notin {shell.std_in, shell.std_out}
                        /\ shell'.pipes[i].out \notin {shell.std_in, shell.std_out}
    BY <1>2, <1>5, <1>9, <2>1, <2>2 DEF ConsoleOK
  <2> QED  BY <1>1, <1>2, <1>3, <1>8, <1>9, <1>10, <2>3, ConsoleStays DEF ConsoleOK, Reaches, Started
<1>17. PipesOK'
  <2> SUFFICES ASSUME NEW i \in 1..k
               PROVE  /\ Handles'[shell'.pipes[i].in] \in Objects
                      /\ object'[Handles'[shell'.pipes[i].in]].kind = "pipe_out"
                      /\ Handles'[shell'.pipes[i].in] = shell'.pipes[i].pipe
                      /\ i # k =>
                          /\ Handles'[shell'.pipes[i].out] \in Objects
                          /\ object'[Handles'[shell'.pipes[i].out]].kind = "pipe_in"
                          /\ object'[Handles'[shell'.pipes[i].out]].pipe = shell'.pipes[i].pipe
    BY <1>8, <1>9 DEF PipesOK, Reaches
  <2>1. CASE i = k
    BY <1>3, <1>5, <1>6, <1>9, <2>1
  <2>2. CASE i # k
    <3>1. shell.pc \in In_Line \cup Started /\ shell.pc # "pipe_in"
      BY <1>1 DEF In_Line
    <3>2. i \in DOMAIN shell.pipes /\ shell'.pipes[i] = shell.pipes[i]
      BY <1>9, <2>2
    <3>3. \A n \in Shell_Numbers : Handles'[n] = Handles[n]
      BY <1>3
    <3>4. /\ Handles'[shell.pipes[i].in] \in Objects
          /\ object'[Handles'[shell.pipes[i].in]].kind = "pipe_out"
          /\ Handles'[shell.pipes[i].in] = shell.pipes[i].pipe
          /\ Handles'[shell.pipes[i].out] \in Objects
          /\ object'[Handles'[shell.pipes[i].out]].kind = "pipe_in"
          /\ object'[Handles'[shell.pipes[i].out]].pipe = shell.pipes[i].pipe
      BY <1>3, <3>1, <3>2, <3>3, PipesStay
    <3> QED  BY <3>2, <3>4
  <2> QED  BY <2>1, <2>2
<1>18. ReadyOK'
  BY <1>1, <1>2, <1>5, <1>8, <1>9, <1>10, <1>11 DEF ReadyOK
<1>19. WiredOK'
  <2> SUFFICES ASSUME NEW i \in 1..shell.at - 1  PROVE Wired(i)'
    BY <1>10 DEF WiredOK
  <2>1. Wired(i)
    BY <1>1, <1>2 DEF WiredOK, In_Line
  <2>2. shell'.pipes[i] = shell.pipes[i] /\ (i > 1 => shell'.pipes[i - 1] = shell.pipes[i - 1])
    <3>1. i \in 1..k /\ i # k /\ (i > 1 => i - 1 \in 1..k /\ i - 1 # k)
      BY <1>11
    <3> QED  BY <1>9, <3>1
  <2> QED  BY <1>1, <1>10, <1>11, <2>1, <2>2, WiredKept
<1>20. Owned'
  <2>1. To_Close = Pipe_Numbers /\ To_Close' = Pipe_Numbers'
    BY <1>1, <1>8 DEF To_Close, In_Line, Started
  <2>2. Pipe_Numbers \cup {issued'} \subseteq Pipe_Numbers'
    <3>1. \A i \in DOMAIN shell.pipes : i \in DOMAIN shell'.pipes /\ shell'.pipes[i] = shell.pipes[i]
      BY <1>9
    <3>2. k \in DOMAIN shell'.pipes /\ shell'.pipes[k].in = issued'
      BY <1>5, <1>9
    <3> QED  BY <3>1, <3>2 DEF Pipe_Numbers
  <2> SUFFICES ASSUME shell.line # <<>>, ~(Len(shell.line) > 1 /\ Last(shell.line).is_std_in),
                      NEW o \in Objects, held'[o] # Unheld, held'[o] > shell.mark
               PROVE  held'[o] \in Pipe_Numbers' \cup {prog[p].file : p \in DOMAIN prog}
    BY <1>1, <1>10, <2>1 DEF Owned
  <2>3. CASE held'[o] = issued'
    BY <2>2, <2>3
  <2>4. CASE held'[o] # issued'
    <3>1. held'[o] = held[o]
      BY <1>3, <2>4
    <3>2. held[o] \in Pipe_Numbers \cup {prog[p].file : p \in DOMAIN prog}
      BY <1>1, <1>2, <2>1, <3>1 DEF Owned, In_Line
    <3> QED  BY <2>2, <3>1, <3>2
  <2> QED  BY <2>3, <2>4
<1> QED  BY <1>3, <1>12, <1>13, <1>15, <1>16, <1>17, <1>18, <1>19, <1>20 DEF CoreInv

(* The write end of the pipe is opened.                                    *)
LEMMA PipeInStep ==
    ASSUME CommandLineAssumption, Sound, issued' < Invalid_Handle, Shell_At("pipe_in"), Create_Pipe
    PROVE  HandleInv' /\ CoreInv'
<1> DEFINE k == Len(shell.pipes)
           record == [kind |-> "pipe_in", pipe |-> Last(shell.pipes).pipe]
           end == [shell.pipes[k] EXCEPT !.out = issued']
<1>1. /\ UNCHANGED <<keys, prog, hasty>> /\ shell.pc = "pipe_in" /\ Enter(record)
      /\ shell' = [shell EXCEPT !.pc = "create", !.tmp_out = Last_Handle',
                                !.pipes[k].out = Last_Handle']
  BY DEF Create_Pipe, Shell_At
<1>2. /\ ShellTypeOK /\ ProgressOK /\ ApartOK /\ ConsoleOK /\ PipesOK /\ ReadyOK /\ WiredOK /\ Owned
      /\ Invalid_Handle \in Numbers /\ Handles[Invalid_Handle] = NoObject
      /\ HandleInv
  BY Typing DEF Sound, CoreInv
<1>3. /\ HandleInv' /\ ObjectsOK' /\ ObjectsKept /\ ProgramsOK' /\ FilesOK'
      /\ Last_Handle' = issued' /\ issued' \in Numbers /\ issued \in Nat /\ issued < issued'
      /\ Fresh \in Objects /\ Handles'[issued'] = Fresh /\ object'[Fresh] = record
      /\ \A n \in Shell_Numbers : /\ n \in Numbers /\ n # issued' /\ Handles'[n] = Handles[n]
                                  /\ n = Invalid_Handle \/ n <= issued
      /\ \A o \in Objects : held'[o] # Unheld /\ held'[o] # issued' => held'[o] = held[o]
      /\ \A p \in DOMAIN prog : prog[p].file # issued'
  <2>1. "kind" \in DOMAIN record /\ record.kind \in Kinds /\ "pipe" \in DOMAIN record
    BY DEF Kinds
  <2> HIDE DEF record
  <2> QED  BY <1>1, <2>1, ShellOpens
<1>4. issued' \in Nat /\ \A m \in Nat : m <= issued => m <= issued'
  BY <1>3 DEF Numbers
<1>5. /\ Command \in Commands /\ Command.is_pipe /\ ~Command.is_std_in /\ ~Command.is_std_out
      /\ shell.at \in Nat \ {0} /\ k = shell.at /\ shell.at <= Len(shell.line)
      /\ \A i \in 1..shell.at - 1 : /\ shell.line[i].is_pipe
                                    /\ ~shell.line[i].is_std_in /\ ~shell.line[i].is_std_out
      /\ Command.base \in Programs
  <2>1. /\ Command \in Commands /\ shell.at \in Nat \ {0} /\ shell.at <= Len(shell.line)
        /\ \A i \in 1..shell.at - 1 : /\ shell.line[i].is_pipe
                                      /\ ~shell.line[i].is_std_in /\ ~shell.line[i].is_std_out
        /\ Command.is_pipe => ~Command.is_std_in /\ ~Command.is_std_out
    BY <1>1, InLine DEF In_Line
  <2>2. Command.is_pipe /\ k = shell.at /\ Command.base \in Programs
    BY <1>1, <1>2 DEF ProgressOK, In_Line
  <2> QED  BY <2>1, <2>2
<1>6. /\ shell.pipes \in Seq(Ends) /\ k \in Nat \ {0} /\ DOMAIN shell.pipes = 1..k
      /\ k \in DOMAIN shell.pipes /\ shell.pipes[k] \in Ends
      /\ shell.pipes[k].out = Invalid_Handle
  BY <1>1, <1>2, <1>5 DEF ShellTypeOK, ReadyOK
<1>7. /\ end \in Ends /\ end.in = shell.pipes[k].in /\ end.pipe = shell.pipes[k].pipe
      /\ end.out = issued'
  BY <1>3, <1>6 DEF Ends
<1>8. object'[Fresh].kind = "pipe_in" /\ object'[Fresh].pipe = shell.pipes[k].pipe
  BY <1>3 DEF Last
<1> HIDE DEF Fresh, record
<1>9. /\ \A field \in Shell_Fields \ {"pc", "pipes", "tmp_out"} : shell'[field] = shell[field]
      /\ Shell_Fields \subseteq DOMAIN shell'
      /\ shell'.pc = "create" /\ shell'.tmp_out = issued'
      /\ shell'.pipes = [shell.pipes EXCEPT ![k] = end]
  <2> HIDE DEF k
  <2> QED  BY <1>1, <1>2, <1>3 DEF ShellTypeOK, Shell_Fields
<1> HIDE DEF end
<1>10. /\ DOMAIN shell'.pipes = 1..k /\ Len(shell'.pipes) = k
       /\ shell'.pipes \in Seq(Ends) /\ shell'.pipes[k] = end
       /\ \A i \in 1..k : i # k => shell'.pipes[i] = shell.pipes[i]
  <2>1. shell'.pipes \in Seq(Ends)
    BY <1>6, <1>7, <1>9
  <2>2. DOMAIN shell'.pipes = 1..k /\ Len(shell'.pipes) = k
    BY <1>6, <1>9
  <2>3. shell'.pipes[k] = end /\ \A i \in 1..k : i # k => shell'.pipes[i] = shell.pipes[i]
    BY <1>6, <1>9
  <2> QED  BY <2>1, <2>2, <2>3
<1> HIDE DEF k
<1>11. /\ shell'.std_in = shell.std_in /\ shell'.std_out = shell.std_out /\ shell'.line = shell.line
       /\ shell'.at = shell.at /\ shell'.todo = shell.todo /\ shell'.tmp_in = shell.tmp_in
       /\ shell'.first = shell.first /\ shell'.mark = shell.mark /\ shell'.handles = shell.handles
       /\ Command' = Command
  BY <1>9 DEF Shell_Fields, Command
<1>12. ShellTypeOK'
  <2>1. shell.mark <= issued'
    BY <1>2, <1>4 DEF ShellTypeOK
  <2> QED  BY <1>1, <1>2, <1>3, <1>9, <1>10, <2>1 DEF ShellTypeOK, Shell_Fields, In_Line
<1>13. ProgressOK'
  BY <1>1, <1>2, <1>5, <1>9, <1>10, <1>11 DEF ProgressOK, In_Line, Started
<1>14. {shell.std_in, shell.std_out} \subseteq Shell_Numbers
  BY DEF Shell_Numbers
<1>15. ApartOK'
  <2>1. Shell_Numbers' \subseteq Shell_Numbers \cup {issued'}
    <3> DEFINE T == Shell_Numbers \cup {issued'}
    <3>1. /\ {shell.std_in, shell.std_out, shell.tmp_in} \subseteq T /\ issued' \in T
          /\ \A i \in DOMAIN shell.pipes : {shell.pipes[i].in, shell.pipes[i].out} \subseteq T
          /\ \A i \in DOMAIN shell.todo : shell.todo[i] \in T
      BY <1>2, ShellNumbers DEF Shell_Numbers
    <3> HIDE DEF T
    <3>2. \A i \in DOMAIN shell'.pipes : {shell'.pipes[i].in, shell'.pipes[i].out} \subseteq T
      BY <1>6, <1>7, <1>10, <3>1
    <3>3. Shell_Numbers' \subseteq T
      BY <1>9, <1>11, <3>1, <3>2, NumbersAmong
    <3> QED  BY <3>3 DEF T
  <2>2. ASSUME NEW m \in Shell_Numbers', m # Invalid_Handle
        PROVE  m <= issued' /\ \A p \in DOMAIN prog : prog[p].file # m
    <3>1. CASE m = issued'
      BY <1>3, <1>4, <3>1
    <3>2. CASE m # issued'
      BY <1>2, <1>3, <1>4, <2>1, <2>2, <3>2 DEF ApartOK, Numbers
    <3> QED  BY <3>1, <3>2
  <2> QED  BY <1>1, <2>2 DEF ApartOK
<1>16. ConsoleOK'
  <2>1. issued' \notin {shell.std_in, shell.std_out}
    BY <1>3, <1>14
  <2>2. \A i \in 1..k : /\ shell'.pipes[i].in \notin {shell.std_in, shell.std_out}
                        /\ shell'.pipes[i].out \notin {shell.std_in, shell.std_out}
    BY <1>2, <1>6, <1>7, <1>10, <2>1 DEF ConsoleOK
  <2> QED  BY <1>1, <1>2, <1>3, <1>9, <1>10, <1>11, <2>2, ConsoleStays DEF ConsoleOK, Reaches, Started
<1>17. PipesOK'
  <2> SUFFICES ASSUME NEW i \in 1..k
               PROVE  /\ Handles'[shell'.pipes[i].in] \in Objects
                      /\ object'[Handles'[shell'.pipes[i].in]].kind = "pipe_out"
                      /\ Handles'[shell'.pipes[i].in] = shell'.pipes[i].pipe
                      /\ Handles'[shell'.pipes[i].out] \in Objects
                      /\ object'[Handles'[shell'.pipes[i].out]].kind = "pipe_in"
                      /\ object'[Handles'[shell'.pipes[i].out]].pipe = shell'.pipes[i].pipe
    BY <1>9, <1>10 DEF PipesOK, Reaches
  <2>1. /\ shell.pc \in In_Line \cup Started /\ i \in DOMAIN shell.pipes
        /\ \A n \in Shell_Numbers : Handles'[n] = Handles[n]
    BY <1>1, <1>3, <1>6 DEF In_Line
  <2>2. /\ Handles'[shell.pipes[i].in] \in Objects
        /\ object'[Handles'[shell.pipes[i].in]].kind = "pipe_out"
        /\ Handles'[shell.pipes[i].in] = shell.pipes[i].pipe
        /\ i # Len(shell.pipes) =>
            /\ Handles'[shell.pipes[i].out] \in Objects
            /\ object'[Handles'[shell.pipes[i].out]].kind = "pipe_in"
            /\ object'[Handles'[shell.pipes[i].out]].pipe = shell.pipes[i].pipe
    BY <1>3, <2>1, PipesStay
  <2>3. CASE i = k
    BY <1>3, <1>7, <1>8, <1>10, <2>2, <2>3
  <2>4. CASE i # k
    BY <1>10, <2>2, <2>4 DEF k
  <2> QED  BY <2>3, <2>4
<1>18. ReadyOK'
  <2>1. shell.tmp_in = shell.std_in
    BY <1>1, <1>2 DEF ReadyOK
  <2> QED  BY <1>5, <1>7, <1>9, <1>10, <1>11, <2>1 DEF ReadyOK
<1>19. WiredOK'
  <2> SUFFICES ASSUME NEW i \in 1..shell.at - 1  PROVE Wired(i)'
    BY <1>11 DEF WiredOK
  <2>1. Wired(i)
    BY <1>1, <1>2 DEF WiredOK, In_Line
  <2>2. shell'.pipes[i] = shell.pipes[i] /\ (i > 1 => shell'.pipes[i - 1] = shell.pipes[i - 1])
    <3>1. i \in 1..k /\ i # k /\ (i > 1 => i - 1 \in 1..k /\ i - 1 # k)
      BY <1>5
    <3> QED  BY <1>10, <3>1
  <2> QED  BY <1>1, <1>5, <1>11, <2>1, <2>2, WiredKept
<1>20. Owned'
  <2>1. To_Close = Pipe_Numbers /\ Pipe_Numbers' \subseteq To_Close'
    BY <1>1, <1>9 DEF To_Close, In_Line, Started
  <2>2. issued' \in Pipe_Numbers'
    BY <1>6, <1>7, <1>10 DEF Pipe_Numbers
  <2>3. \A n \in Pipe_Numbers : n # Invalid_Handle => n \in Pipe_Numbers'
    <3>1. ASSUME NEW i \in DOMAIN shell.pipes
          PROVE  shell.pipes[i].in \in Pipe_Numbers'
                 /\ (shell.pipes[i].out # Invalid_Handle => shell.pipes[i].out \in Pipe_Numbers')
      <4>1. /\ i \in DOMAIN shell'.pipes /\ shell'.pipes[i].in = shell.pipes[i].in
            /\ shell.pipes[i].out # Invalid_Handle => shell'.pipes[i].out = shell.pipes[i].out
        BY <1>6, <1>7, <1>10
      <4> QED  BY <4>1 DEF Pipe_Numbers
    <3> QED  BY <3>1 DEF Pipe_Numbers
  <2> SUFFICES ASSUME shell.line # <<>>, ~(Len(shell.line) > 1 /\ Last(shell.line).is_std_in),
                      NEW o \in Objects, held'[o] # Unheld, held'[o] > shell.mark
               PROVE  held'[o] \in To_Close' \cup {prog[p].file : p \in DOMAIN prog}
    BY <1>1, <1>11 DEF Owned
  <2>4. CASE held'[o] = issued'
    BY <2>1, <2>2, <2>4
  <2>5. CASE held'[o] # issued'
    <3>1. held'[o] = held[o]
      BY <1>3, <2>5
    <3>2. held[o] \in Pipe_Numbers \cup {prog[p].file : p \in DOMAIN prog}
      BY <1>1, <1>2, <2>1, <3>1 DEF Owned, In_Line
    <3>3. held[o] # Invalid_Handle
      BY <1>2, <3>1 DEF HandleInv, Ordered, HandleTypeOK, Sound, Unheld, Numbers
    <3> QED  BY <2>1, <2>3, <3>1, <3>2, <3>3
  <2> QED  BY <2>4, <2>5
<1> QED  BY <1>3, <1>12, <1>13, <1>15, <1>16, <1>17, <1>18, <1>19, <1>20 DEF CoreInv

(* A key, and with the last one of a line the line.                        *)
LEMMA KeyStep ==
    ASSUME CommandLineAssumption, Sound, Shell_Key
    PROVE  HandleInv' /\ CoreInv'
<1> DEFINE typed == Typed(shell.got, Head(keys), LineMax)
           line == Parse_Commands(Tokens(Line_Of(typed.text)))
           pc == IF Line_Of(typed.text) = <<"exit">> THEN "exited"
                 ELSE IF line = <<>> THEN "wait" ELSE "command"
<1>1. UNCHANGED <<table_vars, object, prog, hasty>> /\ shell.pc = "keys" /\ Press
  BY DEF Shell_Key, Shell_At
<1>2. ShellTypeOK /\ ProgressOK /\ ConsoleOK /\ Owned /\ ProgramsOK /\ HandleInv
      /\ issued \in Nat /\ issued < Invalid_Handle
  BY DEF Sound, CoreInv, HandleInv, HandleTypeOK
<1>3. /\ HandleInv' /\ ObjectsOK' /\ ProgramsOK' /\ FilesOK'
      /\ Handles' = Handles /\ held' = held /\ issued' = issued /\ object' = object /\ prog' = prog
  BY <1>1, QuietShell
<1>4. Head(keys) \in Symbol /\ keys' \in Seq(Symbol)
  <2>1. keys \in Seq(Symbol) /\ keys # <<>>
    BY <1>1, <1>2 DEF ShellTypeOK, Press
  <2>2. Head(keys) \in Symbol /\ Tail(keys) \in Seq(Symbol)
    BY <2>1, TailTyped
  <2> QED  BY <1>1, <2>1, <2>2 DEF Press
<1>5. typed.text \in Seq(Symbol)
  BY <1>2, <1>4, TypedText DEF ShellTypeOK
<1>6. LineOK(line) /\ line \in Seq(Commands)
  <2>1. LineOK(line)
    <3> HIDE DEF typed
    <3> QED  BY <1>5, LineTyped
  <2> HIDE DEF line
  <2> QED  BY <2>1 DEF LineOK
<1>7. \/ shell' = [shell EXCEPT !.got = typed.text]
      \/ shell' = [shell EXCEPT !.got = <<>>, !.line = line, !.at = 1,
                      !.first = Len(prog) + 1, !.mark = Last_Handle,
                      !.pipes = <<>>, !.handles = <<>>,
                      !.tmp_in = shell.std_in, !.tmp_out = shell.std_out, !.pc = pc]
  BY DEF Shell_Key
<1>8. pc \in {"exited", "wait", "command"} /\ (pc = "wait" => line = <<>>)
      /\ (pc = "command" => line # <<>>)
  OBVIOUS
<1> HIDE DEF typed, line, pc
<1>9. CASE shell' = [shell EXCEPT !.got = typed.text]
  <2>1. /\ \A field \in Shell_Fields \ {"got"} : shell'[field] = shell[field]
        /\ Shell_Fields \subseteq DOMAIN shell' /\ shell'.got = typed.text
    BY <1>2, <1>9 DEF ShellTypeOK, Shell_Fields
  <2>2. /\ shell'.std_in = shell.std_in /\ shell'.std_out = shell.std_out /\ shell'.line = shell.line
        /\ shell'.at = shell.at /\ shell'.pipes = shell.pipes /\ shell'.todo = shell.todo
        /\ shell'.tmp_in = shell.tmp_in /\ shell'.tmp_out = shell.tmp_out
        /\ shell'.first = shell.first /\ shell'.mark = shell.mark /\ shell'.pc = "keys"
    BY <1>1, <2>1 DEF Shell_Fields
  <2>3. ShellTypeOK'
    BY <1>2, <1>3, <1>4, <1>5, <2>1 DEF ShellTypeOK, Shell_Fields
  <2>4. ProgressOK'
    BY <1>1, <1>2, <1>3, <2>2 DEF ProgressOK, In_Line, Started
  <2>5. ApartOK'
    BY <1>2, <1>3, <2>2, NumbersKept, ShellNumbers DEF Shell_Numbers
  <2>6. ConsoleOK'
    BY <1>1, <1>2, <1>3, <2>2 DEF ConsoleOK, Reaches, Started
  <2>7. PipesOK' /\ ReadyOK' /\ WiredOK'
    BY <2>2 DEF PipesOK, ReadyOK, WiredOK, In_Line, Started
  <2>8. Owned'
    <3>1. To_Close' = {} /\ To_Close = {}
      BY <1>1, <2>2 DEF To_Close, In_Line, Started
    <3> QED  BY <1>1, <1>2, <1>3, <2>2, <3>1 DEF Owned, In_Line, Started
  <2> QED  BY <1>3, <2>3, <2>4, <2>5, <2>6, <2>7, <2>8 DEF CoreInv
<1>10. CASE shell' = [shell EXCEPT !.got = <<>>, !.line = line, !.at = 1,
                      !.first = Len(prog) + 1, !.mark = Last_Handle,
                      !.pipes = <<>>, !.handles = <<>>,
                      !.tmp_in = shell.std_in, !.tmp_out = shell.std_out, !.pc = pc]
  <2>1. /\ Shell_Fields \subseteq DOMAIN shell'
        /\ shell'.got = <<>> /\ shell'.line = line /\ shell'.at = 1
        /\ shell'.first = Len(prog) + 1 /\ shell'.mark = Last_Handle
        /\ shell'.pipes = <<>> /\ shell'.handles = <<>>
        /\ shell'.tmp_in = shell.std_in /\ shell'.tmp_out = shell.std_out /\ shell'.pc = pc
        /\ shell'.std_in = shell.std_in /\ shell'.std_out = shell.std_out
        /\ shell'.todo = shell.todo /\ shell'.wd = shell.wd
    BY <1>2, <1>10 DEF ShellTypeOK, Shell_Fields
  <2>2. Last_Handle = issued
    BY <1>2 DEF HandleInv, Ordered
  <2>3. Len(prog) \in Nat
    BY <1>2 DEF ProgramsOK
  <2>4. ShellTypeOK'
    <3>1. shell'.mark \in Nat /\ shell'.mark <= issued' /\ {shell'.at, shell'.first} \subseteq Nat \ {0}
      BY <1>2, <1>3, <2>1, <2>2, <2>3
    <3>2. shell'.pc \in {"boot", "keys", "end", "exited"} \cup In_Line \cup Started
      BY <1>8, <2>1 DEF In_Line, Started
    <3>3. {shell'.std_in, shell'.std_out, shell'.tmp_in, shell'.tmp_out} \subseteq Numbers
      BY <1>2, <2>1 DEF ShellTypeOK
    <3>4. shell'.todo \in Seq(Numbers) /\ shell'.wd.path \in Seq(Symbol)
      BY <1>2, <2>1 DEF ShellTypeOK
    <3> QED  BY <1>4, <1>6, <2>1, <3>1, <3>2, <3>3, <3>4 DEF ShellTypeOK
  <2>5. ProgressOK'
    <3>1. Len(line) \in Nat /\ (line # <<>> => 1 <= Len(line)) /\ (line = <<>> => Len(line) = 0)
      BY <1>6
    <3>2. shell'.first..Len(prog) = {}
      BY <2>1, <2>3
    <3>3. shell'.pc \in {"exited", "wait", "command"}
      BY <1>8, <2>1
    <3>4. Len(prog') = shell'.first + shell'.at - 2
      BY <1>3, <2>1, <2>3
    <3>5. shell'.pc = "wait" => shell'.at = Len(shell'.line) + 1 /\ 1..Len(shell'.line) = {}
      BY <1>8, <2>1, <3>1
    <3>6. shell'.pc = "command" => shell'.at <= Len(shell'.line) /\ Len(shell'.pipes) = shell'.at - 1
      BY <1>8, <2>1, <3>1
    <3> QED  BY <1>3, <3>2, <3>3, <3>4, <3>5, <3>6 DEF ProgressOK, In_Line, Started
  <2>6. ApartOK'
    BY <1>2, <1>3, <2>1, NumbersKept, ShellNumbers DEF Shell_Numbers
  <2>7. ConsoleOK'
    BY <1>1, <1>2, <1>3, <1>8, <2>1 DEF ConsoleOK, Reaches, Started
  <2>8. PipesOK' /\ ReadyOK' /\ WiredOK'
    BY <1>8, <2>1 DEF PipesOK, ReadyOK, WiredOK, In_Line, Started
  <2>9. Owned'
    <3>1. \A o \in Objects : held[o] # Unheld => held[o] \in 1..issued
      BY <1>2 DEF HandleInv, Ordered
    <3>2. \A o \in Objects : ~(held'[o] # Unheld /\ held'[o] > shell'.mark)
      BY <1>2, <1>3, <2>1, <2>2, <3>1
    <3> QED  BY <3>2 DEF Owned
  <2> QED  BY <1>3, <2>4, <2>5, <2>6, <2>7, <2>8, <2>9 DEF CoreInv
<1> QED  BY <1>7, <1>9, <1>10

(* The step of the shell.                                                  *)
LEMMA ShellStep ==
    ASSUME CommandLineAssumption, Sound, issued' < Invalid_Handle, Shell
    PROVE  HandleInv' /\ CoreInv'
<1>1. Create_Pipe => Shell_At("pipe") \/ Shell_At("pipe_in")
  BY DEF Create_Pipe
<1> QED  BY <1>1, BootStep, KeyStep, GivenUpStep, PrepareStep, RedirectStep, PipeStep, PipeInStep,
            CreateStep, WaitStep, ExitCodeStep, CloseStep DEF Shell

---------------------------------------------------------------------------
(* The invariant.                                                          *)

LEMMA InitLine ==
    ASSUME CommandLineAssumption, Init
    PROVE  LineInv
<1>1. HandleInv /\ issued = 0 /\ \A n \in Numbers : Handles[n] = NoObject
  BY InitOrdered DEF Init, HandleTable_Init
<1>2. \A o \in Objects : held[o] = Unheld
  BY DEF Init, HandleTable_Init
<1>3. ObjectsOK
  BY <1>1, <1>2 DEF Init, ObjectsOK, Absent
<1>4. prog = <<>> /\ Len(prog) = 0 /\ DOMAIN prog = {}
  BY DEF Init
<1>5. ProgramsOK
  <2>1. <<>> = [p \in 1..0 |-> <<>>[p]]
    OBVIOUS
  <2> QED  BY <1>4, <2>1 DEF ProgramsOK
<1>6. FilesOK
  BY <1>4 DEF FilesOK
<1>7. /\ Shell_Fields \subseteq DOMAIN shell /\ shell.pc = "boot" /\ shell.got = <<>>
      /\ shell.line = <<>> /\ shell.at = 1 /\ shell.first = 1 /\ shell.mark = 0
      /\ shell.pipes = <<>> /\ shell.handles = <<>> /\ shell.todo = <<>>
      /\ shell.std_in = Invalid_Handle /\ shell.std_out = Invalid_Handle
      /\ shell.tmp_in = Invalid_Handle /\ shell.tmp_out = Invalid_Handle
      /\ shell.wd.path = <<>>
  BY DEF Init, Shell_Fields, AtRoot
<1>8. Invalid_Handle \in Numbers
  BY DEF Invalid_Handle, Numbers
<1>9. ShellTypeOK
  <2>1. keys \in Seq(Symbol)
    <3>1. keys \in Seq(STRING)
      BY DEF Init, CommandLineAssumption
    <3>2. \A T : keys \in Seq(STRING \cup T)
      BY <3>1
    <3> QED  BY <3>2, Zenon DEF Symbol
  <2>2. LineOK(<<>>)
    BY DEF LineOK
  <2> QED  BY <1>1, <1>7, <1>8, <2>1, <2>2 DEF ShellTypeOK
<1>10. ProgressOK
  BY <1>4, <1>7 DEF ProgressOK, In_Line, Started
<1>11. ApartOK
  <2>1. Pipe_Numbers = {} /\ ToSet(shell.todo) = {}
    BY <1>7 DEF Pipe_Numbers, ToSet
  <2> QED  BY <1>7, <2>1 DEF ApartOK, Shell_Numbers
<1>12. ConsoleOK
  BY <1>7 DEF ConsoleOK, Started
<1>13. PipesOK /\ ReadyOK /\ WiredOK
  BY <1>7 DEF PipesOK, ReadyOK, WiredOK, In_Line, Started
<1>14. Owned
  BY <1>7 DEF Owned
<1> QED  BY <1>1, <1>3, <1>5, <1>6, <1>9, <1>10, <1>11, <1>12, <1>13, <1>14 DEF LineInv, CoreInv

\* Only an open changes the sum of the steps.
LEMMA IssuedGrows ==
    ASSUME issued \in Nat, [Next]_vars
    PROVE  issued' \in Nat /\ issued <= issued'
<1>1. ASSUME NEW record, Enter(record)
      PROVE  issued' \in Nat /\ issued <= issued'
  BY <1>1 DEF Enter, Convert_Native_Handle
<1>2. ASSUME NEW n, Close_Handle(n)
      PROVE  issued' = issued
  BY <1>2 DEF Close_Handle, Remove_Handle, table_vars
<1>3. ASSUME NEW opened, Take(opened)
      PROVE  issued' \in Nat /\ issued <= issued'
  BY <1>1, <1>3 DEF Take, table_vars
<1>4. CASE Shell
  <2>1. CASE Boot
    BY <1>1, <2>1 DEF Boot
  <2>2. CASE Redirect
    BY <1>3, <2>2 DEF Redirect
  <2>3. CASE Create_Pipe
    BY <1>1, <2>3 DEF Create_Pipe
  <2>4. CASE Close_Handles
    BY <1>2, <2>4 DEF Close_Handles, table_vars
  <2>5. CASE Shell_Key \/ Unknown_Command \/ Change_Directory \/ Prepare_Command
             \/ Create_Process \/ Wait_For \/ Wake \/ Read_Exit_Code
    <3>1. UNCHANGED table_vars
      BY <2>5, Zenon DEF Shell_Key, Unknown_Command, Change_Directory, Prepare_Command,
                         Create_Process, Wait_For, Wake, Read_Exit_Code
    <3> QED  BY <3>1 DEF table_vars
  <2> QED  BY <1>4, <2>1, <2>2, <2>3, <2>4, <2>5 DEF Shell
<1>5. ASSUME NEW p, Program(p)
      PROVE  issued' \in Nat /\ issued <= issued'
  <2>1. CASE Open_File(p)
    BY <1>1, <1>3, <2>1 DEF Open_File
  <2>2. CASE Close_File(p)
    BY <1>2, <2>2 DEF Close_File
  <2>3. CASE ~Open_File(p) /\ ~Close_File(p)
    <3>1. \/ Read_File(p) \/ Read_Key(p) \/ Consume(p) \/ Write_Text(p)
          \/ Summarize(p) \/ Reset_Find(p) \/ Parse_Find(p) \/ Find_Lines(p)
          \/ Find_Count(p) \/ Echo(p) \/ Delete_File(p) \/ Exit(p) \/ Hang_Up(p)
      BY <1>5, <2>3, Zenon DEF Program
    <3>2. /\ Read_File(p) => UNCHANGED table_vars
          /\ Read_Key(p) => UNCHANGED table_vars
          /\ Consume(p) => UNCHANGED table_vars
          /\ Write_Text(p) => UNCHANGED table_vars
          /\ Summarize(p) => UNCHANGED table_vars
          /\ Reset_Find(p) => UNCHANGED table_vars
      BY Zenon DEF Read_File, Read_Key, Consume, Write_Text, Summarize, Reset_Find
    <3>3. /\ Parse_Find(p) => UNCHANGED table_vars
          /\ Find_Lines(p) => UNCHANGED table_vars
          /\ Find_Count(p) => UNCHANGED table_vars
          /\ Echo(p) => UNCHANGED table_vars
          /\ Delete_File(p) => UNCHANGED table_vars
          /\ Exit(p) => UNCHANGED table_vars
          /\ Hang_Up(p) => UNCHANGED table_vars
      BY Zenon DEF Parse_Find, Find_Lines, Find_Count, Echo, Delete_File, Exit, Hang_Up
    <3> QED  BY <3>1, <3>2, <3>3 DEF table_vars
  <2> QED  BY <2>1, <2>2, <2>3
<1>6. CASE UNCHANGED vars
  BY <1>6 DEF vars, table_vars
<1> QED  BY <1>4, <1>5, <1>6 DEF Next

LEMMA NothingDone ==
    ASSUME Sound, UNCHANGED vars
    PROVE  HandleInv' /\ CoreInv'
<1>1. /\ UNCHANGED <<table_vars, object, prog>> /\ shell' = shell /\ hasty' = hasty /\ keys' = keys
      /\ ShellTypeOK /\ ProgramsOK /\ ApartOK /\ Owned /\ issued \in Nat
  BY DEF vars, Sound, CoreInv, HandleInv, HandleTypeOK
<1>2. /\ HandleInv' /\ ObjectsOK' /\ ProgramsOK' /\ FilesOK'
      /\ Handles' = Handles /\ held' = held /\ issued' = issued /\ object' = object /\ prog' = prog
  BY <1>1, QuietShell
<1>3. ObjectsKept
  BY <1>2, SameObjects DEF Sound, CoreInv
<1>4. keys' \in Seq(Symbol)
  BY <1>1 DEF ShellTypeOK
<1>5. ShellUntouched
  BY <1>1, <1>2, <1>3, <1>4 DEF ShellUntouched
<1>6. ApartOK' /\ Owned'
  BY <1>1, <1>2, SameShell DEF ApartOK, Owned
<1> QED  BY <1>2, <1>5, <1>6, ShellKept DEF CoreInv

LEMMA LineStep ==
    ASSUME CommandLineAssumption, LineInv, [Next]_vars
    PROVE  LineInv'
<1>1. issued' \in Nat /\ issued <= issued' /\ issued \in Nat /\ Invalid_Handle \in Nat
  BY IssuedGrows DEF LineInv, Invalid_Handle
<1>2. ASSUME issued' < Invalid_Handle
      PROVE  HandleInv' /\ CoreInv'
  <2>1. Sound
    BY <1>1, <1>2 DEF LineInv, Sound
  <2>2. CASE Shell
    BY <1>2, <2>1, <2>2, ShellStep
  <2>3. ASSUME NEW p, Program(p)
        PROVE  HandleInv' /\ CoreInv'
    BY <1>2, <2>1, <2>3, ProgramStep
  <2>4. CASE UNCHANGED vars
    BY <2>1, <2>4, NothingDone
  <2> QED  BY <2>2, <2>3, <2>4 DEF Next
<1> QED  BY <1>1, <1>2 DEF LineInv, Invalid_Handle

(* Whatever is typed and whatever the volume holds, as long as fewer than  *)
(* 65535 numbers have been passed, the shell and its programs are where    *)
(* CoreInv says, with the handles it says.                                 *)
THEOREM LineInvariance == CommandLine_Spec => []LineInv
<1>1. Init => LineInv
  BY CommandLineAssumption, InitLine
<1>2. LineInv /\ [Next]_vars => LineInv'
  BY CommandLineAssumption, LineStep
<1> QED  BY <1>1, <1>2, PTL DEF CommandLine_Spec

---------------------------------------------------------------------------
(* What it says.                                                           *)

LEMMA ClosedAtPrompt ==
    ASSUME Sound
    PROVE  LineHandlesClosed
<1> SUFFICES ASSUME Undisturbed, ~(Len(shell.line) > 1 /\ Last(shell.line).is_std_in),
                    NEW o \in Objects, held[o] # Unheld, held[o] > shell.mark
             PROVE  FALSE
  <2>1. ASSUME NEW o \in Objects, held[o] # Unheld
        PROVE  (held[o] <= shell.mark) <=> ~(held[o] > shell.mark)
    BY <2>1 DEF Sound, CoreInv, ShellTypeOK, HandleInv, Ordered
  <2> QED  BY <2>1 DEF LineHandlesClosed
<1>1. /\ shell.pc = "keys" /\ shell.line # <<>> /\ shell.at > Len(shell.line) /\ ~hasty
      /\ \A p \in 1..shell.first - 1 : prog[p].pc = "gone"
  BY DEF Undisturbed, Prompted
<1>2. To_Close = {}
  BY <1>1 DEF To_Close, In_Line, Started
<1>3. PICK p \in DOMAIN prog : held[o] = prog[p].file
  BY <1>1, <1>2 DEF Sound, CoreInv, Owned
<1>4. Done(prog[p])
  <2>1. p \in Nat \ {0} /\ p <= Len(prog) /\ Len(prog) \in Nat /\ shell.first \in Nat \ {0}
    BY DEF Sound, CoreInv, ProgramsOK, ShellTypeOK
  <2>2. CASE p < shell.first
    <3>1. p \in 1..shell.first - 1
      BY <2>1, <2>2
    <3> QED  BY <1>1, <3>1 DEF Done
  <2>3. CASE ~(p < shell.first)
    <3>1. p \in shell.first..Len(prog)
      BY <2>1, <2>3
    <3>2. prog[p].exited
      BY <1>1, <3>1 DEF Sound, CoreInv, ProgressOK
    <3>3. ProgramOK(prog[p])
      BY DEF Sound, CoreInv, ProgramsOK
    <3> QED  BY <3>2, <3>3 DEF ProgramOK, PlaceOK, Done
  <2> QED  BY <2>2, <2>3
<1>5. held[o] \in 1..issued /\ Handles[held[o]] = o /\ issued \in Nat /\ issued < Invalid_Handle
  BY DEF Sound, HandleInv, HandleTypeOK, Ordered
<1>6. Has_File(prog[p])
  BY <1>3, <1>5 DEF Has_File, Invalid_Handle
<1>7. Handles[prog[p].file] = NoObject
  BY <1>4, <1>6 DEF Sound, CoreInv, FilesOK
<1> QED  BY <1>3, <1>5, <1>7

LEMMA WiredAsTyped ==
    ASSUME Sound
    PROVE  ConnectedAsTyped
<1> SUFFICES ASSUME shell.pc \in In_Line \cup Started, NEW p \in Line_Programs
             PROVE  LET i   == p - shell.first + 1
                        c   == shell.line[i]
                        in  == Resolve_kiv_os_Handle(prog[p].in)
                        out == Resolve_kiv_os_Handle(prog[p].out)
                    IN  /\ i > 1 => /\ Kind(in) = "pipe_out"
                                    /\ object[Resolve_kiv_os_Handle(prog[p - 1].out)].pipe = in
                        /\ i = 1 => IF c.is_std_in
                                    THEN Kind(in) = "file" => Named(c, object[in].item)
                                    ELSE Kind(in) = "console_in"
                        /\ c.is_pipe => Kind(out) = "pipe_in"
                        /\ ~c.is_pipe => IF c.is_std_out
                                         THEN Kind(out) = "file" => Named(c, object[out].item)
                                         ELSE Kind(out) = "console_out"
  BY DEF ConnectedAsTyped, In_Line, Started
<1> DEFINE i == p - shell.first + 1
           c == shell.line[i]
           r == prog[p]
<1>1. /\ ShellTypeOK /\ ProgressOK /\ ConsoleOK /\ PipesOK /\ WiredOK
      /\ Len(shell.line) \in Nat /\ shell.at \in Nat \ {0} /\ shell.first \in Nat \ {0}
      /\ LineOK(shell.line) /\ Len(shell.pipes) \in Nat
      /\ DOMAIN shell.pipes = 1..Len(shell.pipes)
  BY DEF Sound, CoreInv, ShellTypeOK, LineOK
<1>2. Len(prog) = shell.first + shell.at - 2
  BY <1>1 DEF ProgressOK
<1>3. i \in 1..shell.at - 1 /\ i \in Nat /\ p = shell.first + i - 1
      /\ (i > 1 => i - 1 \in 1..shell.at - 1 /\ p - 1 = shell.first + (i - 1) - 1)
  <2>1. \A a \in Nat \ {0}, b \in Nat \ {0} : \A q \in a..(a + b - 2) :
            /\ q - a + 1 \in 1..b - 1 /\ q - a + 1 \in Nat /\ q = a + (q - a + 1) - 1
            /\ q - a + 1 > 1 => /\ q - a + 1 - 1 \in 1..b - 1
                               /\ q - 1 = a + (q - a + 1 - 1) - 1
    OBVIOUS
  <2>2. p \in shell.first..(shell.first + shell.at - 2)
    BY <1>2 DEF Line_Programs
  <2>3. PICK a \in Nat \ {0}, b \in Nat \ {0} : a = shell.first /\ b = shell.at
    BY <1>1
  <2>4. p \in a..(a + b - 2)
    BY <2>2, <2>3
  <2>5. /\ p - a + 1 \in 1..b - 1 /\ p - a + 1 \in Nat /\ p = a + (p - a + 1) - 1
        /\ p - a + 1 > 1 => /\ p - a + 1 - 1 \in 1..b - 1
                           /\ p - 1 = a + (p - a + 1 - 1) - 1
    BY <2>1, <2>4
  <2> QED  BY <2>3, <2>5
<1>4. shell.at - 1 <= Len(shell.line)
  BY <1>1 DEF ProgressOK
<1> HIDE DEF i
<1>5. Wired(i) /\ (i > 1 => Wired(i - 1) /\ shell.line[i - 1].is_pipe)
  <2>1. i > 1 => i - 1 \in 1..Len(shell.line) - 1
    BY <1>1, <1>3, <1>4
  <2> QED  BY <1>1, <1>3, <2>1 DEF WiredOK, LineOK
<1>6. ASSUME NEW k \in 1..shell.at - 1, shell.line[k].is_pipe
      PROVE  /\ Reaches(shell.pipes[k].in, "pipe_out")
             /\ Handles[shell.pipes[k].in] = shell.pipes[k].pipe
             /\ Reaches(shell.pipes[k].out, "pipe_in")
             /\ object[Handles[shell.pipes[k].out]].pipe = shell.pipes[k].pipe
  <2>1. k \in DOMAIN shell.pipes /\ ~(shell.pc = "pipe_in" /\ k = Len(shell.pipes))
    <3>1. CASE shell.pc \in Started
      <4>1. k \in 1..Len(shell.line)
        BY <1>1, <1>4
      <4> QED  BY <1>1, <1>6, <3>1, <4>1 DEF ProgressOK, Started
    <3>2. CASE shell.pc \in In_Line
      <4>1. Len(shell.pipes) >= shell.at - 1 /\ (shell.pc = "pipe_in" => Len(shell.pipes) = shell.at)
        BY <1>1, <3>2 DEF ProgressOK, In_Line
      <4> QED  BY <1>1, <4>1
    <3> QED  BY <3>1, <3>2
  <2> QED  BY <1>1, <2>1 DEF PipesOK
<1>7. \A n, kind : Reaches(n, kind) => Kind(Handles[n]) = kind
  BY DEF Reaches, Kind
<1>8. shell.pc # "boot"
  BY DEF In_Line, Started
<1>9. i > 1 => /\ Kind(Handles[r.in]) = "pipe_out"
               /\ object[Handles[prog[p - 1].out]].pipe = Handles[r.in]
  <2> SUFFICES ASSUME i > 1  PROVE /\ Kind(Handles[r.in]) = "pipe_out"
                                   /\ object[Handles[prog[p - 1].out]].pipe = Handles[r.in]
    OBVIOUS
  <2>1. r.in = shell.pipes[i - 1].in
    BY <1>3, <1>5 DEF Wired
  <2>2. prog[p - 1].out = shell.pipes[i - 1].out
    BY <1>3, <1>5 DEF Wired
  <2> QED  BY <1>3, <1>5, <1>6, <1>7, <2>1, <2>2
<1>10. i = 1 => IF c.is_std_in THEN Kind(Handles[r.in]) = "file" => Named(c, object[Handles[r.in]].item)
                ELSE Kind(Handles[r.in]) = "console_in"
  BY <1>1, <1>3, <1>5, <1>7, <1>8 DEF Wired, Redirected, ConsoleOK
<1>11. c.is_pipe => Kind(Handles[r.out]) = "pipe_in"
  BY <1>3, <1>5, <1>6, <1>7 DEF Wired
<1>12. ~c.is_pipe => IF c.is_std_out
                     THEN Kind(Handles[r.out]) = "file" => Named(c, object[Handles[r.out]].item)
                     ELSE Kind(Handles[r.out]) = "console_out"
  BY <1>1, <1>3, <1>5, <1>7, <1>8 DEF Wired, Redirected, ConsoleOK
<1> QED  BY <1>9, <1>10, <1>11, <1>12 DEF Resolve_kiv_os_Handle, i

(* The shell and its programs use the table as it wants to be used: as     *)
(* long as fewer than 65535 numbers have been passed, every handle of      *)
(* theirs names the object it was opened for.                              *)
THEOREM LineHandlesNameObjects == CommandLine_Spec => []HandlesNameObjects
<1>1. LineInv => HandlesNameObjects
  BY OrderedIsEnough DEF LineInv, HandleInv, HandlesNameObjects
<1> QED  BY <1>1, LineInvariance, PTL

(* Whatever is typed and whatever the volume holds, no program of a line   *)
(* is given another input or output than the line names: the handles that  *)
(* Execute_Commands wires up reach the right pipe, file or console from    *)
(* the first Create_Process to the end of the wait, whichever programs     *)
(* have already opened and closed files or ended in between.               *)
THEOREM AlwaysConnectedAsTyped ==
    CommandLine_Spec => [](issued < Invalid_Handle => ConnectedAsTyped)
<1>1. LineInv => (issued < Invalid_Handle => ConnectedAsTyped)
  BY WiredAsTyped DEF LineInv, Sound
<1> QED  BY <1>1, LineInvariance, PTL

(* Whatever is typed, when the prompt is back after a line that was waited *)
(* for, none of the handles that the line or its programs opened is open:  *)
(* Execute_Commands and the programs close everything, on the error paths  *)
(* too.                                                                    *)
THEOREM LineHandlesAlwaysClosed ==
    CommandLine_Spec => [](issued < Invalid_Handle => LineHandlesClosed)
<1>1. LineInv => (issued < Invalid_Handle => LineHandlesClosed)
  BY ClosedAtPrompt DEF LineInv, Sound
<1> QED  BY <1>1, LineInvariance, PTL
==============================================================================
