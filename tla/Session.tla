------------------------------ MODULE Session ------------------------------
(***************************************************************************)
(* The process controller with its real callers: the kernel's boot thread  *)
(* (src/src/kernel/kernel.cpp), the shells and Execute_Commands            *)
(* (src/src/user/shell.cpp, command_executor.cpp), rgen with its helper    *)
(* thread (rgen.cpp), shutdown, and "md", which stands for the programs    *)
(* that do their work and Exit.  What they read from and write to files    *)
(* and pipes is left out; what a user types is any choice of Commands.     *)
(*                                                                         *)
(* prog[os] is where OS thread os is in its program while at[os] says      *)
(* where it is in the kernel; a program moves only while at[os] = "user".  *)
(***************************************************************************)
EXTENDS ProcessController

CONSTANTS
    Commands,         \* what is typed in the first shell
    NestedCommands,   \* what is typed in a shell started from a shell
    MaxPipeline,      \* the longest command line, in commands
    ReuseStale        \* a new OS thread may get the id of an ended one whose
                      \* entry is still in stdtid_to_tid

ASSUME SessionAssumption ==
    /\ OsThreads \subseteq Nat
    /\ Commands \cup NestedCommands \subseteq Programs \cup {"cd"}
    /\ Programs = {"shell", "md", "rgen", "shutdown"}
    /\ Flags = {"sig_shutdown", "sig_terminate"}
    /\ MaxPipeline \in Nat \ {0} /\ ReuseStale \in BOOLEAN

VARIABLES
    prog,      \* OS thread -> its program, its place in it and its locals
    sig_eof    \* the flag of user.dll that rgen's helper sets

session_vars == <<vars, prog, sig_eof>>

Started(name) == [name |-> name, pc |-> "start", todo |-> <<>>, handles |-> <<>>]
Nothing == [Started("none") EXCEPT !.pc = "none"]

Session_Init ==
    /\ Init
    /\ prog = [o \in OsThreads |-> IF o = Boot THEN Started("kernel") ELSE Nothing]
    /\ sig_eof = FALSE

-----------------------------------------------------------------------------
In(os, name, pc) == Calling(os) /\ prog[os].name = name /\ prog[os].pc = pc

Goto(os, pc) == prog' = [prog EXCEPT ![os].pc = pc] /\ UNCHANGED sig_eof

(* The id of a new OS thread.  Ids without an entry are alike: the model   *)
(* takes the first of them.                                                *)
Unlisted == {o \in OsThreads : at[o] = "none" /\ stdtid_to_tid[o] = None}

Available(new) ==
    \/ ReuseStale /\ at[new] = "none"
    \/ new \in Unlisted /\ \A o \in Unlisted : new <= o

(* Clone for program name, continuing at pc with the handle it returned.   *)
Launch(os, name, pc, todo, Clone(_, _), Refused(_)) ==
    LET Caller(handle) == [prog[os] EXCEPT !.pc = pc, !.todo = todo,
                                           !.handles = Append(@, handle)]
    IN  /\ \E handle \in Handles :
             \/ /\ Refused(handle)
                /\ prog' = [prog EXCEPT ![os] = Caller(handle)]
             \/ \E new \in OsThreads :
                   /\ Available(new) /\ Clone(new, handle)
                   /\ prog' = [prog EXCEPT ![os] = Caller(handle),
                                           ![new] = Started(name)]
        /\ UNCHANGED sig_eof

Launch_Process(os, name, pc, todo) ==
    LET Clone(new, handle) == Create_Process(os, name, new, handle)
        Refused(handle) == Create_Refused(os, handle)
    IN  Launch(os, name, pc, todo, Clone, Refused)

Launch_Thread(os, name, pc) ==
    LET Clone(new, handle) == Create_Thread(os, new, handle)
        Refused(handle) == Create_Refused(os, handle) \/ Create_Thread_Refused(os, handle)
    IN  Launch(os, name, pc, <<>>, Clone, Refused)

Wait_For_All(os, pc) == Wait_For(os, prog[os].handles) /\ Goto(os, pc)

Reap(os, tid) == Read_Exit_Code(os, tid) \/ Read_Exit_Code_Unknown(os, tid)

Leave(os, pc) == (Exit(os) \/ Exit_Unknown(os)) /\ Goto(os, pc)

-----------------------------------------------------------------------------
(* Bootstrap_Loader, from Shell_Clone to Shutdown_Kernel.                  *)

Shell_Clone == In(Boot, "kernel", "start") /\ Launch_Process(Boot, "shell", "wait", <<>>)
Shell_Wait == In(Boot, "kernel", "wait") /\ Wait_For_All(Boot, "close")
Shell_Close == /\ In(Boot, "kernel", "close")
               /\ Reap(Boot, prog[Boot].handles[1]) /\ Goto(Boot, "exit")

(* Mutant: the kernel's own process exits but is not reaped.               *)
Remove_Kernel_Process_Unread == In(Boot, "kernel", "exit") /\ Leave(Boot, "off")

(* Remove_Kernel_Process: Exit, then Read_Exit_Code of the kernel's handle. *)
Remove_Kernel_Process ==
    \/ In(Boot, "kernel", "exit") /\ Leave(Boot, "remove")
    \/ In(Boot, "kernel", "remove") /\ Reap(Boot, TidMin) /\ Goto(Boot, "off")

Boot_Step == Shell_Clone \/ Shell_Wait \/ Shell_Close \/ Remove_Kernel_Process

Off == prog[Boot].pc = "off"

-----------------------------------------------------------------------------
(* shell and Execute_Commands.                                             *)

Shell_Start(os) == /\ In(os, "shell", "start")
                   /\ Register_Signal_Handler(os, "sig_shutdown")
                   /\ Goto(os, "prompt")

(* The user types a command line, or exit.  Only as many commands are      *)
(* typed as there are ids left for their OS threads (a bound of the model: *)
(* each command takes one, rgen two).                                      *)
Typed(os) == IF Get_TID(os) = TidMin + 1 THEN Commands ELSE NestedCommands

Read_Command(os) ==
    /\ In(os, "shell", "prompt")
    /\ \/ Goto(os, "exit")
       \/ /\ \E n \in 1 .. MaxPipeline : \E line \in [1 .. n -> Typed(os)] :
                /\ Cardinality({o \in OsThreads : at[o] = "none" /\
                                    (ReuseStale \/ o \in Unlisted)}) >=
                      n + Cardinality({i \in 1 .. n : line[i] = "rgen"})
                /\ prog' = [prog EXCEPT ![os].pc = "create", ![os].todo = line,
                                        ![os].handles = <<>>]
          /\ UNCHANGED sig_eof
    /\ UNCHANGED vars

(* Mutant: the shell does not look at sig_shutdown.                        *)
Next_Prompt_Always == "prompt"

Next_Prompt == IF "sig_shutdown" \in raised THEN "exit" ELSE "prompt"

(* cd returns from Execute_Commands at once, whatever was created before.  *)
Change_Directory(os) ==
    /\ In(os, "shell", "create") /\ prog[os].todo # <<>>
    /\ Head(prog[os].todo) = "cd"
    /\ Goto(os, Next_Prompt)
    /\ UNCHANGED vars

Create_Command(os) ==
    /\ In(os, "shell", "create") /\ prog[os].todo # <<>>
    /\ Head(prog[os].todo) # "cd"
    /\ Launch_Process(os, Head(prog[os].todo), "create", Tail(prog[os].todo))

Wait_For_Commands(os) == /\ In(os, "shell", "create") /\ prog[os].todo = <<>>
                         /\ Wait_For_All(os, "reap")

(* Read_Exit_Code of each handle in turn, each a syscall of its own.       *)
Reap_Command(os) ==
    LET left == Tail(prog[os].handles) IN
    /\ In(os, "shell", "reap")
    /\ Reap(os, Head(prog[os].handles))
    /\ prog' = [prog EXCEPT ![os].handles = left,
                            ![os].pc = IF left = <<>> THEN Next_Prompt ELSE "reap"]
    /\ UNCHANGED sig_eof

Shell_Step(os) ==
    \/ Shell_Start(os) \/ Change_Directory(os) \/ Create_Command(os)
    \/ Wait_For_Commands(os) \/ Reap_Command(os)
    \/ In(os, "shell", "exit") /\ Leave(os, "return")

-----------------------------------------------------------------------------
(* rgen and its helper thread Signalize_EOF.                               *)

Rgen_Start(os) ==
    \/ /\ In(os, "rgen", "start")
       /\ Register_Signal_Handler(os, "sig_terminate")
       /\ Goto(os, "clear")
    \/ /\ In(os, "rgen", "clear")
       /\ sig_eof' = FALSE
       /\ prog' = [prog EXCEPT ![os].pc = "create"]
       /\ UNCHANGED vars
    \/ In(os, "rgen", "create") /\ Launch_Thread(os, "Signalize_EOF", "loop")

(* The loop ends once either flag is seen; the helper is waited for only   *)
(* when it was sig_terminate.                                              *)
Rgen_Loop(os) ==
    /\ In(os, "rgen", "loop") /\ (sig_eof \/ "sig_terminate" \in raised)
    /\ Goto(os, IF "sig_terminate" \in raised THEN "wait" ELSE "exit")
    /\ UNCHANGED vars

Rgen_End(os) ==
    \/ In(os, "rgen", "wait") /\ Wait_For_All(os, "reap")
    \/ In(os, "rgen", "reap") /\ Reap(os, prog[os].handles[1]) /\ Goto(os, "exit")
    \/ In(os, "rgen", "exit") /\ Leave(os, "return")

(* The helper reads until the user types an end of file, or until it sees  *)
(* sig_terminate after a key.                                              *)
Read_Key(os) ==
    /\ In(os, "Signalize_EOF", "start")
    /\ sig_eof' = TRUE
    /\ prog' = [prog EXCEPT ![os].pc = "exit"]
    /\ UNCHANGED vars

Rgen_Step(os) == Rgen_Start(os) \/ Rgen_Loop(os) \/ Rgen_End(os)

-----------------------------------------------------------------------------
(* The other programs.                                                     *)

Shutdown_Step(os) == In(os, "shutdown", "start") /\ Shutdown(os) /\ Goto(os, "exit")

(* Mutant: md returns without Exit, as the error returns of type.cpp do.   *)
Program_Exit_Not_Md(os) ==
    \/ In(os, "md", "start") /\ Goto(os, "return") /\ UNCHANGED vars
    \/ In(os, "shutdown", "exit") /\ Leave(os, "return")
    \/ In(os, "Signalize_EOF", "exit") /\ Leave(os, "return")

Program_Exit(os) ==
    \/ In(os, "md", "start") /\ Leave(os, "return")
    \/ In(os, "shutdown", "exit") /\ Leave(os, "return")
    \/ In(os, "Signalize_EOF", "exit") /\ Leave(os, "return")

(* Mutant: the program goes on after its entry function has returned.      *)
Program_Return_Again(os) ==
    prog[os].pc = "return" /\ Thread_Return(os) /\ Goto(os, "exit")

Program_Return(os) ==
    /\ prog[os].pc = "return" /\ Thread_Return(os)
    /\ prog' = [prog EXCEPT ![os] = Nothing]
    /\ UNCHANGED sig_eof

User_Types(os) == Read_Command(os) \/ Read_Key(os)

(* The steps an OS thread takes by itself.                                 *)
Thread_Step(os) ==
    \/ os = Boot /\ Boot_Step
    \/ Shell_Step(os) \/ Rgen_Step(os) \/ Shutdown_Step(os)
    \/ Program_Exit(os) \/ Program_Return(os)
    \/ Proceed(os) /\ UNCHANGED <<prog, sig_eof>>

Powered_Off == Off /\ UNCHANGED session_vars

Session_Next ==
    \/ \E os \in OsThreads :
          \/ Thread_Step(os)
          \/ User_Types(os)
          \/ Astray_Step(os) /\ UNCHANGED <<prog, sig_eof>>
    \/ Powered_Off

(* Every OS thread is scheduled; the user need not type anything.          *)
Session_Fairness == \A os \in OsThreads : WF_session_vars(Thread_Step(os))

Session_Spec == Session_Init /\ [][Session_Next]_session_vars /\ Session_Fairness

-----------------------------------------------------------------------------
(* Properties.                                                             *)

SessionTypeOK ==
    /\ TypeOK
    /\ sig_eof \in BOOLEAN
    /\ \A o \in OsThreads : at[o] = "none" => prog[o] = Nothing

(* No call of the real programs makes the controller dereference an absent *)
(* process, thread or caller, or use a thread that was destroyed.          *)
NoFault == ~fault

(* No thread spins in Stop with its own mutex held, none holds             *)
(* process_table_mutex for ever, and none sleeps on a destroyed condition  *)
(* variable.                                                               *)
NobodyAstray == \A o \in OsThreads : at[o] \notin {"spinning", "stuck", "lost"}

(* Whatever a thread still waits for is a live thread that knows of it:    *)
(* waiting_handles and sleeped_handles agree, so that its Exit will end    *)
(* the wait.                                                               *)
WaitersListed ==
    \A p \in Pids, t \in Handles : threads[p][t] # None =>
        \A awaited \in threads[p][t].waiting :
            /\ Known(awaited) /\ ~Exited(awaited)
            /\ t \in threads[Pid_Of(awaited)][awaited].sleeped

(* A thread about to call Exit is found under its own TID, so that the     *)
(* call ends that thread and no other.                                     *)
ExitEndsCaller ==
    \A p \in Pids, t \in Handles :
        threads[p][t] # None /\ threads[p][t].state # "Exited" =>
            /\ at[threads[p][t].os] # "none"
            /\ stdtid_to_tid[threads[p][t].os] = t
            /\ tid_to_pid[t] = p

(* Only threads that have exited are reaped: the shell never takes the     *)
(* entry of a running program away.                                        *)
OnlyExitedReaped ==
    [][\A p \in Pids, t \in Handles :
          threads[p][t] # None /\ threads'[p][t] = None =>
          threads[p][t].state = "Exited"]_session_vars

(* Every program that ends by itself is ended, waited for and reaped.      *)
CommandsReaped ==
    \A p \in Pid!Ids :
        (process_table[p] # None /\ process_table[p].name \in {"md", "shutdown"})
            ~> process_table[p] = None

(* Once Shutdown was called the shell ends, and after it the kernel.       *)
ShutdownEndsKernel == sig_shutdown ~> Off

(* When the kernel is gone, every process and id it gave out is released.  *)
NothingLeft ==
    Off => /\ \A p \in Pids : process_table[p] = None
           /\ pid_table.used = {} /\ tid_table.used = {}

(* The handles that a thread has still to wait for or to reap, unless it   *)
(* has been reaped itself; the garbage of a refused Clone is left out.     *)
Handles_Kept(os) ==
    IF /\ prog[os].pc \in {"create", "wait", "loop", "reap", "close"}
       /\ Known(Get_TID(os))
      THEN {i \in DOMAIN prog[os].handles : prog[os].handles[i] # Unset} ELSE {}

(* Each of them names a thread that has not been reaped, and no two, of    *)
(* one caller or of several, are the same: the TID of a reaped program is  *)
(* reused at once, but never while somebody will still wait for it or reap *)
(* it under the old handle.                                                *)
HandlesOwned ==
    ~fault => \A o \in OsThreads : \A i \in Handles_Kept(o) :
        /\ Known(prog[o].handles[i])
        /\ \A other \in OsThreads : \A j \in Handles_Kept(other) :
              prog[other].handles[j] = prog[o].handles[i] => other = o /\ j = i

(* Wait_For returns as soon as the first of its handles is signalled       *)
(* (api.h:107): at the very least it does not sleep on when all of them    *)
(* have been.                                                              *)
SignalEndsWait ==
    \A o \in OsThreads : at[o] = "waiting" /\ ~fault =>
        \E i \in DOMAIN wait[o].handles :
            Known(wait[o].handles[i]) /\ ~Exited(wait[o].handles[i])

(* Exit as api.h:112 documents it: it ends the process or thread that      *)
(* calls it.                                                               *)
ExitEnds ==
    \A p \in Pids, t \in Handles :
        threads[p][t] # None /\ prog[threads[p][t].os].pc = "return" =>
            threads[p][t].state = "Exited"
=============================================================================
