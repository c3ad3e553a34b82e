--------------------------- MODULE Session_proofs ---------------------------
(***************************************************************************)
(* Proofs about every session, whatever is typed: any pipelines, spurious  *)
(* wakeups and reused OS thread ids.                                       *)
(***************************************************************************)
EXTENDS Session, ProcessController_proofs, SequenceTheorems

-----------------------------------------------------------------------------
(* Whatever the session: its programs only make calls that Any_Call        *)
(* allows, so that what is proved of the controller holds for them.        *)

Words == Programs \cup {"cd"}
Names == Programs \cup {"none", "kernel", "Signalize_EOF"}
Pcs == {"none", "start", "prompt", "clear", "create", "loop", "wait", "reap", "close",
        "exit", "remove", "return", "off"}

Frames == [name : Names, pc : Pcs, todo : Seq(Words), handles : Seq(Handles)]

ProgTypes == prog \in [OsThreads -> Frames]

(* Whoever is about to wait for or to reap a handle has one.               *)
HandlesHeld ==
    \A o \in OsThreads :
        /\ \/ prog[o].pc = "reap"
           \/ prog[o].name = "kernel" /\ prog[o].pc \in {"wait", "close"}
           \/ prog[o].name = "rgen" /\ prog[o].pc \in {"loop", "wait"}
           => prog[o].handles # <<>>
        /\ prog[o].name = "shell" /\ prog[o].pc = "create"
           => prog[o].todo # <<>> \/ prog[o].handles # <<>>

ProgIInv == ProgTypes /\ HandlesHeld

(* The first of some handles is a handle.                                  *)
LEMMA FirstHandle ==
    ASSUME NEW handles \in Seq(Handles), handles # <<>>
    PROVE  handles[1] \in Handles /\ Head(handles) \in Handles
           /\ Head(handles) = handles[1] /\ Tail(handles) \in Seq(Handles)
OBVIOUS

LEMMA OneMoreHandle ==
    ASSUME NEW handles \in Seq(Handles), NEW handle \in Handles
    PROVE  Append(handles, handle) \in Seq(Handles) /\ Append(handles, handle) # <<>>
BY AppendProperties

(* A started program.                                                      *)
LEMMA StartedTypes ==
    ASSUME NEW name \in Names
    PROVE  /\ Started(name) \in Frames
           /\ Started(name).name = name /\ Started(name).pc = "start"
           /\ Nothing \in Frames
           /\ Nothing.name = "none" /\ Nothing.pc = "none"
<1>1. /\ Started(name) \in Frames /\ Started("none") \in Frames
      /\ Started(name).name = name /\ Started(name).pc = "start"
  BY DEF Started, Frames, Names, Pcs
<1>2. Nothing = [name |-> "none", pc |-> "none", todo |-> <<>>, handles |-> <<>>]
  BY DEF Started, Nothing
<1> QED  BY <1>1, <1>2 DEF Frames, Names, Pcs

LEMMA InitProg == Session_Init => ProgIInv
<1>1. "kernel" \in Names /\ "none" \in Names
  BY DEF Names
<1> QED  BY <1>1, StartedTypes DEF Session_Init, ProgIInv, ProgTypes, HandlesHeld

(* A program that moves on, keeping what it holds or holding something.    *)
LEMMA MoveKeepsProg ==
    ASSUME ProgIInv, NEW os \in OsThreads,
           NEW next \in Frames,
           prog' = [prog EXCEPT ![os] = next],
           \/ next.handles # <<>>
           \/ next.name = "shell" /\ next.pc = "create" /\ next.todo # <<>>
           \/ next.pc \notin {"reap", "wait", "close", "loop", "create"}
           \/ next.name # "shell" /\ next.pc \notin {"reap", "wait", "close", "loop"}
    PROVE  ProgIInv'
BY DEF ProgIInv, ProgTypes, HandlesHeld, Frames

LEMMA GotoKeepsProg ==
    ASSUME ProgIInv, NEW os \in OsThreads, NEW pc \in Pcs, Goto(os, pc),
           \/ prog[os].handles # <<>>
           \/ pc \notin {"reap", "wait", "close", "loop", "create"}
           \/ prog[os].name # "shell" /\ pc \notin {"reap", "wait", "close", "loop"}
    PROVE  ProgIInv'
<1> DEFINE next == [prog[os] EXCEPT !.pc = pc]
<1>1. prog' = [prog EXCEPT ![os] = next]
  BY DEF Goto
<1>2. /\ next \in Frames
      /\ next.handles = prog[os].handles /\ next.pc = pc /\ next.name = prog[os].name
  BY DEF ProgIInv, ProgTypes, Frames
<1> HIDE DEF next
<1> QED  BY <1>1, <1>2, MoveKeepsProg

(* The caller of Clone once it has its handle.                             *)
Caller(os, pc, todo, handle) ==
    [prog[os] EXCEPT !.pc = pc, !.todo = todo, !.handles = Append(@, handle)]

LEMMA LaunchKeepsProg ==
    ASSUME ProgIInv, NEW os \in OsThreads, NEW name \in Names, NEW pc \in Pcs,
           NEW todo \in Seq(Words), NEW handle \in Handles, NEW new \in OsThreads,
           \/ prog' = [prog EXCEPT ![os] = Caller(os, pc, todo, handle)]
           \/ prog' = [prog EXCEPT ![os] = Caller(os, pc, todo, handle), ![new] = Started(name)]
    PROVE  ProgIInv'
<1> DEFINE caller == Caller(os, pc, todo, handle)
<1>1. caller \in Frames /\ caller.handles # <<>>
  BY OneMoreHandle DEF Caller, ProgIInv, ProgTypes, Frames
<1>2. Started(name) \in Frames /\ Started(name).pc = "start"
  BY StartedTypes
<1>3. CASE prog' = [prog EXCEPT ![os] = caller]
  <2> HIDE DEF caller
  <2> QED  BY <1>1, <1>3, MoveKeepsProg
<1>4. CASE prog' = [prog EXCEPT ![os] = caller, ![new] = Started(name)]
  <2> HIDE DEF caller
  <2>1. ProgTypes'
    BY <1>1, <1>2, <1>4 DEF ProgIInv, ProgTypes
  <2>2. ASSUME NEW o \in OsThreads
        PROVE  \/ prog'[o] = prog[o]
               \/ prog'[o].handles # <<>>
               \/ prog'[o].pc = "start"
    BY <1>1, <1>2, <1>4 DEF ProgIInv, ProgTypes
  <2> QED  BY <2>1, <2>2 DEF ProgIInv, HandlesHeld
<1> QED  BY <1>3, <1>4

LEMMA LaunchProcessIsCall ==
    ASSUME ProgIInv, NEW os \in OsThreads, NEW name \in Programs, NEW pc \in Pcs,
           NEW todo \in Seq(Words), Launch_Process(os, name, pc, todo)
    PROVE  Any_Call(os) /\ ProgIInv'
<1>0. name \in Names
  BY DEF Names
<1>1. PICK handle \in Handles :
         \/ /\ Create_Refused(os, handle)
            /\ prog' = [prog EXCEPT ![os] = Caller(os, pc, todo, handle)]
         \/ \E new \in OsThreads :
               /\ Create_Process(os, name, new, handle)
               /\ prog' = [prog EXCEPT ![os] = Caller(os, pc, todo, handle),
                                       ![new] = Started(name)]
  BY DEF Launch_Process, Launch, Caller
<1>2. Any_Call(os)
  BY <1>1 DEF Any_Call
<1>3. ProgIInv'
  BY <1>0, <1>1, LaunchKeepsProg
<1> QED  BY <1>2, <1>3

LEMMA LaunchThreadIsCall ==
    ASSUME ProgIInv, NEW os \in OsThreads, Launch_Thread(os, "Signalize_EOF", "loop")
    PROVE  Any_Call(os) /\ ProgIInv'
<1>1. PICK handle \in Handles :
         \/ /\ Create_Refused(os, handle) \/ Create_Thread_Refused(os, handle)
            /\ prog' = [prog EXCEPT ![os] = Caller(os, "loop", <<>>, handle)]
         \/ \E new \in OsThreads :
               /\ Create_Thread(os, new, handle)
               /\ prog' = [prog EXCEPT ![os] = Caller(os, "loop", <<>>, handle),
                                       ![new] = Started("Signalize_EOF")]
  BY DEF Launch_Thread, Launch, Caller
<1>2. Any_Call(os)
  BY <1>1 DEF Any_Call
<1>3. ProgIInv'
  <2>1. <<>> \in Seq(Words) /\ "loop" \in Pcs /\ "Signalize_EOF" \in Names
    BY DEF Pcs, Names
  <2> QED  BY <1>1, <2>1, LaunchKeepsProg
<1> QED  BY <1>2, <1>3

LEMMA WaitIsCall ==
    ASSUME ProgIInv, NEW os \in OsThreads, NEW pc \in {"close", "reap"},
           Wait_For_All(os, pc), prog[os].handles # <<>>
    PROVE  Any_Call(os) /\ ProgIInv'
<1>1. prog[os].handles \in Seq(Handles)
  BY DEF ProgIInv, ProgTypes, Frames
<1>2. Any_Call(os)
  BY <1>1 DEF Wait_For_All, Any_Call
<1>3. ProgIInv'
  BY GotoKeepsProg DEF Pcs, Wait_For_All
<1> QED  BY <1>2, <1>3

LEMMA ReapIsCall ==
    ASSUME NEW os \in OsThreads, NEW tid \in Handles, Reap(os, tid)
    PROVE  Any_Call(os)
BY DEF Reap, Any_Call

LEMMA LeaveIsCall ==
    ASSUME ProgIInv, NEW os \in OsThreads, NEW pc \in {"return", "remove", "off"}, Leave(os, pc)
    PROVE  Any_Call(os) /\ ProgIInv'
<1>1. Any_Call(os)
  BY DEF Leave, Any_Call
<1>2. ProgIInv'
  BY GotoKeepsProg DEF Pcs, Leave
<1> QED  BY <1>1, <1>2

LEMMA BootIsAny ==
    ASSUME ProgIInv, Boot_Step
    PROVE  [Any_Next]_vars /\ ProgIInv'
<1>0. Boot \in OsThreads /\ "shell" \in Programs
  BY ControllerAssumption
<1>1. CASE Shell_Clone
  <2>1. "shell" \in Programs /\ "wait" \in Pcs /\ <<>> \in Seq(Words)
    BY <1>0 DEF Pcs
  <2> QED  BY <1>0, <1>1, <2>1, LaunchProcessIsCall DEF Shell_Clone, Any_Next
<1>2. CASE Shell_Wait
  <2>1. prog[Boot].handles # <<>>
    BY <1>0, <1>2 DEF Shell_Wait, In, ProgIInv, HandlesHeld
  <2> QED  BY <1>0, <1>2, <2>1, WaitIsCall DEF Shell_Wait, Any_Next
<1>3. CASE Shell_Close
  <2>1. prog[Boot].handles # <<>> /\ prog[Boot].handles \in Seq(Handles)
    BY <1>0, <1>3 DEF Shell_Close, In, ProgIInv, HandlesHeld, ProgTypes, Frames
  <2>2. Any_Call(Boot)
    BY <1>0, <1>3, <2>1, FirstHandle, ReapIsCall DEF Shell_Close
  <2>3. ProgIInv'
    BY <1>0, <1>3, <2>1, GotoKeepsProg DEF Shell_Close, Pcs
  <2> QED  BY <1>0, <2>2, <2>3 DEF Any_Next
<1>4. CASE Remove_Kernel_Process
  <2>1. CASE Leave(Boot, "remove")
    BY <1>0, <2>1, LeaveIsCall DEF Any_Next
  <2>2. CASE Reap(Boot, TidMin) /\ Goto(Boot, "off")
    <3>1. TidMin \in Handles
      BY IdFacts
    <3>2. ProgIInv'
      BY <1>0, <2>2, GotoKeepsProg DEF Pcs
    <3> QED  BY <1>0, <2>2, <3>1, <3>2, ReapIsCall DEF Any_Next
  <2> QED  BY <1>4, <2>1, <2>2 DEF Remove_Kernel_Process
<1> QED  BY <1>1, <1>2, <1>3, <1>4 DEF Boot_Step

LEMMA ShellIsAny ==
    ASSUME ProgIInv, NEW os \in OsThreads, Shell_Step(os)
    PROVE  [Any_Next]_vars /\ ProgIInv'
<1>0. prog[os] \in Frames
  BY DEF ProgIInv, ProgTypes
<1>1. CASE Shell_Start(os)
  <2>1. Register_Signal_Handler(os, "sig_shutdown") /\ "sig_shutdown" \in Flags
    BY <1>1, SessionAssumption DEF Shell_Start
  <2>2. ProgIInv'
    BY <1>1, GotoKeepsProg DEF Shell_Start, Pcs
  <2> QED  BY <2>1, <2>2 DEF Any_Call, Any_Next
<1>2. CASE Change_Directory(os)
  <2>1. ProgIInv'
    BY <1>2, GotoKeepsProg DEF Change_Directory, Next_Prompt, Pcs
  <2> QED  BY <1>2, <2>1 DEF Change_Directory
<1>3. CASE Create_Command(os)
  <2>1. /\ prog[os].todo \in Seq(Words) /\ prog[os].todo # <<>>
        /\ Head(prog[os].todo) # "cd"
        /\ Launch_Process(os, Head(prog[os].todo), "create", Tail(prog[os].todo))
    BY <1>0, <1>3 DEF Create_Command, Frames
  <2>2. /\ Head(prog[os].todo) \in Programs /\ Tail(prog[os].todo) \in Seq(Words)
        /\ "create" \in Pcs
    BY <2>1 DEF Words, Pcs
  <2>3. Any_Call(os) /\ ProgIInv'
    BY <2>1, <2>2, LaunchProcessIsCall
  <2> QED  BY <2>3 DEF Any_Next
<1>4. CASE Wait_For_Commands(os)
  <2>1. prog[os].handles # <<>>
    BY <1>4 DEF Wait_For_Commands, In, ProgIInv, HandlesHeld
  <2> QED  BY <1>4, <2>1, WaitIsCall DEF Wait_For_Commands, Any_Next
<1>5. CASE Reap_Command(os)
  <2> DEFINE left == Tail(prog[os].handles)
  <2> DEFINE next == [prog[os] EXCEPT !.handles = left,
                                      !.pc = IF left = <<>> THEN Next_Prompt ELSE "reap"]
  <2>1. prog[os].handles # <<>> /\ prog[os].handles \in Seq(Handles)
    BY <1>0, <1>5 DEF Reap_Command, In, ProgIInv, HandlesHeld, Frames
  <2>2. Head(prog[os].handles) \in Handles /\ left \in Seq(Handles)
    BY <2>1, FirstHandle
  <2>3. Any_Call(os)
    BY <1>5, <2>2, ReapIsCall DEF Reap_Command
  <2>4. /\ prog' = [prog EXCEPT ![os] = next]
        /\ next \in Frames /\ next.handles = left /\ next.name = prog[os].name
        /\ next.pc = IF left = <<>> THEN Next_Prompt ELSE "reap"
    BY <1>0, <1>5, <2>2 DEF Reap_Command, Next_Prompt, Frames, Pcs
  <2>5. ProgIInv'
    <3> HIDE DEF next, left
    <3> QED  BY <2>4, MoveKeepsProg DEF Next_Prompt
  <2> QED  BY <2>3, <2>5 DEF Any_Next
<1>6. CASE In(os, "shell", "exit") /\ Leave(os, "return")
  BY <1>6, LeaveIsCall DEF Any_Next
<1> QED  BY <1>1, <1>2, <1>3, <1>4, <1>5, <1>6 DEF Shell_Step

LEMMA RgenIsAny ==
    ASSUME ProgIInv, NEW os \in OsThreads, Rgen_Step(os)
    PROVE  [Any_Next]_vars /\ ProgIInv'
<1>0. prog[os] \in Frames
  BY DEF ProgIInv, ProgTypes
<1>1. CASE /\ Register_Signal_Handler(os, "sig_terminate")
           /\ Goto(os, "clear")
  <2>1. ProgIInv' /\ "sig_terminate" \in Flags
    BY <1>1, GotoKeepsProg, SessionAssumption DEF Pcs
  <2> QED  BY <1>1, <2>1 DEF Any_Call, Any_Next
<1>2. CASE /\ In(os, "rgen", "clear")
           /\ prog' = [prog EXCEPT ![os].pc = "create"]
           /\ UNCHANGED vars
  <2> DEFINE next == [prog[os] EXCEPT !.pc = "create"]
  <2>1. next \in Frames /\ next.pc = "create" /\ next.name # "shell"
    BY <1>0, <1>2 DEF In, Frames, Pcs
  <2>2. ProgIInv'
    <3>1. prog' = [prog EXCEPT ![os] = next]
      BY <1>2
    <3> HIDE DEF next
    <3> QED  BY <2>1, <3>1, MoveKeepsProg
  <2> QED  BY <1>2, <2>2
<1>3. CASE Launch_Thread(os, "Signalize_EOF", "loop")
  BY <1>3, LaunchThreadIsCall DEF Any_Next
<1>4. CASE Rgen_Loop(os)
  <2>1. prog[os].handles # <<>>
    BY <1>4 DEF Rgen_Loop, In, ProgIInv, HandlesHeld
  <2>2. ProgIInv'
    BY <1>4, <2>1, GotoKeepsProg DEF Rgen_Loop, Pcs
  <2> QED  BY <1>4, <2>2 DEF Rgen_Loop
<1>5. CASE Rgen_End(os)
  <2>1. CASE In(os, "rgen", "wait") /\ Wait_For_All(os, "reap")
    <3>1. prog[os].handles # <<>>
      BY <2>1 DEF In, ProgIInv, HandlesHeld
    <3> QED  BY <2>1, <3>1, WaitIsCall DEF Any_Next
  <2>2. CASE In(os, "rgen", "reap") /\ Reap(os, prog[os].handles[1]) /\ Goto(os, "exit")
    <3>1. prog[os].handles # <<>> /\ prog[os].handles \in Seq(Handles)
      BY <1>0, <2>2 DEF In, ProgIInv, HandlesHeld, Frames
    <3>2. Any_Call(os)
      BY <2>2, <3>1, FirstHandle, ReapIsCall
    <3>3. ProgIInv'
      BY <2>2, <3>1, GotoKeepsProg DEF Pcs
    <3> QED  BY <3>2, <3>3 DEF Any_Next
  <2>3. CASE Leave(os, "return")
    BY <2>3, LeaveIsCall DEF Any_Next
  <2> QED  BY <1>5, <2>1, <2>2, <2>3 DEF Rgen_End
<1> QED  BY <1>1, <1>2, <1>3, <1>4, <1>5 DEF Rgen_Step, Rgen_Start

LEMMA ThreadIsAny ==
    ASSUME ProgIInv, NEW os \in OsThreads, Thread_Step(os)
    PROVE  [Any_Next]_vars /\ ProgIInv'
<1>1. CASE Boot_Step
  BY <1>1, BootIsAny
<1>2. CASE Shell_Step(os) \/ Rgen_Step(os)
  BY <1>2, ShellIsAny, RgenIsAny
<1>3. CASE Shutdown_Step(os)
  <2>1. ProgIInv'
    BY <1>3, GotoKeepsProg DEF Shutdown_Step, Pcs
  <2> QED  BY <1>3, <2>1 DEF Shutdown_Step, Any_Call, Any_Next
<1>4. CASE Program_Exit(os)
  BY <1>4, LeaveIsCall DEF Program_Exit, Any_Next
<1>5. CASE Program_Return(os)
  <2>1. "none" \in Names
    BY DEF Names
  <2>2. ProgIInv'
    BY <1>5, <2>1, StartedTypes, MoveKeepsProg DEF Program_Return
  <2> QED  BY <1>5, <2>2 DEF Program_Return, Any_Call, Any_Next
<1>6. CASE Proceed(os) /\ UNCHANGED <<prog, sig_eof>>
  BY <1>6 DEF Any_Next, ProgIInv, ProgTypes, HandlesHeld
<1> QED  BY <1>1, <1>2, <1>3, <1>4, <1>5, <1>6 DEF Thread_Step

LEMMA UserIsAny ==
    ASSUME ProgIInv, NEW os \in OsThreads, User_Types(os)
    PROVE  [Any_Next]_vars /\ ProgIInv'
<1>0. prog[os] \in Frames
  BY DEF ProgIInv, ProgTypes
<1>1. CASE Goto(os, "exit") /\ UNCHANGED vars
  BY <1>1, GotoKeepsProg DEF Pcs
<1>2. ASSUME NEW n \in 1 .. MaxPipeline, NEW line \in [1 .. n -> Typed(os)],
             prog' = [prog EXCEPT ![os].pc = "create", ![os].todo = line,
                                  ![os].handles = <<>>],
             UNCHANGED vars
      PROVE  [Any_Next]_vars /\ ProgIInv'
  <2> DEFINE next == [prog[os] EXCEPT !.pc = "create", !.todo = line, !.handles = <<>>]
  <2>1. line \in Seq(Words) /\ line # <<>>
    <3>1. Typed(os) \subseteq Words
      BY SessionAssumption DEF Typed, Words
    <3>2. line \in [1 .. n -> Words] /\ n \in Nat /\ n > 0
      BY <3>1
    <3> QED  BY <3>2
  <2>2. prog' = [prog EXCEPT ![os] = next]
    BY <1>2
  <2>3. next \in Frames /\ next.todo # <<>> /\ next.pc = "create"
    <3>1. <<>> \in Seq(Handles) /\ "create" \in Pcs
      BY DEF Pcs
    <3> QED  BY <1>0, <2>1, <3>1 DEF Frames
  <2>4. ProgIInv'
    <3> HIDE DEF next
    <3>1. next.name = "shell" \/ next.name # "shell"
      OBVIOUS
    <3> QED  BY <2>2, <2>3, <3>1, MoveKeepsProg
  <2> QED  BY <1>2, <2>4
<1>3. CASE Read_Key(os)
  <2> DEFINE next == [prog[os] EXCEPT !.pc = "exit"]
  <2>1. prog' = [prog EXCEPT ![os] = next] /\ next \in Frames /\ next.pc = "exit"
    BY <1>0, <1>3 DEF Read_Key, Frames, Pcs
  <2>2. ProgIInv'
    <3> HIDE DEF next
    <3> QED  BY <2>1, MoveKeepsProg
  <2> QED  BY <1>3, <2>2 DEF Read_Key
<1> QED  BY <1>1, <1>2, <1>3 DEF User_Types, Read_Command

LEMMA SessionStepIsAny ==
    ASSUME ProgIInv, [Session_Next]_session_vars
    PROVE  [Any_Next]_vars /\ ProgIInv'
<1>1. CASE UNCHANGED session_vars
  BY <1>1 DEF session_vars, ProgIInv, ProgTypes, HandlesHeld
<1>2. ASSUME NEW os \in OsThreads, Astray_Step(os), UNCHANGED <<prog, sig_eof>>
      PROVE  [Any_Next]_vars /\ ProgIInv'
  BY <1>2 DEF Any_Next, ProgIInv, ProgTypes, HandlesHeld
<1> QED  BY <1>1, <1>2, ThreadIsAny, UserIsAny DEF Session_Next, Powered_Off

(* What was proved of the controller under any calls holds in every        *)
(* session: the id tables, the maps and the sleepers vouch for each other. *)
THEOREM SessionInvariance == Session_Spec => [](IInv /\ ProgIInv)
<1>1. Session_Init => IInv /\ ProgIInv
  BY InitIInv, InitProg DEF Session_Init
<1>2. IInv /\ ProgIInv /\ [Session_Next]_session_vars => (IInv /\ ProgIInv)'
  BY SessionStepIsAny, NextKeeps
<1> QED  BY <1>1, <1>2, PTL DEF Session_Spec

(* In every session, with whatever pipelines, spurious wakeups and reused  *)
(* OS thread ids, Shutdown reaches every program that registers a handler. *)
THEOREM SessionSignals == Session_Spec => []SignalsDelivered
<1>1. Session_Init => SignalsDelivered
  BY DEF Session_Init, Init, SignalsDelivered
<1>2. IInv /\ ProgIInv /\ SignalsDelivered /\ [Session_Next]_session_vars => SignalsDelivered'
  BY SessionStepIsAny, NextSignals
<1> QED  BY <1>1, <1>2, SessionInvariance, PTL DEF Session_Spec
=============================================================================
