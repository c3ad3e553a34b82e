------------------------- MODULE ProcessController -------------------------
(***************************************************************************)
(* The process controller of the simulated kernel: Process_Controller with *)
(* the Process and Thread objects it owns (src/src/kernel/                 *)
(* process_controller.cpp, process.cpp, thread.cpp).                       *)
(*                                                                         *)
(* The actors are OS threads.  A syscall of NOS_Process holds              *)
(* process_table_mutex from its first to its last line, so it is one step  *)
(* of the calling OS thread, except Wait_For: it reads who it is before    *)
(* it takes the mutex, registers under it, sleeps in Thread::Stop without  *)
(* it and takes it again to read the result.  These are the actions        *)
(* Wait_For, Register_Handles, Stop, Mark and Wait_For_Return.             *)
(*                                                                         *)
(* A std::map is a total function with None for an absent key.  A null     *)
(* dereference, or any other undefined behaviour the code runs into, sets  *)
(* fault, and nothing is said of what happens then.                        *)
(***************************************************************************)
EXTENDS Naturals, Sequences, FiniteSets

CONSTANTS
    PidCount,         \* MAX_PID_COUNT
    TidMin,           \* MIN_TID
    TidCount,         \* MAX_TID_COUNT
    NoId,             \* 65535, the id an exhausted table hands out
    Unset,            \* rax of a call that returned without setting it (0x0201)
    OsThreads,        \* the thread ids the operating system gives out
    Boot,             \* the OS thread that runs Bootstrap_Loader
    Programs,         \* the names of the entry points in user.dll
    Flags,            \* what signal handlers set: one flag of user.dll each
    None,             \* the absent entry of a map
    Given,            \* the handles that callers pass to Wait_For and Read_Exit_Code
    Arrays,           \* the arrays of handles that callers pass to Wait_For
    SpuriousWakeups   \* whether condition_variable::wait may return by itself

Pid == INSTANCE IdAllocator WITH Min <- 0, Count <- PidCount
Tid == INSTANCE IdAllocator WITH Min <- TidMin, Count <- TidCount

Pids == Pid!Ids \cup {NoId}
Handles == Tid!Ids \cup {0, Unset, NoId}

States == {"Running", "Blocked", "Exited"}      \* State.h; Ready is never seen

Processes == [name : Programs \cup {"kernel"}, process_tid : Handles, state : States]

Threads == [state    : States,
            waiting  : SUBSET Handles,          \* keys of waiting_handles
            sleeped  : SUBSET Handles,          \* keys of sleeped_handles
            handler  : Flags \cup {None},       \* terminate_handles[Terminate]
            waked_by : Handles,                 \* waked_by_handler
            os       : OsThreads]               \* std_tid

(* Where an OS thread is: not started or ended, running a program, between *)
(* the calls of Wait_For, or gone astray for good ("stuck" owns            *)
(* process_table_mutex and waits for a thread's mutex, "lost" uses a       *)
(* thread that no longer exists).                                          *)
Places == {"none", "user", "register", "stop", "marking", "waiting", "woken",
           "spinning", "stopped", "stuck", "lost"}

ASSUME ControllerAssumption ==
    /\ PidCount \in Nat \ {0} /\ TidCount \in Nat \ {0} /\ TidMin \in Nat \ {0}
    /\ TidMin % TidCount = 0
    /\ NoId \in Nat /\ NoId > PidCount /\ NoId > TidMin + TidCount
    /\ Unset \in Nat \ (Tid!Ids \cup {0, NoId})
    /\ Boot \in OsThreads /\ "shell" \in Programs
    /\ Given \subseteq Handles /\ Arrays \subseteq Seq(Given)
    /\ SpuriousWakeups \in BOOLEAN
    /\ None \notin Pids \cup Handles \cup Processes \cup Threads \cup Flags

VARIABLES
    pid_table, tid_table,   \* used_pid and free_pid, used_tid and free_tid
    process_table,          \* PID -> process
    threads,                \* PID -> TID -> thread, the maps Process::threads
    tid_to_pid,             \* TID -> PID
    stdtid_to_tid,          \* OS thread -> TID
    sig_shutdown,           \* Shutdown was called
    raised,                 \* the flags of user.dll that signal handlers have set
    at,                     \* OS thread -> place
    wait,                   \* OS thread -> pid, tid and handles of its Wait_For
    fault                   \* undefined behaviour was reached

ids == <<pid_table, tid_table>>
maps == <<process_table, threads, tid_to_pid, stdtid_to_tid>>
signals == <<sig_shutdown, raised>>
vars == <<ids, maps, signals, at, wait, fault>>

Idle == [pid |-> 0, tid |-> 0, handles |-> <<>>]

New_Thread(os) == [state |-> "Running", waiting |-> {}, sleeped |-> {},
                   handler |-> None, waked_by |-> 0, os |-> os]

(* Create_Kernel_Process: the boot thread is the kernel's only thread.     *)
Init ==
    /\ pid_table = Pid!Get_Free(Pid!Empty_Table, 0)
    /\ tid_table = Tid!Get_Free(Tid!Empty_Table, TidMin)
    /\ process_table = [p \in Pids |->
          IF p = 0 THEN [name |-> "kernel", process_tid |-> TidMin, state |-> "Running"]
                   ELSE None]
    /\ threads = [p \in Pids |-> [t \in Handles |->
          IF p = 0 /\ t = TidMin THEN New_Thread(Boot) ELSE None]]
    /\ tid_to_pid = [t \in Handles |-> IF t = TidMin THEN 0 ELSE None]
    /\ stdtid_to_tid = [o \in OsThreads |-> IF o = Boot THEN TidMin ELSE None]
    /\ sig_shutdown = FALSE /\ raised = {}
    /\ at = [o \in OsThreads |-> IF o = Boot THEN "user" ELSE "none"]
    /\ wait = [o \in OsThreads |-> Idle]
    /\ fault = FALSE

-----------------------------------------------------------------------------
(* Lookups.                                                                *)

Insert(map, key, value) ==           \* std::map::insert keeps an old value
    IF map[key] = None THEN [map EXCEPT ![key] = value] ELSE map

Get_TID(os) == IF stdtid_to_tid[os] = None THEN 0 ELSE stdtid_to_tid[os]
Looked_Up(os) == Insert(stdtid_to_tid, os, 0)   \* operator[] inserts the 0

Pid_Of(tid) == IF tid_to_pid[tid] = None THEN 0 ELSE tid_to_pid[tid]

Known(tid) == tid_to_pid[tid] # None /\ threads[tid_to_pid[tid]][tid] # None

Exist_TID(tid) == IF tid_to_pid[tid] = None THEN 0 ELSE tid

Table_Unlocked == \A o \in OsThreads : at[o] # "stuck"

Calling(os) == ~fault /\ at[os] = "user"
Locking(os) == Calling(os) /\ Table_Unlocked

Crash == fault' = TRUE /\ UNCHANGED <<ids, maps, signals, at, wait>>

-----------------------------------------------------------------------------
(* Clone.  The last argument is the handle the caller finds in rax.        *)

Create_Refused(os, handle) ==        \* sig_shutdown: rax is left as it was
    /\ Locking(os) /\ sig_shutdown /\ handle = Unset
    /\ UNCHANGED vars

(* The working directory is read from the caller's process, found through  *)
(* Get_PID: both lookups are unchecked.                                    *)
Caller_Has_Process(os) ==
    /\ tid_to_pid[Get_TID(os)] # None
    /\ process_table[tid_to_pid[Get_TID(os)]] # None

Create_Process(os, name, new, tid) ==
    /\ Locking(os) /\ ~sig_shutdown /\ at[new] = "none"
    /\ Tid!Is_Next_Free(tid_table, tid)
    /\ \/ ~Caller_Has_Process(os) /\ Crash
       \/ /\ Caller_Has_Process(os)
          /\ tid_table' = Tid!Get_Free(tid_table, tid)
          /\ \E pid \in Pids :
                /\ Pid!Is_Next_Free(pid_table, pid)
                /\ pid_table' = Pid!Get_Free(pid_table, pid)
                /\ process_table' = Insert(process_table, pid,
                      [name |-> name, process_tid |-> tid, state |-> "Running"])
                /\ threads' = IF process_table[pid] = None
                                THEN [threads EXCEPT ![pid][tid] = New_Thread(new)]
                                ELSE threads
                /\ tid_to_pid' = Insert(tid_to_pid, tid, pid)
          /\ stdtid_to_tid' = Insert(Looked_Up(os), new, tid)
          /\ at' = [at EXCEPT ![new] = "user"]
          /\ UNCHANGED <<signals, wait, fault>>

(* A TID is taken before the process is looked up, and not given back when *)
(* the process is gone.                                                    *)
Create_Thread_Refused(os, handle) ==
    LET pid == tid_to_pid[Get_TID(os)] IN
    /\ Locking(os) /\ ~sig_shutdown /\ handle = Unset
    /\ stdtid_to_tid' = Looked_Up(os)
    /\ \/ pid = None /\ UNCHANGED tid_table
       \/ /\ pid # None /\ process_table[pid] = None
          /\ \E tid \in Handles : /\ Tid!Is_Next_Free(tid_table, tid)
                                  /\ tid_table' = Tid!Get_Free(tid_table, tid)
    /\ UNCHANGED <<pid_table, process_table, threads, tid_to_pid, signals,
                   at, wait, fault>>

Create_Thread(os, new, tid) ==
    LET pid == tid_to_pid[Get_TID(os)] IN
    /\ Locking(os) /\ ~sig_shutdown /\ at[new] = "none"
    /\ Tid!Is_Next_Free(tid_table, tid)
    /\ pid # None /\ process_table[pid] # None
    /\ tid_table' = Tid!Get_Free(tid_table, tid)
    /\ process_table' = [process_table EXCEPT ![pid].state = "Running"]
    /\ threads' = [threads EXCEPT ![pid] = Insert(@, tid, New_Thread(new))]
    /\ tid_to_pid' = Insert(tid_to_pid, tid, pid)
    /\ stdtid_to_tid' = Insert(Looked_Up(os), new, tid)
    /\ at' = [at EXCEPT ![new] = "user"]
    /\ UNCHANGED <<pid_table, signals, wait, fault>>

(* Mutant: the TID of an OS thread that ends is given back before anyone   *)
(* has reaped the thread.                                                  *)
Thread_Return_Frees(os) ==
    /\ Calling(os) /\ os # Boot
    /\ at' = [at EXCEPT ![os] = "none"]
    /\ tid_table' = Tid!Set_Free_All(tid_table, {Get_TID(os)} \cap Tid!Ids)
    /\ UNCHANGED <<pid_table, maps, signals, wait, fault>>

(* The entry function of a thread returns and its OS thread ends: its id   *)
(* may be given to a later thread.                                         *)
Thread_Return(os) ==
    /\ Calling(os) /\ os # Boot
    /\ at' = [at EXCEPT ![os] = "none"]
    /\ UNCHANGED <<ids, maps, signals, wait, fault>>

-----------------------------------------------------------------------------
(* Wait_For.                                                               *)

(* Get_TID and Get_PID run before the mutex is taken.                      *)
Wait_For(os, handles) ==
    /\ Calling(os)
    /\ \/ tid_to_pid[Get_TID(os)] = None /\ Crash
       \/ /\ tid_to_pid[Get_TID(os)] # None
          /\ wait' = [wait EXCEPT ![os] = [pid |-> tid_to_pid[Get_TID(os)],
                                         tid |-> Get_TID(os),
                                         handles |-> handles]]
          /\ at' = [at EXCEPT ![os] = "register"]
          /\ stdtid_to_tid' = Looked_Up(os)
          /\ UNCHANGED <<ids, process_table, threads, tid_to_pid, signals, fault>>

Missing(tid) == threads[Pid_Of(tid)][tid] = None
(* Mutant: whatever is not running counts as ended.                        *)
Exited_Unless_Running(tid) ==
    ~Missing(tid) /\ threads[Pid_Of(tid)][tid].state # "Running"

Exited(tid) == /\ ~Missing(tid)
               /\ \/ process_table[Pid_Of(tid)].state = "Exited"
                  \/ threads[Pid_Of(tid)][tid].state = "Exited"

(* Mutant: the awaited thread is looked up in the waiter's own process.    *)
Linked_In_Own_Process(p, t, waiter, registered) ==
    IF threads[p][t] = None THEN None
    ELSE [threads[p][t] EXCEPT
            !.waiting = IF p = waiter.pid /\ t = waiter.tid
                          THEN @ \cup registered ELSE @,
            !.sleeped = IF t \in registered /\ p = waiter.pid
                          THEN @ \cup {waiter.tid} ELSE @]

(* Thread (p, t) once the waiter has registered itself with the handles.   *)
Linked(p, t, waiter, registered) ==
    IF threads[p][t] = None THEN None
    ELSE [threads[p][t] EXCEPT
            !.waiting = IF p = waiter.pid /\ t = waiter.tid
                          THEN @ \cup registered ELSE @,
            !.sleeped = IF t \in registered /\ p = Pid_Of(t)
                          THEN @ \cup {waiter.tid} ELSE @]

(* The loop registers handle after handle and returns at the first one     *)
(* that is missing or has exited: those before it stay registered.         *)
(* tid_to_pid[handles[i]] inserts PID 0 for a TID it does not know.        *)
Register_Handles(os) ==
    /\ ~fault /\ at[os] = "register" /\ Table_Unlocked
    /\ \E n \in 0 .. Len(wait[os].handles) :
       LET handles == wait[os].handles
           registered == {handles[i] : i \in 1 .. n}
           done == n = Len(handles)
           last == handles[n + 1]
           seen == registered \cup (IF done THEN {} ELSE {last})
       IN  /\ \A tid \in registered : ~Missing(tid) /\ ~Exited(tid)
           /\ ~done => Missing(last) \/ Exited(last)
           /\ IF n > 0 /\ threads[wait[os].pid][wait[os].tid] = None
                THEN Crash
                ELSE /\ threads' = [p \in Pids |-> [t \in Handles |->
                                      Linked(p, t, wait[os], registered)]]
                     /\ tid_to_pid' = [t \in Handles |->
                          IF t \in seen THEN Pid_Of(t) ELSE tid_to_pid[t]]
                     /\ at' = [at EXCEPT ![os] = IF done THEN "stop" ELSE "user"]
                     /\ wait' = [wait EXCEPT ![os] = IF done THEN @ ELSE Idle]
                     /\ UNCHANGED <<ids, process_table, stdtid_to_tid, signals, fault>>

(* OS thread o is inside Stop of thread (p, t) and owns the thread's mutex *)
(* from one step to the next.                                              *)
Holds(o, p, t) ==
    at[o] \in {"marking", "spinning"} /\ wait[o].pid = p /\ wait[o].tid = t

(* Thread::Stop, the test of its loop, with the thread's mutex taken.  A   *)
(* round that finds the state Running goes on to mark it; one that finds   *)
(* handles left and another state keeps the mutex and spins.               *)
Stop(os) ==
    LET pid == wait[os].pid
        tid == wait[os].tid
        thread == threads[pid][tid]
    IN /\ ~fault /\ at[os] \in {"stop", "woken", "spinning"}
       /\ \A o \in OsThreads \ {os} : ~Holds(o, pid, tid)
       /\ \/ thread = None /\ Crash
          \/ /\ thread # None
             /\ \/ /\ thread.waiting = {}
                   /\ at' = [at EXCEPT ![os] = "stopped"]
                \/ /\ thread.waiting # {} /\ thread.state = "Running"
                   /\ at' = [at EXCEPT ![os] = "marking"]
                \/ /\ thread.waiting # {} /\ thread.state # "Running"
                   /\ at[os] # "spinning"
                   /\ at' = [at EXCEPT ![os] = "spinning"]
             /\ UNCHANGED <<ids, maps, signals, wait, fault>>

(* The rest of that round, the mark and cond.wait, which releases the      *)
(* mutex.  Join and waiting_handles.clear() do not take it: what they set  *)
(* since the test is overwritten.                                          *)
Mark(os) ==
    LET pid == wait[os].pid
        tid == wait[os].tid
    IN /\ ~fault /\ at[os] = "marking"
       /\ threads' = [threads EXCEPT ![pid][tid].state = "Blocked"]
       /\ at' = [at EXCEPT ![os] = "waiting"]
       /\ UNCHANGED <<ids, process_table, tid_to_pid, stdtid_to_tid,
                      signals, wait, fault>>

(* cond.wait returns although nobody called notify.                        *)
Spurious_Wakeup(os) ==
    /\ ~fault /\ SpuriousWakeups /\ at[os] = "waiting"
    /\ at' = [at EXCEPT ![os] = "woken"]
    /\ UNCHANGED <<ids, maps, signals, wait, fault>>

(* The rest of Wait_For, under process_table_mutex again: what it leaves   *)
(* in rax, and the step.                                                   *)
Wait_For_Result(os) ==
    LET thread == threads[wait[os].pid][wait[os].tid]
    IN  IF thread = None THEN Unset ELSE Exist_TID(thread.waked_by)

Wait_For_Return(os) ==
    /\ ~fault /\ at[os] = "stopped" /\ Table_Unlocked
    /\ at' = [at EXCEPT ![os] = "user"]
    /\ wait' = [wait EXCEPT ![os] = Idle]
    /\ UNCHANGED <<ids, maps, signals, fault>>

-----------------------------------------------------------------------------
(* Read_Exit_Code: the handle is reaped, whatever state it is in.          *)

(* Erasing from the map under the running iterator is harmless only when   *)
(* the erased helper thread is the last of the map, and releasing id 65535 *)
(* writes behind the table.                                                *)
Reaping_Undefined(pid, removed, main) ==
    \/ NoId \in removed \/ (main \in removed /\ pid = NoId)
    \/ \E t \in removed \ {main} : \E other \in removed : other > t

(* An OS thread inside Stop keeps using the Thread that is destroyed.      *)
Astray(o, pid, removed) ==
    /\ at[o] \in {"marking", "waiting", "woken", "spinning"}
    /\ wait[o].pid = pid /\ wait[o].tid \in removed

(* Mutant: the loop over the process's other threads is forgotten.         *)
Removed_Alone(pid, tid) == {tid}

(* The main thread takes the threads of its process with it.               *)
Removed(pid, tid) == IF tid = process_table[pid].process_tid
                       THEN {t \in Handles : threads[pid][t] # None} ELSE {tid}

Read_Exit_Code(os, tid) ==
    LET pid == tid_to_pid[tid]
        main == process_table[pid].process_tid
        removed == Removed(pid, tid)
        erased == {o \in OsThreads :
                      \/ stdtid_to_tid[o] = tid
                      \/ \E t \in removed \ {tid} : threads[pid][t].os = o}
    IN /\ Locking(os) /\ Known(tid)
       /\ \/ Reaping_Undefined(pid, removed, main) /\ Crash
          \/ /\ pid_table' = IF tid = main /\ pid # NoId
                               THEN Pid!Set_Free(pid_table, pid) ELSE pid_table
             /\ tid_table' = Tid!Set_Free_All(tid_table, removed \ {NoId})
             /\ process_table' = IF tid = main
                                   THEN [process_table EXCEPT ![pid] = None]
                                   ELSE process_table
             /\ threads' = [threads EXCEPT ![pid] = [t \in Handles |->
                              IF t \in removed THEN None ELSE @[t]]]
             /\ tid_to_pid' = [t \in Handles |->
                              IF t \in removed THEN None ELSE tid_to_pid[t]]
             /\ stdtid_to_tid' = [o \in OsThreads |->
                              IF o \in erased THEN None ELSE stdtid_to_tid[o]]
             /\ at' = [o \in OsThreads |->
                              IF Astray(o, pid, removed) THEN "lost" ELSE at[o]]
             /\ UNCHANGED <<signals, wait, fault>>

Read_Exit_Code_Unknown(os, tid) ==
    /\ Locking(os) /\ ~Known(tid)
    /\ UNCHANGED vars

(* A thread that marks, sleeps on or relocks what was destroyed.           *)
Use_After_Free(os) == ~fault /\ at[os] = "lost" /\ Crash

-----------------------------------------------------------------------------
(* Exit and Shutdown end a set of threads, each a pair <<PID, TID>>: its    *)
(* waiting_handles are cleared, its sleepers restarted (Notify_All, Notify *)
(* and Thread::Restart) and its state set (Join_thread).  A pair <<c, d>>  *)
(* of order says that c's sleepers are notified before d's state is set.   *)

(* Mutant: the sleepers of a process's main thread are not notified.       *)
Notifying_Helpers(dying) ==
    {d \in dying : Known(d[2]) /\ d[2] # process_table[d[1]].process_tid}

(* Notify_All(t) looks t up again and works on the thread it finds.        *)
Notifying(dying) == {d \in dying : Known(d[2])}
Sleepers_Of(d) == threads[Pid_Of(d[2])][d[2]].sleeped
Sleepers(dying) == UNION {Sleepers_Of(d) : d \in Notifying(dying)}

(* The ending threads that restart thread (p, t).                          *)
Notifiers(dying, p, t) ==
    {d \in Notifying(dying) : Pid_Of(t) = p /\ t \in Sleepers_Of(d)}

(* Mutant: Restart does not look at the state of the thread.               *)
After_End_Always(state, dies, notified) ==
    IF dies THEN "Exited" ELSE IF notified THEN "Running" ELSE state

(* The state of a thread when others, or itself, have been ended.          *)
After_End(state, dies, notified) ==
    IF dies THEN "Exited"
    ELSE IF notified /\ state = "Blocked" THEN "Running" ELSE state

(* Thread (p, t) is between the test and the mark of Stop, and all that    *)
(* restart it do so after it has itself been ended: they wait for its      *)
(* mutex, so the mark may fall in between and overwrite Exited.            *)
Overtaken(dying, order, p, t) ==
    /\ \E o \in OsThreads : at[o] = "marking" /\ Holds(o, p, t)
    /\ <<p, t>> \in dying
    /\ \A d \in Notifiers(dying, p, t) : <<d, <<p, t>>>> \notin order

Ended(dying, order, p, t) ==
    LET thread == threads[p][t]
        dies == <<p, t>> \in dying
        notifiers == Notifiers(dying, p, t)
        overtaken == notifiers # {} /\ Overtaken(dying, order, p, t)
        heard == {d \in notifiers :
                     dies /\ ~overtaken => <<d, <<p, t>>>> \in order}
        First(d) == \A other \in heard : other = d \/ <<d, other>> \in order
    IN IF thread = None THEN None
       ELSE [thread EXCEPT
               !.waiting = IF dies THEN {} ELSE @ \ {d[2] : d \in notifiers},
               !.sleeped = IF \E d \in Notifying(dying) : d[2] = t /\ p = Pid_Of(t)
                             THEN {} ELSE @,
               !.state = IF overtaken THEN "Running"
                           ELSE After_End(@, dies, notifiers # {}),
               !.waked_by = IF /\ thread.state = "Blocked" \/ overtaken
                               /\ \E d \in heard : First(d)
                              THEN (CHOOSE d \in heard : First(d))[2]
                              ELSE @]

(* Mutant: Restart notifies only when no handle is left to wait for.       *)
Awakened_At_Last(dying, o) ==
    /\ at[o] \in {"marking", "waiting"}
    /\ LET notifiers == Notifiers(dying, wait[o].pid, wait[o].tid)
       IN  notifiers # {} /\ threads[wait[o].pid][wait[o].tid].waiting
                               \subseteq {d[2] : d \in notifiers}

(* cond.notify_all of the sleepers' own condition variables.               *)
Awakened(dying, o) ==
    /\ at[o] \in {"marking", "waiting"}
    /\ Notifiers(dying, wait[o].pid, wait[o].tid) # {}

(* Restart of a sleeper waits while that is between the test and the mark  *)
(* of Stop: the whole call is taken as one step after the mark.            *)
Awaiting_Mark(dying, order) ==
    \E o \in OsThreads :
        /\ at[o] = "marking" /\ Notifiers(dying, wait[o].pid, wait[o].tid) # {}
        /\ ~Overtaken(dying, order, wait[o].pid, wait[o].tid)

(* The ending threads whose Notify_All would wait for ever, for a sleeper  *)
(* that spins and whose waiting_handles have not been cleared before.      *)
Blocking(dying, order) ==
    {d \in Notifying(dying) : \E t \in Sleepers_Of(d), o \in OsThreads :
        LET sleeper == <<Pid_Of(t), t>> IN
        /\ at[o] = "spinning" /\ Holds(o, Pid_Of(t), t)
        /\ sleeper \notin dying \/ (sleeper # d /\ <<sleeper, d>> \notin order)}

(* At the first of them the call is stuck, with the table locked for good: *)
(* the threads before it have been ended, those behind it never are.  What *)
(* the call has done to that thread itself is left out.                    *)
End_Threads(os, dying, order) ==
    LET blocking == Blocking(dying, order)
        ending == {d \in dying :
                      \A e \in blocking : d # e /\ <<d, e>> \in order}
        dangling == \E t \in Sleepers(ending) : threads[Pid_Of(t)][t] = None
    IN \/ /\ dangling                    \* Restart is called on a null thread
          /\ fault' = TRUE
          /\ UNCHANGED <<ids, maps, at, wait>>
       \/ /\ ~dangling /\ ~Awaiting_Mark(ending, order)
          /\ threads' = [p \in Pids |-> [t \in Handles |-> Ended(ending, order, p, t)]]
          /\ process_table' = [p \in Pids |->
                IF \E d \in ending : d[1] = p /\ d[2] = process_table[p].process_tid
                  THEN [process_table[p] EXCEPT !.state = "Exited"]
                  ELSE process_table[p]]
          /\ at' = [o \in OsThreads |->
                IF o = os /\ blocking # {} THEN "stuck"
                ELSE IF Awakened(ending, o) THEN "woken" ELSE at[o]]
          /\ UNCHANGED <<ids, tid_to_pid, stdtid_to_tid, wait, fault>>

(* Exit of the main thread ends the process: first its other threads in    *)
(* the order of their TIDs, then itself.  Exit of any other thread ends    *)
(* that thread.                                                            *)
Exit(os) ==
    LET tid == Get_TID(os)
        pid == tid_to_pid[tid]
        main == process_table[pid].process_tid
        dying == IF tid = main
                   THEN {<<pid, t>> : t \in {u \in Handles : threads[pid][u] # None}}
                   ELSE {<<pid, tid>>}
        order == {pair \in dying \X dying : LET c == pair[1]  d == pair[2] IN
                     c = d \/ d[2] = main \/ (c[2] # main /\ c[2] < d[2])}
    IN /\ Locking(os) /\ Known(tid)
       /\ End_Threads(os, dying, order)
       /\ UNCHANGED signals

(* The calling OS thread is not registered under a live TID: the call      *)
(* returns and nobody is told.                                             *)
Exit_Unknown(os) ==
    /\ Locking(os) /\ ~Known(Get_TID(os))
    /\ stdtid_to_tid' = IF \E p \in Pids : process_table[p] # None
                          THEN Looked_Up(os) ELSE stdtid_to_tid
    /\ UNCHANGED <<ids, process_table, threads, tid_to_pid, signals,
                   at, wait, fault>>

(* Shutdown walks the PIDs size-1, ..., 0, runs the signal handler of each *)
(* thread and ends the thread when it is not its process's main thread, or *)
(* is a nested shell.  A PID of that range that is not in the table is     *)
(* dereferenced all the same.                                              *)
Shutdown(os) ==
    LET present == {p \in Pids : process_table[p] # None}
        walked == {p \in Pids : p < Cardinality(present)}
        all == {d \in walked \X Handles : threads[d[1]][d[2]] # None}
        dying == {d \in all : \/ d[2] # process_table[d[1]].process_tid
                              \/ process_table[d[1]].name = "shell" /\ d[1] > 1}
        order == {pair \in all \X all : LET c == pair[1]  d == pair[2] IN
                     c[1] > d[1] \/ (c[1] = d[1] /\ c[2] < d[2])}
        reached == {d \in all :
                       \A e \in Blocking(dying, order) : d = e \/ <<d, e>> \in order}
    IN /\ Locking(os)
       /\ \/ walked # present /\ Crash
          \/ /\ walked = present
             /\ End_Threads(os, dying, order)
             /\ sig_shutdown' = TRUE
             /\ raised' = raised \cup
                   ({threads[d[1]][d[2]].handler : d \in reached} \ {None})

(* Mutant: the handler is only kept, also during a shutdown.               *)
Register_Signal_Handler_Late(os, flag) ==
    /\ Locking(os)
    /\ stdtid_to_tid' = Looked_Up(os)
    /\ threads' = IF Known(Get_TID(os))
                    THEN [threads EXCEPT ![Pid_Of(Get_TID(os))][Get_TID(os)].handler = flag]
                    ELSE threads
    /\ UNCHANGED <<ids, process_table, tid_to_pid, signals, at, wait, fault>>

(* During a shutdown the handler runs at once instead of being kept.       *)
Register_Signal_Handler(os, flag) ==
    LET tid == Get_TID(os)
        pid == tid_to_pid[tid] IN
    /\ Locking(os)
    /\ stdtid_to_tid' = Looked_Up(os)
    /\ \/ /\ ~Known(tid)
          /\ UNCHANGED <<threads, raised>>
       \/ /\ Known(tid) /\ sig_shutdown
          /\ raised' = raised \cup {flag}
          /\ UNCHANGED threads
       \/ /\ Known(tid) /\ ~sig_shutdown
          /\ threads' = [threads EXCEPT ![pid][tid].handler =
                            IF @ = None THEN flag ELSE @]
          /\ UNCHANGED raised
    /\ UNCHANGED <<ids, process_table, tid_to_pid, sig_shutdown, at, wait, fault>>

-----------------------------------------------------------------------------
(* Any OS thread makes any call, with any of the given handles: what       *)
(* follows holds whatever the programs do.                                 *)

(* The steps of a call that is under way.                                  *)
Proceed(os) ==
    \/ Register_Handles(os) \/ Stop(os) \/ Mark(os) \/ Wait_For_Return(os)

Astray_Step(os) == Spurious_Wakeup(os) \/ Use_After_Free(os)

Call(os) ==
    \/ \E handle \in Handles : Create_Refused(os, handle)
    \/ \E new \in OsThreads, name \in Programs, tid \in Handles :
          Create_Process(os, name, new, tid)
    \/ \E handle \in Handles : Create_Thread_Refused(os, handle)
    \/ \E new \in OsThreads, tid \in Handles : Create_Thread(os, new, tid)
    \/ \E handles \in Arrays : Wait_For(os, handles)
    \/ \E tid \in Given : Read_Exit_Code(os, tid)
    \/ \E tid \in Given : Read_Exit_Code_Unknown(os, tid)
    \/ Exit(os) \/ Exit_Unknown(os)
    \/ Shutdown(os)
    \/ \E flag \in Flags : Register_Signal_Handler(os, flag)
    \/ Thread_Return(os)

Next == \E os \in OsThreads : Call(os) \/ Proceed(os) \/ Astray_Step(os)

Spec == Init /\ [][Next]_vars

-----------------------------------------------------------------------------
(* Properties that hold whatever the programs call.                        *)

(* Every variable has its type.                                            *)
TypeOK ==
    /\ Pid!IsTable(pid_table) /\ Tid!IsTable(tid_table)
    /\ process_table \in [Pids -> Processes \cup {None}]
    /\ threads \in [Pids -> [Handles -> Threads \cup {None}]]
    /\ tid_to_pid \in [Handles -> Pids \cup {None}]
    /\ stdtid_to_tid \in [OsThreads -> Handles \cup {None}]
    /\ sig_shutdown \in BOOLEAN /\ raised \subseteq Flags
    /\ at \in [OsThreads -> Places]
    /\ wait \in [OsThreads -> [pid : Pids, tid : Handles, handles : Seq(Handles)]]
    /\ fault \in BOOLEAN

(* A PID or TID that is in use is reserved, so that Get_Free_PID and       *)
(* Get_Free_TID never give it to a second process or thread: no order of   *)
(* Clone, Read_Exit_Code and the two release loops frees an id too early.  *)
(* Only the id 65535 of an exhausted table stands outside.                 *)
IdsReserved ==
    /\ \A p \in Pids : process_table[p] # None => p \in pid_table.used \cup {NoId}
    /\ \A p \in Pids, t \in Handles :
          threads[p][t] # None => t \in tid_table.used \cup {NoId}

(* The PID and the TID handed out next are exactly those the search loops  *)
(* of Get_Free_PID and Get_Free_TID stop at, from every table the calls    *)
(* leave behind: no unused id is skipped, and a search gives up only when  *)
(* every id is reserved.                                                   *)
SearchAgrees ==
    /\ \A id \in Pid!Ids \cup {NoId} :
          Pid!Is_Next_Free(pid_table, id) <=> id = Pid!Search(pid_table)
    /\ \A id \in Tid!Ids \cup {NoId} :
          Tid!Is_Next_Free(tid_table, id) <=> id = Tid!Search(tid_table)

(* A TID names at most one thread of the whole table, although the threads *)
(* are kept in one map per process.                                        *)
TidsUnique ==
    \A p, q \in Pids, t \in Tid!Ids :
        threads[p][t] # None /\ threads[q][t] # None => p = q

(* Threads are only found in live processes, and a live process keeps its  *)
(* main thread: process_table[pid]->threads[process_tid], which Exit and   *)
(* Read_Exit_Code dereference, is never null.                              *)
MainThreadKept ==
    \A p \in Pids :
        /\ process_table[p] = None => \A t \in Handles : threads[p][t] = None
        /\ process_table[p] # None => threads[p][process_table[p].process_tid] # None

(* A thread asleep in Stop is marked Blocked, or has been ended: whoever   *)
(* restarts it changes the mark and wakes it in one go, so no notification *)
(* is lost between the test of waiting_handles and cond.wait.              *)
SleepersMarked ==
    ~fault => \A o \in OsThreads : at[o] = "waiting" =>
        LET thread == threads[wait[o].pid][wait[o].tid]
        IN  thread # None /\ thread.state \in {"Blocked", "Exited"}

(* A Shutdown that comes back has reached every program with a registered  *)
(* handler, and so has one that registers it afterwards, whoever calls     *)
(* what.  Of a Shutdown that is stuck behind a spinning thread nothing is  *)
(* said: the handlers of the processes behind that one never run.          *)
SignalsDelivered ==
    sig_shutdown /\ ~fault /\ Table_Unlocked =>
        \A p \in Pids, t \in Handles : threads[p][t] # None =>
            threads[p][t].handler \in raised \cup {None}

(* A thread that has exited is not revived by a Restart that comes late,   *)
(* nor by any other call.  Only its own Stop can overwrite the mark, when  *)
(* it had found the state Running before the exit and marks it after.      *)
ExitedIsFinal ==
    [][\A p \in Pids, t \in Handles :
          /\ threads[p][t] # None /\ threads[p][t].state = "Exited"
          /\ \A o \in OsThreads : ~(at[o] = "marking" /\ Holds(o, p, t))
          => threads'[p][t] = None \/ threads'[p][t].state = "Exited"]_vars
=============================================================================
