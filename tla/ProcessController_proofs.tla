---------------------- MODULE ProcessController_proofs ----------------------
(***************************************************************************)
(* Proofs about the process controller, for every number of ids and OS     *)
(* threads and for callers that make any call with any handle.             *)
(***************************************************************************)
EXTENDS ProcessController, TLAPS

USE ControllerAssumption

-----------------------------------------------------------------------------
(* The id tables.                                                          *)

(* The slot after any number is a slot of the table.                       *)
LEMMA NextSlotInRange ==
    ASSUME NEW n \in Nat
    PROVE  /\ Pid!Next_Slot(n) \in Pid!Ids
           /\ Tid!Next_Slot(n) \in Tid!Ids
BY DEF Pid!Next_Slot, Tid!Next_Slot, Pid!Ids, Tid!Ids

(* An id that Get_Free hands out was unused, and the table stays a table.  *)
LEMMA PidGetFree ==
    ASSUME NEW table, Pid!IsTable(table), NEW id \in Pids,
           Pid!Is_Next_Free(table, id)
    PROVE  /\ Pid!IsTable(Pid!Get_Free(table, id))
           /\ table.used \subseteq Pid!Get_Free(table, id).used
           /\ id \in Pid!Ids => id \notin table.used /\ id \in Pid!Get_Free(table, id).used
<1>1. CASE id = NoId
  BY <1>1 DEF Pid!IsTable, Pid!Is_Next_Free, Pid!Get_Free, Pid!Unused, Pid!Ids, Pids
<1>2. CASE id # NoId
  <2>1. id \in Pid!Ids /\ id \notin table.used /\ id \in Nat
    BY <1>2 DEF Pid!Is_Next_Free, Pid!Unused, Pids, Pid!Ids
  <2>2. Pid!Next_Slot(id) \in Pid!Ids
    BY <2>1, NextSlotInRange
  <2> QED  BY <1>2, <2>1, <2>2 DEF Pid!IsTable, Pid!Get_Free
<1> QED  BY <1>1, <1>2

LEMMA TidGetFree ==
    ASSUME NEW table, Tid!IsTable(table), NEW id \in Handles,
           Tid!Is_Next_Free(table, id)
    PROVE  /\ Tid!IsTable(Tid!Get_Free(table, id))
           /\ table.used \subseteq Tid!Get_Free(table, id).used
           /\ id \in Tid!Ids => id \notin table.used /\ id \in Tid!Get_Free(table, id).used
<1>1. CASE id = NoId
  <2>1. NoId \notin Tid!Ids
    BY DEF Tid!Ids
  <2>2. Tid!Get_Free(table, id) = [used |-> table.used, free |-> 0]
    BY <1>1 DEF Tid!Get_Free, Tid!IsTable
  <2> QED  BY <1>1, <2>1, <2>2 DEF Tid!IsTable
<1>2. CASE id # NoId
  <2>1. id \in Tid!Ids /\ id \notin table.used /\ id \in Nat
    BY <1>2 DEF Tid!Is_Next_Free, Tid!Unused, Handles, Tid!Ids
  <2>2. Tid!Next_Slot(id) \in Tid!Ids
    BY <2>1, NextSlotInRange
  <2> QED  BY <1>2, <2>1, <2>2 DEF Tid!IsTable, Tid!Get_Free
<1> QED  BY <1>1, <1>2

(* Releasing ids keeps the table a table and reserves nothing else.        *)
LEMMA PidSetFree ==
    ASSUME NEW table, Pid!IsTable(table), NEW id \in Pid!Ids
    PROVE  /\ Pid!IsTable(Pid!Set_Free(table, id))
           /\ Pid!Set_Free(table, id).used = table.used \ {id}
BY DEF Pid!IsTable, Pid!Set_Free, Pid!Set_Free_All

LEMMA TidSetFree ==
    ASSUME NEW table, Tid!IsTable(table), NEW released,
           released \subseteq Handles \ {NoId}, released \cap {0, Unset} = {}
    PROVE  /\ Tid!IsTable(Tid!Set_Free_All(table, released))
           /\ Tid!Set_Free_All(table, released).used = table.used \ released
BY DEF Tid!IsTable, Tid!Set_Free_All, Handles

-----------------------------------------------------------------------------
(* Where Stop has found its thread and goes on without testing it again.   *)
Asleep_Or_Marking == {"marking", "waiting"}

(* A thread that is about to mark itself has not been reaped.              *)
MarkersKept ==
    ~fault => \A o \in OsThreads : at[o] = "marking" =>
        threads[wait[o].pid][wait[o].tid] # None

(* The inductive invariant: the id tables, the maps and the sleepers vouch *)
(* for each other, so none of them is preserved without the others.        *)
IInv == /\ TypeOK /\ IdsReserved /\ TidsUnique /\ MainThreadKept
        /\ SleepersMarked /\ MarkersKept

(* The step half of ExitedIsFinal.                                         *)
Exited_Stays ==
    \A p \in Pids, t \in Handles :
        /\ threads[p][t] # None /\ threads[p][t].state = "Exited"
        /\ \A o \in OsThreads : ~(at[o] = "marking" /\ Holds(o, p, t))
        => threads'[p][t] = None \/ threads'[p][t].state = "Exited"

(* Numbers that are ids, and what is no id.                                *)
LEMMA IdFacts ==
    /\ Pid!Ids \subseteq Nat /\ Tid!Ids \subseteq Nat
    /\ 0 \in Pid!Ids /\ TidMin \in Tid!Ids
    /\ NoId \notin Pid!Ids /\ NoId \notin Tid!Ids
    /\ 0 \notin Tid!Ids /\ Unset \notin Tid!Ids
    /\ Pids \subseteq Nat /\ Handles \subseteq Nat
    /\ Tid!Ids \subseteq Handles /\ Pid!Ids \subseteq Pids
BY DEF Pid!Ids, Tid!Ids, Pids, Handles

(* A new thread, and None, are told apart by their type.                   *)
LEMMA NoneFacts ==
    /\ None \notin Pids /\ None \notin Handles /\ None \notin Processes
    /\ None \notin Threads /\ None \notin Flags
    /\ \A os \in OsThreads : New_Thread(os) \in Threads
BY DEF Threads, New_Thread, States, Handles

(* A process keeps its main thread's TID when its state is set.            *)
LEMMA ProcessUpdate ==
    ASSUME NEW process \in Processes, NEW state \in States
    PROVE  /\ [process EXCEPT !.state = state] \in Processes
           /\ [process EXCEPT !.state = state].process_tid = process.process_tid
BY DEF Processes

(* A thread that is marked, or keeps a handler, is a thread all the same.  *)
LEMMA StateUpdate ==
    ASSUME NEW thread \in Threads, NEW state \in States
    PROVE  /\ [thread EXCEPT !.state = state] \in Threads
           /\ [thread EXCEPT !.state = state].state = state
BY DEF Threads

LEMMA HandlerUpdate ==
    ASSUME NEW thread \in Threads, NEW handler \in Flags \cup {None}
    PROVE  /\ [thread EXCEPT !.handler = handler] \in Threads
           /\ [thread EXCEPT !.handler = handler].state = thread.state
BY DEF Threads

(* What registering with handles makes of a thread.                        *)
LEMMA RegisteredUpdate ==
    ASSUME NEW thread \in Threads, NEW waiting \in SUBSET Handles,
           NEW sleeped \in SUBSET Handles
    PROVE  /\ [thread EXCEPT !.waiting = waiting, !.sleeped = sleeped] \in Threads
           /\ [thread EXCEPT !.waiting = waiting, !.sleeped = sleeped].state = thread.state
BY DEF Threads

-----------------------------------------------------------------------------
(* The kernel process of Create_Kernel_Process satisfies the invariant.    *)
LEMMA InitIInv == Init => IInv
<1> SUFFICES ASSUME Init PROVE IInv
  OBVIOUS
<1> USE IdFacts, NoneFacts
<1>1. /\ Pid!IsTable(Pid!Empty_Table) /\ Tid!IsTable(Tid!Empty_Table)
      /\ Pid!Get_Free(Pid!Empty_Table, 0).used = {0}
      /\ Tid!Get_Free(Tid!Empty_Table, TidMin).used = {TidMin}
      /\ Pid!IsTable(pid_table) /\ Tid!IsTable(tid_table)
  BY NextSlotInRange DEF Init, Pid!IsTable, Tid!IsTable, Pid!Empty_Table,
     Tid!Empty_Table, Pid!Get_Free, Tid!Get_Free, Pid!Ids, Tid!Ids
<1>2. process_table \in [Pids -> Processes \cup {None}]
  BY DEF Init, Processes, States
<1>3. threads \in [Pids -> [Handles -> Threads \cup {None}]]
  BY DEF Init
<1>4. wait \in [OsThreads -> [pid : Pids, tid : Handles, handles : Seq(Handles)]]
  BY DEF Init, Idle, Handles
<1>5. TypeOK
  BY <1>1, <1>2, <1>3, <1>4 DEF Init, TypeOK, Places
<1>6. IdsReserved /\ TidsUnique
  BY <1>1 DEF Init, IdsReserved, TidsUnique
<1>7. MainThreadKept
  <2>1. [name |-> "kernel", process_tid |-> TidMin, state |-> "Running"] # None
    BY DEF Processes, States
  <2> QED  BY <2>1 DEF Init, MainThreadKept
<1>8. SleepersMarked /\ MarkersKept
  BY DEF Init, SleepersMarked, MarkersKept
<1> QED  BY <1>5, <1>6, <1>7, <1>8 DEF IInv

(* A step that leaves the tables, the processes and the threads alone and  *)
(* sends nobody to sleep.                                                  *)
LEMMA ObjectsKept ==
    ASSUME IInv, TypeOK', UNCHANGED <<ids, process_table, threads>>,
           \A o \in OsThreads : at'[o] \in Asleep_Or_Marking =>
              at'[o] = at[o] /\ wait'[o] = wait[o],
           fault => fault'
    PROVE  IInv' /\ Exited_Stays
<1>1. IdsReserved' /\ TidsUnique' /\ MainThreadKept'
  BY DEF IInv, IdsReserved, TidsUnique, MainThreadKept, ids
<1>2. SleepersMarked' /\ MarkersKept'
  BY DEF IInv, SleepersMarked, MarkersKept, Asleep_Or_Marking, ids
<1>3. Exited_Stays
  BY DEF Exited_Stays
<1> QED  BY <1>1, <1>2, <1>3 DEF IInv

LEMMA StutterKeeps ==
    ASSUME IInv, UNCHANGED vars
    PROVE  IInv' /\ Exited_Stays
<1>1. TypeOK'
  BY DEF IInv, TypeOK, vars, ids, maps, signals
<1> QED  BY <1>1, ObjectsKept DEF vars, ids, maps

LEMMA CrashKeeps ==
    ASSUME IInv, Crash
    PROVE  IInv' /\ Exited_Stays
<1>1. TypeOK'
  BY DEF IInv, TypeOK, Crash, ids, maps, signals
<1> QED  BY <1>1, ObjectsKept DEF Crash, ids, maps

(* The lookups of the syscalls stay within the types.                      *)
LEMMA LookupTypes ==
    ASSUME IInv, NEW os \in OsThreads
    PROVE  /\ Get_TID(os) \in Handles
           /\ Looked_Up(os) \in [OsThreads -> Handles \cup {None}]
           /\ tid_to_pid[Get_TID(os)] # None => tid_to_pid[Get_TID(os)] \in Pids
BY IdFacts DEF IInv, TypeOK, Get_TID, Looked_Up, Insert, Handles

LEMMA PidOfType ==
    ASSUME IInv, NEW t \in Handles
    PROVE  Pid_Of(t) \in Pids
BY IdFacts DEF IInv, TypeOK, Pid_Of

-----------------------------------------------------------------------------
(* Adding one thread under an id that was not reserved, and removing any,  *)
(* keeps the TIDs unique.                                                  *)
LEMMA NewTidUnique ==
    ASSUME IInv, NEW pid \in Pids, NEW tid \in Handles,
           tid \in Tid!Ids => tid \notin tid_table.used,
           \A p \in Pids, t \in Handles :
              threads'[p][t] # None => threads[p][t] # None \/ (p = pid /\ t = tid)
    PROVE  TidsUnique'
<1> SUFFICES ASSUME NEW p \in Pids, NEW q \in Pids, NEW t \in Tid!Ids,
                    threads'[p][t] # None, threads'[q][t] # None
             PROVE  p = q
  BY DEF TidsUnique
<1>1. t \in Handles /\ t # NoId
  BY IdFacts
<1>2. CASE threads[p][t] # None /\ threads[q][t] # None
  BY <1>2 DEF IInv, TidsUnique
<1>3. CASE t = tid
  <2>1. \A r \in Pids : threads[r][t] = None
    BY <1>1, <1>3 DEF IInv, IdsReserved
  <2> QED  BY <1>1, <2>1
<1> QED  BY <1>1, <1>2, <1>3

LEMMA MainThreads ==
    ASSUME IInv, NEW p \in Pids, process_table[p] # None
    PROVE  /\ process_table[p].process_tid \in Handles
           /\ threads[p][process_table[p].process_tid] # None
<1>1. process_table[p] \in Processes
  BY DEF IInv, TypeOK
<1>2. process_table[p].process_tid \in Handles
  BY <1>1 DEF Processes
<1> QED  BY <1>2 DEF IInv, MainThreadKept

(* A step that neither adds nor removes a process or a thread.             *)
LEMMA NobodyAddedOrRemoved ==
    ASSUME IInv, UNCHANGED ids,
           \A p \in Pids, t \in Handles : threads'[p][t] = None <=> threads[p][t] = None,
           \A p \in Pids :
              /\ process_table'[p] = None <=> process_table[p] = None
              /\ process_table[p] # None =>
                   process_table'[p].process_tid = process_table[p].process_tid
    PROVE  IdsReserved' /\ TidsUnique' /\ MainThreadKept'
<1>1. IdsReserved'
  BY DEF IInv, IdsReserved, ids
<1>2. TidsUnique'
  BY IdFacts DEF IInv, TidsUnique
<1>3. MainThreadKept'
  BY MainThreads DEF IInv, MainThreadKept
<1> QED  BY <1>1, <1>2, <1>3

(* Whoever sleeps goes on sleeping as long as no thread leaves the state   *)
(* it is in, and whoever is about to as long as no thread is reaped.       *)
LEMMA MarkersStay ==
    ASSUME IInv, fault => fault',
           \A o \in OsThreads : at'[o] = "marking" =>
              at[o] = "marking" /\ wait'[o] = wait[o],
           \A p \in Pids, t \in Handles : threads[p][t] # None => threads'[p][t] # None
    PROVE  MarkersKept'
<1> SUFFICES ASSUME ~fault', NEW o \in OsThreads, at'[o] = "marking"
             PROVE threads'[wait'[o].pid][wait'[o].tid] # None
  BY DEF MarkersKept
<1>1. /\ at[o] = "marking" /\ ~fault /\ wait'[o] = wait[o]
      /\ wait[o].pid \in Pids /\ wait[o].tid \in Handles
  BY DEF IInv, TypeOK
<1>2. threads[wait[o].pid][wait[o].tid] # None
  BY <1>1 DEF IInv, MarkersKept
<1> QED  BY <1>1, <1>2

LEMMA SleepersKept ==
    ASSUME IInv, fault => fault',
           \A o \in OsThreads : at'[o] \in Asleep_Or_Marking =>
              at'[o] = at[o] /\ wait'[o] = wait[o],
           \A p \in Pids, t \in Handles : threads[p][t] # None =>
              threads'[p][t] # None /\ threads'[p][t].state = threads[p][t].state
    PROVE  SleepersMarked' /\ MarkersKept'
<1>1. MarkersKept'
  BY MarkersStay DEF Asleep_Or_Marking
<1>2. SleepersMarked'
  <2> SUFFICES ASSUME ~fault', NEW o \in OsThreads, at'[o] = "waiting"
               PROVE /\ threads'[wait'[o].pid][wait'[o].tid] # None
                     /\ threads'[wait'[o].pid][wait'[o].tid].state
                           \in {"Blocked", "Exited"}
    BY DEF SleepersMarked
  <2>1. /\ at[o] = "waiting" /\ ~fault /\ wait'[o] = wait[o]
        /\ wait[o].pid \in Pids /\ wait[o].tid \in Handles
    BY DEF IInv, TypeOK, Asleep_Or_Marking
  <2>2. threads[wait[o].pid][wait[o].tid] # None
    BY <2>1 DEF IInv, SleepersMarked
  <2>3. threads[wait[o].pid][wait[o].tid].state \in {"Blocked", "Exited"}
    BY <2>1 DEF IInv, SleepersMarked
  <2> QED  BY <2>1, <2>2, <2>3
<1> QED  BY <1>1, <1>2

-----------------------------------------------------------------------------
(* Clone.                                                                  *)

LEMMA CreateProcessKeeps ==
    ASSUME IInv, NEW os \in OsThreads, NEW name \in Programs,
           NEW new \in OsThreads, NEW tid \in Handles,
           Create_Process(os, name, new, tid)
    PROVE  IInv' /\ Exited_Stays
<1>1. CASE Crash
  BY <1>1, CrashKeeps
<1>2. CASE ~Crash
  <2> USE IdFacts, NoneFacts
  <2> DEFINE process == [name |-> name, process_tid |-> tid, state |-> "Running"]
  <2>1. PICK pid \in Pids :
           /\ Pid!Is_Next_Free(pid_table, pid)
           /\ pid_table' = Pid!Get_Free(pid_table, pid)
           /\ process_table' = Insert(process_table, pid, process)
           /\ threads' = IF process_table[pid] = None
                           THEN [threads EXCEPT ![pid][tid] = New_Thread(new)]
                           ELSE threads
           /\ tid_to_pid' = Insert(tid_to_pid, tid, pid)
    BY <1>2 DEF Create_Process
  <2>2. /\ tid_table' = Tid!Get_Free(tid_table, tid) /\ Tid!Is_Next_Free(tid_table, tid)
        /\ stdtid_to_tid' = Insert(Looked_Up(os), new, tid)
        /\ at[new] = "none" /\ at' = [at EXCEPT ![new] = "user"]
        /\ UNCHANGED <<signals, wait, fault>>
    BY <1>2 DEF Create_Process
  <2>3. /\ Pid!IsTable(pid_table') /\ pid_table.used \subseteq pid_table'.used
        /\ pid \in pid_table'.used \cup {NoId}
    BY <2>1, PidGetFree DEF IInv, TypeOK, Pids
  <2>4. /\ Tid!IsTable(tid_table') /\ tid_table.used \subseteq tid_table'.used
        /\ tid \in tid_table'.used \cup {NoId}
        /\ tid \in Tid!Ids => tid \notin tid_table.used
    <3>1. tid \in Tid!Ids \cup {NoId}
      BY <2>2 DEF Tid!Is_Next_Free, Tid!Unused
    <3> QED  BY <2>2, <3>1, TidGetFree DEF IInv, TypeOK
  <2>5. process \in Processes
    BY DEF Processes, States
  <2>6. \A t \in Handles : process_table[pid] = None => threads[pid][t] = None
    BY DEF IInv, MainThreadKept
  <2>7. \A p \in Pids, t \in Handles :
           \/ threads'[p][t] = threads[p][t]
           \/ /\ p = pid /\ t = tid /\ threads'[p][t] = New_Thread(new)
              /\ threads[p][t] = None /\ process_table[pid] = None
    BY <2>1, <2>6 DEF IInv, TypeOK
  <2>8. \A p \in Pids :
           \/ process_table'[p] = process_table[p]
           \/ p = pid /\ process_table'[p] = process /\ process_table[p] = None
    BY <2>1 DEF IInv, TypeOK, Insert
  <2>9. TypeOK'
    <3>1. process_table' \in [Pids -> Processes \cup {None}]
      BY <2>1, <2>5 DEF IInv, TypeOK, Insert
    <3>2. threads' \in [Pids -> [Handles -> Threads \cup {None}]]
      BY <2>1 DEF IInv, TypeOK
    <3>3. tid_to_pid' \in [Handles -> Pids \cup {None}]
      BY <2>1 DEF IInv, TypeOK, Insert
    <3>4. stdtid_to_tid' \in [OsThreads -> Handles \cup {None}]
      BY <2>2, LookupTypes DEF Insert
    <3>5. at' \in [OsThreads -> Places]
      BY <2>2 DEF IInv, TypeOK, Places
    <3> QED  BY <2>2, <2>3, <2>4, <3>1, <3>2, <3>3, <3>4, <3>5
             DEF IInv, TypeOK, signals
  <2>10. IdsReserved'
    BY <2>3, <2>4, <2>7, <2>8 DEF IInv, IdsReserved
  <2>11. TidsUnique'
    <3>1. \A p \in Pids, t \in Handles :
             threads'[p][t] # None => threads[p][t] # None \/ (p = pid /\ t = tid)
      BY <2>7
    <3> QED  BY <2>4, <3>1, NewTidUnique
  <2>12. MainThreadKept'
    <3> SUFFICES ASSUME NEW p \in Pids
                 PROVE /\ process_table'[p] = None => \A t \in Handles : threads'[p][t] = None
                       /\ process_table'[p] # None =>
                             threads'[p][process_table'[p].process_tid] # None
      BY DEF MainThreadKept
    <3>1. CASE p = pid /\ process_table[p] = None
      <4>1. process_table'[p] = process /\ threads'[p][tid] = New_Thread(new)
        BY <2>1, <3>1 DEF Insert, IInv, TypeOK
      <4>2. process # None /\ process.process_tid = tid
        BY <2>5
      <4> QED  BY <4>1, <4>2
    <3>2. CASE ~(p = pid /\ process_table[p] = None)
      <4>1. process_table'[p] = process_table[p] /\ threads'[p] = threads[p]
        BY <2>1, <3>2 DEF Insert, IInv, TypeOK
      <4> QED  BY <4>1 DEF IInv, MainThreadKept
    <3> QED  BY <3>1, <3>2
  <2>13. SleepersMarked' /\ MarkersKept'
    <3>1. \A o \in OsThreads : at'[o] \in Asleep_Or_Marking => at'[o] = at[o]
      BY <2>2 DEF IInv, TypeOK, Asleep_Or_Marking
    <3>2. \A p \in Pids, t \in Handles : threads[p][t] # None =>
             threads'[p][t] # None /\ threads'[p][t].state = threads[p][t].state
      BY <2>7
    <3> QED  BY <2>2, <3>1, <3>2, SleepersKept
  <2>14. Exited_Stays
    BY <2>7 DEF Exited_Stays
  <2> QED  BY <2>9, <2>10, <2>11, <2>12, <2>13, <2>14 DEF IInv
<1> QED  BY <1>1, <1>2

LEMMA CreateThreadRefusedKeeps ==
    ASSUME IInv, NEW os \in OsThreads, NEW handle \in Handles,
           Create_Thread_Refused(os, handle)
    PROVE  IInv' /\ Exited_Stays
<1>1. /\ stdtid_to_tid' = Looked_Up(os)
      /\ UNCHANGED <<pid_table, process_table, threads, tid_to_pid, signals,
                     at, wait, fault>>
  BY DEF Create_Thread_Refused
<1>2. Tid!IsTable(tid_table') /\ tid_table.used \subseteq tid_table'.used
  BY TidGetFree DEF Create_Thread_Refused, IInv, TypeOK
<1>3. TypeOK'
  BY <1>1, <1>2, LookupTypes DEF IInv, TypeOK, signals
<1>4. /\ IdsReserved' /\ TidsUnique' /\ MainThreadKept'
      /\ SleepersMarked' /\ MarkersKept'
  <2>1. IdsReserved'
    BY <1>1, <1>2 DEF IInv, IdsReserved
  <2>2. TidsUnique'
    BY <1>1 DEF IInv, TidsUnique
  <2>3. MainThreadKept'
    BY <1>1 DEF IInv, MainThreadKept
  <2>4. SleepersMarked' /\ MarkersKept'
    BY <1>1 DEF IInv, SleepersMarked, MarkersKept
  <2> QED  BY <2>1, <2>2, <2>3, <2>4
<1>5. Exited_Stays
  BY <1>1 DEF Exited_Stays
<1> QED  BY <1>3, <1>4, <1>5 DEF IInv

LEMMA CreateThreadKeeps ==
    ASSUME IInv, NEW os \in OsThreads, NEW new \in OsThreads,
           NEW tid \in Handles, Create_Thread(os, new, tid)
    PROVE  IInv' /\ Exited_Stays
<1> USE IdFacts, NoneFacts
<1> DEFINE pid == tid_to_pid[Get_TID(os)]
<1>1. pid \in Pids /\ process_table[pid] # None
  BY LookupTypes DEF Create_Thread
<1>2. /\ Tid!IsTable(tid_table') /\ tid_table.used \subseteq tid_table'.used
      /\ tid \in tid_table'.used \cup {NoId}
      /\ tid \in Tid!Ids => tid \notin tid_table.used
  <2>1. tid \in Tid!Ids \cup {NoId}
    BY DEF Create_Thread, Tid!Is_Next_Free, Tid!Unused
  <2> QED  BY <2>1, TidGetFree DEF Create_Thread, IInv, TypeOK
<1>3. \A p \in Pids, t \in Handles :
         \/ threads'[p][t] = threads[p][t]
         \/ p = pid /\ t = tid /\ threads[p][t] = None /\ threads'[p][t] = New_Thread(new)
  BY <1>1 DEF Create_Thread, Insert, IInv, TypeOK
<1>4. /\ pid_table' = pid_table
      /\ process_table' \in [Pids -> Processes \cup {None}]
      /\ \A p \in Pids : /\ process_table'[p] = None <=> process_table[p] = None
                         /\ process_table[p] # None =>
                              process_table'[p].process_tid = process_table[p].process_tid
  <2> DEFINE running == [process_table[pid] EXCEPT !.state = "Running"]
  <2>1. process_table[pid] \in Processes
    BY <1>1 DEF IInv, TypeOK
  <2>2. running \in Processes /\ running.process_tid = process_table[pid].process_tid
    BY <2>1, ProcessUpdate DEF States
  <2>3. process_table' = [process_table EXCEPT ![pid] = running] /\ pid_table' = pid_table
    BY DEF Create_Thread
  <2> HIDE DEF running, pid
  <2> QED  BY <1>1, <2>1, <2>2, <2>3 DEF IInv, TypeOK
<1>5. TypeOK'
  <2>1. process_table' \in [Pids -> Processes \cup {None}]
    BY <1>4
  <2>2. threads' \in [Pids -> [Handles -> Threads \cup {None}]]
    BY <1>1 DEF Create_Thread, Insert, IInv, TypeOK
  <2>3. tid_to_pid' \in [Handles -> Pids \cup {None}]
    BY <1>1 DEF Create_Thread, Insert, IInv, TypeOK
  <2>4. stdtid_to_tid' \in [OsThreads -> Handles \cup {None}]
    BY LookupTypes DEF Create_Thread, Insert
  <2>5. at' \in [OsThreads -> Places]
    BY DEF Create_Thread, IInv, TypeOK, Places
  <2> QED  BY <1>2, <2>1, <2>2, <2>3, <2>4, <2>5
           DEF Create_Thread, IInv, TypeOK, signals
<1>6. IdsReserved'
  BY <1>2, <1>3, <1>4 DEF IInv, IdsReserved
<1>7. TidsUnique'
  <2>1. \A p \in Pids, t \in Handles :
           threads'[p][t] # None => threads[p][t] # None \/ (p = pid /\ t = tid)
    BY <1>3
  <2>2. pid \in Pids /\ (tid \in Tid!Ids => tid \notin tid_table.used)
    BY <1>1, <1>2
  <2> HIDE DEF pid
  <2> QED  BY <2>1, <2>2, NewTidUnique
<1>8. MainThreadKept'
  <2> SUFFICES ASSUME NEW p \in Pids
               PROVE /\ process_table'[p] = None => \A t \in Handles : threads'[p][t] = None
                     /\ process_table'[p] # None =>
                           threads'[p][process_table'[p].process_tid] # None
    BY DEF MainThreadKept
  <2>1. CASE process_table[p] = None
    BY <1>1, <1>3, <1>4, <2>1 DEF IInv, MainThreadKept
  <2>2. CASE process_table[p] # None
    <3>1. process_table[p].process_tid \in Handles
      BY <2>2 DEF IInv, TypeOK, Processes
    <3>2. threads[p][process_table[p].process_tid] # None
      BY <2>2 DEF IInv, MainThreadKept
    <3>3. threads'[p][process_table[p].process_tid] # None
      BY <1>3, <3>1, <3>2
    <3> QED  BY <1>4, <2>2, <3>3
  <2> QED  BY <2>1, <2>2
<1>9. SleepersMarked' /\ MarkersKept'
  <2>1. \A o \in OsThreads : at'[o] \in Asleep_Or_Marking => at'[o] = at[o]
    BY DEF Create_Thread, IInv, TypeOK, Asleep_Or_Marking
  <2> QED  BY <1>3, <2>1, SleepersKept DEF Create_Thread
<1>10. Exited_Stays
  BY <1>3 DEF Exited_Stays
<1> QED  BY <1>5, <1>6, <1>7, <1>8, <1>9, <1>10 DEF IInv

-----------------------------------------------------------------------------
(* The calls that leave the tables, the processes and the threads alone.   *)

LEMMA ThreadReturnKeeps ==
    ASSUME IInv, NEW os \in OsThreads, Thread_Return(os)
    PROVE  IInv' /\ Exited_Stays
<1>1. TypeOK'
  BY DEF Thread_Return, IInv, TypeOK, Places, ids, maps, signals
<1>2. \A o \in OsThreads : at'[o] \in Asleep_Or_Marking => at'[o] = at[o]
  BY DEF Thread_Return, IInv, TypeOK, Asleep_Or_Marking
<1> QED  BY <1>1, <1>2, ObjectsKept DEF Thread_Return, ids, maps

LEMMA SpuriousWakeupKeeps ==
    ASSUME IInv, NEW os \in OsThreads, Spurious_Wakeup(os)
    PROVE  IInv' /\ Exited_Stays
<1>1. TypeOK'
  BY DEF Spurious_Wakeup, IInv, TypeOK, Places, ids, maps, signals
<1>2. \A o \in OsThreads : at'[o] \in Asleep_Or_Marking => at'[o] = at[o]
  BY DEF Spurious_Wakeup, IInv, TypeOK, Asleep_Or_Marking
<1> QED  BY <1>1, <1>2, ObjectsKept DEF Spurious_Wakeup, ids, maps

LEMMA IdleType == Idle \in [pid : Pids, tid : Handles, handles : Seq(Handles)]
BY IdFacts DEF Idle, Handles

LEMMA WaitForKeeps ==
    ASSUME IInv, NEW os \in OsThreads, NEW handles \in Seq(Handles),
           Wait_For(os, handles)
    PROVE  IInv' /\ Exited_Stays
<1>1. CASE Crash
  BY <1>1, CrashKeeps
<1>2. CASE ~Crash
  <2> DEFINE call == [pid |-> tid_to_pid[Get_TID(os)], tid |-> Get_TID(os),
                      handles |-> handles]
  <2>1. /\ tid_to_pid[Get_TID(os)] # None
        /\ wait' = [wait EXCEPT ![os] = call]
        /\ at' = [at EXCEPT ![os] = "register"]
        /\ stdtid_to_tid' = Looked_Up(os)
        /\ UNCHANGED <<ids, process_table, threads, tid_to_pid, signals, fault>>
    BY <1>2 DEF Wait_For
  <2>2. call \in [pid : Pids, tid : Handles, handles : Seq(Handles)]
    BY <2>1, LookupTypes
  <2>3. TypeOK'
    BY <2>1, <2>2, LookupTypes DEF IInv, TypeOK, Places, ids, signals
  <2>4. \A o \in OsThreads : at'[o] \in Asleep_Or_Marking =>
           at'[o] = at[o] /\ wait'[o] = wait[o]
    BY <2>1 DEF IInv, TypeOK, Asleep_Or_Marking
  <2> QED  BY <2>1, <2>3, <2>4, ObjectsKept DEF ids
<1> QED  BY <1>1, <1>2

LEMMA WaitForReturnKeeps ==
    ASSUME IInv, NEW os \in OsThreads, Wait_For_Return(os)
    PROVE  IInv' /\ Exited_Stays
<1>1. TypeOK'
  BY IdleType DEF Wait_For_Return, IInv, TypeOK, Places, ids, maps, signals
<1>2. \A o \in OsThreads : at'[o] \in Asleep_Or_Marking =>
         at'[o] = at[o] /\ wait'[o] = wait[o]
  BY DEF Wait_For_Return, IInv, TypeOK, Asleep_Or_Marking
<1> QED  BY <1>1, <1>2, ObjectsKept DEF Wait_For_Return, ids, maps

LEMMA ExitUnknownKeeps ==
    ASSUME IInv, NEW os \in OsThreads, Exit_Unknown(os)
    PROVE  IInv' /\ Exited_Stays
<1>1. TypeOK'
  BY LookupTypes DEF Exit_Unknown, IInv, TypeOK, ids, signals
<1> QED  BY <1>1, ObjectsKept DEF Exit_Unknown, ids

-----------------------------------------------------------------------------
(* The steps of Wait_For that change threads.                              *)

LEMMA RegisterHandlesKeeps ==
    ASSUME IInv, NEW os \in OsThreads, Register_Handles(os)
    PROVE  IInv' /\ Exited_Stays
<1> DEFINE handles == wait[os].handles
<1> DEFINE registered(n) == {handles[i] : i \in 1 .. n}
<1> DEFINE done(n) == n = Len(handles)
<1> DEFINE seen(n) == registered(n) \cup (IF done(n) THEN {} ELSE {handles[n + 1]})
<1>1. CASE Crash
  BY <1>1, CrashKeeps
<1>2. CASE ~Crash
  <2> USE NoneFacts
  <2>1. PICK n \in 0 .. Len(handles) :
           /\ threads' = [p \in Pids |-> [t \in Handles |->
                              Linked(p, t, wait[os], registered(n))]]
           /\ tid_to_pid' = [t \in Handles |->
                              IF t \in seen(n) THEN Pid_Of(t) ELSE tid_to_pid[t]]
           /\ at' = [at EXCEPT ![os] = IF done(n) THEN "stop" ELSE "user"]
           /\ wait' = [wait EXCEPT ![os] = IF done(n) THEN @ ELSE Idle]
           /\ UNCHANGED <<ids, process_table, stdtid_to_tid, signals, fault>>
    BY <1>2 DEF Register_Handles
  <2>2. /\ wait[os].pid \in Pids /\ wait[os].tid \in Handles
        /\ handles \in Seq(Handles) /\ at[os] = "register"
    BY DEF IInv, TypeOK, Register_Handles
  <2>3. registered(n) \subseteq Handles
    BY <2>2
  <2> HIDE DEF handles, registered, done, seen
  <2>4. \A p \in Pids, t \in Handles :
           /\ threads[p][t] = None => threads'[p][t] = None
           /\ threads[p][t] # None =>
                 threads'[p][t] \in Threads /\ threads'[p][t].state = threads[p][t].state
    <3> SUFFICES ASSUME NEW p \in Pids, NEW t \in Handles
                 PROVE  /\ threads[p][t] = None => threads'[p][t] = None
                        /\ threads[p][t] # None =>
                              /\ threads'[p][t] \in Threads
                              /\ threads'[p][t].state = threads[p][t].state
      OBVIOUS
    <3>1. threads'[p][t] = Linked(p, t, wait[os], registered(n))
      BY <2>1
    <3>2. threads[p][t] # None => threads[p][t] \in Threads
      BY DEF IInv, TypeOK
    <3> DEFINE mine == p = wait[os].pid /\ t = wait[os].tid
    <3> DEFINE theirs == t \in registered(n) /\ p = Pid_Of(t)
    <3> DEFINE waiting == IF mine THEN threads[p][t].waiting \cup registered(n)
                                  ELSE threads[p][t].waiting
    <3> DEFINE sleeped == IF theirs THEN threads[p][t].sleeped \cup {wait[os].tid}
                                    ELSE threads[p][t].sleeped
    <3>3. ASSUME threads[p][t] # None
          PROVE  /\ threads'[p][t] \in Threads
                 /\ threads'[p][t].state = threads[p][t].state
      <4>1. threads'[p][t] = [threads[p][t] EXCEPT !.waiting = waiting, !.sleeped = sleeped]
        BY <3>1, <3>3 DEF Linked
      <4>2. waiting \in SUBSET Handles /\ sleeped \in SUBSET Handles
        BY <2>2, <2>3, <3>2, <3>3 DEF Threads
      <4>3. threads[p][t] \in Threads
        BY <3>2, <3>3
      <4> HIDE DEF waiting, sleeped
      <4>4. /\ [threads[p][t] EXCEPT !.waiting = waiting, !.sleeped = sleeped] \in Threads
            /\ [threads[p][t] EXCEPT !.waiting = waiting, !.sleeped = sleeped].state
                  = threads[p][t].state
        BY <4>2, <4>3, RegisteredUpdate
      <4> QED  BY <4>1, <4>4, Zenon
    <3>4. threads[p][t] = None => threads'[p][t] = None
      BY <3>1 DEF Linked
    <3> QED  BY <3>3, <3>4
  <2>5. TypeOK'
    <3>1. threads' \in [Pids -> [Handles -> Threads \cup {None}]]
      <4>1. \A p \in Pids, t \in Handles : threads'[p][t] \in Threads \cup {None}
        BY <2>4
      <4> QED  BY <2>1, <4>1
    <3>2. tid_to_pid' \in [Handles -> Pids \cup {None}]
      <4>1. \A t \in Handles : Pid_Of(t) \in Pids /\ tid_to_pid[t] \in Pids \cup {None}
        BY PidOfType DEF IInv, TypeOK
      <4> QED  BY <2>1, <4>1
    <3>3. at' \in [OsThreads -> Places]
      BY <2>1 DEF IInv, TypeOK, Places
    <3>4. wait' \in [OsThreads -> [pid : Pids, tid : Handles, handles : Seq(Handles)]]
      BY <2>1, IdleType DEF IInv, TypeOK
    <3> QED  BY <2>1, <3>1, <3>2, <3>3, <3>4 DEF IInv, TypeOK, ids, signals
  <2>7. IdsReserved' /\ TidsUnique' /\ MainThreadKept'
    <3>1. \A p \in Pids, t \in Handles : threads'[p][t] = None <=> threads[p][t] = None
      BY <2>4
    <3> QED  BY <2>1, <3>1, NobodyAddedOrRemoved
  <2>8. SleepersMarked' /\ MarkersKept'
    <3>1. \A o \in OsThreads : at'[o] \in Asleep_Or_Marking =>
             at'[o] = at[o] /\ wait'[o] = wait[o]
      BY <2>1, <2>2 DEF IInv, TypeOK, Asleep_Or_Marking
    <3> QED  BY <2>1, <2>4, <3>1, SleepersKept
  <2>9. Exited_Stays
    BY <2>4 DEF Exited_Stays
  <2> QED  BY <2>5, <2>7, <2>8, <2>9 DEF IInv
<1> QED  BY <1>1, <1>2

(* The test of Stop leaves all threads as they are; whoever goes on to     *)
(* mark its thread has found it.                                           *)
LEMMA StopKeeps ==
    ASSUME IInv, NEW os \in OsThreads, Stop(os)
    PROVE  IInv' /\ Exited_Stays
<1> DEFINE pid == wait[os].pid
<1> DEFINE tid == wait[os].tid
<1> DEFINE thread == threads[pid][tid]
<1>1. CASE Crash
  BY <1>1, CrashKeeps
<1>2. CASE /\ thread # None
           /\ \E place \in {"stopped", "marking", "spinning"} :
                 at' = [at EXCEPT ![os] = place]
           /\ UNCHANGED <<ids, maps, signals, wait, fault>>
  <2>1. TypeOK'
    BY <1>2 DEF IInv, TypeOK, Places, ids, maps, signals
  <2>2. IdsReserved' /\ TidsUnique' /\ MainThreadKept'
    BY <1>2, NobodyAddedOrRemoved DEF maps
  <2>3. SleepersMarked'
    <3>1. \A o \in OsThreads : at'[o] = "waiting" => at[o] = "waiting"
      BY <1>2 DEF IInv, TypeOK
    <3> QED  BY <1>2, <3>1 DEF IInv, SleepersMarked, maps
  <2>4. MarkersKept'
    <3>1. \A o \in OsThreads : at'[o] = "marking" => at[o] = "marking" \/ o = os
      BY <1>2 DEF IInv, TypeOK
    <3> QED  BY <1>2, <3>1 DEF IInv, MarkersKept, maps
  <2>5. Exited_Stays
    BY <1>2 DEF Exited_Stays, maps
  <2> QED  BY <2>1, <2>2, <2>3, <2>4, <2>5 DEF IInv
<1> QED  BY <1>1, <1>2 DEF Stop

(* The mark of Stop can overwrite Exited, but only in its own thread.      *)
LEMMA MarkKeeps ==
    ASSUME IInv, NEW os \in OsThreads, Mark(os)
    PROVE  IInv' /\ Exited_Stays
<1> DEFINE pid == wait[os].pid
<1> DEFINE tid == wait[os].tid
<1> DEFINE thread == threads[pid][tid]
<1> USE NoneFacts
<1>1. /\ pid \in Pids /\ tid \in Handles
      /\ thread # None => thread \in Threads
  BY DEF IInv, TypeOK
<1>2. /\ thread # None /\ at[os] = "marking" /\ ~fault
      /\ at' = [at EXCEPT ![os] = "waiting"]
      /\ threads' = [threads EXCEPT ![pid][tid].state = "Blocked"]
      /\ UNCHANGED <<ids, process_table, tid_to_pid, stdtid_to_tid,
                     signals, wait, fault>>
  BY DEF Mark, IInv, MarkersKept
<1> DEFINE blocked == [thread EXCEPT !.state = "Blocked"]
<1>3. blocked \in Threads /\ blocked.state = "Blocked"
  BY <1>1, <1>2, StateUpdate DEF States
<1>4. threads' = [threads EXCEPT ![pid][tid] = blocked]
  BY <1>2
<1> HIDE DEF blocked
<1>5. \A p \in Pids, t \in Handles :
         \/ threads'[p][t] = threads[p][t]
         \/ p = pid /\ t = tid /\ threads'[p][t] = blocked
  BY <1>1, <1>4 DEF IInv, TypeOK
<1>6. threads'[pid][tid] = blocked
  BY <1>1, <1>4 DEF IInv, TypeOK
<1>7. TypeOK'
  <2>1. threads' \in [Pids -> [Handles -> Threads \cup {None}]]
    BY <1>1, <1>3, <1>4 DEF IInv, TypeOK
  <2>2. at' \in [OsThreads -> Places]
    BY <1>2 DEF IInv, TypeOK, Places
  <2> QED  BY <1>2, <2>1, <2>2 DEF IInv, TypeOK, ids, signals
<1>8. \A p \in Pids, t \in Handles : threads'[p][t] # None <=> threads[p][t] # None
  <2> SUFFICES ASSUME NEW p \in Pids, NEW t \in Handles
               PROVE threads'[p][t] # None <=> threads[p][t] # None
    OBVIOUS
  <2>1. CASE threads'[p][t] = threads[p][t]
    BY <2>1
  <2>2. CASE p = pid /\ t = tid /\ threads'[p][t] = blocked
    BY <1>2, <1>3, <2>2
  <2> QED  BY <1>5, <2>1, <2>2
<1>10. IdsReserved' /\ TidsUnique' /\ MainThreadKept'
  BY <1>2, <1>8, NobodyAddedOrRemoved
<1>11. SleepersMarked'
  <2> SUFFICES ASSUME ~fault', NEW o \in OsThreads, at'[o] = "waiting"
               PROVE /\ threads'[wait'[o].pid][wait'[o].tid] # None
                     /\ threads'[wait'[o].pid][wait'[o].tid].state
                           \in {"Blocked", "Exited"}
    BY DEF SleepersMarked
  <2>1. ~fault /\ wait'[o] = wait[o] /\ wait[o].pid \in Pids /\ wait[o].tid \in Handles
    BY <1>2 DEF IInv, TypeOK
  <2>2. CASE wait[o].pid = pid /\ wait[o].tid = tid
    BY <1>3, <1>6, <2>1, <2>2
  <2>3. CASE ~(wait[o].pid = pid /\ wait[o].tid = tid)
    <3>1. at[o] = "waiting"
      BY <1>2, <2>3 DEF IInv, TypeOK
    <3>2. threads'[wait[o].pid][wait[o].tid] = threads[wait[o].pid][wait[o].tid]
      BY <1>5, <2>1, <2>3
    <3> QED  BY <2>1, <3>1, <3>2 DEF IInv, SleepersMarked
  <2> QED  BY <2>2, <2>3
<1>12. MarkersKept'
  <2>1. \A o \in OsThreads : at'[o] = "marking" => at[o] = "marking"
    BY <1>2 DEF IInv, TypeOK
  <2> QED  BY <1>2, <1>8, <2>1, MarkersStay
<1>13. Exited_Stays
  <2>1. Holds(os, pid, tid)
    BY <1>2 DEF Holds
  <2> QED  BY ZenonT(40), <1>2, <1>5, <2>1 DEF Exited_Stays
<1> QED  BY <1>7, <1>10, <1>11, <1>12, <1>13 DEF IInv

LEMMA UseAfterFreeKeeps ==
    ASSUME IInv, NEW os \in OsThreads, Use_After_Free(os)
    PROVE  IInv' /\ Exited_Stays
BY CrashKeeps DEF Use_After_Free

LEMMA RegisterSignalHandlerKeeps ==
    ASSUME IInv, NEW os \in OsThreads, NEW flag \in Flags,
           Register_Signal_Handler(os, flag)
    PROVE  IInv' /\ Exited_Stays
<1> DEFINE tid == Get_TID(os)
<1> DEFINE pid == tid_to_pid[tid]
<1> USE NoneFacts
<1>1. /\ stdtid_to_tid' = Looked_Up(os)
      /\ UNCHANGED <<ids, process_table, tid_to_pid, sig_shutdown, at, wait, fault>>
      /\ raised' \subseteq Flags
  BY DEF Register_Signal_Handler, IInv, TypeOK
<1>2. CASE UNCHANGED threads
  <2>1. TypeOK'
    BY <1>1, <1>2, LookupTypes DEF IInv, TypeOK, ids
  <2> QED  BY <1>1, <1>2, <2>1, ObjectsKept DEF ids
<1>3. CASE /\ Known(tid)
           /\ threads' = [threads EXCEPT ![pid][tid].handler =
                              IF @ = None THEN flag ELSE @]
  <2> DEFINE thread == threads[pid][tid]
  <2> DEFINE handler == IF thread.handler = None THEN flag ELSE thread.handler
  <2> DEFINE handled == [thread EXCEPT !.handler = handler]
  <2>1. tid \in Handles /\ pid \in Pids /\ thread \in Threads
    BY <1>3, LookupTypes DEF Known, IInv, TypeOK
  <2>2. handler \in Flags \cup {None}
    BY <2>1 DEF Threads
  <2>3. threads' = [threads EXCEPT ![pid][tid] = handled]
    BY <1>3
  <2> HIDE DEF handler, tid
  <2>4. handled \in Threads /\ handled.state = thread.state
    BY <2>1, <2>2, HandlerUpdate
  <2> HIDE DEF handled
  <2>5. \A p \in Pids, t \in Handles :
           \/ threads'[p][t] = threads[p][t]
           \/ p = pid /\ t = tid /\ threads'[p][t] = handled
    BY <2>1, <2>3 DEF IInv, TypeOK
  <2>6. \A p \in Pids, t \in Handles :
           /\ threads'[p][t] # None <=> threads[p][t] # None
           /\ threads[p][t] # None => threads'[p][t].state = threads[p][t].state
    BY <2>1, <2>4, <2>5
  <2>7. TypeOK'
    <3>1. threads' \in [Pids -> [Handles -> Threads \cup {None}]]
      BY <2>1, <2>3, <2>4 DEF IInv, TypeOK
    <3> QED  BY <1>1, <3>1, LookupTypes DEF IInv, TypeOK, ids
  <2>9. IdsReserved' /\ TidsUnique' /\ MainThreadKept'
    BY <1>1, <2>6, NobodyAddedOrRemoved
  <2>10. SleepersMarked' /\ MarkersKept'
    BY <1>1, <2>6, SleepersKept
  <2>11. Exited_Stays
    BY <2>6 DEF Exited_Stays
  <2> QED  BY <2>7, <2>9, <2>10, <2>11 DEF IInv
<1> QED  BY <1>2, <1>3 DEF Register_Signal_Handler

-----------------------------------------------------------------------------
(* Read_Exit_Code takes threads away, and their ids with them: that the    *)
(* ids are nobody else's is TidsUnique.                                    *)
LEMMA ReadExitCodeKeeps ==
    ASSUME IInv, NEW os \in OsThreads, NEW tid \in Handles, Read_Exit_Code(os, tid)
    PROVE  IInv' /\ Exited_Stays
<1> DEFINE pid == tid_to_pid[tid]
<1> DEFINE main == process_table[pid].process_tid
<1> DEFINE removed == IF tid = main THEN {t \in Handles : threads[pid][t] # None}
                                    ELSE {tid}
<1>1. CASE Crash
  BY <1>1, CrashKeeps
<1>2. CASE ~Crash
  <2> USE IdFacts, NoneFacts
  <2>1. pid \in Pids /\ threads[pid][tid] # None /\ process_table[pid] # None
    <3>1. pid # None /\ threads[pid][tid] # None
      BY DEF Read_Exit_Code, Known
    <3>2. pid \in Pids
      BY <3>1 DEF IInv, TypeOK
    <3> QED  BY <3>1, <3>2 DEF IInv, MainThreadKept
  <2>2. /\ pid_table' = IF tid = main /\ pid # NoId
                           THEN Pid!Set_Free(pid_table, pid) ELSE pid_table
        /\ tid_table' = Tid!Set_Free_All(tid_table, removed \ {NoId})
        /\ process_table' = IF tid = main THEN [process_table EXCEPT ![pid] = None]
                                          ELSE process_table
        /\ threads' = [threads EXCEPT ![pid] = [t \in Handles |->
                          IF t \in removed THEN None ELSE threads[pid][t]]]
        /\ tid_to_pid' = [t \in Handles |->
                          IF t \in removed THEN None ELSE tid_to_pid[t]]
        /\ \E erased \in SUBSET OsThreads :
              stdtid_to_tid' = [o \in OsThreads |->
                                  IF o \in erased THEN None ELSE stdtid_to_tid[o]]
        /\ at' = [o \in OsThreads |->
                          IF Astray(o, pid, removed) THEN "lost" ELSE at[o]]
        /\ UNCHANGED <<signals, wait, fault>>
    BY <1>2 DEF Read_Exit_Code, Removed
  <2>3. /\ removed \subseteq Handles
        /\ \A t \in removed : threads[pid][t] # None
    BY <2>1
  <2>4. removed \ {NoId} \subseteq tid_table.used /\ tid_table.used \subseteq Tid!Ids
    <3>1. pid \in Pids
      BY <2>1
    <3>2. ASSUME NEW t \in removed, t # NoId  PROVE t \in tid_table.used
      BY <2>3, <3>1, <3>2 DEF IInv, IdsReserved
    <3>3. tid_table.used \subseteq Tid!Ids
      BY DEF IInv, TypeOK, Tid!IsTable
    <3> HIDE DEF removed
    <3> QED  BY <3>2, <3>3
  <2>5. tid = main => removed = {t \in Handles : threads[pid][t] # None}
    OBVIOUS
  <2>6. tid # main => removed = {tid}
    OBVIOUS
  <2> HIDE DEF removed
  <2>7. /\ Tid!IsTable(tid_table')
        /\ tid_table'.used = tid_table.used \ (removed \ {NoId})
    <3>1. removed \ {NoId} \subseteq Handles \ {NoId}
      BY <2>3
    <3>2. (removed \ {NoId}) \cap {0, Unset} = {}
      BY <2>4
    <3> QED  BY <2>2, <3>1, <3>2, TidSetFree DEF IInv, TypeOK
  <2>8. /\ Pid!IsTable(pid_table')
        /\ pid_table'.used = IF tid = main /\ pid # NoId
                               THEN pid_table.used \ {pid} ELSE pid_table.used
    BY <2>1, <2>2, PidSetFree DEF IInv, TypeOK, Pids
  <2>9. \A p \in Pids, t \in Handles :
           threads'[p][t] = IF p = pid /\ t \in removed THEN None ELSE threads[p][t]
    BY <2>1, <2>2 DEF IInv, TypeOK
  <2>10. \A p \in Pids :
           process_table'[p] = IF p = pid /\ tid = main THEN None ELSE process_table[p]
    BY <2>1, <2>2 DEF IInv, TypeOK
  <2>11. TypeOK'
    <3>1. process_table' \in [Pids -> Processes \cup {None}]
      BY <2>2 DEF IInv, TypeOK
    <3>2. threads' \in [Pids -> [Handles -> Threads \cup {None}]]
      <4> HIDE DEF pid, main
      <4> DEFINE left == [t \in Handles |-> IF t \in removed THEN None ELSE threads[pid][t]]
      <4>1. \A t \in Handles : threads[pid][t] \in Threads \cup {None}
        BY <2>1 DEF IInv, TypeOK
      <4>2. left \in [Handles -> Threads \cup {None}]
        BY <4>1
      <4>3. threads' = [threads EXCEPT ![pid] = left]
        BY <2>2
      <4> HIDE DEF left
      <4> QED  BY <4>2, <4>3 DEF IInv, TypeOK
    <3>3. tid_to_pid' \in [Handles -> Pids \cup {None}]
      BY <2>2 DEF IInv, TypeOK
    <3>4. stdtid_to_tid' \in [OsThreads -> Handles \cup {None}]
      BY <2>2 DEF IInv, TypeOK
    <3>5. at' \in [OsThreads -> Places]
      BY <2>2 DEF IInv, TypeOK, Places
    <3> QED  BY <2>2, <2>7, <2>8, <3>1, <3>2, <3>3, <3>4, <3>5
             DEF IInv, TypeOK, signals
  <2>12. IdsReserved'
    <3>1. ASSUME NEW p \in Pids, process_table'[p] # None
          PROVE  p \in pid_table'.used \cup {NoId}
      BY <2>8, <2>10, <3>1 DEF IInv, IdsReserved
    <3>2. ASSUME NEW p \in Pids, NEW t \in Handles, threads'[p][t] # None
          PROVE  t \in tid_table'.used \cup {NoId}
      <4>1. threads[p][t] # None /\ ~(p = pid /\ t \in removed)
        BY <2>9, <3>2
      <4>2. t \in tid_table.used \cup {NoId}
        BY <4>1 DEF IInv, IdsReserved
      <4>3. t # NoId => t \notin removed
        BY ZenonT(40), <2>1, <2>3, <2>4, <4>1, <4>2 DEF IInv, TidsUnique
      <4> QED  BY <2>7, <4>2, <4>3
    <3> QED  BY <3>1, <3>2 DEF IdsReserved
  <2>13. TidsUnique'
    <3>1. ASSUME NEW p \in Pids, NEW t \in Handles, threads'[p][t] # None
          PROVE  threads[p][t] # None
      BY <2>9, <3>1
    <3>2. ASSUME NEW t \in Tid!Ids  PROVE t \in Handles
      BY <3>2, IdFacts
    <3>3. TidsUnique
      BY DEF IInv
    <3> SUFFICES ASSUME NEW p \in Pids, NEW q \in Pids, NEW t \in Tid!Ids,
                        threads'[p][t] # None, threads'[q][t] # None
                 PROVE  p = q
      BY DEF TidsUnique
    <3>4. threads[p][t] # None /\ threads[q][t] # None
      BY <3>1, <3>2
    <3> QED  BY <3>3, <3>4 DEF TidsUnique
  <2>14. MainThreadKept'
    <3> SUFFICES ASSUME NEW p \in Pids
                 PROVE /\ process_table'[p] = None => \A t \in Handles : threads'[p][t] = None
                       /\ process_table'[p] # None =>
                             threads'[p][process_table'[p].process_tid] # None
      BY DEF MainThreadKept
    <3>1. CASE p # pid
      <4>1. process_table'[p] = process_table[p] /\ \A t \in Handles : threads'[p][t] = threads[p][t]
        BY <2>9, <2>10, <3>1
      <4> QED  BY ZenonT(40), <4>1, MainThreads DEF IInv, MainThreadKept
    <3>2. CASE p = pid /\ tid = main
      BY <2>5, <2>9, <2>10, <3>2
    <3>3. CASE p = pid /\ tid # main
      <4>1. main \in Handles /\ threads[pid][main] # None
        BY <2>1, MainThreads
      <4>2. threads'[pid][main] # None /\ process_table'[p] = process_table[pid]
        BY <2>1, <2>6, <2>9, <2>10, <3>3, <4>1
      <4> QED  BY <2>1, <3>3, <4>2
    <3> QED  BY <3>1, <3>2, <3>3
  <2>15. SleepersMarked'
    <3> SUFFICES ASSUME ~fault', NEW o \in OsThreads, at'[o] = "waiting"
                 PROVE /\ threads'[wait'[o].pid][wait'[o].tid] # None
                       /\ threads'[wait'[o].pid][wait'[o].tid].state
                             \in {"Blocked", "Exited"}
      BY DEF SleepersMarked
    <3>1. /\ ~fault /\ wait'[o] = wait[o] /\ at[o] = "waiting" /\ ~Astray(o, pid, removed)
          /\ wait[o].pid \in Pids /\ wait[o].tid \in Handles
      BY <2>2 DEF IInv, TypeOK
    <3>2. ~(wait[o].pid = pid /\ wait[o].tid \in removed)
      BY <3>1 DEF Astray
    <3>3. threads'[wait[o].pid][wait[o].tid] = threads[wait[o].pid][wait[o].tid]
      BY <2>9, <3>1, <3>2
    <3> QED  BY <3>1, <3>3 DEF IInv, SleepersMarked
  <2>16. MarkersKept'
    <3> SUFFICES ASSUME ~fault', NEW o \in OsThreads, at'[o] = "marking"
                 PROVE threads'[wait'[o].pid][wait'[o].tid] # None
      BY DEF MarkersKept
    <3>1. /\ ~fault /\ wait'[o] = wait[o] /\ at[o] = "marking" /\ ~Astray(o, pid, removed)
          /\ wait[o].pid \in Pids /\ wait[o].tid \in Handles
      BY <2>2 DEF IInv, TypeOK
    <3>2. ~(wait[o].pid = pid /\ wait[o].tid \in removed)
      BY <3>1 DEF Astray
    <3>3. threads'[wait[o].pid][wait[o].tid] = threads[wait[o].pid][wait[o].tid]
      BY <2>9, <3>1, <3>2
    <3> QED  BY <3>1, <3>3 DEF IInv, MarkersKept
  <2>17. Exited_Stays
    BY <2>9 DEF Exited_Stays
  <2> QED  BY <2>11, <2>12, <2>13, <2>14, <2>15, <2>16, <2>17 DEF IInv
<1> QED  BY <1>1, <1>2

-----------------------------------------------------------------------------
(* Ending threads: what becomes of one of them, or of one of their         *)
(* sleepers.                                                               *)
LEMMA EndedThread ==
    ASSUME IInv, NEW dying \in SUBSET (Pids \X Handles), NEW order,
           NEW p \in Pids, NEW t \in Handles, threads[p][t] # None
    PROVE  /\ Ended(dying, order, p, t) \in Threads
           /\ /\ threads[p][t].state = "Exited"
              /\ \A o \in OsThreads : ~(at[o] = "marking" /\ Holds(o, p, t))
              => Ended(dying, order, p, t).state = "Exited"
           /\ Notifiers(dying, p, t) = {} /\ threads[p][t].state \in {"Blocked", "Exited"} =>
                 Ended(dying, order, p, t).state \in {"Blocked", "Exited"}
<1> DEFINE thread == threads[p][t]
<1> DEFINE dies == <<p, t>> \in dying
<1> DEFINE notifiers == Notifiers(dying, p, t)
<1> DEFINE overtaken == notifiers # {} /\ Overtaken(dying, order, p, t)
<1> DEFINE heard == {d \in notifiers :
                        dies /\ ~overtaken => <<d, <<p, t>>>> \in order}
<1> DEFINE First(d) == \A other \in heard : other = d \/ <<d, other>> \in order
<1> DEFINE waiting == IF dies THEN {} ELSE thread.waiting \ {d[2] : d \in notifiers}
<1> DEFINE sleeped == IF \E d \in Notifying(dying) : d[2] = t /\ p = Pid_Of(t)
                        THEN {} ELSE thread.sleeped
<1> DEFINE state == IF overtaken THEN "Running"
                    ELSE IF dies THEN "Exited"
                    ELSE IF notifiers # {} /\ thread.state = "Blocked" THEN "Running"
                    ELSE thread.state
<1> DEFINE waked_by == IF /\ thread.state = "Blocked" \/ overtaken
                          /\ \E d \in heard : First(d)
                         THEN (CHOOSE d \in heard : First(d))[2]
                         ELSE thread.waked_by
<1>1. thread \in Threads
  BY DEF IInv, TypeOK
<1>2. waiting \in SUBSET Handles /\ sleeped \in SUBSET Handles /\ state \in States
  BY <1>1 DEF Threads, States
<1>3. waked_by \in Handles
  <2>1. CASE /\ thread.state = "Blocked" \/ overtaken
             /\ \E d \in heard : First(d)
    <3> DEFINE first == CHOOSE d \in heard : First(d)
    <3>1. first \in heard
      BY <2>1
    <3>2. heard \subseteq Pids \X Handles
      BY DEF Notifiers, Notifying
    <3>3. \A d \in heard : d[2] \in Handles
      BY <3>2
    <3> HIDE DEF first, heard, First
    <3>4. first[2] \in Handles
      BY <3>1, <3>3
    <3> QED  BY <2>1, <3>4 DEF first
  <2>2. CASE ~(/\ thread.state = "Blocked" \/ overtaken
               /\ \E d \in heard : First(d))
    BY <1>1, <2>2 DEF Threads
  <2> QED  BY <2>1, <2>2
<1>4. Ended(dying, order, p, t) =
         [thread EXCEPT !.waiting = waiting, !.sleeped = sleeped,
                        !.state = state, !.waked_by = waked_by]
  BY DEF Ended, After_End
<1>5. /\ /\ thread.state = "Exited"
         /\ \A o \in OsThreads : ~(at[o] = "marking" /\ Holds(o, p, t))
         => state = "Exited"
      /\ notifiers = {} /\ thread.state \in {"Blocked", "Exited"} =>
            state \in {"Blocked", "Exited"}
  BY DEF Overtaken
<1> HIDE DEF waiting, sleeped, state, waked_by
<1>6. /\ [thread EXCEPT !.waiting = waiting, !.sleeped = sleeped,
                        !.state = state, !.waked_by = waked_by] \in Threads
      /\ [thread EXCEPT !.waiting = waiting, !.sleeped = sleeped,
                        !.state = state, !.waked_by = waked_by].state = state
  <2> HIDE DEF thread
  <2>1. waiting \in SUBSET Handles
    BY <1>2
  <2>2. sleeped \in SUBSET Handles
    BY <1>2
  <2>3. state \in States
    BY <1>2
  <2> QED  BY <1>1, <1>3, <2>1, <2>2, <2>3 DEF Threads
<1>7. Ended(dying, order, p, t) \in Threads /\ Ended(dying, order, p, t).state = state
  BY <1>4, <1>6, Zenon
<1> QED  BY <1>5, <1>7

(* Exit and Shutdown, for any set of existing threads in any order.        *)
LEMMA EndThreadsKeeps ==
    ASSUME IInv, NEW os \in OsThreads, NEW dying \in SUBSET (Pids \X Handles), NEW order,
           \A d \in dying : threads[d[1]][d[2]] # None,
           End_Threads(os, dying, order), sig_shutdown' \in BOOLEAN, raised' \subseteq Flags
    PROVE  IInv' /\ Exited_Stays
<1> USE NoneFacts
<1> DEFINE blocking == Blocking(dying, order)
<1> DEFINE ending == {d \in dying : \A e \in blocking : d # e /\ <<d, e>> \in order}
<1>1. CASE fault' = TRUE /\ UNCHANGED <<ids, maps, at, wait>>
  <2>1. TypeOK'
    BY <1>1 DEF IInv, TypeOK, ids, maps
  <2> QED  BY <1>1, <2>1, ObjectsKept DEF ids, maps
<1>2. CASE ~(fault' = TRUE /\ UNCHANGED <<ids, maps, at, wait>>)
  <2>1. /\ threads' = [p \in Pids |-> [t \in Handles |-> Ended(ending, order, p, t)]]
        /\ process_table' = [p \in Pids |->
              IF \E d \in ending : d[1] = p /\ d[2] = process_table[p].process_tid
                THEN [process_table[p] EXCEPT !.state = "Exited"]
                ELSE process_table[p]]
        /\ at' = [o \in OsThreads |->
              IF o = os /\ blocking # {} THEN "stuck"
              ELSE IF Awakened(ending, o) THEN "woken" ELSE at[o]]
        /\ UNCHANGED <<ids, tid_to_pid, stdtid_to_tid, wait, fault>>
    BY <1>2 DEF End_Threads
  <2>20. ending \in SUBSET (Pids \X Handles) /\ \A d \in ending : threads[d[1]][d[2]] # None
    OBVIOUS
  <2> HIDE DEF ending, blocking
  <2>2. \A p \in Pids, t \in Handles :
           /\ threads[p][t] = None => threads'[p][t] = None
           /\ threads[p][t] # None => threads'[p][t] \in Threads
    <3> SUFFICES ASSUME NEW p \in Pids, NEW t \in Handles
                 PROVE  /\ threads[p][t] = None => threads'[p][t] = None
                        /\ threads[p][t] # None => threads'[p][t] \in Threads
      OBVIOUS
    <3>1. threads'[p][t] = Ended(ending, order, p, t)
      BY <2>1
    <3>2. threads[p][t] = None => Ended(ending, order, p, t) = None
      BY DEF Ended
    <3> QED  BY <2>20, <3>1, <3>2, EndedThread
  <2>3. \A p \in Pids :
           \/ process_table'[p] = process_table[p]
           \/ /\ process_table[p] # None /\ process_table'[p] \in Processes
              /\ process_table'[p].process_tid = process_table[p].process_tid
    <3> SUFFICES ASSUME NEW p \in Pids, process_table'[p] # process_table[p]
                 PROVE  /\ process_table[p] # None /\ process_table'[p] \in Processes
                        /\ process_table'[p].process_tid = process_table[p].process_tid
      OBVIOUS
    <3>1. /\ \E d \in ending : d[1] = p
          /\ process_table'[p] = [process_table[p] EXCEPT !.state = "Exited"]
      BY <2>1
    <3>2. process_table[p] \in Processes
      BY <2>20, <3>1 DEF IInv, MainThreadKept, TypeOK
    <3> QED  BY <3>1, <3>2, ProcessUpdate, Zenon DEF States
  <2>4. TypeOK'
    <3>1. threads' \in [Pids -> [Handles -> Threads \cup {None}]]
      <4>1. \A p \in Pids, t \in Handles : threads'[p][t] \in Threads \cup {None}
        BY <2>2
      <4> QED  BY <2>1, <4>1
    <3>2. process_table' \in [Pids -> Processes \cup {None}]
      <4>1. \A p \in Pids : process_table'[p] \in Processes \cup {None}
        BY <2>3 DEF IInv, TypeOK
      <4> QED  BY <2>1, <4>1
    <3>3. at' \in [OsThreads -> Places]
      BY <2>1 DEF IInv, TypeOK, Places
    <3> QED  BY <2>1, <3>1, <3>2, <3>3 DEF IInv, TypeOK, ids
  <2>5. IdsReserved' /\ TidsUnique' /\ MainThreadKept'
    <3>1. \A p \in Pids, t \in Handles : threads'[p][t] = None <=> threads[p][t] = None
      BY <2>2
    <3>2. \A p \in Pids :
             /\ process_table'[p] = None <=> process_table[p] = None
             /\ process_table[p] # None =>
                  process_table'[p].process_tid = process_table[p].process_tid
      BY <2>3
    <3> QED  BY <2>1, <3>1, <3>2, NobodyAddedOrRemoved
  <2>6. SleepersMarked'
    <3> SUFFICES ASSUME ~fault', NEW o \in OsThreads, at'[o] = "waiting"
                 PROVE /\ threads'[wait'[o].pid][wait'[o].tid] # None
                       /\ threads'[wait'[o].pid][wait'[o].tid].state
                             \in {"Blocked", "Exited"}
      BY DEF SleepersMarked
    <3> DEFINE p == wait[o].pid
    <3> DEFINE t == wait[o].tid
    <3>1. p \in Pids /\ t \in Handles /\ wait'[o] = wait[o] /\ ~fault
      BY <2>1 DEF IInv, TypeOK
    <3>2. at[o] = "waiting" /\ Notifiers(ending, p, t) = {}
      BY <2>1 DEF Awakened
    <3>3. threads[p][t] # None /\ threads[p][t].state \in {"Blocked", "Exited"}
      BY <3>1, <3>2 DEF IInv, SleepersMarked
    <3>4. threads'[p][t] = Ended(ending, order, p, t)
      BY <2>1, <3>1
    <3>5. Ended(ending, order, p, t) \in Threads
             /\ Ended(ending, order, p, t).state \in {"Blocked", "Exited"}
      BY <2>20, <3>1, <3>2, <3>3, EndedThread
    <3> QED  BY <3>1, <3>4, <3>5
  <2>7. MarkersKept'
    <3>1. \A p \in Pids, t \in Handles : threads[p][t] # None => threads'[p][t] # None
      BY <2>2
    <3>2. \A o \in OsThreads : at'[o] = "marking" => at[o] = "marking"
      BY <2>1
    <3> QED  BY <2>1, <3>1, <3>2, MarkersStay
  <2>8. Exited_Stays
    <3> SUFFICES ASSUME NEW p \in Pids, NEW t \in Handles,
                        threads[p][t] # None, threads[p][t].state = "Exited",
                        \A o \in OsThreads : ~(at[o] = "marking" /\ Holds(o, p, t))
                 PROVE  threads'[p][t].state = "Exited"
      BY DEF Exited_Stays
    <3>1. threads'[p][t] = Ended(ending, order, p, t)
      BY <2>1
    <3> QED  BY <2>20, <3>1, EndedThread
  <2> QED  BY <2>4, <2>5, <2>6, <2>7, <2>8 DEF IInv
<1> QED  BY <1>1, <1>2

LEMMA ExitKeeps ==
    ASSUME IInv, NEW os \in OsThreads, Exit(os)
    PROVE  IInv' /\ Exited_Stays
<1> DEFINE tid == Get_TID(os)
<1> DEFINE pid == tid_to_pid[tid]
<1> DEFINE main == process_table[pid].process_tid
<1> DEFINE dying == IF tid = main
                      THEN {<<pid, t>> : t \in {u \in Handles : threads[pid][u] # None}}
                      ELSE {<<pid, tid>>}
<1>1. pid \in Pids /\ tid \in Handles /\ threads[pid][tid] # None
  BY LookupTypes DEF Exit, Known
<1>2. PICK order : End_Threads(os, dying, order)
  BY DEF Exit
<1>3. dying \in SUBSET (Pids \X Handles) /\ \A d \in dying : threads[d[1]][d[2]] # None
  <2> HIDE DEF tid, pid
  <2> QED  BY <1>1
<1>4. sig_shutdown' \in BOOLEAN /\ raised' \subseteq Flags
  BY DEF Exit, signals, IInv, TypeOK
<1> HIDE DEF dying
<1> QED  BY <1>2, <1>3, <1>4, EndThreadsKeeps

LEMMA ShutdownKeeps ==
    ASSUME IInv, NEW os \in OsThreads, Shutdown(os)
    PROVE  IInv' /\ Exited_Stays
<1> DEFINE present == {p \in Pids : process_table[p] # None}
<1> DEFINE walked == {p \in Pids : p < Cardinality(present)}
<1> DEFINE all == {d \in walked \X Handles : threads[d[1]][d[2]] # None}
<1> DEFINE dying == {d \in all : \/ d[2] # process_table[d[1]].process_tid
                                 \/ process_table[d[1]].name = "shell" /\ d[1] > 1}
<1>1. CASE Crash
  BY <1>1, CrashKeeps
<1>2. CASE ~Crash
  <2>1. /\ \E order : End_Threads(os, dying, order)
        /\ sig_shutdown' = TRUE
        /\ \E reached \in SUBSET all : raised' =
              raised \cup ({threads[d[1]][d[2]].handler : d \in reached} \ {None})
    BY <1>2 DEF Shutdown
  <2>2. PICK order : End_Threads(os, dying, order)
    BY <2>1
  <2>3. walked \subseteq Pids
    OBVIOUS
  <2> HIDE DEF walked
  <2>4. \A d \in all : /\ d \in Pids \X Handles /\ threads[d[1]][d[2]] # None
                       /\ threads[d[1]][d[2]].handler \in Flags \cup {None}
    <3> SUFFICES ASSUME NEW d \in all
                 PROVE  /\ d \in Pids \X Handles /\ threads[d[1]][d[2]] # None
                        /\ threads[d[1]][d[2]].handler \in Flags \cup {None}
      OBVIOUS
    <3>1. d \in Pids \X Handles /\ threads[d[1]][d[2]] # None
      BY <2>3
    <3>2. threads[d[1]][d[2]] \in Threads
      BY <3>1 DEF IInv, TypeOK
    <3> QED  BY <3>1, <3>2 DEF Threads
  <2>5. raised' \subseteq Flags
    BY <2>1, <2>4 DEF IInv, TypeOK
  <2>6. dying \in SUBSET (Pids \X Handles) /\ \A d \in dying : threads[d[1]][d[2]] # None
    <3>1. dying \subseteq all
      OBVIOUS
    <3> HIDE DEF dying, all
    <3>2. \A d \in dying : d \in Pids \X Handles /\ threads[d[1]][d[2]] # None
      BY <2>4, <3>1
    <3> QED  BY <3>2
  <2> HIDE DEF dying
  <2> QED  BY <2>1, <2>2, <2>5, <2>6, EndThreadsKeeps
<1> QED  BY <1>1, <1>2

-----------------------------------------------------------------------------
(* Every step, and what follows for every behaviour.                       *)

(* The calls of programs that pass any handles, and not only those of      *)
(* Given and Arrays.                                                       *)
Any_Call(os) ==
    \/ \E handle \in Handles : Create_Refused(os, handle)
    \/ \E new \in OsThreads, name \in Programs, tid \in Handles :
          Create_Process(os, name, new, tid)
    \/ \E handle \in Handles : Create_Thread_Refused(os, handle)
    \/ \E new \in OsThreads, tid \in Handles : Create_Thread(os, new, tid)
    \/ \E handles \in Seq(Handles) : Wait_For(os, handles)
    \/ \E tid \in Handles : Read_Exit_Code(os, tid)
    \/ \E tid \in Handles : Read_Exit_Code_Unknown(os, tid)
    \/ Exit(os) \/ Exit_Unknown(os)
    \/ Shutdown(os)
    \/ \E flag \in Flags : Register_Signal_Handler(os, flag)
    \/ Thread_Return(os)

Any_Next == \E os \in OsThreads : Any_Call(os) \/ Proceed(os) \/ Astray_Step(os)

LEMMA NextIsAny == [Next]_vars => [Any_Next]_vars
<1>1. Given \subseteq Handles /\ Arrays \subseteq Seq(Handles)
  <2>1. ASSUME NEW handles \in Arrays  PROVE handles \in Seq(Handles)
    <3>1. handles \in Seq(Given) /\ Given \subseteq Handles
      OBVIOUS
    <3> QED  BY <3>1
  <2> QED  BY <2>1
<1>2. ASSUME NEW os \in OsThreads, Call(os)  PROVE Any_Call(os)
  BY <1>1, <1>2 DEF Call, Any_Call
<1> QED  BY <1>2 DEF Next, Any_Next

LEMMA NextKeeps ==
    ASSUME IInv, [Any_Next]_vars
    PROVE  IInv' /\ Exited_Stays
<1>1. CASE UNCHANGED vars
  BY <1>1, StutterKeeps
<1>2. ASSUME NEW os \in OsThreads, Any_Call(os)
      PROVE  IInv' /\ Exited_Stays
  <2>1. ASSUME NEW handle \in Handles, Create_Refused(os, handle)
        PROVE  IInv' /\ Exited_Stays
    BY <2>1, StutterKeeps DEF Create_Refused
  <2>2. ASSUME NEW new \in OsThreads, NEW name \in Programs, NEW tid \in Handles,
               Create_Process(os, name, new, tid)
        PROVE  IInv' /\ Exited_Stays
    BY <2>2, CreateProcessKeeps
  <2>3. ASSUME NEW handle \in Handles, Create_Thread_Refused(os, handle)
        PROVE  IInv' /\ Exited_Stays
    BY <2>3, CreateThreadRefusedKeeps
  <2>4. ASSUME NEW new \in OsThreads, NEW tid \in Handles, Create_Thread(os, new, tid)
        PROVE  IInv' /\ Exited_Stays
    BY <2>4, CreateThreadKeeps
  <2>5. ASSUME NEW handles \in Seq(Handles), Wait_For(os, handles)
        PROVE  IInv' /\ Exited_Stays
    BY <2>5, WaitForKeeps
  <2>6. ASSUME NEW tid \in Handles, Read_Exit_Code(os, tid)
        PROVE  IInv' /\ Exited_Stays
    BY <2>6, ReadExitCodeKeeps
  <2>7. ASSUME NEW tid \in Handles, Read_Exit_Code_Unknown(os, tid)
        PROVE  IInv' /\ Exited_Stays
    BY <2>7, StutterKeeps DEF Read_Exit_Code_Unknown
  <2>8. CASE Exit(os)
    BY <2>8, ExitKeeps
  <2>9. CASE Exit_Unknown(os)
    BY <2>9, ExitUnknownKeeps
  <2>10. CASE Shutdown(os)
    BY <2>10, ShutdownKeeps
  <2>11. ASSUME NEW flag \in Flags, Register_Signal_Handler(os, flag)
         PROVE  IInv' /\ Exited_Stays
    BY <2>11, RegisterSignalHandlerKeeps
  <2>12. CASE Thread_Return(os)
    BY <2>12, ThreadReturnKeeps
  <2> QED  BY <1>2, <2>1, <2>2, <2>3, <2>4, <2>5, <2>6, <2>7, <2>8, <2>9, <2>10,
              <2>11, <2>12 DEF Any_Call
<1>3. ASSUME NEW os \in OsThreads, Proceed(os)
      PROVE  IInv' /\ Exited_Stays
  BY <1>3, RegisterHandlesKeeps, StopKeeps, MarkKeeps, WaitForReturnKeeps DEF Proceed
<1>4. ASSUME NEW os \in OsThreads, Astray_Step(os)
      PROVE  IInv' /\ Exited_Stays
  BY <1>4, SpuriousWakeupKeeps, UseAfterFreeKeeps DEF Astray_Step
<1> QED  BY <1>1, <1>2, <1>3, <1>4 DEF Any_Next

-----------------------------------------------------------------------------
(* Signals: apart from a Clone, which is refused during a shutdown, and a  *)
(* registration, no step adds a thread or gives one another handler.       *)

Handlers_Kept ==
    \A p \in Pids, t \in Handles : threads'[p][t] # None =>
        threads[p][t] # None /\ threads'[p][t].handler = threads[p][t].handler

(* Keeping the handlers and the flags is enough.                           *)
LEMMA SignalsKept ==
    ASSUME SignalsDelivered, Handlers_Kept, raised \subseteq raised',
           sig_shutdown' => sig_shutdown, fault => fault',
           Table_Unlocked' => Table_Unlocked
    PROVE  SignalsDelivered'
BY DEF SignalsDelivered, Handlers_Kept

(* A step that leaves the threads alone keeps their handlers.              *)
LEMMA UnchangedThreads ==
    ASSUME UNCHANGED threads
    PROVE  Handlers_Kept
BY DEF Handlers_Kept

(* A call that is stuck never comes back: the table stays locked.          *)
LEMMA StuckForGood ==
    ASSUME IInv, [Any_Next]_vars
    PROVE  Table_Unlocked' => Table_Unlocked
<1> SUFFICES ASSUME NEW o \in OsThreads, at[o] = "stuck"
             PROVE  at'[o] = "stuck"
  BY DEF Table_Unlocked
<1>1. \A os \in OsThreads : ~Locking(os)
  BY DEF Locking, Table_Unlocked
<1>2. ASSUME NEW os \in OsThreads, Any_Call(os)
      PROVE  at'[o] = "stuck"
  <2>1. \/ \E handles \in Seq(Handles) : Wait_For(os, handles)
        \/ Thread_Return(os)
    BY <1>1, <1>2 DEF Any_Call, Create_Refused, Create_Process, Create_Thread_Refused,
       Create_Thread, Read_Exit_Code, Read_Exit_Code_Unknown, Exit, Exit_Unknown,
       Shutdown, Register_Signal_Handler
  <2> QED  BY <2>1 DEF Wait_For, Thread_Return, Calling, Crash, IInv, TypeOK
<1>3. ASSUME NEW os \in OsThreads, Proceed(os)
      PROVE  at'[o] = "stuck"
  <2>1. CASE Stop(os)
    BY <2>1 DEF Stop, Crash, IInv, TypeOK
  <2>2. CASE Mark(os)
    BY <2>2 DEF Mark, IInv, TypeOK
  <2>3. ~Register_Handles(os) /\ ~Wait_For_Return(os)
    BY DEF Register_Handles, Wait_For_Return, Table_Unlocked
  <2> QED  BY <1>3, <2>1, <2>2, <2>3 DEF Proceed
<1>4. ASSUME NEW os \in OsThreads, Astray_Step(os)
      PROVE  at'[o] = "stuck"
  BY <1>4 DEF Astray_Step, Spurious_Wakeup, Use_After_Free, Crash, IInv, TypeOK
<1> QED  BY <1>2, <1>3, <1>4 DEF Any_Next, vars

(* Registering with the awaited handles touches no signal handler.         *)
LEMMA RegisterHandlesSignals ==
    ASSUME IInv, NEW os \in OsThreads, Register_Handles(os), ~fault'
    PROVE  Handlers_Kept
<1> DEFINE registered(n) == {wait[os].handles[i] : i \in 1 .. n}
<1>1. PICK n \in 0 .. Len(wait[os].handles) :
         threads' = [p \in Pids |-> [t \in Handles |->
                        Linked(p, t, wait[os], registered(n))]]
  <2>1. ~Crash
    BY DEF Crash
  <2> QED  BY <2>1 DEF Register_Handles
<1> HIDE DEF registered
<1>2. ASSUME NEW p \in Pids, NEW t \in Handles, threads'[p][t] # None
      PROVE  threads[p][t] # None /\ threads'[p][t].handler = threads[p][t].handler
  <2>1. threads'[p][t] = Linked(p, t, wait[os], registered(n))
    BY <1>1
  <2>2. threads[p][t] # None /\ threads[p][t] \in Threads
    BY <1>2, <2>1 DEF Linked, IInv, TypeOK
  <2> QED  BY <2>1, <2>2 DEF Linked, Threads
<1> QED  BY <1>2 DEF Handlers_Kept

(* Stop marks the caller's thread, reaping takes threads away.             *)
LEMMA StopSignals ==
    ASSUME NEW os \in OsThreads, Stop(os)
    PROVE  Handlers_Kept
BY UnchangedThreads DEF Stop, Crash, maps

LEMMA MarkSignals ==
    ASSUME IInv, NEW os \in OsThreads, Mark(os)
    PROVE  Handlers_Kept
<1> DEFINE pid == wait[os].pid
<1> DEFINE tid == wait[os].tid
<1>1. threads[pid][tid] # None /\ threads' = [threads EXCEPT ![pid][tid].state = "Blocked"]
  BY DEF Mark, IInv, MarkersKept
<1>2. \A p \in Pids, t \in Handles : threads'[p][t] # None =>
         threads[p][t] # None /\ threads'[p][t].handler = threads[p][t].handler
  <2>1. pid \in Pids /\ tid \in Handles /\ threads[pid][tid] \in Threads
    BY <1>1 DEF IInv, TypeOK
  <2>2. \A p \in Pids, t \in Handles :
           \/ threads'[p][t] = threads[p][t]
           \/ /\ p = pid /\ t = tid
              /\ threads'[p][t] = [threads[p][t] EXCEPT !.state = "Blocked"]
    BY <1>1, <2>1 DEF IInv, TypeOK
  <2>3. [threads[pid][tid] EXCEPT !.state = "Blocked"].handler = threads[pid][tid].handler
    BY <2>1 DEF Threads
  <2>4. \A p \in Pids, t \in Handles :
           threads'[p][t] # None =>
             threads[p][t] # None /\ threads'[p][t].handler = threads[p][t].handler
    <3> SUFFICES ASSUME NEW p \in Pids, NEW t \in Handles, threads'[p][t] # None
                 PROVE threads[p][t] # None /\ threads'[p][t].handler = threads[p][t].handler
      OBVIOUS
    <3>1. CASE threads'[p][t] = threads[p][t]
      BY <3>1
    <3>2. CASE p = pid /\ t = tid /\ threads'[p][t] = [threads[p][t] EXCEPT !.state = "Blocked"]
      BY <1>1, <2>3, <3>2
    <3> QED  BY <2>2, <3>1, <3>2
  <2> QED  BY <2>4
<1> QED  BY <1>2 DEF Handlers_Kept

LEMMA ReadExitCodeSignals ==
    ASSUME IInv, NEW os \in OsThreads, NEW tid \in Handles, Read_Exit_Code(os, tid), ~fault'
    PROVE  Handlers_Kept
<1> DEFINE pid == tid_to_pid[tid]
<1>1. pid \in Pids
  BY DEF Read_Exit_Code, Known, IInv, TypeOK
<1>2. PICK removed : threads' = [threads EXCEPT ![pid] = [t \in Handles |->
                                    IF t \in removed THEN None ELSE @[t]]]
  BY DEF Read_Exit_Code, Crash
<1>3. \A p \in Pids, t \in Handles : threads'[p][t] \in {threads[p][t], None}
  BY <1>1, <1>2 DEF IInv, TypeOK
<1> QED  BY <1>3 DEF Handlers_Kept

(* A thread that ends, or that is notified, keeps its handler.             *)
LEMMA EndedHandler ==
    ASSUME NEW dying, NEW order, NEW p, NEW t,
           threads[p][t] # None, threads[p][t] \in Threads
    PROVE  Ended(dying, order, p, t).handler = threads[p][t].handler
<1> DEFINE thread == threads[p][t]
<1> DEFINE dies == <<p, t>> \in dying
<1> DEFINE notifiers == Notifiers(dying, p, t)
<1> DEFINE overtaken == notifiers # {} /\ Overtaken(dying, order, p, t)
<1> DEFINE heard == {d \in notifiers :
                        dies /\ ~overtaken => <<d, <<p, t>>>> \in order}
<1> DEFINE First(d) == \A other \in heard : other = d \/ <<d, other>> \in order
<1> DEFINE waiting == IF dies THEN {} ELSE thread.waiting \ {d[2] : d \in notifiers}
<1> DEFINE sleeped == IF \E d \in Notifying(dying) : d[2] = t /\ p = Pid_Of(t)
                        THEN {} ELSE thread.sleeped
<1> DEFINE state == IF overtaken THEN "Running"
                    ELSE IF dies THEN "Exited"
                    ELSE IF notifiers # {} /\ thread.state = "Blocked" THEN "Running"
                    ELSE thread.state
<1> DEFINE waked_by == IF /\ thread.state = "Blocked" \/ overtaken
                          /\ \E d \in heard : First(d)
                         THEN (CHOOSE d \in heard : First(d))[2]
                         ELSE thread.waked_by
<1>1. Ended(dying, order, p, t) =
         [thread EXCEPT !.waiting = waiting, !.sleeped = sleeped,
                        !.state = state, !.waked_by = waked_by]
  BY DEF Ended, After_End
<1> HIDE DEF waiting, sleeped, state, waked_by
<1>2. [thread EXCEPT !.waiting = waiting, !.sleeped = sleeped,
                     !.state = state, !.waked_by = waked_by].handler = thread.handler
  BY DEF Threads
<1> QED  BY <1>1, <1>2

(* Ending threads leaves every handler as it was.                          *)
LEMMA EndThreadsSignals ==
    ASSUME IInv, NEW os \in OsThreads, NEW dying, NEW order,
           End_Threads(os, dying, order), ~fault'
    PROVE  Handlers_Kept
<1> DEFINE ending == {d \in dying : \A e \in Blocking(dying, order) :
                                       d # e /\ <<d, e>> \in order}
<1>1. CASE UNCHANGED threads
  BY <1>1, UnchangedThreads
<1>2. CASE threads' = [p \in Pids |-> [t \in Handles |-> Ended(ending, order, p, t)]]
  <2> HIDE DEF ending
  <2>1. ASSUME NEW p \in Pids, NEW t \in Handles, threads'[p][t] # None
        PROVE  threads[p][t] # None /\ threads'[p][t].handler = threads[p][t].handler
    <3>1. threads'[p][t] = Ended(ending, order, p, t)
      BY <1>2
    <3>2. threads[p][t] # None /\ threads[p][t] \in Threads
      BY <2>1, <3>1 DEF Ended, IInv, TypeOK
    <3>3. Ended(ending, order, p, t).handler = threads[p][t].handler
      BY <3>2, EndedHandler
    <3> QED  BY <3>1, <3>2, <3>3
  <2> QED  BY <2>1 DEF Handlers_Kept
<1>3. \/ UNCHANGED threads
      \/ threads' = [p \in Pids |-> [t \in Handles |-> Ended(ending, order, p, t)]]
  BY DEF End_Threads, Crash, maps
<1> QED  BY <1>1, <1>2, <1>3

(* The handlers that a Shutdown which is not stuck runs are those of all   *)
(* threads: the PIDs it walks are all there are, or it faults, and no      *)
(* other process has one.                                                  *)
LEMMA ShutdownSignals ==
    ASSUME IInv, NEW os \in OsThreads, Shutdown(os)
    PROVE  SignalsDelivered'
<1> SUFFICES ASSUME ~fault', Table_Unlocked' PROVE SignalsDelivered'
  BY DEF SignalsDelivered
<1> DEFINE present == {p \in Pids : process_table[p] # None}
<1> DEFINE walked == {p \in Pids : p < Cardinality(present)}
<1> DEFINE all == {d \in walked \X Handles : threads[d[1]][d[2]] # None}
<1> DEFINE dying == {d \in all : \/ d[2] # process_table[d[1]].process_tid
                                 \/ process_table[d[1]].name = "shell" /\ d[1] > 1}
<1> DEFINE order == {pair \in all \X all : LET c == pair[1]  d == pair[2] IN
                        c[1] > d[1] \/ (c[1] = d[1] /\ c[2] < d[2])}
<1> DEFINE reached == {d \in all :
                          \A e \in Blocking(dying, order) : d = e \/ <<d, e>> \in order}
<1>1. /\ walked = present
      /\ End_Threads(os, dying, order)
      /\ raised' = raised \cup ({threads[d[1]][d[2]].handler : d \in reached} \ {None})
  BY DEF Shutdown, Crash
<1> HIDE DEF dying, order
<1>2. Handlers_Kept
  BY <1>1, EndThreadsSignals
<1>3. reached = all
  <2>1. at'[os] # "stuck"
    BY DEF Table_Unlocked
  <2>2. Blocking(dying, order) = {}
    BY <1>1, <2>1 DEF End_Threads
  <2> QED  BY <2>2
<1> HIDE DEF walked, reached
<1>4. ASSUME NEW p \in Pids, NEW t \in Handles, threads'[p][t] # None
      PROVE  threads'[p][t].handler \in raised' \cup {None}
  <2>1. threads[p][t] # None /\ threads'[p][t].handler = threads[p][t].handler
    BY <1>2, <1>4 DEF Handlers_Kept
  <2>2. p \in present
    BY <2>1 DEF IInv, MainThreadKept
  <2>3. <<p, t>> \in all
    BY <1>1, <2>1, <2>2
  <2>4. threads[p][t].handler \in {threads[d[1]][d[2]].handler : d \in all}
    BY <2>3
  <2> QED  BY <1>1, <1>3, <2>1, <2>4
<1> QED  BY <1>4 DEF SignalsDelivered

(* A registration before the shutdown is kept, one during it is carried    *)
(* out.                                                                    *)
LEMMA RegisterSignalHandlerSignals ==
    ASSUME SignalsDelivered, NEW os \in OsThreads, NEW flag \in Flags,
           Register_Signal_Handler(os, flag)
    PROVE  SignalsDelivered'
<1>1. CASE ~sig_shutdown
  BY <1>1 DEF Register_Signal_Handler, SignalsDelivered
<1>2. CASE sig_shutdown
  <2>1. UNCHANGED <<threads, fault, sig_shutdown>> /\ raised \subseteq raised'
    BY <1>2 DEF Register_Signal_Handler
  <2>2. Table_Unlocked
    BY DEF Register_Signal_Handler, Locking
  <2> QED  BY <2>1, <2>2, UnchangedThreads, SignalsKept
<1> QED  BY <1>1, <1>2

LEMMA NextSignals ==
    ASSUME IInv, SignalsDelivered, [Any_Next]_vars
    PROVE  SignalsDelivered'
<1> SUFFICES ASSUME ~fault', Table_Unlocked' => Table_Unlocked PROVE SignalsDelivered'
  BY StuckForGood DEF SignalsDelivered
<1>1. CASE UNCHANGED vars
  BY <1>1, UnchangedThreads, SignalsKept DEF vars, maps, signals
<1>2. ASSUME NEW os \in OsThreads, Any_Call(os)
      PROVE  SignalsDelivered'
  <2>1. ASSUME NEW handle \in Handles, Create_Refused(os, handle)
        PROVE  SignalsDelivered'
    BY <2>1, UnchangedThreads, SignalsKept DEF Create_Refused, vars, maps, signals
  <2>2. ASSUME NEW new \in OsThreads, NEW name \in Programs, NEW tid \in Handles,
               Create_Process(os, name, new, tid)
        PROVE  SignalsDelivered'
    BY <2>2 DEF Create_Process, Crash, signals, SignalsDelivered
  <2>3. ASSUME NEW handle \in Handles, Create_Thread_Refused(os, handle)
        PROVE  SignalsDelivered'
    BY <2>3 DEF Create_Thread_Refused, signals, SignalsDelivered
  <2>4. ASSUME NEW new \in OsThreads, NEW tid \in Handles, Create_Thread(os, new, tid)
        PROVE  SignalsDelivered'
    BY <2>4 DEF Create_Thread, signals, SignalsDelivered
  <2>5. ASSUME NEW handles \in Seq(Handles), Wait_For(os, handles)
        PROVE  SignalsDelivered'
    BY <2>5, UnchangedThreads, SignalsKept DEF Wait_For, Crash, maps, signals
  <2>6. ASSUME NEW tid \in Handles, Read_Exit_Code(os, tid)
        PROVE  SignalsDelivered'
    <3>1. Handlers_Kept
      BY <2>6, ReadExitCodeSignals
    <3>2. UNCHANGED signals /\ (fault => fault')
      BY <2>6 DEF Read_Exit_Code, Crash
    <3> QED  BY <3>1, <3>2, SignalsKept DEF signals
  <2>7. ASSUME NEW tid \in Handles, Read_Exit_Code_Unknown(os, tid)
        PROVE  SignalsDelivered'
    BY <2>7, UnchangedThreads, SignalsKept DEF Read_Exit_Code_Unknown, vars, maps, signals
  <2>8. CASE Exit(os)
    <3>1. UNCHANGED signals /\ ~fault /\ \E dying, order : End_Threads(os, dying, order)
      BY <2>8 DEF Exit, Locking, Calling
    <3>2. Handlers_Kept
      BY <3>1, EndThreadsSignals
    <3> QED  BY <3>1, <3>2, SignalsKept DEF signals
  <2>9. CASE Exit_Unknown(os)
    BY <2>9, UnchangedThreads, SignalsKept DEF Exit_Unknown, signals
  <2>10. CASE Shutdown(os)
    BY <2>10, ShutdownSignals
  <2>11. ASSUME NEW flag \in Flags, Register_Signal_Handler(os, flag)
         PROVE  SignalsDelivered'
    BY <2>11, RegisterSignalHandlerSignals
  <2>12. CASE Thread_Return(os)
    BY <2>12, UnchangedThreads, SignalsKept DEF Thread_Return, maps, signals
  <2> QED  BY <1>2, <2>1, <2>2, <2>3, <2>4, <2>5, <2>6, <2>7, <2>8, <2>9, <2>10,
              <2>11, <2>12 DEF Any_Call
<1>3. ASSUME NEW os \in OsThreads, Proceed(os)
      PROVE  SignalsDelivered'
  <2>1. Handlers_Kept
    BY <1>3, RegisterHandlesSignals, StopSignals, MarkSignals, UnchangedThreads
       DEF Proceed, Wait_For_Return, maps
  <2>2. UNCHANGED signals /\ ~fault
    BY <1>3 DEF Proceed, Register_Handles, Stop, Mark, Wait_For_Return, Crash
  <2> QED  BY <2>1, <2>2, SignalsKept DEF signals
<1>4. ASSUME NEW os \in OsThreads, Astray_Step(os)
      PROVE  SignalsDelivered'
  BY <1>4, UnchangedThreads, SignalsKept
     DEF Astray_Step, Spurious_Wakeup, Use_After_Free, Crash, maps, signals
<1> QED  BY <1>1, <1>2, <1>3, <1>4 DEF Any_Next

-----------------------------------------------------------------------------
(* The search loops of the two tables.                                     *)

PidLoop == INSTANCE IdAllocator_proofs WITH Min <- 0, Count <- PidCount
TidLoop == INSTANCE IdAllocator_proofs WITH Min <- TidMin, Count <- TidCount

(* Both loops find the id that Is_Next_Free names, in any two tables.      *)
LEMMA SearchesAgree == TypeOK => SearchAgrees
<1> SUFFICES ASSUME TypeOK  PROVE SearchAgrees
  OBVIOUS
<1>1. ASSUME NEW id \in Pid!Ids \cup {NoId}
      PROVE  Pid!Is_Next_Free(pid_table, id) <=> id = Pid!Search(pid_table)
  <2>1. PidLoop!Slots_Aligned
    BY DEF PidLoop!Slots_Aligned, PidLoop!Ids
  <2>2. PidLoop!IsTable(pid_table)
    BY DEF TypeOK, Pid!IsTable, PidLoop!IsTable, Pid!Ids, PidLoop!Ids
  <2>3. id \in PidLoop!Ids \cup {NoId}
    BY DEF PidLoop!Ids, Pid!Ids
  <2>4. PidLoop!Is_Next_Free(pid_table, id) <=> id = PidLoop!Search(pid_table)
    BY <2>1, <2>2, <2>3, PidLoop!SearchFindsNext
  <2>5. PidLoop!Is_Next_Free(pid_table, id) <=> Pid!Is_Next_Free(pid_table, id)
    BY DEF PidLoop!Is_Next_Free, Pid!Is_Next_Free, PidLoop!Unused, Pid!Unused,
           PidLoop!Distance, Pid!Distance, PidLoop!Start, Pid!Start,
           PidLoop!Next_Slot, Pid!Next_Slot, PidLoop!Ids, Pid!Ids
  <2>6. PidLoop!Search(pid_table) = Pid!Search(pid_table)
    BY DEF PidLoop!Search, Pid!Search, PidLoop!Slot_Used, Pid!Slot_Used,
           PidLoop!Next_Slot, Pid!Next_Slot, PidLoop!Ids, Pid!Ids
  <2> QED  BY <2>4, <2>5, <2>6
<1>2. ASSUME NEW id \in Tid!Ids \cup {NoId}
      PROVE  Tid!Is_Next_Free(tid_table, id) <=> id = Tid!Search(tid_table)
  <2>1. TidLoop!Slots_Aligned
    BY DEF TidLoop!Slots_Aligned, TidLoop!Ids
  <2>2. TidLoop!IsTable(tid_table)
    BY DEF TypeOK, Tid!IsTable, TidLoop!IsTable, Tid!Ids, TidLoop!Ids
  <2>3. id \in TidLoop!Ids \cup {NoId}
    BY DEF TidLoop!Ids, Tid!Ids
  <2>4. TidLoop!Is_Next_Free(tid_table, id) <=> id = TidLoop!Search(tid_table)
    BY <2>1, <2>2, <2>3, TidLoop!SearchFindsNext
  <2>5. TidLoop!Is_Next_Free(tid_table, id) <=> Tid!Is_Next_Free(tid_table, id)
    BY DEF TidLoop!Is_Next_Free, Tid!Is_Next_Free, TidLoop!Unused, Tid!Unused,
           TidLoop!Distance, Tid!Distance, TidLoop!Start, Tid!Start,
           TidLoop!Next_Slot, Tid!Next_Slot, TidLoop!Ids, Tid!Ids
  <2>6. TidLoop!Search(tid_table) = Tid!Search(tid_table)
    BY DEF TidLoop!Search, Tid!Search, TidLoop!Slot_Used, Tid!Slot_Used,
           TidLoop!Next_Slot, Tid!Next_Slot, TidLoop!Ids, Tid!Ids
  <2> QED  BY <2>4, <2>5, <2>6
<1> QED  BY <1>1, <1>2 DEF SearchAgrees

(* The invariant holds in every reachable state.                           *)
THEOREM Invariance == Spec => []IInv
<1>1. Init => IInv
  BY InitIInv
<1>2. IInv /\ [Next]_vars => IInv'
  BY NextKeeps, NextIsAny
<1> QED  BY <1>1, <1>2, PTL DEF Spec

(* Every variable of the process controller has its type.                  *)
THEOREM TypeCorrect == Spec => []TypeOK
<1>1. IInv => TypeOK
  BY DEF IInv
<1> QED  BY <1>1, Invariance, PTL

(* Get_Free_PID and Get_Free_TID hand out the id their loops stop at, from *)
(* every table that the calls leave behind, with as many ids as one likes. *)
THEOREM SearchAlwaysAgrees == Spec => []SearchAgrees
<1>1. TypeOK => SearchAgrees
  BY SearchesAgree
<1> QED  BY <1>1, TypeCorrect, PTL

(* Get_Free_PID and Get_Free_TID never hand out the id of a process or     *)
(* thread that is still in the table.                                      *)
THEOREM IdsStayReserved == Spec => []IdsReserved
<1>1. IInv => IdsReserved
  BY DEF IInv
<1> QED  BY <1>1, Invariance, PTL

(* A TID names at most one thread, whichever process it belongs to.        *)
THEOREM TidsStayUnique == Spec => []TidsUnique
<1>1. IInv => TidsUnique
  BY DEF IInv
<1> QED  BY <1>1, Invariance, PTL

(* A live process has its main thread and a dead one has no thread.        *)
THEOREM MainThreadStays == Spec => []MainThreadKept
<1>1. IInv => MainThreadKept
  BY DEF IInv
<1> QED  BY <1>1, Invariance, PTL

(* A thread asleep in Stop is marked as such until it is woken.            *)
THEOREM SleepersStayMarked == Spec => []SleepersMarked
<1>1. IInv => SleepersMarked
  BY DEF IInv
<1> QED  BY <1>1, Invariance, PTL

(* A shutdown that comes back has reached every handler, and one that is   *)
(* registered afterwards is run as well.                                   *)
THEOREM SignalsReachAll == Spec => []SignalsDelivered
<1>1. Init => SignalsDelivered
  BY DEF Init, SignalsDelivered
<1>2. IInv /\ SignalsDelivered /\ [Next]_vars => SignalsDelivered'
  BY NextSignals, NextIsAny
<1> QED  BY <1>1, <1>2, Invariance, PTL DEF Spec

(* No step revives a thread that has exited, except that its own Stop,     *)
(* when it had tested the state before, marks it Blocked after.            *)
THEOREM ExitIsFinal == Spec => ExitedIsFinal
<1>1. IInv /\ [Next]_vars => [Exited_Stays]_vars
  BY NextKeeps, NextIsAny
<1>2. Spec => [][Exited_Stays]_vars
  BY <1>1, Invariance, PTL DEF Spec
<1> QED  BY <1>2 DEF ExitedIsFinal, Exited_Stays
=============================================================================
