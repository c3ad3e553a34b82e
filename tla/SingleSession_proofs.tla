------------------------ MODULE SingleSession_proofs ------------------------
(***************************************************************************)
(* Proofs about the sessions of single commands: one command in a line, as *)
(* many nested shells as there are ids, no shutdown but from the first     *)
(* shell.  Their processes lie on a stack, the shell at its bottom, and    *)
(* each but the topmost waits for the one above it.                        *)
(***************************************************************************)
EXTENDS Session_proofs, FiniteSetTheorems

(* The sessions meant: the ids suffice for the OS threads there are.       *)
Orderly ==
    /\ MaxPipeline = 1 /\ ~ReuseStale /\ ~SpuriousWakeups
    /\ "shutdown" \notin NestedCommands
    /\ IsFiniteSet(OsThreads)
    /\ Cardinality(OsThreads) <= PidCount /\ Cardinality(OsThreads) <= TidCount

(* The main thread of process p, and its OS thread.                        *)
Main(p) == threads[p][TidMin + p]
Runner(p) == Main(p).os
Helper(n) == threads[n - 1][TidMin + n]

(* Thread t of process p is there.                                         *)
ThreadAt(n, k, p, t) == \/ p < n /\ t = TidMin + p
                        \/ k = n + 1 /\ p + 1 = n /\ t = TidMin + n

IdsStacked(n, k) ==
    /\ n \in 0 .. PidCount /\ k \in 0 .. TidCount /\ k \in {n, n + 1}
    /\ n = 0 => k = 0
    /\ pid_table.used = {p \in Pid!Ids : p < n}
    /\ pid_table.free \in Pid!Ids /\ pid_table.free <= n
    /\ tid_table.used = {t \in Tid!Ids : t < TidMin + k}
    /\ tid_table.free \in Tid!Ids /\ tid_table.free <= TidMin + k

Stacked(n, k) ==
    /\ \A p \in Pids : process_table[p] # None <=> p < n
    /\ \A p \in Pids : p < n => process_table[p].process_tid = TidMin + p
    /\ \A p \in Pids, t \in Handles : threads[p][t] # None <=> ThreadAt(n, k, p, t)
    /\ \A p \in Pids, t \in Handles : tid_to_pid[t] = p <=> ThreadAt(n, k, p, t)

Listed(n, k) ==
    /\ \A p \in Pids, t \in Handles :
          ThreadAt(n, k, p, t) => stdtid_to_tid[threads[p][t].os] = t
    /\ \A o \in OsThreads :
          \/ stdtid_to_tid[o] \in {None, 0}
          \/ \E p \in Pids : /\ ThreadAt(n, k, p, stdtid_to_tid[o])
                             /\ threads[p][stdtid_to_tid[o]].os = o

Over(p) == Main(p).state = "Exited"

ProcessOK(n, p) ==
    /\ process_table[p].name \in IF p = 0 THEN {"kernel"}
                                 ELSE IF p = 1 THEN {"shell"} ELSE Programs
    /\ process_table[p].name = "shutdown" => p = 2
    /\ p = 0 => Runner(p) = Boot /\ Main(p).sleeped = {}
    /\ process_table[p].state = "Exited" <=> Over(p)
    /\ Over(p) => /\ p + 1 = n /\ Main(p).waiting = {}
                  /\ \/ p > 0 /\ at[Runner(p)] = "none"
                     \/ /\ at[Runner(p)] = "user"
                        /\ prog[Runner(p)].pc = IF p = 0 THEN "remove" ELSE "return"
    /\ ~Over(p) => prog[Runner(p)].name = process_table[p].name
    /\ Main(p).handler = "sig_terminate" => process_table[p].name = "rgen"

PlacesOf(name) == CASE name = "kernel" -> {"start", "exit"}
                    [] name = "shell" -> {"start", "prompt", "create", "exit"}
                    [] name = "md" -> {"start"}
                    [] name = "shutdown" -> {"start", "exit"}
                    [] name = "rgen" -> {"start", "clear", "create", "loop", "exit"}

(* Where the program of the topmost process, p, may be.                    *)
LeafFrame(n, k, p, frame) ==
    /\ frame.pc \in PlacesOf(frame.name)
    /\ frame.name = "shell" /\ frame.pc = "create" =>
          /\ frame.handles = <<>> /\ Len(frame.todo) = 1
          /\ frame.todo[1] = "shutdown" => p = 1
    /\ frame.name = "kernel" /\ frame.pc = "start" => frame.handles = <<>>
    /\ frame.name = "rgen" /\ frame.pc \in {"start", "clear", "create"} => k = n

LeafOK(n, k, p) ==
    /\ at[Runner(p)] = "user" /\ Main(p).state = "Running" /\ Main(p).waiting = {}
    /\ LeafFrame(n, k, p, prog[Runner(p)])

Before(o) == \/ prog[o].name = "kernel" /\ prog[o].pc = "wait"
             \/ prog[o].name = "shell" /\ prog[o].pc = "create" /\ prog[o].todo = <<>>
After(o) == \/ prog[o].name = "kernel" /\ prog[o].pc = "close"
            \/ prog[o].name = "shell" /\ prog[o].pc = "reap"

Asleep(p) == at[Runner(p)] \in {"stop", "marking", "waiting"} /\ ~Over(p + 1)

ParentOK(p) ==
    LET o == Runner(p) IN
    /\ prog[o].handles = <<TidMin + p + 1>>
    /\ \/ at[o] = "user" /\ Before(o)
       \/ at[o] \in {"register", "stop"} /\ After(o)
       \/ at[o] \in {"marking", "waiting"} /\ After(o) /\ ~Over(p + 1)
       \/ at[o] \in {"woken", "stopped", "user"} /\ After(o) /\ Over(p + 1)
    /\ at[o] \in {"register", "stop", "marking", "waiting", "woken"} =>
          wait[o] = [pid |-> p, tid |-> TidMin + p, handles |-> <<TidMin + p + 1>>]
    /\ Main(p).state = IF at[o] = "waiting" THEN "Blocked" ELSE "Running"
    /\ Main(p).waiting = IF Asleep(p) THEN {TidMin + p + 1} ELSE {}
    /\ Main(p + 1).sleeped = IF Asleep(p) THEN {TidMin + p} ELSE {}

(* The places of a helper thread, and of an OS thread that was reaped.     *)
Stray(o) == \/ at[o] = "none"
            \/ /\ at[o] = "user"
               /\ \/ prog[o].pc = "return"
                  \/ prog[o].name = "Signalize_EOF" /\ prog[o].pc \in {"start", "exit"}

HelperOK(n) ==
    /\ process_table[n - 1].name = "rgen"
    /\ Helper(n).waiting = {} /\ Helper(n).sleeped = {}
    /\ Stray(Helper(n).os)
    /\ Helper(n).state # "Exited" =>
          /\ Helper(n).state = "Running" /\ ~Over(n - 1)
          /\ at[Helper(n).os] = "user" /\ prog[Helper(n).os].pc # "return"

OthersOK(n) ==
    /\ \A o \in OsThreads : at[o] = "none" => prog[o] = Nothing
    /\ \A o \in OsThreads \ {Boot} : stdtid_to_tid[o] \in {None, 0} => Stray(o)
    /\ n = 0 => at[Boot] = "user" /\ prog[Boot].name = "kernel" /\ prog[Boot].pc = "off"

SignalsOK(n) ==
    /\ "sig_terminate" \notin raised
    /\ n > 1 /\ prog[Runner(1)].pc # "start" => Main(1).handler = "sig_shutdown"
    /\ sig_shutdown =>
          /\ "sig_shutdown" \in raised /\ n <= 3
          /\ n = 3 => process_table[2].name = "shutdown"
          /\ n = 2 /\ ~Over(1) => prog[Runner(1)].pc = "exit"
          /\ n = 1 => prog[Boot].pc # "start"

Nested(n, k) ==
    /\ IdsStacked(n, k) /\ Stacked(n, k) /\ Listed(n, k)
    /\ \A p \in Pids : p < n => ProcessOK(n, p)
    /\ \A p \in Pids : p + 1 = n /\ ~Over(p) => LeafOK(n, k, p)
    /\ \A p \in Pids : p + 1 < n => ParentOK(p)
    /\ k = n + 1 => HelperOK(n)
    /\ OthersOK(n) /\ SignalsOK(n)

SingleIInv == ~fault /\ \E n, k \in Nat : Nested(n, k)

-----------------------------------------------------------------------------
(* The ids.                                                                *)

LEMMA Modulo ==
    ASSUME NEW count \in Nat \ {0}, NEW min \in Nat, min % count = 0,
           NEW i \in Nat, i < count
    PROVE  /\ i % count = i /\ (i + count) % count = i
           /\ (min + i) % count = i /\ (min + count) % count = 0
<1>1. i % count = i /\ (i + count) % count = i
  OBVIOUS
<1>2. PICK q \in Nat : min = count * q
  OBVIOUS
<1>3. (min + i) % count = i
  BY <1>2
<1>4. (min + count) % count = 0
  BY <1>2
<1> QED  BY <1>1, <1>3, <1>4

(* The next id of a table whose first ids are used is the one above them.  *)
LEMMA PidNext ==
    ASSUME NEW table, NEW n \in Nat, n < PidCount,
           table.used = {p \in Pid!Ids : p < n},
           table.free \in Pid!Ids, table.free <= n,
           NEW id \in Pids, Pid!Is_Next_Free(table, id)
    PROVE  /\ id = n
           /\ Pid!Get_Free(table, id).used = {p \in Pid!Ids : p < n + 1}
           /\ Pid!Get_Free(table, id).free \in Pid!Ids
           /\ Pid!Get_Free(table, id).free <= n + 1
<1>0. PidCount \in Nat \ {0} /\ NoId > PidCount /\ NoId \in Nat
  BY ControllerAssumption
<1>1. Pid!Ids = 0 .. PidCount - 1 /\ table.free \in Nat /\ n \in Pid!Ids
  BY <1>0 DEF Pid!Ids
<1>2. Pid!Unused(table) = {p \in Pid!Ids : p >= n} /\ n \in Pid!Unused(table)
  BY <1>1 DEF Pid!Unused
<1>3. ASSUME NEW p \in Pid!Ids, p >= n
      PROVE  Pid!Distance(Pid!Start(table), p) = p - table.free
  <2>1. p - table.free \in Nat /\ p - table.free < PidCount
    BY <1>0, <1>1, <1>3
  <2>2. ((p - table.free) + PidCount) % PidCount = p - table.free
    BY <1>0, <2>1, Modulo
  <2>3. p + PidCount - table.free = (p - table.free) + PidCount
    BY <1>0, <1>1, <1>3
  <2> QED  BY <1>1, <2>2, <2>3 DEF Pid!Distance, Pid!Start
<1>4. id \in Pid!Ids /\ id >= n
      /\ Pid!Distance(Pid!Start(table), id) <= Pid!Distance(Pid!Start(table), n)
  BY <1>2 DEF Pid!Is_Next_Free
<1>5. id = n
  <2>1. id - table.free <= n - table.free
    <3>1. /\ Pid!Distance(Pid!Start(table), id) = id - table.free
          /\ Pid!Distance(Pid!Start(table), n) = n - table.free
      BY <1>1, <1>3, <1>4
    <3> QED  BY <1>4, <3>1
  <2> QED  BY <1>1, <1>4, <2>1
<1>6. Pid!Next_Slot(n) \in Pid!Ids /\ Pid!Next_Slot(n) <= n + 1
  <2>1. CASE n + 1 < PidCount
    <3>1. (n + 1) % PidCount = n + 1
      BY <1>0, <2>1, Modulo
    <3> QED  BY <1>0, <2>1, <3>1 DEF Pid!Next_Slot, Pid!Ids
  <2>2. CASE n + 1 = PidCount
    <3>1. (0 + PidCount) % PidCount = 0
      BY <1>0, Modulo
    <3> QED  BY <1>0, <2>2, <3>1 DEF Pid!Next_Slot, Pid!Ids
  <2> QED  BY <1>0, <2>1, <2>2
<1>7. Pid!Get_Free(table, id) = [used |-> table.used \cup {n}, free |-> Pid!Next_Slot(n)]
  BY <1>0, <1>5 DEF Pid!Get_Free
<1>8. table.used \cup {n} = {p \in Pid!Ids : p < n + 1}
  BY <1>1
<1> QED  BY <1>5, <1>6, <1>7, <1>8

LEMMA TidNext ==
    ASSUME NEW table, NEW k \in Nat, k < TidCount,
           table.used = {t \in Tid!Ids : t < TidMin + k},
           table.free \in Tid!Ids, table.free <= TidMin + k,
           NEW id \in Handles, Tid!Is_Next_Free(table, id)
    PROVE  /\ id = TidMin + k
           /\ Tid!Get_Free(table, id).used = {t \in Tid!Ids : t < TidMin + k + 1}
           /\ Tid!Get_Free(table, id).free \in Tid!Ids
           /\ Tid!Get_Free(table, id).free <= TidMin + k + 1
<1>0. TidCount \in Nat \ {0} /\ TidMin \in Nat /\ TidMin % TidCount = 0
      /\ NoId > TidMin + TidCount /\ NoId \in Nat
  BY ControllerAssumption
<1>1. Tid!Ids = TidMin .. TidMin + TidCount - 1 /\ table.free \in Nat /\ TidMin + k \in Tid!Ids
  BY <1>0 DEF Tid!Ids
<1>2. Tid!Unused(table) = {t \in Tid!Ids : t >= TidMin + k} /\ TidMin + k \in Tid!Unused(table)
  BY <1>1 DEF Tid!Unused
<1>3. ASSUME NEW t \in Tid!Ids, t >= TidMin + k
      PROVE  Tid!Distance(Tid!Start(table), t) = t - table.free
  <2>1. t - table.free \in Nat /\ t - table.free < TidCount
    BY <1>0, <1>1, <1>3
  <2>2. ((t - table.free) + TidCount) % TidCount = t - table.free
    BY <1>0, <2>1, Modulo
  <2>3. t + TidCount - table.free = (t - table.free) + TidCount
    BY <1>0, <1>1, <1>3
  <2> QED  BY <1>1, <2>2, <2>3 DEF Tid!Distance, Tid!Start
<1>4. id \in Tid!Ids /\ id >= TidMin + k
      /\ Tid!Distance(Tid!Start(table), id) <= Tid!Distance(Tid!Start(table), TidMin + k)
  BY <1>2 DEF Tid!Is_Next_Free
<1>5. id = TidMin + k
  <2>1. PICK top \in Tid!Ids : top = TidMin + k
    BY <1>1
  <2>2. top >= TidMin + k
    BY <1>0, <2>1
  <2>3. Tid!Distance(Tid!Start(table), top) = top - table.free
    BY <1>3, <2>2
  <2>4. Tid!Distance(Tid!Start(table), id) = id - table.free
    BY <1>3, <1>4
  <2>5. Tid!Distance(Tid!Start(table), id) <= Tid!Distance(Tid!Start(table), top)
    BY <1>4, <2>1
  <2>6. id - table.free <= top - table.free
    BY <2>3, <2>4, <2>5
  <2> QED  BY <1>0, <1>1, <1>4, <2>1, <2>6
<1>6. Tid!Next_Slot(TidMin + k) \in Tid!Ids /\ Tid!Next_Slot(TidMin + k) <= TidMin + k + 1
  <2>1. CASE k + 1 < TidCount
    <3>1. (TidMin + (k + 1)) % TidCount = k + 1
      <4>1. k + 1 \in Nat
        OBVIOUS
      <4> QED  BY ZenonT(60), <1>0, <2>1, <4>1, Modulo
    <3>2. TidMin + k + 1 = TidMin + (k + 1)
      BY <1>0
    <3> QED  BY <1>0, <2>1, <3>1, <3>2 DEF Tid!Next_Slot, Tid!Ids
  <2>2. CASE k + 1 = TidCount
    <3>1. (TidMin + TidCount) % TidCount = 0
      BY <1>0, Modulo
    <3>2. TidMin + k + 1 = TidMin + TidCount
      BY <1>0, <2>2
    <3> QED  BY <1>0, <3>1, <3>2 DEF Tid!Next_Slot, Tid!Ids
  <2> QED  BY <1>0, <2>1, <2>2
<1>7. Tid!Get_Free(table, id) =
        [used |-> table.used \cup {TidMin + k}, free |-> Tid!Next_Slot(TidMin + k)]
  BY <1>0, <1>1, <1>5 DEF Tid!Get_Free
<1>8. table.used \cup {TidMin + k} = {t \in Tid!Ids : t < TidMin + k + 1}
  BY <1>0, <1>1
<1> QED  BY <1>5, <1>6, <1>7, <1>8

(* Where the topmost ids are given back the hint is what lies above the    *)
(* remaining ones, or less.                                                *)
LEMMA TidGiveBack ==
    ASSUME NEW table, NEW k \in Nat, NEW n \in Nat, k > 0, k <= TidCount, n < k, n + 2 >= k,
           table.used = {t \in Tid!Ids : t < TidMin + k},
           table.free \in Tid!Ids, table.free <= TidMin + k,
           NEW released, released = {t \in Tid!Ids : TidMin + n <= t /\ t < TidMin + k}
    PROVE  /\ Tid!Set_Free_All(table, released).used = {t \in Tid!Ids : t < TidMin + n}
           /\ Tid!Set_Free_All(table, released).free \in Tid!Ids
           /\ Tid!Set_Free_All(table, released).free <= TidMin + n
<1>0. TidCount \in Nat \ {0} /\ TidMin \in Nat
  BY ControllerAssumption
<1>1. Tid!Ids = TidMin .. TidMin + TidCount - 1
  BY <1>0 DEF Tid!Ids
<1>2. TidMin + n \in released /\ \A other \in released : TidMin + n <= other
  BY <1>0, <1>1
<1>3. ASSUME NEW id \in released, \A other \in released : id <= other
      PROVE  id = TidMin + n
  BY <1>0, <1>1, <1>2, <1>3
<1>4. Tid!Set_Free_All(table, released).free =
        IF TidMin + n < table.free THEN TidMin + n ELSE table.free
  BY <1>2, <1>3 DEF Tid!Set_Free_All
<1>5. Tid!Set_Free_All(table, released).used = table.used \ released
  BY DEF Tid!Set_Free_All
<1>6. table.used \ released = {t \in Tid!Ids : t < TidMin + n}
  BY <1>0, <1>1
<1> QED  BY <1>0, <1>1, <1>2, <1>4, <1>5, <1>6

LEMMA PidGiveBack ==
    ASSUME NEW table, NEW n \in Nat, n < PidCount,
           table.used = {p \in Pid!Ids : p < n + 1},
           table.free \in Pid!Ids, table.free <= n + 1
    PROVE  /\ Pid!Set_Free(table, n).used = {p \in Pid!Ids : p < n}
           /\ Pid!Set_Free(table, n).free \in Pid!Ids
           /\ Pid!Set_Free(table, n).free <= n
<1>0. PidCount \in Nat \ {0}
  BY ControllerAssumption
<1>1. Pid!Ids = 0 .. PidCount - 1
  BY <1>0 DEF Pid!Ids
<1> QED  BY <1>0, <1>1 DEF Pid!Set_Free, Pid!Set_Free_All

-----------------------------------------------------------------------------
(* Who is who.                                                             *)

LEMMA Bounds ==
    ASSUME NEW n \in Nat, NEW k \in Nat, IdsStacked(n, k)
    PROVE  /\ n <= PidCount /\ k <= TidCount /\ (k = n \/ k = n + 1) /\ (n = 0 => k = 0)
           /\ \A p \in Pids : p < n => p \in Pid!Ids /\ p \in Nat /\ TidMin + p \in Tid!Ids
           /\ \A p \in Nat : p < n => p \in Pids
           /\ k = n + 1 => n > 0 /\ n - 1 \in Pids /\ TidMin + n \in Tid!Ids
           /\ \A t \in Nat : t < k => TidMin + t \in Tid!Ids
           /\ Tid!Ids \subseteq Handles /\ Pids \subseteq Nat /\ Handles \subseteq Nat
           /\ TidMin \in Nat /\ 0 \notin Tid!Ids
BY ControllerAssumption, IdFacts DEF IdsStacked, Pids, Pid!Ids, Tid!Ids

(* The main thread of a process on the stack.                              *)
LEMMA MainFacts ==
    ASSUME IInv, NEW n \in Nat, NEW k \in Nat, Nested(n, k), NEW p \in Pids, p < n
    PROVE  /\ p \in Pid!Ids /\ p \in Nat
           /\ TidMin + p \in Tid!Ids /\ TidMin + p \in Handles /\ TidMin + p # 0
           /\ process_table[p] \in Processes /\ process_table[p] # None
           /\ process_table[p].process_tid = TidMin + p
           /\ Main(p) \in Threads /\ Main(p) # None /\ Runner(p) \in OsThreads
           /\ tid_to_pid[TidMin + p] = p /\ stdtid_to_tid[Runner(p)] = TidMin + p
           /\ Known(TidMin + p) /\ Pid_Of(TidMin + p) = p
           /\ Get_TID(Runner(p)) = TidMin + p
           /\ Looked_Up(Runner(p)) = stdtid_to_tid
<1>1. /\ p \in Pid!Ids /\ p \in Nat
      /\ TidMin + p \in Tid!Ids /\ TidMin + p \in Handles /\ TidMin + p # 0
  BY Bounds DEF Nested
<1>2. ThreadAt(n, k, p, TidMin + p)
  BY DEF ThreadAt
<1>3. /\ process_table[p] # None /\ process_table[p].process_tid = TidMin + p
      /\ Main(p) # None /\ tid_to_pid[TidMin + p] = p
  BY <1>1, <1>2 DEF Nested, Stacked, Main
<1>4. process_table[p] \in Processes /\ Main(p) \in Threads
  BY <1>1, <1>3 DEF IInv, TypeOK, Main
<1>5. Runner(p) \in OsThreads
  BY <1>4 DEF Runner, Threads
<1>6. stdtid_to_tid[Runner(p)] = TidMin + p
  BY <1>1, <1>2 DEF Nested, Listed, Runner, Main
<1>7. p # None /\ TidMin + p # None
  BY <1>1, NoneFacts
<1>8. Known(TidMin + p) /\ Pid_Of(TidMin + p) = p
  BY <1>3, <1>7 DEF Known, Pid_Of, Main
<1>9. Get_TID(Runner(p)) = TidMin + p /\ Looked_Up(Runner(p)) = stdtid_to_tid
  BY <1>6, <1>7 DEF Get_TID, Looked_Up, Insert
<1> QED  BY <1>1, <1>3, <1>4, <1>5, <1>6, <1>8, <1>9

(* Two processes have two OS threads.                                      *)
LEMMA RunnersDiffer ==
    ASSUME IInv, NEW n \in Nat, NEW k \in Nat, Nested(n, k),
           NEW p \in Pids, NEW q \in Pids, p < n, q < n, p # q
    PROVE  Runner(p) # Runner(q) /\ TidMin + p # TidMin + q
<1>1. stdtid_to_tid[Runner(p)] = TidMin + p /\ stdtid_to_tid[Runner(q)] = TidMin + q
  BY MainFacts
<1>2. p \in Nat /\ q \in Nat /\ TidMin \in Nat
  BY Bounds DEF Nested
<1> QED  BY <1>1, <1>2

(* The helper thread of the topmost process.                               *)
LEMMA HelperFacts ==
    ASSUME IInv, NEW n \in Nat, NEW k \in Nat, Nested(n, k), k = n + 1
    PROVE  /\ n > 0 /\ n - 1 \in Pids /\ n - 1 < n
           /\ TidMin + n \in Tid!Ids /\ TidMin + n \in Handles
           /\ TidMin + n # 0 /\ TidMin + n # TidMin + (n - 1)
           /\ Helper(n) \in Threads /\ Helper(n) # None /\ Helper(n).os \in OsThreads
           /\ tid_to_pid[TidMin + n] = n - 1 /\ stdtid_to_tid[Helper(n).os] = TidMin + n
           /\ Known(TidMin + n) /\ Pid_Of(TidMin + n) = n - 1
           /\ Get_TID(Helper(n).os) = TidMin + n
           /\ Looked_Up(Helper(n).os) = stdtid_to_tid
           /\ \A p \in Pids : p < n => Runner(p) # Helper(n).os
<1>1. /\ n > 0 /\ n - 1 \in Pids /\ n - 1 < n /\ TidMin \in Nat
      /\ TidMin + n \in Tid!Ids /\ TidMin + n \in Handles
      /\ TidMin + n # 0 /\ TidMin + n # TidMin + (n - 1)
  BY Bounds DEF Nested
<1>2. ThreadAt(n, k, n - 1, TidMin + n)
  BY DEF ThreadAt
<1>3. Helper(n) # None /\ tid_to_pid[TidMin + n] = n - 1
  BY <1>1, <1>2 DEF Nested, Stacked, Helper
<1>4. Helper(n) \in Threads
  BY <1>1, <1>3 DEF IInv, TypeOK, Helper
<1>5. Helper(n).os \in OsThreads
  BY <1>4 DEF Threads
<1>6. stdtid_to_tid[Helper(n).os] = TidMin + n
  BY <1>1, <1>2 DEF Nested, Listed, Helper
<1>7. n - 1 # None /\ TidMin + n # None
  BY <1>1, NoneFacts
<1>8. Known(TidMin + n) /\ Pid_Of(TidMin + n) = n - 1
  BY <1>3, <1>7 DEF Known, Pid_Of, Helper
<1>9. Get_TID(Helper(n).os) = TidMin + n /\ Looked_Up(Helper(n).os) = stdtid_to_tid
  BY <1>6, <1>7 DEF Get_TID, Looked_Up, Insert
<1>10. ASSUME NEW p \in Pids, p < n
       PROVE  Runner(p) # Helper(n).os
  <2>1. stdtid_to_tid[Runner(p)] = TidMin + p /\ p \in Nat
    BY <1>10, MainFacts
  <2> QED  BY <1>1, <1>6, <1>10, <2>1
<1> QED  BY <1>1, <1>3, <1>4, <1>5, <1>6, <1>8, <1>9, <1>10

(* Every OS thread runs a process, is the helper, or is nobody's.          *)
LEMMA WhoIs ==
    ASSUME IInv, NEW n \in Nat, NEW k \in Nat, Nested(n, k), NEW os \in OsThreads
    PROVE  \/ \E p \in Pids : p < n /\ os = Runner(p)
           \/ k = n + 1 /\ os = Helper(n).os
           \/ os # Boot /\ stdtid_to_tid[os] \in {None, 0} /\ Stray(os)
           \/ n = 0 /\ os = Boot
<1>1. CASE stdtid_to_tid[os] \in {None, 0}
  <2>1. CASE os = Boot
    <3>1. CASE n > 0
      <4>1. 0 \in Pids /\ 0 < n
        BY <3>1, IdFacts
      <4>2. Runner(0) = Boot
        BY <4>1 DEF Nested, ProcessOK
      <4> QED  BY <2>1, <4>1, <4>2
    <3> QED  BY <2>1, <3>1
  <2> QED  BY <1>1, <2>1 DEF Nested, OthersOK
<1>2. CASE stdtid_to_tid[os] \notin {None, 0}
  <2>1. PICK p \in Pids : /\ ThreadAt(n, k, p, stdtid_to_tid[os])
                          /\ threads[p][stdtid_to_tid[os]].os = os
    BY <1>2 DEF Nested, Listed
  <2>2. CASE p < n /\ stdtid_to_tid[os] = TidMin + p
    BY <2>1, <2>2 DEF Runner, Main
  <2>3. CASE k = n + 1 /\ p + 1 = n /\ stdtid_to_tid[os] = TidMin + n
    <3>1. p = n - 1
      BY <2>3, Bounds DEF Nested
    <3> QED  BY <2>1, <2>3, <3>1 DEF Helper
  <2> QED  BY <2>1, <2>2, <2>3 DEF ThreadAt
<1> QED  BY <1>1, <1>2

(* A program at work is that of a process: the topmost, or one that waits. *)
LEMMA WhoWorks ==
    ASSUME IInv, NEW n \in Nat, NEW k \in Nat, Nested(n, k), NEW os \in OsThreads,
           at[os] # "none", prog[os].name # "Signalize_EOF",
           prog[os].pc \notin {"return", "remove", "off"}
    PROVE  \E p \in Pids :
              /\ p < n /\ os = Runner(p) /\ ~Over(p)
              /\ process_table[p].name = prog[os].name
              /\ \/ p + 1 = n /\ LeafOK(n, k, p)
                 \/ p + 1 < n /\ ParentOK(p)
<1>1. ~Stray(os)
  BY DEF Stray
<1>2. ASSUME k = n + 1, os = Helper(n).os
      PROVE  FALSE
  BY <1>1, <1>2 DEF Nested, HelperOK
<1>3. ASSUME n = 0, os = Boot
      PROVE  FALSE
  BY <1>3 DEF Nested, OthersOK
<1>4. PICK p \in Pids : p < n /\ os = Runner(p)
  <2>1. \/ \E p \in Pids : p < n /\ os = Runner(p)
        \/ k = n + 1 /\ os = Helper(n).os
        \/ Stray(os)
        \/ n = 0 /\ os = Boot
    BY WhoIs
  <2> QED  BY <1>1, <1>2, <1>3, <2>1
<1>5. ~Over(p) /\ process_table[p].name = prog[os].name
  <2>1. ProcessOK(n, p)
    BY <1>4 DEF Nested
  <2>2. ASSUME Over(p)  PROVE FALSE
    <3>1. \/ at[os] = "none"
          \/ prog[os].pc = IF p = 0 THEN "remove" ELSE "return"
      BY <1>4, <2>1, <2>2 DEF ProcessOK
    <3> QED  BY <3>1
  <2>3. ~Over(p)
    BY <2>2
  <2> QED  BY <1>4, <2>1, <2>3 DEF ProcessOK
<1>6. p + 1 = n \/ p + 1 < n
  BY <1>4, Bounds DEF Nested
<1> QED  BY <1>4, <1>5, <1>6 DEF Nested

(* As long as there is an OS thread without an entry there are ids left.   *)
LEMMA Room ==
    ASSUME Orderly, IInv, NEW n \in Nat, NEW k \in Nat, Nested(n, k),
           NEW new \in OsThreads, stdtid_to_tid[new] = None
    PROVE  k < TidCount /\ n < PidCount
<1> DEFINE S == TidMin .. TidMin + k - 1
           f == [t \in S |-> threads[tid_to_pid[t]][t].os]
           T == OsThreads \ {new}
<1>0. TidMin \in Nat /\ (k = n \/ k = n + 1)
  BY Bounds DEF Nested
<1>1. ASSUME NEW t \in S
      PROVE  f[t] \in T /\ stdtid_to_tid[f[t]] = t
  <2>1. t # None
    <3>1. t \in Nat /\ t - TidMin \in Nat /\ t - TidMin < k /\ t = TidMin + (t - TidMin)
      BY <1>0
    <3>2. t \in Handles
      BY <3>1, Bounds DEF Nested
    <3> QED  BY <3>2, NoneFacts
  <2>2. CASE t < TidMin + n
    <3>1. PICK p \in Nat : p < n /\ t = TidMin + p
      <4>1. t - TidMin \in Nat /\ t - TidMin < n /\ t = TidMin + (t - TidMin)
        BY <1>0, <2>2
      <4> QED  BY <4>1
    <3>2. p \in Pids
      BY <3>1, Bounds DEF Nested
    <3>3. Runner(p) \in OsThreads /\ stdtid_to_tid[Runner(p)] = t /\ tid_to_pid[t] = p
      BY <3>1, <3>2, MainFacts
    <3>4. f[t] = Runner(p)
      BY <3>1, <3>3 DEF Runner, Main
    <3> QED  BY <2>1, <3>3, <3>4
  <2>3. CASE k = n + 1 /\ t = TidMin + n
    <3>1. /\ Helper(n).os \in OsThreads /\ stdtid_to_tid[Helper(n).os] = t
          /\ tid_to_pid[t] = n - 1
      BY <2>3, HelperFacts
    <3>2. f[t] = Helper(n).os
      BY <2>3, <3>1 DEF Helper
    <3> QED  BY <2>1, <3>1, <3>2
  <2> QED  BY <1>0, <2>2, <2>3
<1>2. f \in Injection(S, T)
  <2>1. f \in [S -> T]
    BY <1>1
  <2>2. \A a, b \in S : f[a] = f[b] => a = b
    BY <1>1
  <2> HIDE DEF f, S, T
  <2> QED  BY <2>1, <2>2 DEF Injection, IsInjective
<1>3. IsFiniteSet(T) /\ Cardinality(T) = Cardinality(OsThreads) - 1
  BY FS_RemoveElement DEF Orderly
<1>4. Cardinality(S) <= Cardinality(T)
  <2> HIDE DEF f, S, T
  <2> QED  BY <1>2, <1>3, FS_Injection
<1>5. Cardinality(S) = k
  <2>1. TidMin \in Int /\ TidMin + k - 1 \in Int
    BY <1>0
  <2>2. Cardinality(S) = IF TidMin > TidMin + k - 1 THEN 0 ELSE (TidMin + k - 1) - TidMin + 1
    BY <2>1, FS_Interval
  <2> QED  BY <1>0, <2>2
<1>6. Cardinality(OsThreads) \in Nat
  BY FS_CardinalityType DEF Orderly
<1>7. PidCount \in Nat /\ TidCount \in Nat
  BY ControllerAssumption
<1> HIDE DEF S, T
<1> QED  BY <1>0, <1>3, <1>4, <1>5, <1>6, <1>7 DEF Orderly

-----------------------------------------------------------------------------
(* Steps that leave the stack as it is.                                    *)

LEMMA SameShape ==
    ASSUME IInv, NEW n \in Nat, NEW k \in Nat, Nested(n, k),
           UNCHANGED <<pid_table, tid_table, tid_to_pid, stdtid_to_tid>>,
           \A p \in Pids : /\ process_table'[p] # None <=> process_table[p] # None
                           /\ process_table[p] # None =>
                                 process_table'[p].process_tid = process_table[p].process_tid,
           \A p \in Pids, t \in Handles :
              /\ threads'[p][t] # None <=> threads[p][t] # None
              /\ threads[p][t] # None => threads'[p][t].os = threads[p][t].os
    PROVE  /\ IdsStacked(n, k)' /\ Stacked(n, k)' /\ Listed(n, k)'
           /\ \A p \in Pids : p < n => Runner(p)' = Runner(p)
           /\ k = n + 1 => Helper(n).os' = Helper(n).os
<1>1. IdsStacked(n, k)'
  BY DEF Nested, IdsStacked
<1>2. Stacked(n, k)'
  BY DEF Nested, Stacked, ThreadAt
<1>3. ASSUME NEW p \in Pids, NEW t \in Handles, ThreadAt(n, k, p, t)
      PROVE  threads'[p][t].os = threads[p][t].os
  BY <1>3 DEF Nested, Stacked
<1>4. Listed(n, k)'
  <2>1. ASSUME NEW p \in Pids, NEW t \in Handles, ThreadAt(n, k, p, t)
        PROVE  stdtid_to_tid'[threads'[p][t].os] = t
    BY <1>3, <2>1 DEF Nested, Listed
  <2>2. ASSUME NEW o \in OsThreads
        PROVE  \/ stdtid_to_tid'[o] \in {None, 0}
               \/ \E p \in Pids : /\ ThreadAt(n, k, p, stdtid_to_tid'[o])
                                  /\ threads'[p][stdtid_to_tid'[o]].os = o
    <3>1. CASE stdtid_to_tid[o] \in {None, 0}
      BY <3>1
    <3>2. CASE stdtid_to_tid[o] \notin {None, 0}
      <4>1. PICK p \in Pids : /\ ThreadAt(n, k, p, stdtid_to_tid[o])
                              /\ threads[p][stdtid_to_tid[o]].os = o
        BY <3>2 DEF Nested, Listed
      <4>2. stdtid_to_tid[o] \in Handles
        BY <3>2 DEF IInv, TypeOK
      <4> QED  BY <1>3, <4>1, <4>2
    <3> QED  BY <3>1, <3>2
  <2> QED  BY <2>1, <2>2 DEF Listed, ThreadAt
<1>5. ASSUME NEW p \in Pids, p < n
      PROVE  Runner(p)' = Runner(p)
  <2>1. TidMin + p \in Handles /\ threads[p][TidMin + p] # None
    BY <1>5, MainFacts DEF Main
  <2> QED  BY <2>1 DEF Runner, Main
<1>6. ASSUME k = n + 1
      PROVE  Helper(n).os' = Helper(n).os
  <2>1. TidMin + n \in Handles /\ n - 1 \in Pids /\ threads[n - 1][TidMin + n] # None
    BY <1>6, HelperFacts DEF Helper
  <2> QED  BY <2>1 DEF Helper
<1> QED  BY <1>1, <1>2, <1>4, <1>5, <1>6

(* What matters of a process when a step does not touch it.                *)
SameMain(p) ==
    /\ Main(p).state' = Main(p).state /\ Main(p).waiting' = Main(p).waiting
    /\ Main(p).handler' = Main(p).handler
    /\ p = 0 => Main(p).sleeped' = Main(p).sleeped

LEMMA Untouched ==
    ASSUME NEW n \in Nat, NEW k \in Nat, NEW p \in Pids,
           process_table'[p] = process_table[p], SameMain(p), Runner(p)' = Runner(p),
           at'[Runner(p)] = at[Runner(p)], prog'[Runner(p)] = prog[Runner(p)],
           wait'[Runner(p)] = wait[Runner(p)]
    PROVE  /\ ProcessOK(n, p) => ProcessOK(n, p)'
           /\ LeafOK(n, k, p) => LeafOK(n, k, p)'
           /\ /\ ParentOK(p)
              /\ Main(p + 1).sleeped' = Main(p + 1).sleeped
              /\ Over(p + 1)' = Over(p + 1)
              => ParentOK(p)'
           /\ Over(p)' = Over(p)
<1>1. Over(p)' = Over(p)
  BY DEF Over, SameMain
<1>2. ProcessOK(n, p) => ProcessOK(n, p)'
  BY <1>1 DEF ProcessOK, SameMain
<1>3. LeafOK(n, k, p) => LeafOK(n, k, p)'
  BY DEF LeafOK, SameMain
<1>4. ASSUME ParentOK(p), Main(p + 1).sleeped' = Main(p + 1).sleeped,
             Over(p + 1)' = Over(p + 1)
      PROVE  ParentOK(p)'
  <2>1. /\ Before(Runner(p)) => Before(Runner(p))'
        /\ After(Runner(p)) => After(Runner(p))'
    BY DEF Before, After
  <2>2. Asleep(p)' = Asleep(p)
    BY <1>4 DEF Asleep
  <2> QED  BY <1>4, <2>1, <2>2 DEF ParentOK, SameMain
<1> QED  BY <1>1, <1>2, <1>3, <1>4

(* The helper thread, when a step leaves it and its process alone.         *)
LEMMA HelperUntouched ==
    ASSUME NEW n \in Nat, HelperOK(n),
           process_table'[n - 1].name = process_table[n - 1].name,
           Helper(n).state' = Helper(n).state, Helper(n).waiting' = Helper(n).waiting,
           Helper(n).sleeped' = Helper(n).sleeped, Helper(n).os' = Helper(n).os, Over(n - 1)' = Over(n - 1),
           at'[Helper(n).os] = at[Helper(n).os], prog'[Helper(n).os] = prog[Helper(n).os]
    PROVE  HelperOK(n)'
BY DEF HelperOK, Stray

(* The topmost process moves on in its program.                            *)
LEMMA LeafMoves ==
    ASSUME IInv, ProgIInv, NEW n \in Nat, NEW k \in Nat, Nested(n, k),
           NEW p \in Pids, p + 1 = n, ~Over(p), LeafOK(n, k, p),
           NEW frame, prog' = [prog EXCEPT ![Runner(p)] = frame],
           frame.name = prog[Runner(p)].name, LeafFrame(n, k, p, frame),
           UNCHANGED <<pid_table, tid_table, process_table, tid_to_pid, stdtid_to_tid,
                       sig_shutdown, at, wait>>,
           \A q \in Pids, t \in Handles :
              /\ threads'[q][t] # None <=> threads[q][t] # None
              /\ threads[q][t] # None => threads'[q][t].os = threads[q][t].os
              /\ t # TidMin + p => threads'[q][t] = threads[q][t],
           /\ Main(p).state' = Main(p).state /\ Main(p).waiting' = Main(p).waiting
           /\ Main(p).sleeped' = Main(p).sleeped,
           Main(p).handler' = "sig_terminate" => process_table[p].name = "rgen",
           p = 1 /\ frame.pc # "start" => Main(1).handler' = "sig_shutdown",
           "sig_terminate" \notin raised', raised \subseteq raised',
           sig_shutdown /\ p = 1 => frame.pc = "exit",
           sig_shutdown /\ p = 0 => frame.pc # "start"
    PROVE  Nested(n, k)'
<1>0. p < n /\ p \in Nat /\ TidMin \in Nat /\ TidMin + p \in Handles
      /\ Runner(p) \in OsThreads /\ n > 0
  <2>1. p \in Nat /\ p < n /\ n > 0
    BY IdFacts
  <2> QED  BY <2>1, MainFacts, Bounds DEF Nested
<1>1. /\ IdsStacked(n, k)' /\ Stacked(n, k)' /\ Listed(n, k)'
      /\ \A q \in Pids : q < n => Runner(q)' = Runner(q)
      /\ k = n + 1 => Helper(n).os' = Helper(n).os
  BY SameShape
<1>2. /\ prog'[Runner(p)] = frame
      /\ \A o \in OsThreads : o # Runner(p) => prog'[o] = prog[o]
  BY <1>0 DEF ProgIInv, ProgTypes
<1>3. Over(p)' = Over(p)
  BY DEF Over
<1>4. ProcessOK(n, p)'
  BY <1>0, <1>1, <1>2, <1>3 DEF Nested, ProcessOK
<1>5. LeafOK(n, k, p)'
  BY <1>0, <1>1, <1>2 DEF LeafOK
<1>6. ASSUME NEW q \in Pids, q + 1 < n
      PROVE  ProcessOK(n, q)' /\ ParentOK(q)'
  <2>0. q < n /\ q # p /\ q \in Nat /\ TidMin + q \in Handles /\ Runner(q) \in OsThreads
    <3>1. q \in Nat /\ q < n /\ q # p
      BY <1>0, <1>6, IdFacts
    <3> QED  BY <3>1, MainFacts
  <2>1. Runner(q) # Runner(p) /\ TidMin + q # TidMin + p
    BY <1>0, <2>0, RunnersDiffer
  <2>2. Main(q)' = Main(q)
    BY <2>0, <2>1 DEF Main
  <2>3. Main(q + 1).sleeped' = Main(q + 1).sleeped /\ Over(q + 1)' = Over(q + 1)
    <3>1. CASE q + 1 = p
      BY <1>3, <3>1
    <3>2. CASE q + 1 # p
      <4>1. q + 1 \in Pids /\ q + 1 < n
        BY <1>6, <2>0, Bounds DEF Nested
      <4>2. TidMin + (q + 1) \in Handles /\ TidMin + (q + 1) # TidMin + p
        BY <1>0, <2>0, <3>2, <4>1, MainFacts
      <4>3. Main(q + 1)' = Main(q + 1)
        BY <4>1, <4>2 DEF Main
      <4> QED  BY <4>3 DEF Over
    <3> QED  BY <3>1, <3>2
  <2>4. ProcessOK(n, q) /\ ParentOK(q)
    BY <1>6, <2>0 DEF Nested
  <2>5. SameMain(q)
    BY <2>2 DEF SameMain
  <2> QED  BY <1>1, <1>2, <2>0, <2>1, <2>3, <2>4, <2>5, Untouched
<1>7. k = n + 1 => HelperOK(n)'
  <2>1. SUFFICES ASSUME k = n + 1 PROVE HelperOK(n)'
    OBVIOUS
  <2>2. /\ n - 1 = p /\ Helper(n).os # Runner(p) /\ Helper(n).os \in OsThreads
        /\ TidMin + n \in Handles /\ TidMin + n # TidMin + p
    BY <1>0, <2>1, HelperFacts
  <2>3. Helper(n)' = Helper(n)
    BY <2>2 DEF Helper
  <2>4. HelperOK(n)
    BY <2>1 DEF Nested
  <2> QED  BY <1>2, <1>3, <2>2, <2>3, <2>4, HelperUntouched
<1>8. OthersOK(n)'
  <2>1. at[Runner(p)] = "user" /\ stdtid_to_tid[Runner(p)] \notin {None, 0}
    BY <1>0, MainFacts, NoneFacts DEF LeafOK
  <2>2. OthersOK(n)
    BY DEF Nested
  <2> QED  BY <1>0, <1>2, <2>1, <2>2 DEF OthersOK, Stray
<1>9. SignalsOK(n)'
  <2>1. SignalsOK(n) /\ Boot = Runner(0) /\ 0 \in Pids
    BY <1>0, IdFacts DEF Nested, ProcessOK
  <2>2. n > 1 => 1 \in Pids /\ 1 < n
    BY Bounds DEF Nested
  <2>3. p # 0 => Runner(0) # Runner(p)
    BY <1>0, <2>1, RunnersDiffer
  <2>4. n > 1 /\ p # 1 => prog'[Runner(1)] = prog[Runner(1)] /\ Main(1)' = Main(1)
    <3>1. SUFFICES ASSUME n > 1, p # 1
                   PROVE  prog'[Runner(1)] = prog[Runner(1)] /\ Main(1)' = Main(1)
      OBVIOUS
    <3>2. Runner(1) # Runner(p) /\ Runner(1) \in OsThreads
          /\ TidMin + 1 \in Handles /\ TidMin + 1 # TidMin + p
      BY <1>0, <2>2, <3>1, RunnersDiffer, MainFacts
    <3> QED  BY <1>2, <2>2, <3>1, <3>2 DEF Main
  <2>5. n > 1 => Runner(1)' = Runner(1)
    BY <1>1, <2>2
  <2>6. Boot \in OsThreads
    BY ControllerAssumption
  <2>7. "sig_terminate" \notin raised' /\ (sig_shutdown' => "sig_shutdown" \in raised')
    BY <2>1 DEF SignalsOK
  <2>8. n > 1 /\ prog'[Runner(1)].pc # "start" => Main(1).handler' = "sig_shutdown"
    <3>1. CASE p = 1
      BY <1>2, <3>1
    <3>2. CASE p # 1
      BY <2>1, <2>4, <3>2 DEF SignalsOK
    <3> QED  BY <3>1, <3>2
  <2>9. ASSUME sig_shutdown
        PROVE  /\ n <= 3 /\ (n = 3 => process_table'[2].name = "shutdown")
               /\ n = 2 => prog'[Runner(1)].pc = "exit"
               /\ n = 1 => prog'[Boot].pc # "start"
    BY <1>0, <1>2, <2>1, <2>9 DEF SignalsOK
  <2> QED  BY <2>5, <2>7, <2>8, <2>9 DEF SignalsOK
<1>10. ASSUME NEW q \in Pids, q < n
       PROVE  ProcessOK(n, q)' /\ (q + 1 = n => LeafOK(n, k, q)') /\ (q + 1 < n => ParentOK(q)')
  <2>1. (q + 1 = n /\ q = p) \/ q + 1 < n
    <3>1. q \in Nat
      BY IdFacts
    <3> QED  BY <1>0, <1>10, <3>1
  <2> QED  BY <1>0, <1>4, <1>5, <1>6, <2>1
<1> QED  BY <1>1, <1>7, <1>8, <1>9, <1>10, IdFacts DEF Nested

(* A program whose call is not one of waiting is that of the topmost       *)
(* process; one about to wait, or back from it, is that of another.        *)
LEMMA LeafAtWork ==
    ASSUME IInv, NEW n \in Nat, NEW k \in Nat, Nested(n, k), NEW os \in OsThreads,
           at[os] = "user", prog[os].name # "Signalize_EOF",
           prog[os].pc \notin {"return", "remove", "off"},
           ~Before(os), ~After(os)
    PROVE  \E p \in Pids :
              /\ p + 1 = n /\ os = Runner(p) /\ ~Over(p) /\ LeafOK(n, k, p)
              /\ process_table[p].name = prog[os].name
<1>1. PICK p \in Pids : /\ p < n /\ os = Runner(p) /\ ~Over(p)
                        /\ process_table[p].name = prog[os].name
                        /\ \/ p + 1 = n /\ LeafOK(n, k, p)
                           \/ p + 1 < n /\ ParentOK(p)
  BY WhoWorks
<1>2. ~ParentOK(p)
  BY <1>1 DEF ParentOK
<1> QED  BY <1>1, <1>2

LEMMA ParentAtWork ==
    ASSUME IInv, NEW n \in Nat, NEW k \in Nat, Nested(n, k), NEW os \in OsThreads,
           at[os] # "none", Before(os) \/ After(os) \/ at[os] # "user"
    PROVE  \E p \in Pids :
              /\ p + 1 < n /\ os = Runner(p) /\ ~Over(p) /\ ParentOK(p)
              /\ process_table[p].name = prog[os].name
<1>1. ~Stray(os)
  BY DEF Stray, Before, After
<1>2. ASSUME k = n + 1, os = Helper(n).os
      PROVE  FALSE
  BY <1>1, <1>2 DEF Nested, HelperOK
<1>3. ASSUME n = 0, os = Boot
      PROVE  FALSE
  BY <1>3 DEF Nested, OthersOK, Before, After
<1>4. PICK p \in Pids : p < n /\ os = Runner(p)
  <2>1. \/ \E p \in Pids : p < n /\ os = Runner(p)
        \/ k = n + 1 /\ os = Helper(n).os
        \/ Stray(os)
        \/ n = 0 /\ os = Boot
    BY WhoIs
  <2> QED  BY <1>1, <1>2, <1>3, <2>1
<1>5. ~Over(p) /\ process_table[p].name = prog[os].name
  BY <1>4 DEF Nested, ProcessOK, Before, After
<1>6. ASSUME p + 1 = n
      PROVE  FALSE
  <2>1. LeafOK(n, k, p)
    BY <1>4, <1>5, <1>6 DEF Nested
  <2>2. prog[os].pc \in PlacesOf(prog[os].name) /\ at[os] = "user"
    BY <1>4, <2>1 DEF LeafOK, LeafFrame
  <2>3. prog[os].name = "shell" /\ prog[os].pc = "create" => prog[os].todo # <<>>
    BY <1>4, <2>1 DEF LeafOK, LeafFrame
  <2> QED  BY <2>2, <2>3 DEF PlacesOf, Before, After
<1>7. p + 1 < n
  BY <1>4, <1>6, Bounds DEF Nested
<1> QED  BY <1>4, <1>5, <1>7 DEF Nested

(* After the shutdown nobody starts anything.                              *)
LEMMA ShuttingDown ==
    ASSUME NEW n \in Nat, NEW k \in Nat, Nested(n, k), sig_shutdown,
           NEW p \in Pids, p + 1 = n, ~Over(p)
    PROVE  \/ p = 2 /\ process_table[p].name = "shutdown"
           \/ p = 1 /\ prog[Runner(p)].pc = "exit"
           \/ p = 0 /\ prog[Runner(p)].pc # "start"
<1>1. p \in Nat /\ p < n
  BY IdFacts
<1>2. p = 0 => Runner(p) = Boot
  BY <1>1 DEF Nested, ProcessOK
<1> QED  BY <1>1, <1>2 DEF Nested, SignalsOK

(* Programs that only go on: they make no call, or one that changes        *)
(* nothing.                                                                *)
LEMMA LeafGoes ==
    ASSUME IInv, ProgIInv, ~fault, NEW n \in Nat, NEW k \in Nat, Nested(n, k),
           NEW p \in Pids, p + 1 = n, ~Over(p), LeafOK(n, k, p),
           prog[Runner(p)].pc # "start", ~(sig_shutdown /\ p = 1),
           NEW frame, prog' = [prog EXCEPT ![Runner(p)] = frame],
           frame.name = prog[Runner(p)].name, LeafFrame(n, k, p, frame), frame.pc # "start",
           UNCHANGED vars
    PROVE  SingleIInv'
<1>0. UNCHANGED <<pid_table, tid_table, process_table, threads, tid_to_pid,
                  stdtid_to_tid, sig_shutdown, raised, at, wait, fault>>
  BY DEF vars, ids, maps, signals
<1>1. p < n /\ (p = 1 => n > 1)
  BY IdFacts
<1>2. Main(p)' = Main(p)
  BY <1>0 DEF Main
<1>3. Main(p).handler = "sig_terminate" => process_table[p].name = "rgen"
  BY <1>1 DEF Nested, ProcessOK
<1>4. p = 1 => Main(1).handler' = "sig_shutdown"
  BY <1>1, <1>2 DEF Nested, SignalsOK
<1>5. "sig_terminate" \notin raised'
  BY <1>0 DEF Nested, SignalsOK
<1>6. Nested(n, k)'
  BY <1>0, <1>2, <1>3, <1>4, <1>5, LeafMoves
<1> QED  BY <1>0, <1>6 DEF SingleIInv

LEMMA ShellReads ==
    ASSUME Orderly, IInv, ProgIInv, ~fault, NEW n \in Nat, NEW k \in Nat, Nested(n, k),
           NEW os \in OsThreads, Read_Command(os)
    PROVE  SingleIInv'
<1>1. /\ at[os] = "user" /\ prog[os].name = "shell" /\ prog[os].pc = "prompt"
      /\ UNCHANGED vars
  BY DEF Read_Command, In, Calling
<1>2. PICK p \in Pids : p + 1 = n /\ os = Runner(p) /\ ~Over(p) /\ LeafOK(n, k, p)
                        /\ process_table[p].name = prog[os].name
  BY <1>1, LeafAtWork DEF Before, After
<1>3. ~(sig_shutdown /\ p = 1)
  BY <1>1, <1>2, ShuttingDown
<1>4. prog[os] \in Frames
  BY DEF ProgIInv, ProgTypes
<1>5. CASE Goto(os, "exit")
  <2> DEFINE frame == [prog[os] EXCEPT !.pc = "exit"]
  <2>1. frame.name = "shell" /\ frame.pc = "exit" /\ prog' = [prog EXCEPT ![os] = frame]
    BY <1>1, <1>4, <1>5 DEF Goto, Frames
  <2>2. LeafFrame(n, k, p, frame)
    BY <2>1 DEF LeafFrame, PlacesOf
  <2> HIDE DEF frame
  <2> QED  BY <1>1, <1>2, <1>3, <2>1, <2>2, LeafGoes
<1>6. CASE ~Goto(os, "exit")
  <2>1. PICK m \in 1 .. MaxPipeline : \E typed \in [1 .. m -> Typed(os)] :
           prog' = [prog EXCEPT ![os].pc = "create", ![os].todo = typed,
                                ![os].handles = <<>>]
    BY <1>6 DEF Read_Command
  <2>2. m = 1
    BY <2>1 DEF Orderly
  <2>3. PICK line \in [1 .. 1 -> Typed(os)] :
           prog' = [prog EXCEPT ![os].pc = "create", ![os].todo = line,
                                ![os].handles = <<>>]
    BY <2>1, <2>2
  <2> DEFINE frame == [prog[os] EXCEPT !.pc = "create", !.todo = line, !.handles = <<>>]
  <2>4. /\ frame.name = "shell" /\ frame.pc = "create" /\ frame.todo = line
        /\ frame.handles = <<>> /\ prog' = [prog EXCEPT ![os] = frame]
    BY <1>1, <1>4, <2>3 DEF Frames, ProgIInv, ProgTypes
  <2>5. Len(line) = 1 /\ line[1] \in Typed(os)
    OBVIOUS
  <2>6. line[1] = "shutdown" => p = 1
    <3>1. Get_TID(os) = TidMin + p /\ p \in Nat /\ TidMin \in Nat
      <4>1. p \in Nat /\ p < n
        BY <1>2, IdFacts
      <4> QED  BY <1>2, <4>1, MainFacts, ControllerAssumption
    <3> QED  BY <2>5, <3>1 DEF Typed, Orderly
  <2> HIDE DEF frame
  <2>7. LeafFrame(n, k, p, frame)
    BY <2>4, <2>5, <2>6 DEF LeafFrame, PlacesOf
  <2> QED  BY <1>1, <1>2, <1>3, <2>4, <2>7, LeafGoes
<1> QED  BY <1>5, <1>6

LEMMA FrameAt ==
    ASSUME ProgIInv, NEW os \in OsThreads, NEW pc
    PROVE  /\ [prog[os] EXCEPT !.pc = pc].name = prog[os].name
           /\ [prog[os] EXCEPT !.pc = pc].pc = pc
           /\ [prog[os] EXCEPT !.pc = pc].todo = prog[os].todo
           /\ [prog[os] EXCEPT !.pc = pc].handles = prog[os].handles
BY DEF ProgIInv, ProgTypes, Frames

LEMMA GoesTo ==
    ASSUME NEW os \in OsThreads, NEW pc, Goto(os, pc)
    PROVE  prog' = [prog EXCEPT ![os] = [prog[os] EXCEPT !.pc = pc]]
BY DEF Goto

LEMMA ShellChangesDirectory ==
    ASSUME IInv, ProgIInv, ~fault, NEW n \in Nat, NEW k \in Nat, Nested(n, k),
           NEW os \in OsThreads, Change_Directory(os)
    PROVE  SingleIInv'
<1>1. /\ at[os] = "user" /\ prog[os].name = "shell" /\ prog[os].pc = "create"
      /\ prog[os].todo # <<>> /\ UNCHANGED vars
      /\ Goto(os, Next_Prompt)
  BY DEF Change_Directory, In, Calling
<1>2. PICK p \in Pids : p + 1 = n /\ os = Runner(p) /\ ~Over(p) /\ LeafOK(n, k, p)
                        /\ process_table[p].name = prog[os].name
  BY <1>1, LeafAtWork DEF Before, After
<1>3. ~(sig_shutdown /\ p = 1)
  BY <1>1, <1>2, ShuttingDown
<1> DEFINE frame == [prog[os] EXCEPT !.pc = Next_Prompt]
<1>4. /\ frame.name = "shell" /\ frame.pc = Next_Prompt
      /\ prog' = [prog EXCEPT ![os] = frame]
  BY <1>1, FrameAt, GoesTo
<1>5. LeafFrame(n, k, p, frame) /\ Next_Prompt # "start"
  BY <1>4 DEF Next_Prompt, LeafFrame, PlacesOf
<1> HIDE DEF frame
<1> QED  BY <1>1, <1>2, <1>3, <1>4, <1>5, LeafGoes

LEMMA RgenClears ==
    ASSUME IInv, ProgIInv, ~fault, NEW n \in Nat, NEW k \in Nat, Nested(n, k),
           NEW os \in OsThreads, Rgen_Start(os), prog[os].pc = "clear"
    PROVE  SingleIInv'
<1>1. /\ at[os] = "user" /\ prog[os].name = "rgen" /\ prog[os].pc = "clear"
      /\ prog' = [prog EXCEPT ![os] = [prog[os] EXCEPT !.pc = "create"]] /\ UNCHANGED vars
  BY DEF Rgen_Start, In, Calling
<1>2. PICK p \in Pids : p + 1 = n /\ os = Runner(p) /\ ~Over(p) /\ LeafOK(n, k, p)
                        /\ process_table[p].name = prog[os].name
  BY <1>1, LeafAtWork DEF Before, After
<1>3. ~(sig_shutdown /\ p = 1)
  BY <1>1, <1>2, ShuttingDown
<1> DEFINE frame == [prog[os] EXCEPT !.pc = "create"]
<1>4. frame.name = "rgen" /\ frame.pc = "create" /\ prog' = [prog EXCEPT ![os] = frame]
  BY <1>1, FrameAt
<1>5. k = n
  BY <1>1, <1>2 DEF LeafOK, LeafFrame
<1>6. LeafFrame(n, k, p, frame)
  BY <1>4, <1>5 DEF LeafFrame, PlacesOf
<1> HIDE DEF frame
<1> QED  BY <1>1, <1>2, <1>3, <1>4, <1>6, LeafGoes

LEMMA RgenLoops ==
    ASSUME IInv, ProgIInv, ~fault, NEW n \in Nat, NEW k \in Nat, Nested(n, k),
           NEW os \in OsThreads, Rgen_Loop(os)
    PROVE  SingleIInv'
<1>0. "sig_terminate" \notin raised
  BY DEF Nested, SignalsOK
<1>1. /\ at[os] = "user" /\ prog[os].name = "rgen" /\ prog[os].pc = "loop"
      /\ UNCHANGED vars /\ Goto(os, "exit")
  BY <1>0 DEF Rgen_Loop, In, Calling
<1>2. PICK p \in Pids : p + 1 = n /\ os = Runner(p) /\ ~Over(p) /\ LeafOK(n, k, p)
                        /\ process_table[p].name = prog[os].name
  BY <1>1, LeafAtWork DEF Before, After
<1>3. ~(sig_shutdown /\ p = 1)
  BY <1>1, <1>2, ShuttingDown
<1> DEFINE frame == [prog[os] EXCEPT !.pc = "exit"]
<1>4. frame.name = "rgen" /\ frame.pc = "exit" /\ prog' = [prog EXCEPT ![os] = frame]
  BY <1>1, FrameAt, GoesTo
<1>5. LeafFrame(n, k, p, frame)
  BY <1>4 DEF LeafFrame, PlacesOf
<1> HIDE DEF frame
<1> QED  BY <1>1, <1>2, <1>3, <1>4, <1>5, LeafGoes

(* A program registers its handler before it does anything else.           *)
LEMMA LeafRegisters ==
    ASSUME IInv, ProgIInv, ~fault, NEW n \in Nat, NEW k \in Nat, Nested(n, k),
           NEW os \in OsThreads, NEW name, NEW flag, NEW next,
           \/ name = "shell" /\ flag = "sig_shutdown" /\ next = "prompt"
           \/ name = "rgen" /\ flag = "sig_terminate" /\ next = "clear",
           In(os, name, "start"), Register_Signal_Handler(os, flag), Goto(os, next)
    PROVE  SingleIInv'
<1>1. at[os] = "user" /\ prog[os].name = name /\ prog[os].pc = "start"
  BY DEF In, Calling
<1>2. PICK p \in Pids : p + 1 = n /\ os = Runner(p) /\ ~Over(p) /\ LeafOK(n, k, p)
                        /\ process_table[p].name = name
  BY <1>1, LeafAtWork DEF Before, After
<1>3. p \in Nat /\ p < n
  BY <1>2, IdFacts
<1>4. p # 0 /\ (p = 1 => name = "shell")
  BY <1>2, <1>3 DEF Nested, ProcessOK
<1>5. ~sig_shutdown
  BY <1>1, <1>2, <1>4, ShuttingDown
<1>6. /\ Get_TID(os) = TidMin + p /\ tid_to_pid[TidMin + p] = p /\ Known(TidMin + p)
      /\ Looked_Up(os) = stdtid_to_tid
      /\ Main(p) \in Threads /\ TidMin + p \in Handles
  BY <1>2, <1>3, MainFacts
<1> DEFINE handler == IF Main(p).handler = None THEN flag ELSE Main(p).handler
<1>7. threads' = [threads EXCEPT ![p][TidMin + p] = [@ EXCEPT !.handler = handler]]
  BY <1>5, <1>6 DEF Register_Signal_Handler, Main
<1>8. /\ stdtid_to_tid' = stdtid_to_tid
      /\ UNCHANGED <<pid_table, tid_table, process_table, tid_to_pid, sig_shutdown, raised,
                     at, wait, fault>>
  BY <1>5, <1>6 DEF Register_Signal_Handler, ids
<1>9. Main(p).handler \in {"sig_shutdown", "sig_terminate", None}
      /\ "sig_shutdown" # None /\ "sig_terminate" # None
  BY <1>6, SessionAssumption, NoneFacts DEF Threads
<1>10. Main(p).handler = "sig_terminate" => process_table[p].name = "rgen"
  BY <1>3 DEF Nested, ProcessOK
<1>11. Main(p)' = [Main(p) EXCEPT !.handler = handler]
  BY <1>6, <1>7 DEF Main, IInv, TypeOK
<1>12. [Main(p) EXCEPT !.handler = handler] # None
  <2>1. handler \in Flags \cup {None}
    BY <1>2, <1>9, SessionAssumption
  <2> HIDE DEF handler
  <2> QED  BY <1>6, <2>1, HandlerUpdate, NoneFacts
<1>13. ASSUME NEW q \in Pids, NEW t \in Handles
       PROVE  /\ threads'[q][t] # None <=> threads[q][t] # None
              /\ threads[q][t] # None => threads'[q][t].os = threads[q][t].os
              /\ t # TidMin + p => threads'[q][t] = threads[q][t]
  <2>1. CASE q = p /\ t = TidMin + p
    <3>1. threads'[q][t] = [Main(p) EXCEPT !.handler = handler]
      BY <1>11, <2>1 DEF Main
    <3>2. threads[q][t] = Main(p) /\ Main(p) # None
      BY <1>6, <2>1, NoneFacts DEF Main
    <3>3. [Main(p) EXCEPT !.handler = handler].os = Main(p).os
      BY <1>6 DEF Threads
    <3> HIDE DEF handler
    <3> QED  BY <1>12, <2>1, <3>1, <3>2, <3>3
  <2>2. CASE q # p \/ t # TidMin + p
    <3> HIDE DEF handler
    <3>1. threads'[q][t] = threads[q][t]
      BY <1>7, <2>2, <1>6 DEF IInv, TypeOK
    <3> QED  BY <2>2, <3>1
  <2> QED  BY <2>1, <2>2
<1>14. /\ Main(p).state' = Main(p).state /\ Main(p).waiting' = Main(p).waiting
       /\ Main(p).sleeped' = Main(p).sleeped
       /\ Main(p).handler' = handler
  <2> HIDE DEF handler
  <2> QED  BY <1>6, <1>11 DEF Threads
<1>15. /\ handler = "sig_terminate" => process_table[p].name = "rgen"
       /\ p = 1 => handler = "sig_shutdown"
  BY <1>2, <1>4, <1>9, <1>10
<1> DEFINE frame == [prog[os] EXCEPT !.pc = next]
<1>16. frame.name = name /\ frame.pc = next /\ prog' = [prog EXCEPT ![os] = frame]
  BY <1>1, FrameAt, GoesTo
<1>17. LeafFrame(n, k, p, frame)
  <2>1. name = "rgen" => k = n
    BY <1>1, <1>2 DEF LeafOK, LeafFrame
  <2> HIDE DEF frame
  <2> QED  BY <1>16, <2>1 DEF LeafFrame, PlacesOf
<1>18. "sig_terminate" \notin raised
  BY DEF Nested, SignalsOK
<1> HIDE DEF frame, handler
<1>19. Nested(n, k)'
  <2>1. /\ Main(p).handler' = "sig_terminate" => process_table[p].name = "rgen"
        /\ p = 1 /\ frame.pc # "start" => Main(1).handler' = "sig_shutdown"
    BY <1>14, <1>15
  <2>2. frame.name = prog[Runner(p)].name /\ prog' = [prog EXCEPT ![Runner(p)] = frame]
    BY <1>1, <1>2, <1>16
  <2>3. "sig_terminate" \notin raised' /\ raised \subseteq raised'
    BY <1>8, <1>18
  <2> QED  BY <1>2, <1>5, <1>8, <1>13, <1>14, <1>17, <2>1, <2>2, <2>3, LeafMoves
<1> QED  BY <1>8, <1>19 DEF SingleIInv

-----------------------------------------------------------------------------
(* The process below the topmost one, or a lower one, waits.               *)

(* A thread of which a step changes waked_by at most.                      *)
SameThread(p, t) ==
    /\ threads'[p][t] # None <=> threads[p][t] # None
    /\ threads[p][t] # None =>
          /\ threads'[p][t].state = threads[p][t].state
          /\ threads'[p][t].waiting = threads[p][t].waiting
          /\ threads'[p][t].sleeped = threads[p][t].sleeped
          /\ threads'[p][t].handler = threads[p][t].handler
          /\ threads'[p][t].os = threads[p][t].os

LEMMA ParentMoves ==
    ASSUME IInv, ProgIInv, NEW n \in Nat, NEW k \in Nat, Nested(n, k),
           NEW p \in Pids, p + 1 < n, ~Over(p), ParentOK(p)',
           UNCHANGED <<pid_table, tid_table, process_table, tid_to_pid, stdtid_to_tid,
                       sig_shutdown, raised>>,
           \A o \in OsThreads : o # Runner(p) =>
              at'[o] = at[o] /\ prog'[o] = prog[o] /\ wait'[o] = wait[o],
           at'[Runner(p)] # "none", prog'[Runner(p)].name = prog[Runner(p)].name,
           \A q \in Pids, t \in Handles :
              /\ threads'[q][t] # None <=> threads[q][t] # None
              /\ threads[q][t] # None => threads'[q][t].os = threads[q][t].os
              /\ t # TidMin + p /\ t # TidMin + (p + 1) => SameThread(q, t),
           Main(p).state' # "Exited", Main(p).sleeped' = Main(p).sleeped,
           Main(p).handler' = Main(p).handler,
           SameMain(p + 1)
    PROVE  Nested(n, k)'
<1>0. /\ p \in Nat /\ p < n /\ n > 0 /\ TidMin \in Nat /\ p + 1 \in Pids /\ p + 1 # 0
      /\ TidMin + p \in Handles /\ TidMin + (p + 1) \in Handles
      /\ Runner(p) \in OsThreads /\ Runner(p + 1) \in OsThreads /\ Runner(p + 1) # Runner(p)
  <2>1. p \in Nat /\ p < n /\ n > 0
    BY IdFacts
  <2>2. p + 1 \in Pids /\ p + 1 # p
    BY <2>1, Bounds DEF Nested
  <2>3. TidMin \in Nat
    BY Bounds DEF Nested
  <2>4. TidMin + p \in Handles /\ Runner(p) \in OsThreads
    BY <2>1, MainFacts
  <2>5. TidMin + (p + 1) \in Handles /\ Runner(p + 1) \in OsThreads
    BY <2>2, MainFacts
  <2>6. Runner(p + 1) # Runner(p)
    BY <2>1, <2>2, RunnersDiffer
  <2> QED  BY <2>1, <2>2, <2>3, <2>4, <2>5, <2>6
<1>1. /\ IdsStacked(n, k)' /\ Stacked(n, k)' /\ Listed(n, k)'
      /\ \A q \in Pids : q < n => Runner(q)' = Runner(q)
      /\ k = n + 1 => Helper(n).os' = Helper(n).os
  BY SameShape
<1>2. Over(p)' = Over(p) /\ Over(p + 1)' = Over(p + 1)
  BY DEF Over, SameMain
<1>3. ProcessOK(n, p)'
  <2>1. ProcessOK(n, p)
    BY <1>0 DEF Nested
  <2> QED  BY <1>0, <1>1, <1>2, <2>1 DEF ProcessOK
<1>4. ASSUME NEW q \in Pids, q < n, q # p
      PROVE  /\ ProcessOK(n, q)'
             /\ q + 1 = n /\ ~Over(q)' => LeafOK(n, k, q)'
             /\ q + 1 < n => ParentOK(q)'
             /\ Over(q)' = Over(q)
  <2>0. /\ q \in Nat /\ TidMin + q \in Handles /\ Runner(q) \in OsThreads
        /\ Runner(q) # Runner(p) /\ TidMin + q # TidMin + p
        /\ threads[q][TidMin + q] # None
    BY <1>0, <1>4, MainFacts, RunnersDiffer DEF Main
  <2>1. SameMain(q)
    <3>1. CASE q = p + 1
      BY <3>1
    <3>2. CASE q # p + 1
      <4>1. TidMin + q # TidMin + (p + 1)
        BY <1>0, <1>4, <2>0, <3>2
      <4>2. SameThread(q, TidMin + q)
        BY <2>0, <4>1
      <4> QED  BY <2>0, <4>2 DEF SameThread, SameMain, Main
    <3> QED  BY <3>1, <3>2
  <2>2. Over(q)' = Over(q)
    BY <2>1 DEF Over, SameMain
  <2>3. q + 1 < n => Main(q + 1).sleeped' = Main(q + 1).sleeped /\ Over(q + 1)' = Over(q + 1)
    <3>1. SUFFICES ASSUME q + 1 < n
                   PROVE  /\ Main(q + 1).sleeped' = Main(q + 1).sleeped
                          /\ Over(q + 1)' = Over(q + 1)
      OBVIOUS
    <3>2. CASE q + 1 = p
      BY <1>2, <3>2
    <3>3. CASE q + 1 # p
      <4>1. q + 1 \in Pids /\ q + 1 # p + 1
        BY <1>0, <1>4, <2>0, <3>1, Bounds DEF Nested
      <4>2. /\ TidMin + (q + 1) \in Handles /\ threads[q + 1][TidMin + (q + 1)] # None
            /\ TidMin + (q + 1) # TidMin + p /\ TidMin + (q + 1) # TidMin + (p + 1)
        BY <1>0, <2>0, <3>1, <3>3, <4>1, MainFacts, RunnersDiffer DEF Main
      <4>3. SameThread(q + 1, TidMin + (q + 1))
        BY <4>1, <4>2
      <4> QED  BY <4>2, <4>3 DEF SameThread, Main, Over
    <3> QED  BY <3>2, <3>3
  <2>4. /\ ProcessOK(n, q) /\ (q + 1 = n /\ ~Over(q) => LeafOK(n, k, q))
        /\ (q + 1 < n => ParentOK(q))
    BY <1>4 DEF Nested
  <2>5. /\ process_table'[q] = process_table[q] /\ Runner(q)' = Runner(q)
        /\ at'[Runner(q)] = at[Runner(q)] /\ prog'[Runner(q)] = prog[Runner(q)]
        /\ wait'[Runner(q)] = wait[Runner(q)]
    BY <1>1, <1>4, <2>0
  <2> QED  BY <2>1, <2>2, <2>3, <2>4, <2>5, Untouched
<1>5. k = n + 1 => HelperOK(n)'
  <2>1. SUFFICES ASSUME k = n + 1 PROVE HelperOK(n)'
    OBVIOUS
  <2>2. /\ n - 1 \in Pids /\ Helper(n).os # Runner(p) /\ Helper(n).os \in OsThreads
        /\ TidMin + n \in Handles /\ TidMin + n # TidMin + p /\ TidMin + n # TidMin + (p + 1)
        /\ threads[n - 1][TidMin + n] # None
    BY <1>0, <2>1, HelperFacts DEF Helper
  <2>3. SameThread(n - 1, TidMin + n)
    BY <2>2
  <2>4. /\ Helper(n).state' = Helper(n).state /\ Helper(n).waiting' = Helper(n).waiting
        /\ Helper(n).sleeped' = Helper(n).sleeped
    BY <2>2, <2>3 DEF SameThread, Helper
  <2>5. HelperOK(n) /\ Helper(n).os' = Helper(n).os
    BY <1>1, <2>1 DEF Nested
  <2>6. Over(n - 1)' = Over(n - 1)
    BY <1>2, <1>4, <2>2
  <2>7. at'[Helper(n).os] = at[Helper(n).os] /\ prog'[Helper(n).os] = prog[Helper(n).os]
        /\ process_table'[n - 1].name = process_table[n - 1].name
    BY <2>2
  <2> QED  BY <2>4, <2>5, <2>6, <2>7, HelperUntouched
<1>6. OthersOK(n)'
  <2>1. stdtid_to_tid[Runner(p)] \notin {None, 0}
    BY <1>0, MainFacts, NoneFacts
  <2>2. OthersOK(n)
    BY DEF Nested
  <2> QED  BY <1>0, <2>1, <2>2 DEF OthersOK, Stray
<1>7. SignalsOK(n)'
  <2>1. SignalsOK(n) /\ n > 1 /\ 1 \in Pids /\ 1 < n
    BY <1>0, Bounds DEF Nested
  <2>2. Runner(1)' = Runner(1) /\ Main(1).handler' = Main(1).handler
    <3>1. CASE p = 1
      BY <1>1, <2>1, <3>1
    <3>2. CASE p # 1
      <4>1. Runner(1) # Runner(p) /\ TidMin + 1 \in Handles /\ TidMin + 1 # TidMin + p
            /\ threads[1][TidMin + 1] # None
        BY <1>0, <2>1, <3>2, RunnersDiffer, MainFacts DEF Main
      <4>2. CASE p + 1 = 1
        BY <1>1, <2>1, <4>2 DEF SameMain
      <4>3. CASE p + 1 # 1
        <5>1. TidMin + 1 # TidMin + (p + 1)
          BY <1>0, <4>3
        <5>2. SameThread(1, TidMin + 1)
          BY <2>1, <4>1, <5>1
        <5> QED  BY <1>1, <2>1, <4>1, <5>2 DEF SameThread, Main
      <4> QED  BY <4>2, <4>3
    <3> QED  BY <3>1, <3>2
  <2>3. Main(1).handler = "sig_shutdown" \/ (p # 1 /\ prog'[Runner(1)] = prog[Runner(1)])
    <3>1. CASE p = 1
      <4>1. ParentOK(1) /\ ~Over(1)
        BY <1>0, <3>1 DEF Nested
      <4>2. prog[Runner(1)].pc # "start"
        BY <4>1 DEF ParentOK, Before, After
      <4> QED  BY <2>1, <4>2 DEF SignalsOK
    <3>2. CASE p # 1
      BY <1>0, <2>1, <3>2, RunnersDiffer, MainFacts
    <3> QED  BY <3>1, <3>2
  <2>4. n = 2 => p = 0 /\ Over(1)' = Over(1)
    BY <1>0, <1>2
  <2>5. n = 2 => prog'[Runner(1)] = prog[Runner(1)]
    BY <1>0, <2>4, <2>1, RunnersDiffer, MainFacts
  <2>6. n > 1 /\ prog'[Runner(1)].pc # "start" => Main(1).handler' = "sig_shutdown"
    BY <2>1, <2>2, <2>3 DEF SignalsOK
  <2>7. "sig_terminate" \notin raised'
    BY <2>1 DEF SignalsOK
  <2>8. ASSUME sig_shutdown
        PROVE  /\ "sig_shutdown" \in raised' /\ n <= 3
               /\ n = 3 => process_table'[2].name = "shutdown"
               /\ n = 2 /\ ~Over(1)' => prog'[Runner(1)].pc = "exit"
    BY <2>1, <2>4, <2>5, <2>8 DEF SignalsOK
  <2> QED  BY <2>1, <2>2, <2>6, <2>7, <2>8 DEF SignalsOK
<1>8. ASSUME NEW q \in Pids, q < n
      PROVE  /\ ProcessOK(n, q)'
             /\ q + 1 = n /\ ~Over(q)' => LeafOK(n, k, q)'
             /\ q + 1 < n => ParentOK(q)'
  <2>1. CASE q = p
    <3>1. q + 1 # n
      BY <2>1, IdFacts
    <3> QED  BY <1>3, <2>1, <3>1
  <2>2. CASE q # p
    BY <1>4, <1>8, <2>2
  <2> QED  BY <2>1, <2>2
<1>9. ASSUME NEW q \in Pids, q + 1 = n \/ q + 1 < n
      PROVE  q < n
  <2>1. q \in Nat
    BY IdFacts
  <2> QED  BY <1>9, <2>1
<1> QED  BY <1>1, <1>5, <1>6, <1>7, <1>8, <1>9 DEF Nested

(* The waits of a process for the one above it.                            *)
LEMMA ParentFacts ==
    ASSUME IInv, ProgIInv, NEW n \in Nat, NEW k \in Nat, Nested(n, k),
           NEW p \in Pids, p + 1 < n, ~Over(p)
    PROVE  /\ p \in Nat /\ p < n /\ p + 1 \in Pids /\ p + 1 # p
           /\ TidMin + p \in Handles /\ TidMin + (p + 1) \in Handles
           /\ TidMin + (p + 1) = TidMin + p + 1 /\ TidMin + (p + 1) # TidMin + p
           /\ Runner(p) \in OsThreads /\ Main(p) \in Threads /\ Main(p + 1) \in Threads
           /\ Get_TID(Runner(p)) = TidMin + p /\ tid_to_pid[TidMin + p] = p
           /\ Looked_Up(Runner(p)) = stdtid_to_tid
           /\ Pid_Of(TidMin + p + 1) = p + 1 /\ tid_to_pid[TidMin + p + 1] = p + 1
           /\ ~Missing(TidMin + p + 1)
           /\ Exited(TidMin + p + 1) <=> Over(p + 1)
           /\ p # None /\ Main(p) # None /\ Main(p + 1) # None
<1>1. p \in Nat /\ p < n
  BY IdFacts
<1>2. p + 1 \in Pids /\ p + 1 # p /\ TidMin \in Nat
  BY <1>1, Bounds DEF Nested
<1>3. /\ TidMin + p \in Handles /\ Runner(p) \in OsThreads /\ Main(p) \in Threads
      /\ Get_TID(Runner(p)) = TidMin + p /\ tid_to_pid[TidMin + p] = p
      /\ Looked_Up(Runner(p)) = stdtid_to_tid /\ Main(p) # None
  BY <1>1, MainFacts
<1>4. /\ TidMin + (p + 1) \in Handles /\ Main(p + 1) \in Threads /\ Main(p + 1) # None
      /\ tid_to_pid[TidMin + (p + 1)] = p + 1 /\ Pid_Of(TidMin + (p + 1)) = p + 1
  BY <1>2, MainFacts
<1>5. TidMin + (p + 1) = TidMin + p + 1 /\ TidMin + (p + 1) # TidMin + p
  BY <1>1, <1>2
<1>6. process_table[p + 1].state = "Exited" <=> Over(p + 1)
  BY <1>2 DEF Nested, ProcessOK
<1>7. ~Missing(TidMin + p + 1) /\ (Exited(TidMin + p + 1) <=> Over(p + 1))
  BY <1>4, <1>5, <1>6 DEF Missing, Exited, Over, Main
<1> QED  BY <1>1, <1>2, <1>3, <1>4, <1>5, <1>7, NoneFacts

(* The threads do not change, or only one of them does.                    *)
LEMMA SameThreads ==
    ASSUME UNCHANGED threads, NEW q \in Pids, NEW t \in Handles
    PROVE  /\ SameThread(q, t)
           /\ threads'[q][t] # None <=> threads[q][t] # None
           /\ threads[q][t] # None => threads'[q][t].os = threads[q][t].os
BY DEF SameThread

LEMMA WaitsForTop ==
    ASSUME IInv, ProgIInv, ~fault, NEW n \in Nat, NEW k \in Nat, Nested(n, k),
           NEW os \in OsThreads, NEW pc,
           \/ prog[os].name = "kernel" /\ prog[os].pc = "wait" /\ pc = "close"
           \/ prog[os].name = "shell" /\ prog[os].pc = "create"
              /\ prog[os].todo = <<>> /\ pc = "reap",
           at[os] = "user", Wait_For_All(os, pc)
    PROVE  SingleIInv'
<1>1. Before(os)
  BY DEF Before
<1>2. PICK p \in Pids : p + 1 < n /\ os = Runner(p) /\ ~Over(p) /\ ParentOK(p)
  BY <1>1, ParentAtWork
<1>3. /\ Get_TID(os) = TidMin + p /\ tid_to_pid[TidMin + p] = p /\ p # None
      /\ Looked_Up(os) = stdtid_to_tid
  BY <1>2, ParentFacts
<1>4. /\ wait' = [wait EXCEPT ![os] = [pid |-> p, tid |-> TidMin + p,
                                        handles |-> prog[os].handles]]
      /\ at' = [at EXCEPT ![os] = "register"]
      /\ UNCHANGED <<pid_table, tid_table, process_table, threads, tid_to_pid,
                     stdtid_to_tid, sig_shutdown, raised, fault>>
      /\ Goto(os, pc)
  BY <1>3 DEF Wait_For_All, Wait_For, ids, signals
<1>5. prog[os].handles = <<TidMin + p + 1>>
  BY <1>2 DEF ParentOK
<1> DEFINE frame == [prog[os] EXCEPT !.pc = pc]
<1>6. /\ frame.name = prog[os].name /\ frame.pc = pc /\ frame.handles = <<TidMin + p + 1>>
      /\ prog' = [prog EXCEPT ![os] = frame]
  BY <1>4, <1>5, FrameAt, GoesTo
<1> HIDE DEF frame
<1>7. /\ prog'[os] = frame /\ at'[os] = "register"
      /\ wait'[os] = [pid |-> p, tid |-> TidMin + p, handles |-> <<TidMin + p + 1>>]
      /\ \A o \in OsThreads : o # os =>
            at'[o] = at[o] /\ prog'[o] = prog[o] /\ wait'[o] = wait[o]
  BY <1>4, <1>5, <1>6 DEF IInv, TypeOK, ProgIInv, ProgTypes
<1>8. After(os)'
  BY <1>6, <1>7 DEF After
<1>9. /\ Main(p)' = Main(p) /\ Main(p + 1)' = Main(p + 1) /\ Runner(p)' = os
  BY <1>2, <1>4 DEF Main, Runner
<1>10. Asleep(p)' = FALSE /\ Asleep(p) = FALSE
  BY <1>2, <1>7, <1>9 DEF Asleep
<1>11. ParentOK(p)'
  <2>1. /\ Main(p).state = "Running" /\ Main(p).waiting = {} /\ Main(p + 1).sleeped = {}
    BY <1>2, <1>10 DEF ParentOK
  <2>2. /\ prog'[os].handles = <<TidMin + p + 1>> /\ at'[os] \in {"register", "stop"}
        /\ at'[os] # "waiting"
    BY <1>6, <1>7
  <2> QED  BY <1>7, <1>8, <1>9, <1>10, <2>1, <2>2 DEF ParentOK
<1>12. SameMain(p + 1) /\ Main(p).state' # "Exited"
  BY <1>2, <1>9 DEF SameMain, Over
<1>13. Nested(n, k)'
  BY <1>2, <1>4, <1>6, <1>7, <1>9, <1>11, <1>12, SameThreads, ParentMoves
<1> QED  BY <1>4, <1>13 DEF SingleIInv

LEMMA ParentRegisters ==
    ASSUME IInv, ProgIInv, ~fault, NEW n \in Nat, NEW k \in Nat, Nested(n, k),
           NEW os \in OsThreads, Register_Handles(os), UNCHANGED prog
    PROVE  SingleIInv'
<1>1. at[os] = "register"
  BY DEF Register_Handles
<1>2. PICK p \in Pids : p + 1 < n /\ os = Runner(p) /\ ~Over(p) /\ ParentOK(p)
  BY <1>1, ParentAtWork
<1> DEFINE h == TidMin + p + 1
<1>3. /\ wait[os] = [pid |-> p, tid |-> TidMin + p, handles |-> <<h>>]
      /\ After(os) /\ prog[os].handles = <<h>>
      /\ Main(p).state = "Running" /\ Main(p).waiting = {} /\ Main(p + 1).sleeped = {}
  BY <1>1, <1>2 DEF ParentOK, Asleep
<1>4. PICK m \in 0 .. 1 :
         LET registered == {<<h>>[i] : i \in 1 .. m}
             done == m = 1
             seen == registered \cup (IF done THEN {} ELSE {<<h>>[m + 1]})
         IN  /\ \A tid \in registered : ~Missing(tid) /\ ~Exited(tid)
             /\ ~done => Missing(<<h>>[m + 1]) \/ Exited(<<h>>[m + 1])
             /\ IF m > 0 /\ threads[p][TidMin + p] = None
                  THEN Crash
                  ELSE /\ threads' = [q \in Pids |-> [t \in Handles |->
                                        Linked(q, t, wait[os], registered)]]
                       /\ tid_to_pid' = [t \in Handles |->
                            IF t \in seen THEN Pid_Of(t) ELSE tid_to_pid[t]]
                       /\ at' = [at EXCEPT ![os] = IF done THEN "stop" ELSE "user"]
                       /\ wait' = [wait EXCEPT ![os] = IF done THEN @ ELSE Idle]
                       /\ UNCHANGED <<ids, process_table, stdtid_to_tid, signals, fault>>
  <2>1. Len(<<h>>) = 1
    OBVIOUS
  <2>2. wait[os].handles = <<h>> /\ wait[os].pid = p /\ wait[os].tid = TidMin + p
    BY <1>3
  <2> HIDE DEF h
  <2> QED  BY <2>1, <2>2 DEF Register_Handles
<1> DEFINE registered == IF m = 1 THEN {h} ELSE {}
<1>5. /\ \A tid \in registered : ~Exited(tid)
      /\ m = 0 => Missing(h) \/ Exited(h)
      /\ threads' = [q \in Pids |-> [t \in Handles |-> Linked(q, t, wait[os], registered)]]
      /\ tid_to_pid' = [t \in Handles |-> IF t = h THEN Pid_Of(t) ELSE tid_to_pid[t]]
      /\ at' = [at EXCEPT ![os] = IF m = 1 THEN "stop" ELSE "user"]
      /\ wait' = [wait EXCEPT ![os] = IF m = 1 THEN @ ELSE Idle]
      /\ UNCHANGED <<pid_table, tid_table, process_table, stdtid_to_tid, sig_shutdown,
                     raised, fault>>
  <2>1. threads[p][TidMin + p] # None
    BY <1>2, ParentFacts DEF Main
  <2>2. CASE m = 1
    <3>1. {<<h>>[i] : i \in 1 .. m} = {h}
      BY <2>2
    <3> HIDE DEF h
    <3> QED  BY <1>4, <2>1, <2>2, <3>1 DEF ids, signals
  <2>3. CASE m = 0
    <3>1. {<<h>>[i] : i \in 1 .. m} = {} /\ <<h>>[m + 1] = h
      BY <2>3
    <3> HIDE DEF h
    <3> QED  BY <1>4, <2>1, <2>3, <3>1 DEF ids, signals
  <2>4. m = 0 \/ m = 1
    OBVIOUS
  <2> HIDE DEF h, registered
  <2> QED  BY <2>2, <2>3, <2>4
<1>6. /\ p \in Nat /\ h \in Handles /\ TidMin + p \in Handles /\ h # TidMin + p
      /\ p + 1 \in Pids /\ p # p + 1 /\ Pid_Of(h) = p + 1 /\ tid_to_pid[h] = p + 1
      /\ h = TidMin + (p + 1)
      /\ Main(p) \in Threads /\ Main(p + 1) \in Threads
      /\ Main(p) # None /\ Main(p + 1) # None
      /\ ~Missing(h) /\ (Exited(h) <=> Over(p + 1)) /\ Runner(p) \in OsThreads
  BY <1>2, ParentFacts
<1>7. (m = 1 /\ registered = {h} /\ ~Over(p + 1)) \/ (m = 0 /\ registered = {} /\ Over(p + 1))
  BY <1>5, <1>6
<1> HIDE DEF h, registered
<1>8. UNCHANGED tid_to_pid
  BY <1>5, <1>6 DEF IInv, TypeOK
<1> DEFINE Waits(q, t) == IF q = p /\ t = TidMin + p
                            THEN threads[q][t].waiting \cup registered
                            ELSE threads[q][t].waiting
           Sleeps(q, t) == IF t \in registered /\ q = p + 1
                             THEN threads[q][t].sleeped \cup {TidMin + p}
                             ELSE threads[q][t].sleeped
<1>9. ASSUME NEW q \in Pids, NEW t \in Handles, threads[q][t] # None
      PROVE  /\ threads'[q][t] =
                  [threads[q][t] EXCEPT !.waiting = Waits(q, t), !.sleeped = Sleeps(q, t)]
             /\ threads[q][t] \in Threads
             /\ Waits(q, t) \in SUBSET Handles /\ Sleeps(q, t) \in SUBSET Handles
  <2>1. threads[q][t] \in Threads
    BY <1>9 DEF IInv, TypeOK
  <2>2. t \in registered => Pid_Of(t) = p + 1
    BY <1>6, <1>7
  <2>3. threads'[q][t] = Linked(q, t, wait[os], registered)
    BY <1>5
  <2>4. wait[os].pid = p /\ wait[os].tid = TidMin + p
    BY <1>3
  <2>5. Linked(q, t, wait[os], registered) =
          [threads[q][t] EXCEPT !.waiting = Waits(q, t), !.sleeped = Sleeps(q, t)]
    BY <1>9, <2>2, <2>4 DEF Linked
  <2>6. /\ threads[q][t].waiting \subseteq Handles /\ threads[q][t].sleeped \subseteq Handles
        /\ registered \subseteq Handles
    BY <1>6, <1>7, <2>1 DEF Threads
  <2>7. Waits(q, t) \in SUBSET Handles /\ Sleeps(q, t) \in SUBSET Handles
    BY <1>6, <2>6
  <2> HIDE DEF Waits, Sleeps
  <2> QED  BY <2>1, <2>3, <2>5, <2>7
<1>10. ASSUME NEW q \in Pids, NEW t \in Handles
       PROVE  threads'[q][t] # None <=> threads[q][t] # None
  <2>1. CASE threads[q][t] = None
    BY <1>5, <2>1 DEF Linked
  <2>2. CASE threads[q][t] # None
    <3> HIDE DEF Waits, Sleeps
    <3>1. [threads[q][t] EXCEPT !.waiting = Waits(q, t), !.sleeped = Sleeps(q, t)] \in Threads
      BY <1>9, <2>2, RegisteredUpdate
    <3> QED  BY <1>9, <2>2, <3>1, NoneFacts
  <2> QED  BY <2>1, <2>2
<1>11. ASSUME NEW q \in Pids, NEW t \in Handles, threads[q][t] # None
       PROVE  /\ threads'[q][t].state = threads[q][t].state
              /\ threads'[q][t].handler = threads[q][t].handler
              /\ threads'[q][t].os = threads[q][t].os
              /\ threads'[q][t].waiting = Waits(q, t)
              /\ threads'[q][t].sleeped = Sleeps(q, t)
  <2> HIDE DEF Waits, Sleeps
  <2>1. threads[q][t] \in Threads
        /\ threads'[q][t] =
              [threads[q][t] EXCEPT !.waiting = Waits(q, t), !.sleeped = Sleeps(q, t)]
    BY <1>9, <1>11
  <2> QED  BY <2>1 DEF Threads
<1>12. ASSUME NEW q \in Pids, NEW t \in Handles
       PROVE  /\ threads'[q][t] # None <=> threads[q][t] # None
              /\ threads[q][t] # None => threads'[q][t].os = threads[q][t].os
              /\ t # TidMin + p /\ t # TidMin + (p + 1) => SameThread(q, t)
  <2>1. ASSUME t # TidMin + p, t # TidMin + (p + 1)
        PROVE  Waits(q, t) = threads[q][t].waiting /\ Sleeps(q, t) = threads[q][t].sleeped
    BY <1>6, <1>7, <2>1
  <2> HIDE DEF Waits, Sleeps
  <2> QED  BY <1>10, <1>11, <2>1 DEF SameThread
<1>13. /\ Main(p).state' = Main(p).state /\ Main(p).sleeped' = Main(p).sleeped
       /\ Main(p).handler' = Main(p).handler
       /\ Main(p).waiting' = registered /\ Runner(p)' = os
  <2>1. threads[p][TidMin + p] = Main(p) /\ threads'[p][TidMin + p] = Main(p)'
    BY DEF Main
  <2>2. /\ Waits(p, TidMin + p) = registered
        /\ Sleeps(p, TidMin + p) = Main(p).sleeped
    BY <1>3, <1>6, <1>7, <2>1
  <2> HIDE DEF Waits, Sleeps
  <2> QED  BY <1>2, <1>6, <1>11, <2>1, <2>2 DEF Runner
<1>14. /\ Main(p + 1).state' = Main(p + 1).state /\ Main(p + 1).waiting' = Main(p + 1).waiting
       /\ Main(p + 1).handler' = Main(p + 1).handler
       /\ Main(p + 1).sleeped' = IF m = 1 THEN {TidMin + p} ELSE {}
  <2>1. threads[p + 1][h] = Main(p + 1) /\ threads'[p + 1][h] = Main(p + 1)'
    BY <1>6 DEF Main
  <2>2. Waits(p + 1, h) = Main(p + 1).waiting
    BY <1>6, <2>1
  <2>3. h \in registered <=> m = 1
    BY <1>7
  <2>4. Sleeps(p + 1, h) = IF m = 1 THEN {TidMin + p} ELSE {}
    <3>1. Main(p + 1).sleeped \cup {TidMin + p} = {TidMin + p}
      BY <1>3
    <3> QED  BY <1>3, <2>1, <2>3, <3>1
  <2> HIDE DEF Waits, Sleeps
  <2> QED  BY <1>6, <1>11, <2>1, <2>2, <2>4
<1> HIDE DEF Waits, Sleeps
<1>15. Over(p + 1)' = Over(p + 1) /\ SameMain(p + 1) /\ Main(p).state' # "Exited"
  BY <1>3, <1>6, <1>13, <1>14 DEF Over, SameMain
<1>16. /\ at'[os] = IF m = 1 THEN "stop" ELSE "user"
       /\ m = 1 => wait'[os] = wait[os]
       /\ \A o \in OsThreads : o # os => at'[o] = at[o] /\ wait'[o] = wait[o]
  BY <1>5 DEF IInv, TypeOK
<1>17. ParentOK(p)'
  <2>1. After(os)' /\ prog'[os].handles = <<TidMin + p + 1>>
    BY <1>3 DEF After, h
  <2>2. CASE m = 1
    <3>1. Asleep(p)' = TRUE
      BY <1>7, <1>13, <1>15, <1>16, <2>2 DEF Asleep
    <3> QED  BY <1>3, <1>7, <1>13, <1>14, <1>16, <2>1, <2>2, <3>1 DEF ParentOK, h
  <2>3. CASE m = 0
    <3>1. Asleep(p)' = FALSE
      BY <1>7, <1>13, <1>15, <1>16, <2>3 DEF Asleep
    <3> QED  BY <1>3, <1>7, <1>13, <1>14, <1>15, <1>16, <2>1, <2>3, <3>1 DEF ParentOK, h
  <2> QED  BY <1>7, <2>2, <2>3
<1>18. Nested(n, k)'
  BY <1>2, <1>5, <1>8, <1>12, <1>13, <1>15, <1>16, <1>17, ParentMoves
<1> QED  BY <1>5, <1>18 DEF SingleIInv

LEMMA ParentStops ==
    ASSUME IInv, ProgIInv, ~fault, NEW n \in Nat, NEW k \in Nat, Nested(n, k),
           NEW os \in OsThreads, Stop(os) \/ Mark(os), UNCHANGED prog
    PROVE  SingleIInv'
<1>1. at[os] \in {"stop", "woken", "spinning", "marking"}
  BY DEF Stop, Mark
<1>2. PICK p \in Pids : p + 1 < n /\ os = Runner(p) /\ ~Over(p) /\ ParentOK(p)
  BY <1>1, ParentAtWork
<1>3. /\ p \in Nat /\ TidMin + p \in Handles /\ TidMin + (p + 1) # TidMin + p
      /\ TidMin + (p + 1) \in Handles
      /\ p + 1 \in Pids /\ Main(p) \in Threads /\ Main(p) # None /\ Runner(p) \in OsThreads
  BY <1>2, ParentFacts
<1>4. /\ wait[os] = [pid |-> p, tid |-> TidMin + p, handles |-> <<TidMin + p + 1>>]
      /\ at[os] \in {"stop", "woken", "marking"} /\ After(os)
      /\ Main(p).state = "Running"
      /\ at[os] = "woken" => Over(p + 1)
      /\ at[os] = "marking" => ~Over(p + 1)
      /\ Main(p).waiting # {} <=> Asleep(p)
      /\ Main(p).waiting = IF Asleep(p) THEN {TidMin + p + 1} ELSE {}
      /\ Main(p + 1).sleeped = IF Asleep(p) THEN {TidMin + p} ELSE {}
      /\ prog[os].handles = <<TidMin + p + 1>>
  BY <1>1, <1>2 DEF ParentOK
<1>5. Asleep(p) <=> ~Over(p + 1)
  BY <1>2, <1>4 DEF Asleep
<1>6. /\ UNCHANGED <<pid_table, tid_table, process_table, tid_to_pid, stdtid_to_tid,
                     sig_shutdown, raised, wait, fault>>
      /\ \/ /\ Main(p).waiting = {}
            /\ at' = [at EXCEPT ![os] = "stopped"]
            /\ UNCHANGED threads
         \/ /\ Main(p).waiting # {} /\ at[os] # "marking"
            /\ at' = [at EXCEPT ![os] = "marking"]
            /\ UNCHANGED threads
         \/ /\ Main(p).waiting # {} /\ at[os] = "marking"
            /\ at' = [at EXCEPT ![os] = "waiting"]
            /\ threads' = [threads EXCEPT ![p][TidMin + p].state = "Blocked"]
  <2>1. wait[os].pid = p /\ wait[os].tid = TidMin + p
    BY <1>4
  <2>2. CASE Stop(os)
    BY <1>3, <1>4, <2>1, <2>2 DEF Stop, Main, ids, signals, maps
  <2>3. CASE Mark(os)
    <3>1. at[os] = "marking" /\ Main(p).waiting # {}
      BY <1>4, <1>5, <2>3 DEF Mark
    <3> QED  BY <2>1, <2>3, <3>1 DEF Mark, ids, signals
  <2> QED  BY <2>2, <2>3
<1> DEFINE to == IF Main(p).waiting = {} THEN "stopped"
                 ELSE IF at[os] = "marking" THEN "waiting" ELSE "marking"
           state == IF to = "waiting" THEN "Blocked" ELSE "Running"
<1>7. /\ at'[os] = to
      /\ \A o \in OsThreads : o # os => at'[o] = at[o]
  BY <1>6 DEF IInv, TypeOK
<1>8. /\ Main(p)' = [Main(p) EXCEPT !.state = state]
      /\ \A q \in Pids, t \in Handles :
            q # p \/ t # TidMin + p => threads'[q][t] = threads[q][t]
  <2>1. CASE Main(p).waiting = {} \/ at[os] # "marking"
    <3>1. [Main(p) EXCEPT !.state = state] = Main(p)
      BY <1>3, <1>4, <2>1 DEF Threads
    <3>2. UNCHANGED threads
      BY <1>6, <2>1
    <3> QED  BY <3>1, <3>2 DEF Main
  <2>2. CASE Main(p).waiting # {} /\ at[os] = "marking"
    <3>1. threads' = [threads EXCEPT ![p][TidMin + p].state = "Blocked"]
      BY <1>6, <2>2
    <3> QED  BY <1>3, <2>2, <3>1 DEF Main, IInv, TypeOK
  <2> QED  BY <2>1, <2>2
<1>9. /\ Main(p)' # None /\ Main(p).state' = state /\ Main(p).waiting' = Main(p).waiting
      /\ Main(p).sleeped' = Main(p).sleeped /\ Main(p).handler' = Main(p).handler
      /\ Main(p).os' = Main(p).os
  <2>1. state \in States
    BY DEF States
  <2> HIDE DEF state
  <2>2. Main(p)' \in Threads
    BY <1>3, <1>8, <2>1, StateUpdate
  <2> QED  BY <1>3, <1>8, <2>2, NoneFacts DEF Threads
<1>10. ASSUME NEW q \in Pids, NEW t \in Handles
       PROVE  /\ threads'[q][t] # None <=> threads[q][t] # None
              /\ threads[q][t] # None => threads'[q][t].os = threads[q][t].os
              /\ t # TidMin + p /\ t # TidMin + (p + 1) => SameThread(q, t)
  <2>1. CASE q = p /\ t = TidMin + p
    BY <1>3, <1>9, <2>1 DEF Main
  <2>2. CASE q # p \/ t # TidMin + p
    BY <1>8, <2>2 DEF SameThread
  <2> QED  BY <2>1, <2>2
<1>11. Main(p + 1)' = Main(p + 1)
  BY <1>3, <1>8 DEF Main
<1>12. SameMain(p + 1) /\ Over(p + 1)' = Over(p + 1) /\ Runner(p)' = os
  BY <1>2, <1>9, <1>11 DEF SameMain, Over, Runner
<1> HIDE DEF to, state
<1>13. ParentOK(p)'
  <2>1. After(os)' /\ prog'[os].handles = <<TidMin + p + 1>> /\ wait'[os] = wait[os]
    BY <1>4, <1>6 DEF After
  <2>2. CASE Over(p + 1)
    <3>1. to = "stopped" /\ state = "Running" /\ ~Asleep(p)
      BY <1>4, <1>5, <2>2 DEF to, state
    <3>2. ~Asleep(p)'
      BY <1>12, <2>2 DEF Asleep
    <3> QED  BY <1>4, <1>7, <1>9, <1>11, <1>12, <2>1, <2>2, <3>1, <3>2 DEF ParentOK
  <2>3. CASE ~Over(p + 1)
    <3>1. /\ to \in {"marking", "waiting"} /\ Asleep(p)
          /\ state = IF to = "waiting" THEN "Blocked" ELSE "Running"
      BY <1>4, <1>5, <2>3 DEF to, state
    <3>2. Asleep(p)'
      BY <1>7, <1>12, <2>3, <3>1 DEF Asleep
    <3> QED  BY <1>4, <1>7, <1>9, <1>11, <1>12, <2>1, <2>3, <3>1, <3>2 DEF ParentOK
  <2> QED  BY <2>2, <2>3
<1>14. at'[Runner(p)] # "none" /\ Main(p).state' # "Exited"
  BY <1>2, <1>7, <1>9 DEF to, state
<1>15. Nested(n, k)'
  BY <1>2, <1>6, <1>7, <1>9, <1>10, <1>12, <1>13, <1>14, ParentMoves
<1> QED  BY <1>6, <1>15 DEF SingleIInv

LEMMA ParentReturns ==
    ASSUME IInv, ProgIInv, ~fault, NEW n \in Nat, NEW k \in Nat, Nested(n, k),
           NEW os \in OsThreads, Wait_For_Return(os), UNCHANGED prog
    PROVE  SingleIInv'
<1>1. at[os] = "stopped"
  BY DEF Wait_For_Return
<1>2. PICK p \in Pids : p + 1 < n /\ os = Runner(p) /\ ~Over(p) /\ ParentOK(p)
  BY <1>1, ParentAtWork
<1>3. /\ at' = [at EXCEPT ![os] = "user"] /\ wait' = [wait EXCEPT ![os] = Idle]
      /\ UNCHANGED <<pid_table, tid_table, process_table, threads, tid_to_pid,
                     stdtid_to_tid, sig_shutdown, raised, fault>>
  BY DEF Wait_For_Return, ids, maps, signals
<1>4. /\ at'[os] = "user"
      /\ \A o \in OsThreads : o # os => at'[o] = at[o] /\ wait'[o] = wait[o]
  BY <1>3 DEF IInv, TypeOK
<1>5. /\ Main(p)' = Main(p) /\ Main(p + 1)' = Main(p + 1) /\ Runner(p)' = os
  BY <1>2, <1>3 DEF Main, Runner
<1>6. SameMain(p + 1) /\ Over(p + 1)' = Over(p + 1) /\ Main(p).state' # "Exited"
  BY <1>2, <1>5 DEF SameMain, Over
<1>7. /\ Over(p + 1) /\ After(os) /\ prog[os].handles = <<TidMin + p + 1>>
      /\ Main(p).state = "Running" /\ Main(p).waiting = {} /\ Main(p + 1).sleeped = {}
  BY <1>1, <1>2 DEF ParentOK, Asleep
<1>8. After(os)' /\ ~Asleep(p)'
  BY <1>4, <1>5, <1>6, <1>7 DEF After, Asleep
<1>9. ParentOK(p)'
  BY <1>4, <1>5, <1>6, <1>7, <1>8 DEF ParentOK
<1>10. Nested(n, k)'
  BY <1>2, <1>3, <1>4, <1>5, <1>6, <1>9, SameThreads, ParentMoves
<1> QED  BY <1>3, <1>10 DEF SingleIInv

-----------------------------------------------------------------------------
(* The topmost process starts another one, which becomes the topmost.      *)

(* What Create_Process does to the maps.                                   *)
LEMMA NewProcess ==
    ASSUME Orderly, IInv, NEW n \in Nat, n > 0, Nested(n, n),
           NEW p \in Pids, p + 1 = n, at[Runner(p)] = "user", ~sig_shutdown,
           NEW name \in Programs, NEW handle \in Handles, NEW new \in OsThreads,
           Available(new), Create_Process(Runner(p), name, new, handle)
    PROVE  /\ handle = TidMin + n /\ handle \in Handles /\ n \in Pids
           /\ n + 1 \in 0 .. PidCount /\ n + 1 \in 0 .. TidCount
           /\ at[new] = "none" /\ stdtid_to_tid[new] = None /\ new # Boot
           /\ pid_table'.used = {q \in Pid!Ids : q < n + 1}
           /\ pid_table'.free \in Pid!Ids /\ pid_table'.free <= n + 1
           /\ tid_table'.used = {t \in Tid!Ids : t < TidMin + (n + 1)}
           /\ tid_table'.free \in Tid!Ids /\ tid_table'.free <= TidMin + (n + 1)
           /\ process_table' = [process_table EXCEPT ![n] =
                 [name |-> name, process_tid |-> TidMin + n, state |-> "Running"]]
           /\ threads' = [threads EXCEPT ![n][TidMin + n] = New_Thread(new)]
           /\ tid_to_pid' = [tid_to_pid EXCEPT ![TidMin + n] = n]
           /\ stdtid_to_tid' = [stdtid_to_tid EXCEPT ![new] = TidMin + n]
           /\ at' = [at EXCEPT ![new] = "user"]
           /\ UNCHANGED <<sig_shutdown, raised, wait, fault>>
<1>0. p \in Nat /\ p < n /\ TidMin \in Nat /\ 0 \in Pids
  <2>1. p \in Nat /\ 0 \in Pids
    BY IdFacts
  <2> QED  BY <2>1, Bounds DEF Nested
<1>1. /\ process_table[p] # None /\ tid_to_pid[TidMin + p] = p /\ p # None
      /\ Get_TID(Runner(p)) = TidMin + p /\ Looked_Up(Runner(p)) = stdtid_to_tid
  BY <1>0, MainFacts, NoneFacts
<1>2. Caller_Has_Process(Runner(p))
  BY <1>1 DEF Caller_Has_Process
<1>3. /\ at[new] = "none" /\ Tid!Is_Next_Free(tid_table, handle)
      /\ tid_table' = Tid!Get_Free(tid_table, handle)
      /\ stdtid_to_tid' = Insert(stdtid_to_tid, new, handle)
      /\ at' = [at EXCEPT ![new] = "user"]
      /\ UNCHANGED <<sig_shutdown, raised, wait, fault>>
  BY <1>1, <1>2 DEF Create_Process, signals
<1>4. PICK pid \in Pids :
        /\ Pid!Is_Next_Free(pid_table, pid)
        /\ pid_table' = Pid!Get_Free(pid_table, pid)
        /\ process_table' = Insert(process_table, pid,
              [name |-> name, process_tid |-> handle, state |-> "Running"])
        /\ threads' = IF process_table[pid] = None
                        THEN [threads EXCEPT ![pid][handle] = New_Thread(new)]
                        ELSE threads
        /\ tid_to_pid' = Insert(tid_to_pid, handle, pid)
  BY <1>2 DEF Create_Process
<1>5. stdtid_to_tid[new] = None
  BY DEF Available, Unlisted, Orderly
<1>6. new # Boot
  <2>1. Runner(0) = Boot
    BY <1>0 DEF Nested, ProcessOK
  <2>2. stdtid_to_tid[Runner(0)] = TidMin + 0 /\ TidMin + 0 \in Handles
    BY <1>0, MainFacts
  <2> QED  BY <1>5, <2>1, <2>2, NoneFacts
<1>7. n < TidCount /\ n < PidCount
  BY <1>5, Room
<1>8. /\ handle = TidMin + n
      /\ tid_table'.used = {t \in Tid!Ids : t < TidMin + n + 1}
      /\ tid_table'.free \in Tid!Ids /\ tid_table'.free <= TidMin + n + 1
  BY <1>3, <1>7, TidNext DEF Nested, IdsStacked
<1>9. /\ pid = n
      /\ pid_table'.used = {q \in Pid!Ids : q < n + 1}
      /\ pid_table'.free \in Pid!Ids /\ pid_table'.free <= n + 1
  BY <1>4, <1>7, PidNext DEF Nested, IdsStacked
<1>10. TidMin + n + 1 = TidMin + (n + 1) /\ n + 1 \in 0 .. PidCount /\ n + 1 \in 0 .. TidCount
  BY <1>0, <1>7, ControllerAssumption
<1>11. process_table[n] = None
  BY <1>4, <1>9 DEF Nested, Stacked
<1>12. tid_to_pid[TidMin + n] = None
  <2>1. ASSUME tid_to_pid[TidMin + n] # None
        PROVE  FALSE
    <3>1. PICK q \in Pids : tid_to_pid[TidMin + n] = q
      BY <1>8, <2>1 DEF IInv, TypeOK
    <3>2. ThreadAt(n, n, q, TidMin + n)
      BY <1>8, <3>1 DEF Nested, Stacked
    <3>3. q \in Nat
      BY IdFacts
    <3> QED  BY <1>0, <3>2, <3>3 DEF ThreadAt
  <2> QED  BY <2>1
<1>13. /\ process_table' = [process_table EXCEPT ![n] =
             [name |-> name, process_tid |-> TidMin + n, state |-> "Running"]]
       /\ threads' = [threads EXCEPT ![n][TidMin + n] = New_Thread(new)]
       /\ tid_to_pid' = [tid_to_pid EXCEPT ![TidMin + n] = n]
  BY <1>4, <1>8, <1>9, <1>11, <1>12 DEF Insert
<1>14. stdtid_to_tid' = [stdtid_to_tid EXCEPT ![new] = TidMin + n]
  BY <1>3, <1>5, <1>8 DEF Insert
<1>15. tid_table'.used = {t \in Tid!Ids : t < TidMin + (n + 1)}
       /\ tid_table'.free <= TidMin + (n + 1)
  BY <1>8, <1>10
<1>16. n \in Pids
  BY <1>9
<1> QED  BY <1>3, <1>5, <1>6, <1>8, <1>9, <1>10, <1>13, <1>14, <1>15, <1>16

LEMMA LeafLaunches ==
    ASSUME Orderly, IInv, ProgIInv, ~fault, NEW n \in Nat, Nested(n, n),
           NEW p \in Pids, p + 1 = n, ~Over(p), LeafOK(n, n, p), ~sig_shutdown,
           NEW name \in Programs, p = 0 => name = "shell", name = "shutdown" => p = 1,
           NEW pc, NEW todo, NEW handle \in Handles, NEW new \in OsThreads, Available(new),
           Create_Process(Runner(p), name, new, handle),
           prog[Runner(p)].handles = <<>>,
           \/ prog[Runner(p)].name = "kernel" /\ pc = "wait"
           \/ prog[Runner(p)].name = "shell" /\ pc = "create" /\ todo = <<>>,
           p = 1 => prog[Runner(p)].pc # "start",
           prog' = [prog EXCEPT ![Runner(p)] = Caller(Runner(p), pc, todo, handle),
                                ![new] = Started(name)]
    PROVE  SingleIInv'
<1> DEFINE os == Runner(p)
           m == n + 1
           caller == Caller(os, pc, todo, handle)
<1>0. /\ p \in Nat /\ p < n /\ n > 0 /\ TidMin \in Nat /\ n \in Nat /\ 0 \in Pids
      /\ at[os] = "user" /\ Main(p).state = "Running" /\ Main(p).waiting = {}
  <2>1. p \in Nat /\ p < n /\ 0 \in Pids /\ n > 0
    BY IdFacts
  <2> QED  BY <2>1, Bounds DEF Nested, LeafOK
<1>1. /\ handle = TidMin + n /\ TidMin + n \in Handles /\ n \in Pids
      /\ n + 1 \in 0 .. PidCount /\ n + 1 \in 0 .. TidCount
      /\ at[new] = "none" /\ stdtid_to_tid[new] = None /\ new # Boot
      /\ pid_table'.used = {q \in Pid!Ids : q < n + 1}
      /\ pid_table'.free \in Pid!Ids /\ pid_table'.free <= n + 1
      /\ tid_table'.used = {t \in Tid!Ids : t < TidMin + (n + 1)}
      /\ tid_table'.free \in Tid!Ids /\ tid_table'.free <= TidMin + (n + 1)
      /\ process_table' = [process_table EXCEPT ![n] =
            [name |-> name, process_tid |-> TidMin + n, state |-> "Running"]]
      /\ threads' = [threads EXCEPT ![n][TidMin + n] = New_Thread(new)]
      /\ tid_to_pid' = [tid_to_pid EXCEPT ![TidMin + n] = n]
      /\ stdtid_to_tid' = [stdtid_to_tid EXCEPT ![new] = TidMin + n]
      /\ at' = [at EXCEPT ![new] = "user"]
      /\ UNCHANGED <<sig_shutdown, raised, wait, fault>>
  BY <1>0, NewProcess
<1>2. IdsStacked(m, m)'
  BY <1>0, <1>1 DEF IdsStacked
<1>22. ASSUME NEW q \in Pids
       PROVE  (q + 1 = n => q = p) /\ (q < n /\ q # p => q + 1 < n)
  <2>1. q \in Nat
    BY IdFacts
  <2> QED  BY <1>0, <2>1
<1>3. ASSUME NEW q \in Pids
      PROVE  /\ q \in Nat
             /\ process_table'[q] = IF q = n THEN [name |-> name, process_tid |-> TidMin + n,
                                                   state |-> "Running"]
                                             ELSE process_table[q]
             /\ \A t \in Handles :
                  /\ threads'[q][t] = IF q = n /\ t = TidMin + n THEN New_Thread(new)
                                                                ELSE threads[q][t]
                  /\ tid_to_pid'[t] = IF t = TidMin + n THEN n ELSE tid_to_pid[t]
  BY <1>1, IdFacts DEF IInv, TypeOK
<1>4. ASSUME NEW o \in OsThreads
      PROVE  /\ stdtid_to_tid'[o] = IF o = new THEN TidMin + n ELSE stdtid_to_tid[o]
             /\ at'[o] = IF o = new THEN "user" ELSE at[o]
  BY <1>1 DEF IInv, TypeOK
<1>5. /\ New_Thread(new).os = new /\ New_Thread(new).state = "Running"
      /\ New_Thread(new).waiting = {} /\ New_Thread(new).sleeped = {}
      /\ New_Thread(new).handler = None /\ New_Thread(new) # None
  BY NoneFacts DEF New_Thread
<1>6. ASSUME NEW q \in Pids, NEW t \in Handles
      PROVE  ThreadAt(m, m, q, t) <=> ThreadAt(n, n, q, t) \/ (q = n /\ t = TidMin + n)
  <2>1. q \in Nat /\ m # m + 1 /\ n # n + 1 /\ (q < m <=> q < n \/ q = n)
    BY <1>0, <1>3
  <2> QED  BY <2>1 DEF ThreadAt
<1>7. Stacked(m, m)'
  <2>1. ASSUME NEW q \in Pids
        PROVE  /\ process_table'[q] # None <=> q < m
               /\ q < m => process_table'[q].process_tid = TidMin + q
    <3>1. CASE q = n
      <4>1. [name |-> name, process_tid |-> TidMin + n, state |-> "Running"] \in Processes
        BY <1>1 DEF Processes, States
      <4>2. process_table'[q] # None
        BY <1>3, <3>1, <4>1, NoneFacts
      <4> QED  BY <1>0, <1>3, <3>1, <4>2
    <3>2. CASE q # n
      <4>1. q < m <=> q < n
        BY <1>0, <1>3, <3>2
      <4> QED  BY <1>3, <3>2, <4>1 DEF Nested, Stacked
    <3> QED  BY <3>1, <3>2
  <2>2. ASSUME NEW q \in Pids, NEW t \in Handles
        PROVE  /\ threads'[q][t] # None <=> ThreadAt(m, m, q, t)
               /\ tid_to_pid'[t] = q <=> ThreadAt(m, m, q, t)
    <3>1. /\ threads[q][t] # None <=> ThreadAt(n, n, q, t)
          /\ tid_to_pid[t] = q <=> ThreadAt(n, n, q, t)
      BY DEF Nested, Stacked
    <3>2. t = TidMin + n => ~ThreadAt(n, n, q, t)
      <4>1. q \in Nat /\ n # n + 1
        BY <1>0, <1>3
      <4> QED  BY <1>0, <4>1 DEF ThreadAt
    <3> HIDE DEF m
    <3> QED  BY <1>3, <1>5, <1>6, <3>1, <3>2
  <2>3. ThreadAt(m, m, 0, 0)' = ThreadAt(m, m, 0, 0)
    BY DEF ThreadAt
  <2> QED  BY <2>1, <2>2 DEF Stacked, ThreadAt
<1>8. Listed(m, m)'
  <2>1. ASSUME NEW q \in Pids, NEW t \in Handles, ThreadAt(m, m, q, t)
        PROVE  stdtid_to_tid'[threads'[q][t].os] = t
    <3>1. CASE q = n /\ t = TidMin + n
      BY <1>3, <1>4, <1>5, <3>1
    <3>2. CASE ~(q = n /\ t = TidMin + n)
      <4>1. ThreadAt(n, n, q, t)
        BY <1>6, <2>1, <3>2
      <4>2. stdtid_to_tid[threads[q][t].os] = t /\ threads[q][t] # None
        BY <4>1 DEF Nested, Listed, Stacked
      <4>3. threads[q][t].os \in OsThreads /\ threads[q][t].os # new
        <5>1. threads[q][t] \in Threads
          BY <4>2 DEF IInv, TypeOK
        <5> QED  BY <1>1, <4>2, <5>1, NoneFacts DEF Threads
      <4> QED  BY <1>3, <1>4, <3>2, <4>2, <4>3
    <3> QED  BY <3>1, <3>2
  <2>2. ASSUME NEW o \in OsThreads
        PROVE  \/ stdtid_to_tid'[o] \in {None, 0}
               \/ \E q \in Pids : /\ ThreadAt(m, m, q, stdtid_to_tid'[o])
                                  /\ threads'[q][stdtid_to_tid'[o]].os = o
    <3>1. CASE o = new
      <4>1. stdtid_to_tid'[o] = TidMin + n /\ ThreadAt(m, m, n, TidMin + n)
        BY <1>1, <1>4, <1>6, <3>1
      <4>2. threads'[n][TidMin + n].os = o
        BY <1>1, <1>3, <1>5, <3>1
      <4> HIDE DEF m
      <4> QED  BY <1>1, <4>1, <4>2
    <3>2. CASE o # new /\ stdtid_to_tid[o] \in {None, 0}
      BY <1>4, <3>2
    <3>3. CASE o # new /\ stdtid_to_tid[o] \notin {None, 0}
      <4>1. PICK q \in Pids : /\ ThreadAt(n, n, q, stdtid_to_tid[o])
                              /\ threads[q][stdtid_to_tid[o]].os = o
        BY <3>3 DEF Nested, Listed
      <4>2. stdtid_to_tid[o] \in Handles /\ stdtid_to_tid'[o] = stdtid_to_tid[o]
        BY <1>4, <3>3 DEF IInv, TypeOK
      <4>3. ThreadAt(m, m, q, stdtid_to_tid[o])
        BY <1>6, <4>1, <4>2
      <4>4. ~(q = n /\ stdtid_to_tid[o] = TidMin + n)
        BY <1>0, <4>1 DEF ThreadAt
      <4> HIDE DEF m
      <4> QED  BY <1>3, <4>1, <4>2, <4>3, <4>4
    <3> QED  BY <3>1, <3>2, <3>3
  <2> HIDE DEF m
  <2> QED  BY <2>1, <2>2 DEF Listed, ThreadAt
<1>9. /\ caller.name = prog[os].name /\ caller.pc = pc /\ caller.todo = todo
      /\ caller.handles = <<TidMin + n>>
  <2>1. prog[os] \in Frames
    <3>1. os \in OsThreads
      BY <1>0, MainFacts
    <3> QED  BY <3>1 DEF ProgIInv, ProgTypes
  <2>2. Append(<<>>, handle) = <<handle>>
    OBVIOUS
  <2> QED  BY <1>1, <2>1, <2>2 DEF Caller, Frames
<1>10. Started(name).name = name /\ Started(name).pc = "start" /\ Started(name).handles = <<>>
  BY DEF Started
<1>11. os \in OsThreads /\ os # new /\ stdtid_to_tid[os] \notin {None, 0}
  BY <1>0, <1>1, MainFacts, NoneFacts
<1> HIDE DEF caller, os
<1>12. /\ prog'[os] = caller /\ prog'[new] = Started(name)
       /\ \A o \in OsThreads : o # os /\ o # new => prog'[o] = prog[o]
  BY <1>11 DEF os, caller, ProgIInv, ProgTypes
<1>13. ASSUME NEW q \in Pids, q < n
       PROVE  /\ q # n /\ Main(q)' = Main(q) /\ Runner(q)' = Runner(q) /\ Over(q)' = Over(q)
              /\ ~Over(q) /\ process_table'[q] = process_table[q]
              /\ Runner(q) \in OsThreads /\ Runner(q) # new
              /\ at'[Runner(q)] = at[Runner(q)] /\ wait'[Runner(q)] = wait[Runner(q)]
              /\ q # p => Runner(q) # os /\ prog'[Runner(q)] = prog[Runner(q)]
  <2>1. q # n /\ TidMin + q \in Handles /\ Runner(q) \in OsThreads
        /\ stdtid_to_tid[Runner(q)] = TidMin + q
    BY <1>0, <1>3, <1>13, MainFacts
  <2>2. Main(q)' = Main(q)
    BY <1>3, <2>1 DEF Main
  <2>3. ~Over(q)
    <3>1. q + 1 = n => q = p
      BY <1>22
    <3> QED  BY <1>13, <3>1 DEF Nested, ProcessOK
  <2>4. Runner(q) # new
    BY <1>1, <2>1, NoneFacts
  <2>5. q # p => Runner(q) # os
    BY <1>0, <1>13, RunnersDiffer DEF os
  <2>6. Runner(q)' = Runner(q) /\ Over(q)' = Over(q)
    BY <2>2 DEF Runner, Over
  <2>7. process_table'[q] = process_table[q]
    BY <1>3, <2>1
  <2>8. /\ at'[Runner(q)] = at[Runner(q)] /\ wait'[Runner(q)] = wait[Runner(q)]
        /\ q # p => prog'[Runner(q)] = prog[Runner(q)]
    BY <1>1, <1>4, <1>12, <2>1, <2>4, <2>5
  <2> QED  BY <2>1, <2>2, <2>3, <2>4, <2>5, <2>6, <2>7, <2>8
<1>14. /\ Main(n)' = New_Thread(new) /\ Runner(n)' = new /\ ~Over(n)'
       /\ at'[new] = "user" /\ n # 0
  <2>1. Main(n)' = New_Thread(new)
    BY <1>0, <1>1, <1>3 DEF Main
  <2>2. Runner(n)' = new /\ ~Over(n)'
    BY <1>5, <2>1 DEF Runner, Over
  <2>3. at'[new] = "user" /\ n # 0
    BY <1>0, <1>1, <1>4
  <2> QED  BY <2>1, <2>2, <2>3
<1>15. ProcessOK(m, n)' /\ LeafOK(m, m, n)'
  <2>1. /\ process_table'[n].name = name /\ process_table'[n].state = "Running"
        /\ prog'[Runner(n)'] = Started(name)
    BY <1>1, <1>3, <1>12, <1>14
  <2>2. name \in IF n = 1 THEN {"shell"} ELSE Programs
    BY <1>0
  <2>3. name = "shutdown" => n = 2
    BY <1>0
  <2>4. None # "sig_terminate" /\ "start" \in PlacesOf(name)
    <3>1. None # "sig_terminate"
      BY NoneFacts, SessionAssumption
    <3>2. name \in {"shell", "md", "rgen", "shutdown"}
      BY SessionAssumption
    <3> QED  BY <3>1, <3>2 DEF PlacesOf
  <2>5. ProcessOK(m, n)'
    BY <1>5, <1>10, <1>14, <2>1, <2>2, <2>3, <2>4 DEF ProcessOK
  <2>6. LeafFrame(m, m, n, Started(name))
    <3>1. name # "kernel"
      BY SessionAssumption
    <3> QED  BY <1>10, <2>4, <3>1 DEF LeafFrame
  <2> HIDE DEF m
  <2> QED  BY <1>5, <1>14, <2>1, <2>5, <2>6 DEF LeafOK
<1>16. ParentOK(p)' /\ ProcessOK(m, p)'
  <2>1. Runner(p)' = os /\ prog'[os] = caller /\ at'[os] = "user" /\ Main(p)' = Main(p)
        /\ process_table'[p] = process_table[p]
    BY <1>0, <1>12, <1>13 DEF os
  <2>2. TidMin + n = TidMin + p + 1 /\ n = p + 1
    BY <1>0
  <2>3. Before(os)'
    BY <1>9, <2>1 DEF Before, os
  <2>4. ~Asleep(p)'
    BY <2>1 DEF Asleep
  <2>5. Main(p + 1)' = New_Thread(new)
    BY <1>14, <2>2
  <2>10. /\ Main(p).state' = "Running" /\ Main(p).waiting' = {}
         /\ Main(p + 1).sleeped' = {} /\ prog'[os].handles = <<TidMin + p + 1>>
    BY <1>0, <1>5, <1>9, <2>1, <2>2, <2>5
  <2>6. ParentOK(p)'
    BY <2>1, <2>3, <2>4, <2>10 DEF ParentOK, os
  <2>7. ProcessOK(n, p) /\ ~Over(p)
    BY <1>0 DEF Nested
  <2>8. ~Over(p)'
    BY <1>0, <1>13
  <2>9. ProcessOK(m, p)'
    BY <1>9, <2>1, <2>7, <2>8 DEF ProcessOK, os
  <2> QED  BY <2>6, <2>9
<1>17. ASSUME NEW q \in Pids, q < n, q # p
       PROVE  ParentOK(q)' /\ ProcessOK(m, q)'
  <2>1. q \in Nat /\ q + 1 < n /\ q + 1 \in Pids
    <3>1. q \in Nat
      BY IdFacts
    <3>2. q + 1 < n /\ q + 1 \in Nat
      BY <1>17, <1>22, <3>1
    <3> QED  BY <3>1, <3>2, Bounds DEF Nested
  <2>2. Main(q + 1)' = Main(q + 1) /\ Over(q + 1)' = Over(q + 1)
    BY <1>13, <2>1
  <2>3. SameMain(q) /\ Main(q)' = Main(q)
    BY <1>13, <1>17 DEF SameMain
  <2>4. ParentOK(q) /\ ProcessOK(n, q)
    BY <1>17, <2>1 DEF Nested
  <2>5. ParentOK(q)'
    BY <1>13, <1>17, <2>2, <2>3, <2>4, Untouched
  <2>6. ProcessOK(m, q)'
    BY <1>13, <1>17, <2>3, <2>4 DEF ProcessOK
  <2> QED  BY <2>5, <2>6
<1>18. OthersOK(m)'
  <2>1. OthersOK(n)
    BY DEF Nested
  <2>2. ASSUME NEW o \in OsThreads, at'[o] = "none"
        PROVE  prog'[o] = Nothing
    BY <1>0, <1>4, <1>12, <2>1, <2>2 DEF OthersOK, os
  <2>3. ASSUME NEW o \in OsThreads \ {Boot}, stdtid_to_tid'[o] \in {None, 0}
        PROVE  Stray(o)'
    <3>1. TidMin + n \notin {None, 0}
      BY <1>0, <1>1, NoneFacts
    <3>2. o # new /\ o # os /\ stdtid_to_tid[o] \in {None, 0}
      BY <1>4, <1>11, <2>3, <3>1
    <3>3. at'[o] = at[o] /\ prog'[o] = prog[o]
      BY <1>4, <1>12, <3>2
    <3>4. Stray(o)
      BY <2>1, <2>3, <3>2 DEF OthersOK
    <3> QED  BY <3>3, <3>4 DEF Stray
  <2>4. m # 0
    BY <1>0
  <2> HIDE DEF m
  <2> QED  BY <2>2, <2>3, <2>4 DEF OthersOK
<1>19. SignalsOK(m)'
  <2>1. "sig_terminate" \notin raised' /\ ~sig_shutdown'
    BY <1>1 DEF Nested, SignalsOK
  <2>2. ASSUME m > 1, prog'[Runner(1)'].pc # "start"
        PROVE  Main(1).handler' = "sig_shutdown"
    <3>1. n # 1
      BY <1>10, <1>12, <1>14, <2>2
    <3>2. n > 1 /\ 1 \in Pids /\ 1 < n
      BY <1>0, <3>1, Bounds DEF Nested
    <3>3. Main(1)' = Main(1) /\ Runner(1)' = Runner(1)
      BY <1>13, <3>2
    <3>4. p # 1 => prog'[Runner(1)] = prog[Runner(1)]
      BY <1>13, <3>2
    <3> QED  BY <2>2, <3>2, <3>3, <3>4 DEF Nested, SignalsOK
  <2> HIDE DEF m
  <2> QED  BY <2>1, <2>2 DEF SignalsOK
<1>20. Nested(m, m)'
  <2>1. ASSUME NEW q \in Pids
        PROVE  /\ q < m => ProcessOK(m, q)'
               /\ q + 1 = m => LeafOK(m, m, q)'
               /\ q + 1 < m => ParentOK(q)'
    <3>1. q < m <=> q < n \/ q = n
      BY <1>0, <1>3
    <3>2. (q + 1 = m <=> q = n) /\ (q + 1 < m <=> q < n)
      BY <1>0, <1>3
    <3> QED  BY <1>15, <1>16, <1>17, <3>1, <3>2
  <2>2. m # m + 1
    BY <1>0
  <2> HIDE DEF m
  <2> QED  BY <1>2, <1>7, <1>8, <1>18, <1>19, <2>1, <2>2 DEF Nested
<1>21. m \in Nat
  OBVIOUS
<1> HIDE DEF m
<1> QED  BY <1>1, <1>20, <1>21 DEF SingleIInv

(* The helper of rgen belongs to no other program.                         *)
LEMMA NoHelper ==
    ASSUME IInv, NEW n \in Nat, NEW k \in Nat, Nested(n, k), NEW p \in Pids, p + 1 = n,
           process_table[p].name # "rgen"
    PROVE  k = n
<1>1. p \in Nat
  BY IdFacts
<1>2. k = n \/ k = n + 1
  BY Bounds DEF Nested
<1>3. ASSUME k = n + 1
      PROVE  FALSE
  <2>1. process_table[n - 1].name = "rgen"
    BY <1>3 DEF Nested, HelperOK
  <2>2. n - 1 = p
    BY <1>1
  <2> QED  BY <2>1, <2>2
<1> QED  BY <1>2, <1>3

LEMMA KernelClones ==
    ASSUME Orderly, IInv, ProgIInv, ~fault, NEW n \in Nat, NEW k \in Nat, Nested(n, k),
           Shell_Clone
    PROVE  SingleIInv'
<1>1. Boot \in OsThreads /\ "shell" \in Programs
  BY ControllerAssumption
<1>2. /\ at[Boot] = "user" /\ prog[Boot].name = "kernel" /\ prog[Boot].pc = "start"
      /\ Launch_Process(Boot, "shell", "wait", <<>>)
  BY DEF Shell_Clone, In, Calling
<1>3. PICK p \in Pids : p + 1 = n /\ Boot = Runner(p) /\ ~Over(p) /\ LeafOK(n, k, p)
                        /\ process_table[p].name = "kernel"
  BY <1>1, <1>2, LeafAtWork DEF Before, After
<1>4. p \in Nat /\ p < n
  BY <1>3, IdFacts
<1>5. p = 0
  <2>1. "kernel" \notin Programs
    BY SessionAssumption
  <2> QED  BY <1>3, <1>4, <2>1 DEF Nested, ProcessOK
<1>6. ~sig_shutdown
  BY <1>2, <1>3, <1>5, ShuttingDown
<1>7. k = n
  BY <1>3, NoHelper
<1>8. PICK handle \in Handles :
         \/ Create_Refused(Boot, handle)
         \/ \E new \in OsThreads :
               /\ Available(new) /\ Create_Process(Boot, "shell", new, handle)
               /\ prog' = [prog EXCEPT ![Boot] = Caller(Boot, "wait", <<>>, handle),
                                       ![new] = Started("shell")]
  BY <1>2 DEF Launch_Process, Launch, Caller
<1>9. PICK new \in OsThreads :
         /\ Available(new) /\ Create_Process(Boot, "shell", new, handle)
         /\ prog' = [prog EXCEPT ![Boot] = Caller(Boot, "wait", <<>>, handle),
                                 ![new] = Started("shell")]
  BY <1>6, <1>8 DEF Create_Refused
<1>10. prog[Boot].handles = <<>>
  BY <1>2, <1>3 DEF LeafOK, LeafFrame
<1>11. Nested(n, n) /\ LeafOK(n, n, p)
  BY <1>3, <1>7
<1>12. /\ Create_Process(Runner(p), "shell", new, handle)
       /\ prog' = [prog EXCEPT ![Runner(p)] = Caller(Runner(p), "wait", <<>>, handle),
                               ![new] = Started("shell")]
       /\ prog[Runner(p)].handles = <<>> /\ prog[Runner(p)].name = "kernel"
  BY <1>2, <1>3, <1>9, <1>10
<1>13. ~(p = 1)
  BY <1>5
<1> QED  BY <1>1, <1>3, <1>6, <1>9, <1>11, <1>12, <1>13, LeafLaunches

LEMMA OneWord ==
    ASSUME NEW todo \in Seq(Words), Len(todo) = 1
    PROVE  Tail(todo) = <<>> /\ Head(todo) = todo[1] /\ Head(todo) \in Words
<1>1. Len(Tail(todo)) = 0 /\ Tail(todo) \in Seq(Words)
  BY HeadTailProperties
<1>2. Head(todo) = todo[1] /\ todo[1] \in Words
  OBVIOUS
<1> QED  BY <1>1, <1>2, EmptySeq

LEMMA ShellCreates ==
    ASSUME Orderly, IInv, ProgIInv, ~fault, NEW n \in Nat, NEW k \in Nat, Nested(n, k),
           NEW os \in OsThreads, Create_Command(os)
    PROVE  SingleIInv'
<1> DEFINE name == Head(prog[os].todo)
<1>1. /\ at[os] = "user" /\ prog[os].name = "shell" /\ prog[os].pc = "create"
      /\ prog[os].todo # <<>> /\ name # "cd"
      /\ Launch_Process(os, name, "create", Tail(prog[os].todo))
  BY DEF Create_Command, In, Calling
<1>2. PICK p \in Pids : p + 1 = n /\ os = Runner(p) /\ ~Over(p) /\ LeafOK(n, k, p)
                        /\ process_table[p].name = "shell"
  BY <1>1, LeafAtWork DEF Before, After
<1>3. p \in Nat /\ p < n
  BY <1>2, IdFacts
<1>4. p # 0
  BY <1>2, <1>3 DEF Nested, ProcessOK
<1>5. ~sig_shutdown
  BY <1>1, <1>2, <1>4, ShuttingDown
<1>6. k = n
  BY <1>2, NoHelper
<1>7. prog[os].handles = <<>> /\ Len(prog[os].todo) = 1
      /\ (prog[os].todo[1] = "shutdown" => p = 1)
  BY <1>1, <1>2 DEF LeafOK, LeafFrame
<1>8. Tail(prog[os].todo) = <<>> /\ name = prog[os].todo[1] /\ name \in Programs
  <2>1. prog[os].todo \in Seq(Words)
    BY DEF ProgIInv, ProgTypes, Frames
  <2>2. PICK todo \in Seq(Words) : todo = prog[os].todo
    BY <2>1
  <2>3. Tail(todo) = <<>> /\ Head(todo) = todo[1] /\ Head(todo) \in Words
    BY <1>7, <2>2, OneWord
  <2> QED  BY <1>1, <2>2, <2>3 DEF Words
<1> HIDE DEF name
<1>9. PICK handle \in Handles :
         \/ Create_Refused(os, handle)
         \/ \E new \in OsThreads :
               /\ Available(new) /\ Create_Process(os, name, new, handle)
               /\ prog' = [prog EXCEPT ![os] = Caller(os, "create", <<>>, handle),
                                       ![new] = Started(name)]
  BY <1>1, <1>8 DEF Launch_Process, Launch, Caller
<1>10. PICK new \in OsThreads :
          /\ Available(new) /\ Create_Process(os, name, new, handle)
          /\ prog' = [prog EXCEPT ![os] = Caller(os, "create", <<>>, handle),
                                  ![new] = Started(name)]
  BY <1>5, <1>9 DEF Create_Refused
<1>11. name = "shutdown" => p = 1
  BY <1>7, <1>8
<1> QED  BY <1>1, <1>2, <1>4, <1>5, <1>6, <1>7, <1>8, <1>10, <1>11, LeafLaunches

(* What Create_Thread does to the maps.                                    *)
LEMMA NewHelper ==
    ASSUME Orderly, IInv, NEW n \in Nat, n > 0, Nested(n, n),
           NEW p \in Pids, p + 1 = n, NEW handle \in Handles, NEW new \in OsThreads,
           Available(new), Create_Thread(Runner(p), new, handle)
    PROVE  /\ handle = TidMin + n /\ handle \in Handles
           /\ n + 1 \in 0 .. TidCount
           /\ at[new] = "none" /\ stdtid_to_tid[new] = None /\ new # Boot
           /\ tid_table'.used = {t \in Tid!Ids : t < TidMin + (n + 1)}
           /\ tid_table'.free \in Tid!Ids /\ tid_table'.free <= TidMin + (n + 1)
           /\ process_table' = [process_table EXCEPT ![p].state = "Running"]
           /\ threads' = [threads EXCEPT ![p][TidMin + n] = New_Thread(new)]
           /\ tid_to_pid' = [tid_to_pid EXCEPT ![TidMin + n] = p]
           /\ stdtid_to_tid' = [stdtid_to_tid EXCEPT ![new] = TidMin + n]
           /\ at' = [at EXCEPT ![new] = "user"]
           /\ UNCHANGED <<pid_table, sig_shutdown, raised, wait, fault>>
<1>0. p \in Nat /\ p < n /\ TidMin \in Nat /\ 0 \in Pids
  <2>1. p \in Nat /\ 0 \in Pids
    BY IdFacts
  <2> QED  BY <2>1, Bounds DEF Nested
<1>1. /\ tid_to_pid[TidMin + p] = p
      /\ Get_TID(Runner(p)) = TidMin + p /\ Looked_Up(Runner(p)) = stdtid_to_tid
  BY <1>0, MainFacts
<1>3. /\ at[new] = "none" /\ Tid!Is_Next_Free(tid_table, handle)
      /\ tid_table' = Tid!Get_Free(tid_table, handle)
      /\ process_table' = [process_table EXCEPT ![p].state = "Running"]
      /\ threads' = [threads EXCEPT ![p] = Insert(@, handle, New_Thread(new))]
      /\ tid_to_pid' = Insert(tid_to_pid, handle, p)
      /\ stdtid_to_tid' = Insert(stdtid_to_tid, new, handle)
      /\ at' = [at EXCEPT ![new] = "user"]
      /\ UNCHANGED <<pid_table, sig_shutdown, raised, wait, fault>>
  BY <1>1 DEF Create_Thread, signals
<1>5. stdtid_to_tid[new] = None
  BY DEF Available, Unlisted, Orderly
<1>6. new # Boot
  <2>1. Runner(0) = Boot
    BY <1>0 DEF Nested, ProcessOK
  <2>2. stdtid_to_tid[Runner(0)] = TidMin + 0 /\ TidMin + 0 \in Handles
    BY <1>0, MainFacts
  <2> QED  BY <1>5, <2>1, <2>2, NoneFacts
<1>7. n < TidCount
  BY <1>5, Room
<1>8. /\ handle = TidMin + n
      /\ tid_table'.used = {t \in Tid!Ids : t < TidMin + n + 1}
      /\ tid_table'.free \in Tid!Ids /\ tid_table'.free <= TidMin + n + 1
  BY <1>3, <1>7, TidNext DEF Nested, IdsStacked
<1>10. TidMin + n + 1 = TidMin + (n + 1) /\ n + 1 \in 0 .. TidCount
  BY <1>0, <1>7, ControllerAssumption
<1>11. ASSUME NEW q \in Pids
       PROVE  ~ThreadAt(n, n, q, TidMin + n)
  <2>1. q \in Nat
    BY IdFacts
  <2> QED  BY <1>0, <2>1 DEF ThreadAt
<1>12. tid_to_pid[TidMin + n] = None /\ threads[p][TidMin + n] = None
  <2>1. threads[p][TidMin + n] = None
    BY <1>8, <1>11 DEF Nested, Stacked
  <2>2. ASSUME tid_to_pid[TidMin + n] # None
        PROVE  FALSE
    <3>1. PICK q \in Pids : tid_to_pid[TidMin + n] = q
      BY <1>8, <2>2 DEF IInv, TypeOK
    <3> QED  BY <1>8, <1>11, <3>1 DEF Nested, Stacked
  <2> QED  BY <2>1, <2>2
<1>13. /\ threads' = [threads EXCEPT ![p][TidMin + n] = New_Thread(new)]
       /\ tid_to_pid' = [tid_to_pid EXCEPT ![TidMin + n] = p]
  BY <1>3, <1>8, <1>12 DEF Insert
<1>14. stdtid_to_tid' = [stdtid_to_tid EXCEPT ![new] = TidMin + n]
  BY <1>3, <1>5, <1>8 DEF Insert
<1>15. tid_table'.used = {t \in Tid!Ids : t < TidMin + (n + 1)}
       /\ tid_table'.free <= TidMin + (n + 1)
  BY <1>8, <1>10
<1> QED  BY <1>3, <1>5, <1>6, <1>8, <1>10, <1>13, <1>14, <1>15

LEMMA RgenCreates ==
    ASSUME Orderly, IInv, ProgIInv, ~fault, NEW n \in Nat, Nested(n, n),
           NEW p \in Pids, p + 1 = n, ~Over(p), LeafOK(n, n, p), ~sig_shutdown,
           prog[Runner(p)].name = "rgen", process_table[p].name = "rgen",
           NEW handle \in Handles, NEW new \in OsThreads, Available(new),
           Create_Thread(Runner(p), new, handle),
           prog' = [prog EXCEPT ![Runner(p)] = Caller(Runner(p), "loop", <<>>, handle),
                                ![new] = Started("Signalize_EOF")]
    PROVE  SingleIInv'
<1> DEFINE os == Runner(p)
           k == n + 1
           caller == Caller(os, "loop", <<>>, handle)
<1>0. /\ p \in Nat /\ p < n /\ n > 0 /\ TidMin \in Nat /\ n \in Nat /\ 0 \in Pids
      /\ at[os] = "user" /\ Main(p).state = "Running" /\ Main(p).waiting = {}
  <2>1. p \in Nat /\ p < n /\ 0 \in Pids /\ n > 0
    BY IdFacts
  <2> QED  BY <2>1, Bounds DEF Nested, LeafOK
<1>1. /\ handle = TidMin + n /\ TidMin + n \in Handles
      /\ n + 1 \in 0 .. TidCount
      /\ at[new] = "none" /\ stdtid_to_tid[new] = None /\ new # Boot
      /\ tid_table'.used = {t \in Tid!Ids : t < TidMin + (n + 1)}
      /\ tid_table'.free \in Tid!Ids /\ tid_table'.free <= TidMin + (n + 1)
      /\ process_table' = [process_table EXCEPT ![p].state = "Running"]
      /\ threads' = [threads EXCEPT ![p][TidMin + n] = New_Thread(new)]
      /\ tid_to_pid' = [tid_to_pid EXCEPT ![TidMin + n] = p]
      /\ stdtid_to_tid' = [stdtid_to_tid EXCEPT ![new] = TidMin + n]
      /\ at' = [at EXCEPT ![new] = "user"]
      /\ UNCHANGED <<pid_table, sig_shutdown, raised, wait, fault>>
  BY <1>0, NewHelper
<1>2. IdsStacked(n, k)'
  <2>1. /\ n \in 0 .. PidCount /\ pid_table.used = {q \in Pid!Ids : q < n}
        /\ pid_table.free \in Pid!Ids /\ pid_table.free <= n
    BY DEF Nested, IdsStacked
  <2> QED  BY <1>0, <1>1, <2>1 DEF IdsStacked
<1>22. ASSUME NEW q \in Pids
       PROVE  /\ q \in Nat /\ (q + 1 = n <=> q = p)
              /\ q < n /\ q # p => q + 1 < n
  <2>1. q \in Nat
    BY IdFacts
  <2> QED  BY <1>0, <2>1
<1>3. ASSUME NEW q \in Pids
      PROVE  /\ q # p => process_table'[q] = process_table[q]
             /\ process_table'[p] = [process_table[p] EXCEPT !.state = "Running"]
             /\ \A t \in Handles :
                  /\ threads'[q][t] = IF q = p /\ t = TidMin + n THEN New_Thread(new)
                                                                ELSE threads[q][t]
                  /\ tid_to_pid'[t] = IF t = TidMin + n THEN p ELSE tid_to_pid[t]
  BY <1>1 DEF IInv, TypeOK
<1>4. ASSUME NEW o \in OsThreads
      PROVE  /\ stdtid_to_tid'[o] = IF o = new THEN TidMin + n ELSE stdtid_to_tid[o]
             /\ at'[o] = IF o = new THEN "user" ELSE at[o]
  BY <1>1 DEF IInv, TypeOK
<1>5. /\ New_Thread(new).os = new /\ New_Thread(new).state = "Running"
      /\ New_Thread(new).waiting = {} /\ New_Thread(new).sleeped = {}
      /\ New_Thread(new) # None
  BY NoneFacts DEF New_Thread
<1>23. /\ process_table'[p] # None /\ process_table'[p].name = "rgen"
       /\ process_table'[p].process_tid = TidMin + p
       /\ process_table'[p].state = "Running"
  <2>1. process_table[p] \in Processes /\ process_table[p].process_tid = TidMin + p
    BY <1>0, MainFacts
  <2>2. "Running" \in States
    BY DEF States
  <2>3. process_table'[p] \in Processes
    BY <1>3, <2>1, <2>2, ProcessUpdate
  <2> QED  BY <1>3, <2>1, <2>3, NoneFacts DEF Processes
<1>6. ASSUME NEW q \in Pids, NEW t \in Handles
      PROVE  ThreadAt(n, k, q, t) <=> ThreadAt(n, n, q, t) \/ (q = p /\ t = TidMin + n)
  BY <1>0, <1>22 DEF ThreadAt
<1>7. Stacked(n, k)'
  <2>1. ASSUME NEW q \in Pids
        PROVE  /\ process_table'[q] # None <=> q < n
               /\ q < n => process_table'[q].process_tid = TidMin + q
    BY <1>0, <1>3, <1>23 DEF Nested, Stacked
  <2>2. ASSUME NEW q \in Pids, NEW t \in Handles
        PROVE  /\ threads'[q][t] # None <=> ThreadAt(n, k, q, t)
               /\ tid_to_pid'[t] = q <=> ThreadAt(n, k, q, t)
    <3>1. /\ threads[q][t] # None <=> ThreadAt(n, n, q, t)
          /\ tid_to_pid[t] = q <=> ThreadAt(n, n, q, t)
      BY DEF Nested, Stacked
    <3>2. t = TidMin + n => ~ThreadAt(n, n, q, t)
      BY <1>0, <1>22 DEF ThreadAt
    <3> HIDE DEF k
    <3> QED  BY <1>3, <1>5, <1>6, <3>1, <3>2
  <2> QED  BY <2>1, <2>2 DEF Stacked, ThreadAt
<1>8. Listed(n, k)'
  <2>1. ASSUME NEW q \in Pids, NEW t \in Handles, ThreadAt(n, k, q, t)
        PROVE  stdtid_to_tid'[threads'[q][t].os] = t
    <3>1. CASE q = p /\ t = TidMin + n
      BY <1>3, <1>4, <1>5, <3>1
    <3>2. CASE ~(q = p /\ t = TidMin + n)
      <4>1. ThreadAt(n, n, q, t)
        BY <1>6, <2>1, <3>2
      <4>2. stdtid_to_tid[threads[q][t].os] = t /\ threads[q][t] # None
        BY <4>1 DEF Nested, Listed, Stacked
      <4>3. threads[q][t].os \in OsThreads /\ threads[q][t].os # new
        <5>1. threads[q][t] \in Threads
          BY <4>2 DEF IInv, TypeOK
        <5> QED  BY <1>1, <4>2, <5>1, NoneFacts DEF Threads
      <4> QED  BY <1>3, <1>4, <3>2, <4>2, <4>3
    <3> QED  BY <3>1, <3>2
  <2>2. ASSUME NEW o \in OsThreads
        PROVE  \/ stdtid_to_tid'[o] \in {None, 0}
               \/ \E q \in Pids : /\ ThreadAt(n, k, q, stdtid_to_tid'[o])
                                  /\ threads'[q][stdtid_to_tid'[o]].os = o
    <3>1. CASE o = new
      <4>1. stdtid_to_tid'[o] = TidMin + n /\ ThreadAt(n, k, p, TidMin + n)
        BY <1>1, <1>4, <1>6, <3>1
      <4>2. threads'[p][TidMin + n].os = o
        BY <1>1, <1>3, <1>5, <3>1
      <4> HIDE DEF k
      <4> QED  BY <4>1, <4>2
    <3>2. CASE o # new /\ stdtid_to_tid[o] \in {None, 0}
      BY <1>4, <3>2
    <3>3. CASE o # new /\ stdtid_to_tid[o] \notin {None, 0}
      <4>1. PICK q \in Pids : /\ ThreadAt(n, n, q, stdtid_to_tid[o])
                              /\ threads[q][stdtid_to_tid[o]].os = o
        BY <3>3 DEF Nested, Listed
      <4>2. stdtid_to_tid[o] \in Handles /\ stdtid_to_tid'[o] = stdtid_to_tid[o]
        BY <1>4, <3>3 DEF IInv, TypeOK
      <4>3. ThreadAt(n, k, q, stdtid_to_tid[o])
        BY <1>6, <4>1, <4>2
      <4>4. stdtid_to_tid[o] # TidMin + n
        BY <1>0, <1>22, <4>1 DEF ThreadAt
      <4> HIDE DEF k
      <4> QED  BY <1>3, <4>1, <4>2, <4>3, <4>4
    <3> QED  BY <3>1, <3>2, <3>3
  <2> HIDE DEF k
  <2> QED  BY <2>1, <2>2 DEF Listed, ThreadAt
<1>9. caller.name = "rgen" /\ caller.pc = "loop"
  <2>1. prog[os] \in Frames
    <3>1. os \in OsThreads
      BY <1>0, MainFacts
    <3> QED  BY <3>1 DEF ProgIInv, ProgTypes
  <2> QED  BY <2>1 DEF Caller, Frames
<1>10. Started("Signalize_EOF").name = "Signalize_EOF" /\ Started("Signalize_EOF").pc = "start"
  BY DEF Started
<1>11. os \in OsThreads /\ os # new /\ stdtid_to_tid[os] \notin {None, 0}
  BY <1>0, <1>1, MainFacts, NoneFacts
<1> HIDE DEF caller, os
<1>12. /\ prog'[os] = caller /\ prog'[new] = Started("Signalize_EOF")
       /\ \A o \in OsThreads : o # os /\ o # new => prog'[o] = prog[o]
  BY <1>11 DEF os, caller, ProgIInv, ProgTypes
<1>13. ASSUME NEW q \in Pids, q < n
       PROVE  /\ Main(q)' = Main(q) /\ Runner(q)' = Runner(q) /\ Over(q)' = Over(q)
              /\ Runner(q) \in OsThreads /\ Runner(q) # new
              /\ at'[Runner(q)] = at[Runner(q)] /\ wait'[Runner(q)] = wait[Runner(q)]
              /\ q # p => Runner(q) # os /\ prog'[Runner(q)] = prog[Runner(q)]
  <2>1. TidMin + q \in Handles /\ Runner(q) \in OsThreads /\ TidMin + q # TidMin + n
        /\ stdtid_to_tid[Runner(q)] = TidMin + q
    <3>1. TidMin + q # TidMin + n
      BY <1>0, <1>13, <1>22
    <3> QED  BY <1>13, <3>1, MainFacts
  <2>2. Main(q)' = Main(q)
    BY <1>3, <2>1 DEF Main
  <2>4. Runner(q) # new
    BY <1>1, <2>1, NoneFacts
  <2>5. q # p => Runner(q) # os
    BY <1>0, <1>13, RunnersDiffer DEF os
  <2> QED  BY <1>1, <1>4, <1>12, <2>1, <2>2, <2>4, <2>5 DEF Runner, Over
<1>14. HelperOK(n)'
  <2>1. n - 1 = p
    BY <1>0
  <2>2. Helper(n)' = New_Thread(new)
    BY <1>1, <1>3, <2>1 DEF Helper
  <2>3. at'[new] = "user" /\ prog'[new].name = "Signalize_EOF" /\ prog'[new].pc = "start"
    BY <1>4, <1>10, <1>12
  <2>4. ~Over(p)'
    BY <1>0, <1>13
  <2>5. Stray(new)'
    BY <2>3 DEF Stray
  <2>6. Helper(n)'.os = new
    BY <1>5, <2>2
  <2>7. Stray(Helper(n).os)'
    BY <2>3, <2>6 DEF Stray
  <2> QED  BY <1>5, <1>23, <2>1, <2>2, <2>3, <2>4, <2>6, <2>7 DEF HelperOK
<1>15. ProcessOK(n, p)' /\ LeafOK(n, k, p)'
  <2>1. Runner(p)' = os /\ Main(p)' = Main(p) /\ prog'[os] = caller /\ at'[os] = "user"
        /\ ~Over(p)'
    BY <1>0, <1>12, <1>13 DEF os
  <2>2. ProcessOK(n, p)
    BY <1>0 DEF Nested
  <2>3. ProcessOK(n, p)'
    BY <1>9, <1>23, <2>1, <2>2 DEF ProcessOK, os
  <2>4. LeafFrame(n, k, p, caller)
    BY <1>9 DEF LeafFrame, PlacesOf
  <2> HIDE DEF k
  <2> QED  BY <1>0, <2>1, <2>3, <2>4 DEF LeafOK
<1>17. ASSUME NEW q \in Pids, q < n, q # p
       PROVE  ParentOK(q)' /\ ProcessOK(n, q)'
  <2>1. q \in Nat /\ q + 1 < n /\ q + 1 \in Pids
    <3>1. q \in Nat
      BY IdFacts
    <3>2. q + 1 < n /\ q + 1 \in Nat
      BY <1>17, <1>22, <3>1
    <3> QED  BY <3>1, <3>2, Bounds DEF Nested
  <2>2. Main(q + 1)' = Main(q + 1) /\ Over(q + 1)' = Over(q + 1)
    BY <1>13, <2>1
  <2>3. SameMain(q) /\ Main(q)' = Main(q)
    BY <1>13, <1>17 DEF SameMain
  <2>4. ParentOK(q) /\ ProcessOK(n, q)
    BY <1>17, <2>1 DEF Nested
  <2>5. process_table'[q] = process_table[q]
    BY <1>3, <1>17
  <2> QED  BY <1>13, <1>17, <2>2, <2>3, <2>4, <2>5, Untouched
<1>18. OthersOK(n)'
  <2>1. OthersOK(n)
    BY DEF Nested
  <2>2. ASSUME NEW o \in OsThreads, at'[o] = "none"
        PROVE  prog'[o] = Nothing
    BY <1>0, <1>4, <1>12, <2>1, <2>2 DEF OthersOK, os
  <2>3. ASSUME NEW o \in OsThreads \ {Boot}, stdtid_to_tid'[o] \in {None, 0}
        PROVE  Stray(o)'
    <3>1. TidMin + n \notin {None, 0}
      BY <1>0, <1>1, NoneFacts
    <3>2. o # new /\ o # os /\ stdtid_to_tid[o] \in {None, 0}
      BY <1>4, <1>11, <2>3, <3>1
    <3>3. at'[o] = at[o] /\ prog'[o] = prog[o]
      BY <1>4, <1>12, <3>2
    <3>4. Stray(o)
      BY <2>1, <2>3, <3>2 DEF OthersOK
    <3> QED  BY <3>3, <3>4 DEF Stray
  <2>4. n # 0
    BY <1>0
  <2> QED  BY <2>2, <2>3, <2>4 DEF OthersOK
<1>19. SignalsOK(n)'
  <2>1. "sig_terminate" \notin raised' /\ ~sig_shutdown'
    BY <1>1 DEF Nested, SignalsOK
  <2>2. p # 1
    BY <1>0 DEF Nested, ProcessOK
  <2>3. ASSUME n > 1, prog'[Runner(1)'].pc # "start"
        PROVE  Main(1).handler' = "sig_shutdown"
    <3>1. 1 \in Pids /\ 1 < n
      BY <1>0, <2>3, Bounds DEF Nested
    <3>2. Main(1)' = Main(1) /\ Runner(1)' = Runner(1) /\ prog'[Runner(1)] = prog[Runner(1)]
      BY <1>13, <2>2, <3>1
    <3> QED  BY <2>3, <3>1, <3>2 DEF Nested, SignalsOK
  <2> QED  BY <2>1, <2>3 DEF SignalsOK
<1>20. Nested(n, k)'
  <2>1. ASSUME NEW q \in Pids
        PROVE  /\ q < n => ProcessOK(n, q)'
               /\ q + 1 = n => LeafOK(n, k, q)'
               /\ q + 1 < n => ParentOK(q)'
    <3>1. q + 1 < n => q < n /\ q # p
      BY <1>0, <1>22
    <3> QED  BY <1>15, <1>17, <1>22, <3>1
  <2> HIDE DEF k
  <2> QED  BY <1>2, <1>7, <1>8, <1>14, <1>18, <1>19, <2>1 DEF Nested
<1>21. k \in Nat
  OBVIOUS
<1> HIDE DEF k
<1> QED  BY <1>1, <1>20, <1>21 DEF SingleIInv

LEMMA RgenStartsHelper ==
    ASSUME Orderly, IInv, ProgIInv, ~fault, NEW n \in Nat, NEW k \in Nat, Nested(n, k),
           NEW os \in OsThreads, In(os, "rgen", "create"),
           Launch_Thread(os, "Signalize_EOF", "loop")
    PROVE  SingleIInv'
<1>1. at[os] = "user" /\ prog[os].name = "rgen" /\ prog[os].pc = "create"
  BY DEF In, Calling
<1>2. PICK p \in Pids : p + 1 = n /\ os = Runner(p) /\ ~Over(p) /\ LeafOK(n, k, p)
                        /\ process_table[p].name = "rgen"
  BY <1>1, LeafAtWork DEF Before, After
<1>3. p \in Nat /\ p < n
  BY <1>2, IdFacts
<1>4. p # 0 /\ p # 1
  BY <1>2, <1>3 DEF Nested, ProcessOK
<1>5. ~sig_shutdown
  BY <1>1, <1>2, <1>4, ShuttingDown
<1>6. k = n
  BY <1>1, <1>2 DEF LeafOK, LeafFrame
<1>7. PICK handle \in Handles :
         \/ Create_Refused(os, handle) \/ Create_Thread_Refused(os, handle)
         \/ \E new \in OsThreads :
               /\ Available(new) /\ Create_Thread(os, new, handle)
               /\ prog' = [prog EXCEPT ![os] = Caller(os, "loop", <<>>, handle),
                                       ![new] = Started("Signalize_EOF")]
  BY DEF Launch_Thread, Launch, Caller
<1>8. ~Create_Thread_Refused(os, handle)
  <2>1. Get_TID(os) = TidMin + p /\ tid_to_pid[TidMin + p] = p /\ process_table[p] # None
        /\ p # None
    BY <1>2, <1>3, MainFacts, NoneFacts
  <2> QED  BY <2>1 DEF Create_Thread_Refused
<1>9. PICK new \in OsThreads :
         /\ Available(new) /\ Create_Thread(os, new, handle)
         /\ prog' = [prog EXCEPT ![os] = Caller(os, "loop", <<>>, handle),
                                 ![new] = Started("Signalize_EOF")]
  BY <1>5, <1>7, <1>8 DEF Create_Refused
<1> QED  BY <1>1, <1>2, <1>5, <1>6, <1>9, RgenCreates

-----------------------------------------------------------------------------
(* The topmost process is reaped.                                          *)

(* The threads of the topmost process are those with the topmost ids.      *)
LEMMA TopThreads ==
    ASSUME IInv, NEW n \in Nat, NEW k \in Nat, Nested(n, k), NEW c \in Pids, c + 1 = n
    PROVE  /\ c \in Nat /\ c < n /\ c < k /\ k > 0 /\ c + 2 >= k /\ TidMin \in Nat
           /\ \A t \in Handles : ThreadAt(n, k, c, t) <=>
                 t = TidMin + c \/ (k = n + 1 /\ t = TidMin + n)
           /\ {t \in Handles : threads[c][t] # None} =
                 {t \in Tid!Ids : TidMin + c <= t /\ t < TidMin + k}
           /\ \A q \in Pids, t \in Handles :
                 ThreadAt(c, c, q, t) <=> q # c /\ ThreadAt(n, k, q, t)
<1>1. c \in Nat
  BY IdFacts
<1>2. /\ c < n /\ c < k /\ k > 0 /\ c + 2 >= k /\ (k = n \/ k = n + 1) /\ TidMin \in Nat
      /\ Tid!Ids \subseteq Handles /\ Handles \subseteq Nat
  BY <1>1, Bounds DEF Nested
<1>3. ASSUME NEW t \in Handles
      PROVE  ThreadAt(n, k, c, t) <=> t = TidMin + c \/ (k = n + 1 /\ t = TidMin + n)
  BY <1>2 DEF ThreadAt
<1>4. \A t \in Handles : threads[c][t] # None <=> ThreadAt(n, k, c, t)
  BY DEF Nested, Stacked
<1>5. TidMin + c \in Tid!Ids /\ (k = n + 1 => TidMin + n \in Tid!Ids)
  BY <1>1, <1>2, Bounds DEF Nested
<1>6. ASSUME NEW t \in Handles
      PROVE  threads[c][t] # None <=> t \in Tid!Ids /\ TidMin + c <= t /\ t < TidMin + k
  <2>1. t \in Nat
    BY <1>2
  <2>2. TidMin + c <= t /\ t < TidMin + k <=> t = TidMin + c \/ (k = n + 1 /\ t = TidMin + n)
    BY <1>1, <1>2, <2>1
  <2> QED  BY <1>3, <1>4, <1>5, <2>2
<1>7. {t \in Handles : threads[c][t] # None} =
        {t \in Tid!Ids : TidMin + c <= t /\ t < TidMin + k}
  BY <1>2, <1>6
<1>8. ASSUME NEW q \in Pids, NEW t \in Handles
      PROVE  ThreadAt(c, c, q, t) <=> q # c /\ ThreadAt(n, k, q, t)
  <2>1. q \in Nat /\ c # c + 1
    BY <1>1, IdFacts
  <2>2. (q < c <=> q # c /\ q < n) /\ (q + 1 = n <=> q = c)
    BY <1>1, <2>1
  <2> QED  BY <2>1, <2>2 DEF ThreadAt
<1> QED  BY <1>1, <1>2, <1>3, <1>7, <1>8

(* The OS threads found under the ids of the topmost process.              *)
LEMMA TopRunners ==
    ASSUME IInv, NEW n \in Nat, NEW k \in Nat, Nested(n, k), NEW c \in Pids, c + 1 = n,
           NEW o \in OsThreads
    PROVE  /\ stdtid_to_tid[o] = TidMin + c <=> o = Runner(c)
           /\ k = n + 1 => (stdtid_to_tid[o] = TidMin + n <=> o = Helper(n).os)
<1>1. c \in Nat /\ c < n /\ TidMin \in Nat
  BY TopThreads
<1>2. stdtid_to_tid[Runner(c)] = TidMin + c /\ TidMin + c \in Handles /\ TidMin + c # 0
      /\ Runner(c) \in OsThreads
  BY <1>1, MainFacts
<1>3. k = n + 1 => stdtid_to_tid[Helper(n).os] = TidMin + n /\ TidMin + n \in Handles
                   /\ TidMin + n # 0
  BY HelperFacts
<1>4. ASSUME NEW t \in Handles, t # 0, stdtid_to_tid[o] = t
      PROVE  \E q \in Pids : ThreadAt(n, k, q, t) /\ threads[q][t].os = o
  <2>1. stdtid_to_tid[o] \notin {None, 0}
    BY <1>4, NoneFacts
  <2> QED  BY <1>4, <2>1 DEF Nested, Listed
<1>5. ASSUME stdtid_to_tid[o] = TidMin + c
      PROVE  o = Runner(c)
  <2>1. PICK q \in Pids : ThreadAt(n, k, q, TidMin + c) /\ threads[q][TidMin + c].os = o
    BY <1>2, <1>4, <1>5
  <2>2. q \in Nat
    BY IdFacts
  <2>3. q = c
    BY <1>1, <2>1, <2>2 DEF ThreadAt
  <2> QED  BY <2>1, <2>3 DEF Runner, Main
<1>6. ASSUME k = n + 1, stdtid_to_tid[o] = TidMin + n
      PROVE  o = Helper(n).os
  <2>1. PICK q \in Pids : ThreadAt(n, k, q, TidMin + n) /\ threads[q][TidMin + n].os = o
    BY <1>3, <1>4, <1>6
  <2>2. q \in Nat
    BY IdFacts
  <2>3. q = n - 1
    BY <1>1, <2>1, <2>2 DEF ThreadAt
  <2> QED  BY <2>1, <2>3 DEF Helper
<1> QED  BY <1>2, <1>3, <1>5, <1>6

(* What Read_Exit_Code does when it reaps the topmost process.             *)
LEMMA TopReaped ==
    ASSUME IInv, ~fault, NEW n \in Nat, NEW k \in Nat, Nested(n, k),
           NEW c \in Pids, c + 1 = n,
           NEW os \in OsThreads, Reap(os, TidMin + c)
    PROVE  /\ IdsStacked(c, c)' /\ Stacked(c, c)' /\ Listed(c, c)'
           /\ \A q \in Pids : process_table'[q] = IF q = c THEN None ELSE process_table[q]
           /\ \A q \in Pids, t \in Handles :
                 threads'[q][t] = IF q = c THEN None ELSE threads[q][t]
           /\ \A o \in OsThreads : stdtid_to_tid'[o] =
                 IF o = Runner(c) \/ (k = n + 1 /\ o = Helper(n).os)
                   THEN None ELSE stdtid_to_tid[o]
           /\ UNCHANGED <<sig_shutdown, raised, at, wait, fault>>
<1>1. /\ c \in Nat /\ c < n /\ c < k /\ k > 0 /\ c + 2 >= k /\ TidMin \in Nat
      /\ \A t \in Handles : ThreadAt(n, k, c, t) <=>
            t = TidMin + c \/ (k = n + 1 /\ t = TidMin + n)
      /\ {t \in Handles : threads[c][t] # None} =
            {t \in Tid!Ids : TidMin + c <= t /\ t < TidMin + k}
      /\ \A q \in Pids, t \in Handles :
            ThreadAt(c, c, q, t) <=> q # c /\ ThreadAt(n, k, q, t)
  BY TopThreads
<1>2. /\ n <= PidCount /\ k <= TidCount /\ (k = n \/ k = n + 1) /\ c \in Pid!Ids
      /\ PidCount \in Nat /\ TidCount \in Nat /\ c # NoId
  <2>1. n <= PidCount /\ k <= TidCount /\ (k = n \/ k = n + 1) /\ c \in Pid!Ids
    BY <1>1, Bounds DEF Nested
  <2> QED  BY <2>1, ControllerAssumption, IdFacts
<1>3. /\ tid_to_pid[TidMin + c] = c /\ process_table[c].process_tid = TidMin + c
      /\ Known(TidMin + c) /\ TidMin + c \in Handles
  BY <1>1, MainFacts
<1> DEFINE tid == TidMin + c
           removed == {t \in Handles : threads[c][t] # None}
           erased == {o \in OsThreads : \/ stdtid_to_tid[o] = tid
                                        \/ \E t \in removed \ {tid} : threads[c][t].os = o}
<1>4. Read_Exit_Code(os, tid)
  BY <1>3 DEF Reap, Read_Exit_Code_Unknown
<1>5. Removed(c, tid) = removed
  BY <1>3 DEF Removed
<1>6. \A t \in Handles : t \in removed <=> t = tid \/ (k = n + 1 /\ t = TidMin + n)
  BY <1>1 DEF Nested, Stacked
<1>7. ~Reaping_Undefined(c, removed, tid)
  <2>1. NoId \notin removed /\ removed \subseteq Nat
    BY <1>1, IdFacts
  <2>2. ASSUME NEW t \in removed \ {tid}, NEW other \in removed, other > t
        PROVE  FALSE
    <3>1. t \in Handles /\ other \in Handles
      OBVIOUS
    <3>2. t = TidMin + n /\ (other = TidMin + n \/ other = tid)
      BY <1>6, <2>2, <3>1
    <3> QED  BY <1>1, <2>2, <3>2
  <2> HIDE DEF removed, tid
  <2> QED  BY <1>2, <2>1, <2>2 DEF Reaping_Undefined
<1>8. ASSUME NEW o \in OsThreads
      PROVE  ~Astray(o, c, removed)
  <2>1. ASSUME Astray(o, c, removed)
        PROVE  FALSE
    <3>1. at[o] \in {"marking", "waiting", "woken", "spinning"} /\ wait[o].pid = c
      BY <2>1 DEF Astray
    <3>2. PICK q \in Pids : q + 1 < n /\ o = Runner(q) /\ ParentOK(q)
      BY <3>1, ParentAtWork
    <3>3. wait[o].pid = q
      BY <3>1, <3>2 DEF ParentOK
    <3> QED  BY <3>1, <3>2, <3>3
  <2> QED  BY <2>1
<1>9. /\ pid_table' = Pid!Set_Free(pid_table, c)
      /\ tid_table' = Tid!Set_Free_All(tid_table, removed \ {NoId})
      /\ process_table' = [process_table EXCEPT ![c] = None]
      /\ threads' = [threads EXCEPT ![c] = [t \in Handles |->
                        IF t \in removed THEN None ELSE @[t]]]
      /\ tid_to_pid' = [t \in Handles |-> IF t \in removed THEN None ELSE tid_to_pid[t]]
      /\ stdtid_to_tid' = [o \in OsThreads |->
                        IF o \in erased THEN None ELSE stdtid_to_tid[o]]
      /\ at' = [o \in OsThreads |-> IF Astray(o, c, removed) THEN "lost" ELSE at[o]]
      /\ UNCHANGED <<sig_shutdown, raised, wait, fault>>
  <2>1. tid_to_pid[tid] = c /\ process_table[c].process_tid = tid
    BY <1>3
  <2> HIDE DEF tid, removed
  <2> QED  BY <1>2, <1>4, <1>5, <1>7, <2>1 DEF Read_Exit_Code, signals, erased
<1>10. at' = at
  BY <1>8, <1>9 DEF IInv, TypeOK
<1>11. ASSUME NEW q \in Pids
       PROVE  /\ process_table'[q] = IF q = c THEN None ELSE process_table[q]
              /\ \A t \in Handles : threads'[q][t] = IF q = c THEN None ELSE threads[q][t]
  <2>1. process_table'[q] = IF q = c THEN None ELSE process_table[q]
    BY <1>9 DEF IInv, TypeOK
  <2>2. ASSUME NEW t \in Handles
        PROVE  threads'[q][t] = IF q = c THEN None ELSE threads[q][t]
    BY <1>9 DEF IInv, TypeOK
  <2> QED  BY <2>1, <2>2
<1>12. ASSUME NEW o \in OsThreads
       PROVE  o \in erased <=> o = Runner(c) \/ (k = n + 1 /\ o = Helper(n).os)
  <2>1. stdtid_to_tid[o] = tid <=> o = Runner(c)
    BY TopRunners
  <2>2. \A t \in removed \ {tid} : k = n + 1 /\ t = TidMin + n
    BY <1>6
  <2>3. k = n + 1 => TidMin + n \in removed \ {tid}
    <3>1. SUFFICES ASSUME k = n + 1 PROVE TidMin + n \in removed \ {tid}
      OBVIOUS
    <3>2. TidMin + n \in Handles /\ TidMin + n # tid
      BY <1>1, <3>1, HelperFacts
    <3> QED  BY <1>6, <3>1, <3>2
  <2>4. n - 1 = c
    BY <1>1
  <2>5. (\E t \in removed \ {tid} : threads[c][t].os = o) <=> k = n + 1 /\ o = Helper(n).os
    <3> HIDE DEF removed, tid
    <3> QED  BY <2>2, <2>3, <2>4 DEF Helper
  <2> HIDE DEF removed, tid
  <2> QED  BY <2>1, <2>5 DEF erased
<1>13. ASSUME NEW o \in OsThreads
       PROVE  stdtid_to_tid'[o] = IF o = Runner(c) \/ (k = n + 1 /\ o = Helper(n).os)
                                    THEN None ELSE stdtid_to_tid[o]
  <2> HIDE DEF erased
  <2> QED  BY <1>9, <1>12
<1>14. IdsStacked(c, c)'
  <2>1. /\ tid_table'.used = {t \in Tid!Ids : t < TidMin + c}
        /\ tid_table'.free \in Tid!Ids /\ tid_table'.free <= TidMin + c
    <3>1. removed \ {NoId} = {t \in Tid!Ids : TidMin + c <= t /\ t < TidMin + k}
      BY <1>1, IdFacts
    <3>2. /\ tid_table.used = {t \in Tid!Ids : t < TidMin + k}
          /\ tid_table.free \in Tid!Ids /\ tid_table.free <= TidMin + k
      BY DEF Nested, IdsStacked
    <3> HIDE DEF removed
    <3> QED  BY SMTT(30), <1>1, <1>2, <1>9, <3>1, <3>2, TidGiveBack
  <2>2. /\ pid_table'.used = {q \in Pid!Ids : q < c}
        /\ pid_table'.free \in Pid!Ids /\ pid_table'.free <= c
    <3>1. /\ pid_table.used = {q \in Pid!Ids : q < c + 1}
          /\ pid_table.free \in Pid!Ids /\ pid_table.free <= c + 1
      BY DEF Nested, IdsStacked
    <3>2. c < PidCount
      BY <1>1, <1>2
    <3> QED  BY <1>1, <1>9, <3>1, <3>2, PidGiveBack
  <2>3. c \in 0 .. PidCount /\ c \in 0 .. TidCount
    BY <1>1, <1>2
  <2> QED  BY <2>1, <2>2, <2>3 DEF IdsStacked
<1>15. Stacked(c, c)'
  <2>1. ASSUME NEW q \in Pids
        PROVE  /\ process_table'[q] # None <=> q < c
               /\ q < c => process_table'[q].process_tid = TidMin + q
    <3>1. q \in Nat /\ (q < c <=> q # c /\ q < n)
      <4>1. q \in Nat
        BY IdFacts
      <4> QED  BY <1>1, <4>1
    <3> QED  BY <1>11, <3>1 DEF Nested, Stacked
  <2>2. ASSUME NEW q \in Pids, NEW t \in Handles
        PROVE  /\ threads'[q][t] # None <=> ThreadAt(c, c, q, t)
               /\ tid_to_pid'[t] = q <=> ThreadAt(c, c, q, t)
    <3>1. /\ threads[q][t] # None <=> ThreadAt(n, k, q, t)
          /\ tid_to_pid[t] = q <=> ThreadAt(n, k, q, t)
      BY DEF Nested, Stacked
    <3>2. threads'[q][t] # None <=> ThreadAt(c, c, q, t)
      BY <1>1, <1>11, <3>1
    <3>3. tid_to_pid'[t] = IF ThreadAt(n, k, c, t) THEN None ELSE tid_to_pid[t]
      <4>1. t \in removed <=> ThreadAt(n, k, c, t)
        BY <1>1, <1>6
      <4> HIDE DEF removed
      <4> QED  BY <1>9, <4>1
    <3>4. q # None /\ (tid_to_pid[t] = c <=> ThreadAt(n, k, c, t))
      BY NoneFacts DEF Nested, Stacked
    <3> QED  BY <1>1, <3>1, <3>2, <3>3, <3>4
  <2> QED  BY <2>1, <2>2 DEF Stacked, ThreadAt
<1>16. Listed(c, c)'
  <2>1. ASSUME NEW q \in Pids, NEW t \in Handles, ThreadAt(c, c, q, t)
        PROVE  stdtid_to_tid'[threads'[q][t].os] = t
    <3>1. q # c /\ ThreadAt(n, k, q, t)
      BY <1>1, <2>1
    <3>2. stdtid_to_tid[threads[q][t].os] = t /\ threads[q][t] # None
      BY <3>1 DEF Nested, Listed, Stacked
    <3>3. threads[q][t].os \in OsThreads
      BY <3>2 DEF IInv, TypeOK, Threads
    <3>4. t < TidMin + c
      <4>1. q \in Nat
        BY IdFacts
      <4> QED  BY <1>1, <2>1, <4>1 DEF ThreadAt
    <3>5. threads[q][t].os # Runner(c) /\ (k = n + 1 => threads[q][t].os # Helper(n).os)
      <4>1. t # TidMin + c /\ t # TidMin + n
        BY <1>1, <3>4, IdFacts
      <4> QED  BY <3>2, <3>3, <4>1, TopRunners
    <3> QED  BY <1>11, <1>13, <3>1, <3>2, <3>3, <3>5
  <2>2. ASSUME NEW o \in OsThreads
        PROVE  \/ stdtid_to_tid'[o] \in {None, 0}
               \/ \E q \in Pids : /\ ThreadAt(c, c, q, stdtid_to_tid'[o])
                                  /\ threads'[q][stdtid_to_tid'[o]].os = o
    <3>1. CASE o = Runner(c) \/ (k = n + 1 /\ o = Helper(n).os)
      BY <1>13, <3>1
    <3>2. CASE ~(o = Runner(c) \/ (k = n + 1 /\ o = Helper(n).os))
      <4>1. stdtid_to_tid'[o] = stdtid_to_tid[o]
        BY <1>13, <3>2
      <4>2. CASE stdtid_to_tid[o] \in {None, 0}
        BY <4>1, <4>2
      <4>3. CASE stdtid_to_tid[o] \notin {None, 0}
        <5>1. PICK q \in Pids : /\ ThreadAt(n, k, q, stdtid_to_tid[o])
                                /\ threads[q][stdtid_to_tid[o]].os = o
          BY <4>3 DEF Nested, Listed
        <5>2. stdtid_to_tid[o] \in Handles
          BY <4>3 DEF IInv, TypeOK
        <5>3. q # c
          BY <1>1, <3>2, <5>1, <5>2, TopRunners
        <5>4. ThreadAt(c, c, q, stdtid_to_tid[o])
          BY <1>1, <5>1, <5>2, <5>3
        <5> QED  BY <1>11, <4>1, <5>1, <5>2, <5>3, <5>4
      <4> QED  BY <4>2, <4>3
    <3> QED  BY <3>1, <3>2
  <2> QED  BY <2>1, <2>2 DEF Listed, ThreadAt
<1> HIDE DEF removed, erased, tid
<1> QED  BY <1>9, <1>10, <1>11, <1>13, <1>14, <1>15, <1>16

(* The parent reaps the topmost process and becomes the topmost again.     *)
LEMMA ParentReaps ==
    ASSUME IInv, ProgIInv, ~fault, NEW n \in Nat, NEW k \in Nat, Nested(n, k),
           NEW p \in Pids, p + 1 < n, ~Over(p), ParentOK(p),
           at[Runner(p)] = "user", After(Runner(p)),
           Reap(Runner(p), TidMin + p + 1),
           NEW frame, prog' = [prog EXCEPT ![Runner(p)] = frame],
           frame.name = prog[Runner(p)].name, frame.pc # "start",
           LeafFrame(p + 1, p + 1, p, frame),
           sig_shutdown /\ p = 1 => frame.pc = "exit"
    PROVE  SingleIInv'
<1> DEFINE c == p + 1
           os == Runner(p)
<1>1. /\ p \in Nat /\ p < n /\ c \in Pids /\ c \in Nat /\ c # 0 /\ c < n
      /\ os \in OsThreads /\ TidMin + c = TidMin + p + 1
  BY ParentFacts
<1>2. /\ Over(c) /\ Main(p).state = "Running" /\ Main(p).waiting = {}
  BY DEF ParentOK, Before, After, Asleep
<1> HIDE DEF c
<1>3. c + 1 = n /\ c > 0 /\ p < c /\ p + 1 = c
  <2>1. c + 1 = n
    BY <1>1, <1>2 DEF Nested, ProcessOK
  <2> QED  BY <1>1, <2>1 DEF c
<1>4. /\ IdsStacked(c, c)' /\ Stacked(c, c)' /\ Listed(c, c)'
      /\ \A q \in Pids : process_table'[q] = IF q = c THEN None ELSE process_table[q]
      /\ \A q \in Pids, t \in Handles :
            threads'[q][t] = IF q = c THEN None ELSE threads[q][t]
      /\ \A o \in OsThreads : stdtid_to_tid'[o] =
            IF o = Runner(c) \/ (k = n + 1 /\ o = Helper(n).os)
              THEN None ELSE stdtid_to_tid[o]
      /\ UNCHANGED <<sig_shutdown, raised, at, wait, fault>>
  <2>1. Reap(os, TidMin + c)
    BY <1>1
  <2> HIDE DEF os
  <2> QED  BY <1>1, <1>3, <2>1, TopReaped
<1> HIDE DEF os
<1>5. /\ prog'[os] = frame /\ \A o \in OsThreads : o # os => prog'[o] = prog[o]
  BY <1>1 DEF os, ProgIInv, ProgTypes
<1>6. ASSUME NEW q \in Pids, q < c
      PROVE  /\ q \in Nat /\ q < n /\ q # c /\ Main(q)' = Main(q) /\ Runner(q)' = Runner(q)
             /\ ~Over(q) /\ ~Over(q)' /\ Over(q)' = Over(q) /\ process_table'[q] = process_table[q]
             /\ Runner(q) \in OsThreads
             /\ q # p => Runner(q) # os /\ prog'[Runner(q)] = prog[Runner(q)]
  <2>1. q \in Nat /\ q < n /\ q # c /\ q + 1 # n
    <3>1. q \in Nat
      BY IdFacts
    <3> QED  BY <1>1, <1>3, <1>6, <3>1
  <2>2. TidMin + q \in Handles /\ Runner(q) \in OsThreads
    BY <2>1, MainFacts
  <2>3. Main(q)' = Main(q)
    BY <1>4, <2>1, <2>2 DEF Main
  <2>4. ~Over(q)
    BY <2>1 DEF Nested, ProcessOK
  <2>5. q # p => Runner(q) # os
    BY <1>1, <2>1, RunnersDiffer DEF os
  <2> QED  BY <1>4, <1>5, <2>1, <2>2, <2>3, <2>4, <2>5 DEF Runner, Over
<1>7. ASSUME NEW q \in Pids, q < c
      PROVE  ProcessOK(c, q)'
  <2>1. ProcessOK(n, q)
    BY <1>6, <1>7 DEF Nested
  <2>2. prog'[Runner(q)].name = prog[Runner(q)].name
    BY <1>5, <1>6, <1>7 DEF os
  <2> QED  BY <1>6, <1>7, <2>1, <2>2 DEF ProcessOK
<1>8. LeafOK(c, c, p)'
  <2>1. Main(p)' = Main(p) /\ Runner(p)' = Runner(p)
    BY <1>3, <1>6
  <2>2. LeafFrame(c, c, p, frame)
    BY DEF c
  <2> QED  BY <1>2, <1>4, <1>5, <2>1, <2>2 DEF LeafOK, os
<1>9. ASSUME NEW q \in Pids, q + 1 < c
      PROVE  ParentOK(q)'
  <2>1. q \in Nat /\ q < c /\ q # p /\ q + 1 < n
    <3>1. q \in Nat
      BY IdFacts
    <3> QED  BY <1>1, <1>3, <1>9, <3>1
  <2>2. q + 1 \in Pids
    BY <2>1, Bounds DEF Nested
  <2>3. Main(q + 1)' = Main(q + 1) /\ Over(q + 1)' = Over(q + 1)
    BY <1>6, <1>9, <2>2
  <2>4. SameMain(q)
    BY <1>6, <2>1 DEF SameMain
  <2>5. ParentOK(q)
    BY <2>1 DEF Nested
  <2> QED  BY <1>4, <1>6, <2>1, <2>3, <2>4, <2>5, Untouched
<1>10. OthersOK(c)'
  <2>1. OthersOK(n) /\ at[os] = "user" /\ stdtid_to_tid[os] \notin {None, 0}
    BY <1>1, MainFacts, NoneFacts DEF Nested, os
  <2>2. ASSUME NEW o \in OsThreads, at'[o] = "none"
        PROVE  prog'[o] = Nothing
    BY <1>4, <1>5, <2>1, <2>2 DEF OthersOK
  <2>3. Runner(c) # os /\ (k = n + 1 => Helper(n).os # os)
    <3>1. Runner(c) # os
      BY <1>1, <1>3, RunnersDiffer DEF os
    <3>2. k = n + 1 => Helper(n).os # os
      BY <1>1, HelperFacts DEF os
    <3> QED  BY <3>1, <3>2
  <2>4. Stray(Runner(c))
    BY <1>1, <1>2 DEF Nested, ProcessOK, Stray
  <2>5. k = n + 1 => Stray(Helper(n).os)
    BY DEF Nested, HelperOK
  <2>6. ASSUME NEW o \in OsThreads \ {Boot}, stdtid_to_tid'[o] \in {None, 0}
        PROVE  Stray(o)'
    <3>1. o # os /\ Stray(o)
      <4>1. CASE o = Runner(c) \/ (k = n + 1 /\ o = Helper(n).os)
        BY <2>3, <2>4, <2>5, <4>1
      <4>2. CASE ~(o = Runner(c) \/ (k = n + 1 /\ o = Helper(n).os))
        <5>1. stdtid_to_tid[o] \in {None, 0}
          BY <1>4, <2>6, <4>2
        <5> QED  BY <2>1, <5>1 DEF OthersOK
      <4> QED  BY <4>1, <4>2
    <3> QED  BY <1>4, <1>5, <3>1 DEF Stray
  <2> QED  BY <1>1, <2>2, <2>6 DEF OthersOK
<1>11. SignalsOK(c)'
  <2>1. "sig_terminate" \notin raised'
    BY <1>4 DEF Nested, SignalsOK
  <2>2. ASSUME c > 1
        PROVE  Main(1)' = Main(1) /\ Runner(1)' = Runner(1) /\ ~Over(1)' /\ n > 1
               /\ (p # 1 => prog'[Runner(1)] = prog[Runner(1)])
    <3>1. 1 \in Pids /\ 1 < c /\ n > 1
      BY <1>1, <1>3, <2>2, Bounds DEF Nested
    <3> QED  BY <1>6, <3>1
  <2>3. ASSUME c > 1, prog'[Runner(1)'].pc # "start"
        PROVE  Main(1).handler' = "sig_shutdown"
    <3>1. prog[Runner(1)].pc # "start"
      <4>1. CASE p = 1
        BY <4>1 DEF After
      <4>2. CASE p # 1
        BY <2>2, <2>3, <4>2
      <4> QED  BY <4>1, <4>2
    <3> QED  BY <2>2, <2>3, <3>1 DEF Nested, SignalsOK
  <2>4. ASSUME sig_shutdown
        PROVE  /\ "sig_shutdown" \in raised' /\ c <= 3 /\ c # 3
               /\ c = 2 => prog'[Runner(1)'].pc = "exit"
               /\ c = 1 => prog'[Boot].pc # "start"
    <3>1. "sig_shutdown" \in raised /\ n <= 3
      BY <2>4 DEF Nested, SignalsOK
    <3>2. c <= 3 /\ c # 3
      BY <1>1, <1>3, <3>1
    <3>3. c = 2 => prog'[Runner(1)'].pc = "exit"
      <4>1. SUFFICES ASSUME c = 2 PROVE prog'[Runner(1)'].pc = "exit"
        OBVIOUS
      <4>2. p = 1 /\ Runner(1)' = Runner(1)
        BY <1>1, <1>3, <2>2, <4>1
      <4> QED  BY <1>5, <2>4, <4>2 DEF os
    <3>4. c = 1 => prog'[Boot].pc # "start"
      <4>1. SUFFICES ASSUME c = 1 PROVE prog'[Boot].pc # "start"
        OBVIOUS
      <4>2. p = 0
        BY <1>1, <1>3, <4>1
      <4>3. Boot = os
        BY <1>1, <4>2 DEF Nested, ProcessOK, os
      <4> QED  BY <1>5, <4>3
    <3> QED  BY <1>4, <3>1, <3>2, <3>3, <3>4
  <2> QED  BY <1>4, <2>1, <2>3, <2>4 DEF SignalsOK
<1>12. Nested(c, c)'
  <2>1. ASSUME NEW q \in Pids, q + 1 = c
        PROVE  LeafOK(c, c, q)'
    <3>1. q \in Nat
      BY IdFacts
    <3>2. q = p
      BY <1>1, <1>3, <2>1, <3>1
    <3> QED  BY <1>8, <3>2
  <2>2. c # c + 1
    BY <1>1
  <2> QED  BY <1>4, <1>7, <1>9, <1>10, <1>11, <2>1, <2>2 DEF Nested
<1> QED  BY <1>1, <1>4, <1>12 DEF SingleIInv

LEMMA ShellReaps ==
    ASSUME IInv, ProgIInv, ~fault, NEW n \in Nat, NEW k \in Nat, Nested(n, k),
           NEW os \in OsThreads, Reap_Command(os)
    PROVE  SingleIInv'
<1>1. /\ at[os] = "user" /\ prog[os].name = "shell" /\ prog[os].pc = "reap"
      /\ Reap(os, Head(prog[os].handles))
  BY DEF Reap_Command, In, Calling
<1>2. After(os)
  BY <1>1 DEF After
<1>3. PICK p \in Pids : /\ p + 1 < n /\ os = Runner(p) /\ ~Over(p) /\ ParentOK(p)
                        /\ process_table[p].name = "shell"
  BY <1>1, <1>2, ParentAtWork
<1>4. prog[os].handles = <<TidMin + p + 1>>
  BY <1>3 DEF ParentOK
<1>5. Head(prog[os].handles) = TidMin + p + 1 /\ Tail(prog[os].handles) = <<>>
  BY <1>4
<1> DEFINE frame == [prog[os] EXCEPT !.handles = <<>>, !.pc = Next_Prompt]
<1>6. prog' = [prog EXCEPT ![os] = frame]
  BY <1>5 DEF Reap_Command, ProgIInv, ProgTypes
<1>7. frame.name = "shell" /\ frame.pc = Next_Prompt
  BY <1>1 DEF ProgIInv, ProgTypes, Frames
<1> HIDE DEF frame
<1>8. LeafFrame(p + 1, p + 1, p, frame) /\ frame.pc # "start"
  BY <1>7 DEF LeafFrame, PlacesOf, Next_Prompt
<1>9. sig_shutdown => frame.pc = "exit"
  BY <1>7 DEF Nested, SignalsOK, Next_Prompt
<1> QED  BY <1>1, <1>2, <1>3, <1>5, <1>6, <1>7, <1>8, <1>9, ParentReaps

LEMMA KernelCloses ==
    ASSUME IInv, ProgIInv, ~fault, NEW n \in Nat, NEW k \in Nat, Nested(n, k), Shell_Close
    PROVE  SingleIInv'
<1>0. Boot \in OsThreads
  BY ControllerAssumption
<1>1. /\ at[Boot] = "user" /\ prog[Boot].name = "kernel" /\ prog[Boot].pc = "close"
      /\ Reap(Boot, prog[Boot].handles[1]) /\ Goto(Boot, "exit")
  BY DEF Shell_Close, In, Calling
<1>2. After(Boot)
  BY <1>1 DEF After
<1>3. PICK p \in Pids : /\ p + 1 < n /\ Boot = Runner(p) /\ ~Over(p) /\ ParentOK(p)
                        /\ process_table[p].name = "kernel"
  BY <1>0, <1>1, <1>2, ParentAtWork
<1>4. p # 1
  <2>1. p < n /\ "kernel" # "shell"
    BY <1>3, ParentFacts
  <2> QED  BY <1>3, <2>1 DEF Nested, ProcessOK
<1>5. prog[Boot].handles = <<TidMin + p + 1>>
  BY <1>3 DEF ParentOK
<1> DEFINE frame == [prog[Boot] EXCEPT !.pc = "exit"]
<1>6. /\ frame.name = "kernel" /\ frame.pc = "exit" /\ prog' = [prog EXCEPT ![Boot] = frame]
  BY <1>0, <1>1, FrameAt, GoesTo
<1> HIDE DEF frame
<1>7. LeafFrame(p + 1, p + 1, p, frame)
  BY <1>6 DEF LeafFrame, PlacesOf
<1>8. Reap(Runner(p), TidMin + p + 1)
  BY <1>1, <1>3, <1>5
<1>9. /\ prog' = [prog EXCEPT ![Runner(p)] = frame] /\ frame.name = prog[Runner(p)].name
      /\ at[Runner(p)] = "user" /\ After(Runner(p)) /\ frame.pc # "start"
  BY <1>1, <1>2, <1>3, <1>6
<1> QED  BY <1>3, <1>4, <1>7, <1>8, <1>9, ParentReaps

(* The kernel's own process is the last to be reaped, by itself.           *)
LEMMA KernelRemoved ==
    ASSUME IInv, ProgIInv, ~fault, NEW n \in Nat, NEW k \in Nat, Nested(n, k),
           In(Boot, "kernel", "remove"), Reap(Boot, TidMin), Goto(Boot, "off")
    PROVE  SingleIInv' /\ n = 1 /\ Over(0)
<1>0. Boot \in OsThreads /\ 0 \in Pids /\ TidMin + 0 = TidMin
  BY ControllerAssumption, IdFacts
<1>1. at[Boot] = "user" /\ prog[Boot].name = "kernel" /\ prog[Boot].pc = "remove"
  BY DEF In, Calling
<1>2. n > 0
  <2>1. n # 0
    BY <1>1 DEF Nested, OthersOK
  <2> QED  BY <2>1
<1>3. Runner(0) = Boot
  BY <1>0, <1>2 DEF Nested, ProcessOK
<1>4. Over(0)
  <2>1. SUFFICES ASSUME ~Over(0) PROVE FALSE
    OBVIOUS
  <2>2. CASE n = 1
    <3>1. LeafOK(n, k, 0)
      BY <1>0, <2>1, <2>2 DEF Nested
    <3> QED  BY <1>1, <1>3, <3>1 DEF LeafOK, LeafFrame, PlacesOf
  <2>3. CASE n > 1
    <3>1. ParentOK(0)
      BY <1>0, <2>3 DEF Nested
    <3> QED  BY <1>1, <1>3, <3>1 DEF ParentOK, Before, After
  <2> QED  BY <1>2, <2>2, <2>3
<1>5. n = 1 /\ process_table[0].name = "kernel"
  BY <1>0, <1>2, <1>4 DEF Nested, ProcessOK
<1>6. k = n
  BY <1>0, <1>5, NoHelper
<1>7. /\ IdsStacked(0, 0)' /\ Stacked(0, 0)' /\ Listed(0, 0)'
      /\ \A o \in OsThreads : stdtid_to_tid'[o] =
            IF o = Runner(0) THEN None ELSE stdtid_to_tid[o]
      /\ UNCHANGED <<sig_shutdown, raised, at, wait, fault>>
  <2>1. Reap(Boot, TidMin + 0)
    BY <1>0
  <2>2. k # n + 1 /\ 0 + 1 = n
    BY <1>5, <1>6
  <2> QED  BY <1>0, <2>1, <2>2, TopReaped
<1> DEFINE frame == [prog[Boot] EXCEPT !.pc = "off"]
<1>8. /\ frame.name = "kernel" /\ frame.pc = "off" /\ prog' = [prog EXCEPT ![Boot] = frame]
  BY <1>0, <1>1, FrameAt, GoesTo
<1> HIDE DEF frame
<1>9. prog'[Boot] = frame /\ \A o \in OsThreads : o # Boot => prog'[o] = prog[o]
  BY <1>0, <1>8 DEF ProgIInv, ProgTypes
<1>10. OthersOK(0)'
  <2>1. OthersOK(n)
    BY DEF Nested
  <2> QED  BY <1>1, <1>3, <1>7, <1>8, <1>9, <2>1 DEF OthersOK, Stray
<1>11. SignalsOK(0)'
  BY <1>7 DEF Nested, SignalsOK
<1>12. Nested(0, 0)'
  <2>1. \A q \in Pids : ~(q < 0) /\ ~(q + 1 = 0) /\ ~(q + 1 < 0)
    BY IdFacts
  <2> QED  BY <1>7, <1>10, <1>11, <2>1 DEF Nested
<1> QED  BY <1>4, <1>5, <1>7, <1>12 DEF SingleIInv

-----------------------------------------------------------------------------
(* Threads of the topmost process end.                                     *)

(* Who sleeps until the topmost process ends: the one below, if it does.   *)
LEMMA TopSleepers ==
    ASSUME IInv, NEW n \in Nat, NEW k \in Nat, Nested(n, k), NEW c \in Pids, c + 1 = n, NEW t
    PROVE  t \in Main(c).sleeped <=> \E q \in Pids : q + 1 = c /\ Asleep(q) /\ t = TidMin + q
<1>1. c \in Nat /\ c < n
  BY TopThreads
<1>2. CASE c = 0
  <2>1. Main(c).sleeped = {}
    BY <1>1, <1>2 DEF Nested, ProcessOK
  <2>2. \A q \in Pids : q + 1 # c
    BY <1>2, IdFacts
  <2> QED  BY <2>1, <2>2
<1>3. CASE c # 0
  <2>1. c - 1 \in Nat /\ c - 1 < n /\ (c - 1) + 1 = c
    BY <1>1, <1>3
  <2>2. PICK below \in Pids : below = c - 1
    BY <2>1, Bounds DEF Nested
  <2>3. ParentOK(below)
    BY <1>1, <2>1, <2>2 DEF Nested
  <2>4. Main(c).sleeped = IF Asleep(below) THEN {TidMin + below} ELSE {}
    <3>1. below + 1 = c
      BY <2>1, <2>2
    <3> QED  BY <2>3, <3>1 DEF ParentOK
  <2>5. \A q \in Pids : q + 1 = c <=> q = below
    BY <1>1, <2>1, <2>2, IdFacts
  <2> QED  BY <2>4, <2>5
<1> QED  BY <1>2, <1>3

(* Nobody spins in Stop.                                                   *)
LEMMA NobodySpins ==
    ASSUME IInv, NEW n \in Nat, NEW k \in Nat, Nested(n, k), NEW o \in OsThreads
    PROVE  at[o] \in {"none", "user", "register", "stop", "marking", "waiting", "woken",
                      "stopped"}
<1>1. CASE at[o] \notin {"none", "user"}
  <2>1. PICK p \in Pids : o = Runner(p) /\ ParentOK(p)
    BY <1>1, ParentAtWork
  <2> QED  BY <1>1, <2>1 DEF ParentOK
<1> QED  BY <1>1

(* Thread (q, t) is restarted when the topmost process ends.               *)
Freed(c, dying, q, t) ==
    <<c, TidMin + c>> \in dying /\ q + 1 = c /\ t = TidMin + q /\ Asleep(q)

(* What becomes of thread (q, t).                                          *)
EndedTo(c, dying, q, t) ==
    /\ threads'[q][t].os = threads[q][t].os
    /\ threads'[q][t].handler = threads[q][t].handler
    /\ threads'[q][t].state =
          IF <<q, t>> \in dying THEN "Exited"
          ELSE IF Freed(c, dying, q, t) /\ threads[q][t].state = "Blocked"
            THEN "Running" ELSE threads[q][t].state
    /\ threads'[q][t].waiting =
          IF <<q, t>> \in dying \/ Freed(c, dying, q, t) THEN {} ELSE threads[q][t].waiting
    /\ threads'[q][t].sleeped = IF <<q, t>> \in dying THEN {} ELSE threads[q][t].sleeped

(* What End_Threads does when it ends threads of the topmost process.      *)
TopEnded(n, c, dying) ==
    /\ \A q \in Pids : process_table'[q] =
          IF q = c /\ <<c, TidMin + c>> \in dying
            THEN [process_table[q] EXCEPT !.state = "Exited"] ELSE process_table[q]
    /\ \A q \in Pids, t \in Handles :
          /\ threads'[q][t] # None <=> threads[q][t] # None
          /\ threads[q][t] # None => EndedTo(c, dying, q, t)
    /\ \A o \in OsThreads :
          at'[o] = IF /\ at[o] = "waiting" /\ <<c, TidMin + c>> \in dying
                      /\ \E q \in Pids : q + 1 = c /\ o = Runner(q)
                     THEN "woken" ELSE at[o]
    /\ <<c, TidMin + c>> \in dying =>
          \A q \in Pids : q + 1 = c => at[Runner(q)] # "marking"
    /\ UNCHANGED <<pid_table, tid_table, tid_to_pid, stdtid_to_tid, wait, fault>>

LEMMA TopEnds ==
    ASSUME IInv, ~fault, NEW n \in Nat, NEW k \in Nat, Nested(n, k),
           NEW c \in Pids, c + 1 = n, NEW dying, NEW order, NEW os \in OsThreads,
           \A d \in dying : d = <<c, TidMin + c>> \/ (k = n + 1 /\ d = <<c, TidMin + n>>),
           End_Threads(os, dying, order)
    PROVE  TopEnded(n, c, dying)
<1>1. c \in Nat /\ c < n /\ TidMin \in Nat /\ n - 1 = c
  <2>1. c \in Nat /\ c < n /\ TidMin \in Nat
    BY TopThreads
  <2> QED  BY <2>1
<1>2. Known(TidMin + c) /\ Pid_Of(TidMin + c) = c /\ TidMin + c \in Handles
      /\ process_table[c].process_tid = TidMin + c /\ Main(c) # None
  BY <1>1, MainFacts
<1>3. k = n + 1 => Known(TidMin + n) /\ Pid_Of(TidMin + n) = c /\ TidMin + n \in Handles
                   /\ TidMin + n # TidMin + c /\ Helper(n).sleeped = {}
  <2>1. SUFFICES ASSUME k = n + 1
                 PROVE  Known(TidMin + n) /\ Pid_Of(TidMin + n) = c /\ TidMin + n \in Handles
                        /\ TidMin + n # TidMin + c /\ Helper(n).sleeped = {}
    OBVIOUS
  <2>2. HelperOK(n)
    BY <2>1 DEF Nested
  <2> QED  BY <1>1, <2>1, <2>2, HelperFacts DEF HelperOK
<1>4. ASSUME NEW d \in dying
      PROVE  /\ Known(d[2]) /\ Pid_Of(d[2]) = c /\ d[1] = c /\ d[2] \in Handles
             /\ d[2] = TidMin + c <=> d = <<c, TidMin + c>>
             /\ \A t : t \in Sleepers_Of(d) <=> d = <<c, TidMin + c>> /\ t \in Main(c).sleeped
  <2>1. CASE d = <<c, TidMin + c>>
    BY <1>2, <2>1 DEF Sleepers_Of, Main
  <2>2. CASE k = n + 1 /\ d = <<c, TidMin + n>>
    <3>1. Sleepers_Of(d) = {}
      BY <1>1, <1>3, <2>2 DEF Sleepers_Of, Helper
    <3>2. d # <<c, TidMin + c>> /\ d[2] = TidMin + n
      BY <1>3, <2>2
    <3> QED  BY <1>3, <2>2, <3>1, <3>2
  <2> QED  BY <2>1, <2>2
<1>5. Notifying(dying) = dying
  BY <1>4 DEF Notifying
<1>6. ASSUME NEW t \in Main(c).sleeped
      PROVE  \E q \in Pids : q + 1 = c /\ Asleep(q) /\ t = TidMin + q /\ Pid_Of(t) = q
                              /\ q < n /\ Main(q) # None
  <2>1. PICK q \in Pids : q + 1 = c /\ Asleep(q) /\ t = TidMin + q
    BY TopSleepers
  <2>2. q < n
    <3>1. q \in Nat
      BY IdFacts
    <3> QED  BY <1>1, <2>1, <3>1
  <2> QED  BY <2>1, <2>2, MainFacts
<1>7. ASSUME NEW t \in Sleepers(dying)
      PROVE  t \in Main(c).sleeped
  BY <1>4, <1>5 DEF Sleepers
<1>8. ASSUME NEW t \in Sleepers(dying)
      PROVE  threads[Pid_Of(t)][t] # None
  BY <1>6, <1>7 DEF Main
<1>9. /\ threads' = [p \in Pids |-> [t \in Handles |-> Ended(dying, order, p, t)]]
      /\ process_table' = [p \in Pids |->
            IF \E d \in dying : d[1] = p /\ d[2] = process_table[p].process_tid
              THEN [process_table[p] EXCEPT !.state = "Exited"]
              ELSE process_table[p]]
      /\ at' = [o \in OsThreads |-> IF Awakened(dying, o) THEN "woken" ELSE at[o]]
      /\ UNCHANGED <<pid_table, tid_table, tid_to_pid, stdtid_to_tid, wait, fault>>
      /\ ~Awaiting_Mark(dying, order)
  <2> DEFINE blocking == Blocking(dying, order)
  <2> DEFINE ending == {d \in dying : \A e \in blocking : d # e /\ <<d, e>> \in order}
  <2>1. blocking = {}
    BY NobodySpins DEF Blocking
  <2> HIDE DEF blocking
  <2>2. ending = dying
    BY <2>1
  <2> HIDE DEF ending
  <2>3. ~\E t \in Sleepers(ending) : threads[Pid_Of(t)][t] = None
    BY <1>8, <2>2
  <2>4. /\ ~Awaiting_Mark(ending, order)
        /\ threads' = [p \in Pids |-> [t \in Handles |-> Ended(ending, order, p, t)]]
        /\ process_table' = [p \in Pids |->
              IF \E d \in ending : d[1] = p /\ d[2] = process_table[p].process_tid
                THEN [process_table[p] EXCEPT !.state = "Exited"]
                ELSE process_table[p]]
        /\ at' = [o \in OsThreads |->
              IF o = os /\ blocking # {} THEN "stuck"
              ELSE IF Awakened(ending, o) THEN "woken" ELSE at[o]]
        /\ UNCHANGED <<pid_table, tid_table, tid_to_pid, stdtid_to_tid, wait, fault>>
    BY <2>3 DEF End_Threads, ids, blocking, ending
  <2> QED  BY <2>1, <2>2, <2>4
<1>10. ASSUME NEW q \in Pids, NEW t \in Handles
       PROVE  Notifiers(dying, q, t) = IF Freed(c, dying, q, t) THEN {<<c, TidMin + c>>} ELSE {}
  <2>1. ASSUME NEW d \in Notifiers(dying, q, t)
        PROVE  Freed(c, dying, q, t) /\ d = <<c, TidMin + c>>
    <3>1. d \in dying /\ Pid_Of(t) = q /\ t \in Sleepers_Of(d)
      BY <1>5, <2>1 DEF Notifiers
    <3>2. d = <<c, TidMin + c>> /\ t \in Main(c).sleeped
      BY <1>4, <3>1
    <3> QED  BY <1>6, <3>1, <3>2 DEF Freed
  <2>2. ASSUME Freed(c, dying, q, t)
        PROVE  <<c, TidMin + c>> \in Notifiers(dying, q, t)
    <3>1. <<c, TidMin + c>> \in dying /\ q + 1 = c /\ t = TidMin + q /\ Asleep(q)
      BY <2>2 DEF Freed
    <3>2. t \in Main(c).sleeped
      BY <3>1, TopSleepers
    <3>3. Pid_Of(t) = q
      <4>1. q \in Nat
        BY IdFacts
      <4>2. q < n
        BY <1>1, <3>1, <4>1
      <4> QED  BY <3>1, <4>2, MainFacts
    <3> QED  BY <1>4, <1>5, <3>1, <3>2, <3>3 DEF Notifiers
  <2> QED  BY <2>1, <2>2
<1>11. ASSUME NEW q \in Pids
       PROVE  process_table'[q] =
                IF q = c /\ <<c, TidMin + c>> \in dying
                  THEN [process_table[q] EXCEPT !.state = "Exited"] ELSE process_table[q]
  <2>1. (\E d \in dying : d[1] = q /\ d[2] = process_table[q].process_tid) <=>
           q = c /\ <<c, TidMin + c>> \in dying
    BY <1>2, <1>4
  <2> QED  BY <1>9, <2>1
<1>16. ASSUME NEW q, NEW t
       PROVE  ~Overtaken(dying, order, q, t)
  <2> SUFFICES ASSUME Overtaken(dying, order, q, t) PROVE FALSE
    OBVIOUS
  <2>1. <<q, t>> \in dying
    BY DEF Overtaken
  <2>2. PICK o \in OsThreads : at[o] = "marking" /\ wait[o].pid = q
    BY DEF Overtaken, Holds
  <2>3. PICK p \in Pids : p + 1 < n /\ o = Runner(p) /\ ParentOK(p)
    BY <2>2, ParentAtWork
  <2>4. wait[o].pid = p
    BY <2>2, <2>3 DEF ParentOK
  <2>5. <<q, t>>[1] = c
    BY <1>4, <2>1
  <2>6. p \in Nat
    BY IdFacts
  <2> QED  BY <1>1, <2>2, <2>3, <2>4, <2>5, <2>6
<1>12. ASSUME NEW o \in OsThreads
       PROVE  at'[o] = IF /\ at[o] = "waiting" /\ <<c, TidMin + c>> \in dying
                          /\ \E q \in Pids : q + 1 = c /\ o = Runner(q)
                         THEN "woken" ELSE at[o]
  <2>1. CASE at[o] # "waiting"
    <3>1. at[o] = "marking" => Notifiers(dying, wait[o].pid, wait[o].tid) = {}
      BY <1>9, <1>16 DEF Awaiting_Mark
    <3> QED  BY <1>9, <2>1, <3>1 DEF Awakened
  <2>2. CASE at[o] = "waiting"
    <3>1. PICK q \in Pids : q + 1 < n /\ o = Runner(q) /\ ~Over(q) /\ ParentOK(q)
      BY <2>2, ParentAtWork
    <3>2. wait[o].pid = q /\ wait[o].tid = TidMin + q /\ TidMin + q \in Handles /\ Asleep(q)
      <4>1. wait[o] = [pid |-> q, tid |-> TidMin + q, handles |-> <<TidMin + q + 1>>]
            /\ ~Over(q + 1)
        BY <2>2, <3>1 DEF ParentOK, After, Before
      <4>2. Asleep(q)
        BY <2>2, <3>1, <4>1 DEF Asleep
      <4>3. q \in Nat
        BY IdFacts
      <4>4. q < n
        BY <3>1, <4>3
      <4> QED  BY <4>1, <4>2, <4>4, MainFacts
    <3>3. Awakened(dying, o) <=> Freed(c, dying, q, TidMin + q)
      BY <1>10, <2>2, <3>2 DEF Awakened
    <3>4. ASSUME NEW r \in Pids, r + 1 = c, o = Runner(r)
          PROVE  r = q
      <4>1. r \in Nat /\ q \in Nat
        BY IdFacts
      <4>2. r < n /\ q < n
        BY <1>1, <3>1, <3>4, <4>1
      <4> QED  BY <3>1, <3>4, <4>2, RunnersDiffer
    <3>5. Freed(c, dying, q, TidMin + q) <=>
            <<c, TidMin + c>> \in dying /\ \E r \in Pids : r + 1 = c /\ o = Runner(r)
      BY <3>1, <3>2, <3>4 DEF Freed
    <3> QED  BY <1>9, <2>2, <3>3, <3>5
  <2> QED  BY <2>1, <2>2
<1>17. ASSUME <<c, TidMin + c>> \in dying, NEW q \in Pids, q + 1 = c, at[Runner(q)] = "marking"
       PROVE  FALSE
  <2>1. q \in Nat /\ q + 1 < n /\ q < n
    <3>1. q \in Nat
      BY IdFacts
    <3> QED  BY <1>1, <1>17, <3>1
  <2>2. ParentOK(q) /\ Runner(q) \in OsThreads /\ TidMin + q \in Handles
    BY <2>1, MainFacts DEF Nested
  <2>3. Asleep(q) /\ wait[Runner(q)].pid = q /\ wait[Runner(q)].tid = TidMin + q
    BY <1>17, <2>2 DEF ParentOK, Asleep
  <2>4. Freed(c, dying, q, TidMin + q)
    BY <1>17, <2>3 DEF Freed
  <2>5. Notifiers(dying, q, TidMin + q) # {}
    BY <1>10, <2>2, <2>4
  <2> QED  BY <1>9, <1>16, <1>17, <2>2, <2>3, <2>5 DEF Awaiting_Mark
<1>13. ASSUME NEW q \in Pids, NEW t \in Handles
       PROVE  /\ threads'[q][t] = Ended(dying, order, q, t)
              /\ threads[q][t] = None => threads'[q][t] = None
  BY <1>9 DEF Ended
<1>14. ASSUME NEW q \in Pids, NEW t \in Handles, threads[q][t] # None
       PROVE  /\ threads'[q][t] # None
              /\ EndedTo(c, dying, q, t)
  <2> DEFINE dies == <<q, t>> \in dying
             notifiers == Notifiers(dying, q, t)
             freed == Freed(c, dying, q, t)
             overtaken == notifiers # {} /\ Overtaken(dying, order, q, t)
             heard == {d \in notifiers : dies /\ ~overtaken => <<d, <<q, t>>>> \in order}
             First(d) == \A other \in heard : other = d \/ <<d, other>> \in order
             waked == IF /\ threads[q][t].state = "Blocked" \/ overtaken
                         /\ \E d \in heard : First(d)
                        THEN (CHOOSE d \in heard : First(d))[2] ELSE threads[q][t].waked_by
             waiting == IF dies THEN {} ELSE threads[q][t].waiting \ {d[2] : d \in notifiers}
             sleeped == IF \E d \in Notifying(dying) : d[2] = t /\ q = Pid_Of(t)
                          THEN {} ELSE threads[q][t].sleeped
             state == IF overtaken THEN "Running"
                      ELSE After_End(threads[q][t].state, dies, notifiers # {})
  <2>1. threads'[q][t] = [threads[q][t] EXCEPT !.waiting = waiting, !.sleeped = sleeped,
                                               !.state = state, !.waked_by = waked]
    BY <1>13, <1>14 DEF Ended
  <2>2. Ended(dying, order, q, t) \in Threads
    <3>1. dying \in SUBSET (Pids \X Handles)
      BY <1>2, <1>3, <1>4
    <3> QED  BY <1>14, <3>1, EndedThread
  <2>3. threads[q][t] \in Threads
    BY <1>14 DEF IInv, TypeOK
  <2>4. threads'[q][t] # None
    BY <1>13, <2>2, NoneFacts
  <2>5. state = IF dies THEN "Exited"
                ELSE IF freed /\ threads[q][t].state = "Blocked"
                  THEN "Running" ELSE threads[q][t].state
    <3>1. (notifiers # {} <=> freed) /\ ~overtaken
      BY <1>10, <1>16
    <3> QED  BY <3>1 DEF After_End
  <2>6. waiting = IF dies \/ freed THEN {} ELSE threads[q][t].waiting
    <3>1. CASE freed
      <4>1. q + 1 = c /\ t = TidMin + q /\ Asleep(q)
        BY <3>1 DEF Freed
      <4>2. q \in Nat
        BY IdFacts
      <4>3. q + 1 < n
        BY <1>1, <4>1, <4>2
      <4>4. ParentOK(q)
        BY <4>3 DEF Nested
      <4>5. Main(q).waiting = {TidMin + c}
        <5>1. TidMin + q + 1 = TidMin + c
          BY <1>1, <4>1, <4>2
        <5> QED  BY <4>1, <4>4, <5>1 DEF ParentOK
      <4>6. {d[2] : d \in notifiers} = {TidMin + c}
        <5>1. notifiers = {<<c, TidMin + c>>}
          BY <1>10, <3>1
        <5> QED  BY <5>1
      <4>7. threads[q][t] = Main(q)
        BY <4>1 DEF Main
      <4> HIDE DEF notifiers
      <4> QED  BY <3>1, <4>5, <4>6, <4>7
    <3>2. CASE ~freed
      <4>1. notifiers = {}
        BY <1>10, <3>2
      <4> HIDE DEF notifiers
      <4> QED  BY <3>2, <4>1
    <3> QED  BY <3>1, <3>2
  <2>7. sleeped = IF dies THEN {} ELSE threads[q][t].sleeped
    <3>1. ASSUME NEW d \in Notifying(dying), d[2] = t, q = Pid_Of(t)
          PROVE  dies
      <4>0. d \in dying
        BY <1>5
      <4>1. d = <<c, TidMin + c>> \/ d = <<c, TidMin + n>>
        BY <4>0
      <4>2. q = c
        BY <1>4, <3>1, <4>0
      <4> QED  BY <3>1, <4>0, <4>1, <4>2
    <3>2. dies => <<q, t>>[2] = t /\ q = Pid_Of(t)
      <4>1. SUFFICES ASSUME dies PROVE q = Pid_Of(t)
        OBVIOUS
      <4>2. Pid_Of(<<q, t>>[2]) = c /\ <<q, t>>[1] = c
        BY <1>4, <4>1
      <4> QED  BY <4>2
    <3> QED  BY <1>5, <3>1, <3>2
  <2> HIDE DEF waiting, sleeped, state, waked, heard, First, overtaken, notifiers
  <2>8. /\ threads'[q][t].os = threads[q][t].os
        /\ threads'[q][t].handler = threads[q][t].handler
        /\ threads'[q][t].state = state /\ threads'[q][t].waiting = waiting
        /\ threads'[q][t].sleeped = sleeped
    BY <2>1, <2>3 DEF Threads
  <2> QED  BY <2>4, <2>5, <2>6, <2>7, <2>8 DEF EndedTo
<1>15. ASSUME NEW q \in Pids, NEW t \in Handles
       PROVE  threads'[q][t] # None <=> threads[q][t] # None
  BY <1>13, <1>14
<1> QED  BY <1>9, <1>11, <1>12, <1>14, <1>15, <1>17 DEF TopEnded

(* The topmost process ends: its threads exit, and who waits is restarted. *)
LEMMA TopExits ==
    ASSUME IInv, ProgIInv, ~fault, NEW n \in Nat, NEW k \in Nat, Nested(n, k),
           NEW p \in Pids, p + 1 = n, ~Over(p), LeafOK(n, k, p),
           Exit(Runner(p)) \/ Exit_Unknown(Runner(p)),
           p = 1 => prog[Runner(p)].pc # "start",
           NEW frame, prog' = [prog EXCEPT ![Runner(p)] = frame],
           frame.pc = IF p = 0 THEN "remove" ELSE "return"
    PROVE  SingleIInv'
<1> DEFINE dying == {<<p, t>> : t \in {u \in Handles : threads[p][u] # None}}
<1>0. /\ p \in Nat /\ p < n /\ n > 0 /\ TidMin + p \in Handles /\ Runner(p) \in OsThreads
      /\ Get_TID(Runner(p)) = TidMin + p /\ tid_to_pid[TidMin + p] = p
      /\ Known(TidMin + p) /\ process_table[p].process_tid = TidMin + p
      /\ process_table[p] \in Processes /\ stdtid_to_tid[Runner(p)] \notin {None, 0}
      /\ Main(p) # None /\ n - 1 = p
  <2>1. p \in Nat /\ p < n /\ n > 0 /\ n - 1 = p
    BY IdFacts
  <2> QED  BY <2>1, MainFacts, NoneFacts
<1>1. PICK order : End_Threads(Runner(p), dying, order) /\ UNCHANGED signals
  <2> DEFINE tid == Get_TID(Runner(p))
             pid == tid_to_pid[tid]
             main == process_table[pid].process_tid
             all == IF tid = main
                      THEN {<<pid, t>> : t \in {u \in Handles : threads[pid][u] # None}}
                      ELSE {<<pid, tid>>}
             order == {pair \in all \X all : LET c == pair[1]  d == pair[2] IN
                          c = d \/ d[2] = main \/ (c[2] # main /\ c[2] < d[2])}
  <2>1. ~Exit_Unknown(Runner(p))
    BY <1>0 DEF Exit_Unknown
  <2>2. End_Threads(Runner(p), all, order) /\ UNCHANGED signals
    BY <2>1 DEF Exit
  <2>3. all = dying
    BY <1>0
  <2> HIDE DEF all, order, dying
  <2> QED  BY <2>2, <2>3
<1>2. ASSUME NEW q \in Pids, NEW t \in Handles
      PROVE  <<q, t>> \in dying <=> q = p /\ ThreadAt(n, k, p, t)
  BY DEF Nested, Stacked
<1>3. \A d \in dying : d = <<p, TidMin + p>> \/ (k = n + 1 /\ d = <<p, TidMin + n>>)
  BY <1>2 DEF ThreadAt
<1>4. <<p, TidMin + p>> \in dying
  BY <1>0, <1>2 DEF ThreadAt
<1> HIDE DEF dying
<1>5. TopEnded(n, p, dying)
  BY <1>0, <1>1, <1>3, TopEnds
<1>6. /\ UNCHANGED <<pid_table, tid_table, tid_to_pid, stdtid_to_tid, wait, fault,
                     sig_shutdown, raised>>
      /\ \A q \in Pids : q # p => process_table'[q] = process_table[q]
      /\ process_table'[p] = [process_table[p] EXCEPT !.state = "Exited"]
      /\ \A q \in Pids, t \in Handles :
            /\ threads'[q][t] # None <=> threads[q][t] # None
            /\ threads[q][t] # None => EndedTo(p, dying, q, t)
  BY <1>1, <1>4, <1>5 DEF TopEnded, signals
<1>7. /\ process_table'[p] # None /\ process_table'[p].process_tid = TidMin + p
      /\ process_table'[p].name = process_table[p].name /\ process_table'[p].state = "Exited"
  <2>1. process_table'[p] \in Processes
    BY <1>0, <1>6 DEF Processes, States
  <2> QED  BY <1>0, <1>6, <2>1, NoneFacts DEF Processes
<1>8. /\ IdsStacked(n, k)' /\ Stacked(n, k)' /\ Listed(n, k)'
      /\ \A q \in Pids : q < n => Runner(q)' = Runner(q)
      /\ k = n + 1 => Helper(n).os' = Helper(n).os
  <2>1. \A q \in Pids : /\ process_table'[q] # None <=> process_table[q] # None
                        /\ process_table[q] # None =>
                              process_table'[q].process_tid = process_table[q].process_tid
    BY <1>0, <1>6, <1>7, NoneFacts
  <2>2. \A q \in Pids, t \in Handles :
           /\ threads'[q][t] # None <=> threads[q][t] # None
           /\ threads[q][t] # None => threads'[q][t].os = threads[q][t].os
    BY ZenonT(60), <1>6 DEF EndedTo
  <2> QED  BY <1>6, <2>1, <2>2, SameShape
<1>9. /\ at[Runner(p)] = "user" /\ prog'[Runner(p)] = frame
      /\ \A o \in OsThreads : o # Runner(p) => prog'[o] = prog[o]
  BY <1>0 DEF LeafOK, ProgIInv, ProgTypes
<1>10. ASSUME NEW o \in OsThreads
       PROVE  /\ at[o] # "waiting" => at'[o] = at[o]
              /\ at[o] = "waiting" => at'[o] \in {"woken", "waiting"}
  BY <1>4, <1>5 DEF TopEnded
<1>11. /\ Main(p).state' = "Exited" /\ Main(p).waiting' = {} /\ Main(p).sleeped' = {}
       /\ Main(p).handler' = Main(p).handler /\ Over(p)'
  <2>1. EndedTo(p, dying, p, TidMin + p)
    BY <1>0, <1>6 DEF Main
  <2> QED  BY <1>4, <2>1 DEF EndedTo, Main, Over
<1>12. ASSUME NEW q \in Pids, q < p
       PROVE  /\ q \in Nat /\ q < n /\ q + 1 < n /\ Runner(q) \in OsThreads /\ Runner(q) # Runner(p)
              /\ Main(q).handler' = Main(q).handler /\ Main(q).sleeped' = Main(q).sleeped
              /\ Main(q).state' = IF q + 1 = p /\ Asleep(q) /\ Main(q).state = "Blocked"
                                    THEN "Running" ELSE Main(q).state
              /\ Main(q).waiting' = IF q + 1 = p /\ Asleep(q) THEN {} ELSE Main(q).waiting
              /\ ~Over(q) /\ ~Over(q)'
  <2>1. q \in Nat /\ q < n /\ q + 1 < n /\ q # p /\ q + 1 # n
    <3>1. q \in Nat
      BY IdFacts
    <3> QED  BY <1>0, <1>12, <3>1
  <2>2. TidMin + q \in Handles /\ Main(q) # None /\ Runner(q) \in OsThreads
    BY <2>1, MainFacts
  <2>3. Runner(q) # Runner(p)
    BY <1>0, <2>1, RunnersDiffer
  <2>4. EndedTo(p, dying, q, TidMin + q)
    BY <1>6, <2>2 DEF Main
  <2>5. <<q, TidMin + q>> \notin dying
    BY <1>2, <2>1, <2>2
  <2>6. Freed(p, dying, q, TidMin + q) <=> q + 1 = p /\ Asleep(q)
    BY <1>4 DEF Freed
  <2>7. /\ Main(q).handler' = Main(q).handler /\ Main(q).sleeped' = Main(q).sleeped
        /\ Main(q).state' = IF q + 1 = p /\ Asleep(q) /\ Main(q).state = "Blocked"
                                    THEN "Running" ELSE Main(q).state
        /\ Main(q).waiting' = IF q + 1 = p /\ Asleep(q) THEN {} ELSE Main(q).waiting
    BY <2>4, <2>5, <2>6 DEF EndedTo, Main
  <2>8. ~Over(q)
    BY <2>1 DEF Nested, ProcessOK
  <2>9. ~Over(q)'
    BY <2>7, <2>8 DEF Over
  <2> QED  BY <2>1, <2>2, <2>3, <2>7, <2>8, <2>9
<1>13. ProcessOK(n, p)'
  <2>1. ProcessOK(n, p)
    BY <1>0 DEF Nested
  <2>2. Runner(p)' = Runner(p) /\ at'[Runner(p)] = "user"
    BY <1>0, <1>8, <1>9, <1>10
  <2> QED  BY <1>0, <1>7, <1>9, <1>11, <2>1, <2>2 DEF ProcessOK
<1>14. ASSUME NEW q \in Pids, q < p
       PROVE  ProcessOK(n, q)'
  <2>1. ProcessOK(n, q)
    BY <1>12, <1>14 DEF Nested
  <2>2. Runner(q)' = Runner(q) /\ process_table'[q] = process_table[q]
        /\ prog'[Runner(q)] = prog[Runner(q)]
    BY <1>0, <1>6, <1>8, <1>9, <1>12, <1>14
  <2> QED  BY <1>12, <1>14, <2>1, <2>2 DEF ProcessOK
<1>15. ASSUME NEW q \in Pids, q < p
       PROVE  ParentOK(q)'
  <2>1. /\ ParentOK(q) /\ Runner(q)' = Runner(q) /\ prog'[Runner(q)] = prog[Runner(q)]
        /\ wait'[Runner(q)] = wait[Runner(q)] /\ process_table'[q] = process_table[q]
    BY <1>6, <1>8, <1>9, <1>12, <1>15 DEF Nested
  <2>2. CASE q + 1 < p
    <3>1. q + 1 \in Pids /\ q + 1 # p
      <4>1. q + 1 \in Nat /\ q + 1 < n
        BY <1>0, <1>12, <1>15, <2>2
      <4> QED  BY <1>0, <2>2, <4>1, Bounds DEF Nested
    <3>2. Main(q + 1).sleeped' = Main(q + 1).sleeped /\ Over(q + 1)' = Over(q + 1)
      <4>1. ~Over(q + 1) /\ ~Over(q + 1)' /\ Main(q + 1).sleeped' = Main(q + 1).sleeped
        BY <1>12, <2>2, <3>1
      <4>2. Over(q + 1)' = Over(q + 1)
        BY <4>1 DEF Over
      <4> QED  BY <4>1, <4>2
    <3>3. SameMain(q)
      BY <1>12, <1>15, <3>1 DEF SameMain
    <3>4. at'[Runner(q)] = at[Runner(q)]
      <4>1. ASSUME NEW r \in Pids, r + 1 = p
            PROVE  Runner(r) # Runner(q)
        <5>1. r \in Nat
          BY IdFacts
        <5>2. r < n /\ r # q
          BY <1>0, <1>12, <1>15, <3>1, <4>1, <5>1
        <5> QED  BY <1>12, <1>15, <5>2, RunnersDiffer
      <4> QED  BY <1>5, <1>12, <1>15, <4>1 DEF TopEnded
    <3> QED  BY <2>1, <3>2, <3>3, <3>4, Untouched
  <2>3. CASE q + 1 = p
    <3>1. PICK o \in OsThreads : o = Runner(q)
      BY <1>12, <1>15
    <3>2. /\ at'[o] = IF at[o] = "waiting" THEN "woken" ELSE at[o]
          /\ at[o] # "marking"
      BY <1>4, <1>5, <2>3, <3>1 DEF TopEnded
    <3>3. ~Over(q + 1) /\ Over(q + 1)' /\ Main(q + 1).sleeped' = {}
      BY <1>11, <2>3
    <3>4. ~Asleep(q)' /\ (Asleep(q) <=> at[o] \in {"stop", "waiting"})
      BY <3>1, <3>2, <3>3 DEF Asleep
    <3>5. /\ prog[o].handles = <<TidMin + q + 1>>
          /\ \/ at[o] = "user" /\ Before(o)
             \/ at[o] \in {"register", "stop", "waiting"} /\ After(o)
          /\ at[o] \in {"register", "stop", "waiting", "woken"} =>
                wait[o] = [pid |-> q, tid |-> TidMin + q, handles |-> <<TidMin + q + 1>>]
          /\ Main(q).state = IF at[o] = "waiting" THEN "Blocked" ELSE "Running"
          /\ Main(q).waiting = IF Asleep(q) THEN {TidMin + q + 1} ELSE {}
      BY <2>1, <3>1, <3>2, <3>3 DEF ParentOK
    <3>6. Main(q).state' = "Running" /\ Main(q).waiting' = {}
      BY <1>12, <1>15, <2>3, <3>4, <3>5
    <3>7. Before(o)' = Before(o) /\ After(o)' = After(o) /\ Runner(q)' = o
      BY <2>1, <3>1 DEF Before, After
    <3>8. prog'[o] = prog[o] /\ wait'[o] = wait[o]
      BY <2>1, <3>1
    <3> QED  BY <3>2, <3>3, <3>4, <3>5, <3>6, <3>7, <3>8 DEF ParentOK
  <2>4. q + 1 < p \/ q + 1 = p
    BY <1>0, <1>12, <1>15
  <2> QED  BY <2>2, <2>3, <2>4
<1>16. k = n + 1 => HelperOK(n)'
  <2>1. SUFFICES ASSUME k = n + 1 PROVE HelperOK(n)'
    OBVIOUS
  <2>2. /\ TidMin + n \in Handles /\ Helper(n) # None /\ Helper(n).os \in OsThreads
        /\ Helper(n).os # Runner(p)
    BY <1>0, <2>1, HelperFacts
  <2>3. HelperOK(n) /\ Helper(n).os' = Helper(n).os
    BY <1>8, <2>1 DEF Nested
  <2>4. EndedTo(p, dying, p, TidMin + n)
    BY <1>0, <1>6, <2>2 DEF Helper
  <2>5. <<p, TidMin + n>> \in dying
    BY <1>0, <1>2, <2>1, <2>2 DEF ThreadAt
  <2>6. Helper(n).state' = "Exited" /\ Helper(n).waiting' = {} /\ Helper(n).sleeped' = {}
    BY <1>0, <2>4, <2>5 DEF EndedTo, Helper
  <2>7. Stray(Helper(n).os)'
    <3>1. PICK o \in OsThreads : o = Helper(n).os /\ o # Runner(p) /\ Stray(o) /\ o = Helper(n).os'
      BY <2>2, <2>3 DEF HelperOK
    <3>2. at'[o] = at[o] /\ prog'[o] = prog[o]
      BY <1>9, <1>10, <3>1 DEF Stray
    <3>3. Stray(o)'
      BY <3>1, <3>2 DEF Stray
    <3> QED  BY <3>1, <3>3 DEF Stray
  <2>8. process_table'[n - 1].name = "rgen"
    BY <1>0, <1>7, <2>3 DEF HelperOK
  <2> QED  BY <2>6, <2>7, <2>8 DEF HelperOK
<1>17. OthersOK(n)'
  <2>1. OthersOK(n)
    BY DEF Nested
  <2>2. ASSUME NEW o \in OsThreads, at'[o] = "none"
        PROVE  prog'[o] = Nothing
    BY <1>9, <1>10, <2>1, <2>2 DEF OthersOK
  <2>3. ASSUME NEW o \in OsThreads \ {Boot}, stdtid_to_tid'[o] \in {None, 0}
        PROVE  Stray(o)'
    <3>1. o # Runner(p) /\ Stray(o)
      BY <1>0, <1>6, <2>1, <2>3 DEF OthersOK
    <3>2. at'[o] = at[o] /\ prog'[o] = prog[o]
      BY <1>9, <1>10, <3>1 DEF Stray
    <3> QED  BY <3>1, <3>2 DEF Stray
  <2> QED  BY <1>0, <2>2, <2>3 DEF OthersOK
<1>18. SignalsOK(n)'
  <2>1. SignalsOK(n)
    BY DEF Nested
  <2>2. ASSUME n > 1
        PROVE  /\ 1 \in Pids /\ 1 < n /\ Runner(1)' = Runner(1) /\ Main(1).handler' = Main(1).handler
               /\ prog'[Runner(1)].pc # "start" => prog[Runner(1)].pc # "start"
    <3>1. 1 \in Pids /\ 1 < n
      BY <2>2, Bounds DEF Nested
    <3>2. Runner(1)' = Runner(1)
      BY <1>8, <3>1
    <3>3. CASE p = 1
      BY <1>11, <3>1, <3>2, <3>3
    <3>4. CASE p # 1
      <4>1. 1 < p
        BY <1>0, <2>2, <3>4
      <4>2. prog'[Runner(1)] = prog[Runner(1)]
        BY <1>9, <1>12, <3>1, <4>1
      <4> QED  BY <1>12, <3>1, <3>2, <4>1, <4>2
    <3> QED  BY <3>3, <3>4
  <2>3. n > 1 /\ prog'[Runner(1)'].pc # "start" => Main(1).handler' = "sig_shutdown"
    BY <2>1, <2>2 DEF SignalsOK
  <2>4. ASSUME sig_shutdown
        PROVE  /\ "sig_shutdown" \in raised /\ n <= 3
               /\ n = 3 => process_table'[2].name = "shutdown"
               /\ n = 2 => Over(1)'
               /\ n = 1 => prog'[Boot].pc # "start"
    <3>1. "sig_shutdown" \in raised /\ n <= 3 /\ (n = 3 => process_table[2].name = "shutdown")
      BY <2>1, <2>4 DEF SignalsOK
    <3>2. n = 3 => process_table'[2].name = "shutdown"
      <4>1. n = 3 => p = 2
        BY <1>0
      <4> QED  BY <1>7, <3>1, <4>1
    <3>3. n = 2 => Over(1)'
      <4>1. n = 2 => p = 1
        BY <1>0
      <4> QED  BY <1>11, <4>1
    <3>4. n = 1 => prog'[Boot].pc # "start"
      <4>1. SUFFICES ASSUME n = 1 PROVE prog'[Boot].pc # "start"
        OBVIOUS
      <4>2. p = 0
        BY <1>0, <4>1
      <4>3. Runner(p) = Boot
        BY <1>0, <4>2 DEF Nested, ProcessOK
      <4> QED  BY <1>9, <4>2, <4>3
    <3> QED  BY <3>1, <3>2, <3>3, <3>4
  <2> QED  BY <1>6, <2>1, <2>3, <2>4 DEF SignalsOK
<1>19. Nested(n, k)'
  <2>1. ASSUME NEW q \in Pids, q < n
        PROVE  ProcessOK(n, q)' /\ (q + 1 = n => q = p) /\ (q + 1 < n => q < p)
    <3>1. q \in Nat
      BY IdFacts
    <3>2. q = p \/ q < p
      BY <1>0, <2>1, <3>1
    <3>3. (q + 1 = n => q = p) /\ (q + 1 < n => q < p)
      BY <1>0, <3>1
    <3> QED  BY <1>13, <1>14, <3>2, <3>3
  <2>2. \A q \in Pids : q + 1 = n \/ q + 1 < n => q < n
    BY IdFacts
  <2> QED  BY <1>8, <1>11, <1>15, <1>16, <1>17, <1>18, <2>1, <2>2 DEF Nested
<1> QED  BY <1>6, <1>19 DEF SingleIInv

LEMMA ProgramExits ==
    ASSUME IInv, ProgIInv, ~fault, NEW n \in Nat, NEW k \in Nat, Nested(n, k),
           NEW os \in OsThreads, NEW pc, at[os] = "user", Leave(os, pc),
           \/ prog[os].name \in {"shell", "rgen", "shutdown"} /\ prog[os].pc = "exit"
              /\ pc = "return"
           \/ prog[os].name = "md" /\ prog[os].pc = "start" /\ pc = "return"
           \/ prog[os].name = "kernel" /\ prog[os].pc = "exit" /\ pc = "remove"
    PROVE  SingleIInv'
<1>1. PICK p \in Pids : p + 1 = n /\ os = Runner(p) /\ ~Over(p) /\ LeafOK(n, k, p)
                        /\ process_table[p].name = prog[os].name
  BY LeafAtWork DEF Before, After
<1>2. p < n /\ ProcessOK(n, p)
  <2>1. p < n
    BY <1>1, IdFacts
  <2> QED  BY <2>1 DEF Nested
<1>3. prog[os].name = "kernel" <=> p = 0
  <2>1. "kernel" \notin Programs
    BY SessionAssumption
  <2> QED  BY <1>1, <1>2, <2>1 DEF ProcessOK
<1>4. p = 1 => prog[os].name = "shell"
  BY <1>1, <1>2 DEF ProcessOK
<1> DEFINE frame == [prog[os] EXCEPT !.pc = pc]
<1>5. /\ frame.pc = pc /\ prog' = [prog EXCEPT ![os] = frame]
  BY FrameAt, GoesTo DEF Leave
<1>6. frame.pc = IF p = 0 THEN "remove" ELSE "return"
  BY <1>3, <1>5
<1> HIDE DEF frame
<1>7. p = 1 => prog[os].pc # "start"
  BY <1>4
<1>8. Exit(os) \/ Exit_Unknown(os)
  BY DEF Leave
<1>9. /\ Exit(Runner(p)) \/ Exit_Unknown(Runner(p))
      /\ prog' = [prog EXCEPT ![Runner(p)] = frame]
      /\ p = 1 => prog[Runner(p)].pc # "start"
  BY <1>1, <1>5, <1>7, <1>8
<1> QED  BY <1>1, <1>6, <1>9, TopExits

-----------------------------------------------------------------------------
(* OS threads that no process waits for: helpers, and those of threads     *)
(* that have exited or been reaped.                                        *)

LEMMA IdleMoves ==
    ASSUME IInv, NEW n \in Nat, NEW k \in Nat, Nested(n, k), NEW os \in OsThreads,
           os # Boot, \A p \in Pids : p < n /\ os = Runner(p) => Over(p) /\ at'[os] = "none",
           UNCHANGED <<pid_table, tid_table, tid_to_pid, sig_shutdown, raised, wait>>,
           \A q \in Pids : process_table'[q] = process_table[q],
           \A o \in OsThreads : o # os => at'[o] = at[o] /\ prog'[o] = prog[o],
           \A o \in OsThreads :
              \/ stdtid_to_tid'[o] = stdtid_to_tid[o]
              \/ stdtid_to_tid'[o] \in {None, 0} /\ stdtid_to_tid[o] \in {None, 0},
           \/ at'[os] = "none" /\ prog'[os] = Nothing
           \/ /\ at'[os] = "user"
              /\ \/ prog'[os].pc = "return"
                 \/ prog'[os].name = "Signalize_EOF" /\ prog'[os].pc = "exit",
           \A q \in Pids, t \in Handles :
              /\ threads'[q][t] # None <=> threads[q][t] # None
              /\ threads[q][t] # None => threads'[q][t].os = threads[q][t].os
              /\ t # TidMin + n => SameThread(q, t),
           k = n + 1 =>
              /\ Helper(n).waiting' = {} /\ Helper(n).sleeped' = {}
              /\ \/ Helper(n).state' = "Exited"
                 \/ /\ Helper(n).state' = Helper(n).state
                    /\ os = Helper(n).os /\ Helper(n).state # "Exited" =>
                          at'[os] = "user" /\ prog'[os].pc # "return"
    PROVE  Nested(n, k)'
<1>1. IdsStacked(n, k)' /\ Stacked(n, k)'
  BY DEF Nested, IdsStacked, Stacked, ThreadAt
<1>2. ASSUME NEW p \in Pids, NEW t \in Handles, ThreadAt(n, k, p, t)
      PROVE  threads'[p][t].os = threads[p][t].os
  BY <1>2 DEF Nested, Stacked
<1>3. Listed(n, k)'
  <2>1. ASSUME NEW p \in Pids, NEW t \in Handles, ThreadAt(n, k, p, t)
        PROVE  stdtid_to_tid'[threads'[p][t].os] = t
    <3>1. threads[p][t] \in Threads
      BY <2>1 DEF Nested, Stacked, IInv, TypeOK
    <3>2. PICK o \in OsThreads : o = threads[p][t].os /\ o = threads'[p][t].os
      BY <1>2, <2>1, <3>1 DEF Threads
    <3>3. stdtid_to_tid[o] = t
      BY <2>1, <3>2 DEF Nested, Listed
    <3>4. t \notin {None, 0}
      <4>1. p < n \/ k = n + 1
        BY <2>1 DEF ThreadAt
      <4>2. TidMin + p \in Tid!Ids \/ TidMin + n \in Tid!Ids
        BY <4>1, Bounds DEF Nested
      <4>3. t \in Tid!Ids
        <5>1. CASE p < n /\ t = TidMin + p
          BY <5>1, Bounds DEF Nested
        <5>2. CASE k = n + 1 /\ t = TidMin + n
          BY <5>2, Bounds DEF Nested
        <5> QED  BY <2>1, <5>1, <5>2 DEF ThreadAt
      <4> QED  BY <4>3, Bounds, NoneFacts DEF Nested
    <3> QED  BY <3>2, <3>3, <3>4
  <2>2. ASSUME NEW o \in OsThreads
        PROVE  \/ stdtid_to_tid'[o] \in {None, 0}
               \/ \E p \in Pids : /\ ThreadAt(n, k, p, stdtid_to_tid'[o])
                                  /\ threads'[p][stdtid_to_tid'[o]].os = o
    <3>1. CASE stdtid_to_tid[o] \in {None, 0}
      BY <3>1
    <3>2. CASE stdtid_to_tid[o] \notin {None, 0}
      <4>1. PICK p \in Pids : /\ ThreadAt(n, k, p, stdtid_to_tid[o])
                              /\ threads[p][stdtid_to_tid[o]].os = o
        BY <3>2 DEF Nested, Listed
      <4>2. stdtid_to_tid[o] \in Handles /\ stdtid_to_tid'[o] = stdtid_to_tid[o]
        BY <3>2 DEF IInv, TypeOK
      <4> QED  BY <1>2, <4>1, <4>2
    <3> QED  BY <3>1, <3>2
  <2> QED  BY <2>1, <2>2 DEF Listed, ThreadAt
<1>4. Stray(os)'
  BY DEF Stray
<1>5. ASSUME NEW p \in Pids, p < n
      PROVE  /\ p \in Nat /\ Runner(p) \in OsThreads /\ Main(p).sleeped' = Main(p).sleeped
             /\ Runner(p)' = Runner(p) /\ Over(p)' = Over(p) /\ SameMain(p)
             /\ ~Over(p) => Runner(p) # os
             /\ ProcessOK(n, p) /\ (p + 1 < n => ParentOK(p))
             /\ p + 1 = n /\ ~Over(p) => LeafOK(n, k, p)
  <2>1. /\ p \in Nat /\ TidMin + p \in Handles /\ Runner(p) \in OsThreads /\ TidMin \in Nat
    BY <1>5, MainFacts, ControllerAssumption
  <2>2. TidMin + p # TidMin + n
    BY <1>5, <2>1
  <2>3. threads[p][TidMin + p] # None /\ SameThread(p, TidMin + p)
    BY <1>5, <2>1, <2>2, MainFacts DEF Main
  <2>4. /\ Runner(p)' = Runner(p) /\ Over(p)' = Over(p) /\ SameMain(p)
        /\ Main(p).sleeped' = Main(p).sleeped
    BY <2>1, <2>3 DEF Runner, Over, SameMain, SameThread, Main
  <2> QED  BY <1>5, <2>1, <2>3, <2>4 DEF Nested
<1>6. ASSUME NEW p \in Pids, p < n, Runner(p) # os
      PROVE  /\ ProcessOK(n, p)' /\ (p + 1 < n => ParentOK(p)')
             /\ p + 1 = n /\ ~Over(p)' => LeafOK(n, k, p)'
  <2>1. /\ at'[Runner(p)] = at[Runner(p)] /\ prog'[Runner(p)] = prog[Runner(p)]
        /\ wait'[Runner(p)] = wait[Runner(p)] /\ process_table'[p] = process_table[p]
    BY <1>5, <1>6
  <2>2. p + 1 < n => Main(p + 1).sleeped' = Main(p + 1).sleeped /\ Over(p + 1)' = Over(p + 1)
    <3>1. SUFFICES ASSUME p + 1 < n
                   PROVE  Main(p + 1).sleeped' = Main(p + 1).sleeped /\ Over(p + 1)' = Over(p + 1)
      OBVIOUS
    <3>2. p + 1 \in Nat
      BY <1>5, <1>6
    <3>3. p + 1 \in Pids
      BY <3>1, <3>2, Bounds DEF Nested
    <3> QED  BY <1>5, <3>1, <3>3
  <2>3. Runner(p)' = Runner(p) /\ Over(p)' = Over(p) /\ SameMain(p)
        /\ ProcessOK(n, p) /\ (p + 1 < n => ParentOK(p))
        /\ (p + 1 = n /\ ~Over(p) => LeafOK(n, k, p))
    BY <1>5, <1>6
  <2> QED  BY <2>1, <2>2, <2>3, Untouched
<1>7. ASSUME NEW p \in Pids, p < n, Runner(p) = os
      PROVE  /\ ProcessOK(n, p)' /\ ~(p + 1 < n) /\ Over(p)' /\ p + 1 = n
  <2>1. Over(p) /\ at'[os] = "none" /\ ProcessOK(n, p)
    BY <1>5, <1>7
  <2>2. p + 1 = n /\ p # 0 /\ p \in Nat
    <3>1. p + 1 = n
      BY <2>1 DEF ProcessOK
    <3>2. p # 0
      BY <1>7, <2>1 DEF ProcessOK
    <3> QED  BY <1>5, <1>7, <3>1, <3>2
  <2>3. ~(p + 1 < n) /\ p > 0
    BY <2>2
  <2>4. SameMain(p) /\ Runner(p)' = os /\ Over(p)'
    BY <1>5, <1>7, <2>1
  <2>5. ProcessOK(n, p)'
    BY <2>1, <2>2, <2>3, <2>4 DEF ProcessOK, SameMain
  <2> QED  BY <2>2, <2>3, <2>4, <2>5
<1>8. k = n + 1 => HelperOK(n)'
  <2>1. SUFFICES ASSUME k = n + 1 PROVE HelperOK(n)'
    OBVIOUS
  <2>2. PICK h \in OsThreads : h = Helper(n).os
    BY <2>1, HelperFacts
  <2>3. HelperOK(n) /\ n - 1 \in Pids /\ n - 1 < n /\ TidMin + n \in Handles /\ Helper(n) # None
    BY <2>1, HelperFacts DEF Nested
  <2>4. Helper(n).os' = h /\ Over(n - 1)' = Over(n - 1)
    BY <1>5, <2>2, <2>3 DEF Helper
  <2>5. Stray(h)'
    <3>1. CASE h = os
      BY <1>4, <3>1 DEF Stray
    <3>2. CASE h # os
      BY <2>2, <2>3, <3>2 DEF HelperOK, Stray
    <3> QED  BY <3>1, <3>2
  <2>6. ASSUME Helper(n).state' # "Exited"
        PROVE  /\ Helper(n).state' = "Running" /\ ~Over(n - 1)'
               /\ at'[h] = "user" /\ prog'[h].pc # "return"
    <3>1. Helper(n).state' = Helper(n).state /\ Helper(n).state # "Exited"
      BY <2>1, <2>6
    <3>2. Helper(n).state = "Running" /\ ~Over(n - 1) /\ at[h] = "user" /\ prog[h].pc # "return"
      BY <2>2, <2>3, <3>1 DEF HelperOK
    <3>3. at'[h] = "user" /\ prog'[h].pc # "return"
      BY <2>1, <2>2, <2>6, <3>1, <3>2
    <3> QED  BY <2>4, <3>1, <3>2, <3>3
  <2>7. Stray(Helper(n).os)'
    BY <2>4, <2>5 DEF Stray
  <2> QED  BY <2>1, <2>3, <2>4, <2>6, <2>7 DEF HelperOK
<1>9. OthersOK(n)'
  <2>1. OthersOK(n) /\ Boot \in OsThreads
    BY ControllerAssumption DEF Nested
  <2>2. ASSUME NEW o \in OsThreads, at'[o] = "none"
        PROVE  prog'[o] = Nothing
    BY <2>1, <2>2 DEF OthersOK
  <2>3. ASSUME NEW o \in OsThreads \ {Boot}, stdtid_to_tid'[o] \in {None, 0}
        PROVE  Stray(o)'
    <3>1. CASE o = os
      BY <1>4, <3>1
    <3>2. CASE o # os
      <4>1. Stray(o)
        BY <2>1, <2>3 DEF OthersOK
      <4> QED  BY <3>2, <4>1 DEF Stray
    <3> QED  BY <3>1, <3>2
  <2> QED  BY <2>1, <2>2, <2>3 DEF OthersOK
<1>10. SignalsOK(n)'
  <2>1. SignalsOK(n) /\ Boot \in OsThreads
    BY ControllerAssumption DEF Nested
  <2>2. ASSUME n > 1
        PROVE  /\ 1 \in Pids /\ 1 < n /\ Runner(1)' = Runner(1)
               /\ Main(1).handler' = Main(1).handler
               /\ prog'[Runner(1)].pc # "start" => prog[Runner(1)].pc # "start"
               /\ Over(1)' = Over(1) /\ (~Over(1) => prog'[Runner(1)] = prog[Runner(1)])
    <3>1. 1 \in Pids /\ 1 < n
      BY <2>2, Bounds DEF Nested
    <3>2. /\ Runner(1) \in OsThreads /\ Runner(1)' = Runner(1)
          /\ Main(1).handler' = Main(1).handler
          /\ Over(1)' = Over(1) /\ (~Over(1) => Runner(1) # os) /\ ProcessOK(n, 1)
      <4>1. SameMain(1)
        BY <1>5, <3>1
      <4> QED  BY <1>5, <3>1, <4>1 DEF SameMain
    <3>3. CASE Runner(1) # os
      BY <3>1, <3>2, <3>3
    <3>4. CASE Runner(1) = os
      <4>1. Over(1)
        BY <3>2, <3>4
      <4>2. prog[os].pc = "return" \/ at[os] = "none"
        BY <3>2, <3>4, <4>1 DEF ProcessOK
      <4>3. at[os] = "none" => prog[os].pc = "none"
        BY <2>1 DEF Nested, OthersOK, Nothing, Started
      <4> QED  BY <3>1, <3>2, <4>1, <4>2, <4>3, <3>4
    <3> QED  BY <3>3, <3>4
  <2>3. n > 1 /\ prog'[Runner(1)'].pc # "start" => Main(1).handler' = "sig_shutdown"
    BY <2>1, <2>2 DEF SignalsOK
  <2>4. ASSUME sig_shutdown
        PROVE  /\ "sig_shutdown" \in raised /\ n <= 3
               /\ n = 3 => process_table'[2].name = "shutdown"
               /\ n = 2 /\ ~Over(1)' => prog'[Runner(1)'].pc = "exit"
               /\ n = 1 => prog'[Boot].pc # "start"
    <3>1. n = 2 => n > 1
      OBVIOUS
    <3>2. n = 3 => 2 \in Pids
      BY Bounds DEF Nested
    <3> QED  BY <2>1, <2>2, <2>4, <3>1, <3>2 DEF SignalsOK
  <2> QED  BY <2>1, <2>3, <2>4 DEF SignalsOK
<1>11. ASSUME NEW p \in Pids, p < n
       PROVE  /\ ProcessOK(n, p)' /\ (p + 1 < n => ParentOK(p)')
              /\ p + 1 = n /\ ~Over(p)' => LeafOK(n, k, p)'
  BY <1>6, <1>7, <1>11
<1>12. \A q \in Pids : q + 1 = n \/ q + 1 < n => q < n
  BY IdFacts
<1> QED  BY <1>1, <1>3, <1>8, <1>9, <1>10, <1>11, <1>12 DEF Nested

LEMMA IdleThread ==
    ASSUME IInv, NEW n \in Nat, NEW k \in Nat, Nested(n, k), NEW os \in OsThreads,
           at[os] = "user", prog[os].name = "Signalize_EOF", prog[os].pc \in {"start", "exit"}
    PROVE  /\ os # Boot /\ \A p \in Pids : p < n => os # Runner(p)
           /\ \/ k = n + 1 /\ os = Helper(n).os
              \/ stdtid_to_tid[os] \in {None, 0}
<1>1. ASSUME NEW p \in Pids, p < n, os = Runner(p)
      PROVE  FALSE
  <2>1. ProcessOK(n, p)
    BY <1>1 DEF Nested
  <2>2. "Signalize_EOF" \notin Programs
    BY SessionAssumption
  <2>3. prog[os].name \in {"kernel", "shell"} \cup Programs
    BY <1>1, <2>1 DEF ProcessOK
  <2> QED  BY <2>2, <2>3
<1>2. n = 0 => os # Boot
  BY DEF Nested, OthersOK
<1>3. n # 0 => os # Boot
  <2>1. SUFFICES ASSUME n # 0 PROVE os # Boot
    OBVIOUS
  <2>2. 0 \in Pids /\ 0 < n
    BY <2>1, IdFacts
  <2>3. Runner(0) = Boot
    BY <2>2 DEF Nested, ProcessOK
  <2> QED  BY <1>1, <2>2, <2>3
<1> QED  BY <1>1, <1>2, <1>3, WhoIs

LEMMA HelperReads ==
    ASSUME IInv, ProgIInv, ~fault, NEW n \in Nat, NEW k \in Nat, Nested(n, k),
           NEW os \in OsThreads, Read_Key(os)
    PROVE  SingleIInv'
<1>1. /\ at[os] = "user" /\ prog[os].name = "Signalize_EOF" /\ prog[os].pc = "start"
      /\ prog' = [prog EXCEPT ![os].pc = "exit"]
      /\ UNCHANGED <<pid_table, tid_table, process_table, threads, tid_to_pid, stdtid_to_tid,
                     sig_shutdown, raised, at, wait, fault>>
  BY DEF Read_Key, In, Calling, vars, ids, maps, signals
<1>2. os # Boot /\ \A p \in Pids : p < n => os # Runner(p)
  BY <1>1, IdleThread
<1>3. /\ prog'[os].name = "Signalize_EOF" /\ prog'[os].pc = "exit"
      /\ \A o \in OsThreads : o # os => prog'[o] = prog[o]
  BY <1>1 DEF ProgIInv, ProgTypes, Frames
<1>4. k = n + 1 => /\ Helper(n).waiting' = {} /\ Helper(n).sleeped' = {}
                   /\ Helper(n).state' = Helper(n).state
  BY <1>1 DEF Nested, HelperOK, Helper
<1>5. Nested(n, k)'
  BY <1>1, <1>2, <1>3, <1>4, SameThreads, IdleMoves
<1> QED  BY <1>1, <1>5 DEF SingleIInv

LEMMA HelperExits ==
    ASSUME IInv, ProgIInv, ~fault, NEW n \in Nat, NEW k \in Nat, Nested(n, k),
           NEW os \in OsThreads, In(os, "Signalize_EOF", "exit"), Leave(os, "return")
    PROVE  SingleIInv'
<1>1. /\ at[os] = "user" /\ prog[os].name = "Signalize_EOF" /\ prog[os].pc = "exit"
      /\ prog' = [prog EXCEPT ![os].pc = "return"]
      /\ Exit(os) \/ Exit_Unknown(os)
  BY DEF In, Calling, Leave, Goto
<1>2. os # Boot /\ \A p \in Pids : p < n => os # Runner(p)
  BY <1>1, IdleThread
<1>3. /\ prog'[os].pc = "return"
      /\ \A o \in OsThreads : o # os => prog'[o] = prog[o]
  BY <1>1 DEF ProgIInv, ProgTypes, Frames
<1>4. k = n + 1 \/ k = n
  BY Bounds DEF Nested
<1>5. CASE k = n + 1 /\ os = Helper(n).os
  <2>1. PICK c \in Pids : c = n - 1
    BY <1>5, HelperFacts
  <2>2. /\ c + 1 = n /\ c < n /\ TidMin + n \in Handles /\ TidMin + n # TidMin + c
        /\ tid_to_pid[TidMin + n] = c /\ Get_TID(os) = TidMin + n /\ Known(TidMin + n)
        /\ Helper(n) # None
    BY <1>5, <2>1, HelperFacts
  <2>3. process_table[c].process_tid = TidMin + c /\ TidMin + c \in Handles
    BY <2>2, MainFacts
  <2> DEFINE dying == {<<c, TidMin + n>>}
  <2>4. PICK order : End_Threads(os, dying, order) /\ UNCHANGED signals
    <3> DEFINE tid == Get_TID(os)
               pid == tid_to_pid[tid]
               main == process_table[pid].process_tid
               all == IF tid = main
                        THEN {<<pid, t>> : t \in {u \in Handles : threads[pid][u] # None}}
                        ELSE {<<pid, tid>>}
               order == {pair \in all \X all : LET e == pair[1]  d == pair[2] IN
                            e = d \/ d[2] = main \/ (e[2] # main /\ e[2] < d[2])}
    <3>1. ~Exit_Unknown(os)
      BY <2>2 DEF Exit_Unknown
    <3>2. End_Threads(os, all, order) /\ UNCHANGED signals
      BY <1>1, <3>1 DEF Exit
    <3>3. all = dying
      BY <2>2, <2>3
    <3> HIDE DEF all, order, dying
    <3> QED  BY <3>2, <3>3
  <2>5. <<c, TidMin + c>> \notin dying
    BY <2>2
  <2>6. \A d \in dying : d = <<c, TidMin + c>> \/ (k = n + 1 /\ d = <<c, TidMin + n>>)
    BY <1>5
  <2>7. \A q \in Pids, t \in Handles : <<q, t>> \in dying <=> q = c /\ t = TidMin + n
    OBVIOUS
  <2> HIDE DEF dying
  <2>8. TopEnded(n, c, dying)
    BY <2>2, <2>4, <2>6, TopEnds
  <2>9. ASSUME NEW q \in Pids, NEW t \in Handles, threads[q][t] # None
        PROVE  /\ threads'[q][t].os = threads[q][t].os
               /\ t # TidMin + n => SameThread(q, t)
    <3>1. EndedTo(c, dying, q, t) /\ threads'[q][t] # None
      BY <2>8, <2>9 DEF TopEnded
    <3>2. ~Freed(c, dying, q, t)
      BY <2>5 DEF Freed
    <3> QED  BY <2>7, <2>9, <3>1, <3>2 DEF EndedTo, SameThread
  <2>10. ASSUME NEW q \in Pids, NEW t \in Handles
         PROVE  /\ threads'[q][t] # None <=> threads[q][t] # None
                /\ threads[q][t] # None => threads'[q][t].os = threads[q][t].os
                /\ t # TidMin + n => SameThread(q, t)
    <3>1. threads'[q][t] # None <=> threads[q][t] # None
      BY <2>8 DEF TopEnded
    <3> QED  BY <2>9, <3>1 DEF SameThread
  <2>11. Helper(n).waiting' = {} /\ Helper(n).sleeped' = {} /\ Helper(n).state' = "Exited"
    <3>1. EndedTo(c, dying, c, TidMin + n)
      BY <2>1, <2>2, <2>8 DEF TopEnded, Helper
    <3>2. <<c, TidMin + n>> \in dying
      BY <2>2, <2>7
    <3> QED  BY <2>1, <3>1, <3>2 DEF EndedTo, Helper
  <2>12. /\ UNCHANGED <<pid_table, tid_table, tid_to_pid, stdtid_to_tid, sig_shutdown, raised,
                        wait, fault>>
         /\ \A q \in Pids : process_table'[q] = process_table[q]
         /\ \A o \in OsThreads : at'[o] = at[o]
    BY <2>4, <2>5, <2>8 DEF TopEnded, signals
  <2>13. Nested(n, k)'
    BY <1>1, <1>2, <1>3, <2>10, <2>11, <2>12, IdleMoves
  <2> QED  BY <2>12, <2>13 DEF SingleIInv
<1>6. CASE ~(k = n + 1 /\ os = Helper(n).os)
  <2>1. stdtid_to_tid[os] \in {None, 0}
    BY <1>1, <1>6, IdleThread
  <2>2. Get_TID(os) = 0
    BY <2>1 DEF Get_TID
  <2>3. ~Known(0)
    <3>1. 0 \in Handles /\ ~\E p \in Pids : ThreadAt(n, k, p, 0)
      <4>1. ASSUME NEW p \in Pids, ThreadAt(n, k, p, 0)
            PROVE  FALSE
        BY <4>1, Bounds DEF ThreadAt, Nested
      <4> QED  BY <4>1 DEF Handles
    <3>2. tid_to_pid[0] \in Pids => FALSE
      BY <3>1 DEF Nested, Stacked
    <3>3. tid_to_pid[0] = None
      BY <3>1, <3>2 DEF IInv, TypeOK
    <3> QED  BY <3>3 DEF Known
  <2>4. Exit_Unknown(os)
    BY <1>1, <2>2, <2>3 DEF Exit
  <2>5. /\ UNCHANGED <<pid_table, tid_table, process_table, threads, tid_to_pid,
                       sig_shutdown, raised, at, wait, fault>>
        /\ stdtid_to_tid' = Looked_Up(os) \/ UNCHANGED stdtid_to_tid
    BY <2>4 DEF Exit_Unknown, ids, signals
  <2>6. \A o \in OsThreads :
              \/ stdtid_to_tid'[o] = stdtid_to_tid[o]
              \/ stdtid_to_tid'[o] \in {None, 0} /\ stdtid_to_tid[o] \in {None, 0}
    BY <2>1, <2>5 DEF Looked_Up, Insert, IInv, TypeOK
  <2>7. k = n + 1 => /\ Helper(n).waiting' = {} /\ Helper(n).sleeped' = {}
                     /\ Helper(n).state' = Helper(n).state
    BY <2>5 DEF Nested, HelperOK, Helper
  <2>8. Nested(n, k)'
    BY <1>1, <1>2, <1>3, <1>6, <2>5, <2>6, <2>7, SameThreads, IdleMoves
  <2> QED  BY <2>5, <2>8 DEF SingleIInv
<1> QED  BY <1>5, <1>6

LEMMA ThreadReturns ==
    ASSUME IInv, ProgIInv, ~fault, NEW n \in Nat, NEW k \in Nat, Nested(n, k),
           NEW os \in OsThreads, Program_Return(os)
    PROVE  SingleIInv'
<1>1. /\ at[os] = "user" /\ prog[os].pc = "return" /\ os # Boot
      /\ prog' = [prog EXCEPT ![os] = Nothing] /\ at' = [at EXCEPT ![os] = "none"]
      /\ UNCHANGED <<pid_table, tid_table, process_table, threads, tid_to_pid, stdtid_to_tid,
                     sig_shutdown, raised, wait, fault>>
  BY DEF Program_Return, Thread_Return, Calling, ids, maps, signals
<1>2. /\ prog'[os] = Nothing /\ at'[os] = "none"
      /\ \A o \in OsThreads : o # os => prog'[o] = prog[o] /\ at'[o] = at[o]
  BY <1>1 DEF ProgIInv, ProgTypes, IInv, TypeOK
<1>3. ASSUME NEW p \in Pids, p < n, os = Runner(p)
      PROVE  Over(p)
  <2>1. SUFFICES ASSUME ~Over(p) PROVE FALSE
    OBVIOUS
  <2>2. CASE p + 1 = n
    <3>1. prog[os].pc \in PlacesOf(process_table[p].name)
      BY <1>3, <2>1, <2>2 DEF Nested, LeafOK, LeafFrame, ProcessOK
    <3>2. process_table[p].name \in {"kernel", "shell"} \cup Programs
      BY <1>3 DEF Nested, ProcessOK
    <3> QED  BY <1>1, <3>1, <3>2, SessionAssumption DEF PlacesOf
  <2>3. CASE p + 1 < n
    <3>1. ParentOK(p)
      BY <2>3 DEF Nested
    <3> QED  BY <1>1, <1>3, <3>1 DEF ParentOK, Before, After
  <2>4. p + 1 = n \/ p + 1 < n
    BY <1>3, IdFacts
  <2> QED  BY <2>2, <2>3, <2>4
<1>4. k = n + 1 => /\ Helper(n).waiting' = {} /\ Helper(n).sleeped' = {}
                   /\ Helper(n).state' = Helper(n).state
                   /\ os = Helper(n).os => Helper(n).state = "Exited"
  BY <1>1 DEF Nested, HelperOK, Helper
<1>5. Nested(n, k)'
  BY <1>1, <1>2, <1>3, <1>4, SameThreads, IdleMoves
<1> QED  BY <1>1, <1>5 DEF SingleIInv

-----------------------------------------------------------------------------
(* The shutdown, called by the program of the third process.               *)

LEMMA ShutsDown ==
    ASSUME IInv, ProgIInv, ~fault, NEW n \in Nat, NEW k \in Nat, Nested(n, k),
           NEW os \in OsThreads, Shutdown_Step(os)
    PROVE  SingleIInv'
<1>1. /\ at[os] = "user" /\ prog[os].name = "shutdown" /\ prog[os].pc = "start"
      /\ Shutdown(os) /\ Goto(os, "exit")
  BY DEF Shutdown_Step, In, Calling
<1>2. PICK p \in Pids : /\ p + 1 = n /\ os = Runner(p) /\ ~Over(p) /\ LeafOK(n, k, p)
                        /\ process_table[p].name = "shutdown"
  BY <1>1, LeafAtWork DEF Before, After
<1>3. p = 2 /\ n = 3 /\ p < n
  <2>1. p < n
    BY <1>2, IdFacts
  <2>2. p = 2
    BY <1>2, <2>1 DEF Nested, ProcessOK
  <2> QED  BY <1>2, <2>1, <2>2
<1>4. k = n
  BY <1>2, NoHelper
<1>5. 0 \in Pids /\ 1 \in Pids /\ 2 \in Pids /\ TidMin \in Nat
      /\ \A q \in Pids : q < n <=> q \in 0 .. 2
  BY <1>2, <1>3, Bounds DEF Nested
<1>6. ASSUME NEW q \in Pids, q < n
      PROVE  /\ q \in Nat /\ TidMin + q \in Handles /\ Runner(q) \in OsThreads
             /\ Main(q) # None /\ process_table[q].process_tid = TidMin + q
             /\ Main(q) \in Threads /\ process_table[q] # None
  BY <1>6, MainFacts
<1>7. ASSUME NEW q \in Pids, NEW t \in Handles
      PROVE  threads[q][t] # None <=> q < n /\ t = TidMin + q
  <2>1. k # n + 1
    BY <1>4
  <2>2. threads[q][t] # None <=> ThreadAt(n, k, q, t)
    BY DEF Nested, Stacked
  <2> QED  BY <2>1, <2>2 DEF ThreadAt
<1> DEFINE present == {q \in Pids : process_table[q] # None}
           walked == {q \in Pids : q < Cardinality(present)}
           all == {d \in walked \X Handles : threads[d[1]][d[2]] # None}
           dying == {d \in all : \/ d[2] # process_table[d[1]].process_tid
                                 \/ process_table[d[1]].name = "shell" /\ d[1] > 1}
           order == {pair \in all \X all : LET c == pair[1]  d == pair[2] IN
                        c[1] > d[1] \/ (c[1] = d[1] /\ c[2] < d[2])}
           reached == {d \in all :
                          \A e \in Blocking(dying, order) : d = e \/ <<d, e>> \in order}
<1>8. present = 0 .. 2
  <2>1. \A q \in Pids : process_table[q] # None <=> q < n
    BY DEF Nested, Stacked
  <2>2. 0 .. 2 \subseteq Pids
    BY <1>5
  <2> QED  BY <1>5, <2>1, <2>2
<1>9. Cardinality(present) = 3
  <2>1. 0 \in Int /\ 2 \in Int /\ ~(0 > 2) /\ 2 - 0 + 1 = 3
    OBVIOUS
  <2>2. Cardinality(0 .. 2) = IF 0 > 2 THEN 0 ELSE 2 - 0 + 1
    BY <2>1, FS_Interval
  <2> QED  BY <1>8, <2>1, <2>2
<1>10. walked = present
  BY <1>3, <1>5, <1>8, <1>9
<1>11. \A d \in all : d[1] \in 0 .. 2 /\ d[1] \in Pids /\ d[2] = TidMin + d[1]
  BY <1>3, <1>5, <1>7, <1>8, <1>10
<1>12. dying = {}
  <2>1. ASSUME NEW d \in all
        PROVE  d \notin dying
    <3>1. PICK q \in Pids : q = d[1] /\ q < n /\ d[2] = TidMin + q
      BY <1>5, <1>11, <2>1
    <3>2. process_table[q].process_tid = TidMin + q
      BY <1>6, <3>1
    <3>3. q > 1 => q = 2
      BY <1>3, <1>6, <3>1
    <3>4. ~(process_table[q].name = "shell" /\ q > 1)
      BY <1>2, <1>3, <3>3
    <3> HIDE DEF all
    <3> QED  BY <3>1, <3>2, <3>4
  <2> HIDE DEF all
  <2> QED  BY <2>1
<1>13. ASSUME NEW q \in Pids, q < n
       PROVE  <<q, TidMin + q>> \in all
  BY <1>5, <1>6, <1>7, <1>8, <1>10, <1>13
<1>a. /\ End_Threads(os, dying, order)
       /\ sig_shutdown' = TRUE
       /\ raised' = raised \cup ({threads[d[1]][d[2]].handler : d \in reached} \ {None})
  BY <1>1, <1>10 DEF Shutdown
<1> HIDE DEF present, walked, dying, order
<1>b. reached = all
  <2>1. Blocking(dying, order) = {}
    BY <1>12 DEF Blocking, Notifying
  <2> QED  BY <2>1
<1> HIDE DEF all, reached
<1>14. /\ End_Threads(os, dying, order)
       /\ sig_shutdown' = TRUE
       /\ raised' = raised \cup ({threads[d[1]][d[2]].handler : d \in all} \ {None})
  BY <1>a, <1>b
<1>15. TopEnded(n, p, {})
  <2>1. End_Threads(os, {}, order)
    BY <1>12, <1>14
  <2> QED  BY <1>2, <2>1, TopEnds
<1>16. /\ UNCHANGED <<pid_table, tid_table, tid_to_pid, stdtid_to_tid, wait, fault>>
       /\ \A q \in Pids : process_table'[q] = process_table[q]
       /\ \A o \in OsThreads : at'[o] = at[o]
       /\ \A q \in Pids, t \in Handles :
             /\ threads'[q][t] # None <=> threads[q][t] # None
             /\ threads[q][t] # None => threads'[q][t].os = threads[q][t].os
             /\ SameThread(q, t)
  <2>1. \A q \in Pids, t \in Handles : ~Freed(p, {}, q, t) /\ <<q, t>> \notin {}
    BY DEF Freed
  <2> QED  BY <1>15, <2>1 DEF TopEnded, EndedTo, SameThread
<1>17. /\ IdsStacked(n, k)' /\ Stacked(n, k)' /\ Listed(n, k)'
       /\ \A q \in Pids : q < n => Runner(q)' = Runner(q)
       /\ k = n + 1 => Helper(n).os' = Helper(n).os
  BY <1>16, SameShape
<1> DEFINE frame == [prog[os] EXCEPT !.pc = "exit"]
<1>18. /\ frame.name = "shutdown" /\ frame.pc = "exit" /\ prog' = [prog EXCEPT ![os] = frame]
  BY <1>1, FrameAt, GoesTo
<1> HIDE DEF frame
<1>19. prog'[os] = frame /\ \A o \in OsThreads : o # os => prog'[o] = prog[o]
  BY <1>18 DEF ProgIInv, ProgTypes
<1>20. ASSUME NEW q \in Pids, q < n
       PROVE  /\ SameMain(q) /\ Main(q).sleeped' = Main(q).sleeped /\ Over(q)' = Over(q)
              /\ Runner(q)' = Runner(q) /\ ProcessOK(n, q)
              /\ q # p => Runner(q) # os
  <2>1. SameMain(q) /\ Main(q).sleeped' = Main(q).sleeped /\ Over(q)' = Over(q)
    BY <1>6, <1>16, <1>20 DEF SameThread, SameMain, Over, Main
  <2>2. q # p => Runner(q) # os
    BY <1>2, <1>3, <1>20, RunnersDiffer
  <2> QED  BY <1>17, <1>20, <2>1, <2>2 DEF Nested
<1>21. ASSUME NEW q \in Pids, q < n, q # p
       PROVE  ProcessOK(n, q)' /\ ParentOK(q)'
  <2>1. /\ q + 1 \in Pids /\ q + 1 < n
    BY <1>3, <1>5, <1>21
  <2>2. Main(q + 1).sleeped' = Main(q + 1).sleeped /\ Over(q + 1)' = Over(q + 1)
    BY <1>20, <2>1
  <2>3. /\ SameMain(q) /\ Runner(q)' = Runner(q) /\ ProcessOK(n, q) /\ ParentOK(q)
    BY <1>20, <1>21, <2>1 DEF Nested
  <2>4. /\ at'[Runner(q)] = at[Runner(q)] /\ prog'[Runner(q)] = prog[Runner(q)]
        /\ wait'[Runner(q)] = wait[Runner(q)] /\ process_table'[q] = process_table[q]
    BY <1>6, <1>16, <1>19, <1>20, <1>21
  <2> QED  BY <2>2, <2>3, <2>4, Untouched
<1>22. ProcessOK(n, p)' /\ LeafOK(n, k, p)'
  <2>1. /\ SameMain(p) /\ Runner(p)' = os /\ ProcessOK(n, p) /\ ~Over(p)'
        /\ process_table'[p] = process_table[p] /\ at'[os] = at[os]
    BY <1>2, <1>3, <1>16, <1>20
  <2>2. ProcessOK(n, p)'
    BY <1>2, <1>3, <1>18, <1>19, <2>1 DEF ProcessOK, SameMain
  <2>3. LeafFrame(n, k, p, frame)
    BY <1>18 DEF LeafFrame, PlacesOf
  <2>4. LeafOK(n, k, p)'
    BY <1>2, <1>19, <2>1, <2>3 DEF LeafOK, SameMain
  <2> QED  BY <2>2, <2>4
<1>23. OthersOK(n)'
  <2>1. OthersOK(n) /\ at[os] = "user" /\ stdtid_to_tid[os] \notin {None, 0}
    BY <1>1, <1>2, <1>3, MainFacts, NoneFacts DEF Nested
  <2>2. ASSUME NEW o \in OsThreads \ {Boot}, stdtid_to_tid'[o] \in {None, 0}
        PROVE  Stray(o)'
    <3>1. o # os /\ Stray(o)
      BY <1>16, <2>1, <2>2 DEF OthersOK
    <3> QED  BY <1>16, <1>19, <3>1 DEF Stray
  <2>3. ASSUME NEW o \in OsThreads, at'[o] = "none"
        PROVE  prog'[o] = Nothing
    BY <1>16, <1>19, <2>1, <2>3 DEF OthersOK
  <2> QED  BY <1>3, <2>2, <2>3 DEF OthersOK
<1>24. Main(1).handler = "sig_shutdown" /\ Main(1).handler' = "sig_shutdown"
  <2>1. ParentOK(1)
    BY <1>3, <1>5 DEF Nested
  <2>2. prog[Runner(1)].pc # "start"
    BY <2>1 DEF ParentOK, Before, After
  <2>3. Main(1).handler = "sig_shutdown"
    BY <1>3, <2>2 DEF Nested, SignalsOK
  <2>4. SameMain(1)
    BY <1>3, <1>5, <1>20
  <2> QED  BY <2>3, <2>4 DEF SameMain
<1>25. "sig_shutdown" \in raised'
  <2>1. <<1, TidMin + 1>> \in all /\ "sig_shutdown" # None
    BY <1>3, <1>5, <1>13, SessionAssumption, ControllerAssumption
  <2>2. threads[<<1, TidMin + 1>>[1]][<<1, TidMin + 1>>[2]].handler = "sig_shutdown"
    BY <1>24 DEF Main
  <2> QED  BY <1>14, <2>1, <2>2
<1>26. "sig_terminate" \notin raised'
  <2>1. "sig_terminate" \notin raised
    BY DEF Nested, SignalsOK
  <2>2. ASSUME NEW d \in all, threads[d[1]][d[2]].handler = "sig_terminate"
        PROVE  FALSE
    <3>1. PICK q \in Pids : q = d[1] /\ q < n /\ d[2] = TidMin + q
      BY <1>5, <1>11, <2>2
    <3>2. Main(q).handler = "sig_terminate" /\ ProcessOK(n, q)
      BY <1>20, <2>2, <3>1 DEF Main
    <3>3. process_table[q].name = "rgen"
      BY <3>2 DEF ProcessOK
    <3>4. q = 0 \/ q = 1 \/ q = 2
      BY <1>5, <3>1
    <3>5. q # 2
      BY <1>2, <1>3, <3>3
    <3> QED  BY <3>2, <3>3, <3>4, <3>5 DEF ProcessOK
  <2> QED  BY <1>14, <2>1, <2>2
<1>27. SignalsOK(n)'
  <2>1. process_table'[2].name = "shutdown"
    BY <1>2, <1>3, <1>16
  <2> QED  BY <1>3, <1>24, <1>25, <1>26, <2>1 DEF SignalsOK
<1>28. Nested(n, k)'
  <2>1. \A q \in Pids : q + 1 = n \/ q + 1 < n => q < n
    BY IdFacts
  <2>2. \A q \in Pids : /\ q < n => ProcessOK(n, q)'
                        /\ q + 1 = n => LeafOK(n, k, q)'
                        /\ q + 1 < n => ParentOK(q)'
    <3>1. \A q \in Pids : (q + 1 = n => q = p) /\ (q + 1 < n => q # p)
      BY <1>3, IdFacts
    <3> QED  BY <1>21, <1>22, <2>1, <3>1
  <2>3. k # n + 1
    BY <1>3, <1>4
  <2> QED  BY <1>17, <1>23, <1>27, <2>2, <2>3 DEF Nested
<1> QED  BY <1>16, <1>28 DEF SingleIInv

-----------------------------------------------------------------------------
(* Every step of a session keeps the stack.                                *)

(* rgen never waits for its helper: nobody sends it sig_terminate.         *)
LEMMA RgenNeverWaits ==
    ASSUME IInv, NEW n \in Nat, NEW k \in Nat, Nested(n, k), NEW os \in OsThreads,
           at[os] = "user", prog[os].name = "rgen"
    PROVE  prog[os].pc \notin {"wait", "reap"}
<1>1. SUFFICES ASSUME prog[os].pc \in {"wait", "reap"} PROVE FALSE
  OBVIOUS
<1>2. PICK p \in Pids : p + 1 = n /\ os = Runner(p) /\ ~Over(p) /\ LeafOK(n, k, p)
                        /\ process_table[p].name = prog[os].name
  BY <1>1, LeafAtWork DEF Before, After
<1> QED  BY <1>1, <1>2 DEF LeafOK, LeafFrame, PlacesOf

LEMMA BootSteps ==
    ASSUME Orderly, IInv, ProgIInv, ~fault, NEW n \in Nat, NEW k \in Nat, Nested(n, k),
           Boot_Step
    PROVE  SingleIInv'
<1>0. Boot \in OsThreads
  BY ControllerAssumption
<1>1. CASE Shell_Clone
  BY <1>1, KernelClones
<1>2. CASE Shell_Wait
  <2>1. /\ at[Boot] = "user" /\ prog[Boot].name = "kernel" /\ prog[Boot].pc = "wait"
        /\ Wait_For_All(Boot, "close")
    BY <1>2 DEF Shell_Wait, In, Calling
  <2> QED  BY <1>0, <2>1, WaitsForTop
<1>3. CASE Shell_Close
  BY <1>3, KernelCloses
<1>4. CASE In(Boot, "kernel", "exit") /\ Leave(Boot, "remove")
  <2>1. at[Boot] = "user" /\ prog[Boot].name = "kernel" /\ prog[Boot].pc = "exit"
    BY <1>4 DEF In, Calling
  <2> QED  BY <1>0, <1>4, <2>1, ProgramExits
<1>5. CASE In(Boot, "kernel", "remove") /\ Reap(Boot, TidMin) /\ Goto(Boot, "off")
  BY <1>5, KernelRemoved
<1> QED  BY <1>1, <1>2, <1>3, <1>4, <1>5 DEF Boot_Step, Remove_Kernel_Process

LEMMA ShellSteps ==
    ASSUME Orderly, IInv, ProgIInv, ~fault, NEW n \in Nat, NEW k \in Nat, Nested(n, k),
           NEW os \in OsThreads, Shell_Step(os)
    PROVE  SingleIInv'
<1>1. CASE Shell_Start(os)
  BY <1>1, LeafRegisters DEF Shell_Start
<1>2. CASE Change_Directory(os)
  BY <1>2, ShellChangesDirectory
<1>3. CASE Create_Command(os)
  BY <1>3, ShellCreates
<1>4. CASE Wait_For_Commands(os)
  <2>1. /\ at[os] = "user" /\ prog[os].name = "shell" /\ prog[os].pc = "create"
        /\ prog[os].todo = <<>> /\ Wait_For_All(os, "reap")
    BY <1>4 DEF Wait_For_Commands, In, Calling
  <2> QED  BY <2>1, WaitsForTop
<1>5. CASE Reap_Command(os)
  BY <1>5, ShellReaps
<1>6. CASE In(os, "shell", "exit") /\ Leave(os, "return")
  <2>1. at[os] = "user" /\ prog[os].name = "shell" /\ prog[os].pc = "exit"
    BY <1>6 DEF In, Calling
  <2> QED  BY <1>6, <2>1, ProgramExits
<1> QED  BY <1>1, <1>2, <1>3, <1>4, <1>5, <1>6 DEF Shell_Step

LEMMA RgenSteps ==
    ASSUME Orderly, IInv, ProgIInv, ~fault, NEW n \in Nat, NEW k \in Nat, Nested(n, k),
           NEW os \in OsThreads, Rgen_Step(os)
    PROVE  SingleIInv'
<1>1. at[os] = "user" /\ prog[os].name = "rgen"
  BY DEF Rgen_Step, Rgen_Start, Rgen_Loop, Rgen_End, In, Calling
<1>2. CASE Rgen_Start(os)
  <2>1. CASE /\ In(os, "rgen", "start") /\ Register_Signal_Handler(os, "sig_terminate")
             /\ Goto(os, "clear")
    BY <2>1, LeafRegisters
  <2>2. CASE prog[os].pc = "clear"
    BY <1>2, <2>2, RgenClears
  <2>3. CASE In(os, "rgen", "create") /\ Launch_Thread(os, "Signalize_EOF", "loop")
    BY <2>3, RgenStartsHelper
  <2> QED  BY <1>2, <2>1, <2>2, <2>3 DEF Rgen_Start, In
<1>3. CASE Rgen_Loop(os)
  BY <1>3, RgenLoops
<1>4. CASE Rgen_End(os)
  <2>1. In(os, "rgen", "exit") /\ Leave(os, "return")
    BY <1>1, <1>4, RgenNeverWaits DEF Rgen_End, In
  <2> QED  BY <1>1, <2>1, ProgramExits DEF In
<1> QED  BY <1>2, <1>3, <1>4 DEF Rgen_Step

LEMMA ThreadSteps ==
    ASSUME Orderly, IInv, ProgIInv, ~fault, NEW n \in Nat, NEW k \in Nat, Nested(n, k),
           NEW os \in OsThreads, Thread_Step(os)
    PROVE  SingleIInv'
<1>1. CASE Boot_Step \/ Shell_Step(os) \/ Rgen_Step(os) \/ Shutdown_Step(os)
  BY <1>1, BootSteps, ShellSteps, RgenSteps, ShutsDown
<1>2. CASE Program_Exit(os)
  <2>1. CASE In(os, "md", "start") /\ Leave(os, "return")
    <3>1. at[os] = "user" /\ prog[os].name = "md" /\ prog[os].pc = "start"
      BY <2>1 DEF In, Calling
    <3> QED  BY <2>1, <3>1, ProgramExits
  <2>2. CASE In(os, "shutdown", "exit") /\ Leave(os, "return")
    <3>1. at[os] = "user" /\ prog[os].name = "shutdown" /\ prog[os].pc = "exit"
      BY <2>2 DEF In, Calling
    <3> QED  BY <2>2, <3>1, ProgramExits
  <2>3. CASE In(os, "Signalize_EOF", "exit") /\ Leave(os, "return")
    BY <2>3, HelperExits
  <2> QED  BY <1>2, <2>1, <2>2, <2>3 DEF Program_Exit
<1>3. CASE Program_Return(os)
  BY <1>3, ThreadReturns
<1>4. CASE Proceed(os) /\ UNCHANGED prog
  BY <1>4, ParentRegisters, ParentStops, ParentReturns DEF Proceed
<1> QED  BY <1>1, <1>2, <1>3, <1>4 DEF Thread_Step

LEMMA StackStutters ==
    ASSUME UNCHANGED session_vars
    PROVE  SingleIInv' <=> SingleIInv
<1>1. UNCHANGED <<pid_table, tid_table, process_table, threads, tid_to_pid, stdtid_to_tid,
                  sig_shutdown, raised, at, wait, fault, prog>>
  BY DEF session_vars, vars, ids, maps, signals
<1>2. \A n, k : /\ IdsStacked(n, k)' = IdsStacked(n, k) /\ Stacked(n, k)' = Stacked(n, k)
                /\ Listed(n, k)' = Listed(n, k)
  BY <1>1 DEF IdsStacked, Stacked, Listed, ThreadAt
<1>3. \A p : Main(p)' = Main(p) /\ Runner(p)' = Runner(p) /\ Over(p)' = Over(p)
  BY <1>1 DEF Main, Runner, Over
<1>4. \A n, p : ProcessOK(n, p)' = ProcessOK(n, p)
  BY <1>1, <1>3 DEF ProcessOK
<1>5. \A n, k, p : LeafOK(n, k, p)' = LeafOK(n, k, p)
  BY <1>1, <1>3 DEF LeafOK
<1>6. \A p : ParentOK(p)' = ParentOK(p)
  BY <1>1, <1>3 DEF ParentOK, Asleep, Before, After
<1>7. \A n : HelperOK(n)' = HelperOK(n)
  BY ZenonT(60), <1>1, <1>3 DEF HelperOK, Helper, Stray
<1>8. \A n : OthersOK(n)' = OthersOK(n) /\ SignalsOK(n)' = SignalsOK(n)
  BY <1>1, <1>3 DEF OthersOK, SignalsOK, Stray
<1>9. \A n, k : Nested(n, k)' = Nested(n, k)
  BY <1>2, <1>3, <1>4, <1>5, <1>6, <1>7, <1>8 DEF Nested
<1> QED  BY <1>1, <1>9 DEF SingleIInv

LEMMA StackKept ==
    ASSUME Orderly, IInv, ProgIInv, SingleIInv, [Session_Next]_session_vars
    PROVE  SingleIInv'
<1>1. PICK n \in Nat, k \in Nat : Nested(n, k)
  BY DEF SingleIInv
<1>2. ~fault
  BY DEF SingleIInv
<1>3. CASE UNCHANGED session_vars
  BY <1>3, StackStutters
<1>4. ASSUME NEW os \in OsThreads, Astray_Step(os)
      PROVE  FALSE
  <2>1. at[os] # "lost" /\ ~SpuriousWakeups
    BY <1>1, NobodySpins DEF Orderly
  <2> QED  BY <1>4, <2>1 DEF Astray_Step, Spurious_Wakeup, Use_After_Free
<1>5. ASSUME NEW os \in OsThreads, Thread_Step(os)
      PROVE  SingleIInv'
  BY <1>1, <1>2, <1>5, ThreadSteps
<1>6. ASSUME NEW os \in OsThreads, User_Types(os)
      PROVE  SingleIInv'
  BY <1>1, <1>2, <1>6, ShellReads, HelperReads DEF User_Types
<1> QED  BY <1>3, <1>4, <1>5, <1>6 DEF Session_Next, Powered_Off

(* At the start the kernel's process lies alone on the stack.              *)
LEMMA StackStarts == Session_Init => SingleIInv
<1> SUFFICES ASSUME Session_Init PROVE SingleIInv
  OBVIOUS
<1>0. /\ PidCount \in Nat \ {0} /\ TidCount \in Nat \ {0} /\ TidMin \in Nat \ {0}
      /\ TidMin % TidCount = 0 /\ Boot \in OsThreads /\ NoId > PidCount
  BY ControllerAssumption
<1>1. /\ pid_table = Pid!Get_Free(Pid!Empty_Table, 0)
      /\ tid_table = Tid!Get_Free(Tid!Empty_Table, TidMin)
      /\ process_table = [p \in Pids |->
            IF p = 0 THEN [name |-> "kernel", process_tid |-> TidMin, state |-> "Running"]
                     ELSE None]
      /\ threads = [p \in Pids |-> [t \in Handles |->
            IF p = 0 /\ t = TidMin THEN New_Thread(Boot) ELSE None]]
      /\ tid_to_pid = [t \in Handles |-> IF t = TidMin THEN 0 ELSE None]
      /\ stdtid_to_tid = [o \in OsThreads |-> IF o = Boot THEN TidMin ELSE None]
      /\ sig_shutdown = FALSE /\ raised = {} /\ ~fault
      /\ at = [o \in OsThreads |-> IF o = Boot THEN "user" ELSE "none"]
      /\ prog = [o \in OsThreads |-> IF o = Boot THEN Started("kernel") ELSE Nothing]
  BY DEF Session_Init, Init
<1>2. /\ 0 \in Pids /\ 0 \in Pid!Ids /\ TidMin \in Handles /\ TidMin \in Tid!Ids /\ Pids \subseteq Nat
      /\ Handles \subseteq Nat /\ TidMin + 0 = TidMin
  BY <1>0, IdFacts
<1>3. \A p \in Pids : p < 1 <=> p = 0
  BY <1>2
<1>4. \A p \in Pids, t \in Handles : ThreadAt(1, 1, p, t) <=> p = 0 /\ t = TidMin
  <2>1. 1 # 1 + 1
    OBVIOUS
  <2> QED  BY <1>2, <1>3, <2>1 DEF ThreadAt
<1>5. IdsStacked(1, 1)
  <2>1. Pid!Next_Slot(0) \in Pid!Ids /\ Pid!Next_Slot(0) <= 1
    <3>1. CASE PidCount = 1
      <4>1. (0 + 1) % PidCount = 0
        BY <3>1
      <4> QED  BY <1>0, <4>1 DEF Pid!Next_Slot, Pid!Ids
    <3>2. CASE PidCount > 1
      <4>1. (0 + 1) % PidCount = 1
        BY <1>0, <3>2, Modulo
      <4> QED  BY <1>0, <3>2, <4>1 DEF Pid!Next_Slot, Pid!Ids
    <3> QED  BY <1>0, <3>1, <3>2
  <2>2. Tid!Next_Slot(TidMin) \in Tid!Ids /\ Tid!Next_Slot(TidMin) <= TidMin + 1
    <3>1. CASE TidCount = 1
      <4>1. (TidMin + 1) % TidCount = 0
        BY <1>0, <3>1
      <4> QED  BY <1>0, <4>1 DEF Tid!Next_Slot, Tid!Ids
    <3>2. CASE TidCount > 1
      <4>1. (TidMin + 1) % TidCount = 1
        <5>1. TidMin \in Nat /\ 1 \in Nat /\ 1 < TidCount
          BY <1>0, <3>2
        <5> QED  BY ZenonT(60), <1>0, <5>1, Modulo
      <4> QED  BY <1>0, <3>2, <4>1 DEF Tid!Next_Slot, Tid!Ids
    <3> QED  BY <1>0, <3>1, <3>2
  <2>3. 0 # NoId /\ TidMin # NoId
    BY <1>2, IdFacts
  <2>4. pid_table = [used |-> {0}, free |-> Pid!Next_Slot(0)]
    BY <1>1, <2>3 DEF Pid!Get_Free, Pid!Empty_Table
  <2>5. tid_table = [used |-> {TidMin}, free |-> Tid!Next_Slot(TidMin)]
    BY <1>1, <2>3 DEF Tid!Get_Free, Tid!Empty_Table
  <2>6. {0} = {p \in Pid!Ids : p < 1}
    BY <1>0 DEF Pid!Ids
  <2>7. {TidMin} = {t \in Tid!Ids : t < TidMin + 1}
    BY <1>0 DEF Tid!Ids
  <2>8. 1 \in 0 .. PidCount /\ 1 \in 0 .. TidCount /\ 1 \in {1, 1 + 1} /\ 1 # 0
    BY <1>0
  <2> QED  BY <2>1, <2>2, <2>4, <2>5, <2>6, <2>7, <2>8 DEF IdsStacked
<1>6. New_Thread(Boot) \in Threads /\ New_Thread(Boot) # None /\ 0 # None /\ TidMin # None
  BY <1>0, <1>2, NoneFacts
<1>7. Stacked(1, 1)
  <2>1. process_table[0] # None /\ process_table[0].process_tid = TidMin
    <3>1. [name |-> "kernel", process_tid |-> TidMin, state |-> "Running"] \in Processes
      BY <1>2 DEF Processes, States
    <3> QED  BY <1>1, <1>2, <3>1, NoneFacts
  <2>2. \A p \in Pids : process_table[p] # None <=> p < 1
    BY <1>1, <1>2, <1>3, <2>1
  <2>3. \A p \in Pids : p < 1 => process_table[p].process_tid = TidMin + p
    BY <1>2, <1>3, <2>1
  <2>4. \A p \in Pids, t \in Handles : threads[p][t] # None <=> ThreadAt(1, 1, p, t)
    BY <1>1, <1>4, <1>6
  <2>5. \A p \in Pids, t \in Handles : tid_to_pid[t] = p <=> ThreadAt(1, 1, p, t)
    BY <1>1, <1>4, <1>6, NoneFacts
  <2> QED  BY <2>2, <2>3, <2>4, <2>5 DEF Stacked
<1>8. threads[0][TidMin] = New_Thread(Boot) /\ Main(0) = New_Thread(Boot) /\ Runner(0) = Boot
      /\ New_Thread(Boot).os = Boot /\ New_Thread(Boot).state = "Running"
      /\ New_Thread(Boot).waiting = {} /\ New_Thread(Boot).sleeped = {}
      /\ New_Thread(Boot).handler = None
  BY <1>1, <1>2 DEF Main, Runner, New_Thread
<1>9. Listed(1, 1)
  BY <1>0, <1>1, <1>2, <1>4, <1>8 DEF Listed
<1>10. at[Boot] = "user" /\ prog[Boot] = Started("kernel")
  BY <1>0, <1>1
<1>11. process_table[0].name = "kernel" /\ process_table[0].state = "Running"
  BY <1>1, <1>2
<1>12. ~Over(0)
  BY <1>8 DEF Over
<1>13. ProcessOK(1, 0)
  <2>1. "sig_terminate" # None
    BY SessionAssumption, ControllerAssumption
  <2> QED  BY <1>8, <1>10, <1>11, <1>12, <2>1 DEF ProcessOK, Started
<1>14. LeafOK(1, 1, 0)
  BY <1>8, <1>10 DEF LeafOK, LeafFrame, PlacesOf, Started
<1>15. OthersOK(1)
  BY <1>0, <1>1, <1>10 DEF OthersOK, Stray
<1>16. SignalsOK(1)
  BY <1>1 DEF SignalsOK
<1>17. Nested(1, 1)
  <2>1. \A p \in Pids : (p < 1 => p = 0) /\ (p + 1 = 1 => p = 0) /\ ~(p + 1 < 1)
    BY <1>2, <1>3
  <2>2. 1 # 1 + 1
    OBVIOUS
  <2> QED  BY <1>5, <1>7, <1>9, <1>13, <1>14, <1>15, <1>16, <2>1, <2>2 DEF Nested
<1> QED  BY <1>1, <1>17 DEF SingleIInv

-----------------------------------------------------------------------------
(* What the stack says of a session.                                       *)

(* A thread that is there runs on an OS thread of its own, and sleeps only *)
(* for a process above its own that has not ended.                         *)
LEMMA ThreadFacts ==
    ASSUME IInv, ProgIInv, NEW n \in Nat, NEW k \in Nat, Nested(n, k),
           NEW p \in Pids, NEW t \in Handles, threads[p][t] # None
    PROVE  /\ stdtid_to_tid[threads[p][t].os] = t /\ tid_to_pid[t] = p
           /\ threads[p][t].state # "Exited" => at[threads[p][t].os] # "none"
           /\ \A awaited \in threads[p][t].waiting :
                 /\ Known(awaited) /\ ~Exited(awaited)
                 /\ t \in threads[Pid_Of(awaited)][awaited].sleeped
<1>1. ThreadAt(n, k, p, t)
  BY DEF Nested, Stacked
<1>2. stdtid_to_tid[threads[p][t].os] = t /\ tid_to_pid[t] = p
  BY <1>1 DEF Nested, Stacked, Listed
<1>3. CASE p < n /\ t = TidMin + p
  <2>1. Main(p) = threads[p][t] /\ Runner(p) = threads[p][t].os
    BY <1>3 DEF Main, Runner
  <2>2. p + 1 = n \/ p + 1 < n
    BY <1>3, IdFacts
  <2>3. CASE Over(p)
    BY <1>2, <1>3, <2>1, <2>3 DEF Nested, ProcessOK, Over
  <2>4. CASE ~Over(p) /\ p + 1 = n
    <3>1. LeafOK(n, k, p)
      BY <2>4 DEF Nested
    <3> QED  BY <1>2, <2>1, <3>1 DEF LeafOK
  <2>5. CASE ~Over(p) /\ p + 1 < n
    <3>1. ParentOK(p)
      BY <2>5 DEF Nested
    <3>2. at[Runner(p)] # "none"
      BY <3>1 DEF ParentOK
    <3>3. ASSUME NEW awaited \in Main(p).waiting
          PROVE  /\ Known(awaited) /\ ~Exited(awaited)
                 /\ t \in threads[Pid_Of(awaited)][awaited].sleeped
      <4>1. Asleep(p) /\ awaited = TidMin + p + 1 /\ t \in Main(p + 1).sleeped
        BY <1>3, <3>1, <3>3 DEF ParentOK
      <4>2. ~Over(p + 1)
        BY <4>1 DEF Asleep
      <4>3. /\ p + 1 \in Pids /\ p + 1 < n /\ Pid_Of(awaited) = p + 1
            /\ TidMin + (p + 1) = TidMin + p + 1 /\ ~Exited(awaited)
        BY <2>5, <4>1, <4>2, ParentFacts
      <4>4. Known(awaited)
        BY <4>1, <4>3, MainFacts
      <4> QED  BY <4>1, <4>3, <4>4 DEF Main
    <3> QED  BY <1>2, <2>1, <3>2, <3>3
  <2> QED  BY <2>2, <2>3, <2>4, <2>5
<1>4. CASE k = n + 1 /\ p + 1 = n /\ t = TidMin + n
  <2>1. Helper(n) = threads[p][t]
    <3>1. p = n - 1
      BY <1>4, IdFacts
    <3> QED  BY <1>4, <3>1 DEF Helper
  <2>2. HelperOK(n)
    BY <1>4 DEF Nested
  <2> QED  BY <1>2, <2>1, <2>2 DEF HelperOK
<1> QED  BY <1>1, <1>3, <1>4 DEF ThreadAt

(* The kernel switches off with nothing left on the stack.                 *)
LEMMA OffWhenEmpty ==
    ASSUME IInv, NEW n \in Nat, NEW k \in Nat, Nested(n, k), Off
    PROVE  n = 0 /\ k = 0
<1>1. SUFFICES ASSUME n # 0 PROVE FALSE
  BY Bounds DEF Nested
<1>2. 0 \in Pids /\ 0 < n /\ prog[Boot].pc = "off"
  BY <1>1, IdFacts DEF Off
<1>3. ProcessOK(n, 0)
  BY <1>2 DEF Nested
<1>4. Runner(0) = Boot /\ process_table[0].name = "kernel"
  BY <1>3 DEF ProcessOK
<1>5. ~Over(0)
  BY <1>2, <1>3, <1>4 DEF ProcessOK
<1>6. CASE n = 1
  <2>1. LeafOK(n, k, 0) /\ prog[Boot].name = "kernel"
    BY <1>2, <1>3, <1>4, <1>5, <1>6 DEF Nested, ProcessOK
  <2> QED  BY <1>2, <1>4, <2>1 DEF LeafOK, LeafFrame, PlacesOf
<1>7. CASE n > 1
  <2>1. ParentOK(0)
    BY <1>2, <1>7 DEF Nested
  <2> QED  BY <1>2, <1>4, <2>1 DEF ParentOK, Before, After
<1> QED  BY <1>1, <1>6, <1>7

(* The flag of the helper thread is a flag.                                *)
LEMMA FlagKept ==
    ASSUME sig_eof \in BOOLEAN, [Session_Next]_session_vars
    PROVE  sig_eof' \in BOOLEAN
<1>1. CASE UNCHANGED session_vars
  BY <1>1 DEF session_vars
<1>2. ASSUME NEW os \in OsThreads, Thread_Step(os)
      PROVE  sig_eof' \in BOOLEAN
  <2>1. CASE Boot_Step \/ Shell_Step(os)
    BY <2>1 DEF Boot_Step, Shell_Clone, Shell_Wait, Shell_Close, Remove_Kernel_Process,
       Shell_Step, Shell_Start, Change_Directory, Create_Command, Wait_For_Commands,
       Reap_Command, Launch_Process, Launch, Wait_For_All, Leave, Goto
  <2>2. CASE Rgen_Step(os)
    BY <2>2 DEF Rgen_Step, Rgen_Start, Rgen_Loop, Rgen_End, Launch_Thread, Launch,
       Wait_For_All, Leave, Goto
  <2>3. CASE Shutdown_Step(os) \/ Program_Exit(os) \/ Program_Return(os)
    BY <2>3 DEF Shutdown_Step, Program_Exit, Program_Return, Leave, Goto
  <2> QED  BY <1>2, <2>1, <2>2, <2>3 DEF Thread_Step
<1>3. ASSUME NEW os \in OsThreads, User_Types(os)
      PROVE  sig_eof' \in BOOLEAN
  BY <1>3 DEF User_Types, Read_Command, Read_Key, Goto
<1> QED  BY <1>1, <1>2, <1>3 DEF Session_Next, Powered_Off

LEMMA StackTells ==
    ASSUME IInv, ProgIInv, SingleIInv
    PROVE  NoFault /\ NobodyAstray /\ WaitersListed /\ ExitEndsCaller /\ NothingLeft
<1>1. PICK n \in Nat, k \in Nat : Nested(n, k)
  BY DEF SingleIInv
<1>2. NoFault
  BY DEF SingleIInv, NoFault
<1>3. NobodyAstray
  <2>1. \A o \in OsThreads :
           at[o] \in {"none", "user", "register", "stop", "marking", "waiting", "woken",
                      "stopped"}
    BY <1>1, NobodySpins
  <2> QED  BY <2>1 DEF NobodyAstray
<1>4. WaitersListed
  BY <1>1, ThreadFacts DEF WaitersListed
<1>5. ExitEndsCaller
  BY <1>1, ThreadFacts DEF ExitEndsCaller
<1>6. ASSUME Off
      PROVE  /\ \A p \in Pids : process_table[p] = None
             /\ pid_table.used = {} /\ tid_table.used = {}
  <2>1. n = 0 /\ k = 0
    BY <1>1, <1>6, OffWhenEmpty
  <2>2. Nested(0, 0)
    BY <1>1, <2>1
  <2>3. \A p \in Pids : ~(p < 0)
    BY IdFacts
  <2>4. \A t \in Tid!Ids : ~(t < TidMin + 0)
    BY ControllerAssumption DEF Tid!Ids
  <2>5. \A p \in Pid!Ids : ~(p < 0)
    BY IdFacts
  <2> QED  BY <2>2, <2>3, <2>4, <2>5 DEF Nested, IdsStacked, Stacked
<1>7. NothingLeft
  BY <1>6 DEF NothingLeft
<1> QED  BY <1>2, <1>3, <1>4, <1>5, <1>7

-----------------------------------------------------------------------------
(* The sessions of single commands.                                        *)

(* The processes of such a session always lie on a stack: whoever is not   *)
(* at its top waits, or is about to wait, for the process above.           *)
THEOREM SingleInvariance ==
    ASSUME Orderly
    PROVE  Session_Spec => []SingleIInv
<1>1. Session_Init => SingleIInv
  BY StackStarts
<1>2. IInv /\ ProgIInv /\ SingleIInv /\ [Session_Next]_session_vars => SingleIInv'
  BY StackKept
<1> QED  BY <1>1, <1>2, SessionInvariance, PTL DEF Session_Spec

(* Every variable has its type, and an OS thread that is not there runs no *)
(* program.                                                                *)
THEOREM SingleTypeCorrect ==
    ASSUME Orderly
    PROVE  Session_Spec => []SessionTypeOK
<1>1. Session_Init => sig_eof \in BOOLEAN
  BY DEF Session_Init
<1>2. sig_eof \in BOOLEAN /\ [Session_Next]_session_vars => (sig_eof \in BOOLEAN)'
  BY FlagKept
<1>3. IInv /\ SingleIInv /\ sig_eof \in BOOLEAN => SessionTypeOK
  BY DEF IInv, SingleIInv, Nested, OthersOK, SessionTypeOK
<1> QED  BY <1>1, <1>2, <1>3, SessionInvariance, SingleInvariance, PTL DEF Session_Spec

(* No call of the programs makes the controller dereference a process,     *)
(* thread or caller that is not there: not Clone in a nested shell, not    *)
(* Wait_For, not Exit, not the walk of Shutdown over the PIDs.             *)
THEOREM SingleNeverFaults ==
    ASSUME Orderly
    PROVE  Session_Spec => []NoFault
<1>1. IInv /\ ProgIInv /\ SingleIInv => NoFault
  BY StackTells
<1> QED  BY <1>1, SessionInvariance, SingleInvariance, PTL

(* waiting_handles and sleeped_handles agree: whatever a thread still      *)
(* waits for is a live thread whose Exit will end the wait.                *)
THEOREM SingleWaitersListed ==
    ASSUME Orderly
    PROVE  Session_Spec => []WaitersListed
<1>1. IInv /\ ProgIInv /\ SingleIInv => WaitersListed
  BY StackTells
<1> QED  BY <1>1, SessionInvariance, SingleInvariance, PTL

(* Whoever calls Exit is found under its own TID and ends nobody else.     *)
THEOREM SingleExitEndsCaller ==
    ASSUME Orderly
    PROVE  Session_Spec => []ExitEndsCaller
<1>1. IInv /\ ProgIInv /\ SingleIInv => ExitEndsCaller
  BY StackTells
<1> QED  BY <1>1, SessionInvariance, SingleInvariance, PTL

(* When the kernel switches off, every process, PID and TID is given back. *)
THEOREM SingleNothingLeft ==
    ASSUME Orderly
    PROVE  Session_Spec => []NothingLeft
<1>1. IInv /\ ProgIInv /\ SingleIInv => NothingLeft
  BY StackTells
<1> QED  BY <1>1, SessionInvariance, SingleInvariance, PTL

-----------------------------------------------------------------------------
(* Only Read_Exit_Code takes threads away.                                 *)

Threads_Stay == \A p \in Pids, t \in Handles : threads[p][t] # None => threads'[p][t] # None

Reaps_Exited ==
    \A p \in Pids, t \in Handles :
        threads[p][t] # None /\ threads'[p][t] = None => threads[p][t].state = "Exited"

LEMMA CreatingKeepsThreads ==
    ASSUME IInv, ~fault', NEW os \in OsThreads, NEW name, NEW new \in OsThreads,
           NEW handle \in Handles,
           Create_Process(os, name, new, handle) \/ Create_Thread(os, new, handle)
    PROVE  Threads_Stay
<1>1. New_Thread(new) # None
  BY NoneFacts
<1>2. CASE Create_Process(os, name, new, handle)
  <2>1. PICK pid \in Pids : threads' = IF process_table[pid] = None
                                         THEN [threads EXCEPT ![pid][handle] = New_Thread(new)]
                                         ELSE threads
    BY <1>2 DEF Create_Process, Crash
  <2> QED  BY <1>1, <2>1 DEF Threads_Stay, IInv, TypeOK
<1>3. CASE Create_Thread(os, new, handle)
  <2> DEFINE pid == tid_to_pid[Get_TID(os)]
  <2>1. threads' = [threads EXCEPT ![pid] = Insert(@, handle, New_Thread(new))]
    BY <1>3 DEF Create_Thread
  <2>2. pid \in Pids
    BY <1>3, LookupTypes DEF Create_Thread
  <2> HIDE DEF pid
  <2>3. threads'[pid] = Insert(threads[pid], handle, New_Thread(new))
        /\ \A p \in Pids : p # pid => threads'[p] = threads[p]
    BY <2>1, <2>2 DEF IInv, TypeOK
  <2>4. ASSUME NEW t \in Handles, threads[pid][t] # None
        PROVE  threads'[pid][t] # None
    BY <1>1, <2>2, <2>3, <2>4 DEF Insert, IInv, TypeOK
  <2> QED  BY <2>3, <2>4 DEF Threads_Stay
<1> QED  BY <1>2, <1>3

LEMMA WaitingKeepsThreads ==
    ASSUME IInv, ~fault', NEW os \in OsThreads,
           Register_Handles(os) \/ Stop(os) \/ Mark(os)
    PROVE  Threads_Stay
<1>1. CASE Register_Handles(os)
  <2> DEFINE registered(n) == {wait[os].handles[i] : i \in 1 .. n}
  <2>1. PICK n \in 0 .. Len(wait[os].handles) :
           threads' = [p \in Pids |-> [t \in Handles |->
                          Linked(p, t, wait[os], registered(n))]]
    <3>1. ~Crash
      BY DEF Crash
    <3> QED  BY <1>1, <3>1 DEF Register_Handles
  <2>2. wait[os].tid \in Handles /\ wait[os].handles \in Seq(Handles)
    BY DEF IInv, TypeOK
  <2>3. registered(n) \subseteq Handles
    BY <2>2
  <2> HIDE DEF registered
  <2>4. ASSUME NEW p \in Pids, NEW t \in Handles, threads[p][t] # None
        PROVE  threads'[p][t] # None
    <3> DEFINE waiting == IF p = wait[os].pid /\ t = wait[os].tid
                            THEN threads[p][t].waiting \cup registered(n)
                            ELSE threads[p][t].waiting
               sleeped == IF t \in registered(n) /\ p = Pid_Of(t)
                            THEN threads[p][t].sleeped \cup {wait[os].tid}
                            ELSE threads[p][t].sleeped
    <3>1. threads[p][t] \in Threads
      BY <2>4 DEF IInv, TypeOK
    <3>2. threads'[p][t] = [threads[p][t] EXCEPT !.waiting = waiting, !.sleeped = sleeped]
      BY <2>1, <2>4 DEF Linked
    <3>3. waiting \in SUBSET Handles /\ sleeped \in SUBSET Handles
      BY <2>2, <2>3, <3>1 DEF Threads
    <3> HIDE DEF waiting, sleeped
    <3>4. [threads[p][t] EXCEPT !.waiting = waiting, !.sleeped = sleeped] \in Threads
      BY <3>1, <3>3, RegisteredUpdate
    <3> QED  BY <3>2, <3>4, NoneFacts, Zenon
  <2> QED  BY <2>4 DEF Threads_Stay
<1>3. CASE Stop(os)
  BY <1>3 DEF Stop, Crash, maps, Threads_Stay
<1>2. CASE Mark(os)
  <2> DEFINE pid == wait[os].pid
             tid == wait[os].tid
  <2>2. threads[pid][tid] # None
        /\ threads' = [threads EXCEPT ![pid][tid].state = "Blocked"]
    BY <1>2 DEF Mark, IInv, MarkersKept
  <2>4. QED
    <3>1. pid \in Pids /\ tid \in Handles /\ threads[pid][tid] \in Threads
      BY <2>2 DEF IInv, TypeOK
    <3>2. [threads[pid][tid] EXCEPT !.state = "Blocked"] # None
      BY <3>1, StateUpdate, NoneFacts DEF States
    <3>3. \A p \in Pids, t \in Handles :
             \/ threads'[p][t] = threads[p][t]
             \/ /\ p = pid /\ t = tid
                /\ threads'[p][t] = [threads[p][t] EXCEPT !.state = "Blocked"]
      BY <2>2, <3>1 DEF IInv, TypeOK
    <3> QED  BY <3>2, <3>3 DEF Threads_Stay
<1> QED  BY <1>1, <1>2, <1>3

LEMMA EndingKeepsThreads ==
    ASSUME IInv, ~fault', NEW os \in OsThreads, NEW dying \in SUBSET (Pids \X Handles),
           NEW order, End_Threads(os, dying, order)
    PROVE  Threads_Stay
<1> DEFINE ending == {d \in dying : \A e \in Blocking(dying, order) :
                                       d # e /\ <<d, e>> \in order}
<1>1. CASE UNCHANGED threads
  BY <1>1 DEF Threads_Stay
<1>2. CASE threads' = [p \in Pids |-> [t \in Handles |-> Ended(ending, order, p, t)]]
  <2> HIDE DEF ending
  <2>1. ASSUME NEW p \in Pids, NEW t \in Handles, threads[p][t] # None
        PROVE  threads'[p][t] # None
    <3>1. threads'[p][t] = Ended(ending, order, p, t)
      BY <1>2
    <3>2. ending \in SUBSET (Pids \X Handles)
      BY DEF ending
    <3> QED  BY <2>1, <3>1, <3>2, EndedThread, NoneFacts
  <2> QED  BY <2>1 DEF Threads_Stay
<1>3. \/ UNCHANGED threads
      \/ threads' = [p \in Pids |-> [t \in Handles |-> Ended(ending, order, p, t)]]
  BY DEF End_Threads, Crash, maps
<1> QED  BY <1>1, <1>2, <1>3

LEMMA LeavingKeepsThreads ==
    ASSUME IInv, ~fault', NEW os \in OsThreads, Exit(os) \/ Exit_Unknown(os) \/ Shutdown(os)
    PROVE  Threads_Stay
<1>1. CASE Exit(os)
  <2> DEFINE tid == Get_TID(os)
             pid == tid_to_pid[tid]
             main == process_table[pid].process_tid
             dying == IF tid = main
                        THEN {<<pid, t>> : t \in {u \in Handles : threads[pid][u] # None}}
                        ELSE {<<pid, tid>>}
  <2>1. pid \in Pids /\ tid \in Handles
    BY <1>1, LookupTypes DEF Exit, Known
  <2>2. PICK order : End_Threads(os, dying, order)
    BY <1>1 DEF Exit
  <2>3. dying \in SUBSET (Pids \X Handles)
    <3> HIDE DEF tid, pid, main
    <3> QED  BY <2>1
  <2> HIDE DEF dying
  <2> QED  BY <2>2, <2>3, EndingKeepsThreads
<1>2. CASE Exit_Unknown(os)
  BY <1>2 DEF Exit_Unknown, Threads_Stay
<1>3. CASE Shutdown(os)
  <2> DEFINE present == {p \in Pids : process_table[p] # None}
             walked == {p \in Pids : p < Cardinality(present)}
             all == {d \in walked \X Handles : threads[d[1]][d[2]] # None}
             dying == {d \in all : \/ d[2] # process_table[d[1]].process_tid
                                   \/ process_table[d[1]].name = "shell" /\ d[1] > 1}
  <2>1. PICK order : End_Threads(os, dying, order)
    BY <1>3 DEF Shutdown, Crash
  <2>2. walked \subseteq Pids
    OBVIOUS
  <2> HIDE DEF walked
  <2>3. dying \in SUBSET (Pids \X Handles)
    BY <2>2
  <2> HIDE DEF dying
  <2> QED  BY <2>1, <2>3, EndingKeepsThreads
<1> QED  BY <1>1, <1>2, <1>3

LEMMA RegisteringKeepsThreads ==
    ASSUME IInv, NEW os \in OsThreads, NEW flag \in Flags, Register_Signal_Handler(os, flag)
    PROVE  Threads_Stay
<1> DEFINE tid == Get_TID(os)
           pid == tid_to_pid[tid]
<1>1. CASE UNCHANGED threads
  BY <1>1 DEF Threads_Stay
<1>2. CASE /\ Known(tid)
           /\ threads' = [threads EXCEPT ![pid][tid].handler = IF @ = None THEN flag ELSE @]
  <2> DEFINE thread == threads[pid][tid]
             handler == IF thread.handler = None THEN flag ELSE thread.handler
             handled == [thread EXCEPT !.handler = handler]
  <2>1. tid \in Handles /\ pid \in Pids /\ thread \in Threads
    BY <1>2, LookupTypes DEF Known, IInv, TypeOK
  <2>2. handler \in Flags \cup {None}
    BY <2>1 DEF Threads
  <2>3. threads' = [threads EXCEPT ![pid][tid] = handled]
    BY <1>2
  <2> HIDE DEF handler, tid
  <2>4. handled # None
    BY <2>1, <2>2, HandlerUpdate, NoneFacts
  <2> HIDE DEF handled
  <2>5. \A p \in Pids, t \in Handles : threads'[p][t] \in {threads[p][t], handled}
    BY <2>1, <2>3 DEF IInv, TypeOK
  <2> QED  BY <2>4, <2>5 DEF Threads_Stay
<1> QED  BY <1>1, <1>2 DEF Register_Signal_Handler

(* Whoever is reaped lies on top and is over: its threads have exited.     *)
LEMMA TopWasOver ==
    ASSUME IInv, ~fault, NEW n \in Nat, NEW k \in Nat, Nested(n, k),
           NEW c \in Pids, c + 1 = n, Over(c), NEW os \in OsThreads, Reap(os, TidMin + c)
    PROVE  Reaps_Exited
<1>1. \A q \in Pids, t \in Handles : threads'[q][t] = IF q = c THEN None ELSE threads[q][t]
  BY TopReaped
<1>2. ASSUME NEW t \in Handles, threads[c][t] # None
      PROVE  threads[c][t].state = "Exited"
  <2>1. t = TidMin + c \/ (k = n + 1 /\ t = TidMin + n)
    <3>1. ThreadAt(n, k, c, t)
      BY <1>2 DEF Nested, Stacked
    <3> QED  BY <3>1, TopThreads
  <2>2. CASE t = TidMin + c
    BY <2>2 DEF Over, Main
  <2>3. CASE k = n + 1 /\ t = TidMin + n
    <3>1. c = n - 1
      BY IdFacts
    <3>2. HelperOK(n)
      BY <2>3 DEF Nested
    <3> QED  BY <2>3, <3>1, <3>2 DEF HelperOK, Helper
  <2> QED  BY <2>1, <2>2, <2>3
<1> QED  BY <1>1, <1>2 DEF Reaps_Exited

LEMMA ParentReapsExited ==
    ASSUME IInv, ProgIInv, ~fault, NEW n \in Nat, NEW k \in Nat, Nested(n, k),
           NEW os \in OsThreads, at[os] = "user", After(os),
           Reap(os, prog[os].handles[1])
    PROVE  Reaps_Exited
<1>1. PICK p \in Pids : p + 1 < n /\ os = Runner(p) /\ ~Over(p) /\ ParentOK(p)
  BY ParentAtWork
<1> DEFINE c == p + 1
<1>2. c \in Pids /\ TidMin + c = TidMin + p + 1
  BY <1>1, ParentFacts
<1>3. Over(c) /\ prog[os].handles = <<TidMin + p + 1>>
  BY <1>1 DEF ParentOK, Before, After
<1> HIDE DEF c
<1>4. c < n
  BY <1>1 DEF c
<1>5. c + 1 = n
  BY <1>2, <1>3, <1>4 DEF Nested, ProcessOK
<1>6. Reap(os, TidMin + c)
  BY <1>2, <1>3
<1> QED  BY <1>2, <1>3, <1>5, <1>6, TopWasOver

LEMMA StayingReapsNobody ==
    ASSUME Threads_Stay
    PROVE  Reaps_Exited
BY DEF Threads_Stay, Reaps_Exited

LEMMA UnchangedReapsNobody ==
    ASSUME UNCHANGED threads
    PROVE  Reaps_Exited
BY DEF Reaps_Exited

LEMMA LaunchReapsNobody ==
    ASSUME IInv, ~fault', NEW os \in OsThreads, NEW name, NEW pc, NEW todo,
           Launch_Process(os, name, pc, todo) \/ Launch_Thread(os, name, pc)
    PROVE  Reaps_Exited
<1>1. CASE UNCHANGED threads
  BY <1>1, UnchangedReapsNobody
<1>2. CASE \E new \in OsThreads, handle \in Handles :
              Create_Process(os, name, new, handle) \/ Create_Thread(os, new, handle)
  BY <1>2, CreatingKeepsThreads, StayingReapsNobody
<1> QED  BY <1>1, <1>2 DEF Launch_Process, Launch_Thread, Launch, Create_Refused,
         Create_Thread_Refused, vars, maps

LEMMA LeaveReapsNobody ==
    ASSUME IInv, ~fault', NEW os \in OsThreads, NEW pc, Leave(os, pc)
    PROVE  Reaps_Exited
BY LeavingKeepsThreads, StayingReapsNobody DEF Leave

LEMMA WaitReapsNobody ==
    ASSUME IInv, ~fault', NEW os \in OsThreads, NEW pc, Wait_For_All(os, pc)
    PROVE  Reaps_Exited
<1>1. UNCHANGED threads
  BY DEF Wait_For_All, Wait_For, Crash, maps
<1> QED  BY <1>1, UnchangedReapsNobody

LEMMA ThreadReapsExited ==
    ASSUME IInv, ProgIInv, ~fault, ~fault', NEW n \in Nat, NEW k \in Nat, Nested(n, k),
           NEW os \in OsThreads, Thread_Step(os)
    PROVE  Reaps_Exited
<1>0. Boot \in OsThreads
  BY ControllerAssumption
<1>1. CASE Shell_Clone \/ Shell_Wait
  BY <1>0, <1>1, LaunchReapsNobody, WaitReapsNobody DEF Shell_Clone, Shell_Wait
<1>2. CASE Shell_Close
  <2>1. at[Boot] = "user" /\ After(Boot) /\ Reap(Boot, prog[Boot].handles[1])
    BY <1>2 DEF Shell_Close, In, Calling, After
  <2> QED  BY <1>0, <2>1, ParentReapsExited
<1>3. CASE Remove_Kernel_Process
  <2>1. CASE Leave(Boot, "remove")
    BY <1>0, <2>1, LeaveReapsNobody
  <2>2. CASE In(Boot, "kernel", "remove") /\ Reap(Boot, TidMin) /\ Goto(Boot, "off")
    <3>1. n = 1 /\ Over(0)
      BY <2>2, KernelRemoved
    <3>2. 0 \in Pids /\ TidMin + 0 = TidMin /\ 0 + 1 = n
      BY <3>1, IdFacts
    <3> QED  BY <1>0, <2>2, <3>1, <3>2, TopWasOver
  <2> QED  BY <1>3, <2>1, <2>2 DEF Remove_Kernel_Process
<1>4. CASE Shell_Start(os)
  <2>1. Register_Signal_Handler(os, "sig_shutdown") /\ "sig_shutdown" \in Flags
    BY <1>4, SessionAssumption DEF Shell_Start
  <2> QED  BY <2>1, RegisteringKeepsThreads, StayingReapsNobody
<1>5. CASE Change_Directory(os) \/ Create_Command(os) \/ Wait_For_Commands(os)
  BY <1>5, UnchangedReapsNobody, LaunchReapsNobody, WaitReapsNobody
  DEF Change_Directory, Create_Command, Wait_For_Commands, vars, maps
<1>6. CASE Reap_Command(os)
  <2>1. at[os] = "user" /\ After(os) /\ Reap(os, Head(prog[os].handles))
    BY <1>6 DEF Reap_Command, In, Calling, After
  <2>2. prog[os].handles \in Seq(Handles) /\ prog[os].handles # <<>>
    BY <1>6 DEF Reap_Command, In, ProgIInv, HandlesHeld, ProgTypes, Frames
  <2>3. Head(prog[os].handles) = prog[os].handles[1]
    BY <2>2, FirstHandle
  <2>4. Reap(os, prog[os].handles[1])
    BY <2>1, <2>3
  <2> QED  BY <2>1, <2>4, ParentReapsExited
<1>7. CASE Leave(os, "return")
  BY <1>7, LeaveReapsNobody
<1>8. CASE Rgen_Start(os)
  <2>1. CASE Register_Signal_Handler(os, "sig_terminate")
    BY <2>1, SessionAssumption, RegisteringKeepsThreads, StayingReapsNobody
  <2>2. CASE UNCHANGED vars \/ Launch_Thread(os, "Signalize_EOF", "loop")
    BY <2>2, UnchangedReapsNobody, LaunchReapsNobody DEF vars, maps
  <2> QED  BY <1>8, <2>1, <2>2 DEF Rgen_Start
<1>9. CASE Rgen_Loop(os)
  BY <1>9, UnchangedReapsNobody DEF Rgen_Loop, vars, maps
<1>10. CASE Rgen_End(os)
  <2>1. at[os] = "user" /\ prog[os].name = "rgen"
    BY <1>10 DEF Rgen_End, In, Calling
  <2>2. Leave(os, "return")
    BY <1>10, <2>1, RgenNeverWaits DEF Rgen_End, In
  <2> QED  BY <2>2, LeaveReapsNobody
<1>11. CASE Shutdown_Step(os)
  BY <1>11, LeavingKeepsThreads, StayingReapsNobody DEF Shutdown_Step
<1>12. CASE Program_Return(os)
  BY <1>12, UnchangedReapsNobody DEF Program_Return, Thread_Return, maps
<1>13. CASE Proceed(os)
  <2>1. CASE Wait_For_Return(os)
    BY <2>1, UnchangedReapsNobody DEF Wait_For_Return, maps
  <2> QED  BY <1>13, <2>1, WaitingKeepsThreads, StayingReapsNobody DEF Proceed
<1>14. CASE Boot_Step
  BY <1>1, <1>2, <1>3, <1>14 DEF Boot_Step
<1>15. CASE Shell_Step(os)
  BY <1>4, <1>5, <1>6, <1>7, <1>15 DEF Shell_Step
<1>16. CASE Rgen_Step(os)
  BY <1>8, <1>9, <1>10, <1>16 DEF Rgen_Step
<1>17. CASE Program_Exit(os)
  BY <1>7, <1>17 DEF Program_Exit
<1> QED  BY <1>11, <1>12, <1>13, <1>14, <1>15, <1>16, <1>17 DEF Thread_Step

LEMMA StepReapsExited ==
    ASSUME Orderly, IInv, ProgIInv, SingleIInv, [Session_Next]_session_vars
    PROVE  Reaps_Exited
<1>1. PICK n \in Nat, k \in Nat : Nested(n, k)
  BY DEF SingleIInv
<1>2. ~fault /\ ~fault'
  BY StackKept DEF SingleIInv
<1>3. CASE UNCHANGED session_vars
  BY <1>3, UnchangedReapsNobody DEF session_vars, vars, maps
<1>4. ASSUME NEW os \in OsThreads, Astray_Step(os)
      PROVE  Reaps_Exited
  BY <1>2, <1>4, UnchangedReapsNobody
  DEF Astray_Step, Spurious_Wakeup, Use_After_Free, Crash, maps
<1>5. ASSUME NEW os \in OsThreads, Thread_Step(os)
      PROVE  Reaps_Exited
  BY <1>1, <1>2, <1>5, ThreadReapsExited
<1>6. ASSUME NEW os \in OsThreads, User_Types(os)
      PROVE  Reaps_Exited
  BY <1>6, UnchangedReapsNobody DEF User_Types, Read_Command, Read_Key, vars, maps
<1> QED  BY <1>3, <1>4, <1>5, <1>6 DEF Session_Next, Powered_Off

(* Read_Exit_Code only ever takes threads away that have exited: the shell *)
(* and the kernel reap what they have waited for, and rgen's main thread   *)
(* takes its helper with it only once the helper was ended.                *)
THEOREM SingleOnlyExitedReaped ==
    ASSUME Orderly
    PROVE  Session_Spec => OnlyExitedReaped
<1>1. IInv /\ ProgIInv /\ SingleIInv /\ [Session_Next]_session_vars
      => [Reaps_Exited]_session_vars
  BY StepReapsExited
<1>2. Session_Spec => [][Reaps_Exited]_session_vars
  BY <1>1, SessionInvariance, SingleInvariance, PTL DEF Session_Spec
<1> QED  BY <1>2 DEF OnlyExitedReaped, Reaps_Exited
=============================================================================
