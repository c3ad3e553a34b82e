---------------------------- MODULE IdAllocator ----------------------------
(***************************************************************************)
(* The tables of reserved ids of Process_Controller: used_pid/free_pid and *)
(* used_tid/free_tid (src/src/kernel/process_controller.cpp, 407-475).     *)
(* Both tables run the same algorithm; a table is the record               *)
(*   used : the ids whose slot is true,                                    *)
(*   free : the hint from which the next search starts.                    *)
(* Each operation runs under its own mutex (used_pid_mutex,                *)
(* used_tid_mutex), so it is one step of whoever calls it.                 *)
(***************************************************************************)
EXTENDS Naturals

CONSTANTS Min,    \* MIN_PID or MIN_TID, the first id
          Count,  \* MAX_PID_COUNT or MAX_TID_COUNT, the number of slots
          NoId    \* what -1 becomes in a 16 bit THandle: 65535

Ids == Min .. (Min + Count - 1)

(* The slot of an id is id - Min, and the search steps with                *)
(* ((id + 1) % Count) + Min: that is the next slot only because Min is a   *)
(* multiple of Count (0 and 1024 with a Count of 1024), which whoever      *)
(* instantiates this module has to assume, and that NoId is no id.         *)
Next_Slot(id) == ((id + 1) % Count) + Min

Empty_Table == [used |-> {}, free |-> Min]

(* Mutant: every search starts at the first id instead of the hint.        *)
Start_First(table) == Min

(* An exhausted search resets the hint to 0, which lies below MIN_TID: the *)
(* next search of the TIDs first reads the byte before used_tid, which is  *)
(* used_pid[0], true as long as the kernel process lives, and steps on.    *)
Start(table) == IF table.free \in Ids THEN table.free ELSE Next_Slot(table.free)

Unused(table) == Ids \ table.used

(* How many steps a search that starts at "from" takes to reach id.        *)
Distance(from, id) == (id + Count - from) % Count

(* Mutant: the loop looks at the hint alone and never at the table.        *)
Is_Next_Free_Unchecked(table, id) == id = Start(table)

(* Get_Free_PID and Get_Free_TID return the first unused id found from the *)
(* hint on, wrapping around, and NoId when every slot is taken.            *)
Is_Next_Free(table, id) ==
    \/ /\ Unused(table) = {}
       /\ id = NoId
    \/ /\ id \in Unused(table)
       /\ \A other \in Unused(table) :
             Distance(Start(table), id) <= Distance(Start(table), other)

(* The loop of both (lines 413-422 and 448-457), step by step, by what     *)
(* counter is; it gives up when Count steps have not ended it.  A slot     *)
(* outside the table is the byte in front of it, which is true.            *)
Slot_Used(table, id) == id \notin Ids \/ id \in table.used

Search(table) ==
    LET pid[counter \in 0..Count] ==
            IF counter = 0 THEN table.free
            ELSE LET before == pid[counter - 1]
                 IN  IF Slot_Used(table, before) THEN Next_Slot(before) ELSE before
    IN  IF Slot_Used(table, pid[Count]) THEN NoId ELSE pid[Count]

(* Mutant: the id of an exhausted table, 65535, is marked as reserved too.  *)
Get_Free_Unbounded(table, id) ==
    [used |-> table.used \cup {id},
     free |-> IF id = NoId THEN 0 ELSE Next_Slot(id)]

(* The table Get_Free_* leaves behind when it returned id.                 *)
Get_Free(table, id) ==
    IF id = NoId
      THEN [table EXCEPT !.free = 0]
      ELSE [used |-> table.used \cup {id}, free |-> Next_Slot(id)]

(* Mutant: the hint stays where it is.                                     *)
Set_Free_All_Hint_Kept(table, ids) == [table EXCEPT !.used = @ \ ids]

(* Set_Free_PID and Set_Free_TID, called for each of ids: the hint moves    *)
(* back to the lowest id released, when that lies below it.                *)
Set_Free_All(table, ids) ==
    LET Lowest(id) == \A other \in ids : id <= other
    IN  [used |-> table.used \ ids,
         free |-> IF \E id \in ids : Lowest(id) /\ id < table.free
                    THEN CHOOSE id \in ids : Lowest(id)
                    ELSE table.free]

Set_Free(table, id) == Set_Free_All(table, {id})

IsTable(table) == /\ table.used \subseteq Ids
                  /\ table.free \in Ids \cup {0}
                  /\ table = [used |-> table.used, free |-> table.free]
=============================================================================
