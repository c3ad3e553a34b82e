------------------------ MODULE IdAllocator_proofs --------------------------
(***************************************************************************)
(* The search loops of Get_Free_PID and Get_Free_TID (src/src/kernel/      *)
(* process_controller.cpp, 413-422 and 448-457) find what Is_Next_Free     *)
(* says, in every table and for every number of slots.                     *)
(***************************************************************************)
EXTENDS IdAllocator, Induction

(* What whoever instantiates IdAllocator has to assume.                    *)
Slots_Aligned ==
    /\ Count \in Nat \ {0} /\ Min \in Nat /\ Min % Count = 0
    /\ NoId \notin Ids

(* The slot k steps behind id a.                                           *)
Slot_Behind(a, k) == IF a + k < Min + Count THEN a + k ELSE (a + k) - Count

(* A remainder of what lies below twice the divisor.                       *)
LEMMA Remainder ==
    ASSUME NEW count \in Nat \ {0}, NEW n \in Nat, n < 2 * count
    PROVE  n % count = IF n < count THEN n ELSE n - count
<1>1. CASE n < count
  BY <1>1
<1>2. CASE n >= count
  <2>1. PICK i \in Nat : i < count /\ n = i + count
    <3>1. n - count \in Nat /\ n - count < count /\ n = (n - count) + count
      BY <1>2
    <3> QED  BY <3>1
  <2>2. i % count = i /\ (i + count) % count = i
    BY <2>1
  <2> QED  BY <1>2, <2>1, <2>2
<1> QED  BY <1>1, <1>2

(* A multiple is a multiple.                                               *)
LEMMA Multiple ==
    ASSUME NEW count \in Nat \ {0}, NEW n \in Nat, n % count = 0
    PROVE  \E q \in Nat : n = count * q
<1>1. n \div count \in Nat /\ n = (count * (n \div count)) + (n % count)
  OBVIOUS
<1> QED  BY <1>1

(* (id + 1) % Count + Min is the next id, and the first one after the last.*)
LEMMA NextSlot ==
    ASSUME Slots_Aligned
    PROVE  /\ \A id \in Ids : Next_Slot(id) = IF id + 1 < Min + Count THEN id + 1 ELSE Min
           /\ \A n \in Nat : Next_Slot(n) \in Ids
<1>1. PICK q \in Nat : Min = Count * q
  BY Multiple DEF Slots_Aligned
<1>2. ASSUME NEW id \in Ids
      PROVE  Next_Slot(id) = IF id + 1 < Min + Count THEN id + 1 ELSE Min
  <2>1. PICK i \in Nat : i < Count /\ id = Min + i
    <3>1. id - Min \in Nat /\ id - Min < Count /\ id = Min + (id - Min)
      BY DEF Ids, Slots_Aligned
    <3> QED  BY <3>1
  <2>2. CASE i + 1 < Count
    <3>1. PICK j \in Nat : j < Count /\ j = i + 1
      BY <2>1, <2>2 DEF Slots_Aligned
    <3>2. (Count * q + j) % Count = j
      BY <1>1, <3>1 DEF Slots_Aligned
    <3>3. id + 1 = Count * q + j
      BY <1>1, <2>1, <3>1 DEF Slots_Aligned
    <3> QED  BY <2>1, <2>2, <3>1, <3>2, <3>3 DEF Next_Slot, Slots_Aligned
  <2>3. CASE i + 1 = Count
    <3>1. (Count * q + Count) % Count = 0
      BY DEF Slots_Aligned
    <3>2. id + 1 = Count * q + Count
      BY <1>1, <2>1, <2>3 DEF Slots_Aligned
    <3> QED  BY <2>1, <2>3, <3>1, <3>2 DEF Next_Slot, Slots_Aligned
  <2> QED  BY <2>1, <2>2, <2>3 DEF Slots_Aligned
<1>3. \A n \in Nat : Next_Slot(n) \in Ids
  BY DEF Next_Slot, Ids, Slots_Aligned
<1> QED  BY <1>2, <1>3

(* From any id on, the steps reach every other id, each at its distance.   *)
LEMMA SlotsBehind ==
    ASSUME Slots_Aligned, NEW a \in Ids
    PROVE  /\ Slot_Behind(a, 0) = a
           /\ \A k \in 0..Count - 1 :
                 /\ Slot_Behind(a, k) \in Ids
                 /\ Distance(a, Slot_Behind(a, k)) = k
                 /\ k + 1 < Count => Next_Slot(Slot_Behind(a, k)) = Slot_Behind(a, k + 1)
           /\ \A id \in Ids : /\ Distance(a, id) \in 0..Count - 1
                              /\ Slot_Behind(a, Distance(a, id)) = id
<1> USE DEF Slots_Aligned
<1>1. a \in Nat /\ Min <= a /\ a < Min + Count
  BY DEF Ids
<1>2. ASSUME NEW id \in Ids
      PROVE  Distance(a, id) = IF id >= a THEN id - a ELSE (id + Count) - a
  <2>1. id \in Nat /\ Min <= id /\ id < Min + Count
    BY DEF Ids
  <2>2. PICK n \in Nat : n = (id + Count) - a /\ n < 2 * Count
    <3>1. (id + Count) - a \in Nat /\ (id + Count) - a < 2 * Count
      BY <1>1, <2>1
    <3> QED  BY <3>1
  <2>3. n % Count = IF n < Count THEN n ELSE n - Count
    BY <2>2, Remainder
  <2>4. Distance(a, id) = n % Count
    BY <1>1, <2>1, <2>2 DEF Distance
  <2> QED  BY <1>1, <2>1, <2>2, <2>3, <2>4
<1>3. ASSUME NEW k \in 0..Count - 1
      PROVE  /\ Slot_Behind(a, k) \in Ids
             /\ Slot_Behind(a, k) = a + k \/ Slot_Behind(a, k) = (a + k) - Count
  BY <1>1 DEF Slot_Behind, Ids
<1>4. ASSUME NEW k \in 0..Count - 1  PROVE Distance(a, Slot_Behind(a, k)) = k
  BY <1>1, <1>2, <1>3 DEF Slot_Behind
<1>5. ASSUME NEW k \in 0..Count - 1, k + 1 < Count
      PROVE  Next_Slot(Slot_Behind(a, k)) = Slot_Behind(a, k + 1)
  <2>1. Next_Slot(Slot_Behind(a, k)) = IF Slot_Behind(a, k) + 1 < Min + Count
                                       THEN Slot_Behind(a, k) + 1 ELSE Min
    BY <1>3, NextSlot
  <2> QED  BY <1>1, <1>5, <2>1 DEF Slot_Behind
<1>6. ASSUME NEW id \in Ids
      PROVE  /\ Distance(a, id) \in 0..Count - 1
             /\ Slot_Behind(a, Distance(a, id)) = id
  BY <1>1, <1>2 DEF Slot_Behind, Ids
<1> QED  BY <1>1, <1>3, <1>4, <1>5, <1>6 DEF Slot_Behind

(* What the loop is at after each number of turns.                         *)
LEMMA LoopTurns ==
    ASSUME Slots_Aligned, NEW table, IsTable(table)
    PROVE  \E g \in [0..Count -> Ids \cup {0}] :
              /\ Search(table) = IF Slot_Used(table, g[Count]) THEN NoId ELSE g[Count]
              /\ g[0] = table.free
              /\ \A n \in 1..Count :
                    g[n] = IF Slot_Used(table, g[n - 1]) THEN Next_Slot(g[n - 1]) ELSE g[n - 1]
<1> USE DEF Slots_Aligned
<1> DEFINE V == Ids \cup {0}
           next == [n \in 1..Count |->
                      [id \in V |-> IF Slot_Used(table, id) THEN Next_Slot(id) ELSE id]]
           pid[counter \in 0..Count] ==
               IF counter = 0 THEN table.free
               ELSE LET before == pid[counter - 1]
                    IN  IF Slot_Used(table, before) THEN Next_Slot(before) ELSE before
<1>1. next \in [1..Count -> [V -> V]] /\ table.free \in V
  BY NextSlot DEF Ids, IsTable
<1>2. PICK g \in [0..Count -> V] : Turns(g, Count, table.free, next)
  <2>1. Count \in Nat
    OBVIOUS
  <2> HIDE DEF V, next
  <2> QED  BY <1>1, <2>1, Iteration
<1>3. g = [counter \in 0..Count |->
              IF counter = 0 THEN table.free
              ELSE LET before == g[counter - 1]
                   IN  IF Slot_Used(table, before) THEN Next_Slot(before) ELSE before]
  <2>1. ASSUME NEW n \in 0..Count
        PROVE  g[n] = IF n = 0 THEN table.free
                      ELSE LET before == g[n - 1]
                           IN  IF Slot_Used(table, before) THEN Next_Slot(before) ELSE before
    <3>1. CASE n = 0
      BY <1>2, <3>1 DEF Turns
    <3>2. CASE n # 0
      <4>1. n \in 1..Count /\ n - 1 \in 0..Count
        BY <3>2
      <4> QED  BY <1>2, <3>2, <4>1 DEF Turns
    <3> QED  BY <3>1, <3>2
  <2> QED  BY <2>1
<1>4. pid = [counter \in 0..Count |->
              IF counter = 0 THEN table.free
              ELSE LET before == pid[counter - 1]
                   IN  IF Slot_Used(table, before) THEN Next_Slot(before) ELSE before]
  BY <1>3 DEF pid
<1>5. Search(table) = IF Slot_Used(table, pid[Count]) THEN NoId ELSE pid[Count]
  BY DEF Search
<1> HIDE DEF pid
<1>6. pid \in [0..Count -> V]
  <2>1. ASSUME NEW n \in 0..Count  PROVE pid[n] = g[n]
    <3> DEFINE S == {k \in 0..Count : pid[k] = g[k]}
    <3>1. 0 \in S
      BY <1>3, <1>4
    <3>2. ASSUME NEW k \in 1..Count, k - 1 \in S  PROVE k \in S
      <4>1. pid[k - 1] = g[k - 1] /\ k \in 0..Count /\ k # 0
        BY <3>2
      <4> QED  BY <1>3, <1>4, <4>1
    <3> HIDE DEF S
    <3>3. 0..Count \subseteq S
      BY <3>1, <3>2, Induction
    <3> QED  BY <3>3 DEF S
  <2> QED  BY <1>4, <2>1
<1>7. pid[0] = table.free
  BY <1>4
<1>8. ASSUME NEW n \in 1..Count
      PROVE  pid[n] = IF Slot_Used(table, pid[n - 1]) THEN Next_Slot(pid[n - 1]) ELSE pid[n - 1]
  <2>1. n \in 0..Count /\ n # 0
    OBVIOUS
  <2> QED  BY <1>4, <2>1
<1> QED  BY <1>5, <1>6, <1>7, <1>8

(* As long as every id up to distance d is in use the loop steps over      *)
(* them; it stays where it finds one that is not.                          *)
LEMMA LoopWalks ==
    ASSUME Slots_Aligned, NEW table, IsTable(table),
           NEW d \in 0..Count - 1, Slot_Behind(Start(table), d) \in Unused(table),
           \A n \in Nat : n < d => Slot_Behind(Start(table), n) \notin Unused(table)
    PROVE  Search(table) = Slot_Behind(Start(table), d)
<1> USE DEF Slots_Aligned
<1> DEFINE a == Start(table)
           c == IF table.free \in Ids THEN 0 ELSE 1
<1>1. a \in Ids
  BY NextSlot DEF Start, IsTable, Ids
<1>2. PICK g \in [0..Count -> Ids \cup {0}] :
         /\ Search(table) = IF Slot_Used(table, g[Count]) THEN NoId ELSE g[Count]
         /\ g[0] = table.free
         /\ \A n \in 1..Count :
               g[n] = IF Slot_Used(table, g[n - 1]) THEN Next_Slot(g[n - 1]) ELSE g[n - 1]
  BY LoopTurns
<1>3. c \in 0..1 /\ c + d \in 0..Count /\ g[c] = a
  <2>1. CASE table.free \in Ids
    BY <1>2, <2>1 DEF Start
  <2>2. CASE table.free \notin Ids
    <3>1. 1 \in 1..Count /\ 1 - 1 = 0
      OBVIOUS
    <3>2. g[1] = IF Slot_Used(table, g[0]) THEN Next_Slot(g[0]) ELSE g[0]
      BY <1>2, <3>1
    <3> QED  BY <1>2, <2>2, <3>2 DEF Start, Slot_Used
  <2> QED  BY <2>1, <2>2
<1> HIDE DEF a, c
<1>4. g[c + d] = Slot_Behind(a, d)
  <2> DEFINE S == {n \in 0..d : g[c + n] = Slot_Behind(a, n)}
  <2>1. 0 \in S
    <3>1. Slot_Behind(a, 0) = a /\ c + 0 = c /\ 0 \in 0..d
      BY <1>1, <1>3, SlotsBehind
    <3> QED  BY <1>3, <3>1
  <2>2. ASSUME NEW n \in 1..d, n - 1 \in S  PROVE n \in S
    <3>1. /\ g[c + (n - 1)] = Slot_Behind(a, n - 1)
          /\ n - 1 \in 0..Count - 1 /\ (n - 1) + 1 < Count /\ (n - 1) + 1 = n
          /\ n - 1 \in Nat /\ n - 1 < d
      BY <2>2
    <3>2. Slot_Behind(a, n - 1) \in Ids
      BY <1>1, <3>1, SlotsBehind
    <3>3. Slot_Used(table, Slot_Behind(a, n - 1))
      BY <3>1, <3>2 DEF Slot_Used, Unused, a
    <3>4. Next_Slot(Slot_Behind(a, n - 1)) = Slot_Behind(a, n)
      BY <1>1, <3>1, SlotsBehind
    <3>5. c + n \in 1..Count /\ (c + n) - 1 = c + (n - 1)
      BY <1>3
    <3> QED  BY <1>2, <3>1, <3>3, <3>4, <3>5
  <2>3. 0..d \subseteq S
    <3>1. d \in Nat
      OBVIOUS
    <3> HIDE DEF S
    <3> QED  BY <2>1, <2>2, <3>1, Induction
  <2>4. d \in 0..d
    OBVIOUS
  <2> QED  BY <2>3, <2>4
<1>5. g[Count] = Slot_Behind(a, d)
  <2> DEFINE S == {k \in 0..Count - (c + d) : g[(c + d) + k] = Slot_Behind(a, d)}
  <2>1. Count - (c + d) \in Nat
    BY <1>3
  <2>2. 0 \in S
    BY <1>3, <1>4, <2>1
  <2>3. ASSUME NEW k \in 1..Count - (c + d), k - 1 \in S  PROVE k \in S
    <3>1. g[(c + d) + (k - 1)] = Slot_Behind(a, d)
      BY <2>3
    <3>2. (c + d) + k \in 1..Count /\ ((c + d) + k) - 1 = (c + d) + (k - 1)
      BY <1>3
    <3>3. ~Slot_Used(table, Slot_Behind(a, d))
      BY DEF Slot_Used, Unused, a
    <3> QED  BY <1>2, <3>1, <3>2, <3>3
  <2>4. 0..Count - (c + d) \subseteq S
    <3> HIDE DEF S
    <3> QED  BY <2>1, <2>2, <2>3, Induction
  <2>5. (c + d) + (Count - (c + d)) = Count
    BY <1>3
  <2>6. Count - (c + d) \in 0..Count - (c + d)
    BY <2>1
  <2>7. g[(c + d) + (Count - (c + d))] = Slot_Behind(a, d)
    BY <2>4, <2>6
  <2> QED  BY <2>5, <2>7
<1> QED  BY <1>2, <1>5 DEF Slot_Used, Unused, a

(* The search finds the id that Is_Next_Free names, and none when all ids  *)
(* are in use.                                                             *)
THEOREM SearchFindsNext ==
    ASSUME Slots_Aligned, NEW table, IsTable(table), NEW id \in Ids \cup {NoId}
    PROVE  Is_Next_Free(table, id) <=> id = Search(table)
<1> USE DEF Slots_Aligned
<1> DEFINE a == Start(table)
<1>1. a \in Ids
  BY NextSlot DEF Start, IsTable, Ids
<1>2. CASE Unused(table) = {}
  <2>1. PICK g \in [0..Count -> Ids \cup {0}] :
           Search(table) = IF Slot_Used(table, g[Count]) THEN NoId ELSE g[Count]
    BY LoopTurns
  <2>2. Search(table) = NoId
    BY <1>2, <2>1 DEF Unused, Slot_Used
  <2> QED  BY <1>2, <2>2 DEF Is_Next_Free
<1>3. CASE Unused(table) # {}
  <2> DEFINE D == {Distance(a, u) : u \in Unused(table)}
  <2>1. \A u \in Unused(table) : u \in Ids
    BY DEF Unused
  <2>2. D \in SUBSET Nat /\ D # {}
    <3>1. \A u \in Unused(table) : Distance(a, u) \in Nat
      BY <1>1, <2>1, SlotsBehind
    <3> QED  BY <1>3, <3>1
  <2>3. PICK d \in D : \A n \in D : d <= n
    <3> HIDE DEF D
    <3> QED  BY <2>2, LeastElement
  <2>4. PICK s \in Unused(table) : d = Distance(a, s)
    BY <2>3
  <2>5. /\ d \in 0..Count - 1 /\ s = Slot_Behind(a, d)
        /\ \A u \in Unused(table) : d <= Distance(a, u) /\ Distance(a, u) \in Nat
    BY <1>1, <2>1, <2>3, <2>4, SlotsBehind
  <2>6. ASSUME NEW n \in Nat, n < d  PROVE Slot_Behind(a, n) \notin Unused(table)
    <3>1. n \in 0..Count - 1
      BY <2>5, <2>6
    <3>2. Distance(a, Slot_Behind(a, n)) = n
      BY <1>1, <3>1, SlotsBehind
    <3> QED  BY <2>5, <2>6, <3>2
  <2>7. Search(table) = s
    BY <2>4, <2>5, <2>6, LoopWalks
  <2>8. ASSUME Is_Next_Free(table, id)  PROVE id = s
    <3>1. id \in Unused(table) /\ Distance(a, id) <= Distance(a, s)
      BY <1>3, <2>4, <2>8 DEF Is_Next_Free
    <3>2. Distance(a, id) = d
      BY <2>4, <2>5, <3>1
    <3>3. id = Slot_Behind(a, Distance(a, id))
      BY <1>1, <2>1, <3>1, SlotsBehind
    <3> QED  BY <2>5, <3>2, <3>3
  <2>9. Is_Next_Free(table, s)
    BY <2>4, <2>5 DEF Is_Next_Free
  <2> QED  BY <2>7, <2>8, <2>9
<1> QED  BY <1>2, <1>3
=============================================================================
