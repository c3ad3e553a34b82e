------------------------- MODULE FileSystem_proofs --------------------------
(***************************************************************************)
(* The table on the disk follows the table in memory through every call,   *)
(* whatever the volume, its damage and the number of processes.            *)
(***************************************************************************)
EXTENDS FileSystem, Induction, TLAPS

\* A volume right after Save_FAT12_Table.
Saved(m) == m.saved = m.table

\* Save_FAT12_Table (fat12_parts.cpp:38) leaves the table it wrote in memory.
LEMMA SaveSaves == ASSUME NEW m PROVE Saved(Save_FAT12_Table(m))
  BY DEF Saved, Save_FAT12_Table

\* Write_Item (fat12_functions.cpp:415) saves last, in all three branches.
LEMMA WriteItemSaves ==
  ASSUME NEW m, NEW file, NEW start, NEW num
  PROVE  Saved(Write_Item(m, file, start, num))
  BY SaveSaves DEF Write_Item

\* An entry is rewritten through Write_Item.
LEMMA RewriteSaves ==
  ASSUME NEW m, NEW dir, NEW item, NEW row
  PROVE  Saved(Rewrite_Entry(m, dir, item, row))
  BY WriteItemSaves DEF Rewrite_Entry

\* A chain is extended by one sector, and the table saved
\* (fat12_functions.cpp:262).
LEMMA LinkSaves ==
  ASSUME NEW m, NEW dir, NEW more
  PROVE  Saved(Link_Sector(m, dir, more))
  BY SaveSaves DEF Link_Sector

\* Create_Item ends in Write_Item (fat12_functions.cpp:246), or links a new
\* sector.
LEMMA CreateSaves ==
  ASSUME NEW m, NEW dir, NEW name, NEW isDir
  PROVE  Saved(Create_Item(m, dir, name, isDir))
  BY ZenonT(40), WriteItemSaves, LinkSaves DEF Create_Item

\* Remove_Item changes nothing or saves what Remove_Item_Data freed
\* (fat12_functions.cpp:326).
LEMMA RemoveSaves ==
  ASSUME NEW m, NEW dir, NEW item, Saved(m)
  PROVE  Saved(Remove_Item(m, dir, item))
  BY SaveSaves DEF Remove_Item

\* No step of a process, and no restart, leaves the two tables different.
LEMMA StepSaves ==
  ASSUME Saved(fat12), [Next]_vars
  PROVE  Saved(fat12)'
  <1>1. ASSUME NEW p \in Procs, NEW path \in Paths, Delete_File(p, path)
        PROVE  Saved(fat12)'
    <2>1. PICK dir, item : fat12' = fat12 \/ fat12' = Remove_Item(fat12, dir, item)
      BY <1>1 DEF Delete_File
    <2>2. Saved(Remove_Item(fat12, dir, item))
      BY RemoveSaves
    <2> QED
      BY <2>1, <2>2 DEF Saved
  <1>2. ASSUME NEW p \in Procs, NEW path \in Paths, NEW h \in Handles,
               NEW isDir \in BOOLEAN, Open_Or_Create(p, h, path, isDir)
        PROVE  Saved(fat12)'
    <2>1. PICK dir, name : fat12' = fat12 \/ fat12' = Create_Item(fat12, dir, name, isDir)
      BY <1>2 DEF Open_Or_Create
    <2>2. Saved(Create_Item(fat12, dir, name, isDir))
      BY CreateSaves
    <2> QED
      BY <2>1, <2>2 DEF Saved
  <1>3. ASSUME NEW h \in Handles, NEW text \in Texts, NEW length \in Lengths,
               Write_File(h, text, length)
        PROVE  Saved(fat12)'
    <2> DEFINE item    == [handle[h].item EXCEPT !.length = length]
               written == Write_Item(Remove_Item_Data(fat12, item.start),
                                     Buffer(text, length), item.start, 0)
               slot    == FirstSlot(Slots(Read_Item(written, handle[h].parent),
                                          LAMBDA row : SameName(row, item)))
               old     == Read_Item(written, handle[h].parent)[slot[1]][slot[2]]
               new     == IF old = Free THEN Free ELSE [old EXCEPT !.length = length]
               listed  == Rewrite_Entry(written, handle[h].parent, item, new)
    <2>1. fat12' = fat12 \/ fat12' = written \/ fat12' = listed
      BY <1>3 DEF Write_File
    <2>2. Saved(written) /\ Saved(listed)
      <3>1. Saved(written)
        BY WriteItemSaves
      <3> HIDE DEF item, written, slot, old, new
      <3>2. Saved(listed)
        BY RewriteSaves
      <3> QED
        BY <3>1, <3>2
    <2> QED
      BY <2>1, <2>2 DEF Saved
  <1>4. CASE Restart
    BY <1>4 DEF Restart, Saved
  <1>5. ASSUME \/ \E p \in Procs, path \in Paths :
                    \/ Set_Working_Dir(p, path)
                    \/ \E h \in Handles, isDir \in BOOLEAN : Open_Existing(p, h, path, isDir)
               \/ \E h \in Handles : Close_Handle(h)
               \/ UNCHANGED vars
        PROVE  Saved(fat12)'
    BY <1>5 DEF Set_Working_Dir, Open_Existing, Close_Handle, vars, Saved
  <1> QED
    BY <1>1, <1>2, <1>3, <1>4, <1>5 DEF Next

\* A restart reads back the table the system was using: TableSaved holds in
\* every state, from the assumption that it holds of the image.
THEOREM TableAlwaysSaved == FileSystem_Spec => []TableSaved
  <1>1. Init => TableSaved
    BY FileSystemAssumption DEF Init, TableSaved
  <1>2. TableSaved /\ [Next]_vars => TableSaved'
    BY StepSaves DEF TableSaved, Saved
  <1> QED
    BY <1>1, <1>2, PTL DEF FileSystem_Spec

-----------------------------------------------------------------------------
(* Chains.                                                                 *)

\* The assumptions on the sizes, one by one.
LEMMA Sizes ==
  /\ SectorRows \in Nat \ {0} /\ RootSectors \in Nat /\ 2 <= RootSectors
  /\ TableSize \in Nat /\ RootSectors < TableSize /\ TableSize < 4080
  /\ DiskSectors \in Nat /\ RootSectors <= DiskSectors
  BY Fat12Assumption

\* A link of the table leads to a sector of it.
LEMMA LinkIn ==
  ASSUME NEW table, Links_OK(table), NEW s \in Sectors
  PROVE  /\ table[s] \in Nat
         /\ Linked(table, s) => table[s] \in Sectors /\ table[s] # 0
  <1>1. table[s] \in 0..LAST_SECTOR
    BY DEF Links_OK
  <1>2. Linked(table, s) => table[s] < TableSize /\ table[s] # 0
    BY DEF Links_OK, Linked
  <1>3. table[s] \in Nat
    <2>1. LAST_SECTOR \in Nat
      BY DEF LAST_SECTOR
    <2> QED
      BY <1>1, <2>1
  <1>4. ASSUME Linked(table, s)  PROVE table[s] \in Sectors
    BY <1>2, <1>3, <1>4, Sizes DEF Sectors
  <1> QED
    BY <1>2, <1>3, <1>4

\* Where a chain starts, and what the loop over Next_Sector makes of it: it
\* follows links until there is none, or its bound is reached.
LEMMA ChainLinks ==
  ASSUME NEW table, Links_OK(table), NEW start \in Sectors
  PROVE  LET chain == Chain(table, start) IN
         /\ chain \in Seq(Sectors) /\ Len(chain) \in 1..TableSize + 1
         /\ chain[1] = start
         /\ \A i \in 1..Len(chain) - 1 :
              Linked(table, chain[i]) /\ chain[i + 1] = table[chain[i]]
         /\ Linked(table, chain[Len(chain)]) => Len(chain) = TableSize + 1
  <1> DEFINE V == {c \in Seq(Sectors) : Len(c) > 0}
             More(c) == IF Linked(table, c[Len(c)]) THEN Append(c, table[c[Len(c)]]) ELSE c
             next == [n \in 1..TableSize |-> [c \in V |-> More(c)]]
             visited[n \in 0..TableSize] ==
                 IF n = 0 THEN <<start>>
                 ELSE LET before == visited[n - 1]
                      IN  IF Linked(table, before[Len(before)])
                          THEN Append(before, table[before[Len(before)]])
                          ELSE before
  <1>1. \A c \in V : /\ Len(c) \in Nat \ {0} /\ c[Len(c)] \in Sectors
                     /\ More(c) \in V
    <2> SUFFICES ASSUME NEW c \in V
                 PROVE  /\ Len(c) \in Nat \ {0} /\ c[Len(c)] \in Sectors
                        /\ More(c) \in V
      OBVIOUS
    <2>1. c \in Seq(Sectors) /\ Len(c) \in Nat \ {0} /\ c[Len(c)] \in Sectors
      OBVIOUS
    <2>2. CASE Linked(table, c[Len(c)])
      <3>1. table[c[Len(c)]] \in Sectors
        BY <2>1, <2>2, LinkIn
      <3>2. Append(c, table[c[Len(c)]]) \in V
        BY <2>1, <3>1
      <3> QED
        BY <2>1, <2>2, <3>2
    <2>3. CASE ~Linked(table, c[Len(c)])
      BY <2>1, <2>3
    <2> QED
      BY <2>1, <2>2, <2>3
  <1>2. <<start>> \in V /\ next \in [1..TableSize -> [V -> V]] /\ TableSize \in Nat
    <2>1. <<start>> \in V
      OBVIOUS
    <2> HIDE DEF V, More
    <2> QED
      BY <1>1, <2>1, Sizes
  <1>3. PICK g \in [0..TableSize -> V] : Turns(g, TableSize, <<start>>, next)
    <2> HIDE DEF V, next
    <2> QED
      BY <1>2, Iteration
  <1>4. \A n \in 0..TableSize : g[n] = IF n = 0 THEN <<start>> ELSE More(g[n - 1])
    <2> SUFFICES ASSUME NEW n \in 0..TableSize
                 PROVE  g[n] = IF n = 0 THEN <<start>> ELSE More(g[n - 1])
      OBVIOUS
    <2> HIDE DEF V, More
    <2>1. CASE n = 0
      BY <1>3, <2>1 DEF Turns
    <2>2. CASE n # 0
      <3>1. n \in 1..TableSize /\ n - 1 \in 0..TableSize
        BY <1>2, <2>2
      <3> QED
        BY <1>3, <2>2, <3>1 DEF Turns
    <2> QED
      BY <2>1, <2>2
  <1>5. visited = [n \in 0..TableSize |->
                     IF n = 0 THEN <<start>>
                     ELSE LET before == visited[n - 1]
                          IN  IF Linked(table, before[Len(before)])
                              THEN Append(before, table[before[Len(before)]])
                              ELSE before]
    <2>1. g = [n \in 0..TableSize |->
                 IF n = 0 THEN <<start>>
                 ELSE LET before == g[n - 1]
                      IN  IF Linked(table, before[Len(before)])
                          THEN Append(before, table[before[Len(before)]])
                          ELSE before]
      BY <1>4
    <2> QED
      BY <2>1 DEF visited
  <1>6. Chain(table, start) = visited[TableSize]
    BY DEF Chain
  <1> HIDE DEF visited
  <1>7. \A n \in 0..TableSize : visited[n] = IF n = 0 THEN <<start>> ELSE More(visited[n - 1])
    BY <1>5
  <1> DEFINE Good(c, n) ==
               /\ c \in V /\ c[1] = start
               /\ \A i \in 1..Len(c) - 1 : Linked(table, c[i]) /\ c[i + 1] = table[c[i]]
               /\ Len(c) <= n + 1
               /\ Linked(table, c[Len(c)]) => Len(c) = n + 1
             S == {n \in 0..TableSize : Good(visited[n], n)}
  <1>8. 0 \in S
    <2>1. Good(<<start>>, 0)
      OBVIOUS
    <2>2. 0 \in 0..TableSize /\ visited[0] = <<start>>
      BY <1>2, <1>7
    <2> HIDE DEF Good, V
    <2> QED
      BY <2>1, <2>2
  <1>9. ASSUME NEW n \in 1..TableSize, n - 1 \in S  PROVE n \in S
    <2> DEFINE c == visited[n - 1]
    <2>1. Good(c, n - 1) /\ visited[n] = More(c)
      <3> HIDE DEF Good, V, More
      <3>1. Good(c, n - 1)
        BY <1>9
      <3>2. n \in 0..TableSize /\ n # 0
        BY <1>2
      <3> QED
        BY <1>7, <3>1, <3>2
    <2> HIDE DEF c
    <2>2. c \in Seq(Sectors) /\ Len(c) \in Nat \ {0} /\ More(c) \in V
      <3>1. c \in V
        BY <2>1
      <3> HIDE DEF More, Good
      <3> QED
        BY <1>1, <3>1
    <2>3. CASE Linked(table, c[Len(c)])
      <3> DEFINE d == Append(c, table[c[Len(c)]])
      <3>1. d = More(c) /\ Len(c) = n
        BY <2>1, <2>3
      <3>2. Len(d) = n + 1 /\ d[n + 1] = table[c[n]] /\ \A i \in 1..n : d[i] = c[i]
        BY <2>2, <3>1
      <3>3. ASSUME NEW i \in 1..Len(d) - 1
            PROVE  Linked(table, d[i]) /\ d[i + 1] = table[d[i]]
        <4>1. CASE i = n
          BY <2>3, <3>1, <3>2, <4>1
        <4>2. CASE i # n
          <5>1. i \in 1..Len(c) - 1 /\ i \in 1..n /\ i + 1 \in 1..n
            BY <3>1, <3>2, <4>2
          <5> QED
            BY <2>1, <3>2, <5>1
        <4> QED
          BY <4>1, <4>2
      <3>4. d[1] = start
        BY <2>1, <3>2
      <3> HIDE DEF d
      <3>5. Good(d, n)
        BY <2>2, <3>1, <3>2, <3>3, <3>4
      <3>6. visited[n] = d /\ n \in 0..TableSize
        BY <1>2, <2>1, <3>1
      <3> HIDE DEF Good, V, More
      <3> QED
        BY <3>5, <3>6
    <2>4. CASE ~Linked(table, c[Len(c)])
      <3>1. visited[n] = c
        BY <2>1, <2>4
      <3>2. Len(c) <= n + 1
        BY <2>1, <2>2
      <3> HIDE DEF V, More
      <3>3. Good(c, n)
        BY <2>1, <2>4, <3>2
      <3>4. n \in 0..TableSize
        BY <1>2
      <3> HIDE DEF Good
      <3> QED
        BY <3>1, <3>3, <3>4
    <2> HIDE DEF S
    <2> QED
      BY <2>3, <2>4
  <1>10. Good(visited[TableSize], TableSize)
    <2>1. TableSize \in 0..TableSize
      BY <1>2
    <2> HIDE DEF S
    <2>2. 0..TableSize \subseteq S
      BY <1>2, <1>8, <1>9, Induction
    <2>3. TableSize \in S
      BY <2>1, <2>2
    <2> QED
      BY <2>3 DEF S
  <1> QED
    BY <1>2, <1>6, <1>10

\* No set of sectors at all has its links inside: links from the low sectors
\* lead upward, and those of the others stay among them.
LEMMA NoClosedSet ==
  ASSUME NEW table, Links_OK(table), NEW T \in SUBSET Sectors, T # {}
  PROVE  \E s \in T : ~(Linked(table, s) /\ table[s] \in T)
  <1> SUFFICES ASSUME \A s \in T : Linked(table, s) /\ table[s] \in T
               PROVE  FALSE
    OBVIOUS
  <1> DEFINE High == {s \in T : RootSectors <= s}
  <1>1. High \in SUBSET (RootSectors..TableSize - 1)
    <2>1. ASSUME NEW s \in High  PROVE s \in RootSectors..TableSize - 1
      <3>1. s \in 0..TableSize - 1 /\ RootSectors <= s
        BY DEF Sectors
      <3> QED
        BY <3>1, Sizes
    <2> QED
      BY <2>1
  <1>2. CASE High # {}
    <2>1. PICK s \in High : ~(Linked(table, s) /\ table[s] \in High)
      BY <1>1, <1>2 DEF Links_OK, No_Loop
    <2>2. s \in Sectors /\ s \in Nat /\ RootSectors <= s /\ ~(s < RootSectors)
      BY <1>1, <2>1, Sizes DEF Sectors
    <2>3. Linked(table, s) /\ table[s] \in T
      BY <2>1
    <2>4. RootSectors <= table[s]
      BY <2>2, <2>3 DEF Links_OK
    <2> QED
      BY <2>1, <2>3, <2>4
  <1>3. CASE High = {}
    <2>1. TableSize \in Nat /\ T \in SUBSET (0..TableSize)
      BY Sizes DEF Sectors
    <2>2. PICK s \in T : \A t \in T : t <= s
      BY <2>1, GreatestElement
    <2>3. s \in Sectors /\ s < RootSectors /\ s \in Nat
      BY <1>3, <2>1, Sizes
    <2>4. Linked(table, s) /\ table[s] \in T /\ table[s] <= s
      BY <2>2
    <2>5. s < table[s]
      BY <2>3, <2>4 DEF Links_OK
    <2>6. table[s] \in Nat
      <3>1. table[s] \in Sectors
        BY <2>4
      <3> QED
        BY <3>1, Sizes DEF Sectors
    <2> QED
      BY <2>3, <2>4, <2>5, <2>6
  <1> QED
    BY <1>2, <1>3

\* So every chain ends: one that did not would visit a sector twice.
LEMMA ChainEnds ==
  ASSUME NEW table, Links_OK(table), NEW start \in Sectors
  PROVE  LET chain == Chain(table, start) IN ~Linked(table, chain[Len(chain)])
  <1> DEFINE chain == Chain(table, start)
  <1> SUFFICES ASSUME Linked(table, chain[Len(chain)])
               PROVE  FALSE
    OBVIOUS
  <1>1. /\ chain \in Seq(Sectors) /\ Len(chain) = TableSize + 1
        /\ \A i \in 1..Len(chain) - 1 :
             Linked(table, chain[i]) /\ chain[i + 1] = table[chain[i]]
    <2>1. /\ chain \in Seq(Sectors) /\ Len(chain) \in 1..TableSize + 1
          /\ chain[1] = start
          /\ \A i \in 1..Len(chain) - 1 :
               Linked(table, chain[i]) /\ chain[i + 1] = table[chain[i]]
          /\ Linked(table, chain[Len(chain)]) => Len(chain) = TableSize + 1
      BY Zenon, ChainLinks
    <2> HIDE DEF chain
    <2> QED
      BY <2>1
  <1> HIDE DEF chain
  <1>2. TableSize \in Nat /\ \A i \in 1..TableSize + 1 : chain[i] \in 0..TableSize - 1
    BY <1>1, Sizes DEF Sectors
  <1> DEFINE at == [i \in 0..TableSize |-> chain[i + 1]]
  <1>3. at \in [0..TableSize -> 0..TableSize - 1]
    BY <1>2
  <1>4. PICK i, j \in 0..TableSize : i < j /\ at[i] = at[j]
    <2> HIDE DEF at
    <2> QED
      BY <1>2, <1>3, Pigeonhole
  <1>5. chain[i + 1] = chain[j + 1]
    BY <1>4
  <1> DEFINE T == {chain[k] : k \in i + 1..j}
  <1>6. T \in SUBSET Sectors /\ chain[i + 1] \in T
    BY <1>2, <1>4 DEF Sectors
  <1>7. ASSUME NEW s \in T  PROVE Linked(table, s) /\ table[s] \in T
    <2>1. PICK k \in i + 1..j : s = chain[k]
      OBVIOUS
    <2>2. k \in 1..Len(chain) - 1 /\ k \in Nat
      BY <1>1, <1>2, <1>4
    <2>3. Linked(table, s) /\ table[s] = chain[k + 1]
      BY <1>1, <2>1, <2>2
    <2>4. CASE k = j
      <3>1. table[s] = chain[i + 1]
        BY <1>5, <2>3, <2>4
      <3> QED
        BY <1>6, <2>3, <3>1
    <2>5. CASE k # j
      <3>1. k + 1 \in i + 1..j
        BY <1>4, <2>5
      <3> QED
        BY <2>3, <3>1
    <2> QED
      BY <2>4, <2>5
  <1> HIDE DEF T
  <1> QED
    BY <1>6, <1>7, NoClosedSet

\* What the proofs need of a chain.
LEMMA ChainOK ==
  ASSUME NEW table, Links_OK(table), NEW start \in Sectors
  PROVE  LET chain == Chain(table, start) IN
         /\ chain \in Seq(Sectors) /\ Len(chain) \in Nat \ {0} /\ chain[1] = start
         /\ \A i \in 1..Len(chain) : chain[i] \in Sectors
         /\ \A i \in 1..Len(chain) - 1 :
              Linked(table, chain[i]) /\ chain[i + 1] = table[chain[i]]
         /\ ~Linked(table, chain[Len(chain)])
  <1> DEFINE chain == Chain(table, start)
  <1>1. ~Linked(table, chain[Len(chain)])
    BY ChainEnds
  <1>2. /\ chain \in Seq(Sectors) /\ Len(chain) \in 1..TableSize + 1 /\ chain[1] = start
        /\ \A i \in 1..Len(chain) - 1 :
             Linked(table, chain[i]) /\ chain[i + 1] = table[chain[i]]
    BY ChainLinks
  <1> HIDE DEF chain
  <1>3. Len(chain) \in Nat \ {0} /\ \A i \in 1..Len(chain) : chain[i] \in Sectors
    BY <1>2, Sizes
  <1>4. /\ chain \in Seq(Sectors) /\ Len(chain) \in Nat \ {0} /\ chain[1] = start
        /\ \A i \in 1..Len(chain) : chain[i] \in Sectors
        /\ \A i \in 1..Len(chain) - 1 :
             Linked(table, chain[i]) /\ chain[i + 1] = table[chain[i]]
        /\ ~Linked(table, chain[Len(chain)])
    BY <1>1, <1>2, <1>3
  <1> QED
    BY <1>4 DEF chain

\* Changes that make no loop: a sector keeps its link, loses it, or is a low
\* one and gets a link upward.
LEMMA LinksKept ==
  ASSUME NEW table, Links_OK(table), NEW new \in [Sectors -> 0..LAST_SECTOR],
         \A s \in Sectors : \/ new[s] = table[s] \/ ~Linked(new, s)
                            \/ s < RootSectors /\ s < new[s] /\ new[s] < TableSize
  PROVE  Links_OK(new)
  <1>1. ASSUME NEW s \in Sectors, Linked(new, s)
        PROVE  /\ new[s] < TableSize
               /\ IF s < RootSectors THEN s < new[s] ELSE RootSectors <= new[s]
    <2>1. new[s] = table[s] => Linked(table, s)
      BY <1>1 DEF Linked
    <2>2. new[s] = table[s] =>
            /\ new[s] < TableSize
            /\ IF s < RootSectors THEN s < new[s] ELSE RootSectors <= new[s]
      BY <2>1 DEF Links_OK
    <2> QED
      BY <1>1, <2>2
  <1>2. ASSUME NEW T \in SUBSET (RootSectors..TableSize - 1), T # {}
        PROVE  \E s \in T : ~(Linked(new, s) /\ new[s] \in T)
    <2>1. PICK s \in T : ~(Linked(table, s) /\ table[s] \in T)
      BY <1>2 DEF Links_OK, No_Loop
    <2>2. s \in Sectors /\ ~(s < RootSectors)
      <3>1. s \in RootSectors..TableSize - 1
        BY <1>2
      <3> QED
        BY <3>1, Sizes DEF Sectors
    <2>3. CASE new[s] = table[s]
      BY <2>1, <2>3 DEF Linked
    <2>4. CASE ~Linked(new, s)
      BY <2>4
    <2> QED
      BY <2>2, <2>3, <2>4
  <1> QED
    BY <1>1, <1>2 DEF Links_OK, No_Loop

\* A link to a sector that ends its chain makes no loop either, whatever the
\* two sectors were before: the order of the assignments in Link_Sector.
LEMMA LinksGrown ==
  ASSUME NEW table, Links_OK(table), NEW dir \in Sectors, NEW more \in Sectors,
         more = 0 \/ RootSectors <= more
  PROVE  Links_OK([table EXCEPT ![dir] = more, ![more] = LAST_SECTOR])
  <1> DEFINE new == [table EXCEPT ![dir] = more, ![more] = LAST_SECTOR]
  <1>1. table \in [Sectors -> 0..LAST_SECTOR]
    BY DEF Links_OK
  <1>2. \A s \in Sectors : new[s] = IF s = more THEN LAST_SECTOR
                                    ELSE IF s = dir THEN more ELSE table[s]
    BY <1>1
  <1>3. \A s \in Sectors : s \in 0..LAST_SECTOR /\ s \in Nat
    <2>1. LAST_SECTOR \in Nat /\ TableSize < LAST_SECTOR
      BY Sizes DEF LAST_SECTOR
    <2> QED
      BY <2>1, Sizes DEF Sectors
  <1>4. new \in [Sectors -> 0..LAST_SECTOR] /\ ~Linked(new, more)
    <2>1. LAST_SECTOR \in 0..LAST_SECTOR /\ ~(LAST_SECTOR < Media)
      BY DEF LAST_SECTOR, Media
    <2>2. new[more] = LAST_SECTOR
      BY <1>2
    <2>3. ~Linked(new, more)
      BY <2>1, <2>2 DEF Linked
    <2>4. new \in [Sectors -> 0..LAST_SECTOR]
      BY <1>1, <1>3, <2>1
    <2> QED
      BY <2>3, <2>4
  <1> HIDE DEF new
  <1>5. ASSUME NEW s \in Sectors, Linked(new, s)
        PROVE  /\ new[s] < TableSize
               /\ IF s < RootSectors THEN s < new[s] ELSE RootSectors <= new[s]
    <2>1. s # more
      BY <1>4, <1>5
    <2>2. CASE s = dir
      <3>1. new[s] = more /\ more # 0 /\ more \in Nat /\ more < TableSize
        BY <1>2, <1>5, <2>1, <2>2, Sizes DEF Linked, Sectors
      <3>2. s \in Nat /\ RootSectors <= more
        BY <1>3, <3>1
      <3> QED
        BY <3>1, <3>2, Sizes
    <2>3. CASE s # dir
      <3>1. new[s] = table[s]
        BY <1>2, <2>1, <2>3
      <3>2. Linked(table, s)
        BY <1>5, <3>1 DEF Linked
      <3> QED
        BY <3>1, <3>2 DEF Links_OK
    <2> QED
      BY <2>2, <2>3
  <1>6. ASSUME NEW T \in SUBSET (RootSectors..TableSize - 1), T # {}
        PROVE  \E s \in T : ~(Linked(new, s) /\ new[s] \in T)
    <2>1. T \subseteq Sectors
      <3>1. RootSectors..TableSize - 1 \subseteq Sectors
        BY Sizes DEF Sectors
      <3> QED
        BY <1>6, <3>1
    <2>2. CASE more \in T
      BY <1>4, <2>2
    <2>3. CASE more \notin T /\ dir \in T
      <3>1. new[dir] = more
        BY <1>2, <2>3
      <3> QED
        BY <2>3, <3>1
    <2>4. CASE more \notin T /\ dir \notin T
      <3>1. PICK s \in T : ~(Linked(table, s) /\ table[s] \in T)
        BY <1>6 DEF Links_OK, No_Loop
      <3>2. new[s] = table[s]
        BY <1>2, <2>1, <2>4
      <3> QED
        BY <3>1, <3>2 DEF Linked
    <2> QED
      BY <2>2, <2>3, <2>4
  <1>7. Links_OK(new)
    BY <1>4, <1>5, <1>6 DEF Links_OK, No_Loop
  <1> QED
    BY <1>7 DEF new

\* A free sector lies behind those of the root directory; 0 says there is
\* none.
LEMMA FreeSector ==
  ASSUME NEW table \in [Sectors -> 0..LAST_SECTOR]
  PROVE  LET free == Find_Free_Sector(table) IN
         /\ free \in Sectors /\ (free = 0 \/ RootSectors <= free)
         /\ free # 0 => table[free] = 0
  <1> DEFINE free == {s \in RootSectors..TableSize - 1 : table[s] = 0}
  <1>1. \A s \in free : s \in Sectors /\ RootSectors <= s /\ s \in Nat
    BY Sizes DEF Sectors
  <1>2. 0 \in Sectors
    BY Sizes DEF Sectors
  <1>3. CASE free = {}
    BY <1>2, <1>3 DEF Find_Free_Sector
  <1>4. CASE free # {}
    <2>1. \E s \in free : \A t \in free : s <= t
      <3>1. free \in SUBSET Nat
        BY <1>1
      <3> HIDE DEF free
      <3> QED
        BY <1>4, <3>1, LeastElement
    <2>2. Find_Free_Sector(table) \in free
      BY <1>4, <2>1 DEF Find_Free_Sector
    <2> QED
      BY <1>1, <2>2
  <1> QED
    BY <1>3, <1>4

-----------------------------------------------------------------------------
(* The disk.                                                               *)

\* Sectors as they may be on a disk, and the volumes with such sectors.
Good(R) == \A sector \in R : Rows_OK(sector)

Volumes(R) ==
  [table : [Sectors -> 0..LAST_SECTOR], saved : [Sectors -> 0..LAST_SECTOR],
   disk : [0..DiskSectors - 1 -> R]]

LEMMA VolumeIn ==
  ASSUME NEW m, Volume_OK(m), NEW S, Good(S)
  PROVE  \E R : Good(R) /\ S \subseteq R /\ m \in Volumes(R)
  <1> DEFINE R == S \cup {m.disk[lba] : lba \in 0..DiskSectors - 1}
  <1>1. Good(R) /\ S \subseteq R
    BY DEF Good, Volume_OK
  <1>2. m.disk \in [0..DiskSectors - 1 -> R]
    <2>1. m.disk = [lba \in 0..DiskSectors - 1 |-> m.disk[lba]]
      BY DEF Volume_OK
    <2>2. \A lba \in 0..DiskSectors - 1 : m.disk[lba] \in R
      OBVIOUS
    <2> HIDE DEF R
    <2> QED
      BY <2>1, <2>2
  <1> HIDE DEF R
  <1>3. /\ m = [table |-> m.table, saved |-> m.saved, disk |-> m.disk]
        /\ m.table \in [Sectors -> 0..LAST_SECTOR]
        /\ m.saved \in [Sectors -> 0..LAST_SECTOR]
    BY DEF Volume_OK, Links_OK
  <1>4. m \in Volumes(R)
    BY <1>2, <1>3 DEF Volumes
  <1> QED
    BY <1>1, <1>4

LEMMA VolumeOut ==
  ASSUME NEW R, Good(R), NEW m \in Volumes(R), Links_OK(m.table), Links_OK(m.saved)
  PROVE  Volume_OK(m)
  <1>1. /\ m = [table |-> m.table, saved |-> m.saved, disk |-> m.disk]
        /\ m.disk \in [0..DiskSectors - 1 -> R]
    BY DEF Volumes
  <1>2. m.disk = [lba \in 0..DiskSectors - 1 |-> m.disk[lba]]
    BY <1>1
  <1>3. \A lba \in 0..DiskSectors - 1 : Rows_OK(m.disk[lba])
    BY <1>1 DEF Good
  <1> QED
    BY <1>1, <1>2, <1>3 DEF Volume_OK

\* The two facts a caller of Save_FAT12_Table needs.
LEMMA SaveOK ==
  ASSUME NEW R, Good(R), NEW m \in Volumes(R), Links_OK(m.table)
  PROVE  Volume_OK(Save_FAT12_Table(m))
  <1> DEFINE new == [table |-> m.table, saved |-> m.table, disk |-> m.disk]
  <1>1. new \in Volumes(R) /\ new.table = m.table /\ new.saved = m.table
    BY DEF Volumes
  <1> HIDE DEF new
  <1>2. Volume_OK(new)
    BY <1>1, VolumeOut
  <1> QED
    BY <1>2 DEF Save_FAT12_Table, new

\* Writing whole sectors changes nothing but the disk.
LEMMA WriteSectorsOK ==
  ASSUME NEW R, NEW m \in Volumes(R), NEW sectors, NEW lba \in Nat, Len(sectors) \in Nat,
         \A i \in 1..Len(sectors) : sectors[i] \in R
  PROVE  LET new == Write_Sectors(m, sectors, lba) IN
         new \in Volumes(R) /\ new.table = m.table /\ new.saved = m.saved
  <1> DEFINE disk == [l \in DOMAIN m.disk |->
                        IF l \in lba..lba + Len(sectors) - 1 THEN sectors[l - lba + 1]
                        ELSE m.disk[l]]
             new == [m EXCEPT !.disk = disk]
  <1>1. /\ m.disk \in [0..DiskSectors - 1 -> R]
        /\ m.table \in [Sectors -> 0..LAST_SECTOR]
        /\ m.saved \in [Sectors -> 0..LAST_SECTOR]
        /\ m = [table |-> m.table, saved |-> m.saved, disk |-> m.disk]
    BY DEF Volumes
  <1>2. ASSUME NEW l \in 0..DiskSectors - 1
        PROVE  (IF l \in lba..lba + Len(sectors) - 1 THEN sectors[l - lba + 1]
                ELSE m.disk[l]) \in R
    <2>1. CASE l \in lba..lba + Len(sectors) - 1
      <3>1. (l - lba) + 1 \in 1..Len(sectors)
        BY <2>1
      <3> QED
        BY <2>1, <3>1
    <2>2. CASE l \notin lba..lba + Len(sectors) - 1
      BY <1>1, <2>2
    <2> QED
      BY <2>1, <2>2
  <1>3. disk \in [0..DiskSectors - 1 -> R]
    BY <1>1, <1>2
  <1> HIDE DEF disk
  <1>4. new = [table |-> m.table, saved |-> m.saved, disk |-> disk]
    BY DEF Volumes
  <1> HIDE DEF new
  <1>5. new \in Volumes(R) /\ new.table = m.table /\ new.saved = m.saved
    BY <1>1, <1>3, <1>4 DEF Volumes
  <1>6. Write_Sectors(m, sectors, lba) = IF lba + Len(sectors) > DiskSectors THEN m ELSE new
    BY DEF Write_Sectors, disk, new
  <1> QED
    BY <1>5, <1>6

\* The sectors of the table are on the disk behind its first one.
LEMMA LbaIn == ASSUME NEW sector \in Sectors PROVE Lba(sector) \in Nat
  <1>1. sector \in Nat /\ RootSectors \in Nat /\ 2 <= RootSectors
    BY Sizes DEF Sectors
  <1> QED
    BY <1>1 DEF Lba

\* The link to a free sector is put into entry 0, or nowhere: the position
\* has already been replaced by what the table holds at the chain's end.
LEMMA EntryZeroLinked ==
  ASSUME NEW table, Links_OK(table), NEW at \in Sectors, ~Linked(table, at),
         NEW fresh \in Sectors, fresh = 0 \/ RootSectors <= fresh
  PROVE  Links_OK([table EXCEPT ![table[at]] = fresh])
  <1> DEFINE new == [table EXCEPT ![table[at]] = fresh]
  <1>1. table \in [Sectors -> 0..LAST_SECTOR]
    BY DEF Links_OK
  <1>2. CASE table[at] \notin Sectors
    <2>1. new = table
      BY <1>1, <1>2
    <2> QED
      BY <2>1
  <1>3. CASE table[at] \in Sectors
    <2>1. table[at] = 0
      <3>1. table[at] \in Nat /\ table[at] < TableSize
        BY <1>3, Sizes DEF Sectors
      <3>2. TableSize < Media /\ Media \in Nat
        BY Sizes DEF Media
      <3> QED
        BY <3>1, <3>2, Sizes DEF Linked
    <2>2. fresh \in 0..LAST_SECTOR /\ fresh < TableSize /\ fresh \in Nat
      <3>1. LAST_SECTOR \in Nat /\ TableSize < LAST_SECTOR
        BY Sizes DEF LAST_SECTOR
      <3> QED
        BY <3>1, Sizes DEF Sectors
    <2>3. /\ new \in [Sectors -> 0..LAST_SECTOR]
          /\ \A s \in Sectors : new[s] = IF s = 0 THEN fresh ELSE table[s]
      BY <1>1, <2>1, <2>2
    <2> HIDE DEF new
    <2>4. ASSUME NEW s \in Sectors
          PROVE  \/ new[s] = table[s] \/ ~Linked(new, s)
                 \/ s < RootSectors /\ s < new[s] /\ new[s] < TableSize
      <3>1. CASE s = 0 /\ fresh = 0
        BY <2>3, <3>1 DEF Linked
      <3>2. CASE s = 0 /\ fresh # 0
        BY <2>2, <2>3, <3>2, Sizes
      <3>3. CASE s # 0
        BY <2>3, <3>3
      <3> QED
        BY <3>1, <3>2, <3>3
    <2>5. Links_OK(new)
      BY <2>3, <2>4, LinksKept
    <2> QED
      BY <2>5 DEF new
  <1> QED
    BY <1>2, <1>3

\* An entry that ends a chain.
LEMMA EndMarked ==
  ASSUME NEW table, Links_OK(table), NEW at \in Sectors
  PROVE  Links_OK([table EXCEPT ![at] = LAST_SECTOR])
  <1> DEFINE new == [table EXCEPT ![at] = LAST_SECTOR]
  <1>1. table \in [Sectors -> 0..LAST_SECTOR]
    BY DEF Links_OK
  <1>2. LAST_SECTOR \in 0..LAST_SECTOR /\ ~(LAST_SECTOR < Media)
    BY DEF LAST_SECTOR, Media
  <1>3. /\ new \in [Sectors -> 0..LAST_SECTOR]
        /\ \A s \in Sectors : new[s] = IF s = at THEN LAST_SECTOR ELSE table[s]
    BY <1>1, <1>2
  <1> HIDE DEF new
  <1>4. \A s \in Sectors : new[s] = table[s] \/ ~Linked(new, s)
    BY <1>2, <1>3 DEF Linked
  <1>5. Links_OK(new)
    BY <1>3, <1>4, LinksKept
  <1> QED
    BY <1>5 DEF new

\* A volume with another table.
LEMMA TableReplaced ==
  ASSUME NEW R, NEW m \in Volumes(R), NEW table \in [Sectors -> 0..LAST_SECTOR]
  PROVE  LET new == [m EXCEPT !.table = table] IN
         /\ new \in Volumes(R) /\ new.table = table
         /\ new.saved = m.saved /\ new.disk = m.disk
  BY DEF Volumes

-----------------------------------------------------------------------------
(* Write_Item.                                                             *)

\* What its loop works on: a volume and the sector written last.
Positions(R) == {w \in [m : Volumes(R), at : Sectors] : Links_OK(w.m.table)}

LEMMA PositionOK ==
  ASSUME NEW R, NEW m \in Volumes(R), Links_OK(m.table), NEW at \in Sectors
  PROVE  [m |-> m, at |-> at] \in Positions(R)
  BY DEF Positions

\* A single sector, written where a chain has it.
LEMMA SectorWritten ==
  ASSUME NEW R, NEW m \in Volumes(R), Links_OK(m.table), NEW at \in Sectors, NEW sector \in R
  PROVE  [m |-> Write_Sectors(m, <<sector>>, Lba(at)), at |-> at] \in Positions(R)
  <1> DEFINE new == Write_Sectors(m, <<sector>>, Lba(at))
  <1>1. Lba(at) \in Nat
    BY LbaIn
  <1>2. Len(<<sector>>) = 1 /\ \A i \in 1..1 : <<sector>>[i] \in R
    OBVIOUS
  <1>3. new \in Volumes(R) /\ new.table = m.table
    <2> DEFINE one == <<sector>>
    <2>1. Len(one) \in Nat /\ \A i \in 1..Len(one) : one[i] \in R
      BY <1>2
    <2> HIDE DEF one
    <2>2. Write_Sectors(m, one, Lba(at)) \in Volumes(R)
          /\ Write_Sectors(m, one, Lba(at)).table = m.table
      BY <1>1, <2>1, WriteSectorsOK
    <2> QED
      BY <2>2 DEF one
  <1> HIDE DEF new
  <1>4. Links_OK(new.table)
    BY <1>3
  <1>5. [m |-> new, at |-> at] \in Positions(R)
    BY <1>3, <1>4, PositionOK
  <1> QED
    BY <1>5 DEF new

\* One turn of the loop.
LEMMA WriteNextOK ==
  ASSUME NEW R, NEW w \in Positions(R), NEW sector \in R
  PROVE  Write_Next(w, sector) \in Positions(R)
  <1>1. /\ w.m \in Volumes(R) /\ w.at \in Sectors /\ Links_OK(w.m.table)
        /\ w.m.table \in [Sectors -> 0..LAST_SECTOR]
    BY DEF Positions, Volumes
  <1> DEFINE table == w.m.table
             next  == table[w.at]
             fresh == Find_Free_Sector(table)
  <1>2. CASE Linked(table, w.at)
    <2>1. next \in Sectors
      BY <1>1, <1>2, LinkIn
    <2>2. [m |-> Write_Sectors(w.m, <<sector>>, Lba(next)), at |-> next] \in Positions(R)
      BY <1>1, <2>1, SectorWritten
    <2> QED
      BY <1>2, <2>2 DEF Write_Next
  <1>3. CASE ~Linked(table, w.at)
    <2>1. fresh \in Sectors /\ (fresh = 0 \/ RootSectors <= fresh)
      BY <1>1, FreeSector
    <2> DEFINE grown == [w.m EXCEPT !.table[next] = fresh]
               new   == [table EXCEPT ![next] = fresh]
    <2> HIDE DEF fresh
    <2>2. Links_OK(new)
      BY <1>1, <1>3, <2>1, EntryZeroLinked
    <2>3. new \in [Sectors -> 0..LAST_SECTOR]
      BY <2>2 DEF Links_OK
    <2>4. grown = [w.m EXCEPT !.table = new]
      OBVIOUS
    <2>5. grown \in Volumes(R) /\ grown.table = new
      <3> HIDE DEF grown, new
      <3> QED
        BY <1>1, <2>3, <2>4, TableReplaced
    <2> HIDE DEF grown, new
    <2>6. [m |-> Write_Sectors(grown, <<sector>>, Lba(fresh)), at |-> fresh] \in Positions(R)
      BY <2>1, <2>2, <2>5, SectorWritten
    <2> QED
      BY <1>3, <2>6 DEF Write_Next, grown, fresh
  <1> QED
    BY <1>2, <1>3

\* The loop from the first sector of the chain to the last one written.
Written(m, file, at) ==
  LET w[n \in 1..Len(file)] ==
        IF n = 1 THEN [m |-> Write_Sectors(m, <<file[1]>>, Lba(at)), at |-> at]
        ELSE Write_Next(w[n - 1], file[n])
  IN  w[Len(file)]

LEMMA WrittenOK ==
  ASSUME NEW R, NEW m \in Volumes(R), Links_OK(m.table), NEW at \in Sectors,
         NEW file, Len(file) \in Nat \ {0}, \A i \in 1..Len(file) : file[i] \in R
  PROVE  Written(m, file, at) \in Positions(R)
  <1> DEFINE V     == Positions(R)
             first == [m |-> Write_Sectors(m, <<file[1]>>, Lba(at)), at |-> at]
             next  == [n \in 1..Len(file) - 1 |-> [v \in V |-> Write_Next(v, file[n + 1])]]
             w[n \in 1..Len(file)] ==
                 IF n = 1 THEN [m |-> Write_Sectors(m, <<file[1]>>, Lba(at)), at |-> at]
                 ELSE Write_Next(w[n - 1], file[n])
  <1>1. first \in V
    <2>1. file[1] \in R
      OBVIOUS
    <2> QED
      BY <2>1, SectorWritten
  <1>2. next \in [1..Len(file) - 1 -> [V -> V]] /\ Len(file) - 1 \in Nat
    <2>1. ASSUME NEW n \in 1..Len(file) - 1, NEW v \in V  PROVE Write_Next(v, file[n + 1]) \in V
      <3>1. file[n + 1] \in R
        OBVIOUS
      <3> QED
        BY <3>1, WriteNextOK
    <2> HIDE DEF V
    <2> QED
      BY <2>1
  <1> HIDE DEF V, first
  <1>3. PICK g \in [0..Len(file) - 1 -> V] : Turns(g, Len(file) - 1, first, next)
    <2> HIDE DEF next
    <2> QED
      BY <1>1, <1>2, Iteration
  <1> DEFINE h == [n \in 1..Len(file) |-> g[n - 1]]
  <1>4. ASSUME NEW n \in 1..Len(file)
        PROVE  h[n] = IF n = 1 THEN first ELSE Write_Next(h[n - 1], file[n])
    <2>1. CASE n = 1
      BY <1>3, <2>1 DEF Turns
    <2>2. CASE n # 1
      <3>1. n - 1 \in 1..Len(file) - 1 /\ n - 1 \in 1..Len(file)
        BY <2>2
      <3>2. h[n] = g[n - 1] /\ h[n - 1] = g[(n - 1) - 1] /\ (n - 1) + 1 = n
        BY <3>1
      <3>3. g[(n - 1) - 1] \in V
        BY <3>1
      <3>4. g[n - 1] = next[n - 1][g[(n - 1) - 1]]
        <4> HIDE DEF next
        <4> QED
          BY <1>3, <3>1 DEF Turns
      <3>5. next[n - 1][g[(n - 1) - 1]] = Write_Next(g[(n - 1) - 1], file[n])
        BY <3>1, <3>2, <3>3
      <3> HIDE DEF h, next
      <3> QED
        BY <2>2, <3>2, <3>4, <3>5
    <2> QED
      BY <2>1, <2>2
  <1>5. h = [n \in 1..Len(file) |->
               IF n = 1 THEN [m |-> Write_Sectors(m, <<file[1]>>, Lba(at)), at |-> at]
               ELSE Write_Next(h[n - 1], file[n])]
    BY <1>4 DEF first
  <1>6. w = [n \in 1..Len(file) |->
               IF n = 1 THEN [m |-> Write_Sectors(m, <<file[1]>>, Lba(at)), at |-> at]
               ELSE Write_Next(w[n - 1], file[n])]
    <2> HIDE DEF h
    <2> QED
      BY <1>5 DEF w
  <1>7. w = [n \in 1..Len(file) |-> IF n = 1 THEN first ELSE Write_Next(w[n - 1], file[n])]
    BY <1>6 DEF first
  <1> HIDE DEF w
  <1> DEFINE S == {n \in 0..Len(file) - 1 : w[n + 1] \in V}
  <1>8. 0 \in S
    BY <1>1, <1>7
  <1>9. ASSUME NEW n \in 1..Len(file) - 1, n - 1 \in S  PROVE n \in S
    <2>1. w[n] \in V /\ n + 1 \in 1..Len(file) /\ (n + 1) - 1 = n /\ n + 1 # 1
      BY <1>9
    <2>2. w[n + 1] = Write_Next(w[n], file[n + 1])
      BY <1>7, <2>1
    <2>3. file[n + 1] \in R
      BY <2>1
    <2>4. w[n + 1] \in V
      BY <2>1, <2>2, <2>3, WriteNextOK DEF V
    <2> QED
      BY <2>4
  <1>10. Len(file) - 1 \in S
    <2>1. Len(file) - 1 \in 0..Len(file) - 1
      BY <1>2
    <2> HIDE DEF S
    <2>2. 0..Len(file) - 1 \subseteq S
      BY <1>2, <1>8, <1>9, Induction
    <2> QED
      BY <2>1, <2>2
  <1>11. w[Len(file)] \in V
    <2>1. (Len(file) - 1) + 1 = Len(file)
      OBVIOUS
    <2> QED
      BY <1>10, <2>1
  <1> QED
    BY <1>11 DEF Written, w, V

\* The branch for the root directory: entries 0 to count of the table become
\* a chain of its sectors, where they were not linked.
LEMMA RootLinked ==
  ASSUME NEW table, Links_OK(table), NEW count \in Nat, count <= RootSectors
  PROVE  Links_OK([s \in DOMAIN table |->
                     IF s = count THEN LAST_SECTOR
                     ELSE IF s < count /\ table[s] = 0 THEN s + 1 ELSE table[s]])
  <1> DEFINE new == [s \in DOMAIN table |->
                       IF s = count THEN LAST_SECTOR
                       ELSE IF s < count /\ table[s] = 0 THEN s + 1 ELSE table[s]]
  <1>1. table \in [Sectors -> 0..LAST_SECTOR] /\ DOMAIN table = Sectors
    BY DEF Links_OK
  <1>2. /\ LAST_SECTOR \in Nat /\ TableSize < LAST_SECTOR /\ ~(LAST_SECTOR < Media)
        /\ LAST_SECTOR \in 0..LAST_SECTOR
    BY Sizes DEF LAST_SECTOR, Media
  <1>3. ASSUME NEW s \in Sectors
        PROVE  /\ new[s] \in 0..LAST_SECTOR
               /\ \/ new[s] = table[s] \/ ~Linked(new, s)
                  \/ s < RootSectors /\ s < new[s] /\ new[s] < TableSize
    <2>1. new[s] = IF s = count THEN LAST_SECTOR
                   ELSE IF s < count /\ table[s] = 0 THEN s + 1 ELSE table[s]
      BY <1>1
    <2> HIDE DEF new
    <2>2. CASE s = count
      BY <1>2, <2>1, <2>2 DEF Linked
    <2>3. CASE s # count /\ s < count /\ table[s] = 0
      <3>1. s \in Nat /\ s < RootSectors /\ s + 1 < TableSize /\ new[s] = s + 1
        BY <2>1, <2>3, Sizes DEF Sectors
      <3>2. s + 1 \in 0..LAST_SECTOR
        BY <1>2, <3>1, Sizes
      <3> QED
        BY <3>1, <3>2
    <2>4. CASE s # count /\ ~(s < count /\ table[s] = 0)
      BY <1>1, <2>1, <2>4
    <2> QED
      BY <2>2, <2>3, <2>4
  <1>4. new \in [Sectors -> 0..LAST_SECTOR]
    <2>1. new = [s \in Sectors |-> new[s]]
      BY <1>1
    <2> HIDE DEF new
    <2> QED
      BY <1>3, <2>1
  <1> HIDE DEF new
  <1>5. Links_OK(new)
    BY <1>3, <1>4, LinksKept
  <1> QED
    BY <1>5 DEF new

\* What Write_Item leaves is a volume again: for the root directory when the
\* sectors are no more than it has, else from any sector of the item's chain.
LEMMA WriteItemOK ==
  ASSUME NEW m, Volume_OK(m), NEW file, Len(file) \in Nat \ {0},
         \A i \in 1..Len(file) : Rows_OK(file[i]),
         NEW start \in Sectors, NEW num,
         IF start = 0 THEN Len(file) <= RootSectors
         ELSE num + 1 \in 1..Len(Chain(m.table, start))
  PROVE  Volume_OK(Write_Item(m, file, start, num))
  <1> DEFINE S == {file[i] : i \in 1..Len(file)}
  <1>1. PICK R : Good(R) /\ S \subseteq R /\ m \in Volumes(R)
    <2>1. Good(S)
      BY DEF Good
    <2> HIDE DEF S
    <2> QED
      BY <2>1, VolumeIn
  <1>2. \A i \in 1..Len(file) : file[i] \in R
    BY <1>1
  <1> HIDE DEF S
  <1>3. Links_OK(m.table)
    BY DEF Volume_OK
  <1>4. CASE start = 0
    <2> DEFINE table == [s \in DOMAIN m.table |->
                           IF s = Len(file) THEN LAST_SECTOR
                           ELSE IF s < Len(file) /\ m.table[s] = 0 THEN s + 1
                           ELSE m.table[s]]
               linked == [m EXCEPT !.table = table]
               new    == Write_Sectors(linked, file, 0)
    <2>1. Links_OK(table)
      BY <1>3, <1>4, RootLinked
    <2>2. linked \in Volumes(R) /\ linked.table = table
      <3>1. table \in [Sectors -> 0..LAST_SECTOR]
        BY <2>1 DEF Links_OK
      <3> HIDE DEF table
      <3> QED
        BY <1>1, <3>1, TableReplaced
    <2> HIDE DEF table, linked
    <2>3. new \in Volumes(R) /\ new.table = table
      BY <1>2, <2>2, WriteSectorsOK
    <2> HIDE DEF new
    <2>4. Volume_OK(Save_FAT12_Table(new))
      BY <1>1, <2>1, <2>3, SaveOK
    <2>5. Write_Item(m, file, start, num) = Save_FAT12_Table(new)
      BY <1>4 DEF Write_Item, new, linked, table
    <2> QED
      BY <2>4, <2>5
  <1>5. CASE start # 0
    <2> DEFINE first == Find_Sector(m.table, num, start)
               end   == Written(m, file, first)
               table == [end.m.table EXCEPT ![end.at] = LAST_SECTOR]
               new   == [end.m EXCEPT !.table[end.at] = LAST_SECTOR]
    <2>1. first \in Sectors
      <3> DEFINE chain == Chain(m.table, start)
      <3>1. \A i \in 1..Len(chain) : chain[i] \in Sectors
        BY <1>3, ChainOK
      <3>2. num + 1 \in 1..Len(chain)
        BY <1>5
      <3> HIDE DEF chain
      <3>3. chain[num + 1] \in Sectors
        BY <3>1, <3>2
      <3> QED
        BY <3>3 DEF chain, Find_Sector
    <2> HIDE DEF first
    <2>2. end \in Positions(R)
      BY <1>1, <1>2, <1>3, <2>1, WrittenOK
    <2>3. Write_Item(m, file, start, num) = Save_FAT12_Table(new)
      BY <1>5 DEF Write_Item, Written, first
    <2> HIDE DEF end
    <2>4. end.m \in Volumes(R) /\ end.at \in Sectors /\ Links_OK(end.m.table)
      BY <2>2 DEF Positions
    <2>5. Links_OK(table)
      BY <2>4, EndMarked
    <2>6. new = [end.m EXCEPT !.table = table]
      OBVIOUS
    <2>7. table \in [Sectors -> 0..LAST_SECTOR]
      BY <2>5 DEF Links_OK
    <2> HIDE DEF table, new
    <2>8. new \in Volumes(R) /\ new.table = table
      BY <2>4, <2>6, <2>7, TableReplaced
    <2>9. Volume_OK(Save_FAT12_Table(new))
      BY <1>1, <2>5, <2>8, SaveOK
    <2> QED
      BY <2>3, <2>9
  <1> QED
    BY <1>4, <1>5

\* Freeing the sectors of an item takes links away and makes none.
LEMMA RemoveDataOK ==
  ASSUME NEW m, Volume_OK(m), NEW start
  PROVE  Volume_OK(Remove_Item_Data(m, start))
  <1> DEFINE freed == SectorsOf(m, start)
             table == [s \in DOMAIN m.table |-> IF s \in freed THEN 0 ELSE m.table[s]]
             new   == [m EXCEPT !.table = table]
  <1>1. PICK R : Good(R) /\ m \in Volumes(R)
    <2>1. Good({})
      BY DEF Good
    <2> QED
      BY <2>1, VolumeIn
  <1>2. Links_OK(m.table) /\ Links_OK(m.saved) /\ m.table \in [Sectors -> 0..LAST_SECTOR]
    BY DEF Volume_OK, Links_OK
  <1> HIDE DEF freed
  <1>3. /\ table \in [Sectors -> 0..LAST_SECTOR]
        /\ \A s \in Sectors : table[s] = IF s \in freed THEN 0 ELSE m.table[s]
    <2>1. DOMAIN m.table = Sectors
      BY <1>2
    <2>2. LAST_SECTOR \in Nat
      BY DEF LAST_SECTOR
    <2>3. 0 \in 0..LAST_SECTOR
      BY <2>2
    <2> QED
      BY <1>2, <2>1, <2>3
  <1> HIDE DEF table
  <1>4. Links_OK(table)
    <2>1. \A s \in Sectors : table[s] = m.table[s] \/ ~Linked(table, s)
      BY <1>3 DEF Linked
    <2> QED
      BY <1>2, <1>3, <2>1, LinksKept
  <1>5. new \in Volumes(R) /\ new.table = table /\ new.saved = m.saved
    BY <1>1, <1>3, TableReplaced
  <1> HIDE DEF new
  <1>6. Volume_OK(new)
    BY <1>1, <1>2, <1>4, <1>5, VolumeOut
  <1> QED
    BY <1>6 DEF Remove_Item_Data, new, table, freed

\* A sector linked behind the first one of a directory.
LEMMA LinkSectorOK ==
  ASSUME NEW m, Volume_OK(m), NEW dir \in Sectors, NEW more \in Sectors,
         more = 0 \/ RootSectors <= more
  PROVE  Volume_OK(Link_Sector(m, dir, more))
  <1> DEFINE table == [m.table EXCEPT ![dir] = more, ![more] = LAST_SECTOR]
             new   == [m EXCEPT !.table[dir] = more, !.table[more] = LAST_SECTOR]
  <1>1. PICK R : Good(R) /\ m \in Volumes(R)
    <2>1. Good({})
      BY DEF Good
    <2> QED
      BY <2>1, VolumeIn
  <1>2. Links_OK(table)
    BY LinksGrown DEF Volume_OK
  <1>3. table \in [Sectors -> 0..LAST_SECTOR]
    BY <1>2 DEF Links_OK
  <1>4. new = [m EXCEPT !.table = table]
    BY <1>1 DEF Volumes
  <1> HIDE DEF table, new
  <1>5. new \in Volumes(R) /\ new.table = table
    BY <1>1, <1>3, <1>4, TableReplaced
  <1>6. Volume_OK(Save_FAT12_Table(new))
    BY <1>1, <1>2, <1>5, SaveOK
  <1> QED
    BY <1>6 DEF Link_Sector, new

\* A chain's end marked once more, and saved.
LEMMA MarkOK ==
  ASSUME NEW m, Volume_OK(m), NEW at \in Sectors
  PROVE  Volume_OK(Save_FAT12_Table([m EXCEPT !.table[at] = LAST_SECTOR]))
  <1> DEFINE table == [m.table EXCEPT ![at] = LAST_SECTOR]
             new   == [m EXCEPT !.table[at] = LAST_SECTOR]
  <1>1. PICK R : Good(R) /\ m \in Volumes(R)
    <2>1. Good({})
      BY DEF Good
    <2> QED
      BY <2>1, VolumeIn
  <1>2. Links_OK(table)
    BY EndMarked DEF Volume_OK
  <1>3. table \in [Sectors -> 0..LAST_SECTOR]
    BY <1>2 DEF Links_OK
  <1>4. new = [m EXCEPT !.table = table]
    OBVIOUS
  <1> HIDE DEF table, new
  <1>5. new \in Volumes(R) /\ new.table = table
    BY <1>1, <1>3, <1>4, TableReplaced
  <1>6. Volume_OK(Save_FAT12_Table(new))
    BY <1>1, <1>2, <1>5, SaveOK
  <1> QED
    BY <1>6 DEF new

-----------------------------------------------------------------------------
(* Directories.                                                            *)

\* The constants a row is compared with are no entries.
LEMMA BlankOK == Rows_OK(BlankSector)
  BY DEF Rows_OK, BlankSector, IsEntry, Unused

LEMMA RowReplaced ==
  ASSUME NEW sector, Rows_OK(sector), NEW k \in 1..SectorRows,
         NEW row, IsEntry(row) => row \in Entries
  PROVE  Rows_OK([sector EXCEPT ![k] = row])
  <1> DEFINE new == [sector EXCEPT ![k] = row]
  <1>1. sector = [j \in 1..SectorRows |-> sector[j]]
    BY DEF Rows_OK
  <1>2. \A j \in 1..SectorRows : new[j] = IF j = k THEN row ELSE sector[j]
    BY <1>1
  <1>3. new = [j \in 1..SectorRows |-> new[j]]
    BY <1>1
  <1> HIDE DEF new
  <1>4. \A j \in 1..SectorRows : IsEntry(new[j]) => new[j] \in Entries
    BY <1>2 DEF Rows_OK
  <1>5. Rows_OK(new)
    BY <1>3, <1>4 DEF Rows_OK
  <1> QED
    BY <1>5 DEF new

\* The sectors of an item: those of the root directory, or of its chain.
LEMMA ReadOK ==
  ASSUME NEW m, Volume_OK(m), NEW start \in Sectors
  PROVE  LET data == Read_Item(m, start) IN
         /\ DOMAIN data = 1..(IF start = 0 THEN RootSectors ELSE Len(Chain(m.table, start)))
         /\ DOMAIN data \in SUBSET (Nat \ {0})
         /\ \A i \in DOMAIN data : Rows_OK(data[i])
  <1>1. ASSUME NEW lba \in Nat  PROVE Rows_OK(Sector_At(m, lba))
    <2>1. CASE lba < DiskSectors
      <3>1. lba \in 0..DiskSectors - 1
        BY <2>1, Sizes
      <3> QED
        BY <2>1, <3>1 DEF Sector_At, Volume_OK
    <2>2. CASE ~(lba < DiskSectors)
      BY <2>2, BlankOK DEF Sector_At
    <2> QED
      BY <2>1, <2>2
  <1>2. CASE start = 0
    <2> DEFINE data == [i \in 1..RootSectors |-> Sector_At(m, i - 1)]
    <2>1. Read_Item(m, start) = data
      BY <1>2 DEF Read_Item
    <2>2. \A i \in 1..RootSectors : i - 1 \in Nat
      BY Sizes
    <2>3. \A i \in 1..RootSectors : Rows_OK(data[i])
      BY <1>1, <2>2
    <2>4. DOMAIN data = 1..RootSectors /\ 1..RootSectors \in SUBSET (Nat \ {0})
      BY Sizes
    <2> HIDE DEF data
    <2> QED
      BY <1>2, <2>1, <2>3, <2>4
  <1>3. CASE start # 0
    <2> DEFINE chain == Chain(m.table, start)
               data  == [i \in 1..Len(chain) |-> Sector_At(m, Lba(chain[i]))]
    <2>1. Len(chain) \in Nat /\ \A i \in 1..Len(chain) : chain[i] \in Sectors
      BY ChainOK DEF Volume_OK
    <2>2. Read_Item(m, start) = data
      BY <1>3 DEF Read_Item
    <2> HIDE DEF chain
    <2>3. \A i \in 1..Len(chain) : Rows_OK(data[i])
      BY <1>1, <2>1, LbaIn
    <2>4. DOMAIN data = 1..Len(chain) /\ 1..Len(chain) \in SUBSET (Nat \ {0})
      BY <2>1
    <2> HIDE DEF data
    <2> QED
      BY <1>3, <2>2, <2>3, <2>4 DEF chain
  <1> QED
    BY <1>2, <1>3

\* The loops over sectors and rows stop at one of the rows they look for.
LEMMA FirstSlotIn ==
  ASSUME NEW slots \in SUBSET (Nat \X Nat), slots # {}
  PROVE  /\ FirstSlot(slots) \in slots
         /\ \A b \in slots : \/ FirstSlot(slots)[1] < b[1]
                             \/ FirstSlot(slots)[1] = b[1] /\ FirstSlot(slots)[2] <= b[2]
  <1> DEFINE Is(a) == \A b \in slots : a[1] < b[1] \/ (a[1] = b[1] /\ a[2] <= b[2])
  <1>1. PICK a \in slots : Is(a)
    BY LeastPair
  <1>2. FirstSlot(slots) = CHOOSE c \in slots : Is(c)
    BY DEF FirstSlot
  <1> HIDE DEF Is
  <1>3. FirstSlot(slots) \in slots /\ Is(FirstSlot(slots))
    BY <1>1, <1>2
  <1> QED
    BY <1>3 DEF Is

\* A row of an item, rewritten: the sector it is in goes back to its place.
LEMMA RowWritten ==
  ASSUME NEW m, Volume_OK(m), NEW dir \in Sectors,
         NEW i \in DOMAIN Read_Item(m, dir), NEW k \in 1..SectorRows,
         NEW row, IsEntry(row) => row \in Entries
  PROVE  Volume_OK(Write_Item(m, <<[Read_Item(m, dir)[i] EXCEPT ![k] = row]>>, dir, i - 1))
  <1> DEFINE sector == [Read_Item(m, dir)[i] EXCEPT ![k] = row]
             file   == <<sector>>
  <1>1. /\ i \in Nat \ {0} /\ Rows_OK(Read_Item(m, dir)[i])
        /\ dir # 0 => i \in 1..Len(Chain(m.table, dir))
    BY ReadOK
  <1>2. Rows_OK(sector)
    BY <1>1, RowReplaced
  <1> HIDE DEF sector
  <1>3. Len(file) = 1 /\ \A j \in 1..Len(file) : Rows_OK(file[j])
    BY <1>2
  <1>4. IF dir = 0 THEN Len(file) <= RootSectors
        ELSE (i - 1) + 1 \in 1..Len(Chain(m.table, dir))
    <2>1. (i - 1) + 1 = i
      BY <1>1
    <2> QED
      BY <1>1, <1>3, <2>1, Sizes
  <1> HIDE DEF file
  <1>5. Volume_OK(Write_Item(m, file, dir, i - 1))
    <2>1. Len(file) \in Nat \ {0}
      BY <1>3
    <2> QED
      BY <1>3, <1>4, <2>1, WriteItemOK
  <1> QED
    BY <1>5 DEF file, sector

\* Replacing the entry of an item that is listed.
LEMMA RewriteOK ==
  ASSUME NEW m, Volume_OK(m), NEW dir \in Sectors, NEW item, Listed(m, dir, item),
         NEW row, IsEntry(row) => row \in Entries
  PROVE  Volume_OK(Rewrite_Entry(m, dir, item, row))
  <1> DEFINE sectors == Read_Item(m, dir)
             hits    == Slots(sectors, LAMBDA r : SameName(r, item))
             slot    == FirstSlot(hits)
  <1>1. hits # {}
    BY DEF Listed
  <1>2. \A hit \in hits : hit[1] \in DOMAIN sectors /\ hit[2] \in 1..SectorRows
    BY DEF Slots
  <1>3. hits \in SUBSET (Nat \X Nat)
    <2>1. DOMAIN sectors \in SUBSET Nat
      BY ReadOK
    <2> HIDE DEF sectors
    <2> QED
      BY <2>1 DEF Slots
  <1>4. slot \in hits
    <2> HIDE DEF hits
    <2> QED
      BY <1>1, <1>3, FirstSlotIn
  <1>5. slot[1] \in DOMAIN Read_Item(m, dir) /\ slot[2] \in 1..SectorRows
    <2> HIDE DEF hits, slot
    <2> QED
      BY <1>2, <1>4
  <1> HIDE DEF hits, slot
  <1>6. Volume_OK(Write_Item(m, <<[Read_Item(m, dir)[slot[1]] EXCEPT ![slot[2]] = row]>>,
                             dir, slot[1] - 1))
    BY <1>5, RowWritten
  <1> QED
    BY <1>6 DEF Rewrite_Entry, slot, hits

\* Remove_Item: the entry, then the sectors.
LEMMA RemoveOK ==
  ASSUME NEW m, Volume_OK(m), NEW dir \in Sectors, NEW item
  PROVE  Volume_OK(Remove_Item(m, dir, item))
  <1>1. CASE Listed(m, dir, item)
    <2> DEFINE marked == Rewrite_Entry(m, dir, item, Deleted)
               freed  == Remove_Item_Data(marked, item.start)
    <2>1. ~IsEntry(Deleted)
      BY DEF IsEntry, Unused
    <2>2. Volume_OK(marked)
      BY <1>1, <2>1, RewriteOK
    <2> HIDE DEF marked
    <2>3. Volume_OK(freed)
      BY <2>2, RemoveDataOK
    <2> HIDE DEF freed
    <2>4. PICK R : Good(R) /\ freed \in Volumes(R)
      <3>1. Good({})
        BY DEF Good
      <3> QED
        BY <2>3, <3>1, VolumeIn
    <2>5. Volume_OK(Save_FAT12_Table(freed))
      BY <2>3, <2>4, SaveOK DEF Volume_OK
    <2> QED
      BY <1>1, <2>5 DEF Remove_Item, freed, marked
  <1>2. CASE ~Listed(m, dir, item)
    BY <1>2 DEF Remove_Item
  <1> QED
    BY <1>1, <1>2

\* A first sector for an item, and a sector for a directory that is full: one
\* sector written over the item at start.
LEMMA OneSectorOK ==
  ASSUME NEW m, Volume_OK(m), NEW sector, Rows_OK(sector), NEW start \in Sectors
  PROVE  Volume_OK(Write_Item(m, <<sector>>, start, 0))
  <1> DEFINE file == <<sector>>
  <1>1. Len(file) = 1 /\ \A j \in 1..Len(file) : Rows_OK(file[j])
    OBVIOUS
  <1>2. IF start = 0 THEN Len(file) <= RootSectors
        ELSE 0 + 1 \in 1..Len(Chain(m.table, start))
    <2>1. Links_OK(m.table)
      BY DEF Volume_OK
    <2>2. Len(Chain(m.table, start)) \in Nat \ {0}
      BY <2>1, ChainOK
    <2> QED
      BY <1>1, <2>2, Sizes
  <1> HIDE DEF file
  <1>3. Len(file) \in Nat \ {0}
    BY <1>1
  <1>4. Volume_OK(Write_Item(m, file, start, 0))
    BY <1>1, <1>2, <1>3, WriteItemOK
  <1> QED
    BY <1>4 DEF file

\* Create_Item, on a full disk too.
LEMMA CreateOK ==
  ASSUME NEW m, Volume_OK(m), NEW dir \in Sectors, NEW name \in Names, NEW isDir \in BOOLEAN
  PROVE  Volume_OK(Create_Item(m, dir, name, isDir))
  <1> DEFINE item    == [name |-> name, dir |-> isDir,
                         start |-> Find_Free_Sector(m.table), length |-> 0]
             blanked == Write_Item(m, <<BlankSector>>, item.start, 0)
             marked  == Save_FAT12_Table([blanked EXCEPT !.table[item.start] = LAST_SECTOR])
             sectors == Read_Item(marked, dir)
             slots   == Slots(sectors, Unused)
             slot    == FirstSlot(slots)
             more    == Find_Free_Sector(marked.table)
             first   == [BlankSector EXCEPT ![1] = item]
             grown   == Write_Item(marked, <<first>>, more, 0)
             listed  == Write_Item(marked, <<[sectors[slot[1]] EXCEPT ![slot[2]] = item]>>,
                                   dir, slot[1] - 1)
  <1>1. item.start \in Sectors /\ item \in Entries
    <2>1. m.table \in [Sectors -> 0..LAST_SECTOR]
      BY DEF Volume_OK, Links_OK
    <2>2. Find_Free_Sector(m.table) \in Sectors
      BY <2>1, FreeSector
    <2> QED
      BY <2>2 DEF Entries
  <1>2. Create_Item(m, dir, name, isDir) =
          IF slots # {} THEN listed ELSE Link_Sector(grown, dir, more)
    BY DEF Create_Item
  <1> HIDE DEF item
  <1>3. Volume_OK(blanked)
    BY <1>1, BlankOK, OneSectorOK
  <1> HIDE DEF blanked
  <1>4. Volume_OK(marked)
    BY <1>1, <1>3, MarkOK
  <1> HIDE DEF marked
  <1>5. more \in Sectors /\ (more = 0 \/ RootSectors <= more)
    <2>1. marked.table \in [Sectors -> 0..LAST_SECTOR]
      BY <1>4 DEF Volume_OK, Links_OK
    <2> QED
      BY <2>1, FreeSector
  <1> HIDE DEF more
  <1>6. ASSUME slots # {}  PROVE Volume_OK(listed)
    <2>1. \A hit \in slots : hit[1] \in DOMAIN sectors /\ hit[2] \in 1..SectorRows
      BY DEF Slots
    <2>2. slots \in SUBSET (Nat \X Nat)
      <3>1. DOMAIN sectors \in SUBSET Nat
        BY <1>4, ReadOK
      <3> HIDE DEF sectors
      <3> QED
        BY <3>1 DEF Slots
    <2>3. slot \in slots
      <3> HIDE DEF slots
      <3> QED
        BY <1>6, <2>2, FirstSlotIn
    <2>4. slot[1] \in DOMAIN Read_Item(marked, dir) /\ slot[2] \in 1..SectorRows
      <3> HIDE DEF slots, slot
      <3> QED
        BY <2>1, <2>3
    <2> HIDE DEF slots, slot
    <2> QED
      BY <1>1, <1>4, <2>4, RowWritten
  <1>7. Volume_OK(Link_Sector(grown, dir, more))
    <2>1. Rows_OK(first)
      <3>1. 1 \in 1..SectorRows
        BY Sizes
      <3> QED
        BY <1>1, <3>1, BlankOK, RowReplaced
    <2> HIDE DEF first
    <2>2. Volume_OK(grown)
      BY <1>4, <1>5, <2>1, OneSectorOK
    <2> HIDE DEF grown
    <2> QED
      BY <1>5, <2>2, LinkSectorOK
  <1> HIDE DEF slots, listed, grown
  <1> QED
    BY <1>2, <1>6, <1>7

-----------------------------------------------------------------------------
(* Paths.                                                                  *)

\* Where a walk along a path can be, and where a process can stand.
Walks ==
  [dir : Sectors, path : Seq(Names), item : Entries, found : BOOLEAN, error : BOOLEAN]

Homes == [path : Seq(Names), sector : Sectors]

\* One component of a path.
LEMMA ComponentOK ==
  ASSUME NEW m, Volume_OK(m), NEW w \in Walks, NEW name
  PROVE  Component(m, w, name) \in Walks
  <1> DEFINE sectors == Read_Item(m, w.dir)
             hits    == Slots(sectors, LAMBDA row : IsEntry(row) /\ row.name = name)
             slot    == FirstSlot(hits)
             entry   == sectors[slot[1]][slot[2]]
  <1>1. /\ w.dir \in Sectors /\ w.path \in Seq(Names)
        /\ w = [dir |-> w.dir, path |-> w.path, item |-> w.item,
                found |-> w.found, error |-> w.error]
    BY DEF Walks
  <1>2. CASE hits = {}
    <2>1. [w EXCEPT !.found = FALSE] \in Walks
      BY DEF Walks
    <2> HIDE DEF hits
    <2> QED
      BY <1>2, <2>1 DEF Component, hits
  <1>3. CASE hits # {}
    <2>1. \A hit \in hits : /\ hit[1] \in DOMAIN sectors /\ hit[2] \in 1..SectorRows
                            /\ IsEntry(sectors[hit[1]][hit[2]])
      BY DEF Slots
    <2>2. DOMAIN sectors \in SUBSET (Nat \ {0}) /\ \A i \in DOMAIN sectors : Rows_OK(sectors[i])
      BY <1>1, ReadOK
    <2>3. hits \in SUBSET (Nat \X Nat)
      <3> HIDE DEF sectors
      <3> QED
        BY <2>2 DEF Slots
    <2>4. slot \in hits
      <3> HIDE DEF hits
      <3> QED
        BY <1>3, <2>3, FirstSlotIn
    <2>5. entry \in Entries
      <3> HIDE DEF sectors, hits, slot
      <3>1. slot[1] \in DOMAIN sectors /\ slot[2] \in 1..SectorRows /\ IsEntry(entry)
        BY <2>1, <2>4
      <3> QED
        BY <2>2, <3>1 DEF Rows_OK
    <2>6. Component(m, w, name) =
            [w EXCEPT !.dir = entry.start, !.item = entry, !.found = TRUE,
                      !.path = Append(w.path, entry.name)]
      BY <1>3 DEF Component
    <2> HIDE DEF entry
    <2>7. entry.start \in Sectors /\ entry.name \in Names
      BY <2>5 DEF Entries
    <2>8. Append(w.path, entry.name) \in Seq(Names)
      BY <1>1, <2>7
    <2> QED
      BY <2>5, <2>6, <2>7, <2>8 DEF Walks
  <1> QED
    BY <1>2, <1>3

LEMMA StepDownOK ==
  ASSUME NEW m, Volume_OK(m), NEW v \in Walks, NEW name, NEW last \in BOOLEAN
  PROVE  Step_Down(m, v, name, last) \in Walks
  <1> DEFINE next == Component(m, v, name)
  <1>1. next \in Walks
    BY ComponentOK
  <1> HIDE DEF next
  <1>2. [v EXCEPT !.error = TRUE, !.found = FALSE] \in Walks
    BY DEF Walks
  <1>3. [next EXCEPT !.error = ~next.found /\ ~last] \in Walks
    BY <1>1 DEF Walks
  <1> QED
    BY <1>2, <1>3 DEF Step_Down, next

\* Both loops over the names of a path.
LEMMA WalkDownOK ==
  ASSUME NEW m, Volume_OK(m), NEW first \in Walks, NEW names, Len(names) \in Nat
  PROVE  Walk_Down(m, first, names) \in Walks
  <1> DEFINE size == Len(names)
             next == [n \in 1..size |-> [v \in Walks |-> Step_Down(m, v, names[n], n = size)]]
             walk[n \in 0..Len(names)] ==
                 IF n = 0 THEN first
                 ELSE Step_Down(m, walk[n - 1], names[n], n = Len(names))
  <1>1. next \in [1..size -> [Walks -> Walks]] /\ size \in Nat
    BY StepDownOK
  <1>2. PICK g \in [0..size -> Walks] : Turns(g, size, first, next)
    <2> HIDE DEF next, size
    <2> QED
      BY <1>1, Iteration
  <1>3. ASSUME NEW n \in 0..size
        PROVE  g[n] = IF n = 0 THEN first ELSE Step_Down(m, g[n - 1], names[n], n = size)
    <2>1. CASE n = 0
      BY <1>2, <2>1 DEF Turns
    <2>2. CASE n # 0
      <3>1. n \in 1..size /\ n - 1 \in 0..size
        BY <2>2
      <3>2. g[n] = next[n][g[n - 1]] /\ g[n - 1] \in Walks
        <4> HIDE DEF next
        <4> QED
          BY <1>2, <3>1 DEF Turns
      <3> QED
        BY <2>2, <3>1, <3>2
    <2> QED
      BY <2>1, <2>2
  <1>4. g = [n \in 0..size |->
               IF n = 0 THEN first ELSE Step_Down(m, g[n - 1], names[n], n = Len(names))]
    BY <1>3
  <1>5. walk = [n \in 0..size |->
                  IF n = 0 THEN first
                  ELSE Step_Down(m, walk[n - 1], names[n], n = Len(names))]
    BY <1>4 DEF walk
  <1> HIDE DEF walk
  <1> DEFINE S == {n \in 0..size : walk[n] \in Walks}
  <1>6. 0 \in S
    BY <1>5
  <1>7. ASSUME NEW n \in 1..size, n - 1 \in S  PROVE n \in S
    <2>1. walk[n] = Step_Down(m, walk[n - 1], names[n], n = Len(names))
      BY <1>5
    <2>2. walk[n] \in Walks
      <3> DEFINE last == n = Len(names)
      <3>1. last \in BOOLEAN /\ walk[n - 1] \in Walks
        BY <1>7
      <3>2. walk[n] = Step_Down(m, walk[n - 1], names[n], last)
        BY <2>1
      <3> HIDE DEF last
      <3> QED
        BY <3>1, <3>2, StepDownOK
    <2> QED
      BY <2>2
  <1>8. size \in S
    <2>1. size \in 0..size /\ size \in Nat
      BY <1>1
    <2> HIDE DEF S, size
    <2>2. 0..size \subseteq S
      BY <1>6, <1>7, <2>1, Induction
    <2> QED
      BY <2>1, <2>2
  <1> QED
    BY <1>8 DEF Walk_Down, walk

LEMMA WalkKnownOK ==
  ASSUME NEW m, Volume_OK(m), NEW first \in Walks, NEW names, Len(names) \in Nat
  PROVE  Walk_Known(m, first, names) \in Walks
  <1> DEFINE size == Len(names)
             next == [n \in 1..size |-> [v \in Walks |-> Component(m, v, names[n])]]
             walk[n \in 0..Len(names)] ==
                 IF n = 0 THEN first ELSE Component(m, walk[n - 1], names[n])
  <1>1. next \in [1..size -> [Walks -> Walks]] /\ size \in Nat
    BY ComponentOK
  <1>2. PICK g \in [0..size -> Walks] : Turns(g, size, first, next)
    <2> HIDE DEF next, size
    <2> QED
      BY <1>1, Iteration
  <1>3. ASSUME NEW n \in 0..size
        PROVE  g[n] = IF n = 0 THEN first ELSE Component(m, g[n - 1], names[n])
    <2>1. CASE n = 0
      BY <1>2, <2>1 DEF Turns
    <2>2. CASE n # 0
      <3>1. n \in 1..size /\ n - 1 \in 0..size
        BY <2>2
      <3>2. g[n] = next[n][g[n - 1]] /\ g[n - 1] \in Walks
        <4> HIDE DEF next
        <4> QED
          BY <1>2, <3>1 DEF Turns
      <3> QED
        BY <2>2, <3>1, <3>2
    <2> QED
      BY <2>1, <2>2
  <1>4. g = [n \in 0..size |->
               IF n = 0 THEN first ELSE Component(m, g[n - 1], names[n])]
    BY <1>3
  <1>5. walk = [n \in 0..size |->
                  IF n = 0 THEN first ELSE Component(m, walk[n - 1], names[n])]
    BY <1>4 DEF walk
  <1> HIDE DEF walk
  <1> DEFINE S == {n \in 0..size : walk[n] \in Walks}
  <1>6. 0 \in S
    BY <1>5
  <1>7. ASSUME NEW n \in 1..size, n - 1 \in S  PROVE n \in S
    <2>1. walk[n] = Component(m, walk[n - 1], names[n])
      BY <1>5
    <2>2. walk[n] \in Walks
      BY <1>7, <2>1, ComponentOK
    <2> QED
      BY <2>2
  <1>8. size \in S
    <2>1. size \in 0..size /\ size \in Nat
      BY <1>1
    <2> HIDE DEF S, size
    <2>2. 0..size \subseteq S
      BY <1>6, <1>7, <2>1, Induction
    <2> QED
      BY <2>1, <2>2
  <1> QED
    BY <1>8 DEF Walk_Known, walk

\* Lookup, for every path and from every working directory.
LEMMA LookupOK ==
  ASSUME NEW m, Volume_OK(m), NEW wd \in Homes, NEW asked, asked.names \in Seq(Names),
         NEW found \in BOOLEAN
  PROVE  Lookup(m, wd, asked, found) \in Walks
  <1> DEFINE path  == IF asked.names = <<>> THEN [abs |-> TRUE, names |-> wd.path] ELSE asked
             ups   == Cardinality({i \in 1..Len(path.names) : path.names[i] = ".."})
             depth == Len(wd.path)
             start == [dir |-> 0, path |-> <<>>, item |-> NoItem, found |-> found, error |-> FALSE]
             known == Walk_Known(m, start, SubSeq(wd.path, 1, depth - ups))
             first == IF path.abs THEN start
                      ELSE IF ups > 0 THEN known
                      ELSE [start EXCEPT !.dir = wd.sector, !.path = wd.path]
             down  == Walk_Down(m, first, path.names)
  <1>1. 0 \in Sectors /\ NoItem \in Entries /\ Root \in Entries
    <2>1. 0 \in Sectors
      BY Sizes DEF Sectors
    <2> QED
      BY <2>1 DEF NoItem, Root, Entries, Names
  <1>2. start \in Walks /\ [start EXCEPT !.item = Root, !.found = TRUE] \in Walks
        /\ [start EXCEPT !.error = TRUE, !.found = FALSE] \in Walks
    <2>1. <<>> \in Seq(Names)
      OBVIOUS
    <2> QED
      BY <1>1, <2>1 DEF Walks
  <1>3. wd.path \in Seq(Names) /\ wd.sector \in Sectors /\ depth \in Nat
    BY DEF Homes
  <1>4. path.names \in Seq(Names) /\ Len(path.names) \in Nat
    BY <1>3
  <1>5. [start EXCEPT !.dir = wd.sector, !.path = wd.path] \in Walks
    BY <1>1, <1>3 DEF Walks
  <1> HIDE DEF start, path
  <1>6. ups \in Nat
    <2> DEFINE T == {i \in 1..Len(path.names) : path.names[i] = ".."}
    <2>1. IsFiniteSet(1..Len(path.names))
      BY <1>4, FS_Interval
    <2>2. T \subseteq 1..Len(path.names)
      OBVIOUS
    <2> HIDE DEF T
    <2>3. IsFiniteSet(T)
      BY <2>1, <2>2, FS_Subset
    <2>4. Cardinality(T) \in Nat
      BY <2>3, FS_CardinalityType
    <2> QED
      BY <2>4 DEF T
  <1> HIDE DEF ups
  <1>7. ASSUME ~(ups > depth)  PROVE known \in Walks
    <2> DEFINE names == SubSeq(wd.path, 1, depth - ups)
    <2>1. Len(names) \in Nat
      BY <1>3, <1>6, <1>7
    <2> HIDE DEF names
    <2>2. Walk_Known(m, start, names) \in Walks
      BY <1>2, <2>1, WalkKnownOK
    <2> QED
      BY <2>2 DEF names
  <1> HIDE DEF known
  <1>8. ASSUME ~(ups > depth)  PROVE down \in Walks
    <2>1. first \in Walks
      BY <1>2, <1>5, <1>7, <1>8
    <2> HIDE DEF first
    <2> QED
      BY <1>4, <2>1, WalkDownOK
  <1> DEFINE result == Lookup(m, wd, asked, found)
  <1>9. \/ result = [start EXCEPT !.item = Root, !.found = TRUE]
        \/ ups > depth /\ result = [start EXCEPT !.error = TRUE, !.found = FALSE]
        \/ ~(ups > depth) /\ result = down
    BY DEF Lookup, known, ups, path, start
  <1> HIDE DEF depth, down
  <1> QED
    BY <1>2, <1>8, <1>9

LEMMA GetItemOK ==
  ASSUME NEW m, Volume_OK(m), NEW wd \in Homes, NEW asked, asked.names \in Seq(Names)
  PROVE  Get_Item(m, wd, asked) \in Walks
  BY LookupOK DEF Get_Item

\* The directory of what was found, or the one to create in.
LEMMA ParentOK ==
  ASSUME NEW m, Volume_OK(m), NEW wd \in Homes, NEW got \in Walks
  PROVE  Parent(m, wd, got) \in Walks /\ Remove_Parent(m, wd, got) \in Walks
  <1> DEFINE names == IF got.found /\ ~IsRoot(got)
                      THEN SubSeq(got.path, 1, Len(got.path) - 1)
                      ELSE got.path
             asked == [abs |-> TRUE, names |-> names]
  <1>1. got.path \in Seq(Names)
    BY DEF Walks
  <1>2. names \in Seq(Names)
    <2>1. CASE got.found /\ ~IsRoot(got)
      <3>1. got.path # <<>>
        BY <2>1 DEF IsRoot
      <3>2. SubSeq(got.path, 1, Len(got.path) - 1) \in Seq(Names)
        BY <1>1, <3>1
      <3> QED
        BY <2>1, <3>2
    <2>2. CASE ~(got.found /\ ~IsRoot(got))
      BY <1>1, <2>2
    <2> QED
      BY <2>1, <2>2
  <1> HIDE DEF names
  <1>3. asked.names \in Seq(Names)
    BY <1>2
  <1> HIDE DEF asked
  <1>4. Get_Item(m, wd, asked) \in Walks /\ Lookup(m, wd, asked, TRUE) \in Walks
    BY <1>3, GetItemOK, LookupOK
  <1> QED
    BY <1>4 DEF Parent, Remove_Parent, ParentPath, asked, names

-----------------------------------------------------------------------------
(* The inductive invariant.                                                *)

Opened == [item : Entries, parent : Sectors, kind : {"closed", "file", "dir", "null"}]

FsIInv ==
  /\ Volume_OK(fat12)
  /\ working_dir \in [Procs -> Homes]
  /\ handle \in [Handles -> Opened]
  /\ fault \in BOOLEAN

\* What a write into the root directory itself must not exceed: Write_Item
\* makes one chain of as many entries of the table as it has sectors to
\* write, and behind those of the root directory are those of the files.
RootWritesFit ==
  \A h \in Handles, text \in Texts, length \in Lengths :
    Write_File(h, text, length) /\ handle[h].item.start = 0
      => length < RootSectors * BytesPerSector

LEMMA PathIn == ASSUME NEW path \in Paths PROVE path.names \in Seq(Names)
  <1>1. path.names \in Seq(STRING)
    BY FileSystemAssumption
  <1>2. /\ path.names = [i \in 1..Len(path.names) |-> path.names[i]]
        /\ Len(path.names) \in Nat
        /\ \A i \in 1..Len(path.names) : path.names[i] \in STRING
    BY <1>1
  <1>3. \A i \in 1..Len(path.names) : path.names[i] \in Names
    BY <1>2 DEF Names
  <1> DEFINE names == path.names
  <1>4. names = [i \in 1..Len(names) |-> names[i]] /\ Len(names) \in Nat
        /\ \A i \in 1..Len(names) : names[i] \in Names
    BY <1>2, <1>3
  <1> HIDE DEF names
  <1>5. names \in Seq(Names)
    <2>1. names \in [1..Len(names) -> Names]
      BY <1>4
    <2> QED
      BY <1>4, <2>1
  <1> QED
    BY <1>5 DEF names

LEMMA ItemIn == 0 \in Sectors /\ AtRoot \in Homes /\ Closed \in Opened
  <1>1. 0 \in Sectors
    BY Sizes DEF Sectors
  <1> QED
    BY <1>1 DEF AtRoot, Homes, Closed, Opened, NoItem, Entries, Names

LEMMA InitOK == Init => FsIInv
  BY ZenonT(40), FileSystemAssumption, ItemIn DEF Init, FsIInv

\* What a path leads to, and the directory above it.
LEMMA Found ==
  ASSUME FsIInv, NEW p \in Procs, NEW path \in Paths
  PROVE  LET got == Get_Item(fat12, working_dir[p], path) IN
         /\ got \in Walks
         /\ Parent(fat12, working_dir[p], got) \in Walks
         /\ Remove_Parent(fat12, working_dir[p], got) \in Walks
  <1>1. Volume_OK(fat12) /\ working_dir[p] \in Homes /\ path.names \in Seq(Names)
    BY PathIn DEF FsIInv
  <1>2. Get_Item(fat12, working_dir[p], path) \in Walks
    BY <1>1, GetItemOK
  <1> QED
    BY <1>1, <1>2, ParentOK

LEMMA OpenExistingOK ==
  ASSUME FsIInv, NEW p \in Procs, NEW path \in Paths, NEW h \in Handles, NEW dir \in BOOLEAN,
         Open_Existing(p, h, path, dir)
  PROVE  FsIInv'
  <1> DEFINE got    == Get_Item(fat12, working_dir[p], path)
             parent == Parent(fat12, working_dir[p], got)
  <1>1. got \in Walks /\ parent \in Walks
    BY Found
  <1>2. /\ UNCHANGED <<fat12, working_dir>>
        /\ \/ fault' = TRUE /\ UNCHANGED handle
           \/ /\ UNCHANGED fault
              /\ handle' = [handle EXCEPT ![h] =
                    [item |-> got.item, parent |-> parent.item.start,
                     kind |-> IF dir THEN "dir" ELSE "file"]]
    BY DEF Open_Existing
  <1> HIDE DEF got, parent
  <1>3. got.item \in Entries /\ parent.item.start \in Sectors
    BY <1>1 DEF Walks, Entries
  <1> DEFINE opened == [item |-> got.item, parent |-> parent.item.start,
                       kind |-> IF dir THEN "dir" ELSE "file"]
  <1>4. opened \in Opened
    BY <1>3 DEF Opened
  <1>5. handle' = handle \/ handle' = [handle EXCEPT ![h] = opened]
    BY <1>2
  <1> HIDE DEF opened
  <1>6. handle' \in [Handles -> Opened]
    BY <1>4, <1>5 DEF FsIInv
  <1> QED
    BY <1>2, <1>6 DEF FsIInv

LEMMA OpenOrCreateOK ==
  ASSUME FsIInv, NEW p \in Procs, NEW path \in Paths, NEW h \in Handles, NEW dir \in BOOLEAN,
         Open_Or_Create(p, h, path, dir)
  PROVE  FsIInv'
  <1> DEFINE got    == Get_Item(fat12, working_dir[p], path)
             parent == Parent(fat12, working_dir[p], got)
             m(stored) == IF got.found \/ stored \in {".", ".."} THEN fat12
                          ELSE Create_Item(fat12, parent.item.start, stored, dir)
             new(stored) == IF got.found /\ ~dir THEN got
                            ELSE Lookup(m(stored), working_dir[p], path, got.found)
  <1>1. got \in Walks /\ parent \in Walks
    BY Found
  <1>2. PICK stored \in IF path.names = <<>> THEN {NoName} ELSE Stored(path.names[Len(path.names)]) :
          /\ UNCHANGED working_dir
          /\ \/ fault' = TRUE /\ UNCHANGED <<fat12, handle>>
             \/ /\ UNCHANGED fault /\ fat12' = m(stored)
                /\ handle' = [handle EXCEPT ![h] =
                      [item |-> new(stored).item, parent |-> parent.item.start,
                       kind |-> IF dir THEN "dir"
                                ELSE IF new(stored).error THEN "null" ELSE "file"]]
    BY DEF Open_Or_Create
  <1>3. stored \in Names
    <2>1. path.names \in Seq(Names)
      BY PathIn
    <2>2. CASE path.names = <<>>
      BY <1>2, <2>2 DEF Names
    <2>3. CASE path.names # <<>>
      <3>1. path.names[Len(path.names)] \in Names
        BY <2>1, <2>3
      <3> QED
        BY <1>2, <2>3, <3>1 DEF Stored, Names
    <2> QED
      BY <2>2, <2>3
  <1> HIDE DEF got, parent
  <1>4. parent.item.start \in Sectors
    BY <1>1 DEF Walks, Entries
  <1>5. Volume_OK(m(stored))
    <2>1. Volume_OK(fat12)
      BY DEF FsIInv
    <2>2. Volume_OK(Create_Item(fat12, parent.item.start, stored, dir))
      BY <1>3, <1>4, <2>1, CreateOK
    <2> QED
      BY <2>1, <2>2
  <1> HIDE DEF m
  <1>6. new(stored) \in Walks
    <2>1. working_dir[p] \in Homes /\ path.names \in Seq(Names)
      BY PathIn DEF FsIInv
    <2>2. got.found \in BOOLEAN
      BY <1>1 DEF Walks
    <2> QED
      BY <1>1, <1>5, <2>1, <2>2, LookupOK
  <1> HIDE DEF new
  <1>7. new(stored).item \in Entries
    BY <1>6 DEF Walks
  <1> DEFINE opened == [item |-> new(stored).item, parent |-> parent.item.start,
                       kind |-> IF dir THEN "dir"
                                ELSE IF new(stored).error THEN "null" ELSE "file"]
  <1>8. opened \in Opened
    BY <1>4, <1>7 DEF Opened
  <1>9. handle' = handle \/ handle' = [handle EXCEPT ![h] = opened]
    BY <1>2
  <1> HIDE DEF opened
  <1>10. handle' \in [Handles -> Opened]
    BY <1>8, <1>9 DEF FsIInv
  <1> QED
    BY <1>2, <1>5, <1>10 DEF FsIInv

LEMMA DeleteFileOK ==
  ASSUME FsIInv, NEW p \in Procs, NEW path \in Paths, Delete_File(p, path)
  PROVE  FsIInv'
  <1> DEFINE got    == Get_Item(fat12, working_dir[p], path)
             parent == Remove_Parent(fat12, working_dir[p], got)
  <1>1. got \in Walks /\ parent \in Walks
    BY Found
  <1>2. /\ UNCHANGED <<working_dir, handle>>
        /\ \/ fault' = TRUE /\ UNCHANGED fat12
           \/ UNCHANGED fault /\ fat12' = Remove_Item(fat12, parent.item.start, got.item)
    BY DEF Delete_File
  <1> HIDE DEF got, parent
  <1>3. parent.item.start \in Sectors
    BY <1>1 DEF Walks, Entries
  <1>4. Volume_OK(fat12)
    BY DEF FsIInv
  <1>5. Volume_OK(Remove_Item(fat12, parent.item.start, got.item))
    BY <1>3, <1>4, RemoveOK
  <1> QED
    BY <1>2, <1>4, <1>5 DEF FsIInv

LEMMA SetWorkingDirOK ==
  ASSUME FsIInv, NEW p \in Procs, NEW path \in Paths, Set_Working_Dir(p, path)
  PROVE  FsIInv'
  <1> DEFINE got == Get_Item(fat12, working_dir[p], path)
  <1>1. got \in Walks
    BY Found
  <1>2. /\ UNCHANGED <<fat12, handle, fault>>
        /\ working_dir' = [working_dir EXCEPT ![p] =
              [path |-> got.path, sector |-> got.item.start]]
    BY DEF Set_Working_Dir
  <1> HIDE DEF got
  <1>3. [path |-> got.path, sector |-> got.item.start] \in Homes
    BY <1>1 DEF Walks, Entries, Homes
  <1> QED
    BY <1>2, <1>3 DEF FsIInv

LEMMA CloseOK ==
  ASSUME FsIInv, NEW h \in Handles, Close_Handle(h)
  PROVE  FsIInv'
  BY ItemIn DEF FsIInv, Close_Handle

LEMMA RestartOK ==
  ASSUME FsIInv, Restart
  PROVE  FsIInv'
  <1>1. Volume_OK(fat12)
    BY DEF FsIInv
  <1>2. PICK R : Good(R) /\ fat12 \in Volumes(R)
    <2>1. Good({})
      BY DEF Good
    <2> QED
      BY <1>1, <2>1, VolumeIn
  <1> DEFINE new == [table |-> fat12.saved, saved |-> fat12.saved, disk |-> fat12.disk]
  <1>3. new \in Volumes(R) /\ new.table = fat12.saved /\ new.saved = fat12.saved
    BY <1>2 DEF Volumes
  <1>4. Links_OK(fat12.saved)
    BY <1>1 DEF Volume_OK
  <1> HIDE DEF new
  <1>5. Volume_OK(new)
    BY <1>2, <1>3, <1>4, VolumeOut
  <1>6. fat12' = new
    BY DEF Restart, new
  <1> QED
    BY <1>5, <1>6, ItemIn DEF FsIInv, Restart

\* The sectors of a text are whole ones, and no entries.
LEMMA BufferOK ==
  ASSUME NEW text, NEW length \in Lengths
  PROVE  /\ Len(Buffer(text, length)) = 1 + (length \div BytesPerSector)
         /\ Len(Buffer(text, length)) \in Nat \ {0}
         /\ \A i \in 1..Len(Buffer(text, length)) : Rows_OK(Buffer(text, length)[i])
         /\ length < RootSectors * BytesPerSector
              => Len(Buffer(text, length)) <= RootSectors
  <1> DEFINE count == 1 + (length \div BytesPerSector)
             unit(i, k) == IF (i - 1) * BytesPerSector + (k - 1) * RowBytes < length
                           THEN [text |-> text, part |-> (i - 1) * SectorRows + k]
                           ELSE Free
             sector(i) == [k \in 1..SectorRows |-> unit(i, k)]
             file == [i \in 1..count |-> sector(i)]
  <1>1. BytesPerSector \in Nat \ {0} /\ length \in Nat
    BY Fat12Assumption, FileSystemAssumption DEF BytesPerSector
  <1>2. /\ count \in Nat \ {0}
        /\ length < RootSectors * BytesPerSector => count <= RootSectors
    <2> DEFINE q == length \div BytesPerSector
    <2>1. q \in Nat /\ q * BytesPerSector <= length
      BY <1>1
    <2> HIDE DEF q
    <2>2. ASSUME length < RootSectors * BytesPerSector, ~(q < RootSectors)  PROVE FALSE
      <3>1. RootSectors * BytesPerSector <= q * BytesPerSector
        BY <1>1, <2>1, <2>2, Sizes
      <3> QED
        BY <1>1, <2>1, <2>2, <3>1, Sizes
    <2> QED
      BY <2>1, <2>2, Sizes DEF q
  <1> HIDE DEF count
  <1>3. \A i \in 1..count : Rows_OK(sector(i))
    <2>1. ASSUME NEW i \in 1..count, NEW k \in 1..SectorRows  PROVE ~IsEntry(unit(i, k))
      BY DEF IsEntry, Unused
    <2> HIDE DEF unit
    <2> QED
      BY <2>1 DEF Rows_OK
  <1>4. Buffer(text, length) = file
    BY DEF Buffer, count
  <1> HIDE DEF sector
  <1>5. Len(file) = count
    BY <1>2
  <1>6. \A i \in 1..count : file[i] = sector(i)
    OBVIOUS
  <1> HIDE DEF file
  <1> QED
    BY <1>2, <1>3, <1>4, <1>5, <1>6 DEF count

LEMMA WriteFileOK ==
  ASSUME FsIInv, NEW h \in Handles, NEW text \in Texts, NEW length \in Lengths,
         Write_File(h, text, length),
         handle[h].item.start = 0 => length < RootSectors * BytesPerSector
  PROVE  FsIInv'
  <1> DEFINE item    == [handle[h].item EXCEPT !.length = length]
             parent  == handle[h].parent
             freed   == Remove_Item_Data(fat12, item.start)
             written == Write_Item(freed, Buffer(text, length), item.start, 0)
             sectors == Read_Item(written, parent)
             hits    == Slots(sectors, LAMBDA r : SameName(r, item))
             slot    == FirstSlot(hits)
             row     == sectors[slot[1]][slot[2]]
             new     == IF row = Free THEN Free ELSE [row EXCEPT !.length = length]
  <1>1. /\ UNCHANGED working_dir
        /\ \/ fault' = TRUE /\ UNCHANGED <<fat12, handle>>
           \/ /\ UNCHANGED fault
              /\ handle' = [handle EXCEPT ![h].item = item]
              /\ fat12' = IF Listed(written, parent, item)
                          THEN Rewrite_Entry(written, parent, item, new)
                          ELSE written
    BY ZenonT(40) DEF Write_File
  <1>2. /\ handle[h].item \in Entries /\ parent \in Sectors /\ Volume_OK(fat12)
        /\ length \in Nat
    BY FileSystemAssumption DEF FsIInv, Opened
  <1>3. item \in Entries /\ item.start = handle[h].item.start /\ item.start \in Sectors
    BY <1>2 DEF Entries
  <1> HIDE DEF item, parent
  <1>4. Volume_OK(freed)
    BY <1>2, RemoveDataOK
  <1> HIDE DEF freed
  <1>5. Volume_OK(written)
    <2> DEFINE file == Buffer(text, length)
    <2>1. /\ Len(file) \in Nat \ {0} /\ \A i \in 1..Len(file) : Rows_OK(file[i])
          /\ length < RootSectors * BytesPerSector => Len(file) <= RootSectors
      BY BufferOK
    <2> HIDE DEF file
    <2>2. IF item.start = 0 THEN Len(file) <= RootSectors
          ELSE 0 + 1 \in 1..Len(Chain(freed.table, item.start))
      <3>1. Links_OK(freed.table)
        BY <1>4 DEF Volume_OK
      <3>2. Len(Chain(freed.table, item.start)) \in Nat \ {0}
        BY <1>3, <3>1, ChainOK
      <3> QED
        BY <1>3, <2>1, <3>2
    <2>3. Volume_OK(Write_Item(freed, file, item.start, 0))
      BY <1>3, <1>4, <2>1, <2>2, WriteItemOK
    <2> QED
      BY <2>3 DEF file
  <1> HIDE DEF written
  <1>6. ASSUME Listed(written, parent, item)
        PROVE  Volume_OK(Rewrite_Entry(written, parent, item, new))
    <2>1. hits # {}
      BY <1>6 DEF Listed
    <2>2. \A hit \in hits : /\ hit[1] \in DOMAIN sectors /\ hit[2] \in 1..SectorRows
                            /\ SameName(sectors[hit[1]][hit[2]], item)
      BY DEF Slots
    <2>3. /\ DOMAIN sectors \in SUBSET (Nat \ {0})
          /\ \A i \in DOMAIN sectors : Rows_OK(sectors[i])
      BY <1>2, <1>5, ReadOK
    <2>4. hits \in SUBSET (Nat \X Nat)
      <3> HIDE DEF sectors
      <3> QED
        BY <2>3 DEF Slots
    <2>5. slot \in hits
      <3> HIDE DEF hits
      <3> QED
        BY <2>1, <2>4, FirstSlotIn
    <2>6. row = Free \/ row \in Entries
      <3> HIDE DEF sectors, hits, slot
      <3>1. slot[1] \in DOMAIN sectors /\ slot[2] \in 1..SectorRows /\ SameName(row, item)
        BY <2>2, <2>5
      <3> QED
        BY <2>3, <3>1 DEF Rows_OK, SameName
    <2> HIDE DEF row
    <2>7. IsEntry(new) => new \in Entries
      <3>1. ~IsEntry(Free)
        BY DEF IsEntry, Unused
      <3>2. row \in Entries => [row EXCEPT !.length = length] \in Entries
        BY <1>2 DEF Entries
      <3> QED
        BY <2>6, <3>1, <3>2
    <2> HIDE DEF new
    <2> QED
      BY <1>2, <1>5, <1>6, <2>7, RewriteOK
  <1> HIDE DEF new
  <1>7. handle' = handle \/ handle' = [handle EXCEPT ![h].item = item]
    BY <1>1
  <1>8. handle' \in [Handles -> Opened]
    BY <1>3, <1>7 DEF FsIInv, Opened
  <1>9. Volume_OK(fat12') /\ fault' \in BOOLEAN
    BY <1>1, <1>2, <1>5, <1>6 DEF FsIInv
  <1> QED
    BY <1>1, <1>8, <1>9 DEF FsIInv

LEMMA FsStep ==
  FsIInv /\ [Next]_vars /\ [RootWritesFit]_vars => FsIInv'
  <1> SUFFICES ASSUME FsIInv, [Next]_vars, [RootWritesFit]_vars  PROVE FsIInv'
    OBVIOUS
  <1>1. CASE UNCHANGED vars
    BY <1>1 DEF FsIInv, vars
  <1>2. ASSUME NEW p \in Procs, NEW path \in Paths, Delete_File(p, path)  PROVE FsIInv'
    BY <1>2, DeleteFileOK
  <1>3. ASSUME NEW p \in Procs, NEW path \in Paths, Set_Working_Dir(p, path)  PROVE FsIInv'
    BY <1>3, SetWorkingDirOK
  <1>4. ASSUME NEW p \in Procs, NEW path \in Paths, NEW h \in Handles, NEW dir \in BOOLEAN,
               Open_Existing(p, h, path, dir)
        PROVE  FsIInv'
    BY <1>4, OpenExistingOK
  <1>5. ASSUME NEW p \in Procs, NEW path \in Paths, NEW h \in Handles, NEW dir \in BOOLEAN,
               Open_Or_Create(p, h, path, dir)
        PROVE  FsIInv'
    BY <1>5, OpenOrCreateOK
  <1>6. ASSUME NEW h \in Handles, Close_Handle(h)  PROVE FsIInv'
    BY <1>6, CloseOK
  <1>7. ASSUME ~(UNCHANGED vars), NEW h \in Handles, NEW text \in Texts, NEW length \in Lengths,
               Write_File(h, text, length)
        PROVE  FsIInv'
    <2>1. handle[h].item.start = 0 => length < RootSectors * BytesPerSector
      BY <1>7 DEF RootWritesFit
    <2> QED
      BY <1>7, <2>1, WriteFileOK
  <1>8. CASE Restart
    BY <1>8, RestartOK
  <1> QED
    BY <1>1, <1>2, <1>3, <1>4, <1>5, <1>6, <1>7, <1>8 DEF Next

\* Whatever the sizes, the image and the processes do: the volume stays one.
THEOREM VolumeKept == FileSystem_Spec /\ [][RootWritesFit]_vars => []FsIInv
  <1> QED
    BY InitOK, FsStep, PTL DEF FileSystem_Spec

\* FsTypeOK: 12 bit values in both tables, whole sectors on the disk.
THEOREM FsTypeCorrect == FileSystem_Spec /\ [][RootWritesFit]_vars => []FsTypeOK
  <1>1. FsIInv => FsTypeOK
    <2> SUFFICES ASSUME FsIInv  PROVE FsTypeOK
      OBVIOUS
    <2>1. /\ fat12.table \in [Sectors -> 0..LAST_SECTOR]
          /\ fat12.saved \in [Sectors -> 0..LAST_SECTOR]
          /\ fat12.disk = [lba \in 0..DiskSectors - 1 |-> fat12.disk[lba]]
          /\ \A lba \in 0..DiskSectors - 1 : Rows_OK(fat12.disk[lba])
      BY DEF FsIInv, Volume_OK, Links_OK
    <2>2. DOMAIN fat12.disk = 0..DiskSectors - 1
      BY <2>1
    <2>3. \A lba \in 0..DiskSectors - 1 : DOMAIN fat12.disk[lba] = 1..SectorRows
      BY <2>1 DEF Rows_OK
    <2>4. /\ DOMAIN working_dir = Procs /\ DOMAIN handle = Handles /\ fault \in BOOLEAN
          /\ \A h \in Handles : handle[h].kind \in {"closed", "file", "dir", "null"}
      BY DEF FsIInv, Opened
    <2> QED
      BY <2>1, <2>2, <2>3, <2>4 DEF FsTypeOK, Sectors
  <1> QED
    BY <1>1, VolumeKept, PTL

\* ChainsEnd: no loop over Next_Sector runs for ever.
THEOREM ChainsAlwaysEnd == FileSystem_Spec /\ [][RootWritesFit]_vars => []ChainsEnd
  <1>1. FsIInv => ChainsEnd
    BY ChainEnds DEF FsIInv, Volume_OK, ChainsEnd, Sectors
  <1> QED
    BY <1>1, VolumeKept, PTL

-----------------------------------------------------------------------------
(* A write of less than a sector.                                          *)

\* A sector that has no link is a chain of its own.
LEMMA ChainOfOne ==
  ASSUME NEW table, Links_OK(table), NEW start \in Sectors, ~Linked(table, start)
  PROVE  Len(Chain(table, start)) = 1 /\ Chain(table, start)[1] = start
  <1> DEFINE chain == Chain(table, start)
  <1>1. /\ Len(chain) \in Nat \ {0} /\ chain[1] = start
        /\ \A i \in 1..Len(chain) - 1 : Linked(table, chain[i])
    BY ChainOK
  <1> HIDE DEF chain
  <1>2. ~Linked(table, chain[1])
    BY <1>1
  <1> DEFINE size == Len(chain)
  <1>3. size \in Nat \ {0} /\ (1 \in 1..size - 1 => Linked(table, chain[1]))
    BY <1>1
  <1> HIDE DEF size
  <1>4. size = 1
    BY <1>2, <1>3
  <1> QED
    BY <1>1, <1>4 DEF chain, size

\* One sector on the disk.
LEMMA SectorAtWritten ==
  ASSUME NEW R, NEW m \in Volumes(R), NEW file, Len(file) = 1, NEW lba \in Nat, NEW l \in Nat
  PROVE  Sector_At(Write_Sectors(m, file, lba), l) =
           IF l = lba /\ l < DiskSectors THEN file[1] ELSE Sector_At(m, l)
  <1> DEFINE disk == [k \in DOMAIN m.disk |->
                        IF k \in lba..lba + Len(file) - 1 THEN file[k - lba + 1]
                        ELSE m.disk[k]]
             new == [m EXCEPT !.disk = disk]
  <1>1. DOMAIN m.disk = 0..DiskSectors - 1 /\ DiskSectors \in Nat
    BY Sizes DEF Volumes
  <1>2. new.disk = disk
    BY DEF Volumes
  <1>3. Write_Sectors(m, file, lba) = IF lba + 1 > DiskSectors THEN m ELSE new
    BY DEF Write_Sectors
  <1>4. CASE lba + 1 > DiskSectors
    BY <1>1, <1>3, <1>4
  <1>5. CASE ~(lba + 1 > DiskSectors)
    <2>1. CASE ~(l < DiskSectors)
      BY <2>1 DEF Sector_At
    <2>2. CASE l < DiskSectors
      <3>1. l \in DOMAIN m.disk
        BY <1>1, <2>2
      <3>2. disk[l] = IF l \in lba..lba + Len(file) - 1 THEN file[l - lba + 1] ELSE m.disk[l]
        BY <3>1
      <3> HIDE DEF disk
      <3>3. disk[l] = IF l = lba THEN file[1] ELSE m.disk[l]
        <4>1. l \in lba..lba + Len(file) - 1 <=> l = lba
          OBVIOUS
        <4>2. l = lba => l - lba + 1 = 1
          OBVIOUS
        <4> QED
          BY <3>2, <4>1, <4>2
      <3> HIDE DEF new
      <3>4. Sector_At(new, l) = disk[l] /\ Sector_At(m, l) = m.disk[l]
        BY <1>2, <2>2 DEF Sector_At
      <3> QED
        BY <1>3, <1>5, <2>2, <3>3, <3>4
    <2> QED
      BY <2>1, <2>2
  <1> QED
    BY <1>4, <1>5

\* The loop of Write_Item for one sector.
LEMMA WrittenOne ==
  ASSUME NEW m, NEW file, Len(file) = 1, NEW at
  PROVE  Written(m, file, at) = [m |-> Write_Sectors(m, <<file[1]>>, Lba(at)), at |-> at]
  <1> DEFINE first == [m |-> Write_Sectors(m, <<file[1]>>, Lba(at)), at |-> at]
             w[n \in 1..Len(file)] ==
                 IF n = 1 THEN [m |-> Write_Sectors(m, <<file[1]>>, Lba(at)), at |-> at]
                 ELSE Write_Next(w[n - 1], file[n])
             h == [n \in 1..Len(file) |-> first]
  <1> HIDE DEF first
  <1>1. h = [n \in 1..Len(file) |-> IF n = 1 THEN first ELSE Write_Next(h[n - 1], file[n])]
    <2>1. \A n \in 1..Len(file) : n = 1
      OBVIOUS
    <2> QED
      BY <2>1
  <1>2. h = [n \in 1..Len(file) |->
               IF n = 1 THEN [m |-> Write_Sectors(m, <<file[1]>>, Lba(at)), at |-> at]
               ELSE Write_Next(h[n - 1], file[n])]
    <2> HIDE DEF h
    <2> QED
      BY <1>1 DEF first
  <1>3. w = [n \in 1..Len(file) |->
               IF n = 1 THEN [m |-> Write_Sectors(m, <<file[1]>>, Lba(at)), at |-> at]
               ELSE Write_Next(w[n - 1], file[n])]
    <2> HIDE DEF h
    <2> QED
      BY <1>2 DEF w
  <1> HIDE DEF w
  <1>4. w[Len(file)] = first
    BY <1>3 DEF first
  <1> QED
    BY <1>4 DEF Written, w, first

\* The disk address of one sector that Write_Item writes.
Place(m, start, num) ==
  IF start = 0 THEN 0 ELSE Lba(Find_Sector(m.table, num, start))

\* One sector written: it is at its place, every other is as before, and no
\* sector but that of entry 0 has got a link.
LEMMA OneWritten ==
  ASSUME NEW m, Volume_OK(m), NEW sector, Rows_OK(sector), NEW start \in Sectors, NEW num,
         start # 0 => num + 1 \in 1..Len(Chain(m.table, start))
  PROVE  LET new == Write_Item(m, <<sector>>, start, num) IN
         /\ Place(m, start, num) \in Nat
         /\ \A l \in Nat : Sector_At(new, l) =
              IF l = Place(m, start, num) /\ l < DiskSectors THEN sector ELSE Sector_At(m, l)
         /\ \A s \in Sectors \ {0} : ~Linked(m.table, s) => ~Linked(new.table, s)
         /\ start # 0 => ~Linked(new.table, Find_Sector(m.table, num, start))
  <1> DEFINE file == <<sector>>
             new  == Write_Item(m, file, start, num)
  <1>1. Len(file) = 1 /\ file[1] = sector /\ <<file[1]>> = file
    OBVIOUS
  <1> HIDE DEF file
  <1>2. PICK R : Good(R) /\ {sector} \subseteq R /\ m \in Volumes(R)
    <2>1. Good({sector})
      BY DEF Good
    <2> QED
      BY <2>1, VolumeIn
  <1>3. Links_OK(m.table) /\ m.table \in [Sectors -> 0..LAST_SECTOR]
    BY DEF Volume_OK, Links_OK
  <1>4. CASE start = 0
    <2> DEFINE table == [s \in DOMAIN m.table |->
                           IF s = Len(file) THEN LAST_SECTOR
                           ELSE IF s < Len(file) /\ m.table[s] = 0 THEN s + 1
                           ELSE m.table[s]]
               linked == [m EXCEPT !.table = table]
               wrote  == Write_Sectors(linked, file, 0)
    <2>1. Links_OK(table)
      <3>1. Len(file) \in Nat /\ Len(file) <= RootSectors
        BY <1>1, Sizes
      <3> QED
        BY <1>3, <3>1, RootLinked
    <2>2. \A s \in Sectors \ {0} : table[s] = IF s = 1 THEN LAST_SECTOR ELSE m.table[s]
      <3>1. ASSUME NEW s \in Sectors \ {0}
            PROVE  table[s] = IF s = 1 THEN LAST_SECTOR ELSE m.table[s]
        <4>1. s \in DOMAIN m.table /\ ~(s < Len(file))
          BY <1>1, <1>3, Sizes DEF Sectors
        <4> QED
          BY <1>1, <4>1
      <3> QED
        BY <3>1
    <2>3. /\ linked \in Volumes(R) /\ linked.table = table /\ linked.disk = m.disk
      <3>1. table \in [Sectors -> 0..LAST_SECTOR]
        BY <2>1 DEF Links_OK
      <3> HIDE DEF table
      <3> QED
        BY <1>2, <3>1, TableReplaced
    <2> HIDE DEF table, linked
    <2>4. wrote \in Volumes(R) /\ wrote.table = table
      <3>1. Len(file) \in Nat /\ \A i \in 1..Len(file) : file[i] \in R
        BY <1>1, <1>2
      <3> QED
        BY <2>3, <3>1, WriteSectorsOK
    <2>5. \A l \in Nat : Sector_At(wrote, l) =
            IF l = 0 /\ l < DiskSectors THEN sector ELSE Sector_At(m, l)
      <3>1. \A l \in Nat : Sector_At(linked, l) = Sector_At(m, l)
        BY <2>3 DEF Sector_At
      <3> QED
        BY <1>1, <2>3, <3>1, SectorAtWritten
    <2>6. new = Save_FAT12_Table(wrote)
      BY <1>4 DEF Write_Item, wrote, linked, table
    <2> HIDE DEF wrote, new
    <2>7. new.table = table /\ new.disk = wrote.disk
      BY <2>4, <2>6 DEF Save_FAT12_Table
    <2>8. \A l \in Nat : Sector_At(new, l) = Sector_At(wrote, l)
      BY <2>7 DEF Sector_At
    <2>9. Place(m, start, num) = 0
      BY <1>4 DEF Place
    <2>10. ASSUME NEW s \in Sectors \ {0}, ~Linked(m.table, s)  PROVE ~Linked(new.table, s)
      <3>1. ~(LAST_SECTOR < Media)
        BY DEF LAST_SECTOR, Media
      <3> QED
        BY <2>2, <2>7, <2>10, <3>1 DEF Linked
    <2> QED
      BY <1>4, <2>5, <2>8, <2>9, <2>10 DEF new, file
  <1>5. CASE start # 0
    <2> DEFINE at    == Find_Sector(m.table, num, start)
               wrote == Write_Sectors(m, file, Lba(at))
               ended == [wrote EXCEPT !.table[at] = LAST_SECTOR]
    <2>1. at \in Sectors
      <3> DEFINE chain == Chain(m.table, start)
      <3>1. \A i \in 1..Len(chain) : chain[i] \in Sectors
        BY <1>3, ChainOK
      <3>2. num + 1 \in 1..Len(chain)
        BY <1>5
      <3> HIDE DEF chain
      <3>3. chain[num + 1] \in Sectors
        BY <3>1, <3>2
      <3> QED
        BY <3>3 DEF chain, Find_Sector
    <2>2. Place(m, start, num) = Lba(at) /\ Lba(at) \in Nat
      BY <1>5, <2>1, LbaIn DEF Place
    <2>3. wrote \in Volumes(R) /\ wrote.table = m.table
      <3>1. Len(file) \in Nat /\ \A i \in 1..Len(file) : file[i] \in R
        BY <1>1, <1>2
      <3> QED
        BY <1>2, <2>2, <3>1, WriteSectorsOK
    <2>4. \A l \in Nat : Sector_At(wrote, l) =
            IF l = Lba(at) /\ l < DiskSectors THEN sector ELSE Sector_At(m, l)
      BY <1>1, <1>2, <2>2, SectorAtWritten
    <2>5. new = Save_FAT12_Table(ended)
      <3> DEFINE end == Written(m, file, at)
      <3>1. end = [m |-> wrote, at |-> at]
        BY <1>1, WrittenOne
      <3> HIDE DEF at
      <3>2. new = Save_FAT12_Table([end.m EXCEPT !.table[end.at] = LAST_SECTOR])
        BY <1>5 DEF Write_Item, Written, at
      <3> HIDE DEF end, wrote, new
      <3>3. end.m = wrote /\ end.at = at
        BY <3>1
      <3> QED
        BY <3>2, <3>3
    <2> HIDE DEF at, wrote
    <2>6. /\ ended.disk = wrote.disk
          /\ ended.table = [m.table EXCEPT ![at] = LAST_SECTOR]
      BY <2>3 DEF Volumes
    <2> HIDE DEF ended, new
    <2>7. new.table = [m.table EXCEPT ![at] = LAST_SECTOR] /\ new.disk = wrote.disk
      BY <2>5, <2>6 DEF Save_FAT12_Table
    <2>8. \A l \in Nat : Sector_At(new, l) = Sector_At(wrote, l)
      BY <2>7 DEF Sector_At
    <2>9. \A s \in Sectors : new.table[s] = IF s = at THEN LAST_SECTOR ELSE m.table[s]
      BY <1>3, <2>7
    <2>10. ASSUME NEW s \in Sectors, s = at \/ ~Linked(m.table, s)
           PROVE  ~Linked(new.table, s)
      <3>1. ~(LAST_SECTOR < Media)
        BY DEF LAST_SECTOR, Media
      <3> QED
        BY <2>9, <2>10, <3>1 DEF Linked
    <2> QED
      BY <2>1, <2>2, <2>4, <2>8, <2>10 DEF new, at, file
  <1> QED
    BY <1>4, <1>5

\* A text that is shorter than a sector, in a sector.
LEMMA ShortBuffer ==
  ASSUME NEW text, NEW length \in Lengths, length < BytesPerSector
  PROVE  LET sector == Buffer(text, length)[1] IN
         /\ Buffer(text, length) = <<sector>> /\ Rows_OK(sector)
         /\ sector = [k \in 1..SectorRows |-> sector[k]]
         /\ \A k \in 1..SectorRows : ~IsEntry(sector[k])
  <1> DEFINE unit(i, k) == IF (i - 1) * BytesPerSector + (k - 1) * RowBytes < length
                           THEN [text |-> text, part |-> (i - 1) * SectorRows + k]
                           ELSE Free
             sector(i) == [k \in 1..SectorRows |-> unit(i, k)]
             file == [i \in 1..1 |-> sector(i)]
  <1>1. length \div BytesPerSector = 0
    <2>1. BytesPerSector \in Nat \ {0} /\ length \in Nat
      BY Fat12Assumption, FileSystemAssumption DEF BytesPerSector
    <2> QED
      BY <2>1
  <1>2. 1 + (length \div BytesPerSector) = 1
    BY <1>1
  <1>3. Buffer(text, length) = file
    BY <1>2 DEF Buffer
  <1>4. \A k \in 1..SectorRows : ~IsEntry(unit(1, k))
    BY DEF IsEntry, Unused
  <1> HIDE DEF unit
  <1>5. /\ sector(1) = [k \in 1..SectorRows |-> sector(1)[k]]
        /\ \A k \in 1..SectorRows : ~IsEntry(sector(1)[k])
    BY <1>4
  <1> HIDE DEF sector
  <1>6. file = <<sector(1)>> /\ file[1] = sector(1)
    OBVIOUS
  <1>7. Rows_OK(sector(1))
    BY <1>5 DEF Rows_OK
  <1> HIDE DEF file
  <1> QED
    BY <1>3, <1>5, <1>6, <1>7

\* The step: the sector of the item holds the text, whatever sector of its
\* directory the entry is rewritten in, and were it the very same one.
LEMMA ShortWriteStored ==
  ASSUME FsIInv, NEW h \in Handles, NEW text \in Texts, NEW length \in Lengths,
         Write_File(h, text, length), ~fault', fault' \in BOOLEAN,
         length < BytesPerSector, handle[h].item.start # 0,
         Lba(handle[h].item.start) < DiskSectors
  PROVE  Read_Item(fat12', handle[h].item.start) = Buffer(text, length)
  <1> DEFINE item    == [handle[h].item EXCEPT !.length = length]
             start   == handle[h].item.start
             parent  == handle[h].parent
             freed   == Remove_Item_Data(fat12, item.start)
             buffer  == Buffer(text, length)
             sector  == buffer[1]
             written == Write_Item(freed, buffer, item.start, 0)
             sectors == Read_Item(written, parent)
             hits    == Slots(sectors, LAMBDA r : SameName(r, item))
             slot    == FirstSlot(hits)
             row     == sectors[slot[1]][slot[2]]
             new     == IF row = Free THEN Free ELSE [row EXCEPT !.length = length]
             listed  == Rewrite_Entry(written, parent, item, new)
  <1>1. fat12' = IF Listed(written, parent, item) THEN listed ELSE written
    BY ZenonT(40) DEF Write_File
  <1>2. /\ handle[h].item \in Entries /\ parent \in Sectors /\ Volume_OK(fat12)
        /\ length \in Nat
    BY FileSystemAssumption DEF FsIInv, Opened
  <1>3. item \in Entries /\ item.start = start /\ start \in Sectors /\ start # 0
    BY <1>2 DEF Entries
  <1> HIDE DEF item, parent
  <1>4. Volume_OK(freed)
    BY <1>2, RemoveDataOK
  <1>5. /\ buffer = <<sector>> /\ Rows_OK(sector)
        /\ sector = [k \in 1..SectorRows |-> sector[k]]
        /\ \A k \in 1..SectorRows : ~IsEntry(sector[k])
    BY ShortBuffer
  <1> HIDE DEF freed, buffer, sector, start
  <1>6. Find_Sector(freed.table, 0, start) = start /\ 0 + 1 \in 1..Len(Chain(freed.table, start))
    <2>1. Links_OK(freed.table)
      BY <1>4 DEF Volume_OK
    <2>2. Len(Chain(freed.table, start)) \in Nat \ {0} /\ Chain(freed.table, start)[1] = start
      BY <1>3, <2>1, ChainOK
    <2>3. 0 + 1 = 1
      OBVIOUS
    <2> QED
      BY <2>2, <2>3 DEF Find_Sector
  \* The text is in the sector, and the sector is the whole chain.
  <1>7. /\ Volume_OK(written) /\ ~Linked(written.table, start)
        /\ Sector_At(written, Lba(start)) = sector
    <2> DEFINE one == Write_Item(freed, <<sector>>, start, 0)
    <2>1. written = one
      BY <1>3, <1>5
    <2>2. Volume_OK(one)
      BY <1>3, <1>4, <1>5, OneSectorOK
    <2>3. Place(freed, start, 0) = Lba(start)
      BY <1>3, <1>6 DEF Place
    <2>4. Lba(start) \in Nat /\ Lba(start) < DiskSectors
      BY <1>3, LbaIn DEF start
    <2>5. /\ \A l \in Nat : Sector_At(one, l) =
               IF l = Place(freed, start, 0) /\ l < DiskSectors THEN sector
               ELSE Sector_At(freed, l)
          /\ ~Linked(one.table, Find_Sector(freed.table, 0, start))
      <3>1. Rows_OK(sector) /\ (start # 0 => 0 + 1 \in 1..Len(Chain(freed.table, start)))
        BY <1>5, <1>6
      <3> QED
        BY <1>3, <1>4, <3>1, OneWritten
    <2> HIDE DEF one, written
    <2> QED
      BY <1>6, <2>1, <2>2, <2>3, <2>4, <2>5
  <1> HIDE DEF written
  \* Rewriting the entry leaves both as they are.
  <1>8. ASSUME Listed(written, parent, item)
        PROVE  /\ Volume_OK(listed) /\ ~Linked(listed.table, start)
               /\ Sector_At(listed, Lba(start)) = sector
    <2> DEFINE i == slot[1]
               k == slot[2]
               changed == [sectors[i] EXCEPT ![k] = new]
    <2>1. hits # {}
      BY <1>8 DEF Listed
    <2>2. \A hit \in hits : /\ hit[1] \in DOMAIN sectors /\ hit[2] \in 1..SectorRows
                            /\ SameName(sectors[hit[1]][hit[2]], item)
      BY DEF Slots
    <2>3. /\ DOMAIN sectors = 1..(IF parent = 0 THEN RootSectors
                                  ELSE Len(Chain(written.table, parent)))
          /\ DOMAIN sectors \in SUBSET (Nat \ {0})
          /\ \A j \in DOMAIN sectors : Rows_OK(sectors[j])
      BY <1>2, <1>7, ReadOK
    <2>4. hits \in SUBSET (Nat \X Nat)
      <3> HIDE DEF sectors
      <3> QED
        BY <2>3 DEF Slots
    <2>5. slot \in hits
      <3> HIDE DEF hits
      <3> QED
        BY <2>1, <2>4, FirstSlotIn
    <2>6. i \in DOMAIN sectors /\ i \in Nat \ {0} /\ k \in 1..SectorRows /\ SameName(row, item)
      <3> HIDE DEF sectors, hits, slot
      <3> QED
        BY <2>2, <2>3, <2>5
    <2>7. listed = Write_Item(written, <<changed>>, parent, i - 1)
      BY DEF Rewrite_Entry
    <2> HIDE DEF slot, i, k, listed
    <2>8. (i - 1) + 1 = i
      BY <2>6
    <2>9. IsEntry(new) => new \in Entries
      <3>1. ~IsEntry(Free)
        BY DEF IsEntry, Unused
      <3>2. row = Free \/ row \in Entries
        BY <2>3, <2>6 DEF Rows_OK, SameName, i, k
      <3> HIDE DEF row
      <3>3. row \in Entries => [row EXCEPT !.length = length] \in Entries
        BY <1>2 DEF Entries
      <3> QED
        BY <3>1, <3>2, <3>3
    <2>10. Rows_OK(changed) /\ Volume_OK(listed)
      <3> HIDE DEF new, row
      <3>1. Rows_OK(sectors[i])
        BY <2>3, <2>6
      <3>2. Rows_OK(changed)
        BY <2>6, <2>9, <3>1, RowReplaced
      <3>3. Volume_OK(listed)
        BY <1>2, <1>7, <2>6, <2>7, <2>9, RowWritten
      <3> QED
        BY <3>2, <3>3
    <2>11. parent # 0 =>
             /\ (i - 1) + 1 \in 1..Len(Chain(written.table, parent))
             /\ Find_Sector(written.table, i - 1, parent) \in Sectors
             /\ sectors[i] = Sector_At(written, Lba(Find_Sector(written.table, i - 1, parent)))
      <3> SUFFICES ASSUME parent # 0
                   PROVE  /\ (i - 1) + 1 \in 1..Len(Chain(written.table, parent))
                          /\ Find_Sector(written.table, i - 1, parent) \in Sectors
                          /\ sectors[i] = Sector_At(written, Lba(Find_Sector(written.table, i - 1, parent)))
        OBVIOUS
      <3> DEFINE chain == Chain(written.table, parent)
      <3>1. i \in 1..Len(chain)
        BY <2>3, <2>6
      <3>2. sectors[i] = Sector_At(written, Lba(chain[i]))
        BY <3>1 DEF Read_Item
      <3>3. chain[i] \in Sectors
        <4>1. Links_OK(written.table)
          BY <1>7 DEF Volume_OK
        <4>2. \A j \in 1..Len(chain) : chain[j] \in Sectors
          BY <1>2, <4>1, ChainOK
        <4> QED
          BY <3>1, <4>2
      <3>4. Find_Sector(written.table, i - 1, parent) = chain[i]
        BY <2>8 DEF Find_Sector
      <3> HIDE DEF chain, sectors
      <3> QED
        BY <2>8, <3>1, <3>2, <3>3, <3>4 DEF chain
    <2> DEFINE place == Place(written, parent, i - 1)
    <2>12. /\ place \in Nat
           /\ \A l \in Nat : Sector_At(listed, l) =
                IF l = place /\ l < DiskSectors THEN changed ELSE Sector_At(written, l)
           /\ \A s \in Sectors \ {0} : ~Linked(written.table, s) => ~Linked(listed.table, s)
      <3> HIDE DEF changed
      <3> QED
        BY <1>2, <1>7, <2>7, <2>10, <2>11, OneWritten
    <2>13. Lba(start) \in Nat \ {0}
      <3>1. RootSectors \in Nat /\ 2 <= RootSectors /\ start \in Nat \ {0}
        BY <1>3, Sizes DEF Sectors
      <3> QED
        BY <3>1 DEF Lba
    \* In the same sector the only row it can take for the entry is a free one.
    <2>14. ASSUME place = Lba(start)  PROVE changed = sector
      <3>1. parent # 0
        BY <2>13, <2>14 DEF Place
      <3>2. sectors[i] = sector
        BY <1>7, <2>11, <2>14, <3>1 DEF Place
      <3>3. row = sector[k] /\ ~IsEntry(row)
        BY <1>5, <2>6, <3>2 DEF i, k
      <3>4. row = Free
        BY <2>6, <3>3 DEF SameName
      <3>5. changed = [sector EXCEPT ![k] = sector[k]]
        BY <3>2, <3>3, <3>4
      <3> HIDE DEF changed
      <3> QED
        BY <1>5, <2>6, <3>5
    <2> HIDE DEF changed, place
    <2>15. Sector_At(listed, Lba(start)) = sector
      BY <1>7, <2>12, <2>13, <2>14
    <2> QED
      BY <1>3, <1>7, <2>10, <2>12, <2>15
  <1> HIDE DEF listed
  <1>9. /\ Volume_OK(fat12') /\ ~Linked(fat12'.table, start)
        /\ Sector_At(fat12', Lba(start)) = sector
    BY <1>1, <1>7, <1>8
  <1>10. Read_Item(fat12', start) = <<sector>>
    <2> DEFINE chain == Chain(fat12'.table, start)
    <2>1. Links_OK(fat12'.table)
      BY <1>9 DEF Volume_OK
    <2>2. Len(chain) = 1 /\ chain[1] = start
      BY <1>3, <1>9, <2>1, ChainOfOne
    <2>3. Read_Item(fat12', start) = [j \in 1..Len(chain) |-> Sector_At(fat12', Lba(chain[j]))]
      BY <1>3 DEF Read_Item
    <2> HIDE DEF chain
    <2>4. \A j \in 1..1 : Sector_At(fat12', Lba(chain[j])) = sector
      BY <1>9, <2>2
    <2>5. Read_Item(fat12', start) = [j \in 1..1 |-> sector]
      BY <2>2, <2>3, <2>4
    <2> QED
      BY <2>5
  <1> QED
    BY <1>5, <1>10 DEF buffer, start

\* ShortWritesStored: what fits one sector is on the disk when the call is back.
THEOREM ShortWritesAlwaysStored ==
  FileSystem_Spec /\ [][RootWritesFit]_vars => ShortWritesStored
  <1>1. FsIInv /\ FsIInv' /\ [Next]_vars =>
          [\A h \in Handles, text \in Texts, length \in Lengths :
             (/\ Write_File(h, text, length) /\ ~fault'
              /\ length < BytesPerSector /\ handle[h].item.start # 0
              /\ Lba(handle[h].item.start) < DiskSectors)
                 => Read_Item(fat12', handle[h].item.start) = Buffer(text, length)]_vars
    <2> SUFFICES ASSUME FsIInv, FsIInv', NEW h \in Handles, NEW text \in Texts,
                        NEW length \in Lengths, Write_File(h, text, length), ~fault',
                        length < BytesPerSector, handle[h].item.start # 0,
                        Lba(handle[h].item.start) < DiskSectors
                 PROVE  Read_Item(fat12', handle[h].item.start) = Buffer(text, length)
      OBVIOUS
    <2>1. fault' \in BOOLEAN
      BY DEF FsIInv
    <2> QED
      BY <2>1, ShortWriteStored
  <1> QED
    BY <1>1, VolumeKept, PTL DEF FileSystem_Spec, ShortWritesStored
=============================================================================
