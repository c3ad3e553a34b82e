------------------------------- MODULE Fat12 --------------------------------
(***************************************************************************)
(* The FAT12 file system as the kernel sees it: the table in memory, the   *)
(* copy of it on the disk, the sectors, and the functions of               *)
(* src/src/kernel/fat12_functions.cpp and fat12_parts.cpp on them.  The    *)
(* three are one record m = [table, saved, disk], and a function that      *)
(* changes them returns the new record.                                    *)
(*                                                                         *)
(* A sector is a sequence of rows of 32 bytes, the size of a File_Entry.   *)
(* A row has never been used (Free), held an entry that was deleted        *)
(* (Deleted), holds an entry, or holds the bytes of a file.  What a sector *)
(* holds is not known from the sector: a file that is read as a directory  *)
(* has rows that match no name.                                            *)
(*                                                                         *)
(* Sectors of the disk are counted from the first one of the root          *)
(* directory (dir_start in the code).                                      *)
(***************************************************************************)
EXTENDS Naturals, Sequences, FiniteSets

CONSTANTS
    Free, Deleted,   \* FAT_DIRENT_NEVER_USED, FAT_DIRENT_DELETED
    SectorRows,      \* bytes_per_sector / sizeof(File_Entry): 16
    RowBytes,        \* sizeof(File_Entry): 32
    RootSectors,     \* root_directory_entries * 32 / bytes_per_sector: 14
    TableSize,       \* FAT_TABLE_LOGIC_SIZE: 3072
    DiskSectors,     \* sectors from the root directory to the disk's end
    NoName,          \* the name of a File_Entry that is all zero
    Garbled,         \* a name that no command line can spell
    ShortExtension   \* the names with an extension of one or two characters

ASSUME Fat12Assumption ==
    /\ {SectorRows, RowBytes, RootSectors, TableSize, DiskSectors} \subseteq Nat \ {0}
    /\ 2 <= RootSectors /\ RootSectors < TableSize /\ TableSize < 4080
    /\ RootSectors <= DiskSectors

LAST_SECTOR == 4095     \* 0xFFF
Media       == 4080     \* 0xFF0, the image's entry 0; no larger value is a link

---------------------------------------------------------------------------
(* Chains of sectors.                                                      *)

(* Mutant: the sector behind the free one is taken.                        *)
Find_Free_Sector_Behind(table) ==
    LET free == {s \in RootSectors..TableSize - 1 : table[s] = 0}
    IN  IF free = {} THEN 0
        ELSE 1 + CHOOSE s \in free : \A t \in free : s <= t

\* The first entry that is 0 behind the sectors the root directory would
\* have; 0 when the table has none.
Find_Free_Sector(table) ==
    LET free == {s \in RootSectors..TableSize - 1 : table[s] = 0}
    IN  IF free = {} THEN 0 ELSE CHOOSE s \in free : \A t \in free : s <= t

\* What Next_Sector returns; the sector it stores is table[s] either way.
Linked(table, s) == table[s] # 0 /\ table[s] < Media

\* The sectors a loop over Next_Sector visits from start, cut off when it
\* has made more steps than there are sectors.
Chain(table, start) ==
    LET visited[n \in 0..TableSize] ==
            IF n = 0 THEN <<start>>
            ELSE LET before == visited[n - 1]
                 IN  IF Linked(table, before[Len(before)])
                     THEN Append(before, table[before[Len(before)]])
                     ELSE before
    IN  visited[TableSize]

Find_Sector(table, num, start) == Chain(table, start)[num + 1]

SectorsOf(m, start) ==
    LET chain == Chain(m.table, start) IN {chain[i] : i \in 1..Len(chain)}

---------------------------------------------------------------------------
(* The disk.  A request that passes the end of the disk fails, and nobody  *)
(* looks at what Read_Sectors and Write_Sectors return.                    *)

BlankSector == [k \in 1..SectorRows |-> Free]

Lba(sector) == RootSectors + sector - 2

Sector_At(m, lba) == IF lba < DiskSectors THEN m.disk[lba] ELSE BlankSector

(* Mutant: the last sector of the disk is refused too.                     *)
Write_Sectors_Short_Of_End(m, sectors, lba) ==
    IF lba + Len(sectors) >= DiskSectors THEN m
    ELSE [m EXCEPT !.disk = [l \in DOMAIN @ |->
            IF l \in lba..lba + Len(sectors) - 1 THEN sectors[l - lba + 1] ELSE @[l]]]

Write_Sectors(m, sectors, lba) ==
    IF lba + Len(sectors) > DiskSectors THEN m
    ELSE [m EXCEPT !.disk = [l \in DOMAIN @ |->
            IF l \in lba..lba + Len(sectors) - 1 THEN sectors[l - lba + 1] ELSE @[l]]]

Save_FAT12_Table(m) == [table |-> m.table, saved |-> m.table, disk |-> m.disk]

\* All sectors of the item that starts at start, which is how every caller
\* but File_Handle::Read asks for them; start 0 is the root directory.
Read_Item(m, start) ==
    IF start = 0
    THEN [i \in 1..RootSectors |-> Sector_At(m, i - 1)]
    ELSE LET chain == Chain(m.table, start)
         IN  [i \in 1..Len(chain) |-> Sector_At(m, Lba(chain[i]))]

Remove_Item_Data(m, start) ==
    LET freed == SectorsOf(m, start)
    IN  [m EXCEPT !.table = [s \in DOMAIN @ |-> IF s \in freed THEN 0 ELSE @[s]]]

\* One turn of the loop of Write_Item.  At the end of the chain Next_Sector
\* has already replaced the position by what the table holds there, so that
\* is where the number of the new sector is written.
Write_Next(w, sector) ==
    LET table == w.m.table
        next  == table[w.at]
        fresh == Find_Free_Sector(table)
    IN  IF Linked(table, w.at)
        THEN [m  |-> Write_Sectors(w.m, <<sector>>, Lba(next)), at |-> next]
        ELSE [m  |-> Write_Sectors([w.m EXCEPT !.table[next] = fresh],
                                   <<sector>>, Lba(fresh)),
              at |-> fresh]

\* Writes the sectors of file over those of the item at start, from the
\* num-th on; the one written last becomes the end of the chain.  The root
\* directory (start 0) is always written from its first sector on.  The
\* code's third case, num == npos, is only used for a single sector, where
\* it is num = 0.
Write_Item(m, file, start, num) ==
    LET count == Len(file)
        first == Find_Sector(m.table, num, start)
        w[n \in 1..count] ==
            IF n = 1 THEN [m |-> Write_Sectors(m, <<file[1]>>, Lba(first)), at |-> first]
            ELSE Write_Next(w[n - 1], file[n])
        end   == w[count]
    IN  Save_FAT12_Table(
            IF start = 0
            THEN Write_Sectors(
                    [m EXCEPT !.table = [s \in DOMAIN @ |->
                        IF s = count THEN LAST_SECTOR
                        ELSE IF s < count /\ @[s] = 0 THEN s + 1 ELSE @[s]]],
                    file, 0)
            ELSE [end.m EXCEPT !.table[end.at] = LAST_SECTOR])

---------------------------------------------------------------------------
(* Directories.                                                            *)

NoItem == [name |-> NoName, dir |-> FALSE, start |-> 0, length |-> 0]
Root   == [NoItem EXCEPT !.dir = TRUE]

Unused(row) == row \in {Free, Deleted}

IsEntry(row) == ~Unused(row) /\ "name" \in DOMAIN row

Slots(sectors, Test(_)) ==
    {slot \in (DOMAIN sectors) \X (1..SectorRows) : Test(sectors[slot[1]][slot[2]])}

\* The order of the two loops over sectors and rows.
FirstSlot(slots) ==
    CHOOSE a \in slots : \A b \in slots :
        a[1] < b[1] \/ (a[1] = b[1] /\ a[2] <= b[2])

Is_Directory_Empty(m, item) ==
    item.dir => Slots(Read_Item(m, item.start), LAMBDA row : ~Unused(row)) = {}

\* One component of a path: w is the walk so far.
Component(m, w, name) ==
    LET sectors == Read_Item(m, w.dir)
        hits    == Slots(sectors, LAMBDA row : IsEntry(row) /\ row.name = name)
        slot    == FirstSlot(hits)
        entry   == sectors[slot[1]][slot[2]]
    IN  IF hits = {} THEN [w EXCEPT !.found = FALSE]
        ELSE [w EXCEPT !.dir = entry.start, !.item = entry, !.found = TRUE,
                       !.path = Append(@, entry.name)]

\* A file on the way, and a missing name that is not the last, are errors.
Step_Down(m, v, name, last) ==
    IF v.error \/ name = ".." THEN v
    ELSE IF v.found /\ ~v.item.dir THEN [v EXCEPT !.error = TRUE, !.found = FALSE]
    ELSE LET next == Component(m, v, name)
         IN  [next EXCEPT !.error = ~next.found /\ ~last]

Walk_Down(m, w, names) ==
    LET walk[i \in 0..Len(names)] ==
            IF i = 0 THEN w
            ELSE Step_Down(m, walk[i - 1], names[i], i = Len(names))
    IN  walk[Len(names)]

\* The loop without these tests.
Walk_Known(m, w, names) ==
    LET walk[i \in 0..Len(names)] ==
            IF i = 0 THEN w ELSE Component(m, walk[i - 1], names[i])
    IN  walk[Len(names)]

\* wd is a process's working directory: its path and its first sector.  A
\* path that goes up is resolved from the root along the names of wd, where
\* a missing name is passed over; any other relative path starts at the
\* sector of wd.  found is what the caller's variable holds before the call:
\* TRUE makes the first component an error, because the item is no directory
\* yet, unless there are names of wd to go along before it.  error is
\* ERROR_FIND, and the result is a null pointer.
Lookup(m, wd, asked, found) ==
    LET path  == IF asked.names = <<>> THEN [abs |-> TRUE, names |-> wd.path] ELSE asked
        ups   == Cardinality({i \in 1..Len(path.names) : path.names[i] = ".."})
        depth == Len(wd.path)
        start == [dir |-> 0, path |-> <<>>, item |-> NoItem, found |-> found, error |-> FALSE]
    IN  IF \/ asked = [abs |-> TRUE, names |-> <<>>]
           \/ asked = [abs |-> FALSE, names |-> <<".">>]
           \/ path.names = <<>>
        THEN [start EXCEPT !.item = Root, !.found = TRUE]
        ELSE IF ups > depth THEN [start EXCEPT !.error = TRUE, !.found = FALSE]
        ELSE IF ups = depth /\ Len(path.names) = ups
        THEN [start EXCEPT !.item = Root, !.found = TRUE]
        ELSE Walk_Down(m,
                IF path.abs THEN start
                ELSE IF ups > 0
                THEN Walk_Known(m, start, SubSeq(wd.path, 1, depth - ups))
                ELSE [start EXCEPT !.dir = wd.sector, !.path = wd.path],
                path.names)

\* The callers' first lookup.
Get_Item(m, wd, asked) == Lookup(m, wd, asked, FALSE)

IsRoot(got) == got.found /\ got.path = <<>>

\* The directory the callers take for the parent of what they found, or for
\* the one to create in: looked up again, by its path from the root.
ParentPath(got) ==
    [abs |-> TRUE,
     names |-> IF got.found /\ ~IsRoot(got)
               THEN SubSeq(got.path, 1, Len(got.path) - 1)
               ELSE got.path]

Parent(m, wd, got) == Get_Item(m, wd, ParentPath(got))

(* Mutant: the new sector is linked back to the directory, not ended.      *)
Link_Sector_Back(m, dir, more) ==
    Save_FAT12_Table([m EXCEPT !.table[dir] = more, !.table[more] = dir])

\* The new sector goes behind the directory's first one, whatever was there.
Link_Sector(m, dir, more) ==
    Save_FAT12_Table([m EXCEPT !.table[dir] = more, !.table[more] = LAST_SECTOR])

\* The names an entry may get.  The rest of a short extension is never set,
\* the padding goes into the name: what the stack held there ends the
\* extension where it should or makes it longer.
Stored(name) == {name} \cup (IF name \in ShortExtension THEN {Garbled} ELSE {})

\* Create_Item once it knows that the name is new and what it will be stored
\* as, for the directory whose first sector is dir.  A full disk gives
\* sector 0.
Create_Item(m, dir, name, isDir) ==
    LET item    == [name |-> name, dir |-> isDir,
                    start |-> Find_Free_Sector(m.table), length |-> 0]
        blanked == Write_Item(m, <<BlankSector>>, item.start, 0)
        marked  == Save_FAT12_Table([blanked EXCEPT !.table[item.start] = LAST_SECTOR])
        sectors == Read_Item(marked, dir)
        slot    == FirstSlot(Slots(sectors, Unused))
        more    == Find_Free_Sector(marked.table)
        grown   == Write_Item(marked, <<[BlankSector EXCEPT ![1] = item]>>, more, 0)
    IN  IF Slots(sectors, Unused) # {}
        THEN Write_Item(marked, <<[sectors[slot[1]] EXCEPT ![slot[2]] = item]>>,
                        dir, slot[1] - 1)
        ELSE Link_Sector(grown, dir, more)

\* The rows Compare_Filename takes for the item; a File_Entry that is all
\* zero is the same as a row that was never used.
SameName(row, item) ==
    IF row = Free THEN item.name = NoName ELSE IsEntry(row) /\ row.name = item.name

\* Replaces the first row of directory dir that matches the item.
Rewrite_Entry(m, dir, item, row) ==
    LET sectors == Read_Item(m, dir)
        hits    == Slots(sectors, LAMBDA r : SameName(r, item))
        slot    == FirstSlot(hits)
    IN  Write_Item(m, <<[sectors[slot[1]] EXCEPT ![slot[2]] = row]>>, dir, slot[1] - 1)

Listed(m, dir, item) ==
    Slots(Read_Item(m, dir), LAMBDA row : SameName(row, item)) # {}

(* Mutant: the entry is marked in a copy that is not written back.         *)
Remove_Item_Entry_Kept(m, dir, item) ==
    IF Listed(m, dir, item)
    THEN Save_FAT12_Table(Remove_Item_Data(m, item.start))
    ELSE m

(* Mutant: the table is not saved after the sectors were freed.            *)
Remove_Item_Unsaved(m, dir, item) ==
    IF Listed(m, dir, item)
    THEN Remove_Item_Data(Rewrite_Entry(m, dir, item, Deleted), item.start)
    ELSE m

\* The parent as Remove_Item looks it up: found is still TRUE, so that there
\* is none but the root directory, and the null pointer is followed.
Remove_Parent(m, wd, got) == Lookup(m, wd, ParentPath(got), TRUE)

\* Remove_Item once it knows that the item may go: the entry first, then
\* the sectors.
Remove_Item(m, dir, item) ==
    IF Listed(m, dir, item)
    THEN Save_FAT12_Table(
            Remove_Item_Data(Rewrite_Entry(m, dir, item, Deleted), item.start))
    ELSE m
=============================================================================
