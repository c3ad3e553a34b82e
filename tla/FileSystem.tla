----------------------------- MODULE FileSystem -----------------------------
(***************************************************************************)
(* The file calls of the kernel (src/src/kernel/io.cpp, io_handles.cpp) on *)
(* the FAT12 volume of module Fat12, made by processes that each have a    *)
(* working directory, through handles that each keep a copy of the         *)
(* directory entry they were opened on.                                    *)
(*                                                                         *)
(* Open_File, Write_File and Delete_File hold io_mutex from their first to *)
(* their last step, so each is one step here.  Set_Working_Dir takes       *)
(* another mutex; it reads one directory after the other and is taken for  *)
(* one step too.                                                           *)
(***************************************************************************)
EXTENDS Fat12

CONSTANTS
    Procs, Handles,
    Paths,       \* the paths the programs pass: [abs, names]
    Texts,       \* what a program writes,
    Lengths,     \* and how many bytes of it
    Image,       \* the volume the system boots from: [table, saved, disk]
    MaxCalls     \* file calls in a behaviour, closing and restarts not counted (BOUND)

VARIABLES
    fat12,         \* the volume, see Fat12
    working_dir,   \* [path, sector] of each process
    handle,        \* the open handles: [item, parent, kind]
    fault,         \* a null pointer was followed: the whole simulator is gone
    calls          \* the calls counted by MaxCalls

vars == <<fat12, working_dir, handle, fault, calls>>

---------------------------------------------------------------------------
(* What a volume is, as the formatter leaves one and every call keeps it.  *)

Sectors == 0..TableSize - 1
Names   == {NoName, Garbled} \cup STRING
Entries == [name : Names, dir : BOOLEAN, start : Sectors, length : Nat]

\* A row that is taken for an entry is one.
Rows_OK(sector) ==
    /\ sector = [k \in 1..SectorRows |-> sector[k]]
    /\ \A k \in 1..SectorRows : IsEntry(sector[k]) => sector[k] \in Entries

\* No set of sectors has all its links inside: there is no loop.
No_Loop(table) ==
    \A T \in SUBSET (RootSectors..TableSize - 1) :
        T # {} => \E s \in T : ~(Linked(table, s) /\ table[s] \in T)

\* A link leads to a sector of the table: from those the root directory
\* would have to a later one, from the others to one of the others.
Links_OK(table) ==
    /\ table \in [Sectors -> 0..LAST_SECTOR]
    /\ \A s \in Sectors : Linked(table, s) =>
        /\ table[s] < TableSize
        /\ IF s < RootSectors THEN s < table[s] ELSE RootSectors <= table[s]
    /\ No_Loop(table)

Volume_OK(m) ==
    /\ m = [table |-> m.table, saved |-> m.saved, disk |-> m.disk]
    /\ Links_OK(m.table) /\ Links_OK(m.saved)
    /\ m.disk = [lba \in 0..DiskSectors - 1 |-> m.disk[lba]]
    /\ \A lba \in 0..DiskSectors - 1 : Rows_OK(m.disk[lba])

ASSUME FileSystemAssumption ==
    /\ Lengths \subseteq Nat \ {0} /\ MaxCalls \in Nat
    /\ Image.saved = Image.table /\ Volume_OK(Image)
    /\ \A p \in Paths : p.abs \in BOOLEAN /\ p.names \in Seq(STRING)

Closed == [item |-> NoItem, parent |-> 0, kind |-> "closed"]
AtRoot == [path |-> <<>>, sector |-> 0]

BytesPerSector == SectorRows * RowBytes

(* Mutant: the rest of the last sector is left out instead of zeroed.      *)
Buffer_Unpadded(text, length) ==
    [i \in 1..1 + (length \div BytesPerSector) |->
        [k \in {k \in 1..SectorRows : (i - 1) * BytesPerSector + (k - 1) * RowBytes < length} |->
            [text |-> text, part |-> (i - 1) * SectorRows + k]]]

\* The sectors File_Handle::Write makes of a text: one more than the whole
\* sectors in it, and zero behind the text.
Buffer(text, length) ==
    [i \in 1..1 + (length \div BytesPerSector) |->
        [k \in 1..SectorRows |->
            IF (i - 1) * BytesPerSector + (k - 1) * RowBytes < length
            THEN [text |-> text, part |-> (i - 1) * SectorRows + k]
            ELSE Free]]

Init ==
    /\ fat12 = Image
    /\ working_dir = [p \in Procs |-> AtRoot]
    /\ handle = [h \in Handles |-> Closed]
    /\ fault = FALSE
    /\ calls = 0

---------------------------------------------------------------------------
\* Only one sector of the root directory is used (BOUND): an entry of a
\* later sector is written over the first one.
RootFits(parent) ==
    parent = 0 => \E k \in 1..SectorRows : Unused(Sector_At(fat12, 0)[k])

Called ==
    /\ ~fault
    /\ calls < MaxCalls /\ calls' = calls + 1

\* fmOpen_Always: the item has to exist and be of the kind asked for.
Open_Existing(p, h, path, dir) ==
    LET got    == Get_Item(fat12, working_dir[p], path)
        parent == Parent(fat12, working_dir[p], got)
    IN  /\ Called /\ handle[h] = Closed
        /\ ~got.error
        /\ IF parent.error THEN fault' = TRUE /\ UNCHANGED handle
           ELSE /\ got.found /\ got.item.dir = dir
                /\ handle' = [handle EXCEPT ![h] =
                        [item |-> got.item, parent |-> parent.item.start,
                         kind |-> IF dir THEN "dir" ELSE "file"]]
                /\ UNCHANGED fault
        /\ UNCHANGED <<fat12, working_dir>>

\* Any other flag: an item that exists is opened as a file whatever it is;
\* one that does not is created.  A created item, and an existing one asked
\* for as a directory, is looked up for the handle with found as the first
\* lookup left it: a Directory_Handle for an item that exists has none.
Open_Or_Create(p, h, path, dir) ==
    \E stored \in IF path.names = <<>> THEN {NoName} ELSE Stored(path.names[Len(path.names)]) :
    LET wd     == working_dir[p]
        got    == Get_Item(fat12, wd, path)
        parent == Parent(fat12, wd, got)
        m      == IF got.found \/ stored \in {".", ".."} THEN fat12
                  ELSE Create_Item(fat12, parent.item.start, stored, dir)
        new    == IF got.found /\ ~dir THEN got ELSE Lookup(m, wd, path, got.found)
    IN  /\ Called /\ handle[h] = Closed
        /\ ~got.error
        /\ IF parent.error THEN fault' = TRUE /\ UNCHANGED <<fat12, handle>>
           ELSE /\ ~got.found => RootFits(parent.item.start)
                /\ fat12' = m
                /\ handle' = [handle EXCEPT ![h] =
                        [item |-> new.item, parent |-> parent.item.start,
                         kind |-> IF dir THEN "dir" ELSE IF new.error THEN "null" ELSE "file"]]
                /\ UNCHANGED fault
        /\ UNCHANGED working_dir

\* File_Handle::Write: the old data is freed, the new written from the
\* item's first sector on, and the length put into the directory entry that
\* now has the item's name.  The handle's own copy gets the length too.
Write_File(h, text, length) ==
    LET item    == [handle[h].item EXCEPT !.length = length]
        parent  == handle[h].parent
        written == Write_Item(Remove_Item_Data(fat12, item.start),
                              Buffer(text, length), item.start, 0)
        sectors == Read_Item(written, parent)
        slot    == FirstSlot(Slots(sectors, LAMBDA row : SameName(row, item)))
        row     == sectors[slot[1]][slot[2]]
    IN  /\ Called
        /\ \/ /\ handle[h].kind = "null"
              /\ fault' = TRUE
              /\ UNCHANGED <<fat12, handle>>
           \/ /\ handle[h].kind = "file"
              /\ handle' = [handle EXCEPT ![h].item = item]
              /\ fat12' = IF Listed(written, parent, item)
                          THEN Rewrite_Entry(written, parent, item,
                                   IF row = Free THEN Free ELSE [row EXCEPT !.length = length])
                          ELSE written
              /\ UNCHANGED fault
        /\ UNCHANGED working_dir

Close_Handle(h) ==
    /\ ~fault /\ handle[h] # Closed
    /\ handle' = [handle EXCEPT ![h] = Closed]
    /\ UNCHANGED <<fat12, working_dir, fault, calls>>

Delete_File(p, path) ==
    LET wd     == working_dir[p]
        got    == Get_Item(fat12, wd, path)
        parent == Remove_Parent(fat12, wd, got)
    IN  /\ Called
        /\ got.found /\ ~IsRoot(got)
        /\ Is_Directory_Empty(fat12, got.item)
        /\ IF parent.error THEN fault' = TRUE /\ UNCHANGED fat12
           ELSE /\ fat12' = Remove_Item(fat12, parent.item.start, got.item)
                /\ UNCHANGED fault
        /\ UNCHANGED <<working_dir, handle>>

\* Move_To_Dir.
Set_Working_Dir(p, path) ==
    LET got == Get_Item(fat12, working_dir[p], path)
    IN  /\ Called
        /\ got.found /\ got.item.dir
        /\ working_dir' = [working_dir EXCEPT ![p] =
                [path |-> got.path, sector |-> got.item.start]]
        /\ UNCHANGED <<fat12, handle, fault>>

\* The simulator is left, or has crashed, and is started again: Init_FAT12
\* reads the table from the disk.
Restart ==
    /\ fat12' = [table |-> fat12.saved, saved |-> fat12.saved, disk |-> fat12.disk]
    /\ working_dir' = [p \in Procs |-> AtRoot]
    /\ handle' = [h \in Handles |-> Closed]
    /\ fault' = FALSE
    /\ UNCHANGED calls

Next ==
    \/ \E p \in Procs, path \in Paths :
        \/ Delete_File(p, path)
        \/ Set_Working_Dir(p, path)
        \/ \E h \in Handles, dir \in BOOLEAN :
            Open_Existing(p, h, path, dir) \/ Open_Or_Create(p, h, path, dir)
    \/ \E h \in Handles :
        Close_Handle(h) \/ \E text \in Texts, length \in Lengths : Write_File(h, text, length)
    \/ Restart

FileSystem_Spec == Init /\ [][Next]_vars

---------------------------------------------------------------------------
(* What can be reached from the root directory.                            *)

\* The first sectors of the directories, level by level.
Directories(m) ==
    LET Inside(d) ==
            LET sectors == Read_Item(m, d) IN
            {sectors[slot[1]][slot[2]].start :
                slot \in Slots(sectors, LAMBDA row : IsEntry(row) /\ row.dir)}
        at[n \in 0..TableSize] ==
            IF n = 0 THEN [all |-> {0}, last |-> {0}]
            ELSE LET above == at[n - 1]
                     below == UNION {Inside(d) : d \in above.last} \ above.all
                 IN  [all |-> above.all \cup below, last |-> below]
    IN  at[TableSize].all

\* The entries in them, each with the place it is at.
Live(m) ==
    UNION {LET sectors == Read_Item(m, d) IN
           {[dir |-> d, slot |-> slot, item |-> sectors[slot[1]][slot[2]]] :
                slot \in Slots(sectors, IsEntry)}
           : d \in Directories(m)}

\* Entry 0 of the table still is what the image put there.  The calls below
\* change it when they go wrong: a file longer than a sector, a full disk.
Intact(m) == m.table[0] = Media

\* The table holds 12 bit values only, and the disk whole sectors only,
\* whatever Write_Item was given to write: a partial sector would be read
\* beyond its end.
FsTypeOK ==
    /\ fat12.table \in [0..TableSize - 1 -> 0..LAST_SECTOR]
    /\ fat12.saved \in [0..TableSize - 1 -> 0..LAST_SECTOR]
    /\ DOMAIN fat12.disk = 0..DiskSectors - 1
    /\ \A lba \in DOMAIN fat12.disk : DOMAIN fat12.disk[lba] = 1..SectorRows
    /\ DOMAIN working_dir = Procs /\ DOMAIN handle = Handles
    /\ \A h \in Handles : handle[h].kind \in {"closed", "file", "dir", "null"}
    /\ fault \in BOOLEAN

\* Every loop over Next_Sector comes to an end, whatever calls were made:
\* Get_Sectors_Count and Remove_Item_Data have no other bound, and run with
\* io_mutex held.
ChainsEnd ==
    \A s \in 0..TableSize - 1 :
        LET chain == Chain(fat12.table, s) IN ~Linked(fat12.table, chain[Len(chain)])

\* The table on the disk is the one in memory whenever no call is at work, so
\* a restart frees no sector that is in use and keeps none that was freed.
TableSaved == fat12.saved = fat12.table

\* No sector belongs to two items of the directory tree, and none of theirs
\* is free for the next file: not when directories are cut short, handles
\* outlive their files, or a directory is made where a file was.
OwnedOnce ==
    Intact(fat12) =>
        LET live == {l \in Live(fat12) : l.item.start # 0} IN
        /\ \A l \in live : \A s \in SectorsOf(fat12, l.item.start) : fat12.table[s] # 0
        /\ \A l1, l2 \in live :
            l1 # l2 => SectorsOf(fat12, l1.item.start) \cap SectorsOf(fat12, l2.item.start) = {}

\* No process stands in a directory whose name is gone or a file's by now.
HomesStand ==
    \A p \in Procs :
        Get_Item(fat12, AtRoot, [abs |-> TRUE, names |-> working_dir[p].path]).item.dir

\* A call for one file leaves what is in the others: a file that is at its
\* place before and after the call has the same data, unless a handle takes
\* one of its sectors for its item's or its item's directory.
OthersKept ==
    [][Intact(fat12') /\ HomesStand =>
        \A l \in Live(fat12) \cap Live(fat12') :
            \/ l.item.dir
            \/ \E h \in Handles :
                {handle[h].item.start, handle[h].parent} \cap SectorsOf(fat12, l.item.start) # {}
            \/ Read_Item(fat12', l.item.start) = Read_Item(fat12, l.item.start)]_vars

\* Write_File reports that all bytes were written, and they are what the
\* chain of the item now holds (api.h:46).
WrittenIsStored ==
    [][\A h \in Handles, text \in Texts, length \in Lengths :
        Write_File(h, text, length) /\ ~fault'
            => Read_Item(fat12', handle[h].item.start) = Buffer(text, length)]_vars

\* The same for what fits one sector, if the item's sector is on the disk:
\* the table has entries for some that are not.
ShortWritesStored ==
    [][\A h \in Handles, text \in Texts, length \in Lengths :
        (/\ Write_File(h, text, length) /\ ~fault'
         /\ length < BytesPerSector /\ handle[h].item.start # 0
         /\ Lba(handle[h].item.start) < DiskSectors)
            => Read_Item(fat12', handle[h].item.start) = Buffer(text, length)]_vars
=============================================================================
