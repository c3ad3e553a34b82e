---------------------------- MODULE MCFileSystem ----------------------------
(***************************************************************************)
(* A volume with six sectors for data and two rows in a sector: an empty   *)
(* directory d and behind it a file f of two sectors.  The one sector of   *)
(* the root directory is full.                                             *)
(***************************************************************************)
EXTENDS FileSystem, TLC

Abs(names) == [abs |-> TRUE, names |-> names]
Rel(names) == [abs |-> FALSE, names |-> names]

MCPaths == {Abs(<<"d">>), Abs(<<"f">>), Abs(<<"d", "f">>), Abs(<<"d", "d">>),
            Abs(<<"d", "a.c">>), Rel(<<"f">>), Rel(<<"..">>), Rel(<<"..", "f">>)}

Old(k) == [text |-> "old", part |-> k]
File(name, dir, start, length) ==
    [name |-> name, dir |-> dir, start |-> start, length |-> length]

MCTable == (0 :> Media) @@ (1 :> LAST_SECTOR) @@ (2 :> LAST_SECTOR) @@ (3 :> 4)
            @@ (4 :> LAST_SECTOR) @@ (5 :> 0) @@ (6 :> 0) @@ (7 :> 0)
MCDisk == [l \in 0..7 |->
    CASE l = 0 -> <<File("d", TRUE, 2, 0), File("f", FALSE, 3, 5)>>
      [] l = 3 -> <<Old(1), Old(2)>>
      [] l = 4 -> <<Old(3), Free>>
      [] OTHER -> <<Free, Free>>]
MCImage == [table |-> MCTable, saved |-> MCTable, disk |-> MCDisk]
=============================================================================
