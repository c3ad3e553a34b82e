------------------------ MODULE MCProcessController ------------------------
(***************************************************************************)
(* The process controller under arbitrary callers, on a small instance.    *)
(***************************************************************************)
EXTENDS ProcessController

(* Two handles in either order, enough for a wait that returns early after *)
(* it registered with the first, and one handle twice for a wait for one.  *)
MCArrays == {<<2, 3>>, <<3, 2>>, <<3, 3>>}
=============================================================================
