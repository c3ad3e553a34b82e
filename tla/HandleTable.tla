----------------------------- MODULE HandleTable -----------------------------
(***************************************************************************)
(* The kernel's table of handles (src/src/kernel/handles.cpp): a map from  *)
(* 16 bit numbers to objects, and Last_Handle, the number given out last.  *)
(* Each function holds Handles_Guard from its first to its last line, so   *)
(* each is one step.                                                       *)
(*                                                                         *)
(* held and issued are history: the number the opener of an object was     *)
(* given, and how far Last_Handle would have come without its wrap.        *)
(***************************************************************************)
EXTENDS Naturals

CONSTANTS
    Space,      \* the number of values of a THandle: 65536
    MaxStep,    \* the largest of the random steps: 6
    Objects,    \* what a handle may stand for
    NoObject    \* INVALID_HANDLE_VALUE

ASSUME HandleAssumption ==
    /\ Space \in Nat \ {0, 1} /\ MaxStep \in Nat \ {0} /\ MaxStep < Space
    /\ NoObject \notin Objects

VARIABLES
    Handles, Last_Handle,
    held, issued

table_vars == <<Handles, Last_Handle, held, issued>>

Numbers == 0..Space - 1

Invalid_Handle == Space - 1     \* static_cast<THandle>(-1)

Unheld == Space                 \* no number: the object was not opened, or is closed

HandleTable_Init ==
    /\ Handles = [n \in Numbers |-> NoObject]
    /\ Last_Handle = 0
    /\ held = [o \in Objects |-> Unheld]
    /\ issued = 0

Resolve_kiv_os_Handle(n) == Handles[n]

(* Mutant: the number is not remembered, every search starts from 0.       *)
Convert_Native_Handle_Forgetful(o, step) ==
    LET n == (Last_Handle + step) % Space
    IN  /\ Handles' = IF Handles[n] = NoObject THEN [Handles EXCEPT ![n] = o] ELSE Handles
        /\ UNCHANGED Last_Handle
        /\ held' = [held EXCEPT ![o] = n]
        /\ issued' = issued + step

\* std::map::insert keeps what a number already stands for, and the caller
\* gets the number all the same.
Convert_Native_Handle(o, step) ==
    LET n == (Last_Handle + step) % Space
    IN  /\ Handles' = IF Handles[n] = NoObject THEN [Handles EXCEPT ![n] = o] ELSE Handles
        /\ Last_Handle' = n
        /\ held' = [held EXCEPT ![o] = n]
        /\ issued' = issued + step

\* Nothing happens when the number stands for nothing.
Remove_Handle(n) ==
    /\ Handles' = [Handles EXCEPT ![n] = NoObject]
    /\ held' = [o \in Objects |-> IF held[o] = n THEN Unheld ELSE held[o]]
    /\ UNCHANGED <<Last_Handle, issued>>

\* The callers: anybody opens an object nobody has open, and removes any
\* number, an old one too.
HandleTable_Next ==
    \/ \E o \in Objects, step \in 1..MaxStep :
        held[o] = Unheld /\ Convert_Native_Handle(o, step)
    \/ \E n \in Numbers : Remove_Handle(n)

HandleTable_Spec == HandleTable_Init /\ [][HandleTable_Next]_table_vars

---------------------------------------------------------------------------
HandleTypeOK ==
    /\ Handles \in [Numbers -> Objects \cup {NoObject}]
    /\ Last_Handle \in Numbers
    /\ held \in [Objects -> Numbers \cup {Unheld}]
    /\ issued \in Nat

(* Until Last_Handle comes near its 16 bits, whoever opened an object and  *)
(* was given a number reaches that object with it and no other, and the    *)
(* number is neither 0, which Exit takes for "no handle", nor 65535, which *)
(* the programs take for an error.  Nothing else keeps two opens apart.    *)
HandlesNameObjects ==
    issued < Invalid_Handle =>
        \A o \in Objects : held[o] # Unheld =>
            /\ Handles[held[o]] = o
            /\ held[o] \notin {0, Invalid_Handle}
=============================================================================
