------------------------------ MODULE Channel ------------------------------
(***************************************************************************)
(* What a pipe promises to the two programs at its ends: a bounded queue   *)
(* of bytes.  Every byte put in comes out once and in order, no more than  *)
(* Capacity of them are under way, and the end of the file is reported     *)
(* only when the input is closed and everything has come out.              *)
(***************************************************************************)
EXTENDS Naturals, Sequences

CONSTANT Capacity    \* how many bytes the pipe holds

VARIABLES sent,      \* every byte put in, in order
          received,  \* every byte taken out, in order
          closed,    \* nothing more will be put in
          ended      \* the reader was told so

channel_vars == <<sent, received, closed, ended>>

Channel_Init == sent = <<>> /\ received = <<>>
                /\ closed = FALSE /\ ended = FALSE

(* One byte more is sent, whichever it is.                                 *)
Send == /\ ~closed /\ Len(sent) < Len(received) + Capacity
        /\ Len(sent') = Len(sent) + 1 /\ SubSeq(sent', 1, Len(sent)) = sent
        /\ UNCHANGED <<received, closed, ended>>

Receive == /\ ~ended /\ Len(received) < Len(sent)
           /\ received' = Append(received, sent[Len(received) + 1])
           /\ UNCHANGED <<sent, closed, ended>>

Close_Input == closed' = TRUE /\ UNCHANGED <<sent, received, ended>>

End_Of_File == /\ closed /\ received = sent
               /\ ended' = TRUE
               /\ UNCHANGED <<sent, received, closed>>

Channel_Next == Send \/ Receive \/ Close_Input \/ End_Of_File

Channel_Spec == Channel_Init /\ [][Channel_Next]_channel_vars
=============================================================================
