----------------------------- MODULE ByteStream -----------------------------
(***************************************************************************)
(* What one direction of a serial driver promises: characters are taken    *)
(* from what the sender still has to hand over, kept in order, and given   *)
(* to the receiver in order, none lost, none twice.                        *)
(***************************************************************************)
EXTENDS Sequences, Integers

CONSTANT Char

VARIABLES
  offered,          \* what the sender has still to hand over
  transit,          \* what has been accepted and not been delivered
  received          \* what the receiver got by its last request

stream == <<offered, transit, received>>

Init == offered \in Seq(Char) /\ transit = <<>> /\ received = <<>>

(* The sender comes with something new, or goes with what was not accepted. *)
Offer == offered' \in Seq(Char) /\ UNCHANGED <<transit, received>>

Accept(n) ==
  /\ transit' = transit \o SubSeq(offered, 1, n)
  /\ offered' = SubSeq(offered, n + 1, Len(offered))
  /\ UNCHANGED received

(* The receiver gets more within the same request, or asks anew. *)
Deliver(n) ==
  /\ \E before \in {<<>>, received} : received' = before \o SubSeq(transit, 1, n)
  /\ transit' = SubSeq(transit, n + 1, Len(transit))
  /\ UNCHANGED offered

Request == received' = <<>> /\ UNCHANGED <<offered, transit>>

Next ==
  \/ Offer \/ Request
  \/ \E n \in 1 .. Len(offered) : Accept(n)
  \/ \E n \in 1 .. Len(transit) : Deliver(n)

Spec == Init /\ [][Next]_stream

(* A sender that is not seen before its characters are under way. *)
Send == \E c \in Char : transit' = Append(transit, c) /\ UNCHANGED <<offered, received>>

OpenSpec == Init /\ [][Next \/ Send]_stream
=============================================================================
