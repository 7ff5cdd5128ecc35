----------------------------- MODULE UartQueues -----------------------------
(***************************************************************************)
(* What the echo program is: two bounded queues and a pair of hands that   *)
(* carry bytes from one to the other, one at a time.                       *)
(***************************************************************************)
EXTENDS Integers, Sequences

CONSTANTS Value, Capacity

VARIABLES in, hand, out

Arrive == Len(in) < Capacity /\ \E b \in Value : in' = Append(in, b) /\ UNCHANGED <<hand, out>>
Take == in # <<>> /\ hand = <<>> /\ hand' = <<Head(in)>> /\ in' = Tail(in) /\ UNCHANGED out
Put ==
  /\ hand # <<>> /\ Len(out) < Capacity /\ UNCHANGED in
  /\ out' = Append(out, Head(hand)) /\ hand' = Tail(hand)
(* There is no room: the byte is dropped. *)
Drop == hand # <<>> /\ Len(out) = Capacity /\ hand' = Tail(hand) /\ UNCHANGED <<in, out>>
Send == out # <<>> /\ out' = Tail(out) /\ UNCHANGED <<in, hand>>

Init == in = <<>> /\ hand \in Seq(Value) /\ out = <<>>
Next == Arrive \/ Take \/ Put \/ Drop \/ Send
Spec == Init /\ [][Next]_<<in, hand, out>>
=============================================================================
