------------------------------ MODULE RtosFifo ------------------------------
(***************************************************************************)
(* What queue.h promises of a queue that holds items: a bounded sequence;  *)
(* items are sent to the back, or to the front, or overwrite the only one, *)
(* and are received from the front.                                        *)
(***************************************************************************)
EXTENDS Integers, Sequences

CONSTANT Item

VARIABLES
  items,
  length     \* uxQueueLength, chosen when the queue is created

SendToBack(i) == Len(items) < length /\ items' = Append(items, i)
SendToFront(i) == Len(items) < length /\ items' = <<i>> \o items
Overwrite(i) == length = 1 /\ items' = <<i>>
Receive == items # <<>> /\ items' = Tail(items)
Reset == items' = <<>>

Init == items = <<>> /\ length \in Nat \ {0}
Next ==
  /\ \/ \E i \in Item : SendToBack(i) \/ SendToFront(i) \/ Overwrite(i)
     \/ Receive \/ Reset
  /\ UNCHANGED length
Spec == Init /\ [][Next]_<<items, length>>
=============================================================================
