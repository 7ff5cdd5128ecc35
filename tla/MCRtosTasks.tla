---------------------------- MODULE MCRtosTasks -----------------------------
(* Small applications for RtosTasks.                                        *)
EXTENDS RtosTasks

MCTask == {"a", "b", "c", "idle"}
Op(op, u, n) == [op |-> op, u |-> u, n |-> n, locked |-> FALSE]
Locked1(d) == [d EXCEPT !.locked = TRUE]
Prio(a, b) == [t \in MCTask |-> CASE t = "a" -> a [] t = "b" -> b [] OTHER -> 0]
By(a, b) == [t \in MCTask |-> CASE t = "a" -> a [] t = "b" -> b [] OTHER -> {}]

Sleepers ==
  [order |-> <<"a", "b">>, prio |-> Prio(1, 2), isr |-> {},
   calls |-> By({Op("Delay", "a", 3), Op("CatchUp", "a", 2)},
                {Op("DelayUntil", "b", 2), Op("Delay", "b", 4)})]
Equals ==
  [order |-> <<"a", "b">>, prio |-> Prio(0, 0), isr |-> {},
   calls |-> By({Op("Delay", "a", 1)}, {Op("Delay", "b", 0), Op("Suspend", "b", 0)})]
Control ==
  [order |-> <<"a", "b">>, prio |-> Prio(1, 2), isr |-> {Op("Notify", "b", 0)},
   calls |-> By({Op("AbortDelay", "b", 0), Op("Suspend", "b", 0),
                 Op("Notify", "b", 0), Locked1(Op("Notify", "b", 0)),
                 Op("StateClear", "b", 0)},
                {Op("NotifyTake", "b", 2), Op("NotifyTake", "b", TickMod - 1)})]
Resumed ==
  [order |-> <<"a", "b">>, prio |-> Prio(1, 2), isr |-> {Op("Resume", "b", 0)},
   calls |-> By({Op("Suspend", "b", 0), Op("PrioritySet", "b", 1),
                 Op("Resume", "b", 0), Locked1(Op("Resume", "b", 0))},
                {Op("Delay", "b", 2), Op("Suspend", "b", 0), Op("PrioritySet", "b", 2)})]
Lifecycle ==
  [order |-> <<"a">>, prio |-> Prio(1, 0), isr |-> {},
   calls |-> [By({Op("Create", "b", 1), Op("Create", "c", 2), Op("Delete", "b", 0),
                  Op("Delay", "a", 1)},
                 {Op("Delete", "b", 0)}) EXCEPT !["c"] = {Op("Delete", "c", 0)}]]
MCApps == {Sleepers, Equals, Control, Resumed, Lifecycle}
=============================================================================
