---------------------------- MODULE MCRtosQueue -----------------------------
(* Small applications for RtosQueue.                                        *)
EXTENDS RtosQueue

MCTask == {"a", "b", "c", "idle"}
MCQueue == {"data", "lock", "set"}
MCEventList == MCQueue \X {"send", "recv"}
Forever == TickMod - 1
Op(op, u, n) == [op |-> op, u |-> u, n |-> n, locked |-> FALSE, item |-> 0]
Send(op, u, n, item) == [Op(op, u, n) EXCEPT !.item = item]
Tasks(a, b, d, z) == [t \in MCTask |->
  CASE t = "a" -> a [] t = "b" -> b [] t = "c" -> d [] OTHER -> z]
Queues(data, lock, set) == [x \in MCQueue |->
  CASE x = "data" -> data [] x = "lock" -> lock [] OTHER -> set]
Data(len) == [type |-> "queue", len |-> len, set |-> "none"]
Sem == [type |-> "sem", len |-> 1, set |-> "none"]
Mutex == [type |-> "mutex", len |-> 1, set |-> "none"]
In(z) == [z EXCEPT !.set = "set"]

Pipe ==
  [order |-> <<"a", "b">>, prio |-> Tasks(1, 2, 0, 0),
   queues |-> Queues(Data(1), Sem, Data(1)),
   isr |-> {Send("Send", "data", 0, 2)},
   calls |-> Tasks({Send("Send", "data", 1, 1)}, {Op("Receive", "data", 2)}, {}, {})]
Fronts ==
  [order |-> <<"a", "b">>, prio |-> Tasks(1, 1, 0, 0),
   queues |-> Queues(Data(2), Sem, Data(1)),
   isr |-> {Op("Receive", "data", 0)},
   calls |-> Tasks({Send("Send", "data", Forever, 1), Send("SendFront", "data", 0, 2)},
                   {Op("Receive", "data", 0)}, {}, {})]
Mailbox ==
  [order |-> <<"a", "b">>, prio |-> Tasks(1, 2, 0, 0),
   queues |-> Queues(Data(1), Sem, Data(1)),
   isr |-> {Op("Give", "lock", 0)},
   calls |-> Tasks({Send("Overwrite", "data", 0, 1), Send("Overwrite", "data", 0, 2),
                    Op("Reset", "data", 0)},
                   {Op("Peek", "data", 2), Op("Receive", "data", 0),
                    Op("Take", "lock", Forever)}, {}, {})]
Inversion ==
  [order |-> <<"a", "b", "c">>, prio |-> Tasks(1, 2, 3, 0),
   queues |-> Queues(Data(1), Mutex, Data(1)), isr |-> {},
   calls |-> Tasks({Op("Take", "lock", 0), Op("Give", "lock", 0)},
                   {Op("Take", "lock", Forever), Op("Delay", "b", 1)},
                   {Op("Take", "lock", 1), Op("Give", "lock", 0), Op("Delay", "c", 1)}, {})]
Recursion ==
  [order |-> <<"a", "b">>, prio |-> Tasks(1, 2, 0, 0),
   queues |-> Queues(Data(1), Mutex, Data(1)), isr |-> {},
   calls |-> Tasks({Op("TakeRec", "lock", Forever), Op("GiveRec", "lock", 0)},
                   {Op("TakeRec", "lock", 1), Op("GiveRec", "lock", 0), Op("Delay", "b", 1)},
                   {}, {})]
Selection ==
  [order |-> <<"a", "b">>, prio |-> Tasks(1, 2, 0, 0),
   queues |-> Queues(In(Data(1)), In(Sem), Data(2)),
   isr |-> {Send("Send", "data", 0, 1)},
   calls |-> Tasks({Send("Send", "data", 1, 1), Op("Give", "lock", 0)}, {Op("Select", "set", Forever)}, {}, {})]
MCApps == {Pipe, Fronts, Mailbox, Inversion, Recursion, Selection}

(* The queue of items implements RtosFifo: whatever the interleaving of     *)
(* sends to the back, to the front and over what is there, by tasks and     *)
(* interrupts, its ring holds what is to be received in order               *)
(* (prvCopyDataToQueue, queue.c:2175).                                      *)
Fifo == INSTANCE RtosFifo WITH items <- Contents(q["data"]), length <- q["data"].len
DataIsFifo == Fifo!Spec
=============================================================================
