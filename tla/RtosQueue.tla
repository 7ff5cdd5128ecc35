----------------------------- MODULE RtosQueue ------------------------------
(***************************************************************************)
(* The queues of FreeRTOS (sw/FreeRTOS/queue.c), which are also its        *)
(* semaphores, mutexes and queue sets, used by the tasks of RtosThreads    *)
(* and by interrupt handlers.  A call that must wait first tries with      *)
(* interrupts disabled, then suspends the scheduler and locks the queue,   *)
(* looks again, and joins an event list; what interrupts do to a locked    *)
(* queue is counted and made up for when it is unlocked.                   *)
(***************************************************************************)
EXTENDS RtosThreads

CONSTANTS
  Apps,        \* applications, with their queues
  Queue,
  Item,        \* the items sent
  MaxRecursion, \* how often a task takes a recursive mutex
  None         \* the null pointer

ASSUME QueueAssumption ==
  /\ EventList = Queue \X {"send", "recv"}
  /\ None \notin Task \cup Queue

VARIABLES
  q,           \* the queues: a ring of len items, with n of them in use
  wt,          \* wt[t]: what a call that may wait keeps on its stack
  age          \* age[t]: the ticks counted since the time-out of t was set

vars == <<threadVars, q, wt, age>>

Sending == {"Send", "SendFront", "Overwrite", "Give"}
Taking == {"Take", "TakeRec"}
Receiving == {"Receive", "Select", "Peek"} \cup Taking
UNLOCKED == -1
NotWaiting == [n |-> 0, tout |-> [over |-> 0, tick |-> 0], set |-> FALSE, inh |-> FALSE]

(* prvInitialiseNewQueue; a mutex is created free. *)
prvInitialiseNewQueue(d) ==
  [type |-> d.type, len |-> d.len, set |-> d.set, buf |-> [i \in 0..d.len - 1 |-> 0],
   w |-> 0, r |-> d.len - 1, n |-> IF d.type = "mutex" THEN 1 ELSE 0,
   holder |-> None, rec |-> 0, tx |-> UNLOCKED, rx |-> UNLOCKED]
Init ==
  /\ ThreadInit(Apps)
  /\ q = [x \in Queue |-> prvInitialiseNewQueue(app.queues[x])]
  /\ wt = [t \in Task |-> NotWaiting] /\ age = [t \in Task |-> 0]

-----------------------------------------------------------------------------
(* The ring                                                                 *)

Forth(z, i) == IF i + 1 >= z.len THEN 0 ELSE i + 1
Back(z, i) == IF i = 0 THEN z.len - 1 ELSE i - 1
Front1(z) == z.buf[Forth(z, z.r)]      \* the item that is read next

(* The branches of prvCopyDataToQueue for items that have data.             *)
PutBack(z, item) ==
  [z EXCEPT !.buf[z.w] = item, !.w = Forth(z, @), !.n = @ + 1]
(* A plausible mistake: the place in front is stepped to before the write.  *)
PutFrontAfterStep(z, item) ==
  [z EXCEPT !.buf[Back(z, z.r)] = item, !.r = Back(z, @), !.n = @ + 1]
PutFront(z, item) == [z EXCEPT !.buf[z.r] = item, !.r = Back(z, @), !.n = @ + 1]
Replace(z, item) ==
  [z EXCEPT !.buf[z.r] = item, !.r = Back(z, @), !.n = IF @ > 0 THEN @ ELSE 1]
prvCopyDataFromQueue(z) ==
  [z EXCEPT !.r = IF z.type = "queue" THEN Forth(z, @) ELSE @, !.n = @ - 1]

(* prvCopyDataToQueue: the kernel changes when a mutex is given back.       *)
prvCopyDataToQueue(x, z, d) ==
  LET r == xTaskPriorityDisinherit(x, z.holder)
      same(z1) == [k |-> x, z |-> z1, yield |-> FALSE]
  IN CASE z.type = "mutex" ->
            [k |-> r.k, z |-> [z EXCEPT !.holder = None, !.n = @ + 1], yield |-> r.yield]
       [] z.type = "sem" -> same([z EXCEPT !.n = @ + 1])
       [] d.op = "SendFront" -> same(PutFront(z, d.item))
       [] d.op = "Overwrite" -> same(Replace(z, d.item))
       [] OTHER -> same(PutBack(z, d.item))

-----------------------------------------------------------------------------
(* Waking and notifying; x is the kernel, qs the queues, i the queue.       *)

Waiters(x, i, side) == x.evl[<<i, side>>]
Wake(x, i, side) ==
  IF Waiters(x, i, side) = <<>> THEN [k |-> x, higher |-> FALSE]
  ELSE xTaskRemoveFromEventList(x, <<i, side>>)

(* A locked queue counts what interrupts put in or take out, up to the      *)
(* number of tasks.                                                         *)
(* A plausible mistake: nothing is counted.                                 *)
LockNotCounted(x, count) == count
prvIncrementQueueLock(x, count) == IF count < x.ntasks THEN count + 1 ELSE count

(* A plausible mistake: a set that is locked is not told.                   *)
LockedSetNotTold(x, qs, i) ==
  LET s == qs[i].set
      r == Wake(x, s, "recv")
  IN IF qs[s].tx # UNLOCKED THEN [k |-> x, q |-> qs, yield |-> FALSE]
     ELSE [k |-> r.k, q |-> [qs EXCEPT ![s] = PutBack(@, i)], yield |-> r.higher]
(* prvNotifyQueueSetContainer: the set i belongs to gets an item.           *)
prvNotifyQueueSetContainer(x, qs, i) ==
  LET s == qs[i].set
      z == PutBack(qs[s], i)
      r == Wake(x, s, "recv")
  IN IF qs[s].n >= qs[s].len THEN [k |-> Halt(x), q |-> qs, yield |-> FALSE]
     ELSE IF qs[s].tx = UNLOCKED
     THEN [k |-> r.k, q |-> [qs EXCEPT ![s] = z], yield |-> r.higher]
     ELSE [k |-> x, yield |-> FALSE,
           q |-> [qs EXCEPT ![s] = [z EXCEPT !.tx = prvIncrementQueueLock(x, @)]]]

(* What follows the copy in xQueueGenericSend: the set is told, or a        *)
(* receiver woken; a yield for the priority given back only if there is no  *)
(* receiver.                                                                *)
TellReceivers(x, qs, i, overwritten, giveback) ==
  LET r == Wake(x, i, "recv")
  IN IF qs[i].set # None
     THEN IF overwritten THEN [k |-> x, q |-> qs, yield |-> FALSE]
          ELSE prvNotifyQueueSetContainer(x, qs, i)
     ELSE [k |-> r.k, q |-> qs,
           yield |-> IF Waiters(x, i, "recv") = <<>> THEN giveback ELSE r.higher]

HasRoom(d) == q[d.u].n < q[d.u].len \/ d.op = "Overwrite"
SendFrom(x, qs, d) ==
  LET z == qs[d.u]
      copied == prvCopyDataToQueue(x, z, d)
  IN TellReceivers(copied.k, [qs EXCEPT ![d.u] = copied.z], d.u,
                   d.op = "Overwrite" /\ z.n > 0, copied.yield)

-----------------------------------------------------------------------------
(* Calls of a task                                                          *)

MayWait == UNCHANGED <<q, wt>>
Return ==
  /\ th' = [th EXCEPT ![me].pc = "run", ![me].c = NoCall]
  /\ wt' = [wt EXCEPT ![me] = NotWaiting]
BeginQueueCall(d) ==
  /\ At("run") /\ d \in app.calls[me] /\ d.op \in Sending \cup Receiving \cup {"GiveRec"}
  /\ d.op \in {"Give", "GiveRec"} /\ q[d.u].type = "mutex" => q[d.u].holder = me
  /\ d.op = "Take" => q[d.u].holder # me
  /\ d.op = "TakeRec" => q[d.u].rec < MaxRecursion
  /\ th' = [th EXCEPT ![me].pc = IF d.op \in {"TakeRec", "GiveRec"} THEN d.op ELSE "try",
                      ![me].c = d]
  /\ wt' = [wt EXCEPT ![me] = [NotWaiting EXCEPT !.n = d.n]]
  /\ UNCHANGED <<k, q>>

(* xQueueTakeMutexRecursive and xQueueGiveMutexRecursive                    *)
TakeRecursive ==
  /\ At("TakeRec") /\ UNCHANGED <<k, wt>>
  /\ IF q[c.u].holder = me
     THEN q' = [q EXCEPT ![c.u].rec = @ + 1] /\ Goto("run")
     ELSE UNCHANGED q /\ Goto("try")
GiveRecursive ==
  /\ At("GiveRec") /\ UNCHANGED <<k, wt>>
  /\ q' = [q EXCEPT ![c.u].rec = @ - 1]
  /\ IF q[c.u].rec = 1
     THEN th' = [th EXCEPT ![me].pc = "try", ![me].c.op = "Give"]
     ELSE Goto("run")

(* The first critical section of each call, when it can be done at once.    *)
SendNow ==
  /\ At("try") /\ c.op \in Sending /\ HasRoom(c)
  /\ LET r == SendFrom(k, q, c) IN Kernel(YieldIf(r.k, r.yield)) /\ q' = r.q
  /\ Return
ReceiveNow ==
  /\ At("try") /\ c.op \in {"Receive", "Select"} /\ q[c.u].n > 0
  /\ LET r == Wake(k, c.u, "send") IN Kernel(YieldIf(r.k, r.higher))
  /\ q' = [q EXCEPT ![c.u] = prvCopyDataFromQueue(@)]
  /\ IF c.op = "Receive" THEN Return
     ELSE \* xQueueSelectFromSet, and the member it names is read without waiting
       /\ th' = [th EXCEPT ![me].c.op = "Receive", ![me].c.u = Front1(q[c.u])]
       /\ wt' = [wt EXCEPT ![me] = NotWaiting]
PeekNow ==
  /\ At("try") /\ c.op = "Peek" /\ q[c.u].n > 0
  /\ LET r == Wake(k, c.u, "recv") IN Kernel(YieldIf(r.k, r.higher))
  /\ Return /\ UNCHANGED q
TakeNow ==
  /\ At("try") /\ c.op \in Taking /\ q[c.u].n > 0
  /\ LET z == [q[c.u] EXCEPT !.n = @ - 1]
         mutex == z.type = "mutex"
         k1 == IF mutex THEN [k EXCEPT !.held[me] = @ + 1] ELSE k
         r == Wake(k1, c.u, "send")
     IN /\ Kernel(YieldIf(r.k, r.higher))
        /\ q' = [q EXCEPT ![c.u] =
             IF mutex
             THEN [z EXCEPT !.holder = me, !.rec = IF c.op = "TakeRec" THEN @ + 1 ELSE @]
             ELSE z]
  /\ Return

MustWait == IF c.op \in Sending THEN q[c.u].n = q[c.u].len ELSE q[c.u].n = 0
(* Otherwise the call fails at once, or notes the time and goes on to wait. *)
TryFails ==
  /\ At("try") /\ MustWait /\ ~(c.op \in Sending /\ HasRoom(c)) /\ UNCHANGED <<k, q>>
  /\ IF wt[me].n = 0 THEN Return
     ELSE /\ Goto("hold")
          /\ wt' = IF wt[me].set THEN wt
                   ELSE [wt EXCEPT ![me].set = TRUE,   \* without a limit the time is not used
                                   ![me].tout = IF wt[me].n = MaxDelay THEN @ ELSE TimeOutNow(k)]

Hold == At("hold") /\ Kernel(vTaskSuspendAll(k)) /\ Goto("lockqueue") /\ MayWait
prvLockQueue ==
  /\ At("lockqueue") /\ Goto("check") /\ UNCHANGED <<k, wt>>
  /\ q' = [q EXCEPT ![c.u].tx = IF @ = UNLOCKED THEN 0 ELSE @,
                    ![c.u].rx = IF @ = UNLOCKED THEN 0 ELSE @]

(* prvUnlockQueue and xTaskResumeAll follow, then pc.                       *)
UnlockThen(pc) == th' = [th EXCEPT ![me].pc = "unlocktx", ![me].to = pc]
CheckTimeOut ==
  /\ At("check") /\ UNCHANGED q
  /\ LET r == xTaskCheckForTimeOut(k, wt[me].tout, wt[me].n) IN
     /\ Kernel(r.k)
     /\ wt' = [wt EXCEPT ![me].n = r.n, ![me].tout = r.to]
     /\ IF r.out THEN UnlockThen("expired") ELSE Goto("test")
IsMutexTake == c.op \in Taking /\ q[c.u].type = "mutex"
Test ==
  /\ At("test") /\ UNCHANGED k /\ MayWait
  /\ IF MustWait THEN Goto(IF IsMutexTake THEN "inherit" ELSE "place")
                 ELSE UnlockThen("try")
Inherit ==
  /\ At("inherit") /\ Goto("place") /\ UNCHANGED q
  /\ LET r == xTaskPriorityInherit(k, q[c.u].holder) IN
     Kernel(r.k) /\ wt' = [wt EXCEPT ![me].inh = r.inherited]
Place ==
  /\ At("place") /\ UnlockThen("yieldagain") /\ MayWait
  /\ Kernel(vTaskPlaceOnEventList(
              k, <<c.u, IF c.op \in Sending THEN "send" ELSE "recv">>, wt[me].n))

(* prvUnlockQueue: a critical section for each side.                        *)
MakeUpFor(s, i) ==
  LET r == TellReceivers(s.k, s.q, i, FALSE, FALSE) IN
  [k |-> [r.k EXCEPT !.ypend = @ \/ r.yield], q |-> r.q]
UnlockTx ==
  /\ At("unlocktx") /\ th' = [th EXCEPT ![me].pc = "unlockrx"] /\ UNCHANGED wt
  /\ LET end == FoldLeft(MakeUpFor, [k |-> k, q |-> q], [j \in 1..q[c.u].tx |-> c.u])
     IN Kernel(end.k) /\ q' = [end.q EXCEPT ![c.u].tx = UNLOCKED]
WakeSender(x, i) == Wake(x, i, "send").k
UnlockRx ==
  /\ At("unlockrx") /\ th' = [th EXCEPT ![me].pc = "resume"] /\ UNCHANGED wt
  /\ Kernel(FoldLeft(WakeSender, k, [j \in 1..q[c.u].rx |-> c.u]))
  /\ q' = [q EXCEPT ![c.u].rx = UNLOCKED]

(* The time is up: a sender gives up, a receiver looks once more.           *)
Expired ==
  /\ At("expired") /\ UNCHANGED <<k, q>>
  /\ IF c.op \in Receiving /\ q[c.u].n > 0 THEN Goto("try") /\ UNCHANGED wt
     ELSE IF wt[me].inh THEN Goto("disinherit") /\ UNCHANGED wt
     ELSE Return
(* The highest priority is that of the head of the list of waiting tasks.   *)
prvGetDisinheritPriorityAfterTimeout(i) ==
  LET list == Waiters(k, i, "recv") IN
  IF list = <<>> THEN 0 ELSE MaxPriorities - k.evval[Head(list)]
Disinherit ==
  /\ At("disinherit") /\ Return /\ UNCHANGED q
  /\ LET h == q[c.u].holder IN
     Kernel(IF h = None THEN k
            ELSE vTaskPriorityDisinheritAfterTimeout(
                   k, h, prvGetDisinheritPriorityAfterTimeout(c.u)))

(* xQueueGenericReset                                                       *)
BeginReset ==
  /\ At("run") /\ \E d \in app.calls[me] :
       d.op = "Reset" /\ th' = [th EXCEPT ![me].pc = "reset", ![me].c = d]
  /\ UNCHANGED k /\ MayWait
xQueueGenericReset ==
  /\ At("reset") /\ Goto("run") /\ UNCHANGED wt
  /\ q' = [q EXCEPT ![c.u].n = 0, ![c.u].w = 0, ![c.u].r = q[c.u].len - 1,
                    ![c.u].tx = UNLOCKED, ![c.u].rx = UNLOCKED]
  /\ LET r == Wake(k, c.u, "send") IN Kernel(YieldIf(r.k, r.higher))

-----------------------------------------------------------------------------
(* Interrupts                                                               *)

SendIsr(d) ==        \* xQueueGenericSendFromISR
  /\ d.op \in Sending \ {"Give"} /\ HasRoom(d)
  /\ IF q[d.u].tx = UNLOCKED
     THEN LET r == SendFrom(k, q, d) IN Kernel(YieldIf(r.k, r.yield)) /\ q' = r.q
     ELSE /\ q' = [q EXCEPT ![d.u] = [prvCopyDataToQueue(k, @, d).z EXCEPT
                                        !.tx = prvIncrementQueueLock(k, @)]]
          /\ UNCHANGED k
GiveIsr(d) ==        \* xQueueGiveFromISR, of a semaphore
  /\ d.op = "Give" /\ q[d.u].n < q[d.u].len
  /\ LET given == [q EXCEPT ![d.u].n = @ + 1]
         r == TellReceivers(k, given, d.u, FALSE, FALSE)
     IN IF q[d.u].tx = UNLOCKED THEN Kernel(YieldIf(r.k, r.yield)) /\ q' = r.q
        ELSE q' = [given EXCEPT ![d.u].tx = prvIncrementQueueLock(k, @)] /\ UNCHANGED k
ReceiveIsr(d) ==     \* xQueueReceiveFromISR
  /\ d.op = "Receive" /\ q[d.u].n > 0
  /\ IF q[d.u].rx = UNLOCKED
     THEN /\ q' = [q EXCEPT ![d.u] = prvCopyDataFromQueue(@)]
          /\ LET r == Wake(k, d.u, "send") IN Kernel(YieldIf(r.k, r.higher))
     ELSE /\ q' = [q EXCEPT ![d.u] = [prvCopyDataFromQueue(@) EXCEPT
                                        !.rx = prvIncrementQueueLock(k, @)]]
          /\ UNCHANGED k
Interrupts ==
  /\ ~k.halted /\ UNCHANGED <<th, wt>>
  /\ \E d \in app.isr : SendIsr(d) \/ GiveIsr(d) \/ ReceiveIsr(d)

Begin ==
  \/ (\E d \in app.calls[me] : d.op \in {"Delay", "PrioritySet"} /\ BeginCall(d)) /\ MayWait
  \/ \E d \in app.calls[me] : BeginQueueCall(d)
  \/ BeginReset
InCall ==
  \/ TaskCall /\ MayWait
  \/ TakeRecursive \/ GiveRecursive
  \/ SendNow \/ ReceiveNow \/ PeekNow \/ TakeNow \/ TryFails
  \/ Hold \/ prvLockQueue \/ CheckTimeOut \/ Test \/ Inherit \/ Place
  \/ UnlockTx \/ UnlockRx \/ Expired \/ Disinherit
  \/ xQueueGenericReset
Ticks == Tick /\ MayWait

(* The ticks a call with a time limit has waited, as far as the tick count  *)
(* goes.                                                                    *)
Timed(t) == wt[t].set /\ th[t].c.n # MaxDelay
AgeUp ==
  age' = [t \in Task |->
    IF Timed(t)' /\ Timed(t) THEN Min({TickMod, age[t] + Passed}) ELSE 0]
Next == (Begin \/ InCall \/ Ticks \/ Interrupts) /\ AgeUp /\ UNCHANGED app

(* The tick keeps coming, and a call goes on while its task is current.     *)
InCallEnabled == ~k.halted /\ th[me].pc # "run"
Spec == Init /\ [][Next]_vars
FairSpec ==
  /\ Spec
  /\ []<>~InCallEnabled \/ []<><<InCall>>_vars
  /\ []<>~TickEnabled \/ []<><<Ticks>>_vars
-----------------------------------------------------------------------------
(* Properties *)

TypeOK ==
  /\ k.cur \in Task /\ k.top \subseteq Priority
  /\ k.evl \in [EventList -> Seq(Task)] /\ k.pending \in Seq(Task)
  /\ k.prio \in [Task -> Priority] /\ k.base \in [Task -> Priority]
  /\ k.susp \in 0..1 /\ k.held \in [Task -> 0..Cardinality(Queue)]
  /\ \A x \in Queue :
       /\ q[x].n \in 0..q[x].len /\ {q[x].w, q[x].r} \subseteq 0..q[x].len - 1
       /\ q[x].holder \in Task \cup {None} /\ q[x].rec \in Nat
       /\ {q[x].tx, q[x].rx} \subseteq UNLOCKED..k.ntasks
       /\ ({q[x].tx, q[x].rx} # {UNLOCKED} => k.susp > 0)

(* Positions and counts keep their ranges, no assertion fails, the kernel's *)
(* lists agree with each other, and the most important task runs, whatever  *)
(* tasks and interrupts do to queues (tasks.c:172, queue.c:3043, 4186).     *)
KernelSound ==
  TypeOK /\ NoAssertFails /\ HighestRuns /\ TasksInLists(LAMBDA t : t = Idle \/ Contains(app.order, t))

(* No wake-up is lost between a failed try and the event list: while tasks  *)
(* wait on one side of a queue that has something for them, at least one    *)
(* task for each item or free place has been woken and is on its way        *)
(* (queue.c:251, 2279).                                                     *)
OnItsWay(x, ops) ==
  {t \in Task : /\ th[t].c.op \in ops /\ th[t].c.u = x /\ th[t].pc \in {"try", "expired"}
                /\ ~Contains(k.evl[<<x, "recv">>], t) /\ ~Contains(k.evl[<<x, "send">>], t)}
NoLostWakeup ==
  \A x \in Queue : q[x].tx = UNLOCKED /\ q[x].rx = UNLOCKED =>
    /\ Waiters(k, x, "recv") # <<>> => Cardinality(OnItsWay(x, Receiving)) >= q[x].n
    /\ Waiters(k, x, "send") # <<>>
         => Cardinality(OnItsWay(x, Sending)) >= q[x].len - q[x].n

(* A call waits for its time in counted ticks, also when it is woken and    *)
(* finds nothing and when the tick count wraps: it does not give up early,  *)
(* nor is it asleep beyond its time unless it was kept from running for as  *)
(* long as the tick count goes (xTaskCheckForTimeOut, tasks.c:3306).        *)
WaitsExactly ==
  \A t \in Task : Timed(t) =>
    /\ th[t].pc \in {"expired", "disinherit"} => age[t] >= th[t].c.n
    /\ Sleeping(k, t) /\ age[t] < TickMod => Left(k, t) + age[t] = th[t].c.n

(* A mutex that is not free has a holder, a task counts the mutexes it      *)
(* holds, its priority is at least that of all who wait for them, and it is *)
(* its own again when it holds none (tasks.c:4067, 4157, 4237).             *)
MutexPriority ==
  /\ \A x \in Queue : q[x].type = "mutex" =>
       /\ q[x].n = 0 <=> q[x].holder # None
       /\ q[x].holder # None => \A t \in Range(Waiters(k, x, "recv")) :
                                   k.prio[t] <= k.prio[q[x].holder]
  /\ \A t \in Task :
       /\ k.held[t] = Cardinality({x \in Queue : q[x].type = "mutex" /\ q[x].holder = t})
       /\ k.held[t] = 0 => k.prio[t] = k.base[t]

(* A queue set names a member as often as the member has items that nobody  *)
(* was told of yet: the read that follows xQueueSelectFromSet finds one     *)
(* (queue.c:3006, 3033).                                                    *)
Contents(z) == [i \in 1..z.n |-> z.buf[(z.r + i) % z.len]]
Members == {x \in Queue : q[x].set # None}
Told(t, x) == th[t].c.op = "Receive" /\ th[t].c.u = x /\ th[t].pc = "try"
SetHasData ==
  \A x \in Members : LET s == q[x].set IN
    Cardinality({i \in 1..q[s].n : Contents(q[s])[i] = x})
      + (IF q[x].tx > 0 THEN q[x].tx ELSE 0)
      + Cardinality({t \in Task : Told(t, x)})
    = q[x].n

(* Nobody waits for ever who set a time limit, nor while there is something *)
(* for the first who waits: also when the wake-up came while the queue was  *)
(* locked or the scheduler suspended (queue.c:2279, tasks.c:2174).          *)
First(t) ==
  \E x \in Queue : /\ Waiters(k, x, "recv") # <<>> /\ Head(Waiters(k, x, "recv")) = t
                   /\ q[x].tx > 0
WaitEnds ==
  \A t \in Task \ {Idle} : Sleeping(k, t) \/ First(t) \/ Contains(k.pending, t)
                           ~> t \in ReadyTasks(k)
=============================================================================
