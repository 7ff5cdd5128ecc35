----------------------------- MODULE RtosKernel -----------------------------
(***************************************************************************)
(* The data structures of the FreeRTOS kernel (sw/FreeRTOS/tasks.c and     *)
(* list.c) and the operations on them that run with interrupts disabled or *)
(* with the scheduler suspended.  Each operator takes the kernel's state k *)
(* and returns the state after it; RtosTasks and RtosQueue put them        *)
(* together into the calls tasks and interrupt handlers make.              *)
(*                                                                         *)
(* A list is the sequence of its items from the head.  A ready list is     *)
(* circular: its sequence starts at pxIndex and END is the list's marker,  *)
(* so that vListInsertEnd, which inserts before pxIndex, appends.          *)
(***************************************************************************)
EXTENDS Integers, Sequences, FiniteSets, SequencesExt

CONSTANTS
  Task, Idle,
  MaxPriorities,   \* configMAX_PRIORITIES
  TickMod,         \* the values of TickType_t (2^32)
  OvfMod,          \* the values xNumOfOverflows is kept modulo
  EventList        \* the lists a task can wait in for an event

END == "END"
Priority == 0..MaxPriorities - 1
MaxDelay == TickMod - 1            \* portMAX_DELAY

ASSUME KernelAssumption ==
  /\ IsFiniteSet(Task) /\ Idle \in Task /\ END \notin Task
  /\ MaxPriorities \in Nat \ {0} /\ TickMod \in Nat \ {0, 1}
  /\ OvfMod \in Nat \ {0}

Halt(k) == [k EXCEPT !.halted = TRUE]     \* configASSERT: loops for ever
ConfigAssert(k, ok) == IF ok THEN k ELSE Halt(k)

-----------------------------------------------------------------------------
(* Lists *)

(* The items in front of the first with a larger value: vListInsert puts an *)
(* item of value v behind them.                                             *)
Ahead(list, value, v) ==
  LET later == {i \in DOMAIN list : value[list[i]] > v} IN
  IF later = {} THEN Len(list) ELSE Min(later) - 1
Insert(list, value, t) == InsertAt(list, Ahead(list, value, value[t]) + 1, t)

(* uxListRemove from a ready list: pxIndex steps back when it is on t.      *)
Unlink(ring, t) ==
  IF Head(ring) = t THEN <<Last(ring)>> \o Front(Tail(ring)) ELSE RemoveFirst(ring, t)
(* listGET_OWNER_OF_NEXT_ENTRY: one step on, and one more over the marker.  *)
Rotate(ring) == Append(Tail(ring), Head(ring))
(* A plausible mistake: the index of a ready list does not move on.         *)
SameEntry(ring) == IF Head(ring) = END THEN Rotate(ring) ELSE ring
NextEntry(ring) ==
  LET r == Rotate(ring) IN IF Head(r) = END THEN Rotate(r) ELSE r
Length(ring) == Len(ring) - 1

-----------------------------------------------------------------------------
(* Ready lists *)

ReadyTasks(k) == {t \in Task : \E p \in Priority : Contains(k.ready[p], t)}

prvAddTaskToReadyList(k, t) ==
  [k EXCEPT !.top = @ \cup {k.prio[t]}, !.ready[k.prio[t]] = Append(@, t)]

(* Takes the state item of t out of the list it is in; its value is not     *)
(* looked at again.                                                         *)
RemoveState(k, t) ==
  [k EXCEPT !.ready = [p \in Priority |->
                         IF Contains(@[p], t) THEN Unlink(@[p], t) ELSE @[p]],
            !.delayed = RemoveFirst(@, t), !.overflow = RemoveFirst(@, t),
            !.suspended = RemoveFirst(@, t), !.dying = RemoveFirst(@, t), !.wake[t] = 0]
RemoveEvent(k, t) ==
  [k EXCEPT !.pending = RemoveFirst(@, t),
            !.evl = [l \in EventList |-> RemoveFirst(@[l], t)]]
EventFree(k, t) ==
  ~Contains(k.pending, t) /\ \A l \in EventList : ~Contains(k.evl[l], t)

(* The state list of t has no other item: uxListRemove would return 0.      *)
Alone(k, t) ==
  \/ \E p \in Priority : Contains(k.ready[p], t) /\ Length(k.ready[p]) = 1
  \/ <<t>> \in {k.delayed, k.overflow, k.suspended, k.dying}
portRESET_READY_PRIORITY(k, p) == [k EXCEPT !.top = @ \ {p}]
(* A plausible mistake: the ready bit of an emptied list stays set.         *)
ReadyBitStays(k, t, p) == RemoveState(k, t)
(* Removal, and the ready bit of priority p cleared if the list is empty,   *)
(* whatever list that was; the second form looks at the ready list of p.    *)
RemoveAndReset(k, t, p) ==
  IF Alone(k, t) THEN portRESET_READY_PRIORITY(RemoveState(k, t), p)
                 ELSE RemoveState(k, t)
RemoveAndResetIfEmpty(k, t) ==
  LET k1 == RemoveState(k, t) IN
  IF Alone(k, t) /\ Length(k1.ready[k.prio[t]]) = 0
  THEN portRESET_READY_PRIORITY(k1, k.prio[t]) ELSE k1

(* vTaskSwitchContext with the optimised task selection.                    *)
vTaskSwitchContext(k) ==
  IF k.susp > 0 THEN [k EXCEPT !.ypend = TRUE]
  ELSE LET p == Max(k.top)  ring == NextEntry(k.ready[p]) IN
       IF Length(k.ready[p]) = 0 THEN Halt(k)
       ELSE [k EXCEPT !.ypend = FALSE, !.ready[p] = ring, !.cur = Head(ring)]
YieldIf(k, cond) == IF cond THEN vTaskSwitchContext(k) ELSE k
Above(k, t) == k.prio[t] > k.prio[k.cur]

-----------------------------------------------------------------------------
(* Time *)

prvResetNextTaskUnblockTime(k) ==
  [k EXCEPT !.unblock = IF k.delayed = <<>> THEN MaxDelay ELSE k.wake[Head(k.delayed)]]

(* Plausible mistakes: the cached unblock time is not recomputed; the lists  *)
(* are not exchanged.                                                       *)
NoResetOnSwitch(k) ==
  [ConfigAssert(k, k.delayed = <<>>) EXCEPT
     !.delayed = k.overflow, !.overflow = k.delayed, !.ovf = (@ + 1) % OvfMod]
ListsNotSwitched(k) ==
  prvResetNextTaskUnblockTime([k EXCEPT !.ovf = (@ + 1) % OvfMod])
taskSWITCH_DELAYED_LISTS(k) ==
  prvResetNextTaskUnblockTime(
    [ConfigAssert(k, k.delayed = <<>>) EXCEPT
       !.delayed = k.overflow, !.overflow = k.delayed, !.ovf = (@ + 1) % OvfMod])

(* The tasks at the head of the delayed list whose time has come.           *)
WakeUp(x, t) == prvAddTaskToReadyList(RemoveEvent(RemoveState(x, t), t), t)
WakeDue(k) ==
  LET n == Ahead(k.delayed, k.wake, k.tick)
      rest == SubSeq(k.delayed, n + 1, Len(k.delayed))
  IN [FoldLeft(WakeUp, k, SubSeq(k.delayed, 1, n)) EXCEPT
        !.unblock = IF rest = <<>> THEN MaxDelay ELSE k.wake[Head(rest)]]
DueTasks(k) == {k.delayed[i] : i \in 1..Ahead(k.delayed, k.wake, k.tick)}

(* xTaskIncrementTick: the new state and whether a switch is required.      *)
xTaskIncrementTick(k) ==
  IF k.susp > 0 THEN [k |-> [k EXCEPT !.pended = @ + 1], switch |-> FALSE]
  ELSE LET t1 == [k EXCEPT !.tick = (@ + 1) % TickMod]
           t2 == IF t1.tick = 0 THEN taskSWITCH_DELAYED_LISTS(t1) ELSE t1
           due == t2.tick >= t2.unblock
           t3 == IF due THEN WakeDue(t2) ELSE t2
       IN [k |-> t3,
           switch |-> \/ due /\ \E t \in DueTasks(t2) : Above(k, t)
                      \/ Length(t3.ready[k.prio[k.cur]]) > 1
                      \/ k.ypend]

(* The tick interrupt (freertos_risc_v_mtimer_interrupt_handler).           *)
TickInterrupt(k) == LET r == xTaskIncrementTick(k) IN YieldIf(r.k, r.switch)

vTaskSuspendAll(k) == [k EXCEPT !.susp = @ + 1]

(* The body of xTaskResumeAll at the outermost level, without its yield:    *)
(* tasks made ready meanwhile, then the ticks that were held back.          *)
MakeReady(x, t) ==
  LET y == prvAddTaskToReadyList(RemoveState(RemoveEvent(x, t), t), t) IN
  [y EXCEPT !.ypend = @ \/ y.prio[t] >= y.prio[y.cur]]
DrainPending(k) ==
  IF k.pending = <<>> THEN k
  ELSE prvResetNextTaskUnblockTime(FoldLeft(MakeReady, k, k.pending))
HeldTick(x, i) ==
  LET r == xTaskIncrementTick(x) IN [r.k EXCEPT !.ypend = @ \/ r.switch]
CatchUp(k) ==
  [FoldLeft(HeldTick, k, [i \in 1..k.pended |-> i]) EXCEPT !.pended = 0]
(* A plausible mistake: the switch that is pending is forgotten.            *)
ResumesWithoutYield(k) ==
  LET k0 == [k EXCEPT !.susp = @ - 1]
  IN [k |-> IF k0.susp > 0 THEN k0 ELSE CatchUp(DrainPending(k0)), yielded |-> TRUE]
xTaskResumeAll(k) ==
  LET k0 == [ConfigAssert(k, k.susp > 0) EXCEPT !.susp = @ - 1]
      k1 == CatchUp(DrainPending(k0))
  IN IF k0.susp > 0 THEN [k |-> k0, yielded |-> FALSE]
     ELSE [k |-> YieldIf(k1, k1.ypend), yielded |-> k1.ypend]

(* The current task leaves its ready list for n ticks, or until an event.   *)
prvAddCurrentTaskToDelayedList(k, n, indefinitely) ==
  LET t == k.cur
      k1 == [RemoveAndReset(k, t, k.prio[t]) EXCEPT !.aborted[t] = FALSE]
      k2 == [k1 EXCEPT !.wake[t] = (k.tick + n) % TickMod]
  IN IF n = MaxDelay /\ indefinitely THEN [k1 EXCEPT !.suspended = Append(@, t)]
     ELSE IF k2.wake[t] < k.tick
     THEN [k2 EXCEPT !.overflow = Insert(@, k2.wake, t)]
     ELSE [k2 EXCEPT !.delayed = Insert(@, k2.wake, t),
                     !.unblock = IF k2.wake[t] < @ THEN k2.wake[t] ELSE @]

(* eTaskGetState(u) = eBlocked                                              *)
IsBlocked(k, u) ==
  /\ u # k.cur
  /\ \/ Contains(k.delayed, u) \/ Contains(k.overflow, u)
     \/ Contains(k.suspended, u) /\ (~EventFree(k, u) \/ k.ns[u] = "waiting")
prvTaskIsTaskSuspended(k, u) == Contains(k.suspended, u) /\ EventFree(k, u)

-----------------------------------------------------------------------------
(* Event lists *)

SetEventOrder(k, t, p) ==      \* unless the item value is in use otherwise
  IF k.evuse[t] THEN k ELSE [k EXCEPT !.evval[t] = MaxPriorities - p]
vTaskPlaceOnEventList(k, l, n) ==
  prvAddCurrentTaskToDelayedList(
    [k EXCEPT !.evl[l] = Insert(@, k.evval, k.cur)], n, TRUE)

(* xTaskRemoveFromEventList: wakes the head of l, or has it wait in the     *)
(* pending list while the scheduler is suspended.                           *)
ReadyOrPend(k, t) ==
  IF k.susp = 0 THEN prvAddTaskToReadyList(RemoveState(k, t), t)
                ELSE [k EXCEPT !.pending = Append(@, t)]
xTaskRemoveFromEventList(k, l) ==
  LET t == Head(k.evl[l])
      k1 == ReadyOrPend(RemoveEvent(k, t), t)
  IN [k |-> [k1 EXCEPT !.ypend = @ \/ Above(k, t)], higher |-> Above(k, t)]

TimeOutNow(k) == [over |-> k.ovf, tick |-> k.tick]
(* xTaskCheckForTimeOut: k, the ticks that are left, the time-out state and *)
(* the answer.                                                              *)
(* A plausible mistake: what was waited already is not taken off.           *)
WaitsAnew(k, to, n) ==
  [k |-> k, n |-> n, to |-> TimeOutNow(k), out |-> n # MaxDelay /\ k.tick = to.tick + n]
xTaskCheckForTimeOut(k, to, n) ==
  LET elapsed == (k.tick - to.tick) % TickMod
      answer(x, left, o, b) == [k |-> x, n |-> left, to |-> o, out |-> b]
  IN IF k.aborted[k.cur]
     THEN answer([k EXCEPT !.aborted[k.cur] = FALSE], n, to, TRUE)
     ELSE IF n = MaxDelay THEN answer(k, n, to, FALSE)
     ELSE IF k.ovf # to.over /\ k.tick >= to.tick THEN answer(k, 0, to, TRUE)
     ELSE IF elapsed < n THEN answer(k, n - elapsed, TimeOutNow(k), FALSE)
     ELSE answer(k, 0, to, TRUE)

-----------------------------------------------------------------------------
(* Notifications *)

(* The part of xTaskGenericNotify and xTaskGenericNotifyFromISR they share  *)
(* for eIncrement; bound caps the counter in the model.                     *)
Notified(k, u) == [k EXCEPT !.ns[u] = "received", !.nv[u] = @ + 1]
xTaskGenericNotify(k, u) ==
  LET k1 == Notified(k, u)
      k2 == ConfigAssert(prvAddTaskToReadyList(RemoveState(k1, u), u), EventFree(k1, u))
  IN IF k.ns[u] = "waiting" THEN YieldIf(k2, Above(k, u)) ELSE k1
(* A plausible mistake: a task notified while the scheduler is suspended is *)
(* not remembered.                                                          *)
NotifyNotPended(k, u) ==
  IF k.susp > 0 THEN Notified(k, u) ELSE xTaskGenericNotify(k, u)
xTaskGenericNotifyFromISR(k, u) ==
  LET k1 == Notified(k, u)
      k2 == ConfigAssert(ReadyOrPend(k1, u), EventFree(k1, u))
      k3 == [k2 EXCEPT !.ypend = @ \/ Above(k, u)]
  IN IF k.ns[u] = "waiting" THEN YieldIf(k3, Above(k, u)) ELSE k1

-----------------------------------------------------------------------------
(* Priority inheritance; m is the holder of the mutex.                      *)

Reprioritise(k, m, p) == [k EXCEPT !.prio[m] = p]
InReady(k, t, p) == Contains(k.ready[p], t)

(* A plausible mistake: the holder stays in the ready list it is in.        *)
InheritsInPlace(k, m) ==
  LET p == k.prio[k.cur] IN
  [k |-> IF k.prio[m] < p THEN Reprioritise(SetEventOrder(k, m, p), m, p) ELSE k,
   inherited |-> k.base[m] < p]
xTaskPriorityInherit(k, m) ==
  LET p == k.prio[k.cur]
      k1 == SetEventOrder(k, m, p)
      k2 == IF InReady(k1, m, k.prio[m])
            THEN prvAddTaskToReadyList(
                   Reprioritise(RemoveAndReset(k1, m, k.prio[m]), m, p), m)
            ELSE Reprioritise(k1, m, p)
  IN IF k.prio[m] < p THEN [k |-> k2, inherited |-> TRUE]
     ELSE [k |-> k, inherited |-> k.base[m] < p]

xTaskPriorityDisinherit(k, m) ==
  LET k1 == [ConfigAssert(k, m = k.cur /\ k.held[m] > 0) EXCEPT !.held[m] = @ - 1]
      k2 == [Reprioritise(RemoveAndReset(k1, m, k.prio[m]), m, k.base[m])
               EXCEPT !.evval[m] = MaxPriorities - k.base[m]]
  IN IF k.prio[m] # k.base[m] /\ k1.held[m] = 0
     THEN [k |-> prvAddTaskToReadyList(k2, m), yield |-> TRUE]
     ELSE [k |-> k1, yield |-> FALSE]

(* A plausible mistake: the tasks that still wait are not considered.       *)
FallsToBase(k, m, highest) ==
  LET k1 == Reprioritise(k, m, k.base[m]) IN
  IF InReady(k, m, k.prio[m])
  THEN prvAddTaskToReadyList(RemoveAndReset(k1, m, k.prio[m]), m) ELSE k1
(* highest is the priority of the most important task still waiting.  The   *)
(* ready bit that is cleared is that of the new priority.                   *)
vTaskPriorityDisinheritAfterTimeout(k, m, highest) ==
  LET p == IF k.base[m] < highest THEN highest ELSE k.base[m]
      k1 == SetEventOrder(
              Reprioritise(ConfigAssert(k, k.held[m] > 0 /\ m # k.cur), m, p), m, p)
  IN IF k.prio[m] = p \/ k.held[m] # 1 THEN ConfigAssert(k, k.held[m] > 0)
     ELSE IF InReady(k, m, k.prio[m])
     THEN prvAddTaskToReadyList(RemoveAndReset(k1, m, p), m)
     ELSE k1

-----------------------------------------------------------------------------
(* What a task can do to another                                            *)

(* A plausible mistake: the task stays in the ready list of its old         *)
(* priority.                                                                *)
PriorityOfReadyTask(k, u, p) ==
  SetEventOrder([k EXCEPT !.prio[u] = IF k.base[u] = @ THEN p ELSE @, !.base[u] = p], u, p)
vTaskPrioritySet(k, u, p) ==
  LET yield == \/ p > k.base[u] /\ u # k.cur /\ p >= k.prio[k.cur]
               \/ p < k.base[u] /\ u = k.cur
      k1 == [k EXCEPT !.prio[u] = IF k.base[u] = @ THEN p ELSE @, !.base[u] = p]
      k2 == SetEventOrder(k1, u, p)
      k3 == IF InReady(k, u, k.prio[u])
            THEN prvAddTaskToReadyList(RemoveAndReset(k2, u, k.prio[u]), u)
            ELSE k2
  IN IF p = k.base[u] THEN k ELSE YieldIf(k3, yield)

vTaskResume(k, u) ==
  IF u # k.cur /\ prvTaskIsTaskSuspended(k, u)
  THEN YieldIf(prvAddTaskToReadyList(RemoveState(k, u), u), k.prio[u] >= k.prio[k.cur])
  ELSE k
xTaskResumeFromISR(k, u) ==
  LET switch == k.susp = 0 /\ k.prio[u] >= k.prio[k.cur]
      k1 == [ReadyOrPend(k, u) EXCEPT !.ypend = @ \/ switch]
  IN IF prvTaskIsTaskSuspended(k, u) THEN YieldIf(k1, switch) ELSE k

(* The first critical sections of vTaskSuspend and vTaskDelete.             *)
SuspendTask(k, u) ==
  LET k1 == RemoveEvent(RemoveAndResetIfEmpty(k, u), u) IN
  [k1 EXCEPT !.suspended = Append(@, u),
             !.ns[u] = IF @ = "waiting" THEN "none" ELSE @]
DeleteTask(k, u) ==
  LET k1 == RemoveEvent(RemoveAndResetIfEmpty(k, u), u) IN
  IF u = k.cur
  THEN [k1 EXCEPT !.dying = Append(@, u), !.ndying = @ + 1]
  ELSE prvResetNextTaskUnblockTime([k1 EXCEPT !.ntasks = @ - 1])

(* A new task, and the critical section that makes it ready.                *)
prvInitialiseNewTask(k, u, p) ==
  [k EXCEPT !.prio[u] = p, !.base[u] = p, !.held[u] = 0,
            !.evval[u] = MaxPriorities - p, !.evuse[u] = FALSE,
            !.ns[u] = "none", !.nv[u] = 0, !.aborted[u] = FALSE]
prvAddNewTaskToReadyList(k, u, p) ==
  prvAddTaskToReadyList(
    prvInitialiseNewTask([k EXCEPT !.ntasks = @ + 1], u, p), u)

(* The lists and counters before any task is created.                       *)
prvInitialiseTaskLists ==
  LET blank(v) == [t \in Task |-> v] IN
  [cur |-> Idle, ready |-> [q \in Priority |-> <<END>>], top |-> {},
   delayed |-> <<>>, overflow |-> <<>>, pending |-> <<>>,
   suspended |-> <<>>, dying |-> <<>>, evl |-> [l \in EventList |-> <<>>],
   prio |-> blank(0), base |-> blank(0), held |-> blank(0),
   wake |-> blank(0), evval |-> blank(0), evuse |-> blank(FALSE),
   ns |-> blank("none"), nv |-> blank(0), aborted |-> blank(FALSE),
   tick |-> 0, unblock |-> MaxDelay, ovf |-> 0, susp |-> 0,
   ypend |-> FALSE, pended |-> 0, ntasks |-> 0, ndying |-> 0,
   halted |-> FALSE]

(* The state vTaskStartScheduler leaves when the tasks of seq were created  *)
(* in that order with the priorities p: the latest of the highest priority. *)
Created1(k, tp) == prvAddNewTaskToReadyList(k, tp[1], tp[2])
StartScheduler(seq, p) ==
  LET all == Append(seq, Idle)
      top == Max({p[all[i]] : i \in DOMAIN all})
      first == all[Max({i \in DOMAIN all : p[all[i]] = top})]
  IN [FoldLeft(Created1, prvInitialiseTaskLists,
               [i \in DOMAIN all |-> <<all[i], p[all[i]]>>]) EXCEPT !.cur = first]
=============================================================================
