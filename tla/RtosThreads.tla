----------------------------- MODULE RtosThreads ----------------------------
(***************************************************************************)
(* The tasks of a FreeRTOS application on one core: the calls of tasks.c   *)
(* they make on each other and the interrupts that come between.  Only the *)
(* current task steps.  A critical section is one step; an interrupt can   *)
(* come between any two steps, also while the scheduler is suspended.  The *)
(* trap that portYIELD raises switches at once, even in a critical         *)
(* section: what is left of the section runs when the task is resumed,     *)
(* with the interrupt state of the task.                                   *)
(***************************************************************************)
EXTENDS RtosKernel

CONSTANTS
  MaxPended,   \* ticks while the scheduler is suspended
  MaxNotify    \* values of a notification counter

VARIABLES
  app,         \* the application: creation order, priorities, calls, interrupts
  k,           \* the kernel
  th           \* where each task is in its call

threadVars == <<app, k, th>>

NoCall == [op |-> "none", u |-> Idle, n |-> 0, locked |-> FALSE]
(* got: blocks allocated for a new task, or blocks still to free.           *)
Fresh == [pc |-> "run", c |-> NoCall, to |-> "run", got |-> <<>>, prev |-> 0]

ThreadInit(apps) ==
  /\ app \in apps
  /\ k = StartScheduler(app.order, app.prio)
  /\ th = [t \in Task |-> Fresh]

-----------------------------------------------------------------------------
(* Calls that are one critical section                                      *)

Simple == {"PrioritySet", "Resume", "Notify", "StateClear"}
DoSimple(x, c) ==
  CASE c.op = "PrioritySet" -> vTaskPrioritySet(x, c.u, c.n)
    [] c.op = "Resume" -> vTaskResume(x, c.u)
    [] c.op = "Notify" -> xTaskGenericNotify(x, c.u)
    [] c.op = "StateClear" ->
         [x EXCEPT !.ns[c.u] = IF @ = "received" THEN "none" ELSE @]

(* Where a call begins. *)
Entry(c) == IF c.locked THEN "lock" ELSE c.op

me == k.cur
At(pc) == ~k.halted /\ th[me].pc = pc
c == th[me].c
Goto(pc) == th' = [th EXCEPT ![me].pc = pc, ![me].to = "run"]
(* xTaskResumeAll comes next, and pc after it. *)
ResumeThen(pc) == th' = [th EXCEPT ![me].pc = "resume", ![me].to = pc]
Kernel(x) == k' = x

(* The task starts call d.                                                  *)
BeginCall(d) ==
  /\ At("run") /\ d \in app.calls[me]
  /\ d.op = "Notify" => k.nv[d.u] < MaxNotify
  /\ th' = [th EXCEPT ![me].pc = Entry(d), ![me].c = d]
  /\ UNCHANGED k

SimpleCall ==
  /\ \E op \in Simple : At(op)
  /\ Kernel(DoSimple(k, c)) /\ Goto("run")

(* The application suspends the scheduler around a simple call.             *)
Lock ==
  /\ At("lock") /\ Kernel(vTaskSuspendAll(k)) /\ Goto("locked")
Locked ==
  /\ At("locked") /\ Kernel(DoSimple(k, c)) /\ ResumeThen("run")

(* xTaskResumeAll; a caller that is to yield does so if it did not.  After  *)
(* "yield" the call is over, after "yieldagain" it tries again.             *)
AfterYield == [yield |-> "run", yieldagain |-> "try"]
Resume ==
  /\ At("resume")
  /\ LET r == xTaskResumeAll(k)  to == th[me].to IN
     /\ Kernel(r.k)
     /\ Goto(IF r.yielded /\ to \in DOMAIN AfterYield THEN AfterYield[to] ELSE to)
Yield ==
  \E pc \in DOMAIN AfterYield :
    At(pc) /\ Kernel(vTaskSwitchContext(k)) /\ Goto(AfterYield[pc])

(* vTaskDelay *)
Delay ==
  /\ At("Delay")
  /\ IF c.n = 0 THEN UNCHANGED k /\ Goto("yield")
     ELSE Kernel(vTaskSuspendAll(ConfigAssert(k, k.susp = 0))) /\ Goto("delay")
DelayAdd ==
  /\ At("delay")
  /\ Kernel(prvAddCurrentTaskToDelayedList(k, c.n, FALSE)) /\ ResumeThen("yield")

(* xTaskDelayUntil: is the time to wake still to come?                      *)
WakesLater(tick, prev, wake) ==
  IF tick < prev THEN wake < prev /\ wake > tick
                 ELSE wake < prev \/ wake > tick
DelayUntil ==
  /\ At("DelayUntil") /\ Kernel(vTaskSuspendAll(k)) /\ Goto("delayuntil")
DelayUntilAdd ==
  /\ At("delayuntil")
  /\ LET wake == (th[me].prev + c.n) % TickMod IN
     /\ th' = [th EXCEPT ![me].pc = "resume", ![me].to = "yield", ![me].prev = wake]
     /\ Kernel(IF WakesLater(k.tick, th[me].prev, wake)
               THEN prvAddCurrentTaskToDelayedList(k, (wake - k.tick) % TickMod, FALSE)
               ELSE k)

(* vTaskSuspend: two critical sections, then a yield for the task itself.   *)
Suspend ==
  /\ At("Suspend") /\ Kernel(SuspendTask(k, c.u)) /\ Goto("suspended")
Suspended ==
  /\ At("suspended") /\ Kernel(prvResetNextTaskUnblockTime(k))
  /\ Goto(IF c.u = me THEN "yield" ELSE "run")

(* ulTaskNotifyTake(pdFALSE, n): the yield is in the critical section.      *)
NotifyTake ==
  /\ At("NotifyTake") /\ Goto("taken")
  /\ LET k1 == [k EXCEPT !.ns[me] = "waiting"] IN
     Kernel(IF k.nv[me] > 0 THEN k
            ELSE IF c.n = 0 THEN k1
            ELSE vTaskSwitchContext(prvAddCurrentTaskToDelayedList(k1, c.n, TRUE)))
NotifyTaken ==
  /\ At("taken") /\ Goto("run")
  /\ Kernel([k EXCEPT !.nv[me] = IF @ > 0 THEN @ - 1 ELSE @, !.ns[me] = "none"])

(* xTaskCatchUpTicks *)
CatchUpTicks ==
  /\ At("CatchUp") /\ Kernel(vTaskSuspendAll(k)) /\ Goto("catchup")
CatchUpAdd ==
  /\ At("catchup") /\ Kernel([k EXCEPT !.pended = @ + c.n])
  /\ ResumeThen("run")

(* xTaskAbortDelay, with the scheduler suspended but interrupts enabled.    *)
AbortDelay ==
  /\ At("AbortDelay") /\ Kernel(vTaskSuspendAll(k)) /\ Goto("abort")
AbortIfBlocked ==
  /\ At("abort")
  /\ IF IsBlocked(k, c.u) THEN Kernel(RemoveState(k, c.u)) /\ Goto("abortevent")
                          ELSE UNCHANGED k /\ ResumeThen("run")
AbortEvent ==
  /\ At("abortevent") /\ Goto("abortready")
  /\ Kernel(IF EventFree(k, c.u) THEN k
            ELSE [RemoveEvent(k, c.u) EXCEPT !.aborted[c.u] = TRUE])
AbortReady ==
  /\ At("abortready") /\ ResumeThen("run")
  /\ Kernel([prvAddTaskToReadyList(k, c.u) EXCEPT !.ypend = @ \/ Above(k, c.u)])

TaskCall ==
  \/ SimpleCall \/ Lock \/ Locked \/ Resume \/ Yield
  \/ Delay \/ DelayAdd \/ DelayUntil \/ DelayUntilAdd
  \/ Suspend \/ Suspended \/ NotifyTake \/ NotifyTaken
  \/ CatchUpTicks \/ CatchUpAdd
  \/ AbortDelay \/ AbortIfBlocked \/ AbortEvent \/ AbortReady

-----------------------------------------------------------------------------
(* Interrupts                                                               *)

TickEnabled == ~k.halted /\ k.pended < MaxPended
Tick == TickEnabled /\ Kernel(TickInterrupt(k)) /\ UNCHANGED th
TaskIsr(i) ==
  /\ ~k.halted /\ UNCHANGED th
  /\ \/ i.op = "Resume" /\ Kernel(xTaskResumeFromISR(k, i.u))
     \/ /\ i.op = "Notify" /\ k.nv[i.u] + 1 < MaxNotify
        /\ Kernel(xTaskGenericNotifyFromISR(k, i.u))

-----------------------------------------------------------------------------
(* What the modules that extend this one state about the kernel.            *)

(* configASSERT never stops the system (tasks.c:178, 206, 2181, 4928, 5067): *)
(* in particular the highest ready priority always has a task.              *)
NoAssertFails == ~k.halted

StateLists == <<k.delayed, k.overflow, k.suspended, k.dying>>
InStateLists(t) ==
  Cardinality({p \in Priority : Contains(k.ready[p], t)})
    + Cardinality({i \in DOMAIN StateLists : Contains(StateLists[i], t)})
InEventLists(t) ==
  Cardinality({l \in EventList : Contains(k.evl[l], t)})
    + IF Contains(k.pending, t) THEN 1 ELSE 0
BeingAborted(t) == th[me].pc \in {"abortevent", "abortready"} /\ c.u = t
Sorted(list, value) ==
  \A i, j \in DOMAIN list : i < j => value[list[i]] <= value[list[j]]

(* The lists of list.c hold every task once, in the list of its priority,   *)
(* and the bitmap of ready priorities says which lists are not empty: what  *)
(* taskSELECT_HIGHEST_PRIORITY_TASK relies on (tasks.c:172).                *)
TasksInLists(exists(_)) ==
  /\ \A t \in Task :
       /\ InStateLists(t) = IF exists(t) /\ ~BeingAborted(t) THEN 1 ELSE 0
       /\ InEventLists(t) <= 1
  /\ \A p \in Priority :
       /\ p \in k.top <=> Length(k.ready[p]) > 0
       /\ \A t \in Task : Contains(k.ready[p], t) => k.prio[t] = p
  /\ Sorted(k.delayed, k.wake) /\ Sorted(k.overflow, k.wake)

(* The current task has the highest priority of all that are ready, except  *)
(* while the scheduler is suspended or the task is about to yield           *)
(* (tasks.c:1090, 1741).                                                    *)
HighestRuns ==
  k.susp = 0 /\ th[me].pc \notin {"yield", "yieldagain", "created", "suspended"} /\ ~k.halted
    => /\ \A t \in ReadyTasks(k) : k.prio[t] <= k.prio[me]
       /\ me \in ReadyTasks(k)

(* Ticks until t is woken; nothing else than its time wakes a task that     *)
(* only sleeps.                                                             *)
Sleeping(x, t) == Contains(x.delayed, t) \/ Contains(x.overflow, t)
Left(x, t) == IF Contains(x.delayed, t) THEN x.wake[t] - x.tick
              ELSE x.wake[t] + TickMod - x.tick
Passed == (k.tick' - k.tick) % TickMod
OnlySleeps(t) ==
  /\ th[t].c.op \in {"Delay", "DelayUntil"} /\ th'[t].c = th[t].c
  /\ \A u \in Task : th[u].c.u = t /\ th[u].pc \notin {"run", "lock"}
                       => th[u].c.op \notin {"AbortDelay", "Suspend", "Delete"}
(* A delay lasts as many counted ticks as asked, neither more nor less,     *)
(* also across the wrap of the tick count and when ticks are held back      *)
(* (xTaskIncrementTick, prvAddCurrentTaskToDelayedList, tasks.c:2720, 5297). *)
SleepersWakeOnTime ==
  [][\A t \in Task :
       Sleeping(k, t) /\ OnlySleeps(t)
         => IF Left(k, t) > Passed
            THEN Sleeping(k', t) /\ Left(k', t) = Left(k, t) - Passed
            ELSE ~Sleeping(k', t)]_threadVars

=============================================================================
