----------------------------- MODULE RtosTasks ------------------------------
(***************************************************************************)
(* RtosThreads with the creation and deletion of tasks and the heap their  *)
(* memory comes from.                                                      *)
(***************************************************************************)
EXTENDS RtosThreads, Heap4, FiniteSetsExt

CONSTANTS
  Apps,                        \* the applications
  StackBytes, TcbBytes, Align

VARIABLE mem    \* mem[t]: the stack and the TCB of task t, none when deleted

vars == <<threadVars, mem, heapVars>>
Alive(u) == mem[u] # <<>>
Usable(u) == Alive(u) /\ ~Contains(k.dying, u)
memory == <<mem, heapVars>>

-----------------------------------------------------------------------------
StackUnits == WantedUnits(StackBytes, Align)
TcbUnits == WantedUnits(TcbBytes, Align)

(* What is taken for granted of an application.  Each task is created once  *)
(* before the scheduler starts, the idle task after them all; the arguments *)
(* are those tasks.c asserts or bounds.  A handle stays good: a task that   *)
(* may be deleted, or created later, is the target of no other call than    *)
(* its own, it is created by one task and deleted by tasks that stay or by  *)
(* itself, and the idle task is not stopped.  An interrupt resumes no task  *)
(* that waits without time-out for a notification.  The heap has room for   *)
(* what is created before the start, and fewer ticks are held back while    *)
(* the scheduler is suspended than the tick count has values.               *)
Passing(a) ==
  {u \in Task : \E t \in Task : \E d \in a.calls[t] : d.op \in {"Create", "Delete"} /\ d.u = u}
Staying(a) == ({Idle} \cup {a.order[i] : i \in DOMAIN a.order}) \ Passing(a)
Aimed == Simple \cup {"Suspend", "AbortDelay"}
Timed == {"Delay", "NotifyTake", "DelayUntil"}
CallOK(a, t, d) ==
  /\ d \in [op : Aimed \cup Timed \cup {"CatchUp", "Create", "Delete"},
            u : Task, n : Nat, locked : BOOLEAN]
  /\ d.locked => d.op \in Simple
  /\ d.op \in {"PrioritySet", "Create"} => d.n \in Priority
  /\ d.op \in Timed => d.n <= MaxDelay
  /\ d.op = "CatchUp" => d.n <= MaxPended
  /\ d.op \in Aimed => d.u \in Staying(a) \cup {t}
  /\ d.op \in {"Suspend", "Delete"} => d.u # Idle
  /\ d.op = "Delete" => t \in Staying(a) \cup {d.u}
  /\ d.op = "Create" => t \in Staying(a)
IsrOK(a, i) ==
  /\ i.op \in {"Resume", "Notify"} /\ i.u \in Staying(a)
  /\ i.op = "Resume" => \A d \in a.calls[i.u] : d.op = "NotifyTake" => d.n # MaxDelay
AppOK(a) ==
  /\ a.order \in Seq(Task \ {Idle})
  /\ \A i, j \in DOMAIN a.order : a.order[i] = a.order[j] => i = j
  /\ (Len(a.order) + 1) * (StackUnits + TcbUnits) < HeapUnits
  /\ a.prio \in [Task -> Priority] /\ a.calls[Idle] = {}
  /\ \A t \in Task : \A d \in a.calls[t] : CallOK(a, t, d)
  /\ \A t, u \in Task : \A d \in a.calls[t], e \in a.calls[u] :
       d.op = "Create" /\ e.op = "Create" /\ d.u = e.u => t = u
  /\ \A i \in a.isr : IsrOK(a, i)
ASSUME AppAssumption ==
  /\ MaxPended \in Nat /\ 2 * MaxPended < TickMod
  /\ StackBytes \in Nat /\ TcbBytes \in Nat /\ Align \in Nat \ {0}
  /\ \A a \in Apps : AppOK(a)

(* The tasks of the application and the idle task are created before the    *)
(* scheduler starts, their memory one block after the other.                *)
Init ==
  /\ ThreadInit(Apps)
  /\ LET all == Append(app.order, Idle)
         each == StackUnits + TcbUnits
         stack(i) == [at |-> (i - 1) * each, size |-> StackUnits]
         tcb(i) == [at |-> (i - 1) * each + StackUnits, size |-> TcbUnits]
         left == HeapUnits - Len(all) * each
     IN /\ mem = [t \in Task |-> IF Contains(all, t)
                    THEN LET i == SelectInSeq(all, LAMBDA x : x = t)
                         IN <<stack(i), tcb(i)>>
                    ELSE <<>>]
        /\ used = UNION {{stack(i), tcb(i)} : i \in DOMAIN all}
        /\ free = {[at |-> Len(all) * each, size |-> left]}
        /\ leaving = {}
        /\ xFreeBytesRemaining = left /\ xMinimumEverFreeBytesRemaining = left

-----------------------------------------------------------------------------
(* Creation and deletion                                                    *)

(* pvPortMalloc for the stack, then for the TCB; without one of them the    *)
(* other is given back.  vApplicationMallocFailedHook, which is the         *)
(* application's, returns; that of the demonstration stops the system.      *)
Malloc(wanted, next, fail) ==
  /\ Kernel(vTaskSuspendAll(k)) /\ UNCHANGED mem
  /\ IF Fits(wanted)
     THEN \E b \in free :
            /\ Allocate(b, wanted)
            /\ \E new \in used' \ used :
                 th' = [th EXCEPT ![me].pc = "resume", ![me].to = next,
                                  ![me].got = Append(@, new)]
     ELSE ResumeThen(fail) /\ UNCHANGED heapVars
CreateStack == At("Create") /\ Malloc(StackUnits, "createtcb", "run")
CreateTcb == At("createtcb") /\ Malloc(TcbUnits, "createadd", "free")
CreateAdd ==
  /\ At("createadd") /\ UNCHANGED heapVars
  /\ Kernel(prvAddNewTaskToReadyList(k, c.u, c.n))
  /\ mem' = [mem EXCEPT ![c.u] = th[me].got]
  /\ th' = [th EXCEPT ![c.u] = Fresh, ![me].got = <<>>, ![me].pc = "created"]
(* The priority is read from the new TCB, which may be gone by now.         *)
Created ==
  /\ At("created") /\ Goto("run") /\ UNCHANGED memory
  /\ \/ Alive(c.u) /\ Kernel(YieldIf(k, Above(k, c.u)))
     \/ ~Alive(c.u) /\ \E b \in BOOLEAN : Kernel(YieldIf(k, b))

(* vTaskDelete: the memory of the task itself is left to the idle task.     *)
(* The application does not delete a task that has deleted itself.          *)
NotDeleted == At("Delete") /\ ~Usable(c.u) /\ Goto("run") /\ UNCHANGED k /\ UNCHANGED memory
(* A plausible mistake: only the TCB of a deleted task is freed.            *)
DeleteKeepsStack ==
  /\ At("Delete") /\ Usable(c.u) /\ UNCHANGED heapVars
  /\ Kernel(DeleteTask(k, c.u))
  /\ IF c.u = me THEN Goto("yield") /\ UNCHANGED mem
     ELSE /\ th' = [th EXCEPT ![me].pc = "free", ![me].got = Tail(mem[c.u])]
          /\ mem' = [mem EXCEPT ![c.u] = <<>>]
Delete ==
  /\ At("Delete") /\ Usable(c.u) /\ UNCHANGED heapVars
  /\ Kernel(DeleteTask(k, c.u))
  /\ IF c.u = me THEN Goto("yield") /\ UNCHANGED mem
     ELSE /\ th' = [th EXCEPT ![me].pc = "free", ![me].got = mem[c.u]]
          /\ mem' = [mem EXCEPT ![c.u] = <<>>]
(* prvCheckTasksWaitingTermination *)
CleanUp ==
  /\ At("run") /\ me = Idle /\ k.ndying > 0 /\ UNCHANGED heapVars
  /\ LET u == Head(k.dying) IN
     /\ Kernel([RemoveState(k, u) EXCEPT !.ntasks = @ - 1, !.ndying = @ - 1])
     /\ th' = [th EXCEPT ![me].pc = "free", ![me].got = mem[u]]
     /\ mem' = [mem EXCEPT ![u] = <<>>]
(* prvDeleteTCB: vPortFree for each block. *)
FreeMark ==
  /\ At("free") /\ heapFREE_BLOCK(Head(th[me].got)) /\ Goto("release")
  /\ UNCHANGED <<k, mem>>
FreeRelease ==
  /\ At("release") /\ Release(Head(th[me].got)) /\ UNCHANGED mem
  /\ Kernel(vTaskSuspendAll(k))
  /\ th' = [th EXCEPT ![me].pc = "resume", ![me].got = Tail(@),
              ![me].to = IF Len(th[me].got) = 1 THEN "run" ELSE "free"]

-----------------------------------------------------------------------------
Begin ==
  /\ \E d \in app.calls[me] :
       /\ IF d.op = "Create" THEN ~Alive(d.u) ELSE Usable(d.u)
       /\ BeginCall(d)
  /\ UNCHANGED memory

(* Calls that leave the heap alone, and interrupts. *)
Calls == TaskCall /\ UNCHANGED memory
Ticks == Tick /\ UNCHANGED memory
Interrupts == (\E i \in app.isr : Alive(i.u) /\ TaskIsr(i)) /\ UNCHANGED memory

InCall ==
  \/ Calls \/ CreateStack \/ CreateTcb \/ CreateAdd \/ Created
  \/ NotDeleted \/ Delete \/ FreeMark \/ FreeRelease
Next == (Begin \/ CleanUp \/ InCall \/ Ticks \/ Interrupts) /\ UNCHANGED app

(* The tick keeps coming, and a call that was begun goes on while its task  *)
(* is current; what a task does between calls takes any time.  Weak         *)
(* fairness is written out: TLC evaluates ENABLED of these actions slowly.  *)
InCallEnabled == ~k.halted /\ th[me].pc # "run"
CleanUpEnabled == ~k.halted /\ me = Idle /\ th[me].pc = "run" /\ k.ndying > 0
Fairness ==
  /\ []<>~InCallEnabled \/ []<><<InCall>>_vars
  /\ []<>~CleanUpEnabled \/ []<><<CleanUp>>_vars
  /\ []<>~TickEnabled \/ []<><<Ticks>>_vars
Spec == Init /\ [][Next]_vars
FairSpec == Spec /\ Fairness

-----------------------------------------------------------------------------
(* Properties *)

TypeOK ==
  /\ k.cur \in Task /\ k.top \subseteq Priority
  /\ k.ready \in [Priority -> Seq(Task \cup {END})]
  /\ \A l \in {k.delayed, k.overflow, k.pending, k.suspended, k.dying} : l \in Seq(Task)
  /\ k.prio \in [Task -> Priority] /\ k.base \in [Task -> Priority]
  /\ k.wake \in [Task -> 0..MaxDelay] /\ {k.tick, k.unblock} \subseteq 0..MaxDelay
  /\ k.ns \in [Task -> {"none", "waiting", "received"}]
  /\ k.nv \in [Task -> Nat]
  /\ k.susp \in 0..1 /\ k.pended \in 0..2 * MaxPended /\ k.ypend \in BOOLEAN
  /\ (k.pended > 0 => k.susp > 0)
  /\ HeapTypeOK

(* The lists of list.c hold every task once, in the list of its priority,   *)
(* and the bitmap of ready priorities says which lists are not empty: what  *)
(* taskSELECT_HIGHEST_PRIORITY_TASK relies on (tasks.c:172).                *)
ListsConsistent ==
  /\ TasksInLists(Alive)
  /\ k.ndying = Len(k.dying) /\ k.ntasks = Cardinality({t \in Task : Alive(t)})

(* The scheduler's lists, counts and times are what tasks.c takes them for,  *)
(* whatever calls and interrupts came before (tasks.c:172, 1094, 2779).     *)
SchedulerSound == TypeOK /\ ListsConsistent

(* A task that sleeps for a notification has not been given one: the check  *)
(* and the wait are one, and every way to notify finds the waiter           *)
(* (tasks.c:4702, 4922, 5064).  A task that was suspended meanwhile does    *)
(* not sleep for it any more.                                               *)
AsleepForNotification(t) ==
  th[t].pc = "taken" /\ ~Contains(k.pending, t) /\ Sleeping(k, t)
NoMissedNotification ==
  \A t \in Task : k.ns[t] = "waiting" \/ AsleepForNotification(t) => k.nv[t] = 0

(* The memory of a task stays its own from its creation until it is in no   *)
(* list any more, all memory in use belongs to a task or to a call that is  *)
(* under way, and the count of free memory is exact (tasks.c:1188, 3699,    *)
(* heap_4.c:235, 322).                                                      *)
MemoryOwned ==
  /\ \A t \in Task : Alive(t) => Range(mem[t]) \subseteq used
  /\ \A t, u \in Task : t # u => Range(mem[t]) \cap Range(mem[u]) = {}
  /\ used \cup leaving
       = UNION ({Range(mem[t]) : t \in Task} \cup {Range(th[t].got) : t \in Task})
  /\ xFreeBytesRemaining = MapThenSumSet(LAMBDA b : b.size, free)
  /\ xMinimumEverFreeBytesRemaining <= xFreeBytesRemaining

(* A task that stays ready at the highest ready priority gets its turn      *)
(* (time slicing, list.c:98).                                               *)
Waits(t) == t \in ReadyTasks(k) /\ k.prio[t] = Max(k.top)
EqualShare == \A t \in Task \ {Idle} : Waits(t) ~> (me = t \/ ~Waits(t))
=============================================================================
