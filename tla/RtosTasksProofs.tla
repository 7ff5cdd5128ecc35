-------------------------- MODULE RtosTasksProofs ---------------------------
(***************************************************************************)
(* Theorems about the tasks and the heap their memory comes from: for      *)
(* every set of tasks, application, number of priorities, width of the     *)
(* tick count and size of the heap, and whatever calls and interrupts come *)
(* in what order.                                                          *)
(*                                                                         *)
(* KernelInv (RtosKernelProofs) says that the task a call holds on to is   *)
(* still there, that the scheduler is suspended by the current task alone, *)
(* that the best task runs or a switch is owed, and that a task that waits *)
(* for a notification has none. Inv, which adds HeapInv, is inductive: one *)
(* lemma per step of a call (Call...), one per action (...Keeps), and      *)
(* InvStep.                                                                *)
(*                                                                         *)
(* MemInv is preserved on top of Inv: Own says which task or which call    *)
(* owns each block in use, Summed that the count of free memory is the sum *)
(* of the free blocks.                                                     *)
(*                                                                         *)
(* So is Awaited, which says that no task that only sleeps is to be woken  *)
(* by xTaskResumeAll. With it every step either takes no time and leaves   *)
(* the sleepers alone (StepRests), or counts so many ticks for them all    *)
(* (TimeSteps).                                                            *)
(***************************************************************************)
EXTENDS RtosKernelProofs

-----------------------------------------------------------------------------
(* Steps while the scheduler runs                                           *)
LEMMA OutOfLock ==
  ASSUME NEW x, NEW h, NEW m, NEW a, NEW at, KernelInv(x, h, m, a, at), h[x.cur].pc \notin SuspPc
  PROVE  /\ AppOK(a) /\ Sound(x, at) /\ Situated(x, h, m, a, at) /\ Locking(x, h, a) /\ OnTurn(x, h, at)
         /\ Heeds(x, h, at) /\ Tally(x, m)
         /\ x.cur \in Task /\ h \in [Task -> ThreadState] /\ Threads(h, m, a) /\ Thread(h[x.cur], m, a.calls[x.cur])
         /\ h[x.cur] \in ThreadState /\ x.susp = 0 /\ x.pending = <<>> /\ x.pended = 0
         /\ \A t \in Task : h[t].pc \notin SuspPc /\ ~Abandoned(h, t)
<1>1. /\ AppOK(a) /\ Sound(x, at) /\ Situated(x, h, m, a, at) /\ Locking(x, h, a) /\ OnTurn(x, h, at)
      /\ Heeds(x, h, at) /\ Tally(x, m)
  BY DEF KernelInv
<1>2. x.cur \in Task /\ h \in [Task -> ThreadState] /\ Threads(h, m, a) /\ h[x.cur] \in ThreadState
      /\ Thread(h[x.cur], m, a.calls[x.cur])
  BY Running
<1>3. x.susp = 0 /\ x.pending = <<>> /\ x.pended = 0 /\ \A t \in Task : h[t].pc \notin SuspPc
  BY <1>1, <1>2 DEF Locking
<1>4. \A t \in Task : ~Abandoned(h, t)
  BY <1>3 DEF Abandoned, AbortPc, SuspPc
<1> QED BY <1>1, <1>2, <1>3, <1>4

LEMMA StillUnlocked ==
  ASSUME NEW h, NEW t \in Task, \A u \in Task : h[u].pc \notin SuspPc,
         NEW g, \A u \in Task \ {t} : g[u].pc = h[u].pc, g[t].pc \notin SuspPc,
         NEW y, y.cur \in Task, y.susp = 0, y.pending = <<>>, y.pended = 0, NEW a
  PROVE  Locking(y, g, a) /\ \A u \in Task : ~Abandoned(g, u)
<1>1. \A u \in Task : g[u].pc \notin SuspPc
  OBVIOUS
<1>2. Locking(y, g, a)
  BY <1>1, Unlocked
<1>3. \A u \in Task : ~Abandoned(g, u)
  BY <1>1 DEF Abandoned, AbortPc, SuspPc
<1> QED BY <1>2, <1>3

LEMMA BestTurn ==
  ASSUME NEW y, NEW g, NEW to, Sound(y, to), y.susp = 0, Best(y, to)
  PROVE  OnTurn(y, g, to)
<1>1. \A i, j \in Priority : i <= j => ~(i > j)
  BY Numbers
<1>2. y.prio \in [Task -> Priority] /\ y.cur \in Task
  BY DEF Sound, Shape, KernelState
<1> QED BY <1>1, <1>2 DEF OnTurn, Best, NoneAbove

(* The current task stays the best when no other task becomes ready.        *)
LEMMA TurnKept ==
  ASSUME NEW x, NEW h, NEW at, OnTurn(x, h, at), x.susp = 0,
         h[x.cur].pc \notin {"yield", "created"}, h[x.cur].pc = "suspended" => h[x.cur].c.u # x.cur,
         NEW y, NEW g, NEW to, y.cur = x.cur, y.susp = 0, y.prio = x.prio,
         at[x.cur] = "ready" => to[x.cur] = "ready", \A t \in Task : to[t] = "ready" => at[t] = "ready"
  PROVE  OnTurn(y, g, to)
<1>1. at[x.cur] = "ready" /\ \A t \in Task : at[t] = "ready" => ~(x.prio[t] > x.prio[x.cur])
  BY SMTT(30) DEF OnTurn
<1> QED BY <1>1 DEF OnTurn

(* vTaskSuspend.                                                            *)
LEMMA CallSuspends ==
  ASSUME NEW x, NEW h, NEW m, NEW a, NEW at, KernelInv(x, h, m, a, at), h[x.cur].pc = "Suspend",
         NEW u, u = h[x.cur].c.u, NEW y, y = SuspendTask(x, u),
         NEW g, g = [h EXCEPT ![x.cur].pc = "suspended", ![x.cur].to = "run"]
  PROVE  \E to : KernelInv(y, g, m, a, to)
<1>1. h[x.cur].pc \notin SuspPc /\ h[x.cur].pc \notin AbortPc
  BY DEF SuspPc, AbortPc
<1>2. /\ AppOK(a) /\ Sound(x, at) /\ Situated(x, h, m, a, at) /\ OnTurn(x, h, at)
      /\ Heeds(x, h, at) /\ Tally(x, m)
      /\ x.cur \in Task /\ h \in [Task -> ThreadState] /\ Threads(h, m, a) /\ Thread(h[x.cur], m, a.calls[x.cur])
      /\ x.susp = 0 /\ x.pending = <<>> /\ x.pended = 0
      /\ \A t \in Task : h[t].pc \notin SuspPc /\ ~Abandoned(h, t)
  BY <1>1, OutOfLock
<1>3. u \in Staying(a) \cup {x.cur} /\ u # Idle
  <2>1. h[x.cur].c.op = "Suspend"
    BY <1>2 DEF Thread, OpOf
  <2>2. CallOK(a, x.cur, h[x.cur].c)
    BY <1>2, <2>1, InOwnCall
  <2> QED BY <2>1, <2>2 DEF CallOK, Aimed
<1>4. at[x.cur] = "ready"
  BY CurrentReady
<1>5. u \in Task \ {Idle} /\ at[u] # "none" /\ at[u] # "dying"
  <2>1. u \in Task /\ at[u] # "none" /\ (u # x.cur => at[u] # "dying")
    BY <1>1, <1>3, AimedAt
  <2> QED BY <1>3, <1>4, <2>1
<1>6. PICK to : Suspends(x, y, at, to, u)
  BY SMTT(30), <1>2, <1>5, SuspendedTask
<1>7. /\ Sound(y, to) /\ to = [at EXCEPT ![u] = "suspended"] /\ Same(x, y, StateLinks \cup {"top", "pending", "ns"})
      /\ y.dying = x.dying /\ y.pending = <<>>
      /\ y.ns = [x.ns EXCEPT ![u] = IF x.ns[u] = "waiting" THEN "none" ELSE x.ns[u]]
  <2>1. Range(<<>>) = {} /\ u \notin Range(x.pending)
    BY ONLY <1>2 DEF Range
  <2> QED BY <1>2, <1>6, <2>1 DEF Suspends
<1>8. /\ y.cur = x.cur /\ y.susp = x.susp /\ y.nv = x.nv /\ y.pended = x.pended
      /\ y.ntasks = x.ntasks /\ y.ndying = x.ndying /\ y.prio = x.prio
  BY <1>7 DEF Same, Fields, StateLinks
<1>9. at \in [Task -> Places] /\ x.ns \in [Task -> {"none", "waiting", "received"}]
  BY <1>2 DEF Sound, Shape, Listed, KernelState
<1>10. \A t \in Task : to[t] = IF t = u THEN "suspended" ELSE at[t]
  BY <1>5, <1>7, <1>9
<1>11. PICK p, q, e, w : Goes(h, g, x.cur, p, q, e, w) /\ p = "suspended" /\ q = "run"
  <2>1. "suspended" \in PC /\ "run" \in TO
    BY DEF PC, TO
  <2> QED BY <1>2, <2>1, Went
<1>12. g[x.cur].pc = p /\ g[x.cur].c = h[x.cur].c /\ \A t \in Task \ {x.cur} : g[t] = h[t]
  <2>1. Goes(h, g, x.cur, p, q, e, w)
    BY <1>11
  <2> QED BY ONLY <2>1, GoesFields
<1>13. Threads(g, m, a)
  <2>1. OpOf(p, h[x.cur].c.op)
    BY <1>2, <1>11 DEF Thread, OpOf, Simple
  <2> QED BY <1>2, <1>11, <2>1, Threaded
<1>14. Locking(y, g, a) /\ \A t \in Task : ~Abandoned(g, t)
  <2>1. g[x.cur].pc \notin SuspPc
    BY <1>11, <1>12 DEF SuspPc
  <2>2. y.cur \in Task /\ y.susp = 0 /\ y.pending = <<>> /\ y.pended = 0
    BY ONLY <1>2, <1>7, <1>8
  <2> QED BY ONLY <1>2, <1>12, <2>1, <2>2, StillUnlocked
<1>15. Situated(y, g, m, a, to)
  BY ZenonT(30), <1>2, <1>5, <1>8, <1>10, <1>14 DEF Situated
<1>16. OnTurn(y, g, to)
  <2>1. CASE u = x.cur
    <3>1. y.susp = 0 /\ g[y.cur].pc = "suspended" /\ g[y.cur].c.u = y.cur
      BY <1>2, <1>8, <1>11, <1>12, <2>1
    <3> QED BY ONLY <3>1 DEF OnTurn
  <2>2. CASE u # x.cur
    <3>1. to[x.cur] = "ready" /\ \A t \in Task : to[t] = "ready" => at[t] = "ready"
      BY <1>2, <1>4, <1>10, <2>2
    <3> QED BY <1>2, <1>8, <3>1, TurnKept
  <2> QED BY <2>1, <2>2
<1>17. Heeds(y, g, to)
  <2>1. PICK U : U = {x.cur, u}
    OBVIOUS
  <2>2. y.ns[x.cur] # "waiting" /\ y.ns[u] # "waiting"
    <3>1. x.ns[x.cur] # "waiting"
      BY <1>2 DEF Heeds
    <3> QED BY <1>2, <1>5, <1>7, <1>9, <3>1
  <2>3. g[x.cur].pc # "taken" /\ to[u] \notin Asleep
    BY ONLY <1>5, <1>10, <1>11, <1>12 DEF Asleep
  <2>4. \A t \in Task \ U : /\ y.ns[t] = x.ns[t] /\ y.nv[t] = x.nv[t] /\ g[t] = h[t] /\ to[t] = at[t]
                            /\ t \in Range(y.pending) <=> t \in Range(x.pending)
    BY ZenonT(30), <1>2, <1>5, <1>7, <1>8, <1>9, <1>10, <1>12, <2>1
  <2>5. Unconcerned(x, h, at, y, g, to, U)
    BY ZenonT(30), <2>1, <2>2, <2>3, <2>4 DEF Unconcerned
  <2> QED BY <1>2, <2>5, HeedsOn
<1>18. Tally(y, m)
  BY <1>2, <1>7, <1>8 DEF Tally
<1> QED BY ZenonT(30), <1>2, <1>7, <1>13, <1>14, <1>15, <1>16, <1>17, <1>18 DEF KernelInv

LEMMA CallResetsTime ==
  ASSUME NEW x, NEW h, NEW m, NEW a, NEW at, KernelInv(x, h, m, a, at), h[x.cur].pc = "suspended",
         NEW y, y = prvResetNextTaskUnblockTime(x), NEW n, n = IF h[x.cur].c.u = x.cur THEN "yield" ELSE "run",
         NEW g, g = [h EXCEPT ![x.cur].pc = n, ![x.cur].to = "run"]
  PROVE  KernelInv(y, g, m, a, at)
<1>1. h[x.cur].pc \notin SuspPc /\ h[x.cur].pc # "taken"
  BY DEF SuspPc
<1>2. /\ AppOK(a) /\ Sound(x, at) /\ Situated(x, h, m, a, at) /\ OnTurn(x, h, at)
      /\ Heeds(x, h, at) /\ Tally(x, m)
      /\ x.cur \in Task /\ h \in [Task -> ThreadState] /\ Threads(h, m, a) /\ Thread(h[x.cur], m, a.calls[x.cur])
      /\ x.susp = 0 /\ x.pending = <<>> /\ x.pended = 0
      /\ \A t \in Task : h[t].pc \notin SuspPc /\ ~Abandoned(h, t)
  BY <1>1, OutOfLock
<1>3. Sound(y, at) /\ Same(x, y, {"unblock"})
  BY <1>2, TimeResetSound
<1>4. /\ y.cur = x.cur /\ y.susp = x.susp /\ y.ns = x.ns /\ y.nv = x.nv /\ y.pended = x.pended /\ y.pending = x.pending
      /\ y.dying = x.dying /\ y.ntasks = x.ntasks /\ y.ndying = x.ndying /\ y.prio = x.prio
  BY <1>3 DEF Same, Fields
<1>5. PICK p, q, e, w : Goes(h, g, x.cur, p, q, e, w) /\ p = n /\ q = "run"
  <2>1. n \in PC /\ "run" \in TO
    BY DEF PC, TO
  <2> QED BY <1>2, <2>1, Went
<1>6. g[x.cur].pc = p /\ g[x.cur].c = h[x.cur].c /\ \A t \in Task \ {x.cur} : g[t] = h[t]
  <2>1. Goes(h, g, x.cur, p, q, e, w)
    BY <1>5
  <2> QED BY ONLY <2>1, GoesFields
<1>7. Threads(g, m, a)
  <2>0. p \in {"yield", "run"}
    BY <1>5
  <2>1. OpOf(p, h[x.cur].c.op)
    BY <2>0, OpOfNone
  <2> QED BY <1>2, <1>5, <2>0, <2>1, Threaded
<1>8. g[x.cur].pc \notin SuspPc /\ g[x.cur].pc # "taken"
  BY <1>5, <1>6 DEF SuspPc
<1>9. Locking(y, g, a) /\ \A t \in Task : ~Abandoned(g, t)
  <2>2. y.cur \in Task /\ y.susp = 0 /\ y.pending = <<>> /\ y.pended = 0
    BY <1>2, <1>4
  <2> QED BY ONLY <1>2, <1>6, <1>8, <2>2, StillUnlocked
<1>10. Situated(y, g, m, a, at)
  BY <1>2, <1>4, <1>9 DEF Situated
<1>11. OnTurn(y, g, at)
  <2>1. CASE h[x.cur].c.u = x.cur
    BY <1>2, <1>4, <1>5, <1>6, <2>1 DEF OnTurn
  <2>2. CASE h[x.cur].c.u # x.cur
    BY <1>2, <1>4, <2>2, TurnKept
  <2> QED BY <2>1, <2>2
<1>12. Heeds(y, g, at)
  <2>1. Undisturbed(x, at, y, at)
    BY <1>4 DEF Undisturbed
  <2>2. /\ Heeds(x, h, at) /\ (\A t \in Task \ {x.cur} : g[t] = h[t])
        /\ h[x.cur].pc # "taken" /\ g[x.cur].pc # "taken"
    BY <1>1, <1>2, <1>6, <1>8
  <2> QED BY ONLY <2>1, <2>2, HeedsStill
<1>13. Tally(y, m)
  BY <1>2, <1>4 DEF Tally
<1> QED BY <1>2, <1>3, <1>7, <1>9, <1>10, <1>11, <1>12, <1>13 DEF KernelInv

(* ulTaskNotifyTake: there is a notification, or the task does not wait.    *)
LEMMA CallTakes ==
  ASSUME NEW x, NEW h, NEW m, NEW a, NEW at, KernelInv(x, h, m, a, at), h[x.cur].pc = "NotifyTake",
         NEW y, \/ y = x /\ x.nv[x.cur] > 0
                \/ y = [x EXCEPT !.ns[x.cur] = "waiting"] /\ ~(x.nv[x.cur] > 0),
         NEW g, g = [h EXCEPT ![x.cur].pc = "taken", ![x.cur].to = "run"]
  PROVE  KernelInv(y, g, m, a, at)
<1>1. h[x.cur].pc \notin SuspPc /\ h[x.cur].pc # "taken"
  BY DEF SuspPc
<1>2. /\ AppOK(a) /\ Sound(x, at) /\ Situated(x, h, m, a, at) /\ OnTurn(x, h, at)
      /\ Heeds(x, h, at) /\ Tally(x, m)
      /\ x.cur \in Task /\ h \in [Task -> ThreadState] /\ Threads(h, m, a) /\ Thread(h[x.cur], m, a.calls[x.cur])
      /\ x.susp = 0 /\ x.pending = <<>> /\ x.pended = 0
      /\ \A t \in Task : h[t].pc \notin SuspPc /\ ~Abandoned(h, t)
  BY <1>1, OutOfLock
<1>3. at[x.cur] = "ready"
  BY CurrentReady
<1>4. x.ns \in [Task -> {"none", "waiting", "received"}] /\ x.nv \in [Task -> Nat]
  BY <1>2 DEF Sound, Shape, KernelState
<1>5. PICK s : s = y.ns
  OBVIOUS
<1>6. /\ Sound(y, at) /\ Same(x, y, {"ns", "nv"}) /\ y.nv = x.nv
      /\ s = x.ns \/ (s = [x.ns EXCEPT ![x.cur] = "waiting"] /\ x.nv[x.cur] = 0)
  <2>1. CASE y = x
    BY <1>2, <1>5, <2>1 DEF Same
  <2>2. CASE y = [x EXCEPT !.ns[x.cur] = "waiting"] /\ ~(x.nv[x.cur] > 0)
    <3>1. PICK r : r = [x.ns EXCEPT ![x.cur] = "waiting"]
      OBVIOUS
    <3>2. r \in [Task -> {"none", "waiting", "received"}]
      BY <1>2, <1>4, <3>1
    <3>3. y = [x EXCEPT !.ns = r, !.nv = x.nv]
      BY <1>2, <2>2, <3>1 DEF Sound, Shape, KernelState
    <3>4. Noted(x, y, at, r, x.nv)
      BY <1>2, <1>4, <3>2, <3>3, NotesChanged
    <3>5. x.nv[x.cur] \in Nat
      BY <1>2, <1>4
    <3>6. x.nv[x.cur] = 0
      BY <2>2, <3>5
    <3> QED BY <1>5, <3>1, <3>4, <3>6 DEF Noted
  <2> QED BY <2>1, <2>2
<1>7. /\ y.cur = x.cur /\ y.susp = x.susp /\ y.pended = x.pended /\ y.pending = x.pending
      /\ y.dying = x.dying /\ y.ntasks = x.ntasks /\ y.ndying = x.ndying /\ y.prio = x.prio
  BY <1>6 DEF Same, Fields
<1>8. PICK p, q, e, w : Goes(h, g, x.cur, p, q, e, w) /\ p = "taken" /\ q = "run"
  <2>1. "taken" \in PC /\ "run" \in TO
    BY DEF PC, TO
  <2> QED BY <1>2, <2>1, Went
<1>9. g[x.cur].pc = p /\ g[x.cur].c = h[x.cur].c /\ \A t \in Task \ {x.cur} : g[t] = h[t]
  <2>1. Goes(h, g, x.cur, p, q, e, w)
    BY <1>8
  <2> QED BY ONLY <2>1, GoesFields
<1>10. Threads(g, m, a)
  <2>1. OpOf(p, h[x.cur].c.op)
    BY <1>2, <1>8 DEF Thread, OpOf, Simple
  <2> QED BY <1>2, <1>8, <2>1, Threaded
<1>11. Locking(y, g, a) /\ \A t \in Task : ~Abandoned(g, t)
  <2>1. g[x.cur].pc \notin SuspPc
    BY <1>8, <1>9 DEF SuspPc
  <2>2. y.cur \in Task /\ y.susp = 0 /\ y.pending = <<>> /\ y.pended = 0
    BY <1>2, <1>7
  <2> QED BY ONLY <1>2, <1>9, <2>1, <2>2, StillUnlocked
<1>12. Situated(y, g, m, a, at)
  BY <1>2, <1>7, <1>11 DEF Situated
<1>13. OnTurn(y, g, at)
  BY <1>2, <1>7, TurnKept
<1>14. Heeds(y, g, at)
  <2>0. x.ns[x.cur] # "waiting" /\ at[x.cur] \notin Asleep /\ at[x.cur] # "suspended" /\ Range(<<>>) = {}
    BY <1>1, <1>2, <1>3 DEF Heeds, Asleep, Range
  <2>1. ASSUME NEW t \in Task, s[t] = "waiting"
        PROVE  /\ g[t].pc = "taken" /\ y.nv[t] = 0 /\ t \notin Range(y.pending)
               /\ at[t] = "suspended" => g[t].c.n = MaxDelay
    <3>1. CASE t = x.cur
      <4>1. x.nv[x.cur] = 0
        BY <1>6, <2>0, <2>1, <3>1
      <4> QED BY <1>2, <1>6, <1>7, <1>8, <1>9, <2>0, <3>1, <4>1
    <3>2. CASE t # x.cur
      <4>1. x.ns[t] = "waiting"
        BY <1>4, <1>6, <2>1, <3>2
      <4>2. h[t].pc = "taken" /\ x.nv[t] = 0 /\ t \notin Range(x.pending) /\ (at[t] = "suspended" => h[t].c.n = MaxDelay)
        BY <1>2, <4>1 DEF Heeds
      <4> QED BY <1>6, <1>7, <1>9, <3>2, <4>2
    <3> QED BY <3>1, <3>2
  <2>2. ASSUME NEW t \in Task, g[t].pc = "taken", at[t] \in Asleep, t \notin Range(y.pending) PROVE s[t] = "waiting"
    <3>1. t # x.cur
      BY <2>0, <2>2
    <3>2. x.ns[t] = "waiting"
      BY <1>2, <1>7, <1>9, <2>2, <3>1 DEF Heeds
    <3> QED BY <1>2, <1>4, <1>6, <3>1, <3>2
  <2> QED BY <1>5, <2>1, <2>2 DEF Heeds
<1>15. Tally(y, m)
  BY ONLY <1>2, <1>7 DEF Tally
<1> QED BY <1>2, <1>6, <1>10, <1>11, <1>12, <1>13, <1>14, <1>15 DEF KernelInv

(* ulTaskNotifyTake: the task waits, another runs.                          *)
LEMMA CallWaits ==
  ASSUME NEW x, NEW h, NEW m, NEW a, NEW at, KernelInv(x, h, m, a, at), h[x.cur].pc = "NotifyTake",
         NEW n, n = h[x.cur].c.n, n # 0, ~(x.nv[x.cur] > 0),
         NEW z, z = [x EXCEPT !.ns[x.cur] = "waiting"],
         NEW y, y = vTaskSwitchContext(prvAddCurrentTaskToDelayedList(z, n, TRUE)),
         NEW g, g = [h EXCEPT ![x.cur].pc = "taken", ![x.cur].to = "run"]
  PROVE  \E to : KernelInv(y, g, m, a, to)
<1>1. h[x.cur].pc \notin SuspPc /\ h[x.cur].pc # "taken"
  BY DEF SuspPc
<1>2. /\ AppOK(a) /\ Sound(x, at) /\ Situated(x, h, m, a, at) /\ OnTurn(x, h, at)
      /\ Heeds(x, h, at) /\ Tally(x, m)
      /\ x.cur \in Task /\ h \in [Task -> ThreadState] /\ Threads(h, m, a) /\ Thread(h[x.cur], m, a.calls[x.cur])
      /\ x.susp = 0 /\ x.pending = <<>> /\ x.pended = 0
      /\ \A t \in Task : h[t].pc \notin SuspPc /\ ~Abandoned(h, t)
  BY <1>1, OutOfLock
<1>3. at[x.cur] = "ready"
  BY CurrentReady
<1>4. x.cur # Idle /\ n \in 1..MaxDelay
  <2>1. h[x.cur].c.op = "NotifyTake"
    BY <1>2 DEF Thread, OpOf
  <2>2. x.cur # Idle /\ CallOK(a, x.cur, h[x.cur].c) /\ h[x.cur].c \in Call
    BY <1>2, <2>1, InOwnCall
  <2>3. n \in Nat /\ n <= MaxDelay
    BY <2>1, <2>2 DEF CallOK, Timed, Call
  <2> QED BY <2>2, <2>3, Numbers
<1>5. PICK place : Waiting(x, y, at, place, n)
  BY <1>2, <1>3, <1>4, WaitsForNotification
<1>6. PICK to : to = [at EXCEPT ![x.cur] = place]
  OBVIOUS
<1>7. /\ Sound(y, to) /\ Best(y, to) /\ Same(x, y, WaitStep) /\ y.dying = x.dying
      /\ y.ns = [x.ns EXCEPT ![x.cur] = "waiting"]
      /\ place \in {"delayed", "overflow", "suspended"} /\ (place = "suspended" => n = MaxDelay)
  BY <1>5, <1>6 DEF Waiting
<1>8. /\ y.susp = 0 /\ y.pended = 0 /\ y.pending = <<>> /\ y.nv = x.nv
      /\ y.ntasks = x.ntasks /\ y.ndying = x.ndying
  BY ZenonT(30), <1>2, <1>7 DEF Same, Fields, WaitStep, StateLinks
<1>9. y.cur \in Task /\ at \in [Task -> Places] /\ x.ns \in [Task -> {"none", "waiting", "received"}]
      /\ x.nv \in [Task -> Nat]
  BY ZenonT(30), <1>2, <1>7 DEF Sound, Shape, Listed, KernelState
<1>10. \A t \in Task : to[t] = IF t = x.cur THEN place ELSE at[t]
  BY <1>2, <1>6, <1>9
<1>11. \A t \in Task : y.ns[t] = IF t = x.cur THEN "waiting" ELSE x.ns[t]
  BY <1>2, <1>7, <1>9
<1>12. PICK p, q, e, w : Goes(h, g, x.cur, p, q, e, w) /\ p = "taken" /\ q = "run"
  <2>1. "taken" \in PC /\ "run" \in TO
    BY DEF PC, TO
  <2> QED BY <1>2, <2>1, Went
<1>13. g[x.cur].pc = p /\ g[x.cur].c = h[x.cur].c /\ \A t \in Task \ {x.cur} : g[t] = h[t]
  <2>1. Goes(h, g, x.cur, p, q, e, w)
    BY <1>12
  <2> QED BY ONLY <2>1, GoesFields
<1>14. Threads(g, m, a)
  <2>1. OpOf(p, h[x.cur].c.op)
    BY <1>2, <1>12 DEF Thread, OpOf, Simple
  <2> QED BY <1>2, <1>12, <2>1, Threaded
<1>15. Locking(y, g, a) /\ \A t \in Task : ~Abandoned(g, t)
  <2>1. g[x.cur].pc \notin SuspPc
    BY ONLY <1>12, <1>13 DEF SuspPc
  <2> QED BY ONLY <1>2, <1>8, <1>9, <1>13, <2>1, StillUnlocked
<1>16. Situated(y, g, m, a, to)
  <2>1. to[y.cur] # "none"
    BY <1>7 DEF Best
  <2> QED BY ZenonT(30), <1>2, <1>3, <1>7, <1>10, <1>15, <2>1 DEF Situated
<1>17. OnTurn(y, g, to)
  BY <1>7, <1>8, BestTurn
<1>18. Heeds(y, g, to)
  <2>0. Range(<<>>) = {} /\ x.nv[x.cur] = 0
    <3>1. x.nv[x.cur] \in Nat
      BY <1>2, <1>9
    <3> QED BY <3>1 DEF Range
  <2>1. ASSUME NEW t \in Task, y.ns[t] = "waiting"
        PROVE  /\ g[t].pc = "taken" /\ y.nv[t] = 0 /\ t \notin Range(y.pending)
               /\ to[t] = "suspended" => g[t].c.n = MaxDelay
    <3>1. CASE t = x.cur
      BY ZenonT(30), <1>7, <1>8, <1>10, <1>12, <1>13, <2>0, <3>1
    <3>2. CASE t # x.cur
      <4>1. h[t].pc = "taken" /\ x.nv[t] = 0 /\ (at[t] = "suspended" => h[t].c.n = MaxDelay)
        BY <1>2, <1>11, <2>1, <3>2 DEF Heeds
      <4> QED BY <1>8, <1>10, <1>13, <2>0, <3>2, <4>1
    <3> QED BY <3>1, <3>2
  <2>2. ASSUME NEW t \in Task, g[t].pc = "taken", to[t] \in Asleep, t \notin Range(y.pending) PROVE y.ns[t] = "waiting"
    <3>1. CASE t = x.cur
      BY <1>11, <3>1
    <3>2. CASE t # x.cur
      <4>1. h[t].pc = "taken" /\ at[t] \in Asleep /\ t \notin Range(x.pending)
        BY <1>2, <1>8, <1>10, <1>13, <2>2, <3>2
      <4>2. x.ns[t] = "waiting"
        BY <1>2, <4>1 DEF Heeds
      <4> QED BY <1>11, <3>2, <4>2
    <3> QED BY <3>1, <3>2
  <2> QED BY <2>1, <2>2 DEF Heeds
<1>19. Tally(y, m)
  BY <1>2, <1>7, <1>8 DEF Tally
<1> QED BY <1>2, <1>7, <1>14, <1>15, <1>16, <1>17, <1>18, <1>19 DEF KernelInv

(* ulTaskNotifyTake: the notification is taken, or the time is over.        *)
HasTaken(x, y) ==
  y = [x EXCEPT !.nv[x.cur] = IF x.nv[x.cur] > 0 THEN x.nv[x.cur] - 1 ELSE x.nv[x.cur],
                !.ns[x.cur] = "none"]

LEMMA CallHasTaken ==
  ASSUME NEW x, NEW h, NEW m, NEW a, NEW at, KernelInv(x, h, m, a, at), h[x.cur].pc = "taken",
         NEW y, HasTaken(x, y), NEW g, g = [h EXCEPT ![x.cur].pc = "run", ![x.cur].to = "run"]
  PROVE  KernelInv(y, g, m, a, at)
<1>1. h[x.cur].pc \notin SuspPc
  BY DEF SuspPc
<1>2. /\ AppOK(a) /\ Sound(x, at) /\ Situated(x, h, m, a, at) /\ OnTurn(x, h, at)
      /\ Heeds(x, h, at) /\ Tally(x, m)
      /\ x.cur \in Task /\ h \in [Task -> ThreadState] /\ Threads(h, m, a) /\ Thread(h[x.cur], m, a.calls[x.cur])
      /\ x.susp = 0 /\ x.pending = <<>> /\ x.pended = 0
      /\ \A t \in Task : h[t].pc \notin SuspPc /\ ~Abandoned(h, t)
  BY <1>1, OutOfLock
<1>4. x.ns \in [Task -> {"none", "waiting", "received"}] /\ x.nv \in [Task -> Nat]
  BY <1>2 DEF Sound, Shape, KernelState
<1>5. PICK s : s = [x.ns EXCEPT ![x.cur] = "none"]
  OBVIOUS
<1>6. PICK v : v = [x.nv EXCEPT ![x.cur] = IF x.nv[x.cur] > 0 THEN x.nv[x.cur] - 1 ELSE x.nv[x.cur]]
  OBVIOUS
<1>7. Noted(x, y, at, s, v)
  <2>1. s \in [Task -> {"none", "waiting", "received"}]
    BY <1>2, <1>4, <1>5
  <2>2. v \in [Task -> Nat]
    <3>1. PICK n \in Nat : n = x.nv[x.cur]
      BY <1>2, <1>4
    <3>2. (IF n > 0 THEN n - 1 ELSE n) \in Nat
      OBVIOUS
    <3> QED BY <1>2, <1>4, <1>6, <3>1, <3>2
  <2>3. y = [x EXCEPT !.ns = s, !.nv = v]
    BY <1>2, <1>5, <1>6 DEF Sound, Shape, KernelState, HasTaken
  <2> QED BY <1>2, <2>1, <2>2, <2>3, NotesChanged
<1>8. Sound(y, at) /\ Same(x, y, {"ns", "nv"}) /\ y.ns = s /\ y.nv = v
  BY <1>7 DEF Noted
<1>9. /\ y.cur = x.cur /\ y.susp = x.susp /\ y.pended = x.pended /\ y.pending = x.pending
      /\ y.dying = x.dying /\ y.ntasks = x.ntasks /\ y.ndying = x.ndying /\ y.prio = x.prio
  BY <1>8 DEF Same, Fields
<1>10. PICK p, q, e, w : Goes(h, g, x.cur, p, q, e, w) /\ p = "run" /\ q = "run"
  <2>1. "run" \in PC /\ "run" \in TO
    BY DEF PC, TO
  <2> QED BY <1>2, <2>1, Went
<1>11. g[x.cur].pc = p /\ g[x.cur].c = h[x.cur].c /\ \A t \in Task \ {x.cur} : g[t] = h[t]
  <2>1. Goes(h, g, x.cur, p, q, e, w)
    BY <1>10
  <2> QED BY ONLY <2>1, GoesFields
<1>12. Threads(g, m, a)
  <2>1. OpOf(p, h[x.cur].c.op)
    BY <1>10, OpOfNone
  <2> QED BY <1>2, <1>10, <2>1, Threaded
<1>13. Locking(y, g, a) /\ \A t \in Task : ~Abandoned(g, t)
  <2>1. g[x.cur].pc \notin SuspPc
    BY <1>10, <1>11 DEF SuspPc
  <2>2. y.cur \in Task /\ y.susp = 0 /\ y.pending = <<>> /\ y.pended = 0
    BY <1>2, <1>9
  <2> QED BY ONLY <1>2, <1>11, <2>1, <2>2, StillUnlocked
<1>14. Situated(y, g, m, a, at)
  BY <1>2, <1>9, <1>13 DEF Situated
<1>15. OnTurn(y, g, at)
  <2>1. h[x.cur].pc \notin {"yield", "created"} /\ h[x.cur].pc # "suspended"
    OBVIOUS
  <2>2. y.cur = x.cur /\ y.susp = 0 /\ y.prio = x.prio
    BY <1>2, <1>9
  <2> QED BY ONLY <1>2, <2>1, <2>2, TurnKept
<1>16. Heeds(y, g, at)
  <2>1. PICK U : U = {x.cur}
    OBVIOUS
  <2>2. y.ns[x.cur] # "waiting" /\ g[x.cur].pc # "taken"
    BY <1>2, <1>4, <1>5, <1>8, <1>10, <1>11
  <2>3. \A t \in Task \ {x.cur} : y.ns[t] = x.ns[t] /\ y.nv[t] = x.nv[t]
    BY <1>2, <1>4, <1>5, <1>6, <1>8
  <2>4. Unconcerned(x, h, at, y, g, at, U)
    BY <1>9, <1>11, <2>1, <2>2, <2>3 DEF Unconcerned
  <2> QED BY <1>2, <2>4, HeedsOn
<1>17. Tally(y, m)
  BY <1>2, <1>9 DEF Tally
<1> QED BY <1>2, <1>8, <1>12, <1>13, <1>14, <1>15, <1>16, <1>17 DEF KernelInv

-----------------------------------------------------------------------------
(* Creation and deletion                                                    *)
LEMMA CountedTasks ==
  ASSUME NEW S \in SUBSET Task, NEW u \in Task
  PROVE  /\ Cardinality(S) \in Nat
         /\ u \notin S => Cardinality(S \cup {u}) = Cardinality(S) + 1
         /\ u \in S => Cardinality(S \ {u}) = Cardinality(S) - 1
<1>1. IsFiniteSet(S)
  BY KernelAssumption, FS_Subset
<1>2. Cardinality(S) \in Nat
  BY <1>1, FS_CardinalityType
<1>3. u \notin S => Cardinality(S \cup {u}) = Cardinality(S) + 1
  BY <1>1, FS_AddElement
<1>4. u \in S => Cardinality(S \ {u}) = Cardinality(S) - 1
  BY <1>1, FS_RemoveElement
<1> QED BY <1>2, <1>3, <1>4

(* The task starts anew, its creator has handed its blocks over.            *)
Births(h, g, t, u) ==
  /\ g \in [Task -> ThreadState] /\ \A v \in Task \ {t, u} : g[v] = h[v]
  /\ g[u].pc = "run" /\ g[u].c = NoCall /\ g[t].pc = "created" /\ g[t].c = h[t].c
LEMMA Born ==
  ASSUME NEW h \in [Task -> ThreadState], NEW t \in Task, NEW u \in Task \ {t},
         NEW g, g = [h EXCEPT ![u] = Fresh, ![t].got = <<>>, ![t].pc = "created"]
  PROVE  Births(h, g, t, u)
<1>1. Fresh \in ThreadState
  <2>1. NoCall \in Call
    BY Numbers DEF NoCall, Call
  <2>2. 0 \in 0..MaxDelay
    BY Numbers
  <2>3. <<>> \in Seq(BlockLink_t) /\ "run" \in PC /\ "run" \in TO
    BY DEF PC, TO
  <2> QED BY <2>1, <2>2, <2>3 DEF Fresh, ThreadState
<1>2. PICK r : r = [h[t] EXCEPT !.got = <<>>, !.pc = "created"]
  OBVIOUS
<1>3. r \in ThreadState /\ r.pc = "created" /\ r.c = h[t].c
  <2>1. <<>> \in Seq(BlockLink_t) /\ "created" \in PC
    BY DEF PC
  <2> QED BY <1>2, <2>1 DEF ThreadState
<1>4. g = [[h EXCEPT ![u] = Fresh] EXCEPT ![t] = r]
  BY <1>2
<1>5. \A v \in Task : g[v] = IF v = t THEN r ELSE IF v = u THEN Fresh ELSE h[v]
  BY <1>4
<1>6. g \in [Task -> ThreadState]
  BY <1>1, <1>3, <1>4
<1> QED BY <1>3, <1>5, <1>6 DEF Births, Fresh

(* The critical section of xTaskCreate.                                     *)
Adds(x, h, m, u, y, b, g) ==
  /\ y = prvAddNewTaskToReadyList(x, u, h[x.cur].c.n) /\ b = [m EXCEPT ![u] = h[x.cur].got]
  /\ g = [h EXCEPT ![u] = Fresh, ![x.cur].got = <<>>, ![x.cur].pc = "created"]

LEMMA CallAdds ==
  ASSUME NEW x, NEW h, NEW m, NEW a, NEW at, KernelInv(x, h, m, a, at), h[x.cur].pc = "createadd",
         NEW u, u = h[x.cur].c.u, NEW y, NEW b, NEW g, Adds(x, h, m, u, y, b, g)
  PROVE  \E to : KernelInv(y, g, b, a, to)
<1>1. h[x.cur].pc \notin SuspPc
  BY DEF SuspPc
<1>2. /\ AppOK(a) /\ Sound(x, at) /\ Situated(x, h, m, a, at) /\ OnTurn(x, h, at)
      /\ Heeds(x, h, at) /\ Tally(x, m)
      /\ x.cur \in Task /\ h \in [Task -> ThreadState] /\ Threads(h, m, a) /\ Thread(h[x.cur], m, a.calls[x.cur])
      /\ h[x.cur] \in ThreadState /\ x.susp = 0 /\ x.pending = <<>> /\ x.pended = 0
      /\ \A t \in Task : h[t].pc \notin SuspPc /\ ~Abandoned(h, t)
  BY <1>1, OutOfLock
<1>3. at[x.cur] = "ready"
  BY CurrentReady
<1>4. h[x.cur].c.op = "Create" /\ h[x.cur].c \in a.calls[x.cur] /\ u \in Task /\ h[x.cur].c.n \in Priority
  <2>1. h[x.cur].c.op = "Create"
    BY <1>2 DEF Thread, OpOf
  <2>2. CallOK(a, x.cur, h[x.cur].c) /\ h[x.cur].c \in a.calls[x.cur] /\ h[x.cur].c.u \in Task
    BY <1>2, <2>1, InOwnCall
  <2> QED BY <2>1, <2>2 DEF CallOK
<1>5. m[u] = <<>> /\ h[x.cur].got # <<>> /\ h[x.cur].got \in Seq(BlockLink_t)
  <2>1. Doing(h[x.cur], Holding) /\ Doing(h[x.cur], {"Create", "createtcb", "createadd"})
    BY DEF Doing, Holding
  <2> QED BY <1>2, <2>1 DEF Thread, ThreadState
<1>6. at[u] = "none" /\ u # x.cur
  <2>1. at[u] = "none"
    BY <1>2, <1>4, <1>5 DEF Situated
  <2> QED BY <1>3, <2>1
<1>7. PICK n \in Priority : n = h[x.cur].c.n
  BY <1>4
<1>8. PICK to : AddsTask(x, y, at, to, u, n)
  <2>1. y = prvAddNewTaskToReadyList(x, u, n)
    BY <1>7 DEF Adds
  <2> QED BY <1>2, <1>4, <1>6, <1>7, <2>1, TaskAdded
<1>9. /\ Sound(y, to) /\ to = [at EXCEPT ![u] = "ready"] /\ y.prio = [x.prio EXCEPT ![u] = n]
      /\ y.ns = [x.ns EXCEPT ![u] = "none"] /\ y.nv = [x.nv EXCEPT ![u] = 0] /\ y.ntasks = x.ntasks + 1
      /\ y.cur = x.cur /\ y.susp = x.susp /\ y.pended = x.pended /\ y.pending = x.pending
      /\ y.dying = x.dying /\ y.ndying = x.ndying
  BY <1>8 DEF AddsTask, Same, Fields, NewFields
<1>10. /\ at \in [Task -> Places] /\ x.ns \in [Task -> {"none", "waiting", "received"}]
       /\ x.nv \in [Task -> Nat] /\ x.prio \in [Task -> Priority] /\ m \in [Task -> Seq(BlockLink_t)]
  BY <1>2 DEF Sound, Shape, Listed, KernelState, Tally
<1>11. /\ \A t \in Task : to[t] = IF t = u THEN "ready" ELSE at[t]
       /\ \A t \in Task : b[t] = IF t = u THEN h[x.cur].got ELSE m[t]
       /\ \A t \in Task \ {u} : y.ns[t] = x.ns[t] /\ y.nv[t] = x.nv[t] /\ y.prio[t] = x.prio[t]
       /\ y.ns[u] = "none"
  <2>1. b = [m EXCEPT ![u] = h[x.cur].got]
    BY DEF Adds
  <2>2. \A t \in Task : b[t] = IF t = u THEN h[x.cur].got ELSE m[t]
    BY <1>4, <1>10, <2>1
  <2>3. \A t \in Task : to[t] = IF t = u THEN "ready" ELSE at[t]
    BY <1>4, <1>9, <1>10
  <2>4. /\ \A t \in Task \ {u} : y.ns[t] = x.ns[t] /\ y.nv[t] = x.nv[t] /\ y.prio[t] = x.prio[t]
        /\ y.ns[u] = "none"
    BY <1>4, <1>9, <1>10
  <2> QED BY <2>2, <2>3, <2>4
<1>12. Births(h, g, x.cur, u)
  <2>1. g = [h EXCEPT ![u] = Fresh, ![x.cur].got = <<>>, ![x.cur].pc = "created"]
    BY DEF Adds
  <2> QED BY <1>2, <1>4, <1>6, <2>1, Born
<1>13. Threads(g, b, a)
  <2>1. g \in [Task -> ThreadState]
    BY <1>12 DEF Births
  <2>2. ASSUME NEW t \in Task PROVE Thread(g[t], b, a.calls[t])
    <3>1. CASE t = x.cur
      <4>1. PICK r : r = g[t]
        OBVIOUS
      <4>2. r.pc = "created" /\ r.c = h[x.cur].c
        BY <1>12, <3>1, <4>1 DEF Births
      <4>3. OpOf(r.pc, r.c.op)
        BY <1>4, <4>2 DEF OpOf, Simple
      <4>4. Thread(r, b, a.calls[t])
        BY <1>4, <3>1, <4>2, <4>3 DEF Thread, Doing, Holding
      <4> QED BY <4>1, <4>4
    <3>2. CASE t = u
      <4>1. PICK r : r = g[t]
        OBVIOUS
      <4>2. r.pc = "run" /\ r.c = NoCall
        BY <1>12, <3>2, <4>1 DEF Births
      <4>3. OpOf(r.pc, r.c.op)
        BY <4>2, OpOfNone
      <4>4. Thread(r, b, a.calls[t])
        BY <4>2, <4>3 DEF Thread, Doing, Holding
      <4> QED BY <4>1, <4>4
    <3>3. CASE t # x.cur /\ t # u
      <4>1. PICK r : r = h[t]
        OBVIOUS
      <4>2. g[t] = r /\ Thread(r, m, a.calls[t])
        BY <1>2, <1>12, <3>3, <4>1 DEF Births, Threads
      <4>3. ASSUME Doing(r, {"Create", "createtcb", "createadd"}) PROVE b[r.c.u] = <<>>
        <5>1. m[r.c.u] = <<>>
          BY <4>2, <4>3 DEF Thread
        <5>2. r.c.op = "Create"
          BY <4>2, <4>3 DEF Thread, Doing, OpOf
        <5>3. r.c \in a.calls[t] /\ r.c.u \in Task
          BY <1>2, <4>1, <5>2, InOwnCall
        <5>4. r.c.u # u
          <6>1. \A v, o \in Task : \A d \in a.calls[v], f \in a.calls[o] :
                  d.op = "Create" /\ f.op = "Create" /\ d.u = f.u => v = o
            BY <1>2 DEF AppOK
          <6> QED BY <1>2, <1>4, <3>3, <5>2, <5>3, <6>1
        <5>5. b[r.c.u] = m[r.c.u]
          BY <1>11, <5>3, <5>4
        <5> QED BY <5>1, <5>5
      <4>4. Thread(r, b, a.calls[t])
        BY <4>2, <4>3 DEF Thread
      <4> QED BY <4>2, <4>4
    <3> QED BY <3>1, <3>2, <3>3
  <2> QED BY <2>1, <2>2 DEF Threads
<1>14. \A t \in Task \ {x.cur, u} : g[t] = h[t]
  BY <1>12 DEF Births
<1>15. g[x.cur].pc = "created" /\ g[x.cur].c = h[x.cur].c /\ g[u].pc = "run"
  BY <1>12 DEF Births
<1>16. \A t \in Task : g[t].pc \notin SuspPc
  <2>1. g[x.cur].pc \notin SuspPc /\ g[u].pc \notin SuspPc
    BY <1>15 DEF SuspPc
  <2> QED BY <1>2, <1>14, <2>1
<1>17. Locking(y, g, a)
  <2>1. y.cur \in Task /\ y.susp = 0 /\ y.pending = <<>> /\ y.pended = 0
    BY <1>2, <1>9
  <2> QED BY ONLY <1>16, <2>1, Unlocked
<1>18. Situated(y, g, b, a, to)
  <2>1. \A t \in Task : ~Abandoned(g, t)
    BY <1>16 DEF Abandoned, AbortPc, SuspPc
  <2>2. b[u] # <<>> /\ at[u] = "none" /\ u # x.cur /\ y.cur = x.cur /\ u \in Task
    BY <1>4, <1>5, <1>6, <1>9, <1>11
  <2>3. \A t \in Task : to[t] = IF t = u THEN "ready" ELSE at[t]
    BY <1>11
  <2>4. \A t \in Task \ {u} : b[t] = m[t]
    BY <1>11
  <2>5. /\ \A t \in Task : at[t] = "none" <=> m[t] = <<>>
        /\ \A t \in Task : at[t] = "dying" => t \in Passing(a)
        /\ \A t \in Staying(a) : m[t] # <<>>
    BY <1>2 DEF Situated
  <2>6. \A t \in Task : to[t] = "none" <=> b[t] = <<>>
    BY <2>2, <2>3, <2>4, <2>5
  <2>7. \A t \in Task : to[t] = "dying" => t \in Passing(a)
    BY <2>3, <2>5
  <2>8. \A t \in Staying(a) : b[t] # <<>>
    <3>1. Staying(a) \subseteq Task
      BY <1>2, StayingTasks
    <3> QED BY <2>2, <2>4, <2>5, <3>1
  <2>9. to[y.cur] # "none"
    BY <1>2, <1>3, <2>2, <2>3
  <2> QED BY ONLY <2>1, <2>6, <2>7, <2>8, <2>9 DEF Situated
<1>19. OnTurn(y, g, to)
  <2>1. \A t \in Task : at[t] = "ready" => ~(x.prio[t] > x.prio[x.cur])
    BY <1>2, <1>3 DEF OnTurn
  <2>2. ASSUME NEW t \in Task, to[t] = "ready", y.prio[t] > y.prio[y.cur] PROVE t = u
    <3>1. t # u => at[t] = "ready" /\ y.prio[t] = x.prio[t]
      BY <1>11, <2>2
    <3>2. y.cur = x.cur /\ y.prio[x.cur] = x.prio[x.cur]
      BY <1>2, <1>6, <1>9, <1>11
    <3> QED BY <2>1, <2>2, <3>1, <3>2
  <2>3. y.susp = 0 /\ to[y.cur] = "ready" /\ g[y.cur].pc = "created" /\ g[y.cur].c.u = u
    <3>1. y.susp = 0 /\ y.cur = x.cur
      BY <1>2, <1>9
    <3>2. to[x.cur] = "ready"
      BY <1>2, <1>3, <1>11
    <3>3. g[x.cur].pc = "created" /\ g[x.cur].c.u = u
      BY <1>15
    <3> QED BY <3>1, <3>2, <3>3
  <2> QED BY ONLY <2>2, <2>3 DEF OnTurn
<1>20. Heeds(y, g, to)
  <2>1. PICK U : U = {x.cur, u}
    OBVIOUS
  <2>2. y.ns[x.cur] # "waiting" /\ y.ns[u] # "waiting"
    BY <1>2, <1>6, <1>11 DEF Heeds
  <2>3. g[x.cur].pc # "taken" /\ g[u].pc # "taken"
    BY <1>15
  <2>4. \A t \in Task \ U : /\ y.ns[t] = x.ns[t] /\ y.nv[t] = x.nv[t] /\ g[t] = h[t] /\ to[t] = at[t]
                            /\ t \in Range(y.pending) <=> t \in Range(x.pending)
    <3>1. ASSUME NEW t \in Task \ U
          PROVE  y.ns[t] = x.ns[t] /\ y.nv[t] = x.nv[t] /\ g[t] = h[t] /\ to[t] = at[t]
      BY <1>11, <1>14, <2>1, <3>1
    <3>2. Range(y.pending) = Range(x.pending)
      BY <1>9
    <3> QED BY <3>1, <3>2
  <2>5. Unconcerned(x, h, at, y, g, to, U)
    BY <2>1, <2>2, <2>3, <2>4 DEF Unconcerned
  <2> QED BY ONLY <1>2, <2>5, HeedsOn
<1>21. Tally(y, b)
  <2>1. PICK S : S = {t \in Task : m[t] # <<>>}
    OBVIOUS
  <2>2. {t \in Task : b[t] # <<>>} = S \cup {u} /\ u \notin S
    <3>1. b[u] # <<>> /\ m[u] = <<>> /\ \A t \in Task \ {u} : b[t] = m[t]
      BY <1>4, <1>5, <1>11
    <3> QED BY <1>4, <2>1, <3>1
  <2>3. Cardinality(S \cup {u}) = Cardinality(S) + 1
    BY <1>4, <2>1, <2>2, CountedTasks
  <2>4. b \in [Task -> Seq(BlockLink_t)]
    <3>1. b = [m EXCEPT ![u] = h[x.cur].got]
      BY DEF Adds
    <3> QED BY <1>5, <1>10, <3>1
  <2>5. x.ndying = Len(x.dying) /\ x.ntasks = Cardinality(S)
    BY <1>2, <2>1 DEF Tally
  <2> QED BY <1>9, <2>2, <2>3, <2>4, <2>5 DEF Tally
<1> QED BY <1>2, <1>9, <1>13, <1>17, <1>18, <1>19, <1>20, <1>21 DEF KernelInv

(* The yield of xTaskCreate to a task that is more important.               *)
LEMMA CallHasCreated ==
  ASSUME NEW x, NEW h, NEW m, NEW a, NEW at, KernelInv(x, h, m, a, at), h[x.cur].pc = "created",
         NEW u, u = h[x.cur].c.u, NEW cond \in BOOLEAN, m[u] # <<>> => cond = Above(x, u),
         NEW y, y = YieldIf(x, cond), NEW g, g = [h EXCEPT ![x.cur].pc = "run", ![x.cur].to = "run"]
  PROVE  KernelInv(y, g, m, a, at)
<1>1. h[x.cur].pc \notin SuspPc
  BY DEF SuspPc
<1>2. /\ Sound(x, at) /\ Situated(x, h, m, a, at) /\ OnTurn(x, h, at)
      /\ x.cur \in Task /\ x.susp = 0 /\ \A t \in Task : ~Abandoned(h, t)
  BY <1>1, OutOfLock
<1>3. at[x.cur] = "ready"
  BY CurrentReady
<1>4. ASSUME ~cond PROVE Best(x, at)
  <2>1. x.prio \in [Task -> Priority] /\ \A i, j \in Priority : ~(i > j) => i <= j
    <3>1. \A i, j \in Priority : ~(i > j) => i <= j
      BY Numbers
    <3>2. x.prio \in [Task -> Priority]
      BY <1>2 DEF Sound, Shape, KernelState
    <3> QED BY <3>1, <3>2
  <2>2. ASSUME NEW t \in Task, at[t] = "ready" PROVE x.prio[t] <= x.prio[x.cur]
    <3>1. x.prio[t] > x.prio[x.cur] => t = u
      BY <1>2, <2>2 DEF OnTurn
    <3>2. t = u => ~(x.prio[t] > x.prio[x.cur])
      <4>1. t = u => m[u] # <<>>
        BY <1>2, <2>2 DEF Situated
      <4> QED BY <1>4, <4>1 DEF Above
    <3>3. ~(x.prio[t] > x.prio[x.cur])
      BY <3>1, <3>2
    <3> QED BY <1>2, <2>1, <3>3
  <2> QED BY <1>3, <2>2 DEF Best, NoneAbove
<1> QED BY <1>4, CallSwitches

(* vTaskDelete of the task itself.                                          *)
LEMMA CallDies ==
  ASSUME NEW x, NEW h, NEW m, NEW a, NEW at, KernelInv(x, h, m, a, at), h[x.cur].pc = "Delete",
         h[x.cur].c.u = x.cur, NEW y, y = DeleteTask(x, x.cur),
         NEW g, g = [h EXCEPT ![x.cur].pc = "yield", ![x.cur].to = "run"]
  PROVE  \E to : KernelInv(y, g, m, a, to)
<1>1. h[x.cur].pc \notin SuspPc
  BY DEF SuspPc
<1>2. /\ AppOK(a) /\ Sound(x, at) /\ Situated(x, h, m, a, at) /\ OnTurn(x, h, at)
      /\ Heeds(x, h, at) /\ Tally(x, m)
      /\ x.cur \in Task /\ h \in [Task -> ThreadState] /\ Threads(h, m, a) /\ Thread(h[x.cur], m, a.calls[x.cur])
      /\ x.susp = 0 /\ x.pending = <<>> /\ x.pended = 0
      /\ \A t \in Task : h[t].pc \notin SuspPc /\ ~Abandoned(h, t)
  BY <1>1, OutOfLock
<1>3. at[x.cur] = "ready"
  BY CurrentReady
<1>4. x.cur # Idle /\ x.cur \in Passing(a)
  <2>1. h[x.cur].c.op = "Delete"
    BY <1>2 DEF Thread, OpOf
  <2>2. x.cur # Idle /\ h[x.cur].c \in a.calls[x.cur]
    BY <1>2, <2>1, InOwnCall
  <2> QED BY <1>2, <2>1, <2>2 DEF Passing
<1>5. PICK to : Dies(x, y, at, to)
  BY <1>2, <1>3, <1>4, DeletesItself
<1>6. /\ Sound(y, to) /\ to = [at EXCEPT ![x.cur] = "dying"]
      /\ Same(x, y, StateLinks \cup {"top", "pending", "ndying"}) /\ y.pending = <<>>
      /\ y.dying = Append(x.dying, x.cur) /\ y.ndying = x.ndying + 1
  <2>1. x.cur \notin Range(x.pending)
    BY <1>2 DEF Range
  <2> QED BY <1>2, <1>5, <2>1 DEF Dies
<1>7. /\ y.cur = x.cur /\ y.susp = x.susp /\ y.ns = x.ns /\ y.nv = x.nv /\ y.pended = x.pended
      /\ y.ntasks = x.ntasks /\ y.prio = x.prio
  BY <1>6 DEF Same, Fields, StateLinks
<1>8. at \in [Task -> Places] /\ x.dying \in Seq(Task)
  BY <1>2 DEF Sound, Shape, Listed, KernelState
<1>9. \A t \in Task : to[t] = IF t = x.cur THEN "dying" ELSE at[t]
  BY <1>2, <1>6, <1>8
<1>11. PICK p, q, e, w : Goes(h, g, x.cur, p, q, e, w) /\ p = "yield" /\ q = "run"
  <2>1. "yield" \in PC /\ "run" \in TO
    BY DEF PC, TO
  <2> QED BY <1>2, <2>1, Went
<1>12. g[x.cur].pc = p /\ g[x.cur].c = h[x.cur].c /\ \A t \in Task \ {x.cur} : g[t] = h[t]
  <2>1. Goes(h, g, x.cur, p, q, e, w)
    BY <1>11
  <2> QED BY ONLY <2>1, GoesFields
<1>13. Threads(g, m, a)
  <2>1. OpOf(p, h[x.cur].c.op)
    BY <1>11, OpOfNone
  <2> QED BY <1>2, <1>11, <2>1, Threaded
<1>14. Locking(y, g, a) /\ \A t \in Task : ~Abandoned(g, t)
  <2>1. g[x.cur].pc \notin SuspPc
    BY <1>11, <1>12 DEF SuspPc
  <2>2. y.cur \in Task /\ y.susp = 0 /\ y.pending = <<>> /\ y.pended = 0
    BY <1>2, <1>6, <1>7
  <2> QED BY ONLY <1>2, <1>12, <2>1, <2>2, StillUnlocked
<1>15. Situated(y, g, m, a, to)
  BY <1>2, <1>3, <1>4, <1>7, <1>9, <1>14 DEF Situated
<1>16. OnTurn(y, g, to)
  <2>1. y.susp = 0 /\ g[y.cur].pc = "yield"
    BY <1>2, <1>7, <1>11, <1>12
  <2> QED BY ONLY <2>1 DEF OnTurn
<1>17. Heeds(y, g, to)
  <2>1. Undisturbed(x, at, y, to)
    BY <1>2, <1>6, <1>7, <1>9 DEF Undisturbed, Asleep
  <2>2. /\ Heeds(x, h, at) /\ (\A t \in Task \ {x.cur} : g[t] = h[t])
        /\ h[x.cur].pc # "taken" /\ g[x.cur].pc # "taken"
    BY <1>2, <1>11, <1>12
  <2> QED BY ONLY <2>1, <2>2, HeedsStill
<1>18. Tally(y, m)
  BY <1>2, <1>6, <1>7, <1>8 DEF Tally
<1> QED BY <1>2, <1>6, <1>13, <1>14, <1>15, <1>16, <1>17, <1>18 DEF KernelInv

(* A task is in no list any more; the current task frees its memory.        *)
FreesNext(x, h, m, u, b, g) ==
  b = [m EXCEPT ![u] = <<>>] /\ g = [h EXCEPT ![x.cur].pc = "free", ![x.cur].got = m[u]]

LEMMA TaskGone ==
  ASSUME NEW x, NEW h, NEW m, NEW a, NEW at, KernelInv(x, h, m, a, at), h[x.cur].pc \in {"Delete", "run"},
         NEW u \in Passing(a) \ {x.cur}, at[u] # "none", NEW to, to = [at EXCEPT ![u] = "none"],
         NEW y, Sound(y, to), y.cur = x.cur, y.susp = x.susp, y.pending = <<>>, y.pended = x.pended,
         y.ns = x.ns, y.nv = x.nv, y.prio = x.prio, y.ntasks = x.ntasks - 1, y.ndying = Len(y.dying),
         NEW b, NEW g, FreesNext(x, h, m, u, b, g)
  PROVE  KernelInv(y, g, b, a, to)
<1>1. h[x.cur].pc \notin SuspPc /\ h[x.cur].pc # "taken"
  BY DEF SuspPc
<1>2. /\ AppOK(a) /\ Sound(x, at) /\ Situated(x, h, m, a, at) /\ OnTurn(x, h, at)
      /\ Heeds(x, h, at) /\ Tally(x, m)
      /\ x.cur \in Task /\ h \in [Task -> ThreadState] /\ Threads(h, m, a) /\ Thread(h[x.cur], m, a.calls[x.cur])
      /\ x.susp = 0 /\ x.pending = <<>> /\ x.pended = 0
      /\ \A t \in Task : h[t].pc \notin SuspPc /\ ~Abandoned(h, t)
  BY <1>1, OutOfLock
<1>3. at[x.cur] = "ready"
  BY CurrentReady
<1>4. u \in Task /\ u # x.cur /\ u \notin Staying(a)
  BY <1>2, StayingTasks DEF Passing
<1>5. m[u] # <<>>
  BY <1>2, <1>4 DEF Situated
<1>6. at \in [Task -> Places] /\ m \in [Task -> Seq(BlockLink_t)]
  BY <1>2 DEF Sound, Shape, Listed, Tally
<1>7. /\ \A t \in Task : to[t] = IF t = u THEN "none" ELSE at[t]
      /\ \A t \in Task : b[t] = IF t = u THEN <<>> ELSE m[t]
      /\ b \in [Task -> Seq(BlockLink_t)]
  <2>1. b = [m EXCEPT ![u] = <<>>]
    BY DEF FreesNext
  <2> QED BY <1>4, <1>6, <2>1
<1>8. PICK p, q, e, w : Goes(h, g, x.cur, p, q, e, w) /\ p = "free" /\ e = m[u]
  <2>1. "free" \in PC /\ m[u] \in Seq(BlockLink_t)
    BY <1>4, <1>6 DEF PC
  <2>2. g = [h EXCEPT ![x.cur].pc = "free", ![x.cur].got = m[u]]
    BY DEF FreesNext
  <2> QED BY <1>2, <2>1, <2>2, WentOff
<1>9. g[x.cur].pc = p /\ g[x.cur].c = h[x.cur].c /\ \A t \in Task \ {x.cur} : g[t] = h[t]
  <2>1. Goes(h, g, x.cur, p, q, e, w)
    BY <1>8
  <2> QED BY ONLY <2>1, GoesFields
<1>10. Threads(g, b, a)
  <2>1. OpOf(p, h[x.cur].c.op)
    BY <1>8, OpOfNone
  <2>2. Threads(g, m, a)
    BY <1>2, <1>5, <1>8, <2>1, Threaded
  <2>3. ASSUME NEW t \in Task PROVE Thread(g[t], b, a.calls[t])
    <3>1. PICK r : r = g[t]
      OBVIOUS
    <3>2. Thread(r, m, a.calls[t]) /\ r \in ThreadState
      BY <2>2, <3>1 DEF Threads
    <3>3. r.c.u \in Task
      BY <3>2 DEF ThreadState, Call
    <3>4. m[r.c.u] = <<>> => b[r.c.u] = <<>>
      BY <1>7, <3>3
    <3>5. Thread(r, b, a.calls[t])
      BY <3>2, <3>4 DEF Thread
    <3> QED BY <3>1, <3>5
  <2> QED BY <2>2, <2>3 DEF Threads
<1>11. Locking(y, g, a) /\ \A t \in Task : ~Abandoned(g, t)
  <2>1. g[x.cur].pc \notin SuspPc
    BY <1>8, <1>9 DEF SuspPc
  <2>2. y.cur \in Task /\ y.susp = 0 /\ y.pending = <<>> /\ y.pended = 0
    BY <1>2
  <2> QED BY ONLY <1>2, <1>9, <2>1, <2>2, StillUnlocked
<1>12. Situated(y, g, b, a, to)
  <2>1. \A t \in Task : (to[t] = "none" <=> b[t] = <<>>) /\ (to[t] = "dying" => t \in Passing(a))
    BY <1>2, <1>7 DEF Situated
  <2>2. (\A t \in Staying(a) : b[t] # <<>>) /\ to[y.cur] # "none"
    BY <1>2, <1>3, <1>4, <1>7, StayingTasks DEF Situated
  <2> QED BY <1>11, <2>1, <2>2 DEF Situated
<1>13. OnTurn(y, g, to)
  <2>1. h[x.cur].pc \notin {"yield", "created"} /\ h[x.cur].pc # "suspended"
    OBVIOUS
  <2>2. y.cur = x.cur /\ y.susp = 0 /\ y.prio = x.prio
    BY <1>2
  <2>3. to[x.cur] = "ready" /\ \A t \in Task : to[t] = "ready" => at[t] = "ready"
    BY <1>2, <1>3, <1>4, <1>7
  <2> QED BY ONLY <1>2, <2>1, <2>2, <2>3, TurnKept
<1>14. Heeds(y, g, to)
  <2>1. Undisturbed(x, at, y, to)
    BY <1>2, <1>7 DEF Undisturbed, Asleep
  <2>2. /\ Heeds(x, h, at) /\ (\A t \in Task \ {x.cur} : g[t] = h[t])
        /\ h[x.cur].pc # "taken" /\ g[x.cur].pc # "taken"
    BY <1>1, <1>2, <1>8, <1>9
  <2> QED BY ONLY <2>1, <2>2, HeedsStill
<1>15. Tally(y, b)
  <2>1. PICK S : S = {t \in Task : m[t] # <<>>}
    OBVIOUS
  <2>2. {t \in Task : b[t] # <<>>} = S \ {u} /\ u \in S
    BY <1>4, <1>5, <1>7, <2>1
  <2>3. Cardinality(S \ {u}) = Cardinality(S) - 1
    BY <1>4, <2>1, <2>2, CountedTasks
  <2>4. x.ntasks = Cardinality(S)
    BY <1>2, <2>1 DEF Tally
  <2> QED BY <1>7, <2>2, <2>3, <2>4 DEF Tally
<1> QED BY <1>2, <1>10, <1>11, <1>12, <1>13, <1>14, <1>15 DEF KernelInv

(* vTaskDelete of another task that can be deleted.                         *)
LEMMA CallDeletes ==
  ASSUME NEW x, NEW h, NEW m, NEW a, NEW at, KernelInv(x, h, m, a, at), h[x.cur].pc = "Delete",
         NEW u, u = h[x.cur].c.u, u # x.cur, m[u] # <<>>, ~Contains(x.dying, u),
         NEW y, y = DeleteTask(x, u), NEW b, NEW g, FreesNext(x, h, m, u, b, g)
  PROVE  \E to : KernelInv(y, g, b, a, to)
<1>1. h[x.cur].pc \notin SuspPc
  BY DEF SuspPc
<1>2. /\ AppOK(a) /\ Sound(x, at) /\ Situated(x, h, m, a, at) /\ Tally(x, m)
      /\ x.cur \in Task /\ h \in [Task -> ThreadState] /\ Threads(h, m, a) /\ Thread(h[x.cur], m, a.calls[x.cur])
      /\ x.susp = 0 /\ x.pending = <<>> /\ x.pended = 0 /\ \A t \in Task : ~Abandoned(h, t)
  BY <1>1, OutOfLock
<1>3. u \in Task \ {Idle} /\ u \in Passing(a) \ {x.cur}
  <2>1. h[x.cur].c.op = "Delete"
    BY <1>2 DEF Thread, OpOf
  <2>2. CallOK(a, x.cur, h[x.cur].c) /\ h[x.cur].c \in a.calls[x.cur] /\ h[x.cur].c.u \in Task
    BY <1>2, <2>1, InOwnCall
  <2> QED BY <1>2, <2>1, <2>2 DEF CallOK, Passing
<1>4. at[u] # "none"
  BY <1>2, <1>3 DEF Situated
<1>5. at[u] # "dying"
  <2>1. x.dying \in Seq(Task) /\ InPlace(x.dying, at, "dying")
    BY <1>2 DEF Sound, Shape, KernelState, Listed
  <2>2. u \notin Range(x.dying)
    BY <2>1, ContainsIsRange
  <2> QED BY <1>3, <2>1, <2>2 DEF InPlace
<1>6. PICK to : Deleted(x, y, at, to, u)
  BY SMTT(30), <1>2, <1>3, <1>5, DeletesOther
<1>7. /\ Sound(y, to) /\ to = [at EXCEPT ![u] = "none"]
      /\ Same(x, y, StateLinks \cup {"top", "pending", "unblock", "ntasks"})
      /\ y.dying = x.dying /\ y.ntasks = x.ntasks - 1 /\ y.pending = <<>>
  <2>1. u \notin Range(x.pending)
    BY ONLY <1>2 DEF Range
  <2> QED BY <1>2, <1>6, <2>1 DEF Deleted
<1>8. /\ y.cur = x.cur /\ y.susp = x.susp /\ y.ns = x.ns /\ y.nv = x.nv /\ y.pended = x.pended
      /\ y.ndying = x.ndying /\ y.prio = x.prio
  BY ONLY <1>7 DEF Same, Fields, StateLinks
<1>9. y.ndying = Len(y.dying)
  BY <1>2, <1>7, <1>8 DEF Tally
<1>10. KernelInv(x, h, m, a, at) /\ h[x.cur].pc \in {"Delete", "run"} /\ FreesNext(x, h, m, u, b, g)
  OBVIOUS
<1>11. KernelInv(y, g, b, a, to)
  BY ONLY <1>3, <1>4, <1>7, <1>8, <1>9, <1>10, TaskGone
<1> QED BY <1>11

(* prvCheckTasksWaitingTermination.                                         *)
Uncounted(x, u, y) ==
  y = [RemoveState(x, u) EXCEPT !.ntasks = RemoveState(x, u).ntasks - 1,
                                !.ndying = RemoveState(x, u).ndying - 1]

LEMMA CallBuries ==
  ASSUME NEW x, NEW h, NEW m, NEW a, NEW at, KernelInv(x, h, m, a, at), h[x.cur].pc = "run",
         x.cur = Idle, x.ndying > 0, NEW u, u = Head(x.dying), NEW y, Uncounted(x, u, y),
         NEW b, NEW g, FreesNext(x, h, m, u, b, g)
  PROVE  \E to : KernelInv(y, g, b, a, to)
<1>1. h[x.cur].pc \notin SuspPc
  BY DEF SuspPc
<1>2. /\ Sound(x, at) /\ Situated(x, h, m, a, at) /\ Tally(x, m) /\ x.cur \in Task
      /\ x.susp = 0 /\ x.pending = <<>> /\ x.pended = 0
  BY <1>1, OutOfLock
<1>3. x.dying # <<>>
  <2>1. x.dying = <<>> => Len(x.dying) = 0
    OBVIOUS
  <2>2. x.ndying = Len(x.dying)
    BY <1>2 DEF Tally
  <2>3. x.dying = <<>> => x.ndying = 0
    BY ONLY <2>1, <2>2
  <2> QED BY <2>3
<1>4. u \in Task /\ \E to : Buried(x, y, at, to, u)
  BY <1>2, <1>3, Buries DEF Uncounted
<1>5. PICK to : Buried(x, y, at, to, u)
  BY <1>4
<1>6. /\ Sound(y, to) /\ to = [at EXCEPT ![u] = "none"] /\ at[u] = "dying"
      /\ Same(x, y, StateLinks \cup {"ntasks", "ndying"})
      /\ y.ntasks = x.ntasks - 1 /\ y.ndying = x.ndying - 1 /\ Len(y.dying) = Len(x.dying) - 1
  BY <1>5 DEF Buried
<1>7. /\ y.cur = x.cur /\ y.susp = x.susp /\ y.ns = x.ns /\ y.nv = x.nv /\ y.pended = x.pended
      /\ y.pending = x.pending /\ y.prio = x.prio
  BY <1>6 DEF Same, Fields, StateLinks
<1>8. y.ndying = Len(y.dying)
  BY <1>2, <1>6 DEF Tally
<1>9. u \in Passing(a) \ {x.cur}
  <2>1. at[x.cur] = "ready"
    BY CurrentReady
  <2> QED BY <1>2, <1>4, <1>6, <2>1 DEF Situated
<1>10. /\ KernelInv(x, h, m, a, at) /\ h[x.cur].pc \in {"Delete", "run"} /\ FreesNext(x, h, m, u, b, g)
       /\ at[u] # "none" /\ y.pending = <<>>
  BY <1>2, <1>6, <1>7
<1>11. KernelInv(y, g, b, a, to)
  BY ONLY <1>6, <1>7, <1>8, <1>9, <1>10, TaskGone
<1> QED BY <1>11

(* pvPortMalloc, when it finds a block and when it does not.                *)
LEMMA CallAllocates ==
  ASSUME NEW x, NEW h, NEW m, NEW a, NEW at, KernelInv(x, h, m, a, at), NEW n,
         \/ h[x.cur].pc = "Create" /\ n = "createtcb"
         \/ h[x.cur].pc = "createtcb" /\ n = "createadd",
         NEW b \in BlockLink_t, NEW y, y = vTaskSuspendAll(x),
         NEW g, g = [h EXCEPT ![x.cur].pc = "resume", ![x.cur].to = n,
                              ![x.cur].got = Append(h[x.cur].got, b)]
  PROVE  KernelInv(y, g, m, a, at)
<1>1. x.cur \in Task /\ h \in [Task -> ThreadState] /\ Threads(h, m, a) /\ Thread(h[x.cur], m, a.calls[x.cur])
      /\ h[x.cur] \in ThreadState
  BY Running
<1>2. h[x.cur].c.op = "Create" /\ m[h[x.cur].c.u] = <<>>
  BY SMTT(30), <1>1 DEF Thread, OpOf, Doing
<1>3. PICK p, q, e, w : Goes(h, g, x.cur, p, q, e, w) /\ p = "resume" /\ q = n /\ e = Append(h[x.cur].got, b)
  <2>1. "resume" \in PC /\ n \in TO
    BY DEF PC, TO, SuspPc
  <2>2. Append(h[x.cur].got, b) \in Seq(BlockLink_t)
    BY <1>1 DEF ThreadState
  <2> QED BY <1>1, <2>1, <2>2, WentHolding
<1>4. e # <<>>
  <2>1. h[x.cur].got \in Seq(BlockLink_t)
    BY <1>1 DEF ThreadState
  <2>2. \A s \in Seq(BlockLink_t) : Append(s, b) # <<>>
    OBVIOUS
  <2> QED BY <1>3, <2>1, <2>2
<1>5. Threads(g, m, a)
  <2>1. OpOf(p, h[x.cur].c.op)
    BY <1>3, OpOfNone
  <2>2. OpOf(q, h[x.cur].c.op)
    BY <1>2, <1>3 DEF OpOf, Simple
  <2>3. p # "delay" /\ p \notin {"createtcb", "createadd", "free", "release"}
        /\ p \notin {"Create", "createtcb", "createadd"}
    BY <1>3
  <2> QED BY ONLY <1>1, <1>2, <1>3, <1>4, <2>1, <2>2, <2>3, Threaded
<1>6. h[x.cur].pc \notin SuspPc \cup {"yield", "suspended", "created", "taken"} /\ p \in SuspPc \ AbortPc
  BY <1>3 DEF SuspPc, AbortPc
<1>7. KernelInv(x, h, m, a, at) /\ y = vTaskSuspendAll(x)
  OBVIOUS
<1> QED BY ONLY <1>3, <1>5, <1>6, <1>7, GoesLocked

LEMMA CallFindsNone ==
  ASSUME NEW x, NEW h, NEW m, NEW a, NEW at, KernelInv(x, h, m, a, at), NEW n,
         \/ h[x.cur].pc = "Create" /\ n = "run"
         \/ h[x.cur].pc = "createtcb" /\ n = "free",
         NEW y, y = vTaskSuspendAll(x),
         NEW g, g = [h EXCEPT ![x.cur].pc = "resume", ![x.cur].to = n]
  PROVE  KernelInv(y, g, m, a, at)
<1>1. x.cur \in Task /\ h \in [Task -> ThreadState] /\ Threads(h, m, a) /\ Thread(h[x.cur], m, a.calls[x.cur])
  BY Running
<1>2. n = "free" => h[x.cur].got # <<>>
  BY <1>1 DEF Thread, Doing, Holding
<1>3. PICK p, q, e, w : Goes(h, g, x.cur, p, q, e, w) /\ p = "resume" /\ q = n /\ e = h[x.cur].got
  <2>1. "resume" \in PC /\ n \in TO
    BY DEF PC, TO, SuspPc
  <2> QED BY <1>1, <2>1, Went
<1>4. Threads(g, m, a)
  <2>1. q \in {"run", "free"} /\ (q = "free" => e # <<>>)
    BY <1>2, <1>3
  <2>2. OpOf(p, h[x.cur].c.op) /\ OpOf(q, h[x.cur].c.op)
    BY <1>3, <2>1, OpOfNone
  <2> QED BY <1>1, <1>3, <2>1, <2>2, Threaded
<1>5. h[x.cur].pc \notin SuspPc \cup {"yield", "suspended", "created", "taken"} /\ p \in SuspPc \ AbortPc
  BY <1>3 DEF SuspPc, AbortPc
<1>6. KernelInv(x, h, m, a, at) /\ y = vTaskSuspendAll(x)
  OBVIOUS
<1> QED BY ONLY <1>3, <1>4, <1>5, <1>6, GoesLocked

(* vPortFree.                                                               *)
LEMMA CallReleases ==
  ASSUME NEW x, NEW h, NEW m, NEW a, NEW at, KernelInv(x, h, m, a, at), h[x.cur].pc = "release",
         NEW y, y = vTaskSuspendAll(x), NEW n, n = IF Len(h[x.cur].got) = 1 THEN "run" ELSE "free",
         NEW g, g = [h EXCEPT ![x.cur].pc = "resume", ![x.cur].got = Tail(h[x.cur].got), ![x.cur].to = n]
  PROVE  KernelInv(y, g, m, a, at)
<1>1. x.cur \in Task /\ h \in [Task -> ThreadState] /\ Threads(h, m, a) /\ Thread(h[x.cur], m, a.calls[x.cur])
      /\ h[x.cur] \in ThreadState
  BY Running
<1>2. h[x.cur].got # <<>> /\ h[x.cur].got \in Seq(BlockLink_t)
  BY <1>1 DEF Thread, Doing, Holding, ThreadState
<1>3. PICK e : e = Tail(h[x.cur].got)
  OBVIOUS
<1>4. e \in Seq(BlockLink_t) /\ (n = "free" => e # <<>>)
  <2>1. PICK s \in Seq(BlockLink_t) : s = h[x.cur].got
    BY <1>2
  <2>2. s # <<>> => Tail(s) \in Seq(BlockLink_t)
    BY <2>1
  <2>3. s # <<>> => Len(Tail(s)) = Len(s) - 1 /\ Len(s) \in Nat
    BY <2>1
  <2>4. Tail(s) = <<>> => Len(Tail(s)) = 0
    <3>1. PICK v : v = Tail(s)
      OBVIOUS
    <3>2. v = <<>> => Len(v) = 0
      OBVIOUS
    <3> QED BY ONLY <3>1, <3>2
  <2>5. s # <<>> /\ Tail(s) = <<>> => Len(s) = 1
    BY ONLY <2>3, <2>4
  <2> QED BY <1>2, <1>3, <2>1, <2>2, <2>5
<1>5. PICK p, q, w : Goes(h, g, x.cur, p, q, e, w) /\ p = "resume" /\ q = n
  <2>1. "resume" \in PC /\ n \in TO
    BY DEF PC, TO, SuspPc
  <2>2. g = [h EXCEPT ![x.cur].pc = "resume", ![x.cur].to = n, ![x.cur].got = e]
    BY <1>1, <1>3 DEF ThreadState
  <2> QED BY ZenonT(30), <1>1, <1>4, <2>1, <2>2, WentHolding
<1>6. Threads(g, m, a)
  <2>1. q \in {"run", "free"} /\ (q = "free" => e # <<>>)
    BY <1>4, <1>5
  <2>2. OpOf(p, h[x.cur].c.op) /\ OpOf(q, h[x.cur].c.op)
    BY <1>5, <2>1, OpOfNone
  <2> QED BY <1>1, <1>5, <2>1, <2>2, Threaded
<1>7. h[x.cur].pc \notin SuspPc \cup {"yield", "suspended", "created", "taken"} /\ p \in SuspPc \ AbortPc
  BY <1>5 DEF SuspPc, AbortPc
<1>8. KernelInv(x, h, m, a, at) /\ y = vTaskSuspendAll(x)
  OBVIOUS
<1> QED BY ONLY <1>5, <1>6, <1>7, <1>8, GoesLocked

-----------------------------------------------------------------------------
(* Interrupts                                                               *)
LEMMA TickMoves ==
  ASSUME NEW x, NEW h, NEW m, NEW a, NEW at, KernelInv(x, h, m, a, at), x.pended < MaxPended,
         NEW y, y = TickInterrupt(x)
  PROVE  \E to : KernelInv(y, h, m, a, to)
<1>1. Sound(x, at)
  BY DEF KernelInv
<1>2. PICK to : Woke(x, y, at, to, {})
  BY <1>1, TickWakes
<1>3. PICK S : S = {}
  OBVIOUS
<1>4. Woke(x, y, at, to, S) /\ S \subseteq Staying(a)
  BY <1>2, <1>3
<1>5. KernelInv(y, h, m, a, to)
  BY ONLY KernelInv(x, h, m, a, at), x.pended < MaxPended, <1>4, KernelMoves
<1> QED BY <1>5

(* An interrupt on a task that waits: the task is in a list.                *)
LEMMA WaiterPlace ==
  ASSUME NEW x, NEW h, NEW m, NEW a, NEW at, KernelInv(x, h, m, a, at), NEW u \in Staying(a)
  PROVE  /\ u \in Task /\ (x.ns[u] = "waiting" => u \notin Range(x.pending))
         /\ x.susp = 0 => at[u] \notin {"none", "dying"}
<1>1. /\ AppOK(a) /\ Situated(x, h, m, a, at) /\ Locking(x, h, a) /\ Heeds(x, h, at)
  BY DEF KernelInv
<1>2. u \in Task /\ u \notin Passing(a)
  BY <1>1, StayingTasks
<1>3. x.ns[u] = "waiting" => u \notin Range(x.pending)
  BY <1>1, <1>2 DEF Heeds
<1>4. ASSUME x.susp = 0 PROVE at[u] \notin {"none", "dying"}
  <2>1. h[x.cur].pc \notin AbortPc
    <3>1. PICK n : n = x.susp
      OBVIOUS
    <3>2. n = 0 /\ (n = 1 <=> h[x.cur].pc \in SuspPc)
      BY <1>1, <1>4, <3>1 DEF Locking
    <3>3. h[x.cur].pc \notin SuspPc
      BY ONLY <3>2
    <3> QED BY <3>3 DEF SuspPc, AbortPc
  <2>2. \A t \in Task : ~Abandoned(h, t)
    BY <1>1, <2>1, NobodyAborts
  <2> QED BY <1>1, <1>2, <2>2 DEF Situated
<1> QED BY <1>2, <1>3, <1>4

LEMMA IsrMoves ==
  ASSUME NEW x, NEW h, NEW m, NEW a, NEW at, KernelInv(x, h, m, a, at), NEW i \in a.isr, NEW y,
         \/ i.op = "Resume" /\ y = xTaskResumeFromISR(x, i.u)
         \/ i.op = "Notify" /\ y = xTaskGenericNotifyFromISR(x, i.u)
  PROVE  \E to : KernelInv(y, h, m, a, to)
<1>1. PICK u : u = i.u
  OBVIOUS
<1>2. AppOK(a) /\ Sound(x, at) /\ Heeds(x, h, at) /\ Threads(h, m, a)
  BY DEF KernelInv
<1>3. IsrOK(a, i) /\ u \in Staying(a)
  BY <1>1, <1>2 DEF AppOK, IsrOK
<1>4. /\ u \in Task /\ (x.ns[u] = "waiting" => u \notin Range(x.pending))
      /\ x.susp = 0 => at[u] \notin {"none", "dying"}
  BY <1>3, WaiterPlace
<1>5. PICK to : Woke(x, y, at, to, {u}) /\ y.pended = x.pended
  <2>1. CASE i.op = "Resume" /\ y = xTaskResumeFromISR(x, i.u)
    <3>1. at[u] = "suspended" => x.ns[u] # "waiting"
      <4>1. SUFFICES ASSUME at[u] = "suspended", x.ns[u] = "waiting" PROVE FALSE
        OBVIOUS
      <4>2. h[u].pc = "taken" /\ h[u].c.n = MaxDelay
        BY <1>2, <1>4, <4>1 DEF Heeds
      <4>3. h[u].c.op = "NotifyTake"
        BY <1>2, <1>4, <4>2 DEF Threads, Thread, OpOf
      <4>4. h[u].c \in a.calls[u]
        BY <1>2, <1>4, <4>3, InOwnCall
      <4> QED BY <1>1, <1>3, <2>1, <4>2, <4>3, <4>4 DEF IsrOK
    <3>2. y = xTaskResumeFromISR(x, u)
      BY <1>1, <2>1
    <3> QED BY <1>2, <1>4, <3>1, <3>2, IsrResumes
  <2>2. CASE i.op = "Notify" /\ y = xTaskGenericNotifyFromISR(x, i.u)
    <3>1. y = xTaskGenericNotifyFromISR(x, u)
      BY <1>1, <2>2
    <3> QED BY <1>2, <1>4, <3>1, IsrNotifies
  <2> QED BY <2>1, <2>2
<1>6. PICK S : S = {u}
  OBVIOUS
<1>7. Woke(x, y, at, to, S) /\ S \subseteq Staying(a)
  BY <1>3, <1>5, <1>6
<1>8. y.pended = x.pended \/ x.pended < MaxPended
  BY <1>5
<1>9. KernelInv(y, h, m, a, to)
  BY ONLY KernelInv(x, h, m, a, at), <1>7, <1>8, KernelMoves
<1> QED BY <1>9

-----------------------------------------------------------------------------
(* The steps of the module                                                  *)
Safe(at) == KernelInv(k, th, mem, app, at)
SafeNext == \E to : KernelInv(k', th', mem, app, to)
LEMMA SimpleKeeps ==
  ASSUME NEW at, Safe(at), SimpleCall \/ Locked
  PROVE  SafeNext
<1>1. PICK p : /\ p = IF th[k.cur].pc = "locked" THEN "resume" ELSE "run"
  OBVIOUS
<1>2. /\ th[k.cur].pc \in Simple \cup {"locked"} /\ k' = DoSimple(k, th[k.cur].c)
      /\ th' = [th EXCEPT ![k.cur].pc = p, ![k.cur].to = "run"]
  <2>1. CASE SimpleCall
    <3>1. th[k.cur].pc \in Simple /\ k' = DoSimple(k, th[k.cur].c)
          /\ th' = [th EXCEPT ![k.cur].pc = "run", ![k.cur].to = "run"]
      BY <2>1 DEF SimpleCall, At, me, c, Goto, Kernel
    <3>2. p = "run"
      BY <1>1, <3>1 DEF Simple
    <3> QED BY <3>1, <3>2
  <2>2. CASE Locked
    <3>1. th[k.cur].pc = "locked" /\ k' = DoSimple(k, th[k.cur].c)
          /\ th' = [th EXCEPT ![k.cur].pc = "resume", ![k.cur].to = "run"]
      BY <2>2 DEF Locked, At, me, c, ResumeThen, Kernel
    <3> QED BY <1>1, <3>1
  <2> QED BY <2>1, <2>2
<1>3. p \in {"resume", "run"} /\ (p = "resume" <=> th[k.cur].pc = "locked")
  BY <1>1
<1>4. KernelInv(k, th, mem, app, at)
  BY DEF Safe
<1>5. th[k.cur].pc \in Simple \cup {"locked"} /\ SimpleStep(k, th, k', th', p)
  BY <1>2, <1>3 DEF SimpleStep
<1>6. \E to : KernelInv(k', th', mem, app, to)
  BY ONLY <1>4, <1>5, SimpleMoves
<1> QED BY <1>6 DEF SafeNext

(* A call that only suspends the scheduler.                                 *)
LEMMA LockKeeps ==
  ASSUME NEW at, Safe(at), Lock \/ DelayUntil \/ CatchUpTicks \/ AbortDelay \/ (Delay /\ c.n # 0)
  PROVE  SafeNext
<1>1. \E p : /\ \/ th[k.cur].pc = "lock" /\ p = "locked"
                \/ th[k.cur].pc = "Delay" /\ p = "delay" /\ th[k.cur].c.n # 0
                \/ th[k.cur].pc = "DelayUntil" /\ p = "delayuntil"
                \/ th[k.cur].pc = "CatchUp" /\ p = "catchup"
                \/ th[k.cur].pc = "AbortDelay" /\ p = "abort"
             /\ th' = [th EXCEPT ![k.cur].pc = p, ![k.cur].to = "run"] /\ k' = vTaskSuspendAll(k)
  <2>1. CASE Lock
    BY <2>1 DEF Lock, At, me, Goto, Kernel
  <2>2. CASE DelayUntil
    BY <2>2 DEF DelayUntil, At, me, Goto, Kernel
  <2>3. CASE CatchUpTicks
    BY <2>3 DEF CatchUpTicks, At, me, Goto, Kernel
  <2>4. CASE AbortDelay
    BY <2>4 DEF AbortDelay, At, me, Goto, Kernel
  <2>5. CASE Delay /\ c.n # 0
    <3>1. th[k.cur].pc = "Delay"
      BY <2>5 DEF Delay, At, me
    <3>2. k.susp = 0
      <4>1. th[k.cur].pc \notin SuspPc
        BY <3>1 DEF SuspPc
      <4> QED BY <4>1, OutOfLock DEF Safe
    <3>3. ConfigAssert(k, k.susp = 0) = k
      BY <3>2 DEF ConfigAssert
    <3>4. k' = vTaskSuspendAll(k) /\ th' = [th EXCEPT ![k.cur].pc = "delay", ![k.cur].to = "run"] /\ th[k.cur].c.n # 0
      BY <2>5, <3>3 DEF Delay, At, me, c, Goto, Kernel
    <3> QED BY <3>1, <3>4
  <2> QED BY <2>1, <2>2, <2>3, <2>4, <2>5
<1>2. KernelInv(k, th, mem, app, at)
  BY DEF Safe
<1>3. KernelInv(k', th', mem, app, at)
  BY ONLY <1>1, <1>2, CallLocks
<1> QED BY <1>3 DEF SafeNext

(* A call that leaves the kernel alone.                                     *)
LEMMA OnKeeps ==
  ASSUME NEW at, Safe(at),
         NotDeleted \/ FreeMark \/ (Delay /\ c.n = 0) \/ (AbortIfBlocked /\ ~IsBlocked(k, c.u))
  PROVE  SafeNext
<1>1. \E p : /\ \/ th[k.cur].pc = "Delay" /\ p = "yield"
                \/ th[k.cur].pc = "Delete" /\ p = "run"
                \/ th[k.cur].pc = "free" /\ p = "release"
                \/ th[k.cur].pc = "abort" /\ p = "resume"
             /\ th' = [th EXCEPT ![k.cur].pc = p, ![k.cur].to = "run"] /\ k' = k
  <2>1. CASE NotDeleted
    BY <2>1 DEF NotDeleted, At, me, Goto
  <2>2. CASE FreeMark
    BY <2>2 DEF FreeMark, At, me, Goto
  <2>3. CASE Delay /\ c.n = 0
    BY <2>3 DEF Delay, At, me, Goto
  <2>4. CASE AbortIfBlocked /\ ~IsBlocked(k, c.u)
    BY <2>4 DEF AbortIfBlocked, At, me, ResumeThen
  <2> QED BY <2>1, <2>2, <2>3, <2>4
<1>2. KernelInv(k, th, mem, app, at)
  BY DEF Safe
<1>3. KernelInv(k, th', mem, app, at) /\ k' = k
  <2>1. KernelInv(k, th', mem, app, at)
    BY ONLY <1>1, <1>2, CallGoesOn
  <2> QED BY <1>1, <2>1
<1> QED BY <1>3 DEF SafeNext

LEMMA ResumeKeeps ==
  ASSUME NEW at, Safe(at), Resume
  PROVE  SafeNext
<1>1. KernelInv(k, th, mem, app, at) /\ th[k.cur].pc = "resume"
  BY DEF Safe, Resume, At, me
<1>2. PICK r : r = xTaskResumeAll(k)
  OBVIOUS
<1>3. PICK to : to = th[k.cur].to
  OBVIOUS
<1>4. PICK p : p = IF r.yielded /\ to \in DOMAIN AfterYield THEN AfterYield[to] ELSE to
  OBVIOUS
<1>5. k' = r.k /\ th' = [th EXCEPT ![k.cur].pc = p, ![k.cur].to = "run"]
  BY <1>2, <1>3, <1>4 DEF Resume, At, me, Goto, Kernel
<1>6. to \in TO
  BY <1>1, <1>3, Running DEF ThreadState
<1>7. (p = th[k.cur].to \/ p = "run") /\ (~r.yielded => p = th[k.cur].to)
  <2>1. DOMAIN AfterYield = {"yield", "yieldagain"} /\ AfterYield["yield"] = "run"
    BY DEF AfterYield
  <2>2. to \in DOMAIN AfterYield => AfterYield[to] = "run"
    BY <1>6, <2>1 DEF TO
  <2> QED BY <1>3, <1>4, <2>2
<1>8. \E on : KernelInv(r.k, th', mem, app, on)
  BY ONLY <1>1, <1>2, <1>5, <1>7, CallResumes
<1> QED BY <1>5, <1>8 DEF SafeNext

LEMMA YieldKeepsSafe ==
  ASSUME NEW at, Safe(at), Yield
  PROVE  SafeNext
<1>1. PICK pc \in DOMAIN AfterYield :
        th[k.cur].pc = pc /\ k' = vTaskSwitchContext(k) /\ th' = [th EXCEPT ![k.cur].pc = AfterYield[pc], ![k.cur].to = "run"]
  BY DEF Yield, At, me, Goto, Kernel
<1>2. pc = "yield" /\ AfterYield[pc] = "run"
  <2>1. DOMAIN AfterYield = {"yield", "yieldagain"} /\ AfterYield["yield"] = "run"
    BY DEF AfterYield
  <2>2. th[k.cur].pc \in PC
    BY Running DEF Safe, ThreadState
  <2> QED BY <1>1, <2>1, <2>2 DEF PC, SuspPc, Simple
<1>3. /\ KernelInv(k, th, mem, app, at) /\ th[k.cur].pc \in {"yield", "created"}
      /\ th' = [th EXCEPT ![k.cur].pc = "run", ![k.cur].to = "run"]
  BY <1>1, <1>2 DEF Safe
<1>4. k' = YieldIf(k, TRUE)
  BY <1>1 DEF YieldIf
<1>5. KernelInv(k', th', mem, app, at)
  BY ONLY <1>3, <1>4, CallSwitches
<1> QED BY <1>5 DEF SafeNext

LEMMA DelayAddKeeps ==
  ASSUME NEW at, Safe(at), DelayAdd
  PROVE  SafeNext
<1>1. /\ KernelInv(k, th, mem, app, at) /\ th[k.cur].pc = "delay"
      /\ k' = prvAddCurrentTaskToDelayedList(k, th[k.cur].c.n, FALSE)
      /\ th' = [th EXCEPT ![k.cur].pc = "resume", ![k.cur].to = "yield"]
  BY DEF Safe, DelayAdd, At, me, c, ResumeThen, Kernel
<1>2. AppOK(app) /\ k.cur \in Task /\ th \in [Task -> ThreadState] /\ Threads(th, mem, app)
      /\ Thread(th[k.cur], mem, app.calls[k.cur])
  BY <1>1, Running DEF KernelInv
<1>3. th[k.cur].c.n \in 1..MaxDelay
  <2>1. th[k.cur].c.op = "Delay" /\ th[k.cur].c.n # 0
    BY <1>1, <1>2 DEF Thread, OpOf
  <2>2. CallOK(app, k.cur, th[k.cur].c) /\ th[k.cur].c \in Call
    BY <1>2, <2>1, InOwnCall
  <2>3. th[k.cur].c.n \in Nat /\ th[k.cur].c.n <= MaxDelay
    BY <2>1, <2>2 DEF CallOK, Timed, Call
  <2> QED BY <2>1, <2>3, Numbers
<1>4. PICK p, q, e, w : Goes(th, th', k.cur, p, q, e, w) /\ p = "resume" /\ q = "yield"
  <2>1. "resume" \in PC /\ "yield" \in TO
    BY DEF PC, TO, SuspPc
  <2> QED BY <1>1, <1>2, <2>1, Went
<1>5. th[k.cur].pc \in {"delay", "delayuntil"}
  BY <1>1
<1>6. \E to : KernelInv(k', th', mem, app, to)
  BY ONLY <1>1, <1>3, <1>4, <1>5, CallSleeps
<1> QED BY <1>6 DEF SafeNext

(* If the time to wake is still to come, it is some ticks away, less than   *)
(* a turn of the tick count.                                                *)
LEMMA LaterTicks ==
  ASSUME NEW i \in 0..MaxDelay, NEW prev \in 0..MaxDelay, NEW wake \in 0..MaxDelay, WakesLater(i, prev, wake)
  PROVE  (wake - i) % TickMod \in 1..MaxDelay
<1>1. wake # i
  BY Numbers DEF WakesLater
<1>2. PICK b \in Nat \ {0, 1} : b = TickMod
  BY Numbers
<1>3. MaxDelay = b - 1
  BY <1>2, Numbers
<1>4. CASE i < wake
  <2>1. (wake - i) \in 1..b - 1
    BY <1>2, <1>3, <1>4
  <2>2. (wake - i) % b = wake - i
    BY <1>2, <2>1
  <2> QED BY <1>2, <1>3, <2>1, <2>2
<1>5. CASE ~(i < wake)
  <2>1. (wake - i + b) \in 1..b - 1
    BY <1>1, <1>2, <1>3, <1>5
  <2>2. (wake - i) % b = wake - i + b
    BY <1>2, <2>1
  <2> QED BY <1>2, <1>3, <2>1, <2>2
<1> QED BY <1>4, <1>5

LEMMA DelayUntilAddKeeps ==
  ASSUME NEW at, Safe(at), DelayUntilAdd
  PROVE  SafeNext
<1>1. PICK wake : wake = (th[k.cur].prev + th[k.cur].c.n) % TickMod
  OBVIOUS
<1>2. /\ KernelInv(k, th, mem, app, at) /\ th[k.cur].pc = "delayuntil"
      /\ th' = [th EXCEPT ![k.cur].pc = "resume", ![k.cur].to = "yield", ![k.cur].prev = wake]
      /\ k' = IF WakesLater(k.tick, th[k.cur].prev, wake)
              THEN prvAddCurrentTaskToDelayedList(k, (wake - k.tick) % TickMod, FALSE) ELSE k
  BY <1>1 DEF Safe, DelayUntilAdd, At, me, c, Kernel
<1>3. k.cur \in Task /\ th \in [Task -> ThreadState] /\ Threads(th, mem, app) /\ th[k.cur] \in ThreadState
      /\ k.tick \in 0..MaxDelay
  BY <1>2, Running DEF KernelInv, Sound, Shape, KernelState
<1>4. th[k.cur].prev \in 0..MaxDelay /\ th[k.cur].c.n \in Nat
  BY <1>3 DEF ThreadState, Call
<1>5. wake \in 0..MaxDelay
  BY <1>1, <1>4, Numbers
<1>6. PICK p, q, e, w : Goes(th, th', k.cur, p, q, e, w) /\ p = "resume" /\ q = "yield" /\ e = th[k.cur].got
  <2>1. "resume" \in PC /\ "yield" \in TO
    BY DEF PC, TO, SuspPc
  <2> QED BY <1>2, <1>3, <1>5, <2>1, WentUntil
<1>7. CASE WakesLater(k.tick, th[k.cur].prev, wake)
  <2>1. PICK n : n = (wake - k.tick) % TickMod
    OBVIOUS
  <2>3. n \in 1..MaxDelay
    BY <1>3, <1>4, <1>5, <1>7, <2>1, LaterTicks
  <2>4. k' = prvAddCurrentTaskToDelayedList(k, n, FALSE)
    BY <1>2, <1>7, <2>1
  <2>5. KernelInv(k, th, mem, app, at) /\ th[k.cur].pc \in {"delay", "delayuntil"}
    BY <1>2
  <2>6. \E to : KernelInv(k', th', mem, app, to)
    BY ONLY <1>6, <2>3, <2>4, <2>5, CallSleeps
  <2> QED BY <2>6 DEF SafeNext
<1>8. CASE ~WakesLater(k.tick, th[k.cur].prev, wake)
  <2>1. k' = k
    BY <1>2, <1>8
  <2>2. Threads(th', mem, app)
    <3>1. OpOf(p, th[k.cur].c.op) /\ OpOf(q, th[k.cur].c.op)
      BY <1>6, OpOfNone
    <3> QED BY <1>3, <1>6, <3>1, Threaded
  <2>3. /\ th[k.cur].pc \notin AbortPc \cup {"yield", "suspended", "created", "taken", "resume"}
        /\ p \notin AbortPc \cup {"taken"} /\ (p \in SuspPc <=> th[k.cur].pc \in SuspPc)
    BY <1>2, <1>6 DEF SuspPc, AbortPc
  <2>4. KernelInv(k, th, mem, app, at) /\ Goes(th, th', k.cur, p, q, e, w)
    BY <1>2, <1>6
  <2>5. KernelInv(k, th', mem, app, at)
    BY ONLY <2>2, <2>3, <2>4, GoesOn
  <2> QED BY <2>1, <2>5 DEF SafeNext
<1> QED BY <1>7, <1>8

LEMMA SuspendKeeps ==
  ASSUME NEW at, Safe(at), Suspend \/ Suspended
  PROVE  SafeNext
<1>1. KernelInv(k, th, mem, app, at)
  BY DEF Safe
<1>2. CASE Suspend
  <2>1. /\ th[k.cur].pc = "Suspend" /\ k' = SuspendTask(k, th[k.cur].c.u)
        /\ th' = [th EXCEPT ![k.cur].pc = "suspended", ![k.cur].to = "run"]
    BY <1>2 DEF Suspend, At, me, c, Goto, Kernel
  <2>2. \E to : KernelInv(k', th', mem, app, to)
    BY ONLY <1>1, <2>1, CallSuspends
  <2> QED BY <2>2 DEF SafeNext
<1>3. CASE Suspended
  <2>1. PICK n : n = IF th[k.cur].c.u = k.cur THEN "yield" ELSE "run"
    OBVIOUS
  <2>2. /\ th[k.cur].pc = "suspended" /\ k' = prvResetNextTaskUnblockTime(k)
        /\ th' = [th EXCEPT ![k.cur].pc = n, ![k.cur].to = "run"]
    BY <1>3, <2>1 DEF Suspended, At, me, c, Goto, Kernel
  <2>3. KernelInv(k', th', mem, app, at)
    BY ONLY <1>1, <2>1, <2>2, CallResetsTime
  <2> QED BY <2>3 DEF SafeNext
<1> QED BY <1>2, <1>3

LEMMA NotifyTakeKeeps ==
  ASSUME NEW at, Safe(at), NotifyTake \/ NotifyTaken
  PROVE  SafeNext
<1>1. KernelInv(k, th, mem, app, at)
  BY DEF Safe
<1>2. CASE NotifyTake
  <2>1. PICK z : z = [k EXCEPT !.ns[k.cur] = "waiting"]
    OBVIOUS
  <2>2. PICK n : n = th[k.cur].c.n
    OBVIOUS
  <2>3. /\ th[k.cur].pc = "NotifyTake" /\ th' = [th EXCEPT ![k.cur].pc = "taken", ![k.cur].to = "run"]
        /\ k' = IF k.nv[k.cur] > 0 THEN k ELSE IF n = 0 THEN z
                ELSE vTaskSwitchContext(prvAddCurrentTaskToDelayedList(z, n, TRUE))
    BY <1>2, <2>1, <2>2 DEF NotifyTake, At, me, c, Goto, Kernel
  <2>4. CASE k.nv[k.cur] > 0 \/ n = 0
    <3>1. \/ k' = k /\ k.nv[k.cur] > 0
          \/ k' = [k EXCEPT !.ns[k.cur] = "waiting"] /\ ~(k.nv[k.cur] > 0)
      BY <2>1, <2>3, <2>4
    <3>2. KernelInv(k', th', mem, app, at)
      BY ONLY <1>1, <2>3, <3>1, CallTakes
    <3> QED BY <3>2 DEF SafeNext
  <2>5. CASE ~(k.nv[k.cur] > 0 \/ n = 0)
    <3>1. n # 0 /\ ~(k.nv[k.cur] > 0) /\ k' = vTaskSwitchContext(prvAddCurrentTaskToDelayedList(z, n, TRUE))
      BY <2>3, <2>5
    <3>2. \E to : KernelInv(k', th', mem, app, to)
      BY ONLY <1>1, <2>1, <2>2, <2>3, <3>1, CallWaits
    <3> QED BY <3>2 DEF SafeNext
  <2> QED BY <2>4, <2>5
<1>3. CASE NotifyTaken
  <2>1. /\ th[k.cur].pc = "taken" /\ th' = [th EXCEPT ![k.cur].pc = "run", ![k.cur].to = "run"]
        /\ k' = [k EXCEPT !.nv[k.cur] = IF k.nv[k.cur] > 0 THEN k.nv[k.cur] - 1 ELSE k.nv[k.cur],
                          !.ns[k.cur] = "none"]
    BY <1>3 DEF NotifyTaken, At, me, Goto, Kernel
  <2>2. HasTaken(k, k')
    BY <2>1 DEF HasTaken
  <2>3. th[k.cur].pc = "taken" /\ th' = [th EXCEPT ![k.cur].pc = "run", ![k.cur].to = "run"]
    BY <2>1
  <2>4. KernelInv(k', th', mem, app, at)
    BY ONLY <1>1, <2>2, <2>3, CallHasTaken
  <2> QED BY <2>4 DEF SafeNext
<1> QED BY <1>2, <1>3

LEMMA CatchUpKeeps ==
  ASSUME NEW at, Safe(at), CatchUpAdd
  PROVE  SafeNext
<1>1. KernelInv(k, th, mem, app, at)
  BY DEF Safe
<1>2. /\ th[k.cur].pc = "catchup" /\ k' = [k EXCEPT !.pended = k.pended + th[k.cur].c.n]
      /\ th' = [th EXCEPT ![k.cur].pc = "resume", ![k.cur].to = "run"]
  BY DEF CatchUpAdd, At, me, c, ResumeThen, Kernel
<1>3. KernelInv(k', th', mem, app, at)
  BY ONLY <1>1, <1>2, CallCatchesUp
<1> QED BY <1>3 DEF SafeNext

LEMMA AbortKeeps ==
  ASSUME NEW at, Safe(at), (AbortIfBlocked /\ IsBlocked(k, c.u)) \/ AbortEvent \/ AbortReady
  PROVE  SafeNext
<1>1. KernelInv(k, th, mem, app, at)
  BY DEF Safe
<1>2. PICK u : u = th[k.cur].c.u
  OBVIOUS
<1>3. CASE AbortIfBlocked /\ IsBlocked(k, c.u)
  <2>1. /\ th[k.cur].pc = "abort" /\ IsBlocked(k, u) /\ k' = RemoveState(k, u)
        /\ th' = [th EXCEPT ![k.cur].pc = "abortevent", ![k.cur].to = "run"]
    BY <1>2, <1>3 DEF AbortIfBlocked, At, me, c, Goto, Kernel
  <2>2. \E to : KernelInv(k', th', mem, app, to)
    BY ONLY <1>1, <1>2, <2>1, CallTakesAway
  <2> QED BY <2>2 DEF SafeNext
<1>4. CASE AbortEvent
  <2>1. /\ th[k.cur].pc = "abortevent"
        /\ k' = IF EventFree(k, u) THEN k ELSE [RemoveEvent(k, u) EXCEPT !.aborted[u] = TRUE]
        /\ th' = [th EXCEPT ![k.cur].pc = "abortready", ![k.cur].to = "run"]
    BY ONLY <1>2, <1>4 DEF AbortEvent, At, me, c, Goto, Kernel
  <2>2. KernelInv(k', th', mem, app, at)
    BY ONLY <1>1, <1>2, <2>1, CallAbortsEvent
  <2> QED BY <2>2 DEF SafeNext
<1>5. CASE AbortReady
  <2>1. PICK z : z = prvAddTaskToReadyList(k, u)
    OBVIOUS
  <2>2. /\ th[k.cur].pc = "abortready" /\ k' = [z EXCEPT !.ypend = z.ypend \/ Above(k, u)]
        /\ th' = [th EXCEPT ![k.cur].pc = "resume", ![k.cur].to = "run"]
    BY <1>2, <1>5, <2>1 DEF AbortReady, At, me, c, ResumeThen, Kernel
  <2>3. \E to : KernelInv(k', th', mem, app, to)
    BY ONLY <1>1, <1>2, <2>1, <2>2, CallMakesReady
  <2> QED BY <2>3 DEF SafeNext
<1> QED BY <1>3, <1>4, <1>5

LEMMA TaskCallKeeps ==
  ASSUME NEW at, Safe(at), TaskCall
  PROVE  SafeNext
<1>1. CASE SimpleCall \/ Locked
  BY <1>1, SimpleKeeps
<1>2. CASE Lock \/ DelayUntil \/ CatchUpTicks \/ AbortDelay \/ (Delay /\ c.n # 0)
  BY <1>2, LockKeeps
<1>3. CASE (Delay /\ c.n = 0) \/ (AbortIfBlocked /\ ~IsBlocked(k, c.u))
  BY <1>3, OnKeeps
<1>4. CASE Resume
  BY <1>4, ResumeKeeps
<1>5. CASE Yield
  BY <1>5, YieldKeepsSafe
<1>6. CASE DelayAdd
  BY <1>6, DelayAddKeeps
<1>7. CASE DelayUntilAdd
  BY <1>7, DelayUntilAddKeeps
<1>8. CASE Suspend \/ Suspended
  BY <1>8, SuspendKeeps
<1>9. CASE NotifyTake \/ NotifyTaken
  BY <1>9, NotifyTakeKeeps
<1>10. CASE CatchUpAdd
  BY <1>10, CatchUpKeeps
<1>11. CASE (AbortIfBlocked /\ IsBlocked(k, c.u)) \/ AbortEvent \/ AbortReady
  BY <1>11, AbortKeeps
<1> QED BY <1>1, <1>2, <1>3, <1>4, <1>5, <1>6, <1>7, <1>8, <1>9, <1>10, <1>11 DEF TaskCall

LEMMA BeginKeeps ==
  ASSUME NEW at, Safe(at), Begin
  PROVE  SafeNext
<1>1. KernelInv(k, th, mem, app, at)
  BY DEF Safe
<1>2. PICK d \in app.calls[k.cur] : /\ IF d.op = "Create" THEN ~Alive(d.u) ELSE Usable(d.u)
                                    /\ BeginCall(d)
  BY DEF Begin, me
<1>3. /\ th[k.cur].pc = "run" /\ k' = k /\ mem' = mem
      /\ th' = [th EXCEPT ![k.cur].pc = Entry(d), ![k.cur].c = d]
  BY <1>2 DEF BeginCall, Begin, memory, At, me
<1>4. d.op = "Create" => mem[d.u] = <<>>
  BY <1>2 DEF Alive
<1>5. d \in app.calls[k.cur]
  BY <1>2
<1>6. KernelInv(k, th', mem, app, at)
  BY ONLY <1>1, <1>3, <1>4, <1>5, CallBegins
<1> QED BY <1>3, <1>6 DEF SafeNext

(* The memory a task holds is handed over.                                  *)
SafeWith == \E to : KernelInv(k', th', mem', app, to)

LEMMA CreateAddKeeps ==
  ASSUME NEW at, Safe(at), CreateAdd
  PROVE  SafeWith
<1>1. KernelInv(k, th, mem, app, at)
  BY DEF Safe
<1>2. PICK u : u = th[k.cur].c.u
  OBVIOUS
<1>3. /\ th[k.cur].pc = "createadd" /\ k' = prvAddNewTaskToReadyList(k, u, th[k.cur].c.n)
      /\ mem' = [mem EXCEPT ![u] = th[k.cur].got]
      /\ th' = [th EXCEPT ![u] = Fresh, ![k.cur].got = <<>>, ![k.cur].pc = "created"]
  BY <1>2 DEF CreateAdd, At, me, c, Kernel
<1>4. th[k.cur].pc = "createadd" /\ Adds(k, th, mem, u, k', mem', th')
  BY <1>3 DEF Adds
<1>5. \E to : KernelInv(k', th', mem', app, to)
  BY ONLY <1>1, <1>2, <1>4, CallAdds
<1> QED BY <1>5 DEF SafeWith

LEMMA CreatedKeeps ==
  ASSUME NEW at, Safe(at), Created
  PROVE  SafeWith
<1>1. KernelInv(k, th, mem, app, at)
  BY DEF Safe
<1>2. PICK u : u = th[k.cur].c.u
  OBVIOUS
<1>3. /\ th[k.cur].pc = "created" /\ mem' = mem
      /\ th' = [th EXCEPT ![k.cur].pc = "run", ![k.cur].to = "run"]
  BY DEF Created, At, me, Goto, memory
<1>4. Above(k, u) \in BOOLEAN
  BY DEF Above
<1>5. PICK cond \in BOOLEAN : k' = YieldIf(k, cond) /\ (mem[u] # <<>> => cond = Above(k, u))
  <2>1. \/ mem[u] # <<>> /\ k' = YieldIf(k, Above(k, u))
        \/ mem[u] = <<>> /\ \E b \in BOOLEAN : k' = YieldIf(k, b)
    BY <1>2 DEF Created, Alive, me, c, Kernel
  <2> QED BY <1>4, <2>1
<1>6. KernelInv(k', th', mem, app, at)
  BY ONLY <1>1, <1>2, <1>3, <1>5, CallHasCreated
<1> QED BY <1>3, <1>6 DEF SafeWith

LEMMA DeleteKeeps ==
  ASSUME NEW at, Safe(at), Delete
  PROVE  SafeWith
<1>1. KernelInv(k, th, mem, app, at)
  BY DEF Safe
<1>2. PICK u : u = th[k.cur].c.u
  OBVIOUS
<1>3. /\ th[k.cur].pc = "Delete" /\ k' = DeleteTask(k, u)
      /\ mem[u] # <<>> /\ ~Contains(k.dying, u)
      /\ IF u = k.cur
         THEN /\ th' = [th EXCEPT ![k.cur].pc = "yield", ![k.cur].to = "run"] /\ mem' = mem
         ELSE /\ th' = [th EXCEPT ![k.cur].pc = "free", ![k.cur].got = mem[u]]
              /\ mem' = [mem EXCEPT ![u] = <<>>]
  BY <1>2 DEF Delete, At, me, c, Kernel, Goto, Usable, Alive
<1>4. CASE u = k.cur
  <2>1. /\ th[k.cur].c.u = k.cur /\ th' = [th EXCEPT ![k.cur].pc = "yield", ![k.cur].to = "run"]
        /\ mem' = mem /\ k' = DeleteTask(k, k.cur) /\ th[k.cur].pc = "Delete"
    BY <1>2, <1>3, <1>4
  <2>2. \E to : KernelInv(k', th', mem, app, to)
    BY ONLY <1>1, <2>1, CallDies
  <2> QED BY <2>1, <2>2 DEF SafeWith
<1>5. CASE u # k.cur
  <2>1. /\ u # k.cur /\ th' = [th EXCEPT ![k.cur].pc = "free", ![k.cur].got = mem[u]]
        /\ mem' = [mem EXCEPT ![u] = <<>>] /\ th[k.cur].pc = "Delete" /\ k' = DeleteTask(k, u)
        /\ mem[u] # <<>> /\ ~Contains(k.dying, u)
    BY <1>3, <1>5
  <2>2. FreesNext(k, th, mem, u, mem', th')
    BY <2>1 DEF FreesNext
  <2>3. /\ u # k.cur /\ th[k.cur].pc = "Delete" /\ k' = DeleteTask(k, u)
        /\ mem[u] # <<>> /\ ~Contains(k.dying, u)
    BY <2>1
  <2>4. \E to : KernelInv(k', th', mem', app, to)
    BY ONLY <1>1, <1>2, <2>2, <2>3, CallDeletes
  <2> QED BY <2>4 DEF SafeWith
<1> QED BY <1>4, <1>5

LEMMA CleanUpKeeps ==
  ASSUME NEW at, Safe(at), CleanUp
  PROVE  SafeWith
<1>1. KernelInv(k, th, mem, app, at)
  BY DEF Safe
<1>2. PICK u : u = Head(k.dying)
  OBVIOUS
<1>3. /\ th[k.cur].pc = "run" /\ k.cur = Idle /\ k.ndying > 0
      /\ k' = [RemoveState(k, u) EXCEPT !.ntasks = RemoveState(k, u).ntasks - 1,
                                        !.ndying = RemoveState(k, u).ndying - 1]
      /\ mem' = [mem EXCEPT ![u] = <<>>]
      /\ th' = [th EXCEPT ![k.cur].pc = "free", ![k.cur].got = mem[u]]
  BY <1>2 DEF CleanUp, At, me, Kernel
<1>4. /\ th[k.cur].pc = "run" /\ k.cur = Idle /\ k.ndying > 0
      /\ Uncounted(k, u, k') /\ FreesNext(k, th, mem, u, mem', th')
  BY <1>3 DEF Uncounted, FreesNext
<1>5. \E to : KernelInv(k', th', mem', app, to)
  BY ONLY <1>1, <1>2, <1>4, CallBuries
<1> QED BY <1>5 DEF SafeWith

LEMMA FreeReleaseKeeps ==
  ASSUME NEW at, Safe(at), FreeRelease
  PROVE  SafeNext
<1>1. KernelInv(k, th, mem, app, at)
  BY DEF Safe
<1>2. PICK n : n = IF Len(th[k.cur].got) = 1 THEN "run" ELSE "free"
  OBVIOUS
<1>3. /\ th[k.cur].pc = "release" /\ k' = vTaskSuspendAll(k)
      /\ th' = [th EXCEPT ![k.cur].pc = "resume", ![k.cur].got = Tail(th[k.cur].got), ![k.cur].to = n]
  BY <1>2 DEF FreeRelease, At, me, Kernel
<1>4. KernelInv(k', th', mem, app, at)
  BY ONLY <1>1, <1>2, <1>3, CallReleases
<1> QED BY <1>4 DEF SafeNext

LEMMA MallocKeeps ==
  ASSUME NEW at, Safe(at), CreateStack \/ CreateTcb, HeapInv'
  PROVE  SafeNext
<1>1. KernelInv(k, th, mem, app, at)
  BY DEF Safe
<1>2. PICK wanted, n, f : /\ Malloc(wanted, n, f)
                          /\ \/ th[k.cur].pc = "Create" /\ n = "createtcb" /\ f = "run"
                             \/ th[k.cur].pc = "createtcb" /\ n = "createadd" /\ f = "free"
  <2>1. CASE CreateStack
    <3>1. Malloc(StackUnits, "createtcb", "run") /\ th[k.cur].pc = "Create"
      BY <2>1 DEF CreateStack, At, me
    <3> QED BY <3>1
  <2>2. CASE CreateTcb
    <3>1. Malloc(TcbUnits, "createadd", "free") /\ th[k.cur].pc = "createtcb"
      BY <2>2 DEF CreateTcb, At, me
    <3> QED BY <3>1
  <2> QED BY <2>1, <2>2
<1>3. k' = vTaskSuspendAll(k)
  BY <1>2 DEF Malloc, Kernel
<1>4. CASE Fits(wanted)
  <2>1. PICK b : /\ b \in used' \ used
                 /\ th' = [th EXCEPT ![k.cur].pc = "resume", ![k.cur].to = n,
                                     ![k.cur].got = Append(th[k.cur].got, b)]
    BY <1>2, <1>4 DEF Malloc, me
  <2>2. b \in BlockLink_t
    BY <2>1 DEF HeapInv, HeapTypeOK, Blocks
  <2>3. \/ th[k.cur].pc = "Create" /\ n = "createtcb"
        \/ th[k.cur].pc = "createtcb" /\ n = "createadd"
    BY ONLY <1>2
  <2>4. KernelInv(k', th', mem, app, at)
    BY ONLY ZenonT(30), <1>1, <1>3, <2>1, <2>2, <2>3, CallAllocates
  <2> QED BY <2>4 DEF SafeNext
<1>5. CASE ~Fits(wanted)
  <2>1. th' = [th EXCEPT ![k.cur].pc = "resume", ![k.cur].to = f]
    BY <1>2, <1>5 DEF Malloc, me, ResumeThen
  <2>3. \/ th[k.cur].pc = "Create" /\ f = "run"
        \/ th[k.cur].pc = "createtcb" /\ f = "free"
    BY <1>2
  <2>4. KernelInv(k', th', mem, app, at)
    BY ONLY <1>1, <1>3, <2>1, <2>3, CallFindsNone
  <2> QED BY <2>4 DEF SafeNext
<1> QED BY <1>4, <1>5

LEMMA InterruptKeeps ==
  ASSUME NEW at, Safe(at), Ticks \/ Interrupts
  PROVE  SafeNext
<1>1. KernelInv(k, th, mem, app, at)
  BY DEF Safe
<1>2. CASE Ticks
  <2>1. th' = th /\ k' = TickInterrupt(k) /\ k.pended < MaxPended
    BY <1>2 DEF Ticks, Tick, TickEnabled, Kernel
  <2>2. \E to : KernelInv(k', th, mem, app, to)
    BY ONLY <1>1, <2>1, TickMoves
  <2> QED BY <2>1, <2>2 DEF SafeNext
<1>3. CASE Interrupts
  <2>1. PICK i \in app.isr : TaskIsr(i)
    BY <1>3 DEF Interrupts
  <2>2. /\ th' = th /\ i \in app.isr
        /\ \/ i.op = "Resume" /\ k' = xTaskResumeFromISR(k, i.u)
           \/ i.op = "Notify" /\ k' = xTaskGenericNotifyFromISR(k, i.u)
    BY <2>1 DEF TaskIsr, Kernel
  <2>3. \E to : KernelInv(k', th, mem, app, to)
    BY ONLY <1>1, <2>2, IsrMoves
  <2> QED BY <2>2, <2>3 DEF SafeNext
<1> QED BY <1>2, <1>3

-----------------------------------------------------------------------------
(* The heap under the calls of the tasks                                    *)

LEMMA Units == {StackUnits, TcbUnits} \subseteq Nat \ {0}
<1>1. \A n \in Nat : \A d \in Nat \ {0} : n \div d \in Nat
  OBVIOUS
<1>2. StackBytes \div Align \in Nat /\ TcbBytes \div Align \in Nat
  BY <1>1, AppAssumption
<1>3. \A n, d \in Nat : d # 0 => d + n + 1 \in Nat \ {0}
  OBVIOUS
<1>4. HeapStructUnits \in Nat /\ HeapStructUnits # 0
  BY HeapAssumption
<1> QED BY <1>2, <1>3, <1>4 DEF StackUnits, TcbUnits, WantedUnits

LEMMA HeapStays ==
  ASSUME HeapInv, UNCHANGED heapVars
  PROVE  HeapInv'
BY DEF HeapInv, HeapTypeOK, Disjoint, Covered, Coalesced, Blocks, heapVars

LEMMA HeapKeeps ==
  ASSUME HeapInv, Next
  PROVE  HeapInv'
<1>1. CASE Begin \/ CleanUp \/ Ticks \/ Interrupts \/ Calls
  <2>1. UNCHANGED heapVars
    BY <1>1 DEF Begin, CleanUp, Ticks, Interrupts, Calls, memory
  <2> QED BY <2>1, HeapStays
<1>2. CASE CreateAdd \/ Created \/ NotDeleted \/ Delete
  <2>1. UNCHANGED heapVars
    BY <1>2 DEF CreateAdd, Created, NotDeleted, Delete, memory
  <2> QED BY <2>1, HeapStays
<1>3. CASE CreateStack \/ CreateTcb
  <2>1. PICK wanted \in Nat \ {0} : \E n, f : Malloc(wanted, n, f)
    BY <1>3, Units DEF CreateStack, CreateTcb
  <2>2. CASE Fits(wanted)
    <3>1. PICK b \in free : Allocate(b, wanted)
      BY <2>1, <2>2 DEF Malloc
    <3> QED BY <3>1, AllocatePreserves
  <2>3. CASE ~Fits(wanted)
    <3>1. UNCHANGED heapVars
      BY <2>1, <2>3 DEF Malloc
    <3> QED BY <3>1, HeapStays
  <2> QED BY <2>2, <2>3
<1>4. CASE FreeMark
  <2>1. PICK b : heapFREE_BLOCK(b)
    BY <1>4 DEF FreeMark
  <2>2. b \in used
    BY <2>1 DEF heapFREE_BLOCK
  <2> QED BY <2>1, <2>2, FreePreserves
<1>5. CASE FreeRelease
  <2>1. PICK b : Release(b)
    BY <1>5 DEF FreeRelease
  <2>2. b \in leaving
    BY <2>1 DEF Release
  <2> QED BY <2>1, <2>2, ReleasePreserves
<1> QED BY <1>1, <1>2, <1>3, <1>4, <1>5 DEF Next, InCall
-----------------------------------------------------------------------------
(* The invariant                                                            *)

Inv == app \in Apps /\ HeapInv /\ \E at : Safe(at)

LEMMA InCallKeeps ==
  ASSUME NEW at, Safe(at), InCall, HeapInv'
  PROVE  SafeWith
<1>1. CASE Calls
  <2>1. SafeNext /\ mem' = mem
    BY <1>1, TaskCallKeeps DEF Calls, memory
  <2> QED BY <2>1 DEF SafeNext, SafeWith
<1>2. CASE CreateStack \/ CreateTcb
  <2>1. SafeNext /\ mem' = mem
    BY <1>2, MallocKeeps DEF CreateStack, CreateTcb, Malloc
  <2> QED BY <2>1 DEF SafeNext, SafeWith
<1>3. CASE NotDeleted \/ FreeMark
  <2>1. SafeNext /\ mem' = mem
    BY <1>3, OnKeeps DEF NotDeleted, FreeMark, memory
  <2> QED BY <2>1 DEF SafeNext, SafeWith
<1>4. CASE FreeRelease
  <2>1. SafeNext /\ mem' = mem
    BY <1>4, FreeReleaseKeeps DEF FreeRelease
  <2> QED BY <2>1 DEF SafeNext, SafeWith
<1>5. CASE CreateAdd
  BY <1>5, CreateAddKeeps
<1>6. CASE Created
  BY <1>6, CreatedKeeps
<1>7. CASE Delete
  BY <1>7, DeleteKeeps
<1> QED BY <1>1, <1>2, <1>3, <1>4, <1>5, <1>6, <1>7 DEF InCall

LEMMA InvStep == Inv /\ [Next]_vars => Inv'
<1>1. ASSUME Inv, Next PROVE Inv'
  <2>1. PICK at : Safe(at)
    BY <1>1 DEF Inv
  <2>2. HeapInv'
    BY <1>1, HeapKeeps DEF Inv
  <2>3. SafeWith
    <3>1. CASE Begin \/ Ticks \/ Interrupts
      <4>1. SafeNext /\ mem' = mem
        BY <2>1, <3>1, BeginKeeps, InterruptKeeps DEF Begin, Ticks, Interrupts, memory
      <4> QED BY <4>1 DEF SafeNext, SafeWith
    <3>2. CASE CleanUp
      BY <2>1, <3>2, CleanUpKeeps
    <3>3. CASE InCall
      BY <2>1, <2>2, <3>3, InCallKeeps
    <3> QED BY <1>1, <3>1, <3>2, <3>3 DEF Next
  <2>4. app' = app
    BY <1>1 DEF Next
  <2>5. \E to : KernelInv(k', th', mem', app', to)
    BY <2>3, <2>4 DEF SafeWith
  <2> QED BY <1>1, <2>2, <2>4, <2>5 DEF Inv, Safe
<1>2. ASSUME Inv, UNCHANGED vars PROVE Inv'
  <2>1. k' = k /\ th' = th /\ mem' = mem /\ app' = app /\ UNCHANGED heapVars
    BY <1>2 DEF vars, threadVars
  <2>2. HeapInv'
    BY <1>2, <2>1, HeapStays DEF Inv
  <2>3. \E to : KernelInv(k', th', mem', app', to)
    BY <1>2, <2>1 DEF Inv, Safe
  <2> QED BY <1>2, <2>1, <2>2, <2>3 DEF Inv, Safe
<1> QED BY <1>1, <1>2

-----------------------------------------------------------------------------
(* The start: the memory of the tasks lies one after the other              *)

LEMMA Multiples ==
  ASSUME NEW n \in Nat, NEW e \in Nat \ {0}
  PROVE  /\ \A i \in 1..n : (i - 1) * e \in Nat /\ (i - 1) * e + e <= n * e
         /\ \A i, j \in 1..n : i < j => (i - 1) * e + e <= (j - 1) * e
         /\ \A u \in Nat : u < n * e => \E i \in 1..n : (i - 1) * e <= u /\ u < (i - 1) * e + e
<1>1. \A i, j \in Nat : i <= j => i * e <= j * e
  <2>1. \A i, d \in Nat : (i + d) * e = i * e + d * e /\ d * e \in Nat /\ i * e \in Nat
    OBVIOUS
  <2>2. ASSUME NEW i \in Nat, NEW j \in Nat, i <= j PROVE i * e <= j * e
    <3>1. PICK d \in Nat : j = i + d
      <4>1. j - i \in Nat /\ j = i + (j - i)
        BY <2>2
      <4> QED BY <4>1
    <3> QED BY <2>1, <3>1
  <2> QED BY <2>2
<1>2. \A i \in Nat : (i + 1) * e = i * e + e /\ i * e \in Nat
  OBVIOUS
<1>3. ASSUME NEW i \in 1..n
      PROVE  (i - 1) * e \in Nat /\ (i - 1) * e + e = i * e /\ i * e <= n * e
  <2>1. i - 1 \in Nat /\ (i - 1) + 1 = i /\ i \in Nat /\ i <= n
    OBVIOUS
  <2> QED BY <1>1, <1>2, <2>1
<1>4. ASSUME NEW i \in 1..n, NEW j \in 1..n, i < j PROVE (i - 1) * e + e <= (j - 1) * e
  <2>1. i <= j - 1 /\ i \in Nat /\ j - 1 \in Nat
    BY <1>4
  <2> QED BY <1>1, <1>3, <2>1
<1>5. ASSUME NEW u \in Nat, u < n * e PROVE \E i \in 1..n : (i - 1) * e <= u /\ u < (i - 1) * e + e
  <2>1. PICK q \in Nat : q * e <= u /\ u < q * e + e
    <3>1. PICK q \in Nat : q = u \div e
      OBVIOUS
    <3>2. q * e <= u /\ u < q * e + e
      BY <3>1
    <3> QED BY <3>2
  <2>2. q < n
    <3>1. n <= q => n * e <= q * e
      BY <1>1, <2>1
    <3>2. n * e \in Nat /\ q * e \in Nat
      BY <1>2, <2>1
    <3> QED BY <1>5, <2>1, <3>1, <3>2
  <2>3. q + 1 \in 1..n /\ (q + 1) - 1 = q
    BY <2>1, <2>2
  <2> QED BY <2>1, <2>3
<1> QED BY <1>3, <1>4, <1>5

Each == StackUnits + TcbUnits
StackOf(i) == [at |-> (i - 1) * Each, size |-> StackUnits]
TcbOf(i) == [at |-> (i - 1) * Each + StackUnits, size |-> TcbUnits]

LEMMA LaidOut ==
  ASSUME NEW n \in Nat, n * Each < HeapUnits, leaving = {},
         used = UNION {{StackOf(i), TcbOf(i)} : i \in 1..n},
         free = {[at |-> n * Each, size |-> HeapUnits - n * Each]}
  PROVE  HeapInv
<1>1. PICK s \in Nat \ {0} : s = StackUnits
  BY Units
<1>2. PICK t \in Nat \ {0} : t = TcbUnits
  BY Units
<1>3. PICK e \in Nat \ {0} : e = s + t
  OBVIOUS
<1>4. PICK f \in [1..n -> Nat] :
        /\ \A i \in 1..n : f[i] = (i - 1) * e /\ f[i] + e <= n * e
        /\ \A i, j \in 1..n : i < j => f[i] + e <= f[j]
        /\ \A u \in Nat : u < n * e => \E i \in 1..n : f[i] <= u /\ u < f[i] + e
  <2>1. \A i \in 1..n : (i - 1) * e \in Nat
    BY Multiples
  <2>2. PICK f : f = [i \in 1..n |-> (i - 1) * e]
    OBVIOUS
  <2>3. f \in [1..n -> Nat] /\ \A i \in 1..n : f[i] = (i - 1) * e
    BY <2>1, <2>2
  <2>4. /\ \A i \in 1..n : (i - 1) * e + e <= n * e
        /\ \A i, j \in 1..n : i < j => (i - 1) * e + e <= (j - 1) * e
        /\ \A u \in Nat : u < n * e => \E i \in 1..n : (i - 1) * e <= u /\ u < (i - 1) * e + e
    BY Multiples
  <2>5. \A i \in 1..n : f[i] + e <= n * e
    BY <2>3, <2>4
  <2>6. \A i, j \in 1..n : i < j => f[i] + e <= f[j]
    BY <2>3, <2>4
  <2>7. ASSUME NEW u \in Nat, u < n * e PROVE \E i \in 1..n : f[i] <= u /\ u < f[i] + e
    <3>1. PICK i \in 1..n : (i - 1) * e <= u /\ u < (i - 1) * e + e
      BY <2>4, <2>7
    <3> QED BY <2>3, <3>1
  <2> QED BY <2>3, <2>5, <2>6, <2>7
<1>5. PICK z \in Nat : z = n * e
  OBVIOUS
<1>6. HeapUnits \in Nat /\ z < HeapUnits /\ free = {[at |-> z, size |-> HeapUnits - z]}
  BY <1>1, <1>2, <1>3, <1>5, HeapAssumption DEF Each
<1>7. /\ \A i \in 1..n : f[i] \in Nat /\ f[i] + e <= z
      /\ \A i, j \in 1..n : i < j => f[i] + e <= f[j]
      /\ \A u \in Nat : u < z => \E i \in 1..n : f[i] <= u /\ u < f[i] + e
  BY <1>4, <1>5
<1> DEFINE A(i) == [at |-> f[i], size |-> s]
           B(i) == [at |-> f[i] + s, size |-> t]
           F == [at |-> z, size |-> HeapUnits - z]
<1>8. used = {A(i) : i \in 1..n} \cup {B(i) : i \in 1..n}
  <2>1. \A i \in 1..n : StackOf(i) = A(i) /\ TcbOf(i) = B(i)
    BY <1>1, <1>2, <1>3, <1>4 DEF StackOf, TcbOf, Each
  <2> HIDE DEF A, B
  <2> QED BY <2>1
<1>9. \A x \in Blocks : x = F \/ \E i \in 1..n : x = A(i) \/ x = B(i)
  BY <1>6, <1>8 DEF Blocks
<1>10. F \in Blocks /\ \A i \in 1..n : A(i) \in Blocks /\ B(i) \in Blocks
  BY <1>6, <1>8 DEF Blocks
<1>11. \A i \in 1..n : Good(A(i)) /\ Good(B(i)) /\ EndOf(A(i)) = f[i] + s /\ EndOf(B(i)) = f[i] + e
  <2>1. ASSUME NEW i \in 1..n
        PROVE  Good(A(i)) /\ Good(B(i)) /\ EndOf(A(i)) = f[i] + s /\ EndOf(B(i)) = f[i] + e
    <3>1. PICK d \in Nat : d = f[i]
      BY <1>7
    <3>2. d + e <= z
      BY <1>7, <3>1
    <3>3. d + s \in Nat /\ d + s + t = d + e /\ d + e <= HeapUnits /\ d + s <= HeapUnits
      BY <1>3, <1>5, <1>6, <3>2
    <3>4. A(i) = [at |-> d, size |-> s] /\ B(i) = [at |-> d + s, size |-> t]
      BY <3>1
    <3> HIDE DEF A, B
    <3> QED BY <3>1, <3>3, <3>4 DEF Good, EndOf, BlockLink_t
  <2> QED BY <2>1
<1>12. Good(F) /\ EndOf(F) = HeapUnits
  BY <1>5, <1>6 DEF Good, EndOf, BlockLink_t
<1>13. \A x \in Blocks : Good(x)
  BY <1>9, <1>11, <1>12
<1>14. AllApart(Blocks)
  <2>1. ASSUME NEW i \in 1..n
        PROVE  Apart(A(i), B(i)) /\ Apart(B(i), A(i)) /\ Apart(A(i), F) /\ Apart(F, A(i))
               /\ Apart(B(i), F) /\ Apart(F, B(i))
    <3>1. A(i).at = f[i] /\ B(i).at = f[i] + s /\ F.at = z
      OBVIOUS
    <3>2. f[i] + s <= z /\ f[i] + e <= z
      BY <1>3, <1>7
    <3> HIDE DEF A, B, F
    <3> QED BY <1>11, <3>1, <3>2 DEF Apart
  <2>2. ASSUME NEW i \in 1..n, NEW j \in 1..n, i < j, NEW x, NEW y,
               x = A(i) \/ x = B(i), y = A(j) \/ y = B(j)
        PROVE  Apart(x, y) /\ Apart(y, x)
    <3>1. f[i] + e <= f[j] /\ f[i] \in Nat /\ f[j] \in Nat
      BY <1>7, <2>2
    <3>2. A(j).at = f[j] /\ B(j).at = f[j] + s
      OBVIOUS
    <3> HIDE DEF A, B
    <3>3. EndOf(x) <= f[j]
      BY <1>3, <1>11, <2>2, <3>1
    <3>4. y.at >= f[j] /\ y.at \in Nat
      BY <2>2, <3>1, <3>2
    <3>5. EndOf(x) \in Nat
      BY <1>3, <1>11, <2>2, <3>1
    <3> QED BY <3>1, <3>3, <3>4, <3>5 DEF Apart
  <2> HIDE DEF A, B, F
  <2>3. ASSUME NEW x \in Blocks, NEW y \in Blocks, x # y PROVE Apart(x, y)
    <3>1. CASE x = F \/ y = F
      BY <1>9, <2>1, <2>3, <3>1
    <3>2. CASE ~(x = F \/ y = F)
      <4>1. PICK i \in 1..n : x = A(i) \/ x = B(i)
        BY <1>9, <3>2
      <4>2. PICK j \in 1..n : y = A(j) \/ y = B(j)
        BY <1>9, <3>2
      <4>3. CASE i = j
        BY <2>1, <2>3, <4>1, <4>2, <4>3
      <4>4. CASE i < j
        BY <2>2, <4>1, <4>2, <4>4
      <4>5. CASE j < i
        BY <2>2, <4>1, <4>2, <4>5
      <4> QED BY <4>3, <4>4, <4>5
    <3> QED BY <3>1, <3>2
  <2> QED BY <2>3 DEF AllApart
<1>15. Untouched(free)
  BY <1>5, <1>6, <1>12 DEF Untouched
<1>16. ASSUME NEW u \in 0..HeapUnits - 1 PROVE Holds(Blocks, u)
  <2>1. CASE u < z
    <3>1. PICK i \in 1..n : f[i] <= u /\ u < f[i] + e
      BY <1>7, <2>1
    <3>2. A(i).at = f[i] /\ B(i).at = f[i] + s
      OBVIOUS
    <3> HIDE DEF A, B
    <3>3. CASE u < f[i] + s
      BY <1>10, <1>11, <3>1, <3>2, <3>3 DEF Holds
    <3>4. CASE ~(u < f[i] + s)
      <4>1. f[i] \in Nat
        BY <1>7
      <4>2. B(i).at <= u /\ u < EndOf(B(i)) /\ B(i) \in Blocks
        BY <1>10, <1>11, <3>1, <3>2, <3>4, <4>1
      <4> QED BY <4>2 DEF Holds
    <3> QED BY <3>3, <3>4
  <2>2. CASE ~(u < z)
    <3>1. F.at = z
      OBVIOUS
    <3> HIDE DEF F
    <3> QED BY <1>5, <1>6, <1>10, <1>12, <2>2, <3>1 DEF Holds
  <2> QED BY <2>1, <2>2
<1>17. free \cap (used \cup leaving) = {} /\ used \cap leaving = {}
  <2>1. ASSUME NEW i \in 1..n PROVE A(i).at # z /\ B(i).at # z
    <3>1. A(i).at = f[i] /\ B(i).at = f[i] + s
      OBVIOUS
    <3>2. PICK d \in Nat : d = f[i] /\ d + e <= z
      BY <1>7
    <3>3. d # z /\ d + s # z
      BY <1>3, <1>5, <3>2
    <3> HIDE DEF A, B
    <3> QED BY <3>1, <3>2, <3>3
  <2>2. F.at = z
    OBVIOUS
  <2>3. \A x \in used : x.at # z
    <3> HIDE DEF A, B
    <3> QED BY <1>8, <2>1
  <2> QED BY <1>6, <2>2, <2>3
<1> QED BY <1>13, <1>14, <1>15, <1>16, <1>17, InvFromParts

PlaceIn(all, t) == SelectInSeq(all, LAMBDA x : x = t)
LEMMA Found ==
  ASSUME NEW all, NEW t, Contains(all, t), NEW i, i = PlaceIn(all, t), Len(all) \in Nat
  PROVE  i \in 1..Len(all) /\ all[i] = t
<1> DEFINE D == {j \in 1..Len(all) : all[j] = t}
<1>1. i = IF D # {} THEN Min(D) ELSE 0
  BY DEF PlaceIn, SelectInSeq
<1>2. D # {} /\ D \in SUBSET Nat
  BY DEF Contains
<1> HIDE DEF D
<1>3. Min(D) \in D
  BY <1>2, LeastNat
<1> QED BY <1>1, <1>2, <1>3 DEF D

(* Where the memory of the tasks is at the start.                           *)
Start(all) ==
  /\ app \in Apps /\ k = StartScheduler(app.order, app.prio) /\ th = [t \in Task |-> Fresh]
  /\ all = Append(app.order, Idle) /\ leaving = {}
  /\ used = UNION {{StackOf(i), TcbOf(i)} : i \in DOMAIN all}
  /\ free = {[at |-> Len(all) * Each, size |-> HeapUnits - Len(all) * Each]}
  /\ mem = [t \in Task |-> IF Contains(all, t)
              THEN <<StackOf(PlaceIn(all, t)), TcbOf(PlaceIn(all, t))>>
              ELSE <<>>]

LEMMA Started ==
  ASSUME Init, NEW all, all = Append(app.order, Idle)
  PROVE  Start(all)
BY DEF Init, ThreadInit, Start, StackOf, TcbOf, Each, PlaceIn

LEMMA StartOrder ==
  ASSUME NEW all, Start(all)
  PROVE  /\ AppOK(app) /\ app.order \in Seq(Task \ {Idle}) /\ Distinct(app.order) /\ app.prio \in [Task -> Priority]
         /\ all \in Seq(Task) /\ Len(all) = Len(app.order) + 1 /\ Len(all) \in Nat /\ DOMAIN all = 1..Len(all)
         /\ Len(all) * Each < HeapUnits
         /\ Range(all) = {Idle} \cup {app.order[i] : i \in DOMAIN app.order}
<1>1. AppOK(app)
  BY AppAssumption DEF Start
<1>2. PICK s \in Seq(Task \ {Idle}) : s = app.order
  BY <1>1 DEF AppOK
<1>3. /\ Distinct(s) /\ app.prio \in [Task -> Priority] /\ (Len(s) + 1) * (StackUnits + TcbUnits) < HeapUnits
  BY <1>1, <1>2 DEF AppOK, Distinct
<1>4. all = Append(s, Idle) /\ Idle \in Task
  BY <1>2, Numbers DEF Start
<1>5. /\ all \in Seq(Task) /\ Len(all) = Len(s) + 1 /\ Len(all) \in Nat /\ DOMAIN all = 1..Len(all)
      /\ DOMAIN s = 1..Len(s) /\ Len(s) \in Nat
      /\ \A i \in 1..Len(s) : all[i] = s[i] /\ all[Len(s) + 1] = Idle
  BY <1>4
<1>6. all[Len(all)] = Idle
  BY <1>4
<1>7. Range(all) = {Idle} \cup {s[i] : i \in DOMAIN s}
  <2>1. ASSUME NEW t \in Range(all) PROVE t \in {Idle} \cup {s[i] : i \in DOMAIN s}
    <3>1. PICK i \in 1..Len(all) : t = all[i]
      BY <1>5, <2>1 DEF Range
    <3>2. i = Len(all) \/ i \in 1..Len(s)
      BY <1>5
    <3> QED BY <1>5, <1>6, <3>1, <3>2
  <2>2. Idle \in Range(all)
    BY <1>5, <1>6 DEF Range
  <2>3. ASSUME NEW i \in DOMAIN s PROVE s[i] \in Range(all)
    <3>1. i \in 1..Len(all) /\ all[i] = s[i]
      BY <1>5
    <3> QED BY <1>5, <3>1 DEF Range
  <2> QED BY <2>1, <2>2, <2>3
<1>8. Len(all) * Each < HeapUnits
  BY <1>3, <1>5 DEF Each
<1> QED BY <1>1, <1>2, <1>3, <1>5, <1>7, <1>8

LEMMA StartMem ==
  ASSUME NEW all, Start(all)
  PROVE  /\ mem \in [Task -> Seq(BlockLink_t)]
         /\ \A t \in Task : mem[t] # <<>> <=> t \in Range(all)
<1>1. all \in Seq(Task) /\ Len(all) \in Nat
  BY StartOrder
<1>2. \A i \in 1..Len(all) : StackOf(i) \in BlockLink_t /\ TcbOf(i) \in BlockLink_t
  <2>1. Each \in Nat \ {0} /\ StackUnits \in Nat /\ TcbUnits \in Nat
    BY Units DEF Each
  <2>2. ASSUME NEW i \in 1..Len(all) PROVE StackOf(i) \in BlockLink_t /\ TcbOf(i) \in BlockLink_t
    <3>1. (i - 1) * Each \in Nat
      BY <1>1, <2>1, Multiples
    <3>2. (i - 1) * Each + StackUnits \in Nat
      BY <2>1, <3>1
    <3> QED BY <2>1, <3>1, <3>2 DEF StackOf, TcbOf, BlockLink_t
  <2> QED BY <2>2
<1>3. ASSUME NEW t \in Task PROVE mem[t] \in Seq(BlockLink_t) /\ (mem[t] # <<>> <=> t \in Range(all))
  <2>1. PICK i : i = PlaceIn(all, t)
    OBVIOUS
  <2>2. mem[t] = IF Contains(all, t) THEN <<StackOf(i), TcbOf(i)>> ELSE <<>>
    BY <2>1 DEF Start
  <2>3. Contains(all, t) <=> t \in Range(all)
    BY <1>1, ContainsIsRange
  <2>4. CASE Contains(all, t)
    <3>1. i \in 1..Len(all)
      BY <1>1, <2>1, <2>4, Found
    <3>2. PICK u, v \in BlockLink_t : mem[t] = <<u, v>>
      BY <1>2, <2>2, <2>4, <3>1
    <3> QED BY <2>3, <2>4, <3>2
  <2>5. CASE ~Contains(all, t)
    BY <2>2, <2>3, <2>5
  <2> QED BY <2>4, <2>5
<1>4. mem = [t \in Task |-> mem[t]]
  BY DEF Start
<1> QED BY <1>3, <1>4

LEMMA StartThreads ==
  ASSUME th = [t \in Task |-> Fresh]
  PROVE  /\ Threads(th, mem, app)
         /\ \A t \in Task : th[t].pc = "run" /\ ~Abandoned(th, t)
<1>1. PICK r : r = Fresh
  OBVIOUS
<1>2. r \in ThreadState /\ r.pc = "run" /\ r.c = NoCall
  <2>1. NoCall \in Call
    BY Numbers DEF NoCall, Call
  <2>2. "run" \in PC /\ "run" \in TO /\ <<>> \in Seq(BlockLink_t) /\ 0 \in 0..MaxDelay
    BY Numbers DEF PC, TO
  <2> QED BY <1>1, <2>1, <2>2 DEF Fresh, ThreadState
<1>3. \A t \in Task : th[t] = r
  BY <1>1
<1>4. ASSUME NEW calls PROVE Thread(r, mem, calls)
  <2>1. OpOf(r.pc, r.c.op)
    BY <1>2, OpOfNone
  <2> QED BY <1>2, <2>1 DEF Thread, Doing, Holding
<1>5. th \in [Task -> ThreadState]
  BY <1>1, <1>2
<1>6. Threads(th, mem, app)
  BY <1>3, <1>4, <1>5 DEF Threads
<1>7. \A t \in Task : th[t].pc = "run"
  BY <1>2, <1>3
<1>8. \A t \in Task : ~Abandoned(th, t)
  BY <1>7 DEF Abandoned, AbortPc
<1> QED BY <1>6, <1>7, <1>8

LEMMA InitSafe == Init => Inv
<1> SUFFICES ASSUME Init PROVE Inv
  OBVIOUS
<1>1. PICK all : all = Append(app.order, Idle)
  OBVIOUS
<1>2. Start(all)
  BY <1>1, Started
<1>3. /\ AppOK(app) /\ app.order \in Seq(Task \ {Idle}) /\ Distinct(app.order) /\ app.prio \in [Task -> Priority]
      /\ all \in Seq(Task) /\ Len(all) \in Nat /\ DOMAIN all = 1..Len(all)
      /\ Len(all) * Each < HeapUnits
      /\ Range(all) = {Idle} \cup {app.order[i] : i \in DOMAIN app.order}
  BY <1>2, StartOrder
<1>4. app \in Apps /\ th = [t \in Task |-> Fresh] /\ k = StartScheduler(app.order, app.prio)
  BY <1>2 DEF Start
<1>5. HeapInv
  <2>1. /\ leaving = {} /\ used = UNION {{StackOf(i), TcbOf(i)} : i \in 1..Len(all)}
        /\ free = {[at |-> Len(all) * Each, size |-> HeapUnits - Len(all) * Each]}
    BY <1>2, <1>3 DEF Start
  <2> QED BY <1>3, <2>1, LaidOut
<1>6. PICK S : S = Range(all)
  OBVIOUS
<1>7. PICK at : at = ReadyIn(S)
  OBVIOUS
<1>8. Starting(k, S)
  BY ONLY <1>1, <1>3, <1>4, <1>6, Starts
<1>9. /\ Sound(k, at) /\ Best(k, at) /\ k.susp = 0 /\ k.pending = <<>> /\ k.pended = 0 /\ k.dying = <<>>
      /\ k.ndying = 0 /\ k.ntasks = Cardinality(S) /\ \A t \in Task : k.ns[t] = "none"
  BY <1>7, <1>8 DEF Starting
<1>10. k.cur \in Task
  BY <1>9 DEF Sound, Shape, KernelState
<1>11. Threads(th, mem, app) /\ \A t \in Task : th[t].pc = "run" /\ ~Abandoned(th, t)
  BY <1>4, StartThreads
<1>12. /\ mem \in [Task -> Seq(BlockLink_t)]
       /\ \A t \in Task : mem[t] # <<>> <=> t \in S
  BY <1>2, <1>6, StartMem
<1>13. \A t \in Task : at[t] = IF t \in S THEN "ready" ELSE "none"
  BY <1>7 DEF ReadyIn
<1>14. Situated(k, th, mem, app, at)
  <2>1. \A t \in Task : at[t] = "none" <=> mem[t] = <<>> \/ Abandoned(th, t)
    BY <1>11, <1>12, <1>13
  <2>2. \A t \in Task : at[t] = "dying" => t \in Passing(app)
    BY <1>13
  <2>3. \A t \in Staying(app) : mem[t] # <<>>
    <3>1. \A t \in Staying(app) : t \in Task /\ t \in S
      BY <1>3, <1>6, StayingTasks DEF Staying
    <3> QED BY <1>12, <3>1
  <2>4. at[k.cur] # "none"
    BY <1>9 DEF Best
  <2> QED BY <2>1, <2>2, <2>3, <2>4 DEF Situated
<1>15. Locking(k, th, app)
  <2>1. \A t \in Task : th[t].pc \notin SuspPc
    BY <1>11 DEF SuspPc
  <2> QED BY ONLY <1>9, <1>10, <2>1, Unlocked
<1>16. OnTurn(k, th, at)
  BY ONLY <1>9, BestTurn
<1>17. Heeds(k, th, at)
  BY <1>9, <1>11 DEF Heeds
<1>18. Tally(k, mem)
  <2>1. {t \in Task : mem[t] # <<>>} = S
    <3>1. S \subseteq Task
      BY <1>3, <1>6 DEF Range
    <3> QED BY <1>12, <3>1
  <2>2. k.ndying = Len(k.dying)
    <3>1. PICK d : d = k.dying
      OBVIOUS
    <3>2. d = <<>> => Len(d) = 0
      OBVIOUS
    <3> QED BY <1>9, <3>1, <3>2
  <2> QED BY <1>9, <1>12, <2>1, <2>2 DEF Tally
<1>19. Safe(at)
  BY <1>3, <1>9, <1>11, <1>14, <1>15, <1>16, <1>17, <1>18 DEF Safe, KernelInv
<1> QED BY <1>4, <1>5, <1>19 DEF Inv

(* The invariant holds, whatever calls and interrupts come in what order.   *)
THEOREM InvHolds == Spec => []Inv
<1>1. Init => Inv
  BY InitSafe
<1>2. Inv /\ [Next]_vars => Inv'
  BY InvStep
<1> QED BY <1>1, <1>2, PTL DEF Spec

-----------------------------------------------------------------------------
(* What the invariant says of the properties                                *)

(* The parts of the invariant.                                              *)
LEMMA Parts ==
  ASSUME NEW at, Safe(at)
  PROVE  /\ AppOK(app) /\ k \in KernelState /\ Listed(k, at, k.prio) /\ Bits(k, at)
         /\ Distinct(k.pending) /\ (\A l \in EventList : k.evl[l] = <<>>) /\ ~k.halted /\ k.base = k.prio
         /\ Threads(th, mem, app) /\ Situated(k, th, mem, app, at) /\ Locking(k, th, app)
         /\ OnTurn(k, th, at) /\ Heeds(k, th, at) /\ Tally(k, mem)
         /\ k.cur \in Task /\ k.prio \in [Task -> Priority] /\ k.pending \in Seq(Task)
         /\ k.delayed \in Seq(Task) /\ k.overflow \in Seq(Task)
         /\ k.suspended \in Seq(Task) /\ k.dying \in Seq(Task)
BY DEF Safe, KernelInv, Sound, Shape, KernelState

(* A task is in the list where it is said to be.                            *)
LEMMA ListPlaces ==
  ASSUME NEW at, Safe(at), NEW t \in Task
  PROVE  /\ Contains(k.delayed, t) <=> at[t] = "delayed"
         /\ Contains(k.overflow, t) <=> at[t] = "overflow"
         /\ Contains(k.suspended, t) <=> at[t] = "suspended"
         /\ Contains(k.dying, t) <=> at[t] = "dying"
         /\ Contains(k.pending, t) <=> t \in Range(k.pending)
         /\ \A p \in Priority : Contains(k.ready[p], t) <=> at[t] = "ready" /\ k.prio[t] = p
         /\ t \in ReadyTasks(k) <=> at[t] = "ready"
<1>1. /\ k \in KernelState /\ Listed(k, at, k.prio) /\ k.pending \in Seq(Task)
      /\ k.delayed \in Seq(Task) /\ k.overflow \in Seq(Task)
      /\ k.suspended \in Seq(Task) /\ k.dying \in Seq(Task) /\ k.prio[t] \in Priority
  BY Parts
<1>2. /\ InPlace(k.delayed, at, "delayed") /\ InPlace(k.overflow, at, "overflow")
      /\ InPlace(k.suspended, at, "suspended") /\ InPlace(k.dying, at, "dying")
  BY <1>1 DEF Listed
<1>3. ASSUME NEW list \in Seq(Task), NEW place, InPlace(list, at, place)
      PROVE  Contains(list, t) <=> at[t] = place
  <2>1. Contains(list, t) <=> t \in Range(list)
    BY ContainsIsRange
  <2> QED BY <1>3, <2>1 DEF InPlace
<1>4. Contains(k.pending, t) <=> t \in Range(k.pending)
  BY <1>1, ContainsIsRange
<1>5. \A p \in Priority : Contains(k.ready[p], t) <=> at[t] = "ready" /\ k.prio[t] = p
  <2>1. ASSUME NEW p \in Priority
        PROVE  Contains(k.ready[p], t) <=> at[t] = "ready" /\ k.prio[t] = p
    BY ONLY <1>1, <2>1, ReadyLength
  <2> QED BY <2>1
<1>6. t \in ReadyTasks(k) <=> at[t] = "ready"
  BY <1>1, <1>5 DEF ReadyTasks
<1> QED BY <1>1, <1>2, <1>3, <1>4, <1>5, <1>6

(* No assertion of the kernel fails: the highest ready priority always has  *)
(* a task, the delayed list is empty when the tick count wraps, a notified  *)
(* task waits in no event list (configASSERT, tasks.c:178, 206, 4928).      *)
THEOREM AssertsHold == Spec => []NoAssertFails
<1>1. Inv => NoAssertFails
  BY Parts DEF Inv, NoAssertFails
<1> QED BY <1>1, InvHolds, PTL

LEMMA InvHighest == Inv => HighestRuns
<1> SUFFICES ASSUME Inv, k.susp = 0, th[me].pc \notin {"yield", "yieldagain", "created", "suspended"}
             PROVE  (\A t \in ReadyTasks(k) : k.prio[t] <= k.prio[me]) /\ me \in ReadyTasks(k)
  BY DEF HighestRuns
<1>1. PICK at : Safe(at)
  BY DEF Inv
<1>2. k.cur \in Task /\ OnTurn(k, th, at) /\ k.prio \in [Task -> Priority]
  BY <1>1, Parts
<1>3. at[k.cur] = "ready" /\ \A t \in Task : ~(at[t] = "ready" /\ k.prio[t] > k.prio[k.cur])
  BY <1>2 DEF OnTurn, me
<1>4. \A t \in Task : k.prio[t] \in Nat
  BY <1>2, Numbers
<1>5. \A t \in Task : t \in ReadyTasks(k) <=> at[t] = "ready"
  BY <1>1, ListPlaces
<1> QED BY <1>2, <1>3, <1>4, <1>5 DEF me, ReadyTasks

(* The current task is one of the most important that are ready, except     *)
(* while the scheduler is suspended or the task is about to yield           *)
(* (tasks.c:1090, 1741).                                                    *)
THEOREM HighestAlwaysRuns == Spec => []HighestRuns
BY InvHighest, InvHolds, PTL

LEMMA InvNotified == Inv => NoMissedNotification
<1> SUFFICES ASSUME Inv, NEW t \in Task, k.ns[t] = "waiting" \/ AsleepForNotification(t)
             PROVE  k.nv[t] = 0
  BY DEF NoMissedNotification
<1>1. PICK at : Safe(at)
  BY DEF Inv
<1>2. Heeds(k, th, at)
  BY <1>1, Parts
<1>3. AsleepForNotification(t) => k.ns[t] = "waiting"
  <2>1. /\ Contains(k.delayed, t) <=> at[t] = "delayed"
        /\ Contains(k.overflow, t) <=> at[t] = "overflow"
        /\ Contains(k.pending, t) <=> t \in Range(k.pending)
    BY <1>1, ListPlaces
  <2> QED BY <1>2, <2>1 DEF Heeds, AsleepForNotification, Sleeping, Asleep
<1> QED BY <1>2, <1>3 DEF Heeds

(* A task that sleeps for a notification has not been given one             *)
(* (tasks.c:4702, 4922, 5064).                                              *)
THEOREM NotificationNotMissed == Spec => []NoMissedNotification
BY InvNotified, InvHolds, PTL

LEMMA InvTyped == Inv => TypeOK
<1> SUFFICES ASSUME Inv PROVE TypeOK
  OBVIOUS
<1>1. PICK at : Safe(at)
  BY DEF Inv
<1>2. k \in KernelState /\ Locking(k, th, app) /\ k.base = k.prio
  BY <1>1, Parts
<1>3. HeapTypeOK
  BY DEF Inv, HeapInv
<1>4. /\ k.cur \in Task /\ k.top \subseteq Priority
      /\ k.ready \in [Priority -> Seq(Task \cup {END})]
      /\ \A l \in {k.delayed, k.overflow, k.pending, k.suspended, k.dying} : l \in Seq(Task)
      /\ k.prio \in [Task -> Priority] /\ k.base \in [Task -> Priority]
      /\ k.wake \in [Task -> 0..MaxDelay] /\ {k.tick, k.unblock} \subseteq 0..MaxDelay
      /\ k.ns \in [Task -> {"none", "waiting", "received"}] /\ k.nv \in [Task -> Nat]
      /\ k.ypend \in BOOLEAN /\ k.pended \in Nat
  BY <1>2 DEF KernelState
<1>5. k.susp \in 0..1 /\ k.pended \in 0..2 * MaxPended /\ (k.pended > 0 => k.susp > 0)
  <2>1. k.susp \in {0, 1} /\ (k.susp = 0 => k.pended = 0) /\ k.pended <= 2 * MaxPended
    BY <1>2 DEF Locking
  <2>2. k.pended \in Nat /\ MaxPended \in Nat
    BY <1>4, AppAssumption
  <2> QED BY ONLY <2>1, <2>2
<1> QED BY <1>3, <1>4, <1>5 DEF TypeOK

(* Every task is in one list that it is linked to by its state.             *)
LEMMA OneStateList ==
  ASSUME NEW at, Safe(at), NEW t \in Task
  PROVE  InStateLists(t) = IF at[t] = "none" THEN 0 ELSE 1
<1>1. /\ Contains(k.delayed, t) <=> at[t] = "delayed"
      /\ Contains(k.overflow, t) <=> at[t] = "overflow"
      /\ Contains(k.suspended, t) <=> at[t] = "suspended"
      /\ Contains(k.dying, t) <=> at[t] = "dying"
      /\ \A p \in Priority : Contains(k.ready[p], t) <=> at[t] = "ready" /\ k.prio[t] = p
  BY ListPlaces
<1>2. k.prio[t] \in Priority /\ at[t] \in Places
  <2>1. Listed(k, at, k.prio) /\ k.prio \in [Task -> Priority]
    BY Parts
  <2> QED BY <2>1 DEF Listed
<1> DEFINE P == {p \in Priority : Contains(k.ready[p], t)}
           S == {i \in DOMAIN StateLists : Contains(StateLists[i], t)}
<1>3. P = IF at[t] = "ready" THEN {k.prio[t]} ELSE {}
  BY <1>1, <1>2
<1>4. /\ S \in SUBSET (1..4)
      /\ 1 \in S <=> at[t] = "delayed"
      /\ 2 \in S <=> at[t] = "overflow"
      /\ 3 \in S <=> at[t] = "suspended"
      /\ 4 \in S <=> at[t] = "dying"
  <2>1. /\ DOMAIN StateLists = 1..4
        /\ StateLists[1] = k.delayed /\ StateLists[2] = k.overflow
        /\ StateLists[3] = k.suspended /\ StateLists[4] = k.dying
    BY DEF StateLists
  <2>2. 1 \in 1..4 /\ 2 \in 1..4 /\ 3 \in 1..4 /\ 4 \in 1..4
    OBVIOUS
  <2>3. \A i : i \in S <=> i \in 1..4 /\ Contains(StateLists[i], t)
    BY <2>1
  <2> HIDE DEF StateLists, S
  <2>4. S \in SUBSET (1..4)
    BY <2>3
  <2> QED BY <1>1, <2>1, <2>2, <2>3, <2>4
<1>5. S = CASE at[t] = "delayed" -> {1} [] at[t] = "overflow" -> {2} [] at[t] = "suspended" -> {3}
            [] at[t] = "dying" -> {4} [] OTHER -> {}
  <2> HIDE DEF S
  <2>0. \A i \in S : i = 1 \/ i = 2 \/ i = 3 \/ i = 4
    BY <1>4
  <2>1. at[t] = "delayed" => S = {1}
    BY <1>4, <2>0
  <2>2. at[t] = "overflow" => S = {2}
    BY <1>4, <2>0
  <2>3. at[t] = "suspended" => S = {3}
    BY <1>4, <2>0
  <2>4. at[t] = "dying" => S = {4}
    BY <1>4, <2>0
  <2>5. at[t] \notin {"delayed", "overflow", "suspended", "dying"} => S = {}
    BY <1>4, <2>0
  <2> QED BY <2>1, <2>2, <2>3, <2>4, <2>5
<1>6. Cardinality({}) = 0 /\ \A i : Cardinality({i}) = 1
  BY FS_EmptySet, FS_Singleton
<1>7. InStateLists(t) = Cardinality(P) + Cardinality(S)
  BY DEF InStateLists
<1> HIDE DEF P, S
<1>8. at[t] \in {"ready", "delayed", "overflow", "suspended", "dying", "none"}
  BY <1>2 DEF Places
<1>9. CASE at[t] = "ready"
  <2>1. Cardinality(P) = 1 /\ Cardinality(S) = 0
    BY <1>3, <1>5, <1>6, <1>9
  <2> QED BY <1>7, <1>9, <2>1
<1>10. CASE at[t] = "none"
  <2>1. Cardinality(P) = 0 /\ Cardinality(S) = 0
    BY <1>3, <1>5, <1>6, <1>10
  <2> QED BY <1>7, <1>10, <2>1
<1>11. CASE at[t] \in {"delayed", "overflow", "suspended", "dying"}
  <2>1. Cardinality(P) = 0 /\ Cardinality(S) = 1
    BY <1>3, <1>5, <1>6, <1>11
  <2> QED BY <1>7, <1>11, <2>1
<1> QED BY <1>8, <1>9, <1>10, <1>11

LEMMA InvListed == Inv => ListsConsistent
<1> SUFFICES ASSUME Inv PROVE ListsConsistent
  OBVIOUS
<1>1. PICK at : Safe(at)
  BY DEF Inv
<1>2. /\ k \in KernelState /\ Listed(k, at, k.prio) /\ Bits(k, at) /\ Tally(k, mem)
      /\ (\A l \in EventList : k.evl[l] = <<>>) /\ Situated(k, th, mem, app, at)
      /\ Locking(k, th, app) /\ k.cur \in Task
  BY <1>1, Parts
<1>3. ASSUME NEW t \in Task
      PROVE  InStateLists(t) = IF Alive(t) /\ ~BeingAborted(t) THEN 1 ELSE 0
  <2>1. InStateLists(t) = IF at[t] = "none" THEN 0 ELSE 1
    BY <1>1, OneStateList
  <2>2. Abandoned(th, t) <=> BeingAborted(t)
    BY <1>2 DEF Abandoned, BeingAborted, AbortPc, SuspPc, Locking, me, c
  <2>3. at[t] = "none" <=> ~Alive(t) \/ BeingAborted(t)
    BY <1>2, <2>2 DEF Situated, Alive
  <2> QED BY <2>1, <2>3
<1>4. ASSUME NEW t \in Task PROVE InEventLists(t) <= 1
  <2>1. {l \in EventList : Contains(k.evl[l], t)} = {}
    BY <1>2 DEF Contains
  <2>2. Cardinality({l \in EventList : Contains(k.evl[l], t)}) = 0
    BY <2>1, FS_EmptySet
  <2> QED BY <2>2 DEF InEventLists
<1>5. ASSUME NEW p \in Priority
      PROVE  /\ p \in k.top <=> Length(k.ready[p]) > 0
             /\ \A t \in Task : Contains(k.ready[p], t) => k.prio[t] = p
  <2>1. Length(k.ready[p]) > 0 <=> \E t \in Task : at[t] = "ready" /\ k.prio[t] = p
    BY ONLY <1>2, <1>5, ReadyLength
  <2>2. \A t \in Task : Contains(k.ready[p], t) => k.prio[t] = p
    BY <1>1, ListPlaces
  <2> QED BY <1>2, <2>1, <2>2 DEF Bits
<1>6. Sorted(k.delayed, k.wake) /\ Sorted(k.overflow, k.wake)
  BY <1>2 DEF Listed
<1>7. TasksInLists(Alive)
  BY <1>3, <1>4, <1>5, <1>6 DEF TasksInLists
<1>8. k.ndying = Len(k.dying) /\ k.ntasks = Cardinality({t \in Task : Alive(t)})
  BY <1>2 DEF Tally, Alive
<1> QED BY <1>7, <1>8 DEF ListsConsistent

(* The lists of the scheduler hold every task once, in the order they are   *)
(* to have, and its counts, bits and times are what tasks.c takes them for  *)
(* (tasks.c:172, 1094, 2779).                                               *)
THEOREM SchedulerIsSound == Spec => []SchedulerSound
<1>1. Inv => SchedulerSound
  BY InvTyped, InvListed DEF SchedulerSound
<1> QED BY <1>1, InvHolds, PTL

-----------------------------------------------------------------------------
(* The memory in use and its owners                                         *)

(* A block in use belongs to the task it was allocated for, or to the call  *)
(* that is about to hand it over or to give it back: to one of these alone. *)
(* A block that is on its way back is the first that its call gives back.   *)
(* Only a task that stays is in such a call.                                *)
OwnMem(m, u) == \A t \in Task : Distinct(m[t]) /\ Range(m[t]) \subseteq u
OwnGot(h, u, l) ==
  \A t \in Task :
    /\ Distinct(h[t].got)
    /\ \A b \in Range(h[t].got) :
         IF h[t].pc = "release" /\ b = Head(h[t].got) THEN b \in l ELSE b \in u
OwnApart(h, m) ==
  \A t, v \in Task : \A b \in Range(m[t]) \cup Range(h[t].got) :
    /\ b \in Range(m[t]) => b \notin Range(h[v].got)
    /\ t # v => b \notin Range(m[v]) /\ b \notin Range(h[v].got)
OwnAll(h, m, u, l) ==
  \A b \in u \cup l : \E t \in Task : b \in Range(m[t]) \cup Range(h[t].got)
OwnWho(h, a) ==
  \A t \in Task : h[t].got # <<>> => Doing(h[t], Holding) /\ t \in Staying(a) \cup {Idle}
Owned(h, m, u, l, a) ==
  /\ OwnMem(m, u) /\ OwnGot(h, u, l) /\ OwnApart(h, m) /\ OwnAll(h, m, u, l) /\ OwnWho(h, a)

(* The thread goes on with the blocks it has.                               *)
LEMMA OwnedStill ==
  ASSUME NEW h, NEW m, NEW u, NEW l, NEW a, Owned(h, m, u, l, a), NEW t \in Task,
         NEW g, \A v \in Task \ {t} : g[v] = h[v], g[t].got = h[t].got,
         h[t].pc # "release", g[t].pc # "release", Doing(h[t], Holding) => Doing(g[t], Holding)
  PROVE  Owned(g, m, u, l, a)
<1>1. \A v \in Task : g[v].got = h[v].got
  OBVIOUS
<1>2. OwnGot(g, u, l)
  BY DEF Owned, OwnGot
<1>3. OwnApart(g, m) /\ OwnAll(g, m, u, l)
  BY <1>1 DEF Owned, OwnApart, OwnAll
<1>4. OwnWho(g, a)
  BY <1>1 DEF Owned, OwnWho
<1> QED BY <1>2, <1>3, <1>4 DEF Owned

(* pvPortMalloc: the thread has one block more.                             *)
LEMMA OwnedMore ==
  ASSUME NEW h, NEW m, NEW u, NEW l, NEW a, Owned(h, m, u, l, a), NEW t \in Task,
         NEW new \in BlockLink_t, new \notin u \cup l, h[t].got \in Seq(BlockLink_t),
         NEW g, \A v \in Task \ {t} : g[v] = h[v], g[t].got = Append(h[t].got, new),
         h[t].pc # "release", g[t].pc # "release", Doing(g[t], Holding), t \in Staying(a) \cup {Idle}
  PROVE  Owned(g, m, u \cup {new}, l, a)
<1>1. new \notin Range(h[t].got) /\ Distinct(h[t].got)
  BY DEF Owned, OwnGot
<1>2. Distinct(g[t].got) /\ Range(g[t].got) = Range(h[t].got) \cup {new}
  BY ONLY <1>1, AppendList, new \in BlockLink_t, h[t].got \in Seq(BlockLink_t), g[t].got = Append(h[t].got, new)
<1>3. \A v \in Task : new \notin Range(m[v]) /\ new \notin Range(h[v].got)
  BY DEF Owned, OwnMem, OwnGot
<1>4. OwnMem(m, u \cup {new})
  BY DEF Owned, OwnMem
<1>5. OwnGot(g, u \cup {new}, l)
  BY <1>2 DEF Owned, OwnGot
<1>6. OwnApart(g, m)
  <2> SUFFICES ASSUME NEW p \in Task, NEW q \in Task, NEW b \in Range(m[p]) \cup Range(g[p].got)
               PROVE  /\ b \in Range(m[p]) => b \notin Range(g[q].got)
                      /\ p # q => b \notin Range(m[q]) /\ b \notin Range(g[q].got)
    BY DEF OwnApart
  <2>1. b = new \/ b \in Range(m[p]) \cup Range(h[p].got)
    BY <1>2
  <2>2. CASE b = new
    BY <1>2, <1>3, <2>2
  <2>3. CASE b # new
    <3>1. b \in Range(m[p]) \cup Range(h[p].got) /\ (b \in Range(g[q].got) => b \in Range(h[q].got))
      BY <1>2, <2>1, <2>3
    <3> QED BY <3>1 DEF Owned, OwnApart
  <2> QED BY <2>2, <2>3
<1>7. OwnAll(g, m, u \cup {new}, l)
  BY <1>2 DEF Owned, OwnAll
<1>8. OwnWho(g, a)
  BY DEF Owned, OwnWho
<1> QED BY <1>4, <1>5, <1>6, <1>7, <1>8 DEF Owned

(* The blocks of a call become those of the task w, which had none, or the  *)
(* other way round.                                                         *)
LEMMA OwnedHanded ==
  ASSUME NEW h, NEW m, NEW u, NEW l, NEW a, Owned(h, m, u, l, a), NEW t \in Task, NEW w \in Task,
         NEW g, \A v \in Task \ {t, w} : g[v] = h[v], w # t => g[w].got = h[w].got /\ g[w].pc # "release",
         w # t => h[w].pc # "release" /\ (h[w].got # <<>> => Doing(g[w], Holding)),
         h[t].pc # "release", g[t].pc # "release",
         NEW b, \A v \in Task \ {w} : b[v] = m[v],
         b[w] = h[t].got /\ g[t].got = m[w], m[w] = <<>> \/ h[t].got = <<>>,
         g[t].got # <<>> => Doing(g[t], Holding) /\ t \in Staying(a) \cup {Idle}
  PROVE  Owned(g, b, u, l, a)
<1>1. OwnMem(b, u)
  BY DEF Owned, OwnMem, OwnGot
<1>2. OwnGot(g, u, l)
  <2> SUFFICES ASSUME NEW v \in Task
               PROVE  /\ Distinct(g[v].got)
                      /\ \A e \in Range(g[v].got) :
                           IF g[v].pc = "release" /\ e = Head(g[v].got) THEN e \in l ELSE e \in u
    BY DEF OwnGot
  <2>1. CASE v = t
    BY <2>1 DEF Owned, OwnMem
  <2>2. CASE v # t
    BY <2>2 DEF Owned, OwnGot
  <2> QED BY <2>1, <2>2
<1>3. \A v \in Task : v # t => g[v].got = h[v].got
  OBVIOUS
<1>4. OwnApart(g, b)
  <2> SUFFICES ASSUME NEW p \in Task, NEW q \in Task, NEW e \in Range(b[p]) \cup Range(g[p].got)
               PROVE  /\ e \in Range(b[p]) => e \notin Range(g[q].got)
                      /\ p # q => e \notin Range(b[q]) /\ e \notin Range(g[q].got)
    BY DEF OwnApart
  <2>1. OwnApart(h, m)
    BY DEF Owned
  <2>2. \A s : s \in Range(<<>>) => FALSE
    BY DEF Range
  <2>3. CASE m[w] = <<>>
    <3>1. \A v \in Task : \A s : s \in Range(b[v]) => s \in Range(m[v]) \/ (v = w /\ s \in Range(h[t].got))
      OBVIOUS
    <3>2. \A v \in Task : \A s : s \in Range(g[v].got) => v # t /\ s \in Range(h[v].got)
      BY <1>3, <2>2, <2>3
    <3>3. \A s : s \notin Range(m[w])
      BY <2>2, <2>3
    <3> QED BY <2>1, <3>1, <3>2, <3>3 DEF OwnApart
  <2>4. CASE h[t].got = <<>>
    <3>1. \A v \in Task : \A s : s \in Range(b[v]) => v # w /\ s \in Range(m[v])
      BY <2>2, <2>4
    <3>2. \A v \in Task : \A s : s \in Range(g[v].got) => (v # t /\ s \in Range(h[v].got)) \/ (v = t /\ s \in Range(m[w]))
      BY <1>3
    <3>3. /\ \A v, z \in Task : \A s : s \in Range(m[v]) => s \notin Range(h[z].got) /\ (v # z => s \notin Range(m[z]))
          /\ \A v, z \in Task : \A s : s \in Range(h[v].got) /\ v # z => s \notin Range(h[z].got)
      BY <2>1 DEF OwnApart
    <3>4. CASE e \in Range(b[p])
      <4>1. p # w /\ e \in Range(m[p]) /\ e \notin Range(m[w])
        BY <3>1, <3>3, <3>4
      <4>2. e \notin Range(g[q].got)
        BY <3>2, <3>3, <4>1
      <4>3. p # q => e \notin Range(b[q])
        BY <3>1, <3>3, <4>1
      <4> QED BY <4>2, <4>3
    <3>5. CASE e \in Range(g[p].got)
      <4>1. e \notin Range(b[p]) /\ e \notin Range(b[q])
        BY <3>1, <3>2, <3>3, <3>5
      <4>2. p # q => e \notin Range(g[q].got)
        BY <3>2, <3>3, <3>5
      <4> QED BY <4>1, <4>2
    <3> QED BY <3>4, <3>5
  <2> QED BY <2>3, <2>4
<1>5. OwnAll(g, b, u, l)
  <2> SUFFICES ASSUME NEW e \in u \cup l
               PROVE  \E v \in Task : e \in Range(b[v]) \cup Range(g[v].got)
    BY DEF OwnAll
  <2>1. PICK v \in Task : e \in Range(m[v]) \cup Range(h[v].got)
    BY DEF Owned, OwnAll
  <2>2. CASE e \in Range(m[v]) /\ v # w
    BY <2>2
  <2>3. CASE e \in Range(m[v]) /\ v = w
    BY <2>3
  <2>4. CASE e \in Range(h[v].got) /\ v # t
    BY <1>3, <2>4
  <2>5. CASE e \in Range(h[v].got) /\ v = t
    BY <2>5
  <2> QED BY <2>1, <2>2, <2>3, <2>4, <2>5
<1>6. OwnWho(g, a)
  <2> SUFFICES ASSUME NEW v \in Task, g[v].got # <<>>
               PROVE  Doing(g[v], Holding) /\ v \in Staying(a) \cup {Idle}
    BY DEF OwnWho
  <2>1. CASE v = t
    BY <2>1
  <2>2. CASE v # t /\ v = w
    BY <2>2 DEF Owned, OwnWho
  <2>3. CASE v # t /\ v # w
    BY <2>3 DEF Owned, OwnWho
  <2> QED BY <2>1, <2>2, <2>3
<1> QED BY <1>1, <1>2, <1>4, <1>5, <1>6 DEF Owned

(* The first half of vPortFree.                                             *)
LEMMA OwnedMarked ==
  ASSUME NEW h, NEW m, NEW u, NEW l, NEW a, Owned(h, m, u, l, a), NEW t \in Task,
         h[t].got \in Seq(BlockLink_t), h[t].got # <<>>, NEW e, e = Head(h[t].got),
         NEW g, \A v \in Task \ {t} : g[v] = h[v], g[t].got = h[t].got,
         h[t].pc = "free", g[t].pc = "release", u \cap l = {}
  PROVE  Owned(g, m, u \ {e}, l \cup {e}, a)
<1>1. e \in Range(h[t].got)
  BY DEF Range
<1>2. \A v \in Task : g[v].got = h[v].got
  OBVIOUS
<1>3. \A v \in Task : e \notin Range(m[v]) /\ (v # t => e \notin Range(h[v].got))
  BY <1>1 DEF Owned, OwnApart
<1>4. OwnMem(m, u \ {e})
  BY <1>3 DEF Owned, OwnMem
<1>5. OwnGot(g, u \ {e}, l \cup {e})
  <2> SUFFICES ASSUME NEW v \in Task
               PROVE  /\ Distinct(g[v].got)
                      /\ \A b \in Range(g[v].got) :
                           IF g[v].pc = "release" /\ b = Head(g[v].got) THEN b \in l \cup {e} ELSE b \in u \ {e}
    BY DEF OwnGot
  <2>1. CASE v = t
    BY <2>1 DEF Owned, OwnGot
  <2>2. CASE v # t
    BY <1>3, <2>2 DEF Owned, OwnGot
  <2> QED BY <2>1, <2>2
<1>6. OwnApart(g, m)
  BY <1>2 DEF Owned, OwnApart
<1>7. OwnAll(g, m, u \ {e}, l \cup {e})
  <2>1. \A b \in u \cup l : \E v \in Task : b \in Range(m[v]) \cup Range(g[v].got)
    BY <1>2 DEF Owned, OwnAll
  <2>2. e \in Range(g[t].got)
    BY <1>1, <1>2
  <2> QED BY <2>1, <2>2 DEF OwnAll
<1>8. OwnWho(g, a)
  <2>1. Doing(g[t], Holding)
    BY DEF Doing, Holding
  <2> QED BY <1>2, <2>1 DEF Owned, OwnWho
<1> QED BY <1>4, <1>5, <1>6, <1>7, <1>8 DEF Owned

(* Its second half.                                                         *)
LEMMA OwnedReleased ==
  ASSUME NEW h, NEW m, NEW u, NEW l, NEW a, Owned(h, m, u, l, a), NEW t \in Task,
         h[t].got \in Seq(BlockLink_t), h[t].got # <<>>, NEW e, e = Head(h[t].got),
         NEW g, \A v \in Task \ {t} : g[v] = h[v], g[t].got = Tail(h[t].got),
         h[t].pc = "release", g[t].pc # "release", u \cap l = {},
         Tail(h[t].got) # <<>> => Doing(g[t], Holding)
  PROVE  Owned(g, m, u, l \ {e}, a)
<1>1. PICK s \in Seq(BlockLink_t) : s = h[t].got /\ s # <<>>
  OBVIOUS
<1>2. Distinct(s)
  BY <1>1 DEF Owned, OwnGot
<1>3. Distinct(Tail(s)) /\ Range(Tail(s)) = Range(s) \ {Head(s)}
  <2>1. RemoveFirst(s, Head(s)) = Tail(s)
    BY ONLY <1>1, RemoveHead
  <2>2. Distinct(RemoveFirst(s, Head(s))) /\ Range(RemoveFirst(s, Head(s))) = Range(s) \ {Head(s)}
    BY ONLY <1>1, <1>2, RemoveList
  <2> QED BY <2>1, <2>2
<1>4. e \in Range(h[t].got)
  BY DEF Range
<1>5. Distinct(g[t].got) /\ Range(g[t].got) = Range(h[t].got) \ {e}
  BY <1>1, <1>3
<1>6. \A v \in Task : e \notin Range(m[v]) /\ (v # t => e \notin Range(h[v].got))
  BY <1>4 DEF Owned, OwnApart
<1>7. e \in l
  BY <1>4 DEF Owned, OwnGot
<1>8. OwnGot(g, u, l \ {e})
  <2> SUFFICES ASSUME NEW v \in Task
               PROVE  /\ Distinct(g[v].got)
                      /\ \A b \in Range(g[v].got) :
                           IF g[v].pc = "release" /\ b = Head(g[v].got) THEN b \in l \ {e} ELSE b \in u
    BY DEF OwnGot
  <2>1. CASE v = t
    BY <1>5, <2>1 DEF Owned, OwnGot
  <2>2. CASE v # t
    <3>1. g[v] = h[v]
      BY <2>2
    <3>2. \A b \in Range(h[v].got) : b # e
      BY <1>6, <2>2
    <3> QED BY <3>1, <3>2 DEF Owned, OwnGot
  <2> QED BY <2>1, <2>2
<1>9. \A v \in Task : \A b : b \in Range(g[v].got) <=> b \in Range(h[v].got) /\ b # e
  BY <1>5, <1>6
<1>10. OwnApart(g, m)
  BY <1>9 DEF Owned, OwnApart
<1>11. OwnAll(g, m, u, l \ {e})
  <2> SUFFICES ASSUME NEW b \in u \cup (l \ {e})
               PROVE  \E v \in Task : b \in Range(m[v]) \cup Range(g[v].got)
    BY DEF OwnAll
  <2>1. b # e
    BY <1>7
  <2>2. PICK v \in Task : b \in Range(m[v]) \cup Range(h[v].got)
    BY DEF Owned, OwnAll
  <2> QED BY <1>9, <2>1, <2>2
<1>12. OwnWho(g, a)
  BY DEF Owned, OwnWho
<1> QED BY <1>8, <1>10, <1>11, <1>12 DEF Owned

-----------------------------------------------------------------------------
(* The memory under the steps of the module                                 *)

Own == Owned(th, mem, used, leaving, app)
OwnNext == Owned(th', mem', used', leaving', app)

(* Thread t goes on to p; the record of no other thread changes.            *)
Shift(h, g, t, p, q, w) ==
  \/ g = [h EXCEPT ![t].pc = p, ![t].to = q]
  \/ g = [h EXCEPT ![t].pc = p, ![t].to = q, ![t].prev = w]
LEMMA Shifted ==
  ASSUME NEW h \in [Task -> ThreadState], NEW t \in Task, NEW p, NEW q, NEW w, NEW g,
         Shift(h, g, t, p, q, w)
  PROVE  /\ \A v \in Task \ {t} : g[v] = h[v]
         /\ g[t].pc = p /\ g[t].to = q /\ g[t].got = h[t].got
BY DEF ThreadState, Shift

(* A step of a thread that holds no blocks.                                 *)
LEMMA OwnQuiet ==
  ASSUME NEW at, Safe(at), Own, UNCHANGED memory, th[me].pc \notin Holding \cup {"resume"},
         NEW p, p # "release", NEW q, NEW w, Shift(th, th', me, p, q, w)
  PROVE  OwnNext
<1>1. k.cur \in Task /\ th \in [Task -> ThreadState] /\ me = k.cur
  BY Running DEF Safe, me
<1>2. /\ \A v \in Task \ {me} : th'[v] = th[v]
      /\ th'[me].pc = p /\ th'[me].got = th[me].got
  <2>1. Shift(th, th', me, p, q, w) /\ me \in Task
    BY <1>1
  <2> QED BY ONLY <1>1, <2>1, Shifted
<1>3. th[me].pc # "release" /\ ~Doing(th[me], Holding) /\ me \in Task
  BY <1>1 DEF Doing, Holding
<1>4. Owned(th', mem, used, leaving, app)
  BY <1>2, <1>3, OwnedStill DEF Own
<1> QED BY <1>4 DEF OwnNext, memory, heapVars

LEMMA OwnResume ==
  ASSUME NEW at, Safe(at), Own, UNCHANGED memory, Resume
  PROVE  OwnNext
<1>1. k.cur \in Task /\ th \in [Task -> ThreadState] /\ me = k.cur /\ th[k.cur] \in ThreadState
  BY Running DEF Safe, me
<1>2. PICK p : /\ th' = [th EXCEPT ![me].pc = p, ![me].to = "run"]
               /\ p = th[me].to \/ (th[me].to \in DOMAIN AfterYield /\ p = AfterYield[th[me].to])
  BY DEF Resume, Goto
<1>3. /\ \A v \in Task \ {me} : th'[v] = th[v]
      /\ th'[me].pc = p /\ th'[me].got = th[me].got
  <2>1. Shift(th, th', me, p, "run", 0) /\ me \in Task
    BY <1>1, <1>2 DEF Shift
  <2> QED BY ONLY <1>1, <2>1, Shifted
<1>4. th[me].pc = "resume" /\ th[me].to \in TO
  BY <1>1 DEF Resume, At, ThreadState
<1>5. p # "release" /\ (th[me].to \in Holding => p = th[me].to)
  BY <1>2, <1>4 DEF AfterYield, Holding, TO
<1>6. Doing(th[me], Holding) => Doing(th'[me], Holding)
  BY <1>3, <1>4, <1>5 DEF Doing, Holding
<1>7. th[me].pc # "release" /\ th'[me].pc # "release" /\ me \in Task
  BY <1>1, <1>3, <1>4, <1>5
<1>8. Owned(th', mem, used, leaving, app)
  BY <1>3, <1>6, <1>7, OwnedStill DEF Own
<1> QED BY <1>8 DEF OwnNext, memory, heapVars

LEMMA OwnCalls ==
  ASSUME NEW at, Safe(at), Own, Calls
  PROVE  OwnNext
<1>1. UNCHANGED memory
  BY DEF Calls
<1>2. CASE Resume
  BY <1>1, <1>2, OwnResume
<1>3. ASSUME SimpleCall \/ Lock \/ DelayUntil \/ Suspend \/ Suspended \/ NotifyTake \/ NotifyTaken
             \/ CatchUpTicks \/ AbortDelay \/ Delay
      PROVE  OwnNext
  <2>1. th[me].pc \notin Holding \cup {"resume"}
    BY <1>3 DEF SimpleCall, Simple, Lock, DelayUntil, Suspend, Suspended, NotifyTake, NotifyTaken,
       CatchUpTicks, AbortDelay, Delay, At, Holding
  <2>2. \E p : p # "release" /\ Goto(p)
    BY <1>3 DEF SimpleCall, Lock, DelayUntil, Suspend, Suspended, NotifyTake, NotifyTaken,
       CatchUpTicks, AbortDelay, Delay
  <2>3. PICK p : p # "release" /\ th' = [th EXCEPT ![me].pc = p, ![me].to = "run"]
    BY <2>2 DEF Goto
  <2>4. Shift(th, th', me, p, "run", 0)
    BY <2>3 DEF Shift
  <2> QED BY <1>1, <2>1, <2>3, <2>4, OwnQuiet
<1>4. ASSUME Locked \/ DelayAdd \/ CatchUpAdd \/ AbortReady
      PROVE  OwnNext
  <2>1. th[me].pc \notin Holding \cup {"resume"}
    BY <1>4 DEF Locked, DelayAdd, CatchUpAdd, AbortReady, At, Holding
  <2>2. PICK q : th' = [th EXCEPT ![me].pc = "resume", ![me].to = q]
    BY <1>4 DEF Locked, DelayAdd, CatchUpAdd, AbortReady, ResumeThen
  <2>3. Shift(th, th', me, "resume", q, 0)
    BY <2>2 DEF Shift
  <2> QED BY <1>1, <2>1, <2>3, OwnQuiet
<1>5. ASSUME AbortIfBlocked \/ AbortEvent
      PROVE  OwnNext
  <2>1. th[me].pc \notin Holding \cup {"resume"}
    BY <1>5 DEF AbortIfBlocked, AbortEvent, At, Holding
  <2>2. PICK p, q : p # "release" /\ th' = [th EXCEPT ![me].pc = p, ![me].to = q]
    BY <1>5 DEF AbortIfBlocked, AbortEvent, ResumeThen, Goto
  <2>3. Shift(th, th', me, p, q, 0)
    BY <2>2 DEF Shift
  <2> QED BY <1>1, <2>1, <2>2, <2>3, OwnQuiet
<1>6. ASSUME Yield PROVE OwnNext
  <2>1. PICK y \in DOMAIN AfterYield : At(y) /\ Goto(AfterYield[y])
    BY <1>6 DEF Yield
  <2>2. th[me].pc \notin Holding \cup {"resume"} /\ AfterYield[y] # "release"
    BY <2>1 DEF AfterYield, At, Holding
  <2>3. th' = [th EXCEPT ![me].pc = AfterYield[y], ![me].to = "run"]
    BY <2>1 DEF Goto
  <2>4. Shift(th, th', me, AfterYield[y], "run", 0)
    BY <2>3 DEF Shift
  <2> QED BY <1>1, <2>2, <2>4, OwnQuiet
<1>7. ASSUME DelayUntilAdd PROVE OwnNext
  <2>1. th[me].pc \notin Holding \cup {"resume"}
    BY <1>7 DEF DelayUntilAdd, At, Holding
  <2>2. PICK w : th' = [th EXCEPT ![me].pc = "resume", ![me].to = "yield", ![me].prev = w]
    BY <1>7 DEF DelayUntilAdd
  <2>3. Shift(th, th', me, "resume", "yield", w)
    BY <2>2 DEF Shift
  <2> QED BY <1>1, <2>1, <2>3, OwnQuiet
<1> QED BY <1>2, <1>3, <1>4, <1>5, <1>6, <1>7 DEF Calls, TaskCall

LEMMA OwnOthers ==
  ASSUME NEW at, Safe(at), Own, Begin \/ Created \/ NotDeleted \/ Ticks \/ Interrupts
  PROVE  OwnNext
<1>1. UNCHANGED memory
  BY DEF Begin, Created, NotDeleted, Ticks, Interrupts
<1>2. k.cur \in Task /\ th \in [Task -> ThreadState] /\ me = k.cur
  BY Running DEF Safe, me
<1>3. ASSUME Ticks \/ Interrupts PROVE OwnNext
  <2>1. th' = th
    BY <1>3 DEF Ticks, Tick, Interrupts, TaskIsr
  <2> QED BY <1>1, <2>1 DEF Own, OwnNext, memory, heapVars
<1>4. ASSUME Created \/ NotDeleted PROVE OwnNext
  <2>1. th[me].pc \notin Holding \cup {"resume"}
    BY <1>4 DEF Created, NotDeleted, At, Holding
  <2>2. th' = [th EXCEPT ![me].pc = "run", ![me].to = "run"]
    BY <1>4 DEF Created, NotDeleted, Goto
  <2>3. Shift(th, th', me, "run", "run", 0)
    BY <2>2 DEF Shift
  <2> QED BY <1>1, <2>1, <2>3, OwnQuiet
<1>5. ASSUME Begin PROVE OwnNext
  <2>1. PICK d \in app.calls[me] : BeginCall(d)
    BY <1>5 DEF Begin
  <2>2. th[me].pc = "run" /\ th' = [th EXCEPT ![me].pc = Entry(d), ![me].c = d]
    BY <2>1 DEF BeginCall, At
  <2>3. /\ \A v \in Task \ {me} : th'[v] = th[v]
        /\ th'[me].pc = Entry(d) /\ th'[me].got = th[me].got
    BY <1>2, <2>2 DEF ThreadState
  <2>4. Entry(d) # "release"
    <3>1. AppOK(app)
      BY Parts
    <3>2. CallOK(app, me, d)
      BY <1>2, <3>1 DEF AppOK
    <3>3. d.op \in Aimed \cup Timed \cup {"CatchUp", "Create", "Delete"}
      BY <3>2 DEF CallOK
    <3> QED BY <3>3 DEF Entry, Aimed, Timed, Simple
  <2>5. ~Doing(th[me], Holding)
    BY <2>2 DEF Doing, Holding
  <2>6. Owned(th', mem, used, leaving, app)
    <3>1. Owned(th, mem, used, leaving, app) /\ me \in Task /\ th[me].pc # "release" /\ th'[me].pc # "release"
      BY <1>2, <2>2, <2>3, <2>4 DEF Own
    <3> QED BY ONLY <2>3, <2>5, <3>1, OwnedStill
  <2> QED BY <1>1, <2>6 DEF OwnNext, memory, heapVars
<1> QED BY <1>3, <1>4, <1>5

(* pvPortMalloc: a block that was free belongs to the call.                 *)
LEMMA OwnMalloc ==
  ASSUME NEW at, Safe(at), Own, HeapInv, HeapInv', app' = app, NEW wanted \in Nat \ {0}, NEW n, NEW f,
         Malloc(wanted, n, f), th[me].pc \in {"Create", "createtcb"},
         n \in {"createtcb", "createadd"}, th[me].pc = "createtcb" => f = "free",
         th[me].pc = "Create" => th[me].got = <<>>
  PROVE  OwnNext
<1>1. /\ k.cur \in Task /\ th \in [Task -> ThreadState] /\ me = k.cur /\ th[k.cur] \in ThreadState
      /\ Threads(th, mem, app) /\ Thread(th[k.cur], mem, app.calls[k.cur])
  BY Running DEF Safe, me
<1>2. mem' = mem /\ me \in Task /\ th[me].got \in Seq(BlockLink_t)
  BY <1>1 DEF Malloc, ThreadState
<1>3. me \in Staying(app)
  <2>1. AppOK(app)
    BY Parts
  <2>2. th[me].c.op = "Create"
    BY <1>1 DEF Thread, OpOf
  <2>3. CallOK(app, me, th[me].c)
    BY <1>1, <2>1, <2>2, InOwnCall
  <2> QED BY <2>2, <2>3 DEF CallOK
<1>4. CASE Fits(wanted)
  <2>1. PICK b \in free, new \in used' \ used :
          /\ Allocate(b, wanted)
          /\ th' = [th EXCEPT ![me].pc = "resume", ![me].to = n, ![me].got = Append(th[me].got, new)]
    BY <1>4 DEF Malloc
  <2>2. used' = used \cup {new} /\ leaving' = leaving
    BY <2>1 DEF Allocate
  <2>3. new \in BlockLink_t /\ new \notin leaving
    BY <2>2 DEF HeapInv, HeapTypeOK, Blocks
  <2>4. /\ \A v \in Task \ {me} : th'[v] = th[v]
        /\ th'[me].got = Append(th[me].got, new) /\ th'[me].pc = "resume" /\ th'[me].to = n
    BY <1>1, <1>2, <2>1 DEF ThreadState
  <2>5. Doing(th'[me], Holding) /\ th[me].pc # "release" /\ th'[me].pc # "release"
    BY <2>4 DEF Doing, Holding
  <2>6. new \notin used \cup leaving /\ me \in Staying(app) \cup {Idle} /\ Owned(th, mem, used, leaving, app)
    BY <1>3, <2>1, <2>3 DEF Own
  <2>7. Owned(th', mem, used \cup {new}, leaving, app)
    BY ONLY <1>2, <2>3, <2>4, <2>5, <2>6, OwnedMore
  <2> QED BY <1>2, <2>2, <2>7 DEF OwnNext
<1>5. CASE ~Fits(wanted)
  <2>1. UNCHANGED heapVars /\ th' = [th EXCEPT ![me].pc = "resume", ![me].to = f]
    BY <1>5 DEF Malloc, ResumeThen
  <2>2. /\ \A v \in Task \ {me} : th'[v] = th[v]
        /\ th'[me].got = th[me].got /\ th'[me].pc = "resume" /\ th'[me].to = f
    BY <1>1, <1>2, <2>1 DEF ThreadState
  <2>3. Doing(th[me], Holding) => Doing(th'[me], Holding)
    BY <2>2 DEF Doing, Holding
  <2>4. Owned(th, mem, used, leaving, app) /\ th[me].pc # "release" /\ th'[me].pc # "release"
    BY <2>2 DEF Own
  <2>5. Owned(th', mem, used, leaving, app)
    BY ONLY <1>2, <2>2, <2>3, <2>4, OwnedStill
  <2> QED BY <1>2, <2>1, <2>5 DEF OwnNext, heapVars
<1> QED BY <1>4, <1>5

(* A thread that is not busy with blocks has none.                          *)
LEMMA NoBlocks ==
  ASSUME Own, NEW t \in Task, ~Doing(th[t], Holding)
  PROVE  th[t].got = <<>>
BY DEF Own, Owned, OwnWho

LEMMA OwnCreate ==
  ASSUME NEW at, Safe(at), Own, HeapInv, HeapInv', app' = app, CreateStack \/ CreateTcb
  PROVE  OwnNext
<1>1. k.cur \in Task /\ me = k.cur /\ {StackUnits, TcbUnits} \subseteq Nat \ {0}
  BY Running, Units DEF Safe, me
<1>2. CASE CreateStack
  <2>1. Malloc(StackUnits, "createtcb", "run") /\ th[me].pc = "Create"
    BY <1>2 DEF CreateStack, At
  <2>2. th[me].got = <<>>
    <3>1. ~Doing(th[me], Holding)
      BY <2>1 DEF Doing, Holding
    <3> QED BY <1>1, <3>1, NoBlocks
  <2> QED BY <1>1, <2>1, <2>2, OwnMalloc
<1>3. CASE CreateTcb
  <2>1. Malloc(TcbUnits, "createadd", "free") /\ th[me].pc = "createtcb"
    BY <1>3 DEF CreateTcb, At
  <2> QED BY <1>1, <2>1, OwnMalloc
<1> QED BY <1>2, <1>3

(* A task that can be deleted or created later holds no blocks itself.      *)
LEMMA PassingHoldsNone ==
  ASSUME NEW at, Safe(at), Own, NEW t \in Passing(app), t # Idle
  PROVE  th[t].got = <<>> /\ t \in Task
<1>1. AppOK(app)
  BY Parts
<1>2. t \notin Staying(app) /\ t \in Task
  BY <1>1, StayingTasks DEF Passing, Staying
<1> QED BY <1>2 DEF Own, Owned, OwnWho

(* The new task takes the blocks over.                                      *)
LEMMA OwnAdd ==
  ASSUME NEW at, Safe(at), Own, app' = app, CreateAdd
  PROVE  OwnNext
<1>1. /\ k.cur \in Task /\ th \in [Task -> ThreadState] /\ me = k.cur /\ th[k.cur] \in ThreadState
      /\ Threads(th, mem, app) /\ Thread(th[k.cur], mem, app.calls[k.cur]) /\ AppOK(app)
      /\ Situated(k, th, mem, app, at) /\ Locking(k, th, app) /\ mem \in [Task -> Seq(BlockLink_t)]
  BY Running, Parts DEF Safe, me, Tally
<1> DEFINE w == c.u
<1>2. /\ th[me].pc = "createadd" /\ c = th[me].c /\ UNCHANGED heapVars
      /\ mem' = [mem EXCEPT ![w] = th[me].got]
      /\ th' = [th EXCEPT ![w] = Fresh, ![me].got = <<>>, ![me].pc = "created"]
  BY DEF CreateAdd, At, c
<1>3. c.op = "Create" /\ mem[w] = <<>>
  BY <1>1, <1>2 DEF Thread, OpOf, Doing
<1>4. w \in Task /\ w \in Passing(app) /\ c \in app.calls[me]
  <2>1. c \in app.calls[me] /\ w \in Task
    BY <1>1, <1>2, <1>3, InOwnCall
  <2> QED BY <1>1, <1>3, <2>1 DEF Passing
<1>5. w # me /\ w # Idle
  <2>1. \A t \in Task : ~Abandoned(th, t)
    BY <1>1, <1>2, NobodyAborts DEF AbortPc
  <2>2. at[w] = "none"
    BY <1>1, <1>3, <1>4 DEF Situated
  <2>3. at[Idle] = "ready" /\ at[me] # "none"
    BY <1>1 DEF Safe, KernelInv, Sound, Shape, Situated
  <2> QED BY <2>2, <2>3
<1>6. th[w].got = <<>>
  BY <1>4, <1>5, PassingHoldsNone
<1> HIDE DEF w
<1>7. /\ \A v \in Task \ {me, w} : th'[v] = th[v]
      /\ th'[w].got = <<>> /\ th'[w].pc = "run" /\ th'[me].got = <<>> /\ th'[me].pc = "created"
  BY <1>1, <1>2, <1>4, <1>5 DEF ThreadState, Fresh
<1>8. (\A v \in Task \ {w} : mem'[v] = mem[v]) /\ mem'[w] = th[me].got
  BY <1>1, <1>2, <1>4
<1>9. th[w].pc # "release"
  <2>1. Thread(th[w], mem, app.calls[w])
    BY <1>1, <1>4 DEF Threads
  <2> QED BY <1>6, <2>1 DEF Thread, Doing, Holding
<1>10. Owned(th, mem, used, leaving, app) /\ me \in Task /\ th[me].pc # "release" /\ th'[me].pc # "release"
  BY <1>1, <1>2, <1>7 DEF Own
<1>11. Owned(th', mem', used, leaving, app)
  <2>1. /\ w # me => th'[w].got = th[w].got /\ th'[w].pc # "release"
        /\ w # me => th[w].pc # "release" /\ (th[w].got # <<>> => Doing(th'[w], Holding))
        /\ mem'[w] = th[me].got /\ th'[me].got = mem[w] /\ (mem[w] = <<>> \/ th[me].got = <<>>)
        /\ th'[me].got # <<>> => Doing(th'[me], Holding) /\ me \in Staying(app) \cup {Idle}
        /\ \A v \in Task \ {me, w} : th'[v] = th[v]
        /\ \A v \in Task \ {w} : mem'[v] = mem[v]
    BY <1>3, <1>6, <1>7, <1>8, <1>9 DEF w
  <2> QED BY ONLY <1>4, <1>10, <2>1, OwnedHanded
<1> QED BY <1>2, <1>11 DEF OwnNext, heapVars

(* The blocks of a task that is deleted belong to the call that frees them. *)
LEMMA OwnTakes ==
  ASSUME NEW at, Safe(at), Own, app' = app, UNCHANGED heapVars, th[me].pc \in {"Delete", "run"},
         me \in Staying(app) \cup {Idle}, NEW u \in Passing(app), u # me, u # Idle,
         mem' = [mem EXCEPT ![u] = <<>>], th' = [th EXCEPT ![me].pc = "free", ![me].got = mem[u]]
  PROVE  OwnNext
<1>1. /\ k.cur \in Task /\ th \in [Task -> ThreadState] /\ me = k.cur /\ th[k.cur] \in ThreadState
      /\ Threads(th, mem, app) /\ mem \in [Task -> Seq(BlockLink_t)]
  BY Running, Parts DEF Safe, me, Tally
<1>2. th[me].got = <<>>
  <2>1. ~Doing(th[me], Holding)
    BY DEF Doing, Holding
  <2> QED BY <1>1, <2>1, NoBlocks
<1>3. u \in Task /\ th[u].got = <<>>
  BY PassingHoldsNone
<1>4. /\ \A v \in Task \ {me} : th'[v] = th[v]
      /\ th'[me].got = mem[u] /\ th'[me].pc = "free"
  BY <1>1 DEF ThreadState
<1>5. (\A v \in Task \ {u} : mem'[v] = mem[v]) /\ mem'[u] = <<>>
  BY <1>1, <1>3
<1>6. th[u].pc # "release"
  <2>1. Thread(th[u], mem, app.calls[u])
    BY <1>1, <1>3 DEF Threads
  <2> QED BY <1>3, <2>1 DEF Thread, Doing, Holding
<1>7. Owned(th, mem, used, leaving, app) /\ me \in Task /\ th[me].pc # "release" /\ th'[me].pc # "release"
  BY <1>1, <1>4 DEF Own
<1>8. /\ u # me => th'[u].got = th[u].got /\ th'[u].pc # "release"
      /\ u # me => th[u].pc # "release" /\ (th[u].got # <<>> => Doing(th'[u], Holding))
      /\ mem'[u] = th[me].got /\ th'[me].got = mem[u] /\ (mem[u] = <<>> \/ th[me].got = <<>>)
      /\ th'[me].got # <<>> => Doing(th'[me], Holding) /\ me \in Staying(app) \cup {Idle}
      /\ \A v \in Task \ {me, u} : th'[v] = th[v]
      /\ \A v \in Task \ {u} : mem'[v] = mem[v]
  BY <1>2, <1>3, <1>4, <1>5, <1>6 DEF Doing, Holding
<1>9. Owned(th', mem', used, leaving, app)
  BY ONLY <1>3, <1>7, <1>8, OwnedHanded
<1> QED BY <1>9 DEF OwnNext, heapVars

LEMMA OwnDelete ==
  ASSUME NEW at, Safe(at), Own, app' = app, Delete
  PROVE  OwnNext
<1>1. /\ k.cur \in Task /\ th \in [Task -> ThreadState] /\ me = k.cur /\ th[k.cur] \in ThreadState
      /\ Threads(th, mem, app) /\ Thread(th[k.cur], mem, app.calls[k.cur]) /\ AppOK(app)
  BY Running, Parts DEF Safe, me
<1>2. th[me].pc = "Delete" /\ UNCHANGED heapVars /\ c = th[me].c
  BY DEF Delete, At, c
<1>3. c.op = "Delete"
  BY <1>1, <1>2 DEF Thread, OpOf
<1>4. c \in app.calls[me] /\ CallOK(app, me, c) /\ c.u \in Task
  BY <1>1, <1>2, <1>3, InOwnCall
<1>5. CASE c.u = me
  <2>1. th' = [th EXCEPT ![me].pc = "yield", ![me].to = "run"] /\ UNCHANGED mem
    BY <1>5 DEF Delete, Goto
  <2>2. Shift(th, th', me, "yield", "run", 0)
    BY <2>1 DEF Shift
  <2>3. UNCHANGED memory /\ th[me].pc \notin Holding \cup {"resume"}
    BY <1>2, <2>1 DEF memory, Holding
  <2> QED BY <2>2, <2>3, OwnQuiet
<1>6. CASE c.u # me
  <2>1. /\ mem' = [mem EXCEPT ![c.u] = <<>>]
        /\ th' = [th EXCEPT ![me].pc = "free", ![me].got = mem[c.u]]
    BY <1>6 DEF Delete
  <2>2. c.u # Idle /\ me \in Staying(app) /\ c.u \in Passing(app)
    BY <1>1, <1>3, <1>4, <1>6 DEF CallOK, Passing
  <2> QED BY <1>2, <1>6, <2>1, <2>2, OwnTakes
<1> QED BY <1>5, <1>6

LEMMA OwnCleanUp ==
  ASSUME NEW at, Safe(at), Own, app' = app, CleanUp
  PROVE  OwnNext
<1>1. /\ k.cur \in Task /\ me = k.cur /\ Situated(k, th, mem, app, at) /\ Tally(k, mem)
      /\ k.dying \in Seq(Task) /\ KernelInv(k, th, mem, app, at)
  BY Running, Parts DEF Safe, me
<1> DEFINE u == Head(k.dying)
<1>2. /\ th[me].pc = "run" /\ me = Idle /\ k.ndying > 0 /\ UNCHANGED heapVars
      /\ th' = [th EXCEPT ![me].pc = "free", ![me].got = mem[u]]
      /\ mem' = [mem EXCEPT ![u] = <<>>]
  BY DEF CleanUp, At
<1>3. k.dying # <<>> /\ u \in Task /\ Contains(k.dying, u)
  <2>1. Len(k.dying) \in Nat /\ Len(k.dying) # 0
    BY <1>1, <1>2 DEF Tally
  <2>2. 1 \in 1..Len(k.dying) /\ u = k.dying[1] /\ u \in Task
    BY <1>1, <2>1
  <2> QED BY <2>1, <2>2 DEF Contains
<1>4. at[u] = "dying"
  BY <1>3, ListPlaces
<1>5. u \in Passing(app)
  BY <1>1, <1>3, <1>4 DEF Situated
<1>6. at[me] = "ready"
  BY <1>1, <1>2, CurrentReady
<1>7. u # me
  BY <1>4, <1>6
<1> HIDE DEF u
<1> QED BY <1>2, <1>5, <1>7, OwnTakes

(* vPortFree.                                                               *)
LEMMA OwnFree ==
  ASSUME NEW at, Safe(at), Own, HeapInv, app' = app, FreeMark \/ FreeRelease
  PROVE  OwnNext
<1>1. /\ k.cur \in Task /\ th \in [Task -> ThreadState] /\ me = k.cur /\ th[k.cur] \in ThreadState
      /\ Thread(th[k.cur], mem, app.calls[k.cur])
  BY Running DEF Safe, me
<1>2. PICK s \in Seq(BlockLink_t) : s = th[me].got
  BY <1>1 DEF ThreadState
<1>3. s # <<>>
  BY <1>1, <1>2 DEF Thread, Doing, Holding, FreeMark, FreeRelease, At
<1>4. used \cap leaving = {} /\ me \in Task
  BY <1>1 DEF HeapInv, HeapTypeOK
<1> DEFINE e == Head(s)
<1>5. CASE FreeMark
  <2>1. /\ th[me].pc = "free" /\ th' = [th EXCEPT ![me].pc = "release", ![me].to = "run"]
        /\ used' = used \ {e} /\ leaving' = leaving \cup {e} /\ mem' = mem
    BY <1>2, <1>5 DEF FreeMark, At, Goto, heapFREE_BLOCK
  <2>2. /\ \A v \in Task \ {me} : th'[v] = th[v]
        /\ th'[me].got = th[me].got /\ th'[me].pc = "release"
    BY <1>1, <2>1 DEF ThreadState
  <2>3. Owned(th, mem, used, leaving, app) /\ th[me].got \in Seq(BlockLink_t) /\ th[me].got # <<>>
        /\ e = Head(th[me].got)
    BY <1>2, <1>3 DEF Own
  <2> HIDE DEF e
  <2>4. Owned(th', mem, used \ {e}, leaving \cup {e}, app)
    BY ONLY ZenonT(30), <1>4, <2>1, <2>2, <2>3, OwnedMarked
  <2> QED BY <2>1, <2>4 DEF OwnNext
<1>6. CASE FreeRelease
  <2>1. PICK n : n = IF Len(th[me].got) = 1 THEN "run" ELSE "free"
    OBVIOUS
  <2>2. /\ th[me].pc = "release" /\ leaving' = leaving \ {e} /\ used' = used /\ mem' = mem
        /\ th' = [th EXCEPT ![me].pc = "resume", ![me].got = Tail(th[me].got), ![me].to = n]
    BY <1>2, <1>6, <2>1 DEF FreeRelease, At, Release
  <2>3. /\ \A v \in Task \ {me} : th'[v] = th[v]
        /\ th'[me].got = Tail(th[me].got) /\ th'[me].pc = "resume" /\ th'[me].to = n
    BY <1>1, <2>2 DEF ThreadState
  <2>4. Owned(th, mem, used, leaving, app) /\ th[me].got \in Seq(BlockLink_t) /\ th[me].got # <<>>
        /\ e = Head(th[me].got) /\ th'[me].pc # "release"
    BY <1>2, <1>3, <2>3 DEF Own
  <2>5. Tail(th[me].got) # <<>> => Doing(th'[me], Holding)
    <3>1. Tail(s) # <<>> => Len(s) # 1
      BY <1>3
    <3> QED BY <1>2, <2>1, <2>3, <3>1 DEF Doing, Holding
  <2>6. th'[me].pc # "release" /\ th[me].pc = "release"
    BY <2>2, <2>3
  <2>7. \A v \in Task \ {me} : th'[v] = th[v]
    BY <2>3
  <2>8. th'[me].got = Tail(th[me].got)
    BY <2>3
  <2> HIDE DEF e
  <2>9. Owned(th', mem, used, leaving \ {e}, app)
    BY ONLY <1>4, <2>4, <2>5, <2>6, <2>7, <2>8, OwnedReleased
  <2> QED BY <2>2, <2>9 DEF OwnNext
<1> QED BY <1>5, <1>6

-----------------------------------------------------------------------------
(* The invariant of the memory                                              *)

MemInv == Own /\ Summed

LEMMA SummedStays ==
  ASSUME Summed, UNCHANGED <<free, xFreeBytesRemaining, xMinimumEverFreeBytesRemaining>>
  PROVE  Summed'
<1>1. SizeSum(free') = SizeSum(free)'
  BY DEF SizeSum, MapThenSumSet, MapThenFoldSet
<1>2. SizeSum(free') = SizeSum(free)
  OBVIOUS
<1> QED BY <1>1, <1>2 DEF Summed

LEMMA SummedKeeps ==
  ASSUME HeapInv, Summed, Next
  PROVE  Summed'
<1>1. CASE Begin \/ CleanUp \/ Ticks \/ Interrupts \/ Calls \/ CreateAdd \/ Created \/ NotDeleted \/ Delete
  <2>1. UNCHANGED heapVars
    BY <1>1 DEF Begin, CleanUp, Ticks, Interrupts, Calls, CreateAdd, Created, NotDeleted, Delete, memory
  <2> QED BY <2>1, SummedStays DEF heapVars
<1>2. CASE CreateStack \/ CreateTcb
  <2>1. PICK wanted \in Nat \ {0} : \E n, f : Malloc(wanted, n, f)
    BY <1>2, Units DEF CreateStack, CreateTcb
  <2>2. CASE Fits(wanted)
    <3>1. PICK b \in free : Allocate(b, wanted)
      BY <2>1, <2>2 DEF Malloc
    <3> QED BY <3>1, AllocateSum
  <2>3. CASE ~Fits(wanted)
    <3>1. UNCHANGED heapVars
      BY <2>1, <2>3 DEF Malloc
    <3> QED BY <3>1, SummedStays DEF heapVars
  <2> QED BY <2>2, <2>3
<1>3. CASE FreeMark
  <2>1. PICK b : heapFREE_BLOCK(b)
    BY <1>3 DEF FreeMark
  <2> QED BY <2>1, SummedStays DEF heapFREE_BLOCK
<1>4. CASE FreeRelease
  <2>1. PICK b : Release(b)
    BY <1>4 DEF FreeRelease
  <2>2. b \in leaving
    BY <2>1 DEF Release
  <2> QED BY <2>1, <2>2, ReleaseSum
<1> QED BY <1>1, <1>2, <1>3, <1>4 DEF Next, InCall

LEMMA OwnKeeps ==
  ASSUME NEW at, Safe(at), Own, HeapInv, HeapInv', Next
  PROVE  OwnNext
<1>1. app' = app
  BY DEF Next
<1>2. CASE Calls
  BY <1>2, OwnCalls
<1>3. CASE Begin \/ Created \/ NotDeleted \/ Ticks \/ Interrupts
  BY <1>3, OwnOthers
<1>4. CASE CreateStack \/ CreateTcb
  BY <1>1, <1>4, OwnCreate
<1>5. CASE CreateAdd
  BY <1>1, <1>5, OwnAdd
<1>6. CASE Delete
  BY <1>1, <1>6, OwnDelete
<1>7. CASE CleanUp
  BY <1>1, <1>7, OwnCleanUp
<1>8. CASE FreeMark \/ FreeRelease
  BY <1>1, <1>8, OwnFree
<1> QED BY <1>2, <1>3, <1>4, <1>5, <1>6, <1>7, <1>8 DEF Next, InCall

LEMMA MemStep == Inv /\ Inv' /\ MemInv /\ [Next]_vars => MemInv'
<1> SUFFICES ASSUME Inv, Inv', MemInv, [Next]_vars PROVE MemInv'
  OBVIOUS
<1>1. CASE Next
  <2>1. PICK at : Safe(at)
    BY DEF Inv
  <2>2. HeapInv /\ HeapInv' /\ Own /\ Summed
    BY DEF Inv, MemInv
  <2>3. OwnNext
    BY <1>1, <2>1, <2>2, OwnKeeps
  <2>4. Summed'
    BY <1>1, <2>2, SummedKeeps
  <2>5. Own'
    BY <1>1, <2>3 DEF Own, OwnNext, Next
  <2> QED BY <2>4, <2>5 DEF MemInv
<1>2. CASE UNCHANGED vars
  <2>1. UNCHANGED heapVars /\ th' = th /\ mem' = mem /\ app' = app
    BY <1>2 DEF vars, threadVars
  <2>2. Summed'
    BY <2>1, SummedStays DEF MemInv, heapVars
  <2>3. Own'
    BY <2>1 DEF MemInv, Own, heapVars
  <2> QED BY <2>2, <2>3 DEF MemInv
<1> QED BY <1>1, <1>2

(* At the start every task has its two blocks, which no other has.          *)
LEMMA StartBlocks ==
  ASSUME NEW n \in Nat
  PROVE  /\ \A i \in 1..n : StackOf(i) # TcbOf(i)
         /\ \A i, j \in 1..n : i # j => /\ StackOf(i) # StackOf(j) /\ StackOf(i) # TcbOf(j)
                                        /\ TcbOf(i) # StackOf(j) /\ TcbOf(i) # TcbOf(j)
<1>1. PICK e \in Nat \ {0}, s \in Nat \ {0} : e = Each /\ s = StackUnits /\ s < e
  BY Units DEF Each
<1>2. PICK f : f = [i \in 1..n |-> (i - 1) * e]
  OBVIOUS
<1>3. /\ \A i \in 1..n : f[i] \in Nat
      /\ \A i, j \in 1..n : i < j => f[i] + e <= f[j]
  BY <1>1, <1>2, Multiples
<1>4. \A i \in 1..n : StackOf(i).at = f[i] /\ TcbOf(i).at = f[i] + s
  BY <1>1, <1>2 DEF StackOf, TcbOf
<1>5. \A i \in 1..n : f[i] # f[i] + s
  BY <1>1, <1>3
<1>6. \A i, j \in 1..n : i # j => f[i] # f[j] /\ f[i] + s # f[j] + s /\ f[i] # f[j] + s
  <2>1. \A i, j \in 1..n : i < j => f[i] < f[j] /\ f[i] + s < f[j]
    BY <1>1, <1>3
  <2>2. \A i, j \in 1..n : i # j => i < j \/ j < i
    OBVIOUS
  <2> QED BY <1>1, <1>3, <2>1, <2>2
<1> QED BY <1>4, <1>5, <1>6

LEMMA StartOwn ==
  ASSUME NEW all, Start(all)
  PROVE  Own
<1>1. /\ all \in Seq(Task) /\ Len(all) \in Nat /\ DOMAIN all = 1..Len(all) /\ Distinct(all)
      /\ Range(all) \subseteq Task
  <2>1. /\ all \in Seq(Task) /\ Len(all) \in Nat /\ DOMAIN all = 1..Len(all)
        /\ app.order \in Seq(Task \ {Idle}) /\ Distinct(app.order)
    BY StartOrder
  <2>2. PICK s \in Seq(Task \ {Idle}) : s = app.order /\ Distinct(s)
    BY <2>1
  <2>3. all = Append(s, Idle) /\ Idle \in Task
    BY <2>2, Numbers DEF Start
  <2>4. Idle \notin Range(s)
    BY <2>2 DEF Range
  <2>5. s \in Seq(Task)
    BY <2>2
  <2>6. Distinct(Append(s, Idle))
    BY ONLY <2>2, <2>3, <2>4, <2>5, AppendList
  <2> QED BY <2>1, <2>3, <2>6 DEF Range
<1>2. \A t \in Task : th[t].got = <<>> /\ th[t].pc = "run"
  BY DEF Start, Fresh
<1>3. ASSUME NEW t \in Task
      PROVE  \/ mem[t] = <<>> /\ \A i \in 1..Len(all) : all[i] # t
             \/ \E i \in 1..Len(all) : all[i] = t /\ mem[t] = <<StackOf(i), TcbOf(i)>>
  <2>1. PICK i : i = PlaceIn(all, t)
    OBVIOUS
  <2>2. mem[t] = IF Contains(all, t) THEN <<StackOf(i), TcbOf(i)>> ELSE <<>>
    BY <2>1 DEF Start
  <2>3. CASE Contains(all, t)
    <3>1. i \in 1..Len(all) /\ all[i] = t
      BY ONLY <1>1, <2>1, <2>3, Found
    <3> QED BY <2>2, <2>3, <3>1
  <2>4. CASE ~Contains(all, t)
    BY <2>2, <2>4 DEF Contains
  <2> QED BY <2>3, <2>4
<1>4. ASSUME NEW t \in Task, NEW b \in Range(mem[t])
      PROVE  \E i \in 1..Len(all) : all[i] = t /\ (b = StackOf(i) \/ b = TcbOf(i))
  <2>1. mem[t] # <<>>
    BY DEF Range
  <2>2. PICK i \in 1..Len(all) : all[i] = t /\ mem[t] = <<StackOf(i), TcbOf(i)>>
    BY <1>3, <2>1
  <2>3. b \in Range(<<StackOf(i), TcbOf(i)>>)
    BY <2>2
  <2> QED BY <2>2, <2>3 DEF Range
<1>5. \A x, y : x # y => Distinct(<<x, y>>)
  BY DEF Distinct
<1>6. ASSUME NEW t \in Task PROVE Distinct(mem[t]) /\ Range(mem[t]) \subseteq used
  <2>1. Range(mem[t]) \subseteq used
    <3> SUFFICES ASSUME NEW b \in Range(mem[t]) PROVE b \in used
      OBVIOUS
    <3>1. PICK i \in 1..Len(all) : b = StackOf(i) \/ b = TcbOf(i)
      BY <1>4
    <3>2. b \in {StackOf(i), TcbOf(i)} /\ i \in DOMAIN all
      BY <1>1, <3>1
    <3> QED BY <3>2 DEF Start
  <2>2. CASE mem[t] = <<>>
    BY <2>1, <2>2 DEF Distinct
  <2>3. CASE mem[t] # <<>>
    <3>1. PICK i \in 1..Len(all) : mem[t] = <<StackOf(i), TcbOf(i)>>
      BY <1>3, <2>3
    <3> QED BY <1>1, <1>5, <2>1, <3>1, StartBlocks
  <2> QED BY <2>2, <2>3
<1>7. ASSUME NEW t \in Task, NEW v \in Task, t # v, NEW b \in Range(mem[t])
      PROVE  b \notin Range(mem[v])
  <2> SUFFICES ASSUME b \in Range(mem[v]) PROVE FALSE
    OBVIOUS
  <2>1. PICK i \in 1..Len(all) : all[i] = t /\ (b = StackOf(i) \/ b = TcbOf(i))
    BY <1>4
  <2>2. PICK j \in 1..Len(all) : all[j] = v /\ (b = StackOf(j) \/ b = TcbOf(j))
    BY <1>4
  <2>3. i # j
    BY <1>7, <2>1, <2>2
  <2> QED BY <1>1, <2>1, <2>2, <2>3, StartBlocks
<1>8. ASSUME NEW b \in used PROVE \E t \in Task : b \in Range(mem[t])
  <2>1. PICK i \in 1..Len(all) : b = StackOf(i) \/ b = TcbOf(i)
    BY <1>1 DEF Start
  <2>2. PICK t \in Task : t = all[i]
    BY <1>1 DEF Range
  <2>3. PICK j \in 1..Len(all) : all[j] = t /\ mem[t] = <<StackOf(j), TcbOf(j)>>
    BY <1>3, <2>2
  <2>4. i = j
    BY <1>1, <2>2, <2>3 DEF Distinct
  <2>5. mem[t] = <<StackOf(i), TcbOf(i)>>
    BY <2>3, <2>4
  <2> QED BY <2>1, <2>5 DEF Range
<1>9. \A b : b \notin Range(<<>>)
  BY DEF Range
<1>10. leaving = {} /\ Distinct(<<>>)
  BY DEF Start, Distinct
<1>11. OwnMem(mem, used) /\ OwnGot(th, used, leaving) /\ OwnWho(th, app)
  BY <1>2, <1>6, <1>9, <1>10 DEF OwnMem, OwnGot, OwnWho
<1>12. OwnApart(th, mem)
  BY <1>2, <1>7, <1>9 DEF OwnApart
<1>13. OwnAll(th, mem, used, leaving)
  BY <1>8, <1>10 DEF OwnAll
<1> QED BY <1>11, <1>12, <1>13 DEF Own, Owned

LEMMA StartSummed ==
  ASSUME Init
  PROVE  Summed
<1>1. PICK all : all = Append(app.order, Idle)
  OBVIOUS
<1>2. PICK left : left = HeapUnits - Len(all) * Each
  OBVIOUS
<1>3. xFreeBytesRemaining = left /\ xMinimumEverFreeBytesRemaining = left
  BY <1>1, <1>2 DEF Init, Each
<1>4. Start(all)
  BY <1>1, Started
<1>5. left \in Int
  <2>1. Len(all) \in Nat
    BY <1>4, StartOrder
  <2>2. Each \in Nat /\ HeapUnits \in Nat
    BY Units, HeapAssumption DEF Each
  <2> QED BY <1>2, <2>1, <2>2
<1>6. PICK b : b = [at |-> Len(all) * Each, size |-> left]
  OBVIOUS
<1>7. free = {b} /\ b.size = left
  BY <1>2, <1>4, <1>6 DEF Start
<1>8. Sized({b})
  BY <1>5, <1>7, FS_Singleton DEF Sized
<1>9. SizeSum({b}) = SizeSum({b} \ {b}) + b.size /\ SizeSum({}) = 0
  BY <1>8, SumWithout, SumTyped
<1>10. {b} \ {b} = {}
  OBVIOUS
<1>11. SizeSum({b}) = left
  BY <1>5, <1>7, <1>9, <1>10
<1> QED BY <1>3, <1>5, <1>7, <1>8, <1>11 DEF Summed, Sized

LEMMA MemInit == Init => MemInv
<1> SUFFICES ASSUME Init PROVE MemInv
  OBVIOUS
<1>1. PICK all : all = Append(app.order, Idle)
  OBVIOUS
<1>2. Start(all)
  BY <1>1, Started
<1> QED BY <1>2, StartOwn, StartSummed DEF MemInv

LEMMA MemImplies == MemInv => MemoryOwned
<1> SUFFICES ASSUME MemInv PROVE MemoryOwned
  OBVIOUS
<1>1. Owned(th, mem, used, leaving, app) /\ Summed
  BY DEF MemInv, Own
<1>2. \A t \in Task : Range(mem[t]) \subseteq used
  BY <1>1 DEF Owned, OwnMem
<1>3. \A t, u \in Task : t # u => Range(mem[t]) \cap Range(mem[u]) = {}
  BY <1>1 DEF Owned, OwnApart
<1>4. used \cup leaving = UNION ({Range(mem[t]) : t \in Task} \cup {Range(th[t].got) : t \in Task})
  <2>1. ASSUME NEW b \in used \cup leaving
        PROVE  b \in UNION ({Range(mem[t]) : t \in Task} \cup {Range(th[t].got) : t \in Task})
    BY <1>1 DEF Owned, OwnAll
  <2>2. ASSUME NEW b \in UNION ({Range(mem[t]) : t \in Task} \cup {Range(th[t].got) : t \in Task})
        PROVE  b \in used \cup leaving
    <3>1. PICK t \in Task : b \in Range(mem[t]) \/ b \in Range(th[t].got)
      BY <2>2
    <3> QED BY <1>1, <1>2, <3>1 DEF Owned, OwnGot
  <2> QED BY <2>1, <2>2
<1>5. xFreeBytesRemaining = MapThenSumSet(LAMBDA b : b.size, free)
  BY <1>1 DEF Summed, SizeSum
<1>6. xMinimumEverFreeBytesRemaining <= xFreeBytesRemaining
  BY <1>1 DEF Summed
<1> QED BY <1>2, <1>3, <1>4, <1>5, <1>6 DEF MemoryOwned

(* The memory of a task that exists is allocated and its own alone, every   *)
(* block in use belongs to a task or to the call that frees it, and the     *)
(* count of free memory is the sum of the free blocks, never below its      *)
(* minimum (tasks.c:813, 3993; heap_4.c:217, 274).                          *)
THEOREM MemoryIsOwned == Spec => []MemoryOwned
<1>1. Init => Inv /\ MemInv
  BY InitSafe, MemInit
<1>2. Inv /\ MemInv /\ [Next]_vars => Inv' /\ MemInv'
  BY InvStep, MemStep
<1>3. Inv /\ MemInv => MemoryOwned
  BY MemImplies
<1> QED BY <1>1, <1>2, <1>3, PTL DEF Spec

-----------------------------------------------------------------------------
(* Time                                                                     *)

(* A step that takes no time: tasks that are not of S sleep on.  Nobody but *)
(* the current task falls asleep, and nobody is to be woken by              *)
(* xTaskResumeAll who was not before.                                       *)
Paused(x, y, S) ==
  /\ y.tick = x.tick
  /\ \A t \in Task \ S : Sleeping(x, t) => Sleeping(y, t) /\ Left(y, t) = Left(x, t)
Calm(x, y) ==
  /\ Range(y.pending) \subseteq Range(x.pending)
  /\ x.susp = 1 => y.cur = x.cur
  /\ \A t \in Task \ {x.cur} : Sleeping(y, t) => Sleeping(x, t)
Rests(x, y, S) == Paused(x, y, S) /\ Calm(x, y)

LEMMA SleepPlaces ==
  ASSUME NEW x, NEW at, Sound(x, at), NEW t \in Task
  PROVE  /\ Sleeping(x, t) <=> at[t] \in Asleep
         /\ Left(x, t) = Rem(x, at, t)
         /\ at[t] \in Asleep => Rem(x, at, t) \in Nat \ {0}
<1>1. /\ x.delayed \in Seq(Task) /\ x.overflow \in Seq(Task) /\ x.tick \in 0..MaxDelay
      /\ x.wake \in [Task -> 0..MaxDelay]
      /\ InPlace(x.delayed, at, "delayed") /\ InPlace(x.overflow, at, "overflow")
  BY DEF Sound, Shape, KernelState, Listed
<1>2. ASSUME NEW list \in Seq(Task), NEW place, InPlace(list, at, place)
      PROVE  Contains(list, t) <=> at[t] = place
  <2>1. Contains(list, t) <=> t \in Range(list)
    BY ContainsIsRange
  <2> QED BY <1>2, <2>1 DEF InPlace
<1>3. /\ Contains(x.delayed, t) <=> at[t] = "delayed"
      /\ Contains(x.overflow, t) <=> at[t] = "overflow"
  BY <1>1, <1>2
<1>4. at[t] = "delayed" => x.tick < x.wake[t]
  BY DEF Sound, InTime
<1>5. at[t] \in Asleep => Rem(x, at, t) \in Nat \ {0}
  <2>1. PICK i \in 0..MaxDelay, j \in 0..MaxDelay : i = x.tick /\ j = x.wake[t]
    BY <1>1
  <2>2. (i < j => j - i \in Nat \ {0}) /\ j + TickMod - i \in Nat \ {0}
    BY Numbers
  <2> QED BY <1>4, <2>1, <2>2 DEF Rem
<1> QED BY <1>3, <1>5 DEF Sleeping, Left, Rem, Asleep

LEMMA PlacesRest ==
  ASSUME NEW x, NEW at, Sound(x, at), NEW y, NEW to, Sound(y, to), NEW S, y.tick = x.tick,
         Range(y.pending) \subseteq Range(x.pending), x.susp = 1 => y.cur = x.cur,
         \A t \in Task \ {x.cur} : to[t] \in Asleep => at[t] \in Asleep,
         \A t \in Task \ S : at[t] \in Asleep => to[t] = at[t] /\ y.wake[t] = x.wake[t]
  PROVE  Rests(x, y, S)
<1>1. ASSUME NEW t \in Task \ S, Sleeping(x, t) PROVE Sleeping(y, t) /\ Left(y, t) = Left(x, t)
  <2>1. at[t] \in Asleep
    BY <1>1, SleepPlaces
  <2>2. to[t] = at[t] /\ y.wake[t] = x.wake[t]
    BY <2>1
  <2>3. Sleeping(y, t) /\ Left(y, t) = Rem(y, to, t) /\ Left(x, t) = Rem(x, at, t)
    BY <2>1, <2>2, SleepPlaces
  <2>4. Rem(y, to, t) = Rem(x, at, t)
    BY <2>2 DEF Rem
  <2> QED BY <2>3, <2>4
<1>2. ASSUME NEW t \in Task \ {x.cur}, Sleeping(y, t) PROVE Sleeping(x, t)
  <2>1. to[t] \in Asleep
    BY <1>2, SleepPlaces
  <2>2. at[t] \in Asleep
    BY <2>1
  <2> QED BY <2>2, SleepPlaces
<1> QED BY <1>1, <1>2 DEF Rests, Paused, Calm

(* One task changes its place.                                              *)
LEMMA OneRests ==
  ASSUME NEW x, NEW at, Sound(x, at), NEW y, NEW to, Sound(y, to), NEW S, y.tick = x.tick,
         Range(y.pending) \subseteq Range(x.pending), x.susp = 1 => y.cur = x.cur,
         NEW u \in Task, NEW place, to = [at EXCEPT ![u] = place],
         \A t \in Task \ {u} : at[t] \in Asleep => y.wake[t] = x.wake[t],
         u \in S \/ at[u] \notin Asleep, u = x.cur \/ place \notin Asleep
  PROVE  Rests(x, y, S)
<1>1. at \in [Task -> Places]
  BY DEF Sound, Shape, Listed
<1>2. \A t \in Task : to[t] = IF t = u THEN place ELSE at[t]
  BY <1>1
<1>3. \A t \in Task \ {x.cur} : to[t] \in Asleep => at[t] \in Asleep
  BY <1>2
<1>4. \A t \in Task \ S : at[t] \in Asleep => to[t] = at[t] /\ y.wake[t] = x.wake[t]
  BY <1>2
<1>5. /\ Sound(x, at) /\ Sound(y, to) /\ y.tick = x.tick
      /\ Range(y.pending) \subseteq Range(x.pending) /\ (x.susp = 1 => y.cur = x.cur)
  OBVIOUS
<1> QED BY ONLY <1>3, <1>4, <1>5, PlacesRest

(* Nobody changes his place.                                                *)
LEMMA StillRests ==
  ASSUME NEW x, NEW y, y.tick = x.tick, y.delayed = x.delayed, y.overflow = x.overflow, y.wake = x.wake,
         Range(y.pending) \subseteq Range(x.pending), x.susp = 1 => y.cur = x.cur, NEW S
  PROVE  Rests(x, y, S)
BY DEF Rests, Paused, Calm, Sleeping, Left

(* The calls that are one critical section wake who waits, nobody else.     *)
Waiters(x) == {t \in Task : x.ns[t] = "waiting"}
LEMMA SimpleRests ==
  ASSUME NEW x, NEW h, NEW m, NEW a, NEW at, KernelInv(x, h, m, a, at),
         h[x.cur].pc \in Simple \cup {"locked"}, NEW y, y = DoSimple(x, h[x.cur].c)
  PROVE  Rests(x, y, Waiters(x))
<1>1. /\ AppOK(a) /\ Sound(x, at) /\ Threads(h, m, a) /\ Heeds(x, h, at) /\ x.cur \in Task
      /\ at \in [Task -> Places] /\ x.susp \in Nat
  BY DEF KernelInv, Sound, Shape, KernelState, Listed
<1>2. PICK d : d = h[x.cur].c
  OBVIOUS
<1>3. d.op \in Simple
  BY <1>1, <1>2 DEF Threads, Thread, OpOf
<1>4. CallOK(a, x.cur, d) /\ d.u \in Task
  <2>1. d.op # "none"
    BY <1>3 DEF Simple
  <2> QED BY <1>1, <1>2, <2>1, InOwnCall
<1>5. d.u \in Staying(a) \cup {x.cur} /\ (d.op = "PrioritySet" => d.n \in Priority)
  BY <1>3, <1>4 DEF CallOK, Aimed
<1>6. x.ns[d.u] = "waiting" => at[d.u] \notin {"none", "dying"} /\ d.u \notin Range(x.pending)
  <2>1. h[x.cur].pc \notin AbortPc /\ h[x.cur].pc # "taken"
    BY DEF Simple, AbortPc
  <2>2. at[d.u] # "none" /\ (d.u # x.cur => at[d.u] # "dying")
    BY <1>5, <2>1, AimedAt
  <2>3. x.ns[d.u] = "waiting" => h[d.u].pc = "taken" /\ d.u \notin Range(x.pending)
    BY <1>1, <1>4 DEF Heeds
  <2> QED BY <2>1, <2>2, <2>3
<1>7. PICK to : Called(x, y, at, to)
  <2>1. y = DoSimple(x, d)
    BY <1>2
  <2> QED BY <1>1, <1>3, <1>4, <1>5, <1>6, <2>1, CallsSimply
<1>8. /\ Sound(y, to) /\ Moved(at, to) /\ Keeps(x, y, at, to) /\ Same(x, y, CallStep)
      /\ y.pending = x.pending /\ Leaves(x, at, to)
      /\ \A t \in Task : to[t] \in Asleep => y.wake[t] = x.wake[t]
  BY <1>7 DEF Called, Stepped
<1>9. y.tick = x.tick /\ y.susp = x.susp
  BY <1>8 DEF Same, Fields, CallStep, AnyTurn, Wakes, StateLinks, Turn
<1>10. x.susp = 1 => y.cur = x.cur
  BY <1>8, <1>9 DEF Keeps
<1>11. \A t \in Task \ {x.cur} : to[t] \in Asleep => at[t] \in Asleep
  BY <1>8 DEF Moved, Asleep
<1>12. \A t \in Task \ Waiters(x) : at[t] \in Asleep => to[t] = at[t] /\ y.wake[t] = x.wake[t]
  BY <1>8 DEF Leaves, Waiters
<1>13. Range(y.pending) \subseteq Range(x.pending)
  BY <1>8
<1> QED BY ONLY <1>1, <1>8, <1>9, <1>10, <1>11, <1>12, <1>13, PlacesRest

(* The current task goes to sleep, or waits for a notification.             *)
LEMMA DelayRests ==
  ASSUME NEW x, NEW h, NEW m, NEW a, NEW at, KernelInv(x, h, m, a, at), h[x.cur].pc \in {"delay", "delayuntil"},
         NEW n \in 1..MaxDelay, NEW y, y = prvAddCurrentTaskToDelayedList(x, n, FALSE), NEW S
  PROVE  Rests(x, y, S)
<1>1. h[x.cur].pc \in SuspPc \ {"resume"}
  BY DEF SuspPc
<1>2. /\ AppOK(a) /\ Sound(x, at) /\ x.cur \in Task /\ Threads(h, m, a) /\ Thread(h[x.cur], m, a.calls[x.cur])
      /\ at[x.cur] = "ready"
  BY <1>1, InLock
<1>3. x.cur # Idle
  <2>1. h[x.cur].c.op # "none"
    BY <1>2 DEF Thread, OpOf
  <2> QED BY <1>2, <2>1, InOwnCall
<1>4. PICK place : Slept(x, y, at, place, n, FALSE)
  BY <1>2, <1>3, Delayed
<1>5. PICK to : to = [at EXCEPT ![x.cur] = place]
  OBVIOUS
<1>6. /\ Sound(y, to) /\ Same(x, y, StateLinks \cup {"top", "unblock", "aborted"})
      /\ \A u \in Task \ {x.cur} : y.wake[u] = x.wake[u]
  BY <1>4, <1>5 DEF Slept
<1>7. y.cur = x.cur /\ y.tick = x.tick /\ y.pending = x.pending
  BY <1>6 DEF Same, Fields, StateLinks
<1>8. at[x.cur] \notin Asleep
  BY <1>2 DEF Asleep
<1> QED BY <1>2, <1>5, <1>6, <1>7, <1>8, OneRests

LEMMA WaitRests ==
  ASSUME NEW x, NEW h, NEW m, NEW a, NEW at, KernelInv(x, h, m, a, at), h[x.cur].pc = "NotifyTake",
         NEW n, n = h[x.cur].c.n, n # 0, NEW z, z = [x EXCEPT !.ns[x.cur] = "waiting"],
         NEW y, y = vTaskSwitchContext(prvAddCurrentTaskToDelayedList(z, n, TRUE)), NEW S
  PROVE  Rests(x, y, S)
<1>1. h[x.cur].pc \notin SuspPc
  BY DEF SuspPc
<1>2. /\ AppOK(a) /\ Sound(x, at) /\ x.cur \in Task /\ Threads(h, m, a) /\ Thread(h[x.cur], m, a.calls[x.cur])
      /\ x.susp = 0
  BY <1>1, OutOfLock
<1>3. at[x.cur] = "ready"
  BY CurrentReady
<1>4. x.cur # Idle /\ n \in 1..MaxDelay
  <2>1. h[x.cur].c.op = "NotifyTake"
    BY <1>2 DEF Thread, OpOf
  <2>2. x.cur # Idle /\ CallOK(a, x.cur, h[x.cur].c) /\ h[x.cur].c \in Call
    BY <1>2, <2>1, InOwnCall
  <2>3. n \in Nat /\ n <= MaxDelay
    BY <2>1, <2>2 DEF CallOK, Timed, Call
  <2> QED BY <2>2, <2>3, Numbers
<1>5. PICK place : Waiting(x, y, at, place, n)
  BY <1>2, <1>3, <1>4, WaitsForNotification
<1>6. PICK to : to = [at EXCEPT ![x.cur] = place]
  OBVIOUS
<1>7. /\ Sound(y, to) /\ Same(x, y, WaitStep)
      /\ \A u \in Task \ {x.cur} : y.wake[u] = x.wake[u]
  BY <1>5, <1>6 DEF Waiting
<1>8. y.tick = x.tick /\ y.pending = x.pending
  BY <1>7 DEF Same, Fields, WaitStep, StateLinks
<1>9. at[x.cur] \notin Asleep
  BY <1>3 DEF Asleep
<1>10. x.susp = 1 => y.cur = x.cur
  <2>1. PICK i : i = x.susp
    OBVIOUS
  <2>2. i # 1
    BY <1>2, <2>1
  <2> QED BY <2>1, <2>2
<1> QED BY ZenonT(30), <1>2, <1>6, <1>7, <1>8, <1>9, <1>10, OneRests

(* The target of a call is taken out of its list.                           *)
LEMMA SuspendRests ==
  ASSUME NEW x, NEW h, NEW m, NEW a, NEW at, KernelInv(x, h, m, a, at), h[x.cur].pc = "Suspend",
         NEW u, u = h[x.cur].c.u, NEW y, y = SuspendTask(x, u)
  PROVE  Rests(x, y, {u})
<1>1. h[x.cur].pc \notin SuspPc /\ h[x.cur].pc \notin AbortPc
  BY DEF SuspPc, AbortPc
<1>2. AppOK(a) /\ Sound(x, at) /\ x.cur \in Task /\ Threads(h, m, a) /\ Thread(h[x.cur], m, a.calls[x.cur])
  BY <1>1, OutOfLock
<1>3. u \in Staying(a) \cup {x.cur} /\ u # Idle
  <2>1. h[x.cur].c.op = "Suspend"
    BY <1>2 DEF Thread, OpOf
  <2>2. CallOK(a, x.cur, h[x.cur].c)
    BY <1>2, <2>1, InOwnCall
  <2> QED BY <2>1, <2>2 DEF CallOK, Aimed
<1>4. u \in Task \ {Idle} /\ at[u] # "dying"
  <2>1. u \in Task /\ at[u] # "none" /\ (u # x.cur => at[u] # "dying")
    BY <1>1, <1>3, AimedAt
  <2>2. at[x.cur] = "ready"
    BY CurrentReady
  <2> QED BY <1>3, <2>1, <2>2
<1>5. PICK to : Suspends(x, y, at, to, u)
  BY SMTT(30), <1>2, <1>4, SuspendedTask
<1>6. /\ Sound(y, to) /\ to = [at EXCEPT ![u] = "suspended"]
      /\ Same(x, y, StateLinks \cup {"top", "pending", "ns"})
      /\ Range(y.pending) \subseteq Range(x.pending)
      /\ \A t \in Task \ {u} : y.wake[t] = x.wake[t]
  BY <1>5 DEF Suspends
<1>7. y.cur = x.cur /\ y.tick = x.tick
  BY <1>6 DEF Same, Fields, StateLinks
<1>8. "suspended" \notin Asleep /\ u \in {u}
  BY DEF Asleep
<1> QED BY ONLY <1>2, <1>4, <1>6, <1>7, <1>8, OneRests

LEMMA AbortRests ==
  ASSUME NEW x, NEW h, NEW m, NEW a, NEW at, KernelInv(x, h, m, a, at), h[x.cur].pc = "abort",
         NEW u, u = h[x.cur].c.u, IsBlocked(x, u), NEW y, y = RemoveState(x, u)
  PROVE  Rests(x, y, {u})
<1>1. h[x.cur].pc \in SuspPc \ {"resume"}
  BY DEF SuspPc
<1>2. Sound(x, at) /\ h[x.cur] \in ThreadState
  BY <1>1, InLock
<1>3. u \in Task
  BY <1>2 DEF ThreadState, Call
<1>4. at[u] \in {"delayed", "overflow", "suspended"}
  BY <1>2, <1>3, BlockedPlace
<1>5. PICK to : TakenAway(x, y, at, to, u)
  BY SMTT(30), <1>2, <1>3, <1>4, TakesAway
<1>6. /\ Sound(y, to) /\ to = [at EXCEPT ![u] = "none"] /\ Same(x, y, StateLinks)
      /\ \A t \in Task \ {u} : y.wake[t] = x.wake[t]
  BY <1>5 DEF TakenAway
<1>7. y.cur = x.cur /\ y.tick = x.tick /\ y.pending = x.pending
  BY <1>6 DEF Same, Fields, StateLinks
<1>8. "none" \notin Asleep /\ u \in {u} /\ Range(y.pending) \subseteq Range(x.pending)
  BY <1>7 DEF Asleep
<1> QED BY ONLY <1>2, <1>3, <1>6, <1>7, <1>8, OneRests

LEMMA AbortedRests ==
  ASSUME NEW x, NEW h, NEW m, NEW a, NEW at, KernelInv(x, h, m, a, at), h[x.cur].pc = "abortready",
         NEW u, u = h[x.cur].c.u, NEW z, z = prvAddTaskToReadyList(x, u),
         NEW y, y = [z EXCEPT !.ypend = z.ypend \/ Above(x, u)], NEW S
  PROVE  Rests(x, y, S)
<1>1. h[x.cur].pc \in SuspPc \ {"resume"} /\ h[x.cur].pc \in AbortPc
  BY DEF SuspPc, AbortPc
<1>2. Sound(x, at)
  BY <1>1, InLock
<1>3. u \in Task /\ at[u] = "none"
  BY <1>1, TargetAborted
<1>4. PICK to : AbortEnds(x, y, at, to, u)
  BY SMTT(30), <1>2, <1>3, AbortedReady
<1>5. Sound(y, to) /\ to = [at EXCEPT ![u] = "ready"] /\ Same(x, y, {"top", "ready", "ypend"})
  BY ONLY <1>4 DEF AbortEnds
<1>6. y.cur = x.cur /\ y.tick = x.tick /\ y.pending = x.pending /\ y.wake = x.wake
  BY <1>5 DEF Same, Fields
<1>7. "ready" \notin Asleep /\ at[u] \notin Asleep
  BY <1>3 DEF Asleep
<1>8. /\ Range(y.pending) \subseteq Range(x.pending)
      /\ \A t \in Task \ {u} : y.wake[t] = x.wake[t]
  BY <1>6
<1> QED BY ONLY <1>2, <1>3, <1>5, <1>6, <1>7, <1>8, OneRests

(* A task is created, deleted or buried.                                    *)
LEMMA AddRests ==
  ASSUME NEW x, NEW h, NEW m, NEW a, NEW at, KernelInv(x, h, m, a, at), h[x.cur].pc = "createadd",
         NEW u, u = h[x.cur].c.u, NEW y, y = prvAddNewTaskToReadyList(x, u, h[x.cur].c.n), NEW S
  PROVE  Rests(x, y, S)
<1>1. h[x.cur].pc \notin SuspPc
  BY DEF SuspPc
<1>2. /\ AppOK(a) /\ Sound(x, at) /\ Situated(x, h, m, a, at) /\ x.cur \in Task /\ Threads(h, m, a)
      /\ Thread(h[x.cur], m, a.calls[x.cur])
  BY <1>1, OutOfLock
<1>3. u \in Task /\ h[x.cur].c.n \in Priority
  <2>1. h[x.cur].c.op = "Create"
    BY <1>2 DEF Thread, OpOf
  <2>2. CallOK(a, x.cur, h[x.cur].c) /\ h[x.cur].c.u \in Task
    BY <1>2, <2>1, InOwnCall
  <2> QED BY <2>1, <2>2 DEF CallOK
<1>4. at[u] = "none"
  <2>1. m[u] = <<>>
    BY <1>2 DEF Thread, Doing
  <2> QED BY <1>2, <1>3, <2>1 DEF Situated
<1>5. PICK to : AddsTask(x, y, at, to, u, h[x.cur].c.n)
  BY SMTT(30), <1>2, <1>3, <1>4, TaskAdded
<1>6. Sound(y, to) /\ to = [at EXCEPT ![u] = "ready"] /\ Same(x, y, NewFields \cup {"top", "ready"})
  BY ONLY <1>5 DEF AddsTask
<1>7. y.cur = x.cur /\ y.tick = x.tick /\ y.pending = x.pending /\ y.wake = x.wake
  BY <1>6 DEF Same, Fields, NewFields
<1>8. "ready" \notin Asleep /\ at[u] \notin Asleep
  BY <1>4 DEF Asleep
<1>9. /\ Range(y.pending) \subseteq Range(x.pending)
      /\ \A t \in Task \ {u} : y.wake[t] = x.wake[t]
  BY <1>7
<1> QED BY ONLY <1>2, <1>3, <1>6, <1>7, <1>8, <1>9, OneRests

LEMMA DeleteRests ==
  ASSUME NEW x, NEW h, NEW m, NEW a, NEW at, KernelInv(x, h, m, a, at), h[x.cur].pc = "Delete",
         NEW u, u = h[x.cur].c.u, ~Contains(x.dying, u), NEW y, y = DeleteTask(x, u)
  PROVE  Rests(x, y, {u})
<1>1. h[x.cur].pc \notin SuspPc
  BY DEF SuspPc
<1>2. /\ AppOK(a) /\ Sound(x, at) /\ x.cur \in Task /\ Threads(h, m, a)
      /\ Thread(h[x.cur], m, a.calls[x.cur])
  BY <1>1, OutOfLock
<1>3. u \in Task \ {Idle}
  <2>1. h[x.cur].c.op = "Delete"
    BY <1>2 DEF Thread, OpOf
  <2>2. CallOK(a, x.cur, h[x.cur].c) /\ h[x.cur].c.u \in Task
    BY <1>2, <2>1, InOwnCall
  <2> QED BY <2>1, <2>2 DEF CallOK
<1>4. at[u] # "dying"
  <2>1. x.dying \in Seq(Task) /\ InPlace(x.dying, at, "dying")
    BY <1>2 DEF Sound, Shape, KernelState, Listed
  <2>2. u \notin Range(x.dying)
    BY <2>1, ContainsIsRange
  <2> QED BY <1>3, <2>1, <2>2 DEF InPlace
<1>5. PICK to, place : /\ Sound(y, to) /\ to = [at EXCEPT ![u] = place] /\ place \notin Asleep
                       /\ y.cur = x.cur /\ y.tick = x.tick /\ Range(y.pending) \subseteq Range(x.pending)
                       /\ \A t \in Task \ {u} : y.wake[t] = x.wake[t]
  <2>1. CASE u = x.cur
    <3>1. y = DeleteTask(x, x.cur) /\ x.cur # Idle /\ at[x.cur] # "dying"
      BY <1>3, <1>4, <2>1
    <3>2. PICK to : Dies(x, y, at, to)
      BY <1>2, <3>1, DeletesItself
    <3>3. /\ Sound(y, to) /\ to = [at EXCEPT ![u] = "dying"]
          /\ Same(x, y, StateLinks \cup {"top", "pending", "ndying"})
          /\ Range(y.pending) \subseteq Range(x.pending) /\ \A t \in Task \ {u} : y.wake[t] = x.wake[t]
      BY <2>1, <3>2 DEF Dies
    <3>4. y.cur = x.cur /\ y.tick = x.tick
      BY <3>3 DEF Same, Fields, StateLinks
    <3>5. "dying" \notin Asleep
      BY SMTT(30) DEF Asleep
    <3> QED BY <3>3, <3>4, <3>5
  <2>2. CASE u # x.cur
    <3>1. PICK to : Deleted(x, y, at, to, u)
      BY <1>2, <1>3, <1>4, <2>2, DeletesOther
    <3>2. /\ Sound(y, to) /\ to = [at EXCEPT ![u] = "none"]
          /\ Same(x, y, StateLinks \cup {"top", "pending", "unblock", "ntasks"})
          /\ Range(y.pending) \subseteq Range(x.pending) /\ \A t \in Task \ {u} : y.wake[t] = x.wake[t]
      BY <3>1 DEF Deleted
    <3>3. y.cur = x.cur /\ y.tick = x.tick
      BY <3>2 DEF Same, Fields, StateLinks
    <3>4. "none" \notin Asleep
      BY DEF Asleep
    <3> QED BY <3>2, <3>3, <3>4
  <2> QED BY ONLY <2>1, <2>2
<1>6. u \in {u} /\ u \in Task
  BY <1>3
<1> QED BY ONLY <1>2, <1>5, <1>6, OneRests

LEMMA BuryRests ==
  ASSUME NEW x, NEW h, NEW m, NEW a, NEW at, KernelInv(x, h, m, a, at), h[x.cur].pc = "run",
         x.ndying > 0, NEW u, u = Head(x.dying), NEW y, Uncounted(x, u, y), NEW S
  PROVE  Rests(x, y, S)
<1>1. h[x.cur].pc \notin SuspPc
  BY DEF SuspPc
<1>2. Sound(x, at) /\ Tally(x, m)
  BY <1>1, OutOfLock
<1>3. x.dying # <<>>
  <2>1. x.dying = <<>> => Len(x.dying) = 0
    OBVIOUS
  <2>2. x.ndying = Len(x.dying)
    BY <1>2 DEF Tally
  <2>3. x.dying = <<>> => x.ndying = 0
    BY ONLY <2>1, <2>2
  <2> QED BY <2>3
<1>4. u \in Task /\ \E to : Buried(x, y, at, to, u)
  BY <1>2, <1>3, Buries DEF Uncounted
<1>5. PICK to : Buried(x, y, at, to, u)
  BY <1>4
<1>6. /\ Sound(y, to) /\ to = [at EXCEPT ![u] = "none"] /\ at[u] = "dying"
      /\ Same(x, y, StateLinks \cup {"ntasks", "ndying"})
      /\ \A t \in Task \ {u} : y.wake[t] = x.wake[t]
  BY <1>5 DEF Buried
<1>7. y.cur = x.cur /\ y.tick = x.tick /\ y.pending = x.pending
  BY <1>6 DEF Same, Fields, StateLinks
<1>8. "none" \notin Asleep /\ at[u] \notin Asleep /\ Range(y.pending) \subseteq Range(x.pending)
  BY <1>6, <1>7 DEF Asleep
<1> QED BY ONLY <1>2, <1>4, <1>6, <1>7, <1>8, OneRests

(* Who is to be woken by xTaskResumeAll sleeps for a notification if it     *)
(* sleeps, and the current task is among them only in xTaskResumeAll.       *)
Awaits(x, h) ==
  /\ \A t \in Range(x.pending) : Sleeping(x, t) => h[t].pc = "taken"
  /\ x.cur \in Range(x.pending) => h[x.cur].pc = "resume"

LEMMA NoneAwaited ==
  ASSUME NEW x, NEW h, x.pending = <<>>
  PROVE  Awaits(x, h)
<1>1. Range(x.pending) = {}
  BY DEF Range
<1> QED BY <1>1 DEF Awaits

LEMMA AwaitsCalm ==
  ASSUME NEW x, NEW h, NEW a, Locking(x, h, a), Awaits(x, h), x.pending \in Seq(Task), h[x.cur].pc # "resume",
         NEW y, Calm(x, y), NEW g, h[x.cur].pc \in SuspPc => \A t \in Task \ {x.cur} : g[t] = h[t]
  PROVE  Awaits(y, g)
<1>1. x.susp \in {0, 1} /\ (x.susp = 1 <=> h[x.cur].pc \in SuspPc) /\ (x.susp = 0 => x.pending = <<>>)
  BY DEF Locking
<1>2. /\ Range(y.pending) \subseteq Range(x.pending) /\ (x.susp = 1 => y.cur = x.cur)
      /\ \A t \in Task \ {x.cur} : Sleeping(y, t) => Sleeping(x, t)
  BY DEF Calm
<1>3. CASE x.susp = 0
  <2>1. Range(x.pending) = {}
    BY <1>1, <1>3 DEF Range
  <2> QED BY <1>2, <2>1 DEF Awaits
<1>4. CASE x.susp = 1
  <2>1. x.cur \notin Range(x.pending) /\ Range(x.pending) \subseteq Task
    BY RangeIn DEF Awaits
  <2>2. \A t \in Task \ {x.cur} : g[t] = h[t]
    BY <1>1, <1>4
  <2>3. \A t \in Range(x.pending) : Sleeping(x, t) => h[t].pc = "taken"
    BY DEF Awaits
  <2>4. y.cur \notin Range(y.pending) /\ \A t \in Range(y.pending) : t \in Range(x.pending) /\ t \in Task \ {x.cur}
    BY <1>2, <1>4, <2>1
  <2> QED BY <1>2, <2>2, <2>3, <2>4 DEF Awaits
<1> QED BY <1>1, <1>3, <1>4

(* Interrupts.                                                              *)
LEMMA AwaitsMore ==
  ASSUME NEW x, NEW at, Sound(x, at), NEW h, Awaits(x, h), NEW y, NEW to, Sound(y, to), NEW u, Moved(at, to),
         Range(y.pending) \subseteq Range(x.pending) \cup {u}, y.cur = x.cur,
         to[u] \in Asleep => h[u].pc = "taken", u = x.cur => h[u].pc = "resume"
  PROVE  Awaits(y, h)
<1>1. Range(y.pending) \subseteq Task
  BY RangeIn DEF Sound, Shape, KernelState
<1>2. ASSUME NEW t \in Range(y.pending), Sleeping(y, t) PROVE h[t].pc = "taken"
  <2>1. t \in Task /\ to[t] \in Asleep
    BY <1>1, <1>2, SleepPlaces
  <2>2. at[t] \in Asleep
    BY <2>1 DEF Moved, Asleep
  <2>3. Sleeping(x, t)
    BY <2>1, <2>2, SleepPlaces
  <2> QED BY <1>2, <2>1, <2>3 DEF Awaits
<1> QED BY <1>2 DEF Awaits

LEMMA IsrRests ==
  ASSUME NEW x, NEW h, NEW m, NEW a, NEW at, KernelInv(x, h, m, a, at), Awaits(x, h), NEW i \in a.isr, NEW y,
         \/ i.op = "Resume" /\ y = xTaskResumeFromISR(x, i.u)
         \/ i.op = "Notify" /\ y = xTaskGenericNotifyFromISR(x, i.u)
  PROVE  Paused(x, y, Waiters(x)) /\ Awaits(y, h)
<1>1. PICK u : u = i.u
  OBVIOUS
<1>2. /\ AppOK(a) /\ Sound(x, at) /\ Heeds(x, h, at) /\ Threads(h, m, a) /\ Locking(x, h, a) /\ OnTurn(x, h, at)
      /\ x.pending \in Seq(Task) /\ x.susp \in {0, 1} /\ (x.susp = 0 => x.pending = <<>>)
      /\ (x.susp = 1 <=> h[x.cur].pc \in SuspPc) /\ at \in [Task -> Places] /\ x.cur \in Task
  BY DEF KernelInv, Sound, Shape, KernelState, Locking, Listed
<1>3. u \in Staying(a)
  BY <1>1, <1>2 DEF AppOK, IsrOK
<1>4. /\ u \in Task /\ (x.ns[u] = "waiting" => u \notin Range(x.pending))
      /\ x.susp = 0 => at[u] \notin {"none", "dying"}
  BY <1>3, WaiterPlace
<1>5. ASSUME NEW to, Sound(y, to), Moved(at, to), Leaves(x, at, to), y.tick = x.tick,
             \A t \in Task : to[t] \in Asleep => y.wake[t] = x.wake[t]
      PROVE  Paused(x, y, Waiters(x))
  <2>1. \A t \in Task \ Waiters(x) : at[t] \in Asleep => to[t] = at[t] /\ y.wake[t] = x.wake[t]
    BY <1>5 DEF Leaves, Waiters
  <2>2. ASSUME NEW t \in Task \ Waiters(x), Sleeping(x, t) PROVE Sleeping(y, t) /\ Left(y, t) = Left(x, t)
    <3>1. at[t] \in Asleep
      BY <1>2, <2>2, SleepPlaces
    <3>2. to[t] = at[t] /\ y.wake[t] = x.wake[t]
      BY <2>1, <3>1
    <3>3. Sleeping(y, t) /\ Left(y, t) = Rem(y, to, t) /\ Left(x, t) = Rem(x, at, t)
      BY <1>2, <1>5, <3>1, <3>2, SleepPlaces
    <3> QED BY <1>5, <3>2, <3>3 DEF Rem
  <2> QED BY <1>5, <2>2 DEF Paused
<1>6. ASSUME NEW to, Sound(y, to), Moved(at, to), Keeps(x, y, at, to),
             x.susp = 0 => y.pending = x.pending,
             Range(y.pending) \subseteq Range(x.pending) \cup {u} \/ y.pending = x.pending,
             x.susp = 1 /\ to[u] \in Asleep => h[u].pc = "taken", x.susp = 1 /\ u = x.cur => h[u].pc = "resume"
      PROVE  Awaits(y, h)
  <2>1. CASE x.susp = 0
    <3>1. y.pending = <<>>
      BY <1>2, <1>6, <2>1
    <3> QED BY <3>1, NoneAwaited
  <2>2. CASE x.susp = 1
    <3>1. y.cur = x.cur
      <4>1. PICK n : n = y.susp
        OBVIOUS
      <4>2. n # 0
        BY <1>6, <2>2, <4>1 DEF Keeps
      <4> QED BY <1>6, <4>1, <4>2 DEF Keeps
    <3>2. /\ Range(y.pending) \subseteq Range(x.pending) \cup {u}
          /\ to[u] \in Asleep => h[u].pc = "taken"
          /\ u = x.cur => h[u].pc = "resume"
      BY <1>6, <2>2
    <3> QED BY ONLY <1>2, <1>6, <3>1, <3>2, Awaits(x, h), AwaitsMore
  <2> QED BY <1>2, <2>1, <2>2
<1>7. ASSUME x.susp = 1, u = x.cur, at[u] # "ready" PROVE h[u].pc = "resume"
  BY <1>2, <1>7 DEF OnTurn
<1>8. CASE i.op = "Resume" /\ y = xTaskResumeFromISR(x, i.u)
  <2>1. CASE y = x
    BY <2>1 DEF Paused
  <2>2. CASE y # x
    <3>1. at[u] = "suspended" /\ u \notin Range(x.pending) /\ \E to : IsrWakes(x, y, at, to, u, AnyTurn)
      BY <1>1, <1>2, <1>4, <1>8, <2>2, ResumesFromIsr
    <3>2. PICK to : IsrWakes(x, y, at, to, u, AnyTurn)
      BY <3>1
    <3>3. /\ Sound(y, to) /\ Moved(at, to) /\ Keeps(x, y, at, to) /\ Same(x, y, AnyTurn)
          /\ \A t \in Task : to[t] \in Asleep => y.wake[t] = x.wake[t]
          /\ x.susp = 0 => y.pending = x.pending /\ to = [at EXCEPT ![u] = "ready"]
          /\ x.susp > 0 => y.pending = Append(x.pending, u) /\ to = at
      BY <3>2 DEF IsrWakes, Stepped
    <3>4. y.tick = x.tick
      BY <3>3 DEF Same, Fields, AnyTurn, Wakes, StateLinks, Turn
    <3>5. x.susp = 0 \/ x.susp > 0
      BY <1>2
    <3>6. Leaves(x, at, to)
      BY <1>2, <1>4, <3>1, <3>3, <3>5 DEF Leaves, Asleep
    <3>7. Paused(x, y, Waiters(x))
      BY ONLY <1>5, <3>3, <3>4, <3>6
    <3>8. x.susp = 1 => to = at /\ Range(y.pending) \subseteq Range(x.pending) \cup {u}
      <4>1. SUFFICES ASSUME x.susp = 1 PROVE to = at /\ Range(y.pending) \subseteq Range(x.pending) \cup {u}
        OBVIOUS
      <4>2. y.pending = Append(x.pending, u) /\ to = at
        BY <3>3, <4>1
      <4> QED BY <1>2, <1>4, <4>2 DEF Range
    <3>9. x.susp = 1 => to[u] \notin Asleep
      BY <3>1, <3>8 DEF Asleep
    <3>10. x.susp = 1 /\ u = x.cur => h[u].pc = "resume"
      BY <1>7, <3>1
    <3>11. Range(y.pending) \subseteq Range(x.pending) \cup {u} \/ y.pending = x.pending
      BY <1>2, <3>3, <3>8
    <3>12. Awaits(y, h)
      BY ONLY <1>6, <3>3, <3>9, <3>10, <3>11
    <3> QED BY <3>7, <3>12
  <2>3. Awaits(x, h)
    OBVIOUS
  <2>4. y = x => Awaits(y, h)
    BY <2>3
  <2> QED BY <2>1, <2>2, <2>4
<1>9. CASE i.op = "Notify" /\ y = xTaskGenericNotifyFromISR(x, i.u)
  <2>1. PICK to : ToldFromIsr(x, y, at, to, u)
    BY <1>1, <1>2, <1>4, <1>9, NotifiesFromIsr
  <2>2. /\ Sound(y, to) /\ Moved(at, to) /\ Keeps(x, y, at, to) /\ Same(x, y, AnyTurn \cup {"ns", "nv"})
        /\ \A t \in Task : to[t] \in Asleep => y.wake[t] = x.wake[t]
        /\ IF x.ns[u] = "waiting" /\ x.susp > 0 THEN y.pending = Append(x.pending, u)
                                                ELSE y.pending = x.pending
        /\ Leaves(x, at, to)
    BY <2>1 DEF ToldFromIsr, Stepped
  <2>3. y.tick = x.tick
    BY <2>2 DEF Same, Fields, AnyTurn, Wakes, StateLinks, Turn
  <2>4. Paused(x, y, Waiters(x))
    BY ONLY <1>5, <2>2, <2>3
  <2>5. x.susp = 0 => y.pending = x.pending
    BY <2>2
  <2>6. CASE x.ns[u] = "waiting"
    <3>1. h[u].pc = "taken"
      BY <1>2, <1>4, <2>6 DEF Heeds
    <3>2. Range(y.pending) \subseteq Range(x.pending) \cup {u} \/ y.pending = x.pending
      <4>1. y.pending = Append(x.pending, u) => Range(y.pending) \subseteq Range(x.pending) \cup {u}
        BY <1>2, <1>4 DEF Range
      <4> QED BY <2>2, <4>1
    <3>3. x.susp = 1 /\ u = x.cur => FALSE
      BY <1>2, <3>1 DEF SuspPc
    <3>4. Awaits(y, h)
      BY ONLY <1>6, <2>2, <2>5, <3>1, <3>2, <3>3
    <3> QED BY <2>4, <3>4
  <2>7. CASE x.ns[u] # "waiting"
    <3>1. y.pending = x.pending
      BY <2>2, <2>7
    <3>2. Awaits(y, h)
      <4>1. CASE x.susp = 0
        BY <1>2, <3>1, <4>1, NoneAwaited
      <4>2. CASE x.susp = 1
        <5>1. y.cur = x.cur
          <6>1. PICK n : n = y.susp
            OBVIOUS
          <6>2. n # 0
            BY <2>2, <4>2, <6>1 DEF Keeps
          <6> QED BY <2>2, <6>1, <6>2 DEF Keeps
        <5>2. ASSUME NEW t \in Range(y.pending), Sleeping(y, t) PROVE h[t].pc = "taken"
          <6>1. t \in Task /\ to[t] \in Asleep
            BY <1>2, <2>2, <3>1, <5>2, RangeIn, SleepPlaces
          <6>2. at[t] \in Asleep
            BY <2>2, <6>1 DEF Moved, Asleep
          <6>3. Sleeping(x, t)
            BY <1>2, <6>1, <6>2, SleepPlaces
          <6> QED BY <3>1, <5>2, <6>3 DEF Awaits
        <5> QED BY <3>1, <5>1, <5>2 DEF Awaits
      <4> QED BY <1>2, <4>1, <4>2
    <3> QED BY <2>4, <3>2
  <2> QED BY <2>6, <2>7
<1> QED BY <1>8, <1>9

(* Ticks are counted: those that are due wake, the others sleep on for as   *)
(* many ticks less.                                                         *)
SleepsLess(x, y, t, n) ==
  IF Left(x, t) > n THEN Sleeping(y, t) /\ Left(y, t) = Left(x, t) - n ELSE ~Sleeping(y, t)

LEMMA SleepElapses ==
  ASSUME NEW x, NEW at, Sound(x, at), NEW y, NEW to, Sound(y, to), NEW n, Elapsed(x, y, at, to, n),
         NEW t \in Task \ Range(x.pending), Sleeping(x, t)
  PROVE  SleepsLess(x, y, t, n)
<1>1. at[t] \in Asleep /\ Left(x, t) = Rem(x, at, t)
  BY SleepPlaces
<1>2. IF Rem(x, at, t) > n THEN to[t] \in Asleep /\ Rem(y, to, t) = Rem(x, at, t) - n ELSE to[t] = "ready"
  BY <1>1 DEF Elapsed
<1>3. (Sleeping(y, t) <=> to[t] \in Asleep) /\ Left(y, t) = Rem(y, to, t)
  BY SleepPlaces
<1>4. "ready" \notin Asleep
  BY DEF Asleep
<1> QED BY <1>1, <1>2, <1>3, <1>4 DEF SleepsLess

LEMMA TickElapses ==
  ASSUME NEW x, NEW h, NEW m, NEW a, NEW at, KernelInv(x, h, m, a, at), Awaits(x, h),
         NEW y, y = TickInterrupt(x)
  PROVE  /\ Awaits(y, h)
         /\ \/ Paused(x, y, {})
            \/ /\ y.tick = (x.tick + 1) % TickMod
               /\ \A t \in Task : Sleeping(x, t) => SleepsLess(x, y, t, 1)
<1>1. /\ Sound(x, at) /\ x.susp \in {0, 1} /\ (x.susp = 0 => x.pending = <<>>) /\ x \in KernelState
      /\ x.pended \in Nat
  BY DEF KernelInv, Locking, Sound, Shape, KernelState
<1>2. PICK to :
        /\ Stepped(x, y, at, to, TickStep)
        /\ Range(y.pending) \subseteq Range(x.pending)
        /\ x.pending = <<>> => y.pending = <<>>
        /\ x.susp = 0 => y.pended = x.pended /\ Elapsed(x, y, at, to, 1)
        /\ x.susp > 0 => to = at /\ y = [x EXCEPT !.pended = x.pended + 1]
  BY <1>1, TickTaken
<1>3. CASE x.susp = 0
  <2>1. Awaits(y, h)
    BY <1>1, <1>2, <1>3, NoneAwaited
  <2>2. Elapsed(x, y, at, to, 1) /\ Sound(y, to)
    BY <1>2, <1>3 DEF Stepped
  <2>3. Range(x.pending) = {}
    BY <1>1, <1>3 DEF Range
  <2>4. ASSUME NEW t \in Task, Sleeping(x, t) PROVE SleepsLess(x, y, t, 1)
    <3>1. t \in Task \ Range(x.pending)
      BY <2>3
    <3> QED BY <1>1, <2>2, <2>4, <3>1, SleepElapses
  <2>5. y.tick = (x.tick + 1) % TickMod
    BY <2>2 DEF Elapsed
  <2> QED BY <2>1, <2>4, <2>5
<1>4. CASE x.susp = 1
  <2>1. y = [x EXCEPT !.pended = x.pended + 1]
    BY <1>2, <1>4
  <2>2. /\ y.tick = x.tick /\ y.delayed = x.delayed /\ y.overflow = x.overflow /\ y.wake = x.wake
        /\ y.pending = x.pending /\ y.cur = x.cur
    BY <1>1, <2>1 DEF KernelState
  <2>3. Awaits(y, h)
    BY <2>2 DEF Awaits, Sleeping
  <2>4. Paused(x, y, {})
    BY <2>2 DEF Paused, Sleeping, Left
  <2> QED BY <2>3, <2>4
<1> QED BY <1>1, <1>3, <1>4

LEMMA ResumeElapses ==
  ASSUME NEW x, NEW h, NEW m, NEW a, NEW at, KernelInv(x, h, m, a, at), Awaits(x, h), h[x.cur].pc = "resume",
         NEW r, r = xTaskResumeAll(x), NEW y, y = r.k
  PROVE  /\ y.pending = <<>> /\ y.tick = (x.tick + x.pended) % TickMod /\ x.pended \in 0..MaxDelay
         /\ \A t \in Task : Sleeping(x, t) /\ h[t].pc # "taken" => SleepsLess(x, y, t, x.pended)
<1>1. /\ AppOK(a) /\ Sound(x, at) /\ Situated(x, h, m, a, at) /\ Locking(x, h, a) /\ OnTurn(x, h, at)
      /\ x.pended \in Nat
  BY DEF KernelInv, Sound, Shape, KernelState
<1>2. x.susp = 1 /\ Owed(x, at)
  BY <1>1 DEF Locking, OnTurn, SuspPc
<1>3. \A t \in Range(x.pending) : at[t] \notin {"none", "dying"}
  <2>1. Range(x.pending) \subseteq Staying(a) /\ \A t \in Staying(a) : t \in Task /\ t \notin Passing(a)
    BY <1>1, StayingTasks DEF Locking
  <2>2. \A t \in Task : ~Abandoned(h, t)
    <3>1. h[x.cur].pc \notin AbortPc
      BY DEF AbortPc
    <3> QED BY <1>1, <3>1, NobodyAborts
  <2> QED BY <1>1, <2>1, <2>2 DEF Situated
<1>4. PICK to : Resumed(x, y, r.yielded, at, to)
  <2>1. \E to : Resumed(x, r.k, r.yielded, at, to)
    BY <1>1, <1>2, <1>3, SchedulerResumed
  <2> QED BY <2>1
<1>5. Sound(y, to) /\ Elapsed(x, y, at, to, x.pended) /\ y.pending = <<>>
  BY <1>4 DEF Resumed
<1>6. y.tick = (x.tick + x.pended) % TickMod
  BY <1>5 DEF Elapsed
<1>7. x.pended \in 0..MaxDelay
  <2>1. PICK n \in Nat : n = x.pended /\ n <= 2 * MaxPended
    BY <1>1, PendedBound
  <2>2. 2 * MaxPended < TickMod /\ MaxPended \in Nat
    BY AppAssumption
  <2>3. n \in 0..MaxDelay
    BY <2>1, <2>2, Numbers
  <2> QED BY <2>1, <2>3
<1>8. ASSUME NEW t \in Task, Sleeping(x, t), h[t].pc # "taken" PROVE SleepsLess(x, y, t, x.pended)
  <2>1. t \in Task \ Range(x.pending)
    BY <1>8 DEF Awaits
  <2> QED BY <1>1, <1>5, <1>8, <2>1, SleepElapses
<1> QED BY <1>5, <1>6, <1>7, <1>8

(* The property of one sleeper.                                             *)
OnTime(t) ==
  IF Left(k, t) > Passed THEN Sleeping(k', t) /\ Left(k', t) = Left(k, t) - Passed
  ELSE ~Sleeping(k', t)

LEMMA PassedTicks ==
  ASSUME NEW i \in 0..MaxDelay, NEW n \in 0..MaxDelay
  PROVE  (((i + n) % TickMod) - i) % TickMod = n
<1>1. PICK b \in Nat \ {0, 1} : b = TickMod
  BY Numbers
<1>2. MaxDelay = b - 1
  BY <1>1, Numbers
<1>3. CASE i + n < b
  <2>1. (i + n) % b = i + n
    BY <1>1, <1>2, <1>3
  <2>2. n % b = n
    BY <1>1, <1>2
  <2> QED BY <1>1, <2>1, <2>2
<1>4. CASE ~(i + n < b)
  <2>1. (i + n) % b = i + n - b
    BY <1>1, <1>2, <1>4
  <2>2. (n - b) % b = n
    BY <1>1, <1>2
  <2>3. ((i + n) % b) - i = n - b
    BY <1>1, <1>2, <2>1
  <2> QED BY <1>1, <2>2, <2>3
<1> QED BY <1>3, <1>4

LEMMA TimePasses ==
  ASSUME NEW at, Safe(at), NEW n \in 0..MaxDelay, k'.tick = (k.tick + n) % TickMod,
         NEW t \in Task, SleepsLess(k, k', t, n)
  PROVE  OnTime(t)
<1>1. k.tick \in 0..MaxDelay
  BY Parts DEF KernelState
<1>2. PICK i \in 0..MaxDelay : i = k.tick
  BY <1>1
<1>3. Passed = n
  <2>1. Passed = (((i + n) % TickMod) - i) % TickMod
    BY <1>2 DEF Passed
  <2> QED BY <2>1, PassedTicks
<1> QED BY <1>3 DEF OnTime, SleepsLess

LEMMA TimeStops ==
  ASSUME NEW at, Safe(at), NEW S, Paused(k, k', S), NEW t \in Task \ S, Sleeping(k, t)
  PROVE  OnTime(t)
<1>1. k.tick \in 0..MaxDelay /\ Sound(k, at)
  BY Parts DEF KernelState, Safe, KernelInv
<1>2. Left(k, t) \in Nat \ {0}
  BY <1>1, SleepPlaces
<1>3. Sleeping(k', t) /\ Left(k', t) = Left(k, t) /\ k'.tick = k.tick
  BY DEF Paused
<1>4. PICK i \in 0..MaxDelay : i = k.tick
  BY <1>1
<1>5. Passed = 0
  <2>1. Passed = (i - i) % TickMod
    BY <1>3, <1>4 DEF Passed
  <2>2. 0 % TickMod = 0
    BY Numbers
  <2> QED BY <1>4, <2>1, <2>2
<1>6. PICK l \in Nat \ {0} : l = Left(k, t)
  BY <1>2
<1> QED BY <1>3, <1>5, <1>6 DEF OnTime

(* The steps of the module that take no time.                               *)
LEMMA RestsMore ==
  ASSUME NEW x, NEW y, NEW S, Rests(x, y, S), NEW T, S \subseteq T
  PROVE  Rests(x, y, T)
BY DEF Rests, Paused

LEMMA StillSteps ==
  ASSUME NEW x \in KernelState, NEW y, NEW i, NEW j,
         \/ y = x
         \/ y = vTaskSuspendAll(x)
         \/ y = prvResetNextTaskUnblockTime(x)
         \/ y = [x EXCEPT !.nv = i, !.ns = j]
         \/ y = [x EXCEPT !.ns = j]
         \/ y = [x EXCEPT !.pended = i],
         NEW S
  PROVE  Rests(x, y, S)
<1>1. /\ y.tick = x.tick /\ y.delayed = x.delayed /\ y.overflow = x.overflow /\ y.wake = x.wake
      /\ y.pending = x.pending /\ y.cur = x.cur
  BY ZenonT(30) DEF KernelState, vTaskSuspendAll, prvResetNextTaskUnblockTime
<1> QED BY <1>1, StillRests

LEMMA SwitchRests ==
  ASSUME NEW x \in KernelState, NEW b \in BOOLEAN, NEW y, y = YieldIf(x, b), NEW S
  PROVE  Rests(x, y, S)
<1>1. /\ y.tick = x.tick /\ y.delayed = x.delayed /\ y.overflow = x.overflow /\ y.wake = x.wake
      /\ y.pending = x.pending
  BY DEF KernelState, YieldIf, vTaskSwitchContext, Halt
<1>2. x.susp = 1 => y.cur = x.cur
  BY DEF KernelState, YieldIf, vTaskSwitchContext, Halt
<1> QED BY <1>1, <1>2, StillRests

(* Whom a step may wake, or take out of its list.                           *)
Disturbed ==
  Waiters(k) \cup {u \in Task : th[k.cur].pc \in {"Suspend", "abort", "Delete"} /\ u = th[k.cur].c.u}

LEMMA QuietRests ==
  ASSUME NEW at, Safe(at),
         Begin \/ Lock \/ DelayUntil \/ CatchUpTicks \/ AbortDelay \/ Delay \/ NotDeleted \/ FreeMark \/ FreeRelease
           \/ CreateStack \/ CreateTcb \/ Suspended \/ NotifyTaken \/ CatchUpAdd \/ Yield \/ Created
  PROVE  Rests(k, k', Disturbed)
<1>1. k \in KernelState
  BY Parts
<1>2. CASE Begin \/ NotDeleted \/ FreeMark
  <2>1. k' = k
    BY <1>2 DEF Begin, BeginCall, NotDeleted, FreeMark
  <2> QED BY <1>1, <2>1, StillSteps
<1>3. CASE Lock \/ DelayUntil \/ CatchUpTicks \/ AbortDelay \/ FreeRelease \/ CreateStack \/ CreateTcb
  <2>1. k' = vTaskSuspendAll(k)
    BY <1>3 DEF Lock, DelayUntil, CatchUpTicks, AbortDelay, FreeRelease, CreateStack, CreateTcb, Malloc, Kernel
  <2> QED BY <1>1, <2>1, StillSteps
<1>4. CASE Delay
  <2>1. th[k.cur].pc = "Delay"
    BY <1>4 DEF Delay, At, me
  <2>2. k.susp = 0
    <3>1. th[k.cur].pc \notin SuspPc
      BY <2>1 DEF SuspPc
    <3> QED BY <3>1, OutOfLock DEF Safe
  <2>3. k' = k \/ k' = vTaskSuspendAll(k)
    BY <1>4, <2>2 DEF Delay, ConfigAssert, Kernel
  <2> QED BY <1>1, <2>3, StillSteps
<1>5. CASE Suspended
  <2>1. k' = prvResetNextTaskUnblockTime(k)
    BY <1>5 DEF Suspended, Kernel
  <2> QED BY <1>1, <2>1, StillSteps
<1>6. CASE NotifyTaken
  <2>1. \E i, j : k' = [k EXCEPT !.nv = i, !.ns = j]
    BY <1>6 DEF NotifyTaken, Kernel
  <2> QED BY <1>1, <2>1, StillSteps
<1>7. CASE CatchUpAdd
  <2>1. \E i : k' = [k EXCEPT !.pended = i]
    BY <1>7 DEF CatchUpAdd, Kernel
  <2> QED BY <1>1, <2>1, StillSteps
<1>8. CASE Yield \/ Created
  <2>1. \E b \in BOOLEAN : k' = YieldIf(k, b)
    <3>1. CASE Yield
      <4>1. k' = vTaskSwitchContext(k)
        BY <3>1 DEF Yield, Kernel
      <4>2. k' = YieldIf(k, TRUE)
        BY <4>1 DEF YieldIf
      <4> QED BY <4>2
    <3>2. CASE Created
      <4>1. PICK b : b = Above(k, c.u)
        OBVIOUS
      <4>2. b \in BOOLEAN
        BY <4>1 DEF Above
      <4>3. k' = YieldIf(k, b) \/ \E d \in BOOLEAN : k' = YieldIf(k, d)
        BY <3>2, <4>1 DEF Created, Kernel
      <4> QED BY <4>2, <4>3
    <3> QED BY <1>8, <3>1, <3>2
  <2> QED BY <1>1, <2>1, SwitchRests
<1> QED BY <1>2, <1>3, <1>4, <1>5, <1>6, <1>7, <1>8

LEMMA CallRests ==
  ASSUME NEW at, Safe(at), SimpleCall \/ Locked \/ DelayAdd \/ DelayUntilAdd \/ NotifyTake
  PROVE  Rests(k, k', Disturbed)
<1>1. k \in KernelState /\ KernelInv(k, th, mem, app, at) /\ Threads(th, mem, app) /\ k.cur \in Task /\ AppOK(app)
  BY Parts DEF Safe
<1>2. Waiters(k) \subseteq Disturbed
  BY DEF Disturbed
<1>3. CASE SimpleCall \/ Locked
  <2>1. th[k.cur].pc \in Simple \cup {"locked"} /\ k' = DoSimple(k, th[k.cur].c)
    BY <1>3 DEF SimpleCall, Locked, At, me, c, Kernel
  <2>2. Rests(k, k', Waiters(k))
    BY ONLY <1>1, <2>1, SimpleRests
  <2> QED BY ONLY <1>2, <2>2, RestsMore
<1>4. CASE DelayAdd
  <2>1. th[k.cur].pc = "delay" /\ k' = prvAddCurrentTaskToDelayedList(k, th[k.cur].c.n, FALSE)
    BY <1>4 DEF DelayAdd, At, me, c, Kernel
  <2>2. th[k.cur].c.n \in 1..MaxDelay
    <3>1. th[k.cur].c.op = "Delay" /\ th[k.cur].c.n # 0
      BY <1>1, <2>1 DEF Threads, Thread, OpOf
    <3>2. CallOK(app, k.cur, th[k.cur].c) /\ th[k.cur].c \in Call
      BY <1>1, <3>1, InOwnCall
    <3>3. th[k.cur].c.n \in Nat /\ th[k.cur].c.n <= MaxDelay
      BY <3>1, <3>2 DEF CallOK, Timed, Call
    <3> QED BY <3>1, <3>3, Numbers
  <2>3. th[k.cur].pc \in {"delay", "delayuntil"}
    BY <2>1
  <2> QED BY ONLY <1>1, <2>1, <2>2, <2>3, DelayRests
<1>5. CASE DelayUntilAdd
  <2>1. PICK wake : wake = (th[k.cur].prev + th[k.cur].c.n) % TickMod
    OBVIOUS
  <2>2. /\ th[k.cur].pc = "delayuntil"
        /\ k' = IF WakesLater(k.tick, th[k.cur].prev, wake)
                THEN prvAddCurrentTaskToDelayedList(k, (wake - k.tick) % TickMod, FALSE) ELSE k
    BY <1>5, <2>1 DEF DelayUntilAdd, At, me, c, Kernel
  <2>3. th[k.cur].prev \in 0..MaxDelay /\ th[k.cur].c.n \in Nat /\ k.tick \in 0..MaxDelay
    BY <1>1 DEF Threads, ThreadState, Call, KernelState
  <2>4. CASE ~WakesLater(k.tick, th[k.cur].prev, wake)
    <3>1. k' = k
      BY <2>2, <2>4
    <3> QED BY <1>1, <3>1, StillSteps
  <2>5. CASE WakesLater(k.tick, th[k.cur].prev, wake)
    <3>1. wake \in 0..MaxDelay
      BY <2>1, <2>3, Numbers
    <3>2. (wake - k.tick) % TickMod \in 1..MaxDelay
      BY <2>3, <2>5, <3>1, LaterTicks
    <3>3. PICK n : n = (wake - k.tick) % TickMod
      OBVIOUS
    <3>4. /\ th[k.cur].pc \in {"delay", "delayuntil"} /\ n \in 1..MaxDelay
          /\ k' = prvAddCurrentTaskToDelayedList(k, n, FALSE)
      BY <2>2, <2>5, <3>2, <3>3
    <3> QED BY ONLY <1>1, <3>4, DelayRests
  <2> QED BY <2>4, <2>5
<1>6. CASE NotifyTake
  <2>1. PICK z : z = [k EXCEPT !.ns[k.cur] = "waiting"]
    OBVIOUS
  <2>2. PICK n : n = th[k.cur].c.n
    OBVIOUS
  <2>3. /\ th[k.cur].pc = "NotifyTake"
        /\ k' = IF k.nv[k.cur] > 0 THEN k ELSE IF n = 0 THEN z
                ELSE vTaskSwitchContext(prvAddCurrentTaskToDelayedList(z, n, TRUE))
    BY <1>6, <2>1, <2>2 DEF NotifyTake, At, me, c, Kernel
  <2>4. CASE k' = k \/ k' = z
    <3>1. k' = k \/ \E j : k' = [k EXCEPT !.ns = j]
      BY <2>1, <2>4
    <3> QED BY <1>1, <3>1, StillSteps
  <2>5. CASE ~(k' = k \/ k' = z)
    <3>1. n # 0 /\ k' = vTaskSwitchContext(prvAddCurrentTaskToDelayedList(z, n, TRUE))
      BY <2>3, <2>5
    <3> QED BY ONLY <1>1, <2>1, <2>2, <2>3, <3>1, WaitRests
  <2> QED BY <2>4, <2>5
<1> QED BY <1>3, <1>4, <1>5, <1>6

LEMMA TargetRests ==
  ASSUME NEW at, Safe(at), Suspend \/ AbortIfBlocked \/ AbortEvent \/ AbortReady
  PROVE  Rests(k, k', Disturbed)
<1>1. k \in KernelState /\ KernelInv(k, th, mem, app, at) /\ th \in [Task -> ThreadState] /\ k.cur \in Task
  BY Parts DEF Safe, Threads
<1>2. PICK u \in Task : u = th[k.cur].c.u
  BY <1>1 DEF ThreadState, Call
<1>3. th[k.cur].pc \in {"Suspend", "abort", "Delete"} => {u} \subseteq Disturbed
  BY <1>2 DEF Disturbed
<1>4. CASE Suspend
  <2>1. th[k.cur].pc = "Suspend" /\ k' = SuspendTask(k, u)
    BY <1>2, <1>4 DEF Suspend, At, me, c, Kernel
  <2>2. Rests(k, k', {u})
    BY ONLY <1>1, <1>2, <2>1, SuspendRests
  <2>3. {u} \subseteq Disturbed
    BY <1>3, <2>1
  <2> QED BY ONLY <2>2, <2>3, RestsMore
<1>5. CASE AbortIfBlocked
  <2>1. th[k.cur].pc = "abort" /\ k' = IF IsBlocked(k, u) THEN RemoveState(k, u) ELSE k
    BY <1>2, <1>5 DEF AbortIfBlocked, At, me, c, Kernel
  <2>2. CASE IsBlocked(k, u)
    <3>1. k' = RemoveState(k, u)
      BY <2>1, <2>2
    <3>2. Rests(k, k', {u})
      BY ONLY <1>1, <1>2, <2>1, <2>2, <3>1, AbortRests
    <3>3. {u} \subseteq Disturbed
      BY <1>3, <2>1
    <3> QED BY ONLY <3>2, <3>3, RestsMore
  <2>3. CASE ~IsBlocked(k, u)
    <3>1. k' = k
      BY <2>1, <2>3
    <3> QED BY <1>1, <3>1, StillSteps
  <2> QED BY <2>2, <2>3
<1>6. CASE AbortEvent
  <2>1. k' = IF EventFree(k, u) THEN k ELSE [RemoveEvent(k, u) EXCEPT !.aborted[u] = TRUE]
    BY ONLY <1>2, <1>6 DEF AbortEvent, me, c, Kernel
  <2>2. CASE EventFree(k, u)
    <3>1. k' = k
      BY <2>1, <2>2
    <3> QED BY <1>1, <3>1, StillSteps
  <2>3. CASE ~EventFree(k, u)
    <3>1. Sound(k, at)
      BY <1>1 DEF KernelInv
    <3>2. k' = [RemoveEvent(k, u) EXCEPT !.aborted[u] = TRUE]
      BY <2>1, <2>3
    <3>3. AbortsEvent(k, k', at, u)
      BY ONLY <1>2, <3>1, <3>2, EventAborted
    <3>4. Same(k, k', {"pending", "aborted"}) /\ Range(k'.pending) \subseteq Range(k.pending)
      BY <3>3 DEF AbortsEvent
    <3>5. /\ k'.tick = k.tick /\ k'.delayed = k.delayed /\ k'.overflow = k.overflow /\ k'.wake = k.wake
          /\ k'.cur = k.cur
      BY <3>4 DEF Same, Fields
    <3> QED BY ONLY <3>4, <3>5, StillRests
  <2> QED BY <2>2, <2>3
<1>7. CASE AbortReady
  <2>1. PICK z : z = prvAddTaskToReadyList(k, u)
    OBVIOUS
  <2>2. th[k.cur].pc = "abortready" /\ k' = [z EXCEPT !.ypend = z.ypend \/ Above(k, u)]
    BY <1>2, <1>7, <2>1 DEF AbortReady, At, me, c, Kernel
  <2> QED BY ONLY <1>1, <1>2, <2>1, <2>2, AbortedRests
<1> QED BY <1>4, <1>5, <1>6, <1>7

LEMMA LifeRests ==
  ASSUME NEW at, Safe(at), CreateAdd \/ Delete \/ CleanUp
  PROVE  Rests(k, k', Disturbed)
<1>1. KernelInv(k, th, mem, app, at) /\ th \in [Task -> ThreadState] /\ k.cur \in Task
  BY Parts DEF Safe, Threads
<1>2. PICK u \in Task : u = th[k.cur].c.u
  BY <1>1 DEF ThreadState, Call
<1>3. CASE CreateAdd
  <2>1. th[k.cur].pc = "createadd" /\ k' = prvAddNewTaskToReadyList(k, u, th[k.cur].c.n)
    BY <1>2, <1>3 DEF CreateAdd, At, me, c, Kernel
  <2> QED BY ONLY <1>1, <1>2, <2>1, AddRests
<1>4. CASE Delete
  <2>1. th[k.cur].pc = "Delete" /\ k' = DeleteTask(k, u) /\ ~Contains(k.dying, u)
    BY <1>2, <1>4 DEF Delete, At, me, c, Kernel, Usable
  <2>2. Rests(k, k', {u})
    BY ONLY <1>1, <1>2, <2>1, DeleteRests
  <2>3. {u} \subseteq Disturbed
    BY <1>2, <2>1 DEF Disturbed
  <2> QED BY ONLY <2>2, <2>3, RestsMore
<1>5. CASE CleanUp
  <2>1. PICK w : w = Head(k.dying)
    OBVIOUS
  <2>2. th[k.cur].pc = "run" /\ k.ndying > 0 /\ Uncounted(k, w, k')
    BY <1>5, <2>1 DEF CleanUp, At, me, Kernel, Uncounted
  <2> QED BY ONLY <1>1, <2>1, <2>2, BuryRests
<1> QED BY <1>3, <1>4, <1>5

LEMMA OthersStay ==
  ASSUME NEW at, Safe(at), Begin \/ CleanUp \/ InCall, ~Resume
  PROVE  /\ th[k.cur].pc # "resume"
         /\ th[k.cur].pc \in SuspPc => \A t \in Task \ {k.cur} : th'[t] = th[t]
<1>1. k.cur \in Task /\ th \in [Task -> ThreadState] /\ me = k.cur
  BY Running DEF Safe, me
<1>2. ASSUME Begin \/ CleanUp \/ CreateStack \/ CreateTcb \/ CreateAdd \/ Created
             \/ NotDeleted \/ Delete \/ FreeMark \/ FreeRelease
      PROVE  th[me].pc \notin SuspPc
  BY <1>2 DEF Begin, BeginCall, CleanUp, CreateStack, CreateTcb, CreateAdd, Created, NotDeleted, Delete,
     FreeMark, FreeRelease, At, SuspPc
<1>3. ASSUME SimpleCall \/ Lock \/ Yield \/ Delay \/ DelayUntil \/ Suspend \/ Suspended
             \/ NotifyTake \/ NotifyTaken \/ CatchUpTicks \/ AbortDelay
      PROVE  th[me].pc \notin SuspPc
  BY <1>3 DEF SimpleCall, Simple, Lock, Yield, AfterYield, Delay, DelayUntil, Suspend, Suspended,
     NotifyTake, NotifyTaken, CatchUpTicks, AbortDelay, At, SuspPc
<1>4. ASSUME Locked \/ DelayAdd \/ DelayUntilAdd \/ CatchUpAdd \/ AbortIfBlocked \/ AbortEvent \/ AbortReady
      PROVE  th[me].pc # "resume" /\ \A t \in Task \ {me} : th'[t] = th[t]
  <2>1. th[me].pc # "resume"
    BY <1>4 DEF Locked, DelayAdd, DelayUntilAdd, CatchUpAdd, AbortIfBlocked, AbortEvent, AbortReady, At
  <2>2. \E p, q, w : Shift(th, th', me, p, q, w)
    <3>1. CASE DelayUntilAdd
      BY <3>1 DEF DelayUntilAdd, Shift
    <3>2. CASE ~DelayUntilAdd
      <4>1. PICK p, q : th' = [th EXCEPT ![me].pc = p, ![me].to = q]
        BY <1>4, <3>2 DEF Locked, DelayAdd, CatchUpAdd, AbortIfBlocked, AbortEvent, AbortReady, ResumeThen, Goto
      <4>2. Shift(th, th', me, p, q, 0)
        BY <4>1 DEF Shift
      <4> QED BY <4>2
    <3> QED BY <3>1, <3>2
  <2>3. PICK p, q, w : Shift(th, th', me, p, q, w)
    BY <2>2
  <2>4. \A t \in Task \ {me} : th'[t] = th[t]
    BY <1>1, <2>3, Shifted
  <2> QED BY <2>1, <2>4
<1>5. "resume" \in SuspPc
  BY DEF SuspPc
<1> QED BY <1>1, <1>2, <1>3, <1>4, <1>5 DEF InCall, Calls, TaskCall

LEMMA StepRests ==
  ASSUME NEW at, Safe(at), Begin \/ CleanUp \/ InCall, ~Resume
  PROVE  Rests(k, k', Disturbed)
<1>1. CASE Begin \/ Lock \/ DelayUntil \/ CatchUpTicks \/ AbortDelay \/ Delay \/ NotDeleted \/ FreeMark
           \/ FreeRelease \/ CreateStack \/ CreateTcb \/ Suspended \/ NotifyTaken \/ CatchUpAdd \/ Yield
           \/ Created
  BY <1>1, QuietRests
<1>2. CASE SimpleCall \/ Locked \/ DelayAdd \/ DelayUntilAdd \/ NotifyTake
  BY <1>2, CallRests
<1>3. CASE Suspend \/ AbortIfBlocked \/ AbortEvent \/ AbortReady
  BY <1>3, TargetRests
<1>4. CASE CreateAdd \/ Delete \/ CleanUp
  BY <1>4, LifeRests
<1> QED BY <1>1, <1>2, <1>3, <1>4 DEF InCall, Calls, TaskCall

(* Nothing but time disturbs a task that only sleeps.                       *)
LEMMA LeftAlone ==
  ASSUME NEW at, Safe(at), NEW t \in Task, OnlySleeps(t)
  PROVE  t \notin Disturbed /\ th[t].pc # "taken"
<1>1. Threads(th, mem, app) /\ Heeds(k, th, at) /\ k.cur \in Task
  BY Parts
<1>2. \A u \in Task : OpOf(th[u].pc, th[u].c.op)
  BY <1>1 DEF Threads, Thread
<1>3. th[t].pc # "taken"
  <2>1. th[t].c.op # "NotifyTake"
    BY DEF OnlySleeps
  <2> QED BY <1>2, <2>1 DEF OpOf
<1>4. t \notin Waiters(k)
  BY <1>1, <1>3 DEF Waiters, Heeds
<1>5. ASSUME th[k.cur].pc \in {"Suspend", "abort", "Delete"}, t = th[k.cur].c.u
      PROVE  FALSE
  <2>1. th[k.cur].c.op \notin {"AbortDelay", "Suspend", "Delete"}
    BY <1>1, <1>5 DEF OnlySleeps
  <2>2. th[k.cur].c.op \in {"AbortDelay", "Suspend", "Delete"}
    BY <1>1, <1>2, <1>5 DEF OpOf
  <2> QED BY <2>1, <2>2
<1> QED BY <1>3, <1>4, <1>5 DEF Disturbed

Awaited == Awaits(k, th)
(* So many ticks are counted for all that sleep, but for a notification.    *)
TicksCounted(n) ==
  /\ k'.tick = (k.tick + n) % TickMod
  /\ \A t \in Task : Sleeping(k, t) /\ th[t].pc # "taken" => SleepsLess(k, k', t, n)

LEMMA TimeSteps ==
  ASSUME NEW at, Safe(at), Awaited, Next
  PROVE  Awaited' /\ (Paused(k, k', Disturbed) \/ \E n \in 0..MaxDelay : TicksCounted(n))
<1>1. KernelInv(k, th, mem, app, at) /\ Awaits(k, th)
  BY DEF Safe, Awaited
<1>2. SUFFICES Awaits(k', th') /\ (Paused(k, k', Disturbed) \/ \E n \in 0..MaxDelay : TicksCounted(n))
  BY DEF Awaited, Awaits, Sleeping
<1>3. CASE (Begin \/ CleanUp \/ InCall) /\ ~Resume
  <2>1. Rests(k, k', Disturbed)
    BY <1>3, StepRests
  <2>2. /\ th[k.cur].pc # "resume"
        /\ th[k.cur].pc \in SuspPc => \A t \in Task \ {k.cur} : th'[t] = th[t]
    BY <1>3, OthersStay
  <2>3. Paused(k, k', Disturbed) /\ Calm(k, k')
    BY <2>1 DEF Rests
  <2>4. Locking(k, th, app) /\ k.pending \in Seq(Task)
    BY Parts
  <2>5. Awaits(k', th')
    BY ONLY <1>1, <2>2, <2>3, <2>4, AwaitsCalm
  <2> QED BY <2>3, <2>5
<1>4. CASE Resume
  <2>1. PICK r : r = xTaskResumeAll(k)
    OBVIOUS
  <2>2. th[k.cur].pc = "resume" /\ k' = r.k
    BY <1>4, <2>1 DEF Resume, At, me, Kernel
  <2>3. /\ k'.pending = <<>> /\ k'.tick = (k.tick + k.pended) % TickMod /\ k.pended \in 0..MaxDelay
        /\ \A t \in Task : Sleeping(k, t) /\ th[t].pc # "taken" => SleepsLess(k, k', t, k.pended)
    BY ONLY <1>1, <2>1, <2>2, ResumeElapses
  <2>4. Awaits(k', th')
    BY <2>3, NoneAwaited
  <2> QED BY <2>3, <2>4 DEF TicksCounted
<1>5. CASE Ticks
  <2>1. k' = TickInterrupt(k) /\ th' = th
    BY <1>5 DEF Ticks, Tick, Kernel
  <2>2. /\ Awaits(k', th)
        /\ \/ Paused(k, k', {})
           \/ /\ k'.tick = (k.tick + 1) % TickMod
              /\ \A t \in Task : Sleeping(k, t) => SleepsLess(k, k', t, 1)
    BY ONLY <1>1, <2>1, TickElapses
  <2>3. Paused(k, k', {}) => Paused(k, k', Disturbed)
    BY DEF Paused
  <2>4. 1 \in 0..MaxDelay
    BY Numbers
  <2> QED BY <2>1, <2>2, <2>3, <2>4 DEF TicksCounted
<1>6. CASE Interrupts
  <2>1. PICK i \in app.isr : TaskIsr(i)
    BY <1>6 DEF Interrupts
  <2>2. /\ th' = th
        /\ \/ i.op = "Resume" /\ k' = xTaskResumeFromISR(k, i.u)
           \/ i.op = "Notify" /\ k' = xTaskGenericNotifyFromISR(k, i.u)
    BY <2>1 DEF TaskIsr, Kernel
  <2>3. Paused(k, k', Waiters(k)) /\ Awaits(k', th)
    BY ONLY <1>1, <2>1, <2>2, IsrRests
  <2>4. Paused(k, k', Disturbed)
    BY <2>3 DEF Paused, Disturbed
  <2> QED BY <2>2, <2>3, <2>4
<1> QED BY <1>3, <1>4, <1>5, <1>6 DEF Next

LEMMA SleepersOnTime ==
  ASSUME NEW at, Safe(at), Awaited, Next, NEW t \in Task, Sleeping(k, t), OnlySleeps(t)
  PROVE  OnTime(t)
<1>1. t \notin Disturbed /\ th[t].pc # "taken"
  BY LeftAlone
<1>2. CASE Paused(k, k', Disturbed)
  BY <1>1, <1>2, TimeStops
<1>3. CASE \E n \in 0..MaxDelay : TicksCounted(n)
  <2>1. PICK n \in 0..MaxDelay : TicksCounted(n)
    BY <1>3
  <2>2. k'.tick = (k.tick + n) % TickMod /\ SleepsLess(k, k', t, n)
    BY <1>1, <2>1 DEF TicksCounted
  <2> QED BY <2>2, TimePasses
<1> QED BY <1>2, <1>3, TimeSteps

(* A delay lasts as many counted ticks as asked, also across the wrap of    *)
(* the tick count and when ticks are held back (tasks.c:2720, 5297).        *)
THEOREM SleepersWake == Spec => SleepersWakeOnTime
<1>1. Init => Inv /\ Awaited
  <2> SUFFICES ASSUME Init PROVE Inv /\ Awaited
    OBVIOUS
  <2>1. PICK all : all = Append(app.order, Idle)
    OBVIOUS
  <2>2. Inv /\ Start(all)
    BY <2>1, InitSafe, Started
  <2>3. PICK at : Safe(at)
    BY <2>2 DEF Inv
  <2>4. th[k.cur].pc = "run"
    BY <2>2, <2>3, Parts DEF Start, Fresh
  <2>5. k.pending = <<>>
    BY <2>3, <2>4, Parts DEF Locking, SuspPc
  <2> QED BY <2>2, <2>5, NoneAwaited DEF Awaited
<1>2. Inv /\ Awaited /\ [Next]_vars => Inv' /\ Awaited'
  <2> SUFFICES ASSUME Inv, Awaited, [Next]_vars PROVE Inv' /\ Awaited'
    OBVIOUS
  <2>1. PICK at : Safe(at)
    BY DEF Inv
  <2>2. CASE Next
    BY <2>1, <2>2, TimeSteps, InvStep
  <2>3. CASE UNCHANGED vars
    BY <2>3, InvStep DEF vars, threadVars, Awaited, Awaits, Sleeping
  <2> QED BY <2>2, <2>3
<1>3. Inv /\ Awaited /\ [Next]_vars
        => [\A t \in Task :
              Sleeping(k, t) /\ OnlySleeps(t)
                => IF Left(k, t) > Passed
                   THEN Sleeping(k', t) /\ Left(k', t) = Left(k, t) - Passed
                   ELSE ~Sleeping(k', t)]_threadVars
  <2> SUFFICES ASSUME Inv, Awaited, Next, NEW t \in Task, Sleeping(k, t), OnlySleeps(t) PROVE OnTime(t)
    BY DEF OnTime, vars
  <2>1. PICK at : Safe(at)
    BY DEF Inv
  <2> QED BY <2>1, SleepersOnTime
<1> QED BY <1>1, <1>2, <1>3, PTL DEF Spec, SleepersWakeOnTime
=============================================================================
