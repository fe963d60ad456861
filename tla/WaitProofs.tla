------------------------------ MODULE WaitProofs ------------------------------
(***************************************************************************)
(* Proofs about waiting, for every application: no deadline is missed, the *)
(* mark of an IPC wait is on blocked threads only, and a wait ends for a   *)
(* reason that its result states.                                          *)
(***************************************************************************)
EXTENDS CoreProofs

Waiting == {"Sleeping", "Blocked", "BlockedTimeout"}

\* The inductive invariant: deadlines lie ahead, marks are on blocked threads.
WaitsSound(s) ==
  /\ \A t \in ThreadIds :
       s.is_ipc_wait[t] => s.state[t] \in {"Blocked", "BlockedTimeout"}
  /\ \A t \in ThreadIds :
       s.state[t] \in {"Sleeping", "BlockedTimeout"} /\ s.sleep_until[t] # 0
         => s.sleep_until[t] >= s.tick_count

-----------------------------------------------------------------------------
(* Most of what the scheduler does leaves every wait as it is.             *)

\* No wait begins, ends or changes: only threads that may run change state,
\* among themselves or to suspended.
Quiet(s, r) ==
  /\ r.is_ipc_wait = s.is_ipc_wait /\ r.sleep_until = s.sleep_until
  /\ r.ipc_error = s.ipc_error /\ r.tick_count = s.tick_count
  /\ \A t \in ThreadIds :
       \/ r.state[t] = s.state[t]
       \/ s.state[t] \in Runnable /\ r.state[t] \in Runnable \cup {"Blocked"}

LEMMA QuietComposes ==
  ASSUME NEW s, NEW m, NEW r, Quiet(s, m), Quiet(m, r)
  PROVE  Quiet(s, r)
  BY DEF Quiet, Runnable

LEMMA QuietIsSound ==
  ASSUME NEW s, NEW r, Quiet(s, r), WaitsSound(s)
  PROVE  WaitsSound(r)
  BY DEF Quiet, WaitsSound, Runnable

LEMMA DoScheduleQuiet ==
  ASSUME NEW s \in Scheduler
  PROVE  Quiet(s, DoSchedule(s))
<1>1. CASE PickNext(s) = NULL_ID
  BY <1>1 DEF DoSchedule, Quiet
<1>2. CASE PickNext(s) # NULL_ID
  <2>1. PickNext(s) \in ThreadIds /\ s.state[PickNext(s)] = "Ready"
    BY <1>2, PickNextReady
  <2>2. /\ DoSchedule(s).is_ipc_wait = s.is_ipc_wait
        /\ DoSchedule(s).sleep_until = s.sleep_until
        /\ DoSchedule(s).ipc_error = s.ipc_error
        /\ DoSchedule(s).tick_count = s.tick_count
    BY <1>2, <2>1 DEF DoSchedule, Dispatch, Panic, Scheduler
  <2>3. \A t \in ThreadIds : DoSchedule(s).state[t] =
          IF t = PickNext(s) THEN "Running" ELSE s.state[t]
    BY <1>2, <2>1, DoScheduleChanges DEF Scheduler
  <2>4. QED BY <2>1, <2>2, <2>3 DEF Quiet, Runnable
<1>3. QED BY <1>1, <1>2

LEMMA SmallQuiet ==
  ASSUME NEW s \in Scheduler, NEW id \in ThreadIds, NEW p, NEW b
  PROVE  /\ Quiet(s, ClearReadyIfEmpty(s, p))
         /\ Quiet(s, Panic(s))
         /\ Quiet(s, [s EXCEPT !.irq_masked = b])
         /\ Quiet(s, [s EXCEPT !.tick[id] = b])
         /\ s.state[id] = "Running" => Quiet(s, SetReady(s, id))
         /\ s.state[id] = "Running" => Quiet(s, [s EXCEPT !.state[id] = "Ready"])
         /\ s.state[id] \in Runnable => Quiet(s, [s EXCEPT !.state[id] = "Blocked"])
<1>1. Quiet(s, ClearReadyIfEmpty(s, p))
  BY DEF ClearReadyIfEmpty, Quiet, Scheduler
<1>2. Quiet(s, Panic(s)) /\ Quiet(s, [s EXCEPT !.irq_masked = b])
  BY DEF Panic, Quiet, Scheduler
<1>3. Quiet(s, [s EXCEPT !.tick[id] = b])
  BY DEF Quiet, Scheduler
<1>4. s.state[id] = "Running" => Quiet(s, SetReady(s, id))
  BY DEF SetReady, Quiet, Runnable, Scheduler
<1>5. s.state[id] = "Running" => Quiet(s, [s EXCEPT !.state[id] = "Ready"])
  BY DEF Quiet, Runnable, Scheduler
<1>6. s.state[id] \in Runnable => Quiet(s, [s EXCEPT !.state[id] = "Blocked"])
  BY DEF Quiet, Runnable, Scheduler
<1>7. QED BY <1>1, <1>2, <1>3, <1>4, <1>5, <1>6

\* thread_yield, thread_suspend, sched_start and the tick after its wake-ups.
LEMMA YieldQuiet ==
  ASSUME NEW s, HasCurrent(s), s.started
  PROVE  Quiet(s, YieldCurrent(s))
<1>1. s \in Scheduler /\ s.current_id \in ThreadIds
  BY DEF HasCurrent
<1>2. DEFINE r == IF s.state[s.current_id] = "Running"
                  THEN [s EXCEPT !.state[s.current_id] = "Ready"] ELSE s
<1>3. r \in Scheduler
  BY <1>1 DEF Scheduler, ThreadStates
<1>4. Quiet(s, r)
  <2>1. Quiet(s, s)
    BY DEF Quiet
  <2>2. QED BY <1>1, <2>1, SmallQuiet
<1>5. YieldCurrent(s) = DoSchedule(r)
  BY DEF YieldCurrent
<1>6. HIDE DEF r
<1>7. QED BY <1>3, <1>4, <1>5, DoScheduleQuiet, QuietComposes

LEMMA SuspendQuiet ==
  ASSUME NEW s \in Scheduler, NEW id \in ThreadIds
  PROVE  Quiet(s, SuspendThread(s, id))
<1>1. DEFINE r == [s EXCEPT !.state[id] = "Blocked"]
<1>2. r \in Scheduler
  BY DEF Scheduler, ThreadStates
<1>3. s.state[id] \in Runnable => Quiet(s, r)
  BY SmallQuiet
<1>4. Quiet(r, ClearReadyIfEmpty(r, s.priority[id]))
  BY <1>2, SmallQuiet
<1>5. SuspendThread(s, id) =
        IF s.state[id] \in Runnable THEN ClearReadyIfEmpty(r, s.priority[id]) ELSE s
  BY DEF SuspendThread, Runnable
<1>6. Quiet(s, s)
  BY DEF Quiet
<1>7. HIDE DEF r
<1>8. QED BY <1>3, <1>4, <1>5, <1>6, QuietComposes

LEMMA StartQuiet ==
  ASSUME NEW s \in Scheduler
  PROVE  Quiet(s, StartScheduler(s))
<1>1. CASE PickNext(s) = NULL_ID
  BY <1>1, SmallQuiet DEF StartScheduler, Panic, Quiet, Scheduler
<1>2. CASE PickNext(s) # NULL_ID
  <2>1. PickNext(s) \in ThreadIds /\ s.state[PickNext(s)] = "Ready"
    BY <1>2, PickNextReady
  <2>2. StartScheduler(s) =
          [Dispatch(s, PickNext(s)) EXCEPT !.current_id = PickNext(s), !.started = TRUE]
    BY <1>2 DEF StartScheduler
  <2>3. /\ StartScheduler(s).is_ipc_wait = s.is_ipc_wait
        /\ StartScheduler(s).sleep_until = s.sleep_until
        /\ StartScheduler(s).ipc_error = s.ipc_error
        /\ StartScheduler(s).tick_count = s.tick_count
    BY <2>1, <2>2 DEF Dispatch, Scheduler
  <2>4. \A t \in ThreadIds : StartScheduler(s).state[t] =
          IF t = PickNext(s) THEN "Running" ELSE s.state[t]
    <3>1. StartScheduler(s).state = [s.state EXCEPT ![PickNext(s)] = "Running"]
      BY <2>1, <2>2 DEF Dispatch, Scheduler
    <3>2. QED BY <2>1, <3>1 DEF Scheduler
  <2>5. QED BY <2>1, <2>3, <2>4 DEF Quiet, Runnable
<1>3. QED BY <1>1, <1>2

LEMMA PreemptQuiet ==
  ASSUME NEW w, HasCurrent(w), w.current_id # NULL_ID
  PROVE  Quiet(w, Preempt(w))
<1>1. w \in Scheduler /\ w.current_id \in ThreadIds
  BY DEF HasCurrent, Scheduler
<1>2. DEFINE r == IF w.state[w.current_id] = "Running" THEN SetReady(w, w.current_id) ELSE w
<1>3. r \in Scheduler
  <2>1. w.priority[w.current_id] \in Priorities
    BY <1>1 DEF Scheduler
  <2>2. QED BY <1>1, <2>1, SmallTypes
<1>4. Quiet(w, r)
  <2>1. Quiet(w, w)
    BY DEF Quiet
  <2>2. QED BY <1>1, <2>1, SmallQuiet
<1>5. Preempt(w) = DoSchedule(r)
  BY DEF Preempt
<1>6. HIDE DEF r
<1>7. QED BY <1>3, <1>4, <1>5, DoScheduleQuiet, QuietComposes

LEMMA TickAwakeQuiet ==
  ASSUME NEW w, HasCurrent(w)
  PROVE  Quiet(w, TickAwake(w))
<1>1. w \in Scheduler
  BY DEF HasCurrent
<1>2. ASSUME NEW v, HasCurrent(v)
      PROVE  Quiet(v, PreemptIfBetter(v))
  <2>1. v \in Scheduler
    BY <1>2 DEF HasCurrent
  <2>2. Quiet(v, v)
    BY DEF Quiet
  <2>3. Quiet(v, Panic(v))
    BY <2>1 DEF Quiet, Panic, Scheduler
  <2>4. QED BY <1>2, <2>2, <2>3, PreemptQuiet DEF PreemptIfBetter
<1>3. CASE w.current_id # NULL_ID /\ w.state[w.current_id] = "Running"
  <2>1. w.current_id \in ThreadIds
    BY <1>1, <1>3 DEF Scheduler
  <2>2. ASSUME NEW n \in Nat
        PROVE  LET r == [w EXCEPT !.tick[w.current_id] = n]
               IN  HasCurrent(r) /\ r.current_id # NULL_ID /\ Quiet(w, r)
    BY <1>1, <1>3, <2>1, SmallQuiet DEF HasCurrent, Scheduler
  <2>3. DEFINE left == IF w.tick[w.current_id] > 0 THEN w.tick[w.current_id] - 1 ELSE 0
  <2>4. left \in Nat /\ w.init_tick[w.current_id] \in Nat
    BY <1>1, <2>1 DEF Scheduler
  <2>5. TickAwake(w) = IF left = 0
                       THEN Preempt([w EXCEPT !.tick[w.current_id] = w.init_tick[w.current_id]])
                       ELSE PreemptIfBetter([w EXCEPT !.tick[w.current_id] = left])
    BY <1>3 DEF TickAwake
  <2>6. HIDE DEF left
  <2>7. QED BY <1>2, <2>2, <2>4, <2>5, PreemptQuiet, QuietComposes
<1>4. CASE ~(w.current_id # NULL_ID /\ w.state[w.current_id] = "Running")
  <2>1. TickAwake(w) = PreemptIfBetter(w)
    BY <1>4 DEF TickAwake
  <2>2. QED BY <1>2, <2>1
<1>5. QED BY <1>3, <1>4

-----------------------------------------------------------------------------
(* What begins or ends a wait keeps the invariant and has its reason.      *)

\* Whoever waited in s and may run in r was asleep until a deadline that has
\* come, or reads in its result why its IPC wait ended.
EndsForAReason(s, r) ==
  \A t \in ThreadIds :
    s.state[t] \in Waiting /\ r.state[t] \in Runnable =>
      LET came == s.sleep_until[t] # 0 /\ r.tick_count >= s.sleep_until[t] IN
      /\ s.state[t] = "Sleeping" => came
      /\ s.is_ipc_wait[t] => \/ r.ipc_error[t] = "OK"
                             \/ r.ipc_error[t] = "TIMEOUT" /\ came

KeepsWaits(s, r) == WaitsSound(s) => WaitsSound(r) /\ EndsForAReason(s, r)

LEMMA KeepsThenQuiet ==
  ASSUME NEW s, NEW m, NEW r, KeepsWaits(s, m), Quiet(m, r)
  PROVE  KeepsWaits(s, r)
<1>1. SUFFICES ASSUME WaitsSound(s) PROVE WaitsSound(r) /\ EndsForAReason(s, r)
  BY DEF KeepsWaits
<1>2. WaitsSound(m) /\ EndsForAReason(s, m)
  BY <1>1 DEF KeepsWaits
<1>3. WaitsSound(r)
  BY <1>2, QuietIsSound
<1>4. \A t \in ThreadIds : r.state[t] \in Runnable => m.state[t] \in Runnable
  BY DEF Quiet
<1>5. r.tick_count = m.tick_count /\ r.ipc_error = m.ipc_error
  BY DEF Quiet
<1>6. EndsForAReason(s, r)
  BY <1>2, <1>4, <1>5 DEF EndsForAReason
<1>7. QED BY <1>3, <1>6

LEMMA QuietKeeps ==
  ASSUME NEW s, NEW r, Quiet(s, r)
  PROVE  KeepsWaits(s, r)
  BY QuietIsSound DEF KeepsWaits, EndsForAReason, Quiet, Waiting, Runnable

\* One thread stops, starts, or is removed: its own wait is as it must be.
LEMMA OneKeeps ==
  ASSUME NEW s \in Scheduler, NEW r \in Scheduler, NEW id \in ThreadIds,
         r.tick_count = s.tick_count,
         \A t \in ThreadIds \ {id} :
           /\ r.state[t] = s.state[t] /\ r.is_ipc_wait[t] = s.is_ipc_wait[t]
           /\ r.sleep_until[t] = s.sleep_until[t],
         r.is_ipc_wait[id] => r.state[id] \in {"Blocked", "BlockedTimeout"},
         r.state[id] \in {"Sleeping", "BlockedTimeout"}
           => r.sleep_until[id] >= s.tick_count,
         s.state[id] \in Waiting /\ r.state[id] \in Runnable
           => s.state[id] # "Sleeping" /\ (s.is_ipc_wait[id] => r.ipc_error[id] = "OK")
  PROVE  KeepsWaits(s, r)
<1>1. SUFFICES ASSUME WaitsSound(s) PROVE WaitsSound(r) /\ EndsForAReason(s, r)
  BY DEF KeepsWaits
<1>2. \A t \in ThreadIds : r.is_ipc_wait[t] => r.state[t] \in {"Blocked", "BlockedTimeout"}
  BY <1>1 DEF WaitsSound
<1>3. \A t \in ThreadIds :
        r.state[t] \in {"Sleeping", "BlockedTimeout"} /\ r.sleep_until[t] # 0
          => r.sleep_until[t] >= r.tick_count
  BY <1>1 DEF WaitsSound
<1>4. EndsForAReason(s, r)
  <2>1. \A t \in ThreadIds \ {id} : ~(s.state[t] \in Waiting /\ r.state[t] \in Runnable)
    BY DEF Waiting, Runnable
  <2>2. QED BY <2>1 DEF EndsForAReason
<1>5. QED BY <1>2, <1>3, <1>4 DEF WaitsSound

\* threads[id] = None.
LEMMA EmptySlotKeeps ==
  ASSUME NEW s \in Scheduler, NEW id \in ThreadIds
  PROVE  KeepsWaits(s, EmptySlot(s, id))
<1>1. DEFINE r == EmptySlot(s, id)
<1>2. s.priority[id] \in Priorities
  BY DEF Scheduler
<1>3. r \in Scheduler
  BY <1>2, SmallTypes
<1>4. /\ r.tick_count = s.tick_count
      /\ \A t \in ThreadIds \ {id} :
           /\ r.state[t] = s.state[t] /\ r.is_ipc_wait[t] = s.is_ipc_wait[t]
           /\ r.sleep_until[t] = s.sleep_until[t]
      /\ r.state[id] = "Dead" /\ ~r.is_ipc_wait[id]
  BY DEF EmptySlot, Scheduler
<1>5. HIDE DEF r
<1>6. KeepsWaits(s, r)
  BY <1>3, <1>4, OneKeeps DEF Runnable
<1>7. QED BY <1>6 DEF r

LEMMA CreateKeeps ==
  ASSUME NEW s \in Scheduler, NEW prof \in Profiles,
         \E t \in ThreadIds : s.state[t] = "Dead"
  PROVE  KeepsWaits(s, CreateThread(s, prof))
<1>1. DEFINE id == Min({t \in ThreadIds : s.state[t] = "Dead"})
<1>2. id \in ThreadIds /\ s.state[id] = "Dead" /\ CreateThread(s, prof) \in Scheduler
  BY CreateType
<1>3. CreateThread(s, prof) = PutThread(s, id, prof)
  BY DEF CreateThread
<1>4. HIDE DEF id
<1>5. DEFINE r == PutThread(s, id, prof)
<1>6. /\ r.tick_count = s.tick_count
      /\ \A t \in ThreadIds \ {id} :
           /\ r.state[t] = s.state[t] /\ r.is_ipc_wait[t] = s.is_ipc_wait[t]
           /\ r.sleep_until[t] = s.sleep_until[t]
      /\ r.state[id] = "Ready" /\ ~r.is_ipc_wait[id]
  BY <1>2 DEF PutThread, Scheduler
<1>7. r \in Scheduler
  BY <1>2, <1>3
<1>8. HIDE DEF r
<1>9. KeepsWaits(s, r)
  BY <1>2, <1>6, <1>7, OneKeeps DEF Waiting
<1>10. QED BY <1>3, <1>9 DEF r

\* thread_sleep's and block_current's marks on the caller.
LEMMA WaitBegins ==
  ASSUME NEW s \in Scheduler, NEW id \in ThreadIds, NEW r \in Scheduler,
         r.tick_count = s.tick_count,
         \A t \in ThreadIds \ {id} :
           /\ r.state[t] = s.state[t] /\ r.is_ipc_wait[t] = s.is_ipc_wait[t]
           /\ r.sleep_until[t] = s.sleep_until[t],
         r.state[id] \in Waiting,
         r.state[id] # "Sleeping" \/ ~r.is_ipc_wait[id],
         r.state[id] = "Blocked" \/ r.sleep_until[id] >= s.tick_count
  PROVE  KeepsWaits(s, r)
  BY OneKeeps DEF Waiting, Runnable

LEMMA UnblockKeeps ==
  ASSUME NEW s \in Scheduler, NEW id \in ThreadIds
  PROVE  KeepsWaits(s, UnblockThread(s, id))
<1>1. CASE s.state[id] \in Waiting /\ s.is_ipc_wait[id]
  <2>1. DEFINE m == [s EXCEPT !.ipc_error[id]   = "OK",
                              !.is_ipc_wait[id] = FALSE,
                              !.sleep_until[id] = 0]
               r == SetReady(m, id)
  <2>2. m \in Scheduler
    BY DEF Scheduler, IpcResults
  <2>3. /\ m.tick_count = s.tick_count /\ m.state = s.state
        /\ \A t \in ThreadIds \ {id} : /\ m.is_ipc_wait[t] = s.is_ipc_wait[t]
                                      /\ m.sleep_until[t] = s.sleep_until[t]
        /\ ~m.is_ipc_wait[id] /\ m.ipc_error[id] = "OK"
    BY DEF Scheduler
  <2>4. UnblockThread(s, id) = r
    BY <1>1 DEF UnblockThread, Waiting
  <2>5. m.priority[id] \in Priorities
    BY <2>2 DEF Scheduler
  <2>6. HIDE DEF m
  <2>7. r \in Scheduler
    BY <2>2, <2>5, SmallTypes
  <2>8. /\ r.tick_count = m.tick_count /\ r.is_ipc_wait = m.is_ipc_wait
        /\ r.sleep_until = m.sleep_until /\ r.ipc_error = m.ipc_error
        /\ \A t \in ThreadIds : r.state[t] = IF t = id THEN "Ready" ELSE m.state[t]
    BY <2>2 DEF SetReady, Scheduler
  <2>9. HIDE DEF r
  <2>10. CASE s.state[id] # "Sleeping"
    BY <2>3, <2>4, <2>7, <2>8, <2>10, OneKeeps
  <2>11. CASE s.state[id] = "Sleeping"
    BY <1>1, <2>11 DEF KeepsWaits, WaitsSound
  <2>12. QED BY <2>10, <2>11
<1>2. CASE ~(s.state[id] \in Waiting /\ s.is_ipc_wait[id])
  <2>1. UnblockThread(s, id) = s
    BY <1>2 DEF UnblockThread, Waiting
  <2>2. Quiet(s, s)
    BY DEF Quiet
  <2>3. QED BY <2>1, <2>2, QuietKeeps
<1>3. QED BY <1>1, <1>2

LEMMA ResumeKeeps ==
  ASSUME NEW s \in Scheduler, NEW id \in ThreadIds
  PROVE  KeepsWaits(s, ResumeThread(s, id))
<1>1. CASE s.state[id] = "Blocked" /\ ~s.is_ipc_wait[id]
  <2>1. DEFINE r == SetReady(s, id)
  <2>2. s.priority[id] \in Priorities
    BY DEF Scheduler
  <2>3. r \in Scheduler
    BY <2>2, SmallTypes
  <2>4. /\ r.tick_count = s.tick_count /\ r.is_ipc_wait = s.is_ipc_wait
        /\ r.sleep_until = s.sleep_until
        /\ \A t \in ThreadIds : r.state[t] = IF t = id THEN "Ready" ELSE s.state[t]
    BY DEF SetReady, Scheduler
  <2>5. ResumeThread(s, id) \in {r, DoSchedule(r)}
    BY <1>1 DEF ResumeThread
  <2>6. HIDE DEF r
  <2>7. KeepsWaits(s, r)
    BY <1>1, <2>3, <2>4, OneKeeps
  <2>8. QED BY <2>3, <2>5, <2>7, DoScheduleQuiet, KeepsThenQuiet
<1>2. CASE ~(s.state[id] = "Blocked" /\ ~s.is_ipc_wait[id])
  <2>1. ResumeThread(s, id) = s
    BY <1>2 DEF ResumeThread
  <2>2. Quiet(s, s)
    BY DEF Quiet
  <2>3. QED BY <2>1, <2>2, QuietKeeps
<1>3. QED BY <1>1, <1>2

\* The first loop of sched_tick.
LEMMA WakeKeeps ==
  ASSUME NEW s \in Scheduler
  PROVE  KeepsWaits(s, WakeDue(s))
<1>1. SUFFICES ASSUME WaitsSound(s)
               PROVE  WaitsSound(WakeDue(s)) /\ EndsForAReason(s, WakeDue(s))
  BY DEF KeepsWaits
<1>2. DEFINE r == WakeDue(s)
             now == NextTick(s)
             due == Due(s, now)
<1>3. /\ r.tick_count = now
      /\ \A t \in ThreadIds :
           /\ r.state[t] = IF t \in due THEN "Ready" ELSE s.state[t]
           /\ r.ipc_error[t] = IF t \in due /\ s.is_ipc_wait[t] THEN "TIMEOUT"
                               ELSE s.ipc_error[t]
           /\ r.is_ipc_wait[t] = (t \notin due /\ s.is_ipc_wait[t])
           /\ r.sleep_until[t] = IF t \in due THEN 0 ELSE s.sleep_until[t]
  BY DEF WakeDue, Wake, Scheduler
<1>4. \A t \in ThreadIds :
        t \in due <=> /\ s.state[t] \in {"Sleeping", "BlockedTimeout"}
                      /\ s.sleep_until[t] # 0 /\ now >= s.sleep_until[t]
  BY DEF Due
<1>5. now \in Nat /\ \A t \in ThreadIds : s.sleep_until[t] \in Nat
  BY SchedulerAssumption DEF NextTick, Scheduler
<1>6. HIDE DEF r, now, due
<1>7. WaitsSound(r)
  <2>1. \A t \in ThreadIds : r.is_ipc_wait[t] => r.state[t] \in {"Blocked", "BlockedTimeout"}
    BY <1>1, <1>3 DEF WaitsSound
  <2>2. ASSUME NEW t \in ThreadIds,
               r.state[t] \in {"Sleeping", "BlockedTimeout"}, r.sleep_until[t] # 0
        PROVE  r.sleep_until[t] >= r.tick_count
    <3>1. t \notin due /\ s.state[t] = r.state[t] /\ s.sleep_until[t] = r.sleep_until[t]
      BY <1>3, <2>2
    <3>2. ~(now >= s.sleep_until[t]) /\ r.tick_count = now
      BY <1>3, <1>4, <2>2, <3>1
    <3>3. QED BY <1>5, <3>1, <3>2
  <2>3. QED BY <2>1, <2>2 DEF WaitsSound
<1>8. \A t \in ThreadIds : s.state[t] \in Waiting /\ r.state[t] \in Runnable => t \in due
  BY <1>3 DEF Waiting, Runnable
<1>9. EndsForAReason(s, r)
  BY <1>3, <1>4, <1>8 DEF EndsForAReason
<1>10. QED BY <1>7, <1>9 DEF r

-----------------------------------------------------------------------------
(* The calls and the tick.                                                 *)

LEMMA CallsKeepWaits ==
  ASSUME NEW s, HasCurrent(s), s.started, NEW d \in Nat
  PROVE  /\ KeepsWaits(s, SleepCurrent(s, d))
         /\ KeepsWaits(s, ExitCurrent(s))
         /\ KeepsWaits(s, BlockCurrent(s))
         /\ KeepsWaits(s, BlockCurrentFor(s, d))
<1>1. s \in Scheduler /\ s.current_id \in ThreadIds
  BY DEF HasCurrent
<1>2. /\ s.priority[s.current_id] \in Priorities /\ s.tick_count \in Nat
      /\ s.tick_count + d \in Nat /\ s.tick_count + d >= s.tick_count
      /\ s.sleep_until[s.current_id] \in Nat
  BY <1>1 DEF Scheduler
<1>3. ASSUME NEW r \in Scheduler, KeepsWaits(s, r)
      PROVE  LET c == ClearReadyIfEmpty(r, s.priority[s.current_id])
             IN  KeepsWaits(s, DoSchedule(c)) /\ KeepsWaits(s, [c EXCEPT !.irq_masked = TRUE])
  <2>1. DEFINE c == ClearReadyIfEmpty(r, s.priority[s.current_id])
  <2>2. c \in Scheduler
    BY <1>1, <1>2, SmallTypes
  <2>3. KeepsWaits(s, c)
    BY <1>1, <1>3, SmallQuiet, KeepsThenQuiet
  <2>4. HIDE DEF c
  <2>5. KeepsWaits(s, [c EXCEPT !.irq_masked = TRUE])
    BY <1>1, <2>2, <2>3, SmallQuiet, KeepsThenQuiet
  <2>6. QED BY <2>2, <2>3, <2>5, DoScheduleQuiet, KeepsThenQuiet DEF c
<1>4. KeepsWaits(s, SleepCurrent(s, d))
  <2>1. DEFINE r == [s EXCEPT !.state[s.current_id]       = "Sleeping",
                              !.is_ipc_wait[s.current_id] = FALSE,
                              !.sleep_until[s.current_id] = s.tick_count + d]
  <2>2. /\ r \in Scheduler /\ r.tick_count = s.tick_count
        /\ \A t \in ThreadIds \ {s.current_id} :
             /\ r.state[t] = s.state[t] /\ r.is_ipc_wait[t] = s.is_ipc_wait[t]
             /\ r.sleep_until[t] = s.sleep_until[t]
        /\ r.state[s.current_id] = "Sleeping" /\ ~r.is_ipc_wait[s.current_id]
        /\ r.sleep_until[s.current_id] = s.tick_count + d
    BY <1>1, <1>2 DEF Scheduler, ThreadStates
  <2>3. SleepCurrent(s, d) = DoSchedule(ClearReadyIfEmpty(r, s.priority[s.current_id]))
    BY DEF SleepCurrent
  <2>4. HIDE DEF r
  <2>5. KeepsWaits(s, r)
    BY <1>1, <1>2, <2>2, WaitBegins DEF Waiting
  <2>6. QED BY <1>3, <2>2, <2>3, <2>5
<1>5. KeepsWaits(s, ExitCurrent(s))
  <2>1. EmptySlot(s, s.current_id) \in Scheduler
    BY <1>1, <1>2, SmallTypes
  <2>2. KeepsWaits(s, EmptySlot(s, s.current_id))
    BY <1>1, EmptySlotKeeps
  <2>3. QED BY <1>3, <2>1, <2>2 DEF ExitCurrent
<1>6. ASSUME NEW st \in {"Blocked", "BlockedTimeout"}, NEW until \in Nat,
             st = "BlockedTimeout" => until >= s.tick_count
      PROVE  KeepsWaits(s, BlockOn(s, st, until))
  <2>1. DEFINE r == [s EXCEPT !.state[s.current_id]       = st,
                              !.ipc_error[s.current_id]   = "SENTINEL",
                              !.is_ipc_wait[s.current_id] = TRUE,
                              !.sleep_until[s.current_id] = until]
  <2>2. /\ r \in Scheduler /\ r.tick_count = s.tick_count
        /\ \A t \in ThreadIds \ {s.current_id} :
             /\ r.state[t] = s.state[t] /\ r.is_ipc_wait[t] = s.is_ipc_wait[t]
             /\ r.sleep_until[t] = s.sleep_until[t]
        /\ r.state[s.current_id] = st /\ r.sleep_until[s.current_id] = until
    BY <1>1, <1>2 DEF Scheduler, ThreadStates, IpcResults
  <2>3. LET c == ClearReadyIfEmpty(r, s.priority[s.current_id])
        IN  BlockOn(s, st, until) \in {[c EXCEPT !.irq_masked = TRUE], DoSchedule(c)}
    BY DEF BlockOn
  <2>4. HIDE DEF r
  <2>5. st \in Waiting /\ st # "Sleeping" /\ (st = "Blocked" \/ until >= s.tick_count)
    BY <1>6 DEF Waiting
  <2>6. KeepsWaits(s, r)
    BY <1>1, <2>2, <2>5, WaitBegins
  <2>7. QED BY <1>3, <2>2, <2>3, <2>6
<1>7. QED BY <1>2, <1>4, <1>5, <1>6 DEF BlockCurrent, BlockCurrentFor

LEMMA TickKeepsWaits ==
  ASSUME NEW s, HasCurrent(s)
  PROVE  KeepsWaits(s, TickAwake(WakeDue(s)))
<1>1. HasCurrent(WakeDue(s))
  BY WakeType DEF HasCurrent, WakeDue, Wake, Scheduler
<1>2. QED BY <1>1, WakeKeeps, TickAwakeQuiet, KeepsThenQuiet DEF HasCurrent

LEMMA NextKeepsWaits ==
  ASSUME HasCurrent(sched), [Next]_vars
  PROVE  KeepsWaits(sched, sched')
<1>1. sched \in Scheduler
  BY DEF HasCurrent
<1>2. CASE Create
  BY <1>1, <1>2, CreateKeeps DEF Create
<1>3. CASE Start
  BY <1>1, <1>3, StartQuiet, QuietKeeps DEF Start
<1>4. CASE Yield
  BY <1>4, YieldQuiet, QuietKeeps DEF Yield, Executing
<1>5. CASE Sleep
  BY <1>5, CallsKeepWaits, SchedulerAssumption DEF Sleep, Executing
<1>6. CASE Delete
  <2>1. PICK id \in ThreadIds : sched' = DeleteThread(sched, id)
    BY <1>6 DEF Delete
  <2>2. sched.priority[id] \in Priorities
    BY <1>1 DEF Scheduler
  <2>3. DEFINE r == EmptySlot(sched, id)
  <2>4. r \in Scheduler /\ KeepsWaits(sched, r)
    BY <1>1, <2>2, SmallTypes, EmptySlotKeeps
  <2>5. sched' = ClearReadyIfEmpty(r, sched.priority[id])
    BY <2>1 DEF DeleteThread
  <2>6. HIDE DEF r
  <2>7. Quiet(r, ClearReadyIfEmpty(r, sched.priority[id]))
    BY <1>1, <2>4, SmallQuiet
  <2>8. QED BY <2>4, <2>5, <2>7, KeepsThenQuiet
<1>7. CASE Suspend
  BY <1>1, <1>7, SuspendQuiet, QuietKeeps DEF Suspend
<1>8. CASE Resume
  BY <1>1, <1>8, ResumeKeeps DEF Resume
<1>9. CASE Exit
  BY <1>9, CallsKeepWaits DEF Exit, Executing
<1>10. CASE Block
  BY <1>10, CallsKeepWaits, SchedulerAssumption DEF Block, Executing
<1>11. CASE Unblock
  BY <1>1, <1>11, UnblockKeeps DEF Unblock
<1>12. CASE Tick
  BY <1>12, TickKeepsWaits DEF Tick
<1>13. CASE UNCHANGED vars
  BY <1>13, QuietKeeps DEF vars, Quiet
<1>14. QED BY <1>2, <1>3, <1>4, <1>5, <1>6, <1>7, <1>8, <1>9, <1>10, <1>11,
               <1>12, <1>13 DEF Next

LEMMA WaitsSoundInvariant == Spec => [](HasCurrent(sched) /\ WaitsSound(sched))
<1>1. Init => WaitsSound(sched)
  BY DEF Init, NewScheduler, WaitsSound
<1>2. HasCurrent(sched) /\ WaitsSound(sched) /\ [Next]_vars
        => HasCurrent(sched)' /\ WaitsSound(sched)'
  BY NextKeepsCurrent, NextKeepsWaits DEF KeepsWaits
<1>3. QED BY <1>1, <1>2, InitHasCurrent, PTL DEF Spec

\* The tick misses no deadline: whatever the application calls, a thread that
\* still sleeps or waits with a timeout has its deadline ahead of it
\* (thread.rs:484-500).
THEOREM NobodyOversleeps == Spec => []NoOversleep
<1>1. WaitsSound(sched) => NoOversleep
  BY DEF WaitsSound, NoOversleep
<1>2. QED BY <1>1, WaitsSoundInvariant, PTL

\* No call, tick or suspension leaves the mark of an IPC wait on a thread that
\* runs, so unblock_thread and thread_resume never take one for the other
\* (thread.rs:575-597, 737-743).
THEOREM MarksAreOnBlocked == Spec => []IpcWaitIsBlocked
<1>1. WaitsSound(sched) => IpcWaitIsBlocked
  BY DEF WaitsSound, IpcWaitIsBlocked
<1>2. QED BY <1>1, WaitsSoundInvariant, PTL

\* A sleeper wakes at its deadline only; an IPC wait ends with OK, or with
\* TIMEOUT at its deadline (thread.rs:486-496, 582-597).
THEOREM WaitsEndForAReason == Spec => WaitEndsForAReason
<1>1. ASSUME HasCurrent(sched) /\ WaitsSound(sched), [Next]_vars
      PROVE  \A t \in ThreadIds : WaitEnded(t) =>
               /\ sched.state[t] = "Sleeping" => DeadlineCame(t)
               /\ sched.is_ipc_wait[t] =>
                    \/ sched'.ipc_error[t] = "OK"
                    \/ sched'.ipc_error[t] = "TIMEOUT" /\ DeadlineCame(t)
  <2>1. EndsForAReason(sched, sched')
    BY <1>1, NextKeepsWaits DEF KeepsWaits
  <2>2. QED BY <2>1 DEF EndsForAReason, WaitEnded, DeadlineCame, Waiting, Runnable
<1>2. QED BY <1>1, WaitsSoundInvariant, PTL DEF Spec, WaitEndsForAReason
=============================================================================
