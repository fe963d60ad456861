--------------------------- MODULE RoundRobinProofs ---------------------------
(***************************************************************************)
(* Proofs about the whole thread API: round robin within a priority, for   *)
(* every application, and no panic or hidden thread while nobody exits or  *)
(* yields.                                                                 *)
(***************************************************************************)
EXTENDS RoundRobin, SchedulerProofs

-----------------------------------------------------------------------------
(* What the calls do before they pick the next thread.                     *)

\* Slots, priorities, cursors and the current thread stay; nobody gets Running.
Mild(s, m) ==
  /\ m.priority = s.priority /\ m.rr_cursor = s.rr_cursor
  /\ m.current_id = s.current_id
  /\ m.started = s.started /\ m.panicked = s.panicked
  /\ \A t \in ThreadIds : /\ m.state[t] = "Dead" <=> s.state[t] = "Dead"
                          /\ m.state[t] = "Running" => s.state[t] = "Running"

\* A call or tick makes mild changes; then it may pick the next thread, or
\* panic for want of a current one.
Shaped(s, r) ==
  \E m \in Scheduler :
    /\ Mild(s, m)
    /\ \/ r = m
       \/ s.current_id # NULL_ID /\ r = DoSchedule(m)
       \/ s.current_id = NULL_ID /\ r = Panic(m)

LEMMA MildSelf == ASSUME NEW s PROVE Mild(s, s)
  BY DEF Mild

LEMMA MildComposes ==
  ASSUME NEW s, NEW m, NEW r, Mild(s, m), Mild(m, r)
  PROVE  Mild(s, r)
  BY DEF Mild

LEMMA MildThenShaped ==
  ASSUME NEW s, NEW m, NEW r, Mild(s, m), Shaped(m, r)
  PROVE  Shaped(s, r)
<1>1. PICK n \in Scheduler :
        /\ Mild(m, n)
        /\ \/ r = n
           \/ m.current_id # NULL_ID /\ r = DoSchedule(n)
           \/ m.current_id = NULL_ID /\ r = Panic(n)
  BY DEF Shaped
<1>2. Mild(s, n) /\ m.current_id = s.current_id
  BY <1>1, MildComposes DEF Mild
<1>3. QED BY <1>1, <1>2 DEF Shaped

\* The changes the calls are made of.
LEMMA SmallMild ==
  ASSUME NEW s \in Scheduler, NEW id \in ThreadIds, NEW p \in Priorities,
         NEW b \in BOOLEAN, NEW n \in Nat
  PROVE  /\ Mild(s, ClearReadyIfEmpty(s, p))
         /\ Mild(s, [s EXCEPT !.irq_masked = b])
         /\ Mild(s, [s EXCEPT !.tick[id] = n])
         /\ s.state[id] # "Dead" => Mild(s, SetReady(s, id))
         /\ \A st \in ThreadStates \ {"Dead", "Running"} :
              s.state[id] # "Dead" => Mild(s, [s EXCEPT !.state[id] = st])
<1>1. Mild(s, ClearReadyIfEmpty(s, p))
  BY DEF ClearReadyIfEmpty, Mild, Scheduler
<1>2. Mild(s, [s EXCEPT !.irq_masked = b]) /\ Mild(s, [s EXCEPT !.tick[id] = n])
  BY DEF Mild, Scheduler
<1>3. s.state[id] # "Dead" => Mild(s, SetReady(s, id))
  BY DEF SetReady, Mild, Scheduler
<1>4. \A st \in ThreadStates \ {"Dead", "Running"} :
        s.state[id] # "Dead" => Mild(s, [s EXCEPT !.state[id] = st])
  BY DEF Mild, Scheduler
<1>5. QED BY <1>1, <1>2, <1>3, <1>4

LEMMA CallsShape ==
  ASSUME NEW s, HasCurrent(s), s.started, s.state[s.current_id] # "Dead", NEW d \in Nat
  PROVE  /\ Shaped(s, YieldCurrent(s))
         /\ Shaped(s, SleepCurrent(s, d))
         /\ Shaped(s, BlockCurrent(s))
         /\ Shaped(s, BlockCurrentFor(s, d))
<1>1. s \in Scheduler /\ s.current_id \in ThreadIds /\ s.current_id # NULL_ID
  BY IdsAreNats DEF HasCurrent
<1>2. /\ s.priority[s.current_id] \in Priorities /\ s.tick_count + d \in Nat
      /\ s.sleep_until[s.current_id] \in Nat
  BY <1>1 DEF Scheduler
<1>3. Shaped(s, YieldCurrent(s))
  <2>1. DEFINE r == IF s.state[s.current_id] = "Running"
                    THEN [s EXCEPT !.state[s.current_id] = "Ready"] ELSE s
  <2>2. r \in Scheduler
    BY <1>1 DEF Scheduler, ThreadStates
  <2>3. Mild(s, r)
    <3>1. "Ready" \in ThreadStates \ {"Dead", "Running"}
      BY DEF ThreadStates
    <3>2. s.state[s.current_id] = "Running" => Mild(s, [s EXCEPT !.state[s.current_id] = "Ready"])
      BY <1>1, <1>2, <3>1, SmallMild
    <3>3. QED BY <3>2, MildSelf
  <2>4. YieldCurrent(s) = DoSchedule(r)
    BY DEF YieldCurrent
  <2>5. HIDE DEF r
  <2>6. QED BY <1>1, <2>2, <2>3, <2>4 DEF Shaped
<1>4. ASSUME NEW r \in Scheduler, Mild(s, r)
      PROVE  LET c == ClearReadyIfEmpty(r, s.priority[s.current_id])
             IN  Shaped(s, DoSchedule(c)) /\ Shaped(s, [c EXCEPT !.irq_masked = TRUE])
  <2>1. DEFINE c == ClearReadyIfEmpty(r, s.priority[s.current_id])
  <2>2. c \in Scheduler
    BY <1>1, <1>2, SmallTypes
  <2>3. Mild(s, c)
    <3>1. Mild(r, c)
      BY <1>1, <1>2, SmallMild
    <3>2. QED BY <1>4, <3>1, MildComposes
  <2>4. HIDE DEF c
  <2>5. [c EXCEPT !.irq_masked = TRUE] \in Scheduler
    BY <2>2 DEF Scheduler
  <2>6. Mild(s, [c EXCEPT !.irq_masked = TRUE])
    <3>1. Mild(c, [c EXCEPT !.irq_masked = TRUE])
      BY <2>2 DEF Mild, Scheduler
    <3>2. QED BY <2>3, <3>1, MildComposes
  <2>7. Shaped(s, DoSchedule(c)) /\ Shaped(s, [c EXCEPT !.irq_masked = TRUE])
    BY <1>1, <2>2, <2>3, <2>5, <2>6 DEF Shaped
  <2>8. QED BY <2>7 DEF c
<1>5. Shaped(s, SleepCurrent(s, d))
  <2>1. DEFINE r == [s EXCEPT !.state[s.current_id]       = "Sleeping",
                              !.is_ipc_wait[s.current_id] = FALSE,
                              !.sleep_until[s.current_id] = s.tick_count + d]
  <2>2. r \in Scheduler /\ Mild(s, r)
    BY <1>1, <1>2 DEF Mild, Scheduler, ThreadStates
  <2>3. SleepCurrent(s, d) = DoSchedule(ClearReadyIfEmpty(r, s.priority[s.current_id]))
    BY DEF SleepCurrent
  <2>4. HIDE DEF r
  <2>5. QED BY <1>4, <2>2, <2>3
<1>6. ASSUME NEW st \in {"Blocked", "BlockedTimeout"}, NEW until \in Nat
      PROVE  Shaped(s, BlockOn(s, st, until))
  <2>1. DEFINE r == [s EXCEPT !.state[s.current_id]       = st,
                              !.ipc_error[s.current_id]   = "SENTINEL",
                              !.is_ipc_wait[s.current_id] = TRUE,
                              !.sleep_until[s.current_id] = until]
  <2>2. r \in Scheduler /\ Mild(s, r)
    BY <1>1, <1>2 DEF Mild, Scheduler, ThreadStates, IpcResults
  <2>3. LET c == ClearReadyIfEmpty(r, s.priority[s.current_id])
        IN  BlockOn(s, st, until) \in {[c EXCEPT !.irq_masked = TRUE], DoSchedule(c)}
    BY DEF BlockOn
  <2>4. HIDE DEF r
  <2>5. QED BY <1>4, <2>2, <2>3
<1>7. QED BY <1>2, <1>3, <1>5, <1>6 DEF BlockCurrent, BlockCurrentFor

LEMMA CallsOnOthersShape ==
  ASSUME NEW s, HasCurrent(s), NEW id \in ThreadIds
  PROVE  /\ Mild(s, SuspendThread(s, id))
         /\ Mild(s, UnblockThread(s, id))
         /\ Shaped(s, ResumeThread(s, id))
         /\ ~s.started => Mild(s, ResumeThread(s, id))
<1>1. s \in Scheduler /\ s.priority[id] \in Priorities
  BY DEF HasCurrent, Scheduler
<1>2. Mild(s, SuspendThread(s, id))
  <2>1. CASE s.state[id] \in {"Ready", "Running"}
    <3>1. DEFINE r == [s EXCEPT !.state[id] = "Blocked"]
    <3>2. r \in Scheduler /\ Mild(s, r)
      BY <1>1, <2>1 DEF Mild, Scheduler, ThreadStates
    <3>3. SuspendThread(s, id) = ClearReadyIfEmpty(r, s.priority[id])
      BY <2>1 DEF SuspendThread
    <3>4. HIDE DEF r
    <3>5. QED BY <1>1, <3>2, <3>3, SmallMild, MildComposes
  <2>2. CASE s.state[id] \notin {"Ready", "Running"}
    BY <2>2, MildSelf DEF SuspendThread
  <2>3. QED BY <2>1, <2>2
<1>3. Mild(s, UnblockThread(s, id))
  <2>1. CASE s.state[id] \in {"Blocked", "BlockedTimeout", "Sleeping"} /\ s.is_ipc_wait[id]
    <3>1. DEFINE r == [s EXCEPT !.ipc_error[id]   = "OK",
                                !.is_ipc_wait[id] = FALSE,
                                !.sleep_until[id] = 0]
    <3>2. r \in Scheduler /\ Mild(s, r) /\ r.state[id] # "Dead"
      BY <1>1, <2>1 DEF Mild, Scheduler, IpcResults
    <3>3. UnblockThread(s, id) = SetReady(r, id)
      BY <2>1 DEF UnblockThread
    <3>4. HIDE DEF r
    <3>5. QED BY <1>1, <3>2, <3>3, SmallMild, MildComposes
  <2>2. CASE ~(s.state[id] \in {"Blocked", "BlockedTimeout", "Sleeping"} /\ s.is_ipc_wait[id])
    BY <2>2, MildSelf DEF UnblockThread
  <2>3. QED BY <2>1, <2>2
<1>4. Shaped(s, ResumeThread(s, id)) /\ (~s.started => Mild(s, ResumeThread(s, id)))
  <2>1. CASE s.state[id] = "Blocked" /\ ~s.is_ipc_wait[id]
    <3>1. SetReady(s, id) \in Scheduler /\ Mild(s, SetReady(s, id))
      BY <1>1, <2>1, SmallTypes, SmallMild
    <3>2. s.started => s.current_id # NULL_ID
      BY IdsAreNats DEF HasCurrent
    <3>3. ResumeThread(s, id) = IF s.started THEN DoSchedule(SetReady(s, id))
                                ELSE SetReady(s, id)
      BY <2>1 DEF ResumeThread
    <3>4. QED BY <3>1, <3>2, <3>3 DEF Shaped
  <2>2. CASE ~(s.state[id] = "Blocked" /\ ~s.is_ipc_wait[id])
    <3>1. ResumeThread(s, id) = s
      BY <2>2 DEF ResumeThread
    <3>2. QED BY <1>1, <3>1, MildSelf DEF Shaped
  <2>3. QED BY <2>1, <2>2
<1>5. QED BY <1>2, <1>3, <1>4

LEMMA TickShape ==
  ASSUME NEW s, HasCurrent(s)
  PROVE  Shaped(s, TickAwake(WakeDue(s)))
<1>1. HasCurrent(WakeDue(s)) /\ Mild(s, WakeDue(s))
  <2>1. s \in Scheduler
    BY DEF HasCurrent
  <2>2. Mild(s, WakeDue(s))
    BY <2>1 DEF WakeDue, Wake, Due, Mild, Scheduler
  <2>3. QED BY <2>1, <2>2, WakeType DEF HasCurrent, Mild
<1>2. ASSUME NEW w, HasCurrent(w), w.current_id # NULL_ID
      PROVE  Shaped(w, Preempt(w))
  <2>1. w \in Scheduler /\ w.current_id \in ThreadIds
    BY <1>2 DEF HasCurrent, Scheduler
  <2>2. w.priority[w.current_id] \in Priorities
    BY <2>1 DEF Scheduler
  <2>3. DEFINE r == IF w.state[w.current_id] = "Running" THEN SetReady(w, w.current_id) ELSE w
  <2>4. r \in Scheduler /\ Mild(w, r)
    BY <2>1, <2>2, SmallTypes, SmallMild, MildSelf
  <2>5. Preempt(w) = DoSchedule(r)
    BY DEF Preempt
  <2>6. HIDE DEF r
  <2>7. QED BY <1>2, <2>4, <2>5 DEF Shaped
<1>3. ASSUME NEW w, HasCurrent(w)
      PROVE  Shaped(w, PreemptIfBetter(w))
  <2>1. Shaped(w, w)
    BY <1>3, MildSelf DEF Shaped, HasCurrent
  <2>2. w.current_id = NULL_ID => Shaped(w, Panic(w))
    BY <1>3, MildSelf DEF Shaped, HasCurrent
  <2>3. QED BY <1>2, <1>3, <2>1, <2>2 DEF PreemptIfBetter
<1>4. ASSUME NEW w, HasCurrent(w)
      PROVE  Shaped(w, TickAwake(w))
  <2>1. CASE w.current_id # NULL_ID /\ w.state[w.current_id] = "Running"
    <3>1. w \in Scheduler /\ w.current_id \in ThreadIds
      BY <1>4, <2>1 DEF HasCurrent, Scheduler
    <3>2. ASSUME NEW n \in Nat
          PROVE  LET r == [w EXCEPT !.tick[w.current_id] = n] IN
                 HasCurrent(r) /\ r.current_id # NULL_ID /\ Mild(w, r)
      BY <1>4, <2>1, <3>1 DEF HasCurrent, Mild, Scheduler
    <3>3. DEFINE left == IF w.tick[w.current_id] > 0 THEN w.tick[w.current_id] - 1 ELSE 0
    <3>4. left \in Nat /\ w.init_tick[w.current_id] \in Nat
      BY <3>1 DEF Scheduler
    <3>5. TickAwake(w) = IF left = 0
                         THEN Preempt([w EXCEPT !.tick[w.current_id] = w.init_tick[w.current_id]])
                         ELSE PreemptIfBetter([w EXCEPT !.tick[w.current_id] = left])
      BY <2>1 DEF TickAwake
    <3>6. HIDE DEF left
    <3>7. QED BY <1>2, <1>3, <3>2, <3>4, <3>5, MildThenShaped
  <2>2. CASE ~(w.current_id # NULL_ID /\ w.state[w.current_id] = "Running")
    <3>1. TickAwake(w) = PreemptIfBetter(w)
      BY <2>2 DEF TickAwake
    <3>2. QED BY <1>3, <1>4, <3>1
  <2>3. QED BY <2>1, <2>2
<1>5. QED BY <1>1, <1>4, MildThenShaped

-----------------------------------------------------------------------------
(* Nothing panics while no thread exits: the executing thread keeps its    *)
(* slot, and before sched_start a Ready thread is seen by pick_next.       *)

Alive(s) ==
  /\ HasCurrent(s) /\ ~s.panicked
  /\ s.started => s.state[s.current_id] # "Dead"
  /\ ~s.started => /\ s.current_id = NULL_ID
                   /\ HasBits(s) /\ AllBacked(s)
                   /\ \A t \in ThreadIds : s.state[t] # "Running"

LEMMA ShapedAlive ==
  ASSUME NEW s, Alive(s), s.started, NEW r, HasCurrent(r), Shaped(s, r)
  PROVE  Alive(r)
<1>1. s.current_id \in ThreadIds /\ s.current_id # NULL_ID
  BY IdsAreNats DEF Alive, HasCurrent
<1>2. PICK m \in Scheduler : Mild(s, m) /\ (r = m \/ r = DoSchedule(m))
  BY <1>1 DEF Shaped
<1>3. /\ m.started /\ ~m.panicked /\ m.current_id = s.current_id
      /\ m.state[m.current_id] # "Dead"
  BY <1>1, <1>2 DEF Mild, Alive
<1>4. CASE r = m
  BY <1>3, <1>4 DEF Alive
<1>5. CASE r = DoSchedule(m) /\ PickNext(m) = NULL_ID
  BY <1>3, <1>5, DoScheduleChanges DEF Alive
<1>6. CASE r = DoSchedule(m) /\ PickNext(m) # NULL_ID
  <2>1. PickNext(m) \in ThreadIds
    BY <1>2, <1>6, PickNextReady
  <2>2. /\ r.current_id = PickNext(m) /\ ~r.panicked /\ r.started
        /\ r.state = [m.state EXCEPT ![PickNext(m)] = "Running"]
    BY <1>1, <1>2, <1>3, <1>6, DoScheduleChanges
  <2>3. r.state[r.current_id] = "Running"
    BY <1>2, <2>1, <2>2 DEF Scheduler
  <2>4. QED BY <2>2, <2>3 DEF Alive
<1>7. QED BY <1>2, <1>4, <1>5, <1>6

\* Calls before sched_start, and calls that touch other slots.
LEMMA QuietAlive ==
  ASSUME NEW s, Alive(s), NEW r, HasCurrent(r),
         HasBits(s) => HasBits(r), AllBacked(s) => AllBacked(r),
         r.current_id = s.current_id, r.started = s.started, r.panicked = s.panicked,
         \A t \in ThreadIds : /\ r.state[t] = "Running" => s.state[t] = "Running"
                              /\ r.state[t] = "Dead" /\ t = s.current_id => s.state[t] = "Dead"
  PROVE  Alive(r)
  BY DEF Alive, HasCurrent

LEMMA CreateAlive ==
  ASSUME NEW s, Alive(s), NEW prof \in Profiles,
         \E t \in ThreadIds : s.state[t] = "Dead"
  PROVE  Alive(CreateThread(s, prof))
<1>1. s \in Scheduler
  BY DEF Alive, HasCurrent
<1>2. PICK id \in ThreadIds : CreateThread(s, prof) = PutThread(s, id, prof)
  BY <1>1, CreateType DEF CreateThread
<1>3. DEFINE r == PutThread(s, id, prof)
<1>4. r \in Scheduler
  BY <1>1, <1>2, CreateType
<1>5. /\ r.current_id = s.current_id /\ r.started = s.started /\ r.panicked = s.panicked
      /\ r.state[id] = "Ready"
      /\ \A t \in ThreadIds \ {id} : r.state[t] = s.state[t]
  BY <1>1 DEF PutThread, Scheduler
<1>6. (HasBits(s) => HasBits(r)) /\ (AllBacked(s) => AllBacked(r))
  BY <1>1, <1>2, CreateBits
<1>7. HIDE DEF r
<1>8. HasCurrent(r)
  BY <1>4, <1>5 DEF Alive, HasCurrent
<1>9. Alive(r)
  BY <1>5, <1>6, <1>8, QuietAlive
<1>10. QED BY <1>2, <1>9 DEF r

LEMMA StartAlive ==
  ASSUME NEW s, Alive(s), ~s.started, ReadyAt(s, IdlePriority) # {}
  PROVE  Alive(StartScheduler(s))
<1>1. s \in Scheduler /\ HasBits(s) /\ AllBacked(s)
  BY DEF Alive, HasCurrent
<1>2. /\ s.ready_bitmap \in SUBSET Nat
      /\ IdlePriority \in s.ready_bitmap
  <2>1. PICK t \in ThreadIds : s.state[t] = "Ready" /\ s.priority[t] = IdlePriority
    BY DEF ReadyAt
  <2>2. QED BY <1>1, <2>1, IdsAreNats DEF Scheduler, HasBits
<1>3. Min(s.ready_bitmap) \in s.ready_bitmap
  BY <1>2, MinOfNats
<1>4. ReadyAt(s, Min(s.ready_bitmap)) # {}
  BY <1>1, <1>3 DEF Alive, AllBacked, Backed, Runnable, ReadyAt
<1>5. PickNext(s) \in ThreadIds
  <2>1. ReadyAt(s, Min(s.ready_bitmap)) \in SUBSET ThreadIds
    BY DEF ReadyAt
  <2>2. QED BY <1>2, <1>4, <2>1, NextAfterIn DEF PickNext
<1>6. PickNext(s) # NULL_ID
  BY <1>5, IdsAreNats
<1>7. StartScheduler(s) =
        [Dispatch(s, PickNext(s)) EXCEPT !.current_id = PickNext(s), !.started = TRUE]
  BY <1>6 DEF StartScheduler
<1>8. DEFINE r == StartScheduler(s)
<1>9. /\ r.state = [s.state EXCEPT ![PickNext(s)] = "Running"]
      /\ r.started /\ r.current_id = PickNext(s) /\ r.panicked = s.panicked
  BY <1>1, <1>5, <1>7, DispatchChanges
<1>10. r.state[r.current_id] = "Running" /\ r \in Scheduler
  BY <1>1, <1>5, <1>9, StartType DEF Scheduler
<1>11. HIDE DEF r
<1>12. Alive(r)
  BY <1>5, <1>9, <1>10 DEF Alive, HasCurrent
<1>13. QED BY <1>12 DEF r

LEMMA OthersAlive ==
  ASSUME NEW s, Alive(s), NEW id \in ThreadIds
  PROVE  /\ id # s.current_id => Alive(DeleteThread(s, id))
         /\ Alive(SuspendThread(s, id))
         /\ Alive(ResumeThread(s, id))
         /\ Alive(UnblockThread(s, id))
<1>1. s \in Scheduler /\ HasCurrent(s) /\ s.priority[id] \in Priorities
  BY DEF Alive, HasCurrent, Scheduler
<1>2. /\ HasCurrent(DeleteThread(s, id)) /\ HasCurrent(SuspendThread(s, id))
      /\ HasCurrent(ResumeThread(s, id)) /\ HasCurrent(UnblockThread(s, id))
  BY <1>1, CallsOnOthersKeepCurrent
<1>3. ASSUME id # s.current_id PROVE Alive(DeleteThread(s, id))
  <2>1. DEFINE m == EmptySlot(s, id)
               r == ClearReadyIfEmpty(m, s.priority[id])
  <2>2. /\ m \in Scheduler /\ m.current_id = s.current_id
        /\ m.started = s.started /\ m.panicked = s.panicked /\ m.state[id] = "Dead"
        /\ \A t \in ThreadIds \ {id} : m.state[t] = s.state[t]
    <3>1. m \in Scheduler
      BY <1>1, SmallTypes
    <3>2. QED BY <1>1, <3>1 DEF EmptySlot, Scheduler
  <2>3. DeleteThread(s, id) = r
    BY DEF DeleteThread
  <2>4. HIDE DEF m
  <2>5. Mild(m, r)
    BY <1>1, <2>2, SmallMild
  <2>6. (HasBits(s) => HasBits(r)) /\ (AllBacked(s) => AllBacked(r))
    BY <1>1, <2>3, CallsOnOthersBits
  <2>7. HIDE DEF r
  <2>8. /\ r.current_id = s.current_id /\ r.started = s.started /\ r.panicked = s.panicked
        /\ \A t \in ThreadIds :
             /\ r.state[t] = "Running" => s.state[t] = "Running"
             /\ r.state[t] = "Dead" /\ t = s.current_id => s.state[t] = "Dead"
    BY <1>3, <2>2, <2>5 DEF Mild
  <2>9. QED BY <1>2, <2>3, <2>6, <2>8, QuietAlive
<1>4. ASSUME NEW r, HasCurrent(r), Mild(s, r),
             HasBits(s) => HasBits(r), AllBacked(s) => AllBacked(r)
      PROVE  Alive(r)
  BY <1>4, QuietAlive DEF Mild
<1>5. Alive(SuspendThread(s, id)) /\ Alive(UnblockThread(s, id))
  <2>1. Mild(s, SuspendThread(s, id)) /\ Mild(s, UnblockThread(s, id))
    BY <1>1, CallsOnOthersShape
  <2>2. /\ HasBits(s) => HasBits(SuspendThread(s, id)) /\ HasBits(UnblockThread(s, id))
        /\ AllBacked(s) => AllBacked(SuspendThread(s, id)) /\ AllBacked(UnblockThread(s, id))
    BY <1>1, CallsOnOthersBits
  <2>3. QED BY <1>2, <1>4, <2>1, <2>2
<1>6. Alive(ResumeThread(s, id))
  <2>1. CASE s.started
    BY <1>1, <1>2, <2>1, CallsOnOthersShape, ShapedAlive
  <2>2. CASE ~s.started
    <3>1. Mild(s, ResumeThread(s, id))
      BY <1>1, <2>2, CallsOnOthersShape
    <3>2. /\ HasBits(s) => HasBits(ResumeThread(s, id))
          /\ AllBacked(s) => AllBacked(ResumeThread(s, id))
      BY <1>1, CallsOnOthersBits
    <3>3. QED BY <1>2, <1>4, <3>1, <3>2
  <2>3. QED BY <2>1, <2>2
<1>7. QED BY <1>3, <1>5, <1>6

LEMMA NextAlive ==
  ASSUME Alive(sched), [Next]_vars, KeepIdle,
         "exit" \notin Api, "early_tick" \notin Api
  PROVE  Alive(sched)'
<1>1. HasCurrent(sched) /\ HasCurrent(sched')
  BY NextKeepsCurrent DEF Alive
<1>2. CASE Create
  BY <1>2, CreateAlive DEF Create
<1>3. CASE Start
  BY <1>3, StartAlive DEF Start
<1>4. CASE Yield
  BY <1>1, <1>4, CallsShape, ShapedAlive, 0 \in Nat DEF Yield, Executing
<1>5. CASE Sleep
  BY <1>1, <1>5, CallsShape, ShapedAlive, SchedulerAssumption DEF Sleep, Executing
<1>6. CASE Delete
  BY <1>6, OthersAlive DEF Delete
<1>7. CASE Suspend
  BY <1>7, OthersAlive DEF Suspend
<1>8. CASE Resume
  BY <1>8, OthersAlive DEF Resume
<1>9. CASE Exit
  BY <1>9 DEF Exit
<1>10. CASE Block
  BY <1>1, <1>10, CallsShape, ShapedAlive, SchedulerAssumption, 0 \in Nat DEF Block, Executing
<1>11. CASE Unblock
  BY <1>11, OthersAlive DEF Unblock
<1>12. CASE Tick
  BY <1>1, <1>12, TickShape, ShapedAlive DEF Tick
<1>13. CASE UNCHANGED vars
  BY <1>13 DEF vars
<1>14. QED BY <1>2, <1>3, <1>4, <1>5, <1>6, <1>7, <1>8, <1>9, <1>10, <1>11,
               <1>12, <1>13 DEF Next

LEMMA InitAlive == Init => Alive(sched)
  BY InitHasCurrent DEF Init, NewScheduler, Alive, HasBits, AllBacked

\* With an idle thread, the timer enabled at sched_start and nobody calling
\* thread_exit, no index into the thread table fails and no empty slot is
\* switched from or to (thread.rs:246, 296, 539).
THEOREM WithoutExitNoPanic ==
  ASSUME KeepIdle, "exit" \notin Api, "early_tick" \notin Api
  PROVE  Spec => []NoPanic
<1>1. Alive(sched) => NoPanic
  BY DEF Alive, NoPanic
<1>2. QED BY <1>1, InitAlive, NextAlive, PTL DEF Spec

\* Without yields either, deletion, suspension, resumption, blocking and
\* preemption in any order hide no Ready thread (thread.rs:144, 171-246).
THEOREM NothingGetsHidden ==
  ASSUME KeepIdle, "exit" \notin Api, "early_tick" \notin Api, "yield" \notin Api
  PROVE  RRSpec => []NothingHidden
<1>1. RRInit => Alive(sched) /\ HasBits(sched)
  BY InitAlive DEF RRInit, Init, NewScheduler, HasBits
<1>2. Alive(sched) /\ HasBits(sched) /\ [RRNext]_rrVars => Alive(sched)' /\ HasBits(sched)'
  <2>1. [RRNext]_rrVars => [Next]_vars
    BY DEF RRNext, rrVars, vars
  <2>2. QED BY <2>1, NextAlive, NextBits DEF Alive
<1>3. Alive(sched) /\ HasBits(sched) => NothingHidden
  BY DEF Alive, HasBits, NothingHidden, NoPanic, ReadyHasBit
<1>4. QED BY <1>1, <1>2, <1>3, PTL DEF RRSpec

-----------------------------------------------------------------------------
(* Round robin: the cyclic order of the ids, as pick_next walks it.        *)

\* Starting after the cursor c, u comes before t.
Before(c, u, t) ==
  IF c = NULL_ID THEN u < t
  ELSE (c < u /\ u < t) \/ (u < t /\ t <= c) \/ (t <= c /\ c < u)

\* Starting after t, v comes no later than c: the cursor has passed v since it
\* last passed t.
Passed(t, v, c) == (t < v /\ v <= c) \/ (c < t /\ t < v) \/ (v <= c /\ c < t)

LEMMA NextAfterBefore ==
  ASSUME NEW T \in SUBSET ThreadIds, NEW c \in ThreadIds \cup {NULL_ID}, NEW t \in T,
         NextAfter(c, T) # t
  PROVE  Before(c, NextAfter(c, T), t)
<1>1. ThreadIds \subseteq Nat /\ NULL_ID \in Nat /\ T \in SUBSET Nat
  BY IdsAreNats DEF NULL_ID
<1>2. DEFINE later == {x \in T : c # NULL_ID /\ x > c}
<1>3. later \in SUBSET Nat
  BY <1>1
<1>4. later # {} => Min(later) \in later /\ \A y \in later : Min(later) <= y
  BY <1>3, MinOfNats
<1>5. Min(T) \in T /\ \A y \in T : Min(T) <= y
  BY <1>1, MinOfNats
<1>6. NextAfter(c, T) = IF later # {} THEN Min(later) ELSE Min(T)
  BY DEF NextAfter
<1>7. \A x : x \in later <=> x \in T /\ c # NULL_ID /\ x > c
  OBVIOUS
<1>8. DEFINE u == NextAfter(c, T)
<1>9. HIDE DEF later, u
<1>10. u # t /\ t \in T /\ t \in Nat /\ c \in Nat
  BY <1>1 DEF u
<1>11. CASE later # {}
  <2>1. u \in Nat /\ c # NULL_ID /\ u > c /\ (t > c => u <= t)
    BY <1>1, <1>4, <1>6, <1>7, <1>10, <1>11 DEF u
  <2>2. (c < u /\ u < t) \/ (t <= c /\ c < u)
    BY <1>10, <2>1
  <2>3. Before(c, u, t)
    BY <1>10, <2>1, <2>2 DEF Before
  <2>4. QED BY <2>3 DEF u
<1>12. CASE later = {}
  <2>1. u \in Nat /\ u <= t /\ (c = NULL_ID \/ ~(t > c))
    BY <1>1, <1>5, <1>6, <1>7, <1>10, <1>12 DEF u
  <2>2. u < t /\ (c = NULL_ID \/ t <= c)
    BY <1>10, <2>1
  <2>3. Before(c, u, t)
    BY <1>10, <2>1, <2>2 DEF Before
  <2>4. QED BY <2>3 DEF u
<1>13. QED BY <1>11, <1>12

\* A turn: the cursors stay, or the thread picked is the first Ready one after
\* the cursor of its priority, which then moves to it.
Turn(s, r) ==
  /\ \A t \in ThreadIds :
       s.state[t] # "Dead" /\ r.state[t] # "Dead" => r.priority[t] = s.priority[t]
  /\ \/ r.rr_cursor = s.rr_cursor /\ r.current_id = s.current_id
     \/ \E u \in ThreadIds :
          /\ r.rr_cursor = [s.rr_cursor EXCEPT ![r.priority[u]] = u]
          /\ r.current_id \in {u, s.current_id}
          /\ \A t \in ThreadIds :
               r.state[t] = "Ready" /\ r.priority[t] = r.priority[u]
                 => u # t /\ Before(s.rr_cursor[r.priority[u]], u, t)

\* Dispatch of the thread picked is a turn, as do_schedule or sched_start.
LEMMA DispatchTurn ==
  ASSUME NEW s \in Scheduler, PickNext(s) # NULL_ID, NEW r,
         r.state = [s.state EXCEPT ![PickNext(s)] = "Running"],
         r.priority = s.priority,
         r.rr_cursor = [s.rr_cursor EXCEPT ![s.priority[PickNext(s)]] = PickNext(s)],
         r.current_id \in {PickNext(s), s.current_id}
  PROVE  Turn(s, r)
<1>1. DEFINE u == PickNext(s)
             p == s.priority[u]
<1>2. u \in ThreadIds /\ p = Min(s.ready_bitmap) /\ s.ready_bitmap # {}
  BY PickNextReady
<1>3. p \in Priorities
  BY <1>2 DEF Scheduler
<1>4. u = NextAfter(s.rr_cursor[p], ReadyAt(s, p)) /\ ReadyAt(s, p) # {}
  BY <1>2 DEF PickNext
<1>5. HIDE DEF u
<1>6. r.priority = s.priority /\ \A t \in ThreadIds :
        r.state[t] = IF t = u THEN "Running" ELSE s.state[t]
  BY <1>2 DEF u, Scheduler
<1>7. ASSUME NEW t \in ThreadIds, r.state[t] = "Ready", r.priority[t] = p
      PROVE  u # t /\ Before(s.rr_cursor[p], u, t)
  <2>1. t # u /\ t \in ReadyAt(s, p)
    BY <1>6, <1>7 DEF ReadyAt
  <2>2. ReadyAt(s, p) \in SUBSET ThreadIds /\ s.rr_cursor[p] \in ThreadIds \cup {NULL_ID}
    BY <1>3 DEF ReadyAt, Scheduler
  <2>3. QED BY <1>4, <2>1, <2>2, NextAfterBefore
<1>8. r.rr_cursor = [s.rr_cursor EXCEPT ![p] = u] /\ r.current_id \in {u, s.current_id}
  BY DEF u
<1>9. QED BY <1>2, <1>6, <1>7, <1>8 DEF Turn

LEMMA DoScheduleTurn ==
  ASSUME NEW s \in Scheduler
  PROVE  /\ Turn(s, DoSchedule(s))
         /\ \A t \in ThreadIds : DoSchedule(s).state[t] = "Dead" <=> s.state[t] = "Dead"
<1>1. CASE PickNext(s) = NULL_ID
  BY <1>1, DoScheduleChanges DEF Turn
<1>2. CASE PickNext(s) # NULL_ID
  <2>1. PickNext(s) \in ThreadIds /\ s.state[PickNext(s)] = "Ready"
    BY <1>2, PickNextReady
  <2>2. /\ DoSchedule(s).state = [s.state EXCEPT ![PickNext(s)] = "Running"]
        /\ DoSchedule(s).priority = s.priority
    BY <1>2, DoScheduleChanges
  <2>3. \A t \in ThreadIds : DoSchedule(s).state[t] = "Dead" <=> s.state[t] = "Dead"
    BY <2>1, <2>2 DEF Scheduler
  <2>4. CASE PickNext(s) = s.current_id
    <3>1. DoSchedule(s) = [s EXCEPT !.state[PickNext(s)] = "Running"]
      BY <1>2, <2>4 DEF DoSchedule
    <3>2. /\ DoSchedule(s).rr_cursor = s.rr_cursor
          /\ DoSchedule(s).current_id = s.current_id
      BY <3>1 DEF Scheduler
    <3>3. QED BY <2>2, <2>3, <3>2 DEF Turn
  <2>5. CASE PickNext(s) # s.current_id
    <3>1. /\ DoSchedule(s).rr_cursor =
               [s.rr_cursor EXCEPT ![s.priority[PickNext(s)]] = PickNext(s)]
          /\ DoSchedule(s).current_id \in {PickNext(s), s.current_id}
      BY <1>2, <2>1, <2>5 DEF DoSchedule, Dispatch, Panic, Scheduler
    <3>2. QED BY <1>2, <2>2, <2>3, <3>1, DispatchTurn
  <2>6. QED BY <2>3, <2>4, <2>5
<1>3. QED BY <1>1, <1>2

\* What a call changes first, a slot it fills or empties included, does not
\* disturb the turn.
LEMMA TurnAfter ==
  ASSUME NEW s, NEW m, NEW r, Turn(m, r),
         m.rr_cursor = s.rr_cursor, m.current_id = s.current_id,
         \A t \in ThreadIds :
           s.state[t] # "Dead" /\ m.state[t] # "Dead" => m.priority[t] = s.priority[t],
         \A t \in ThreadIds : r.state[t] = "Dead" <=> m.state[t] = "Dead"
  PROVE  Turn(s, r)
  BY DEF Turn

LEMMA MildTurn ==
  ASSUME NEW s, NEW r, Mild(s, r)
  PROVE  Turn(s, r)
  BY DEF Mild, Turn

LEMMA ShapedTurn ==
  ASSUME NEW s, NEW r, Shaped(s, r)
  PROVE  Turn(s, r)
<1>1. PICK m \in Scheduler : Mild(s, m) /\ r \in {m, DoSchedule(m), Panic(m)}
  BY DEF Shaped
<1>2. CASE r = m
  BY <1>1, <1>2, MildTurn
<1>3. CASE r = Panic(m)
  BY <1>1, <1>3 DEF Panic, Mild, Turn, Scheduler
<1>4. CASE r = DoSchedule(m)
  BY <1>1, <1>4, DoScheduleTurn, TurnAfter DEF Mild
<1>5. QED BY <1>1, <1>2, <1>3, <1>4

\* Deletion and exit, the thread creation and sched_start.
LEMMA SlotTurn ==
  ASSUME NEW s \in Scheduler, NEW id \in ThreadIds
  PROVE  Turn(s, DeleteThread(s, id)) /\ Turn(s, DoSchedule(DeleteThread(s, id)))
<1>1. DEFINE m == EmptySlot(s, id)
             r == ClearReadyIfEmpty(m, s.priority[id])
<1>2. s.priority[id] \in Priorities
  BY DEF Scheduler
<1>3. m \in Scheduler /\ r \in Scheduler
  BY <1>2, SmallTypes
<1>4. /\ m.rr_cursor = s.rr_cursor /\ m.current_id = s.current_id
      /\ m.state[id] = "Dead"
      /\ \A t \in ThreadIds \ {id} : m.priority[t] = s.priority[t]
  BY DEF EmptySlot, Scheduler
<1>5. DeleteThread(s, id) = r
  BY DEF DeleteThread
<1>6. HIDE DEF m
<1>7. Mild(m, r)
  BY <1>2, <1>3, SmallMild, 0 \in Nat, TRUE \in BOOLEAN
<1>8. HIDE DEF r
<1>9. /\ r.rr_cursor = s.rr_cursor /\ r.current_id = s.current_id
      /\ \A t \in ThreadIds :
           s.state[t] # "Dead" /\ r.state[t] # "Dead" => r.priority[t] = s.priority[t]
  BY <1>4, <1>7 DEF Mild
<1>10. Turn(s, r)
  BY <1>9 DEF Turn
<1>11. Turn(s, DoSchedule(r))
  BY <1>3, <1>9, DoScheduleTurn, TurnAfter
<1>12. QED BY <1>5, <1>10, <1>11

LEMMA CreateTurn ==
  ASSUME NEW s \in Scheduler, NEW prof \in Profiles,
         \E t \in ThreadIds : s.state[t] = "Dead"
  PROVE  Turn(s, CreateThread(s, prof))
<1>1. PICK id \in ThreadIds : /\ s.state[id] = "Dead"
                             /\ CreateThread(s, prof) = PutThread(s, id, prof)
  BY CreateType DEF CreateThread
<1>2. DEFINE r == PutThread(s, id, prof)
<1>3. /\ r.rr_cursor = s.rr_cursor /\ r.current_id = s.current_id
      /\ \A t \in ThreadIds \ {id} : r.priority[t] = s.priority[t]
  BY DEF PutThread, Scheduler
<1>4. HIDE DEF r
<1>5. Turn(s, r)
  BY <1>1, <1>3 DEF Turn
<1>6. QED BY <1>1, <1>5 DEF r

LEMMA StartTurn ==
  ASSUME NEW s \in Scheduler
  PROVE  Turn(s, StartScheduler(s))
<1>1. CASE PickNext(s) = NULL_ID
  BY <1>1 DEF StartScheduler, Panic, Turn, Scheduler
<1>2. CASE PickNext(s) # NULL_ID
  <2>1. PickNext(s) \in ThreadIds
    BY <1>2, PickNextReady
  <2>2. StartScheduler(s) =
          [Dispatch(s, PickNext(s)) EXCEPT !.current_id = PickNext(s), !.started = TRUE]
    BY <1>2 DEF StartScheduler
  <2>3. DEFINE r == StartScheduler(s)
  <2>4. /\ r.state = [s.state EXCEPT ![PickNext(s)] = "Running"]
        /\ r.priority = s.priority /\ r.current_id = PickNext(s)
    BY <2>1, <2>2, DispatchChanges
  <2>5. r.rr_cursor = [s.rr_cursor EXCEPT ![s.priority[PickNext(s)]] = PickNext(s)]
    BY <2>1, <2>2 DEF Dispatch, Scheduler
  <2>6. HIDE DEF r
  <2>7. Turn(s, r)
    BY <1>2, <2>4, <2>5, DispatchTurn
  <2>8. QED BY <2>7 DEF r
<1>3. QED BY <1>1, <1>2

LEMMA NextTurn ==
  ASSUME HasCurrent(sched), [Next]_vars
  PROVE  Turn(sched, sched')
<1>1. sched \in Scheduler
  BY DEF HasCurrent
<1>2. CASE Create
  BY <1>1, <1>2, CreateTurn DEF Create
<1>3. CASE Start
  BY <1>1, <1>3, StartTurn DEF Start
<1>4. CASE Yield
  BY <1>4, CallsShape, ShapedTurn, 0 \in Nat DEF Yield, Executing
<1>5. CASE Sleep
  BY <1>5, CallsShape, ShapedTurn, SchedulerAssumption DEF Sleep, Executing
<1>6. CASE Delete
  BY <1>1, <1>6, SlotTurn DEF Delete
<1>7. CASE Suspend
  BY <1>7, CallsOnOthersShape, MildTurn DEF Suspend
<1>8. CASE Resume
  BY <1>8, CallsOnOthersShape, ShapedTurn DEF Resume
<1>9. CASE Exit
  <2>1. sched.current_id \in ThreadIds
    BY <1>9 DEF Exit, Executing, HasCurrent
  <2>2. sched' = DoSchedule(DeleteThread(sched, sched.current_id))
    BY <1>9 DEF Exit, ExitCurrent, DeleteThread
  <2>3. QED BY <1>1, <2>1, <2>2, SlotTurn
<1>10. CASE Block
  BY <1>10, CallsShape, ShapedTurn, SchedulerAssumption, 0 \in Nat DEF Block, Executing
<1>11. CASE Unblock
  BY <1>11, CallsOnOthersShape, MildTurn DEF Unblock
<1>12. CASE Tick
  BY <1>12, TickShape, ShapedTurn DEF Tick
<1>13. CASE UNCHANGED vars
  BY <1>13 DEF vars, Turn
<1>14. QED BY <1>2, <1>3, <1>4, <1>5, <1>6, <1>7, <1>8, <1>9, <1>10, <1>11,
               <1>12, <1>13 DEF Next

-----------------------------------------------------------------------------
(* The invariant of the history: whoever was given the CPU while t waited  *)
(* has been passed by the cursor since it passed t.                        *)

ServedPassed ==
  /\ served \in [ThreadIds -> SUBSET ThreadIds]
  /\ \A t \in ThreadIds : served[t] # {} =>
       /\ sched.state[t] = "Ready"
       /\ sched.rr_cursor[sched.priority[t]] # NULL_ID
       /\ \A v \in served[t] : Passed(t, v, sched.rr_cursor[sched.priority[t]])

\* The cursor moves on to u, which the cyclic order puts before t.
LEMMA PassedMoves ==
  ASSUME NEW t \in Nat, NEW v \in Nat, NEW c \in Nat, NEW u \in Nat,
         c # NULL_ID, Before(c, u, t), Passed(t, v, c)
  PROVE  Passed(t, v, u) /\ v # u
  BY DEF Before, Passed

LEMMA NextServed ==
  ASSUME HasCurrent(sched), HasCurrent(sched'), ServedPassed, RRNext, NEW t \in ThreadIds
  PROVE  /\ served'[t] \in SUBSET ThreadIds
         /\ served'[t] # {} =>
              /\ sched'.state[t] = "Ready"
              /\ sched'.rr_cursor[sched'.priority[t]] # NULL_ID
              /\ \A v \in served'[t] : Passed(t, v, sched'.rr_cursor[sched'.priority[t]])
         /\ sched.state[t] = "Ready" /\ sched'.state[t] = "Ready"
               /\ GivesCpuAt(sched'.priority[t])
              => sched'.current_id \notin served[t]
<1>1. Turn(sched, sched')
  BY NextTurn DEF RRNext
<1>2. sched \in Scheduler /\ sched' \in Scheduler
  BY DEF HasCurrent
<1>3. ThreadIds \subseteq Nat /\ NULL_ID \notin ThreadIds
  BY IdsAreNats
<1>4. DEFINE p == sched'.priority[t]
             c == sched.rr_cursor[p]
<1>5. p \in Priorities /\ c \in ThreadIds \cup {NULL_ID}
  BY <1>2 DEF Scheduler
<1>6. served'[t] = IF sched'.state[t] # "Ready" THEN {}
                   ELSE IF GivesCpuAt(p) THEN served[t] \cup {sched'.current_id}
                   ELSE served[t]
  BY DEF RRNext
<1>7. CASE sched'.state[t] # "Ready"
  BY <1>6, <1>7
<1>8. CASE sched'.state[t] = "Ready"
  <2>1. served[t] \in SUBSET ThreadIds
    BY DEF ServedPassed
  <2>2. \A v \in served[t] : c # NULL_ID /\ Passed(t, v, c)
    <3>1. SUFFICES ASSUME served[t] # {} PROVE \A v \in served[t] : c # NULL_ID /\ Passed(t, v, c)
      OBVIOUS
    <3>2. /\ sched.state[t] = "Ready"
          /\ sched.rr_cursor[sched.priority[t]] # NULL_ID
          /\ \A v \in served[t] : Passed(t, v, sched.rr_cursor[sched.priority[t]])
      BY <3>1 DEF ServedPassed
    <3>3. p = sched.priority[t]
      BY <1>1, <1>8, <3>2 DEF Turn
    <3>4. QED BY <3>2, <3>3
  <2>3. CASE sched'.rr_cursor = sched.rr_cursor /\ sched'.current_id = sched.current_id
    <3>1. ~GivesCpuAt(p)
      BY <2>3 DEF GivesCpuAt
    <3>2. served'[t] = served[t]
      BY <1>6, <1>8, <3>1
    <3>3. QED BY <1>8, <2>1, <2>2, <2>3, <3>1, <3>2
  <2>4. CASE ~(sched'.rr_cursor = sched.rr_cursor /\ sched'.current_id = sched.current_id)
    <3>1. PICK u \in ThreadIds :
            /\ sched'.rr_cursor = [sched.rr_cursor EXCEPT ![sched'.priority[u]] = u]
            /\ sched'.current_id \in {u, sched.current_id}
            /\ sched'.priority[u] = p => u # t /\ Before(c, u, t)
      BY <1>1, <1>8, <2>4 DEF Turn
    <3>2. GivesCpuAt(p) => sched'.current_id = u /\ sched'.priority[u] = p
      BY <3>1 DEF GivesCpuAt
    <3>3. CASE sched'.priority[u] = p
      <4>1. sched'.rr_cursor[p] = u
        BY <1>2, <1>5, <3>1, <3>3 DEF Scheduler
      <4>2. u # t /\ Before(c, u, t)
        BY <3>1, <3>3
      <4>3. \A v \in served[t] : Passed(t, v, u) /\ v # u
        BY <1>3, <1>5, <2>1, <2>2, <4>2, PassedMoves
      <4>4. Passed(t, u, u)
        <5>1. t \in Nat /\ u \in Nat /\ u # t
          BY <1>3, <4>2
        <5>2. QED BY <5>1 DEF Passed
      <4>5. served'[t] \in {served[t], served[t] \cup {u}}
        BY <1>6, <1>8, <3>2
      <4>6. QED BY <1>3, <1>8, <2>1, <3>2, <4>1, <4>3, <4>4, <4>5
    <3>4. CASE sched'.priority[u] # p
      <4>1. sched'.rr_cursor[p] = c
        BY <1>2, <1>5, <3>1, <3>4 DEF Scheduler
      <4>2. ~GivesCpuAt(p) /\ served'[t] = served[t]
        BY <1>6, <1>8, <3>2, <3>4
      <4>3. QED BY <1>8, <2>1, <2>2, <4>1, <4>2
    <3>5. QED BY <3>3, <3>4
  <2>5. QED BY <2>3, <2>4
<1>9. QED BY <1>7, <1>8

\* Whatever the application calls and whenever ticks fall, a Ready thread sees
\* no other thread of its priority get the CPU twice before it does
\* (docs/THREADING.md:59, thread.rs:181-215).
THEOREM RoundRobinIsFair == RRSpec => BoundedBypass
<1>1. RRInit => HasCurrent(sched) /\ ServedPassed
  BY InitHasCurrent DEF RRInit, ServedPassed
<1>2. ASSUME HasCurrent(sched), ServedPassed, [RRNext]_rrVars
      PROVE  /\ HasCurrent(sched)' /\ ServedPassed'
             /\ [\A t \in ThreadIds :
                   /\ sched.state[t] = "Ready" /\ sched'.state[t] = "Ready"
                   /\ GivesCpuAt(sched'.priority[t])
                   => sched'.current_id \notin served[t]]_rrVars
  <2>1. CASE RRNext
    <3>1. HasCurrent(sched)'
      BY <1>2, <2>1, NextKeepsCurrent DEF RRNext
    <3>2. served' \in [ThreadIds -> SUBSET ThreadIds]
      <4>1. \A t \in ThreadIds : served'[t] \in SUBSET ThreadIds
        BY <1>2, <2>1, <3>1, NextServed
      <4>2. QED BY <2>1, <4>1 DEF RRNext
    <3>3. ServedPassed'
      BY <1>2, <2>1, <3>1, <3>2, NextServed DEF ServedPassed
    <3>4. QED BY <1>2, <2>1, <3>1, <3>3, NextServed
  <2>2. CASE UNCHANGED rrVars
    BY <1>2, <2>2 DEF rrVars, ServedPassed
  <2>3. QED BY <1>2, <2>1, <2>2
<1>3. QED BY <1>1, <1>2, PTL DEF RRSpec, BoundedBypass
=============================================================================
