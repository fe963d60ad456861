--------------------------- MODULE SchedulerProofs ---------------------------
(***************************************************************************)
(* Proofs about the scheduler for every table size, number of priorities,  *)
(* set of thread profiles, durations and tick bound: its type, the ready   *)
(* bitmap against the thread states, and whom pick_next returns.           *)
(***************************************************************************)
EXTENDS Scheduler, WellFoundedInduction, TLAPS

-----------------------------------------------------------------------------
(* Least elements: what Min, and with it trailing_zeros, returns.          *)

\* The order of the naturals as a well-founded relation.
LEMMA NatOrder ==
  \E rel : /\ IsWellFoundedOn(rel, Nat)
           /\ \A x, y \in Nat : x < y => <<x, y>> \in rel
<1>1. \A x, y \in Nat : x < y => <<x, y>> \in OpToRel(<, Nat)
  BY Zenon DEF OpToRel
<1>2. QED BY <1>1, NatLessThanWellFounded, Zenon

\* A nonempty set of naturals has a least element, and Min is it.
LEMMA MinOfNats ==
  ASSUME NEW S \in SUBSET Nat, S # {}
  PROVE  Min(S) \in S /\ \A y \in S : Min(S) <= y
<1>1. PICK rel : /\ IsWellFoundedOn(rel, Nat)
                 /\ \A x, y \in Nat : x < y => <<x, y>> \in rel
  BY NatOrder
<1>2. S \subseteq Nat
  OBVIOUS
<1>3. PICK m \in S : \A y \in S : ~(<<y, m>> \in rel)
  <2>1. IsWellFoundedOn(rel, Nat)
    BY <1>1
  <2>2. QED BY <2>1, <1>2, WFMin, Zenon
<1>4. \A y \in S : m <= y
  <2>1. TAKE y \in S
  <2>2. y \in Nat /\ m \in Nat
    BY <1>2
  <2>3. ~(y < m)
    BY <2>2, <1>1, <1>3, Zenon
  <2>4. QED BY <2>2, <2>3
<1>5. QED BY <1>3, <1>4, Zenon DEF Min

-----------------------------------------------------------------------------
(* The scheduler's functions keep the shape of its record.                 *)

LEMMA IdsAreNats ==
  /\ ThreadIds \subseteq Nat
  /\ Priorities \subseteq Nat
  /\ NULL_ID \notin ThreadIds
  /\ IdlePriority \in Priorities
  BY SchedulerAssumption DEF ThreadIds, Priorities, NULL_ID, IdlePriority

\* The cursor search returns a candidate.
LEMMA NextAfterIn ==
  ASSUME NEW T \in SUBSET ThreadIds, T # {}, NEW cursor
  PROVE  NextAfter(cursor, T) \in T
<1>1. T \in SUBSET Nat
  BY IdsAreNats
<1>2. DEFINE later == {t \in T : cursor # NULL_ID /\ t > cursor}
<1>3. later # {} => Min(later) \in later
  <2>1. later \in SUBSET Nat
    BY <1>1
  <2>2. QED BY <2>1, MinOfNats
<1>4. Min(T) \in T
  BY <1>1, MinOfNats
<1>5. QED BY <1>3, <1>4 DEF NextAfter

\* pick_next returns a Ready thread of the best priority in the bitmap, or
\* NULL_ID exactly if the bitmap is empty or its best bit is stale.
LEMMA PickNextReady ==
  ASSUME NEW s \in Scheduler, PickNext(s) # NULL_ID
  PROVE  /\ s.ready_bitmap # {}
         /\ PickNext(s) \in ThreadIds
         /\ s.state[PickNext(s)] = "Ready"
         /\ s.priority[PickNext(s)] = Min(s.ready_bitmap)
<1>1. s.ready_bitmap # {} /\ ReadyAt(s, Min(s.ready_bitmap)) # {}
  BY DEF PickNext
<1>2. PickNext(s) \in ReadyAt(s, Min(s.ready_bitmap))
  <2>1. ReadyAt(s, Min(s.ready_bitmap)) \in SUBSET ThreadIds
    BY DEF ReadyAt
  <2>2. QED BY <1>1, <2>1, NextAfterIn DEF PickNext
<1>3. QED BY <1>1, <1>2 DEF ReadyAt

LEMMA DispatchType ==
  ASSUME NEW s \in Scheduler, NEW id \in ThreadIds
  PROVE  Dispatch(s, id) \in Scheduler
  BY DEF Dispatch, Scheduler, ThreadStates

LEMMA DoScheduleType ==
  ASSUME NEW s \in Scheduler
  PROVE  DoSchedule(s) \in Scheduler
<1>1. CASE PickNext(s) = NULL_ID
  BY <1>1 DEF DoSchedule
<1>2. CASE PickNext(s) # NULL_ID
  <2>1. PickNext(s) \in ThreadIds
    BY <1>2, PickNextReady
  <2>2. Dispatch(s, PickNext(s)) \in Scheduler
    BY <2>1, DispatchType
  <2>3. Panic(Dispatch(s, PickNext(s))) \in Scheduler
    BY <2>2 DEF Panic, Scheduler
  <2>4. [Dispatch(s, PickNext(s)) EXCEPT !.current_id = PickNext(s),
                                         !.irq_masked = FALSE] \in Scheduler
    BY <2>1, <2>2 DEF Scheduler
  <2>5. [s EXCEPT !.state[PickNext(s)] = "Running"] \in Scheduler
    BY <2>1 DEF Scheduler, ThreadStates
  <2>6. QED BY <1>2, <2>3, <2>4, <2>5 DEF DoSchedule
<1>3. QED BY <1>1, <1>2

LEMMA SmallTypes ==
  ASSUME NEW s \in Scheduler, NEW id \in ThreadIds, NEW p \in Priorities
  PROVE  /\ SetReady(s, id) \in Scheduler
         /\ ClearReadyIfEmpty(s, p) \in Scheduler
         /\ EmptySlot(s, id) \in Scheduler
         /\ Panic(s) \in Scheduler
<1>1. SetReady(s, id) \in Scheduler
  <2>1. /\ [s.state EXCEPT ![id] = "Ready"] \in [ThreadIds -> ThreadStates]
        /\ s.ready_bitmap \cup {s.priority[id]} \in SUBSET Priorities
    BY DEF Scheduler, ThreadStates
  <2>2. SetReady(s, id) =
          [s EXCEPT !.state        = [s.state EXCEPT ![id] = "Ready"],
                    !.ready_bitmap = s.ready_bitmap \cup {s.priority[id]}]
    BY DEF SetReady
  <2>3. QED BY <2>1, <2>2 DEF Scheduler
<1>2. ClearReadyIfEmpty(s, p) \in Scheduler
  BY DEF ClearReadyIfEmpty, Scheduler
<1>3. EmptySlot(s, id) \in Scheduler
  <2>1. 0 \in Priorities /\ 0 \in Nat
    BY SchedulerAssumption DEF Priorities
  <2>2. QED BY <2>1 DEF EmptySlot, Scheduler, ThreadStates, IpcResults
<1>4. Panic(s) \in Scheduler
  BY DEF Panic, Scheduler
<1>5. QED BY <1>1, <1>2, <1>3, <1>4

LEMMA CreateType ==
  ASSUME NEW s \in Scheduler, NEW prof \in Profiles,
         \E t \in ThreadIds : s.state[t] = "Dead"
  PROVE  /\ CreateThread(s, prof) \in Scheduler
         /\ Min({t \in ThreadIds : s.state[t] = "Dead"}) \in
              {t \in ThreadIds : s.state[t] = "Dead"}
<1>1. Min({t \in ThreadIds : s.state[t] = "Dead"}) \in
        {t \in ThreadIds : s.state[t] = "Dead"}
  <2>1. {t \in ThreadIds : s.state[t] = "Dead"} \in SUBSET Nat
    BY IdsAreNats
  <2>2. {t \in ThreadIds : s.state[t] = "Dead"} # {}
    OBVIOUS
  <2>3. QED BY <2>1, <2>2, MinOfNats
<1>2. ASSUME NEW id \in ThreadIds
      PROVE  PutThread(s, id, prof) \in Scheduler
  <2>1. prof.priority \in Priorities /\ prof.tick \in Nat
    BY SchedulerAssumption
  <2>2. QED BY <2>1, ZenonT(60) DEF PutThread, Scheduler, ThreadStates, IpcResults
<1>3. QED BY <1>1, <1>2 DEF CreateThread

LEMMA StartType ==
  ASSUME NEW s \in Scheduler
  PROVE  /\ StartScheduler(s) \in Scheduler
         /\ StartScheduler(s).started /\ ~s.started =>
              StartScheduler(s).current_id \in ThreadIds
<1>1. CASE PickNext(s) = NULL_ID
  <2>1. StartScheduler(s) = [s EXCEPT !.panicked = TRUE]
    BY <1>1 DEF StartScheduler, Panic
  <2>2. [s EXCEPT !.panicked = TRUE] \in Scheduler
    BY DEF Scheduler
  <2>3. [s EXCEPT !.panicked = TRUE].started = s.started
    BY DEF Scheduler
  <2>4. QED BY <2>1, <2>2, <2>3
<1>2. CASE PickNext(s) # NULL_ID
  <2>1. PickNext(s) \in ThreadIds
    BY <1>2, PickNextReady
  <2>2. Dispatch(s, PickNext(s)) \in Scheduler
    BY <2>1, DispatchType
  <2>3. StartScheduler(s) =
          [Dispatch(s, PickNext(s)) EXCEPT !.current_id = PickNext(s), !.started = TRUE]
    BY <1>2 DEF StartScheduler
  <2>4. QED BY <2>1, <2>2, <2>3 DEF Scheduler
<1>3. QED BY <1>1, <1>2

LEMMA WakeType ==
  ASSUME NEW s \in Scheduler
  PROVE  WakeDue(s) \in Scheduler
<1>1. NextTick(s) \in Nat
  BY SchedulerAssumption DEF NextTick, Scheduler
<1>2. Due(s, NextTick(s)) \subseteq ThreadIds
  BY DEF Due
<1>3. \A due \in SUBSET ThreadIds :
        Wake(s, NextTick(s), due,
             [t \in ThreadIds |-> t \notin due /\ s.is_ipc_wait[t]]) \in Scheduler
  <2>1. TAKE due \in SUBSET ThreadIds
  <2>2. DEFINE st == [t \in ThreadIds |-> IF t \in due THEN "Ready" ELSE s.state[t]]
               er == [t \in ThreadIds |->
                        IF t \in due /\ s.is_ipc_wait[t] THEN "TIMEOUT"
                        ELSE s.ipc_error[t]]
               mk == [t \in ThreadIds |-> t \notin due /\ s.is_ipc_wait[t]]
               un == [t \in ThreadIds |-> IF t \in due THEN 0 ELSE s.sleep_until[t]]
               bm == s.ready_bitmap \cup {s.priority[t] : t \in due}
  <2>3. st \in [ThreadIds -> ThreadStates]
    BY DEF Scheduler, ThreadStates
  <2>4. er \in [ThreadIds -> IpcResults]
    BY DEF Scheduler, IpcResults
  <2>5. mk \in [ThreadIds -> BOOLEAN] /\ un \in [ThreadIds -> Nat]
    BY DEF Scheduler
  <2>6. bm \in SUBSET Priorities
    BY DEF Scheduler
  <2>7. Wake(s, NextTick(s), due, mk) =
          [s EXCEPT !.tick_count = NextTick(s), !.state = st, !.ipc_error = er,
                    !.is_ipc_wait = mk, !.sleep_until = un, !.ready_bitmap = bm]
    BY DEF Wake
  <2>8. HIDE DEF st, er, mk, un, bm
  <2>9. Wake(s, NextTick(s), due, mk) \in Scheduler
    BY <1>1, <2>3, <2>4, <2>5, <2>6, <2>7 DEF Scheduler
  <2>10. QED BY <2>9 DEF mk
<1>4. QED BY <1>2, <1>3 DEF WakeDue

-----------------------------------------------------------------------------
(* Type correctness: the strengthening says that a started scheduler has a *)
(* current thread, which every call and the tick index the table with.     *)

HasCurrent(s) == s \in Scheduler /\ (s.started => s.current_id \in ThreadIds)

LEMMA DoScheduleCurrent ==
  ASSUME NEW s, HasCurrent(s)
  PROVE  HasCurrent(DoSchedule(s))
<1>1. DoSchedule(s) \in Scheduler
  BY DoScheduleType DEF HasCurrent
<1>2. CASE PickNext(s) = NULL_ID
  BY <1>2 DEF DoSchedule, HasCurrent
<1>3. CASE PickNext(s) # NULL_ID
  <2>1. PickNext(s) \in ThreadIds
    BY <1>3, PickNextReady DEF HasCurrent
  <2>2. QED BY <1>1, <1>3, <2>1 DEF DoSchedule, Dispatch, Panic, HasCurrent, Scheduler
<1>4. QED BY <1>2, <1>3

\* The calls that change one thread and the bitmap only.
LEMMA SmallCurrent ==
  ASSUME NEW s, HasCurrent(s), NEW id \in ThreadIds, NEW p \in Priorities
  PROVE  /\ HasCurrent(SetReady(s, id))
         /\ HasCurrent(ClearReadyIfEmpty(s, p))
         /\ HasCurrent(EmptySlot(s, id))
         /\ HasCurrent(Panic(s))
         /\ \A st \in ThreadStates : HasCurrent([s EXCEPT !.state[id] = st])
<1>1. s \in Scheduler
  BY DEF HasCurrent
<1>2. /\ SetReady(s, id) \in Scheduler
      /\ ClearReadyIfEmpty(s, p) \in Scheduler
      /\ EmptySlot(s, id) \in Scheduler
      /\ Panic(s) \in Scheduler
  BY <1>1, SmallTypes
<1>3. HasCurrent(SetReady(s, id))
  BY <1>1, <1>2 DEF SetReady, HasCurrent, Scheduler
<1>4. HasCurrent(ClearReadyIfEmpty(s, p))
  BY <1>1, <1>2 DEF ClearReadyIfEmpty, HasCurrent, Scheduler
<1>5. HasCurrent(EmptySlot(s, id))
  BY <1>1, <1>2 DEF EmptySlot, HasCurrent, Scheduler
<1>6. HasCurrent(Panic(s))
  BY <1>1, <1>2 DEF Panic, HasCurrent, Scheduler
<1>7. \A st \in ThreadStates : HasCurrent([s EXCEPT !.state[id] = st])
  BY <1>1 DEF HasCurrent, Scheduler
<1>8. QED BY <1>3, <1>4, <1>5, <1>6, <1>7

LEMMA CallsKeepCurrent ==
  ASSUME NEW s, HasCurrent(s), s.started, NEW d \in Nat
  PROVE  /\ HasCurrent(YieldCurrent(s))
         /\ HasCurrent(SleepCurrent(s, d))
         /\ HasCurrent(ExitCurrent(s))
         /\ HasCurrent(BlockCurrent(s))
         /\ HasCurrent(BlockCurrentFor(s, d))
<1>1. s \in Scheduler /\ s.current_id \in ThreadIds
  BY DEF HasCurrent
<1>2. s.priority[s.current_id] \in Priorities /\ s.tick_count + d \in Nat
      /\ s.sleep_until[s.current_id] \in Nat
  BY <1>1 DEF Scheduler
<1>3. HasCurrent(YieldCurrent(s))
  <2>1. "Ready" \in ThreadStates
    BY DEF ThreadStates
  <2>2. HasCurrent(IF s.state[s.current_id] = "Running"
                   THEN [s EXCEPT !.state[s.current_id] = "Ready"] ELSE s)
    BY <1>1, <1>2, <2>1, SmallCurrent
  <2>3. QED BY <2>2, DoScheduleCurrent DEF YieldCurrent
<1>4. HasCurrent(SleepCurrent(s, d))
  <2>1. HasCurrent([s EXCEPT !.state[s.current_id]       = "Sleeping",
                             !.is_ipc_wait[s.current_id] = FALSE,
                             !.sleep_until[s.current_id] = s.tick_count + d])
    BY <1>1, <1>2 DEF HasCurrent, Scheduler, ThreadStates
  <2>2. QED BY <1>1, <1>2, <2>1, SmallCurrent, DoScheduleCurrent DEF SleepCurrent
<1>5. HasCurrent(ExitCurrent(s))
  <2>1. HasCurrent(EmptySlot(s, s.current_id))
    BY <1>1, <1>2, SmallCurrent
  <2>2. QED BY <1>1, <1>2, <2>1, SmallCurrent, DoScheduleCurrent DEF ExitCurrent
<1>6. ASSUME NEW st \in {"Blocked", "BlockedTimeout"}, NEW until \in Nat
      PROVE  HasCurrent(BlockOn(s, st, until))
  <2>1. HasCurrent([s EXCEPT !.state[s.current_id]       = st,
                             !.ipc_error[s.current_id]   = "SENTINEL",
                             !.is_ipc_wait[s.current_id] = TRUE,
                             !.sleep_until[s.current_id] = until])
    BY <1>1, <1>2 DEF HasCurrent, Scheduler, ThreadStates, IpcResults
  <2>2. DEFINE c == ClearReadyIfEmpty([s EXCEPT !.state[s.current_id]       = st,
                                                !.ipc_error[s.current_id]   = "SENTINEL",
                                                !.is_ipc_wait[s.current_id] = TRUE,
                                                !.sleep_until[s.current_id] = until],
                                      s.priority[s.current_id])
  <2>3. HasCurrent(c)
    BY <1>1, <1>2, <2>1, SmallCurrent
  <2>4. BlockOn(s, st, until) \in {[c EXCEPT !.irq_masked = TRUE], DoSchedule(c)}
    BY DEF BlockOn
  <2>5. HIDE DEF c
  <2>6. HasCurrent([c EXCEPT !.irq_masked = TRUE])
    BY <2>3 DEF HasCurrent, Scheduler
  <2>7. QED BY <2>3, <2>4, <2>6, DoScheduleCurrent
<1>7. QED BY <1>2, <1>3, <1>4, <1>5, <1>6 DEF BlockCurrent, BlockCurrentFor

LEMMA CallsOnOthersKeepCurrent ==
  ASSUME NEW s, HasCurrent(s), NEW id \in ThreadIds
  PROVE  /\ HasCurrent(DeleteThread(s, id))
         /\ HasCurrent(SuspendThread(s, id))
         /\ HasCurrent(ResumeThread(s, id))
         /\ HasCurrent(UnblockThread(s, id))
<1>1. s \in Scheduler /\ s.priority[id] \in Priorities
  BY DEF HasCurrent, Scheduler
<1>2. HasCurrent(DeleteThread(s, id))
  <2>1. HasCurrent(EmptySlot(s, id))
    BY <1>1, SmallCurrent
  <2>2. QED BY <1>1, <2>1, SmallCurrent DEF DeleteThread
<1>3. HasCurrent(SuspendThread(s, id))
  <2>1. "Blocked" \in ThreadStates
    BY DEF ThreadStates
  <2>2. HasCurrent([s EXCEPT !.state[id] = "Blocked"])
    BY <1>1, <2>1, SmallCurrent
  <2>3. QED BY <1>1, <2>2, SmallCurrent DEF SuspendThread
<1>4. HasCurrent(ResumeThread(s, id))
  BY <1>1, SmallCurrent, DoScheduleCurrent DEF ResumeThread
<1>5. HasCurrent(UnblockThread(s, id))
  <2>1. HasCurrent([s EXCEPT !.ipc_error[id]   = "OK",
                             !.is_ipc_wait[id] = FALSE,
                             !.sleep_until[id] = 0])
    BY <1>1 DEF HasCurrent, Scheduler, IpcResults
  <2>2. QED BY <1>1, <2>1, SmallCurrent DEF UnblockThread
<1>6. QED BY <1>2, <1>3, <1>4, <1>5

LEMMA TickKeepsCurrent ==
  ASSUME NEW s, HasCurrent(s)
  PROVE  HasCurrent(TickAwake(WakeDue(s)))
<1>1. HasCurrent(WakeDue(s))
  BY WakeType DEF HasCurrent, WakeDue, Wake, Scheduler
<1>2. ASSUME NEW w, HasCurrent(w), w.current_id # NULL_ID
      PROVE  HasCurrent(Preempt(w)) /\ HasCurrent(PreemptIfBetter(w))
  <2>1. w \in Scheduler /\ w.current_id \in ThreadIds
    BY <1>2 DEF HasCurrent, Scheduler
  <2>2. w.priority[w.current_id] \in Priorities
    BY <2>1 DEF Scheduler
  <2>3. HasCurrent(SetReady(w, w.current_id))
    BY <1>2, <2>1, <2>2, SmallCurrent
  <2>4. HasCurrent(Preempt(w))
    BY <1>2, <2>3, DoScheduleCurrent DEF Preempt
  <2>5. QED BY <1>2, <2>4 DEF PreemptIfBetter
<1>3. ASSUME NEW w, HasCurrent(w), w.current_id = NULL_ID
      PROVE  HasCurrent(PreemptIfBetter(w))
  BY <1>3 DEF PreemptIfBetter, Panic, HasCurrent, Scheduler
<1>4. ASSUME NEW w, HasCurrent(w)
      PROVE  HasCurrent(TickAwake(w))
  <2>1. CASE w.current_id # NULL_ID
    <3>1. w \in Scheduler /\ w.current_id \in ThreadIds
      BY <1>4, <2>1 DEF HasCurrent, Scheduler
    <3>2. \A n \in Nat : /\ HasCurrent([w EXCEPT !.tick[w.current_id] = n])
                         /\ [w EXCEPT !.tick[w.current_id] = n].current_id # NULL_ID
      BY <1>4, <2>1, <3>1 DEF HasCurrent, Scheduler
    <3>3. /\ (IF w.tick[w.current_id] > 0 THEN w.tick[w.current_id] - 1 ELSE 0) \in Nat
          /\ w.init_tick[w.current_id] \in Nat
      BY <3>1 DEF Scheduler
    <3>4. QED BY <1>2, <1>4, <2>1, <3>2, <3>3 DEF TickAwake
  <2>2. CASE w.current_id = NULL_ID
    BY <1>3, <1>4, <2>2 DEF TickAwake
  <2>3. QED BY <2>1, <2>2
<1>5. QED BY <1>1, <1>4

LEMMA InitHasCurrent == Init => HasCurrent(sched)
<1>1. 0 \in Priorities /\ 0 \in Nat
  BY SchedulerAssumption DEF Priorities
<1>2. QED BY <1>1 DEF Init, NewScheduler, HasCurrent, Scheduler, ThreadStates, IpcResults

LEMMA NextKeepsCurrent ==
  ASSUME HasCurrent(sched), [Next]_vars
  PROVE  HasCurrent(sched)'
<1>1. CASE Create
  <2>1. PICK prof \in Profiles : sched' = CreateThread(sched, prof)
    BY <1>1 DEF Create
  <2>2. sched' \in Scheduler
    BY <1>1, <2>1, CreateType DEF HasCurrent, Create
  <2>3. \A id : /\ PutThread(sched, id, prof).started = sched.started
                /\ PutThread(sched, id, prof).current_id = sched.current_id
    BY DEF PutThread, HasCurrent, Scheduler
  <2>4. QED BY <2>1, <2>2, <2>3 DEF HasCurrent, CreateThread
<1>2. CASE Start
  BY <1>2, StartType DEF Start, HasCurrent
<1>3. CASE Yield
  BY <1>3, CallsKeepCurrent DEF Yield, Executing
<1>4. CASE Sleep
  BY <1>4, CallsKeepCurrent, SchedulerAssumption DEF Sleep, Executing
<1>5. CASE Delete
  BY <1>5, CallsOnOthersKeepCurrent DEF Delete
<1>6. CASE Suspend
  BY <1>6, CallsOnOthersKeepCurrent DEF Suspend
<1>7. CASE Resume
  BY <1>7, CallsOnOthersKeepCurrent DEF Resume
<1>8. CASE Exit
  BY <1>8, CallsKeepCurrent DEF Exit, Executing
<1>9. CASE Block
  BY <1>9, CallsKeepCurrent, SchedulerAssumption DEF Block, Executing
<1>10. CASE Unblock
  BY <1>10, CallsOnOthersKeepCurrent DEF Unblock
<1>11. CASE Tick
  BY <1>11, TickKeepsCurrent DEF Tick
<1>12. CASE UNCHANGED vars
  BY <1>12 DEF vars
<1>13. QED BY <1>1, <1>2, <1>3, <1>4, <1>5, <1>6, <1>7, <1>8, <1>9, <1>10,
               <1>11, <1>12 DEF Next

\* The scheduler's record keeps its shape in every behaviour, whatever calls
\* the application makes (thread.rs:139-165).
THEOREM TypeCorrect == Spec => []TypeOK
<1>1. HasCurrent(sched) => TypeOK
  BY DEF HasCurrent, TypeOK
<1>2. QED BY <1>1, InitHasCurrent, NextKeepsCurrent, PTL DEF Spec

-----------------------------------------------------------------------------
(* The two halves of "bit N = at least one thread at priority N is Ready". *)

Runnable == {"Ready", "Running"}

HasBits(s) ==
  \A t \in ThreadIds : s.state[t] = "Ready" => s.priority[t] \in s.ready_bitmap

Backed(s, p) == \E t \in ThreadIds : s.priority[t] = p /\ s.state[t] \in Runnable
AllBacked(s) == \A p \in s.ready_bitmap : Backed(s, p)

LEMMA ClearBits ==
  ASSUME NEW s \in Scheduler, NEW q \in Priorities
  PROVE  /\ HasBits(s) => HasBits(ClearReadyIfEmpty(s, q))
         /\ (\A p \in s.ready_bitmap \ {q} : Backed(s, p))
              => AllBacked(ClearReadyIfEmpty(s, q))
<1>1. CASE ReadyAt(s, q) = {}
  <2>1. ClearReadyIfEmpty(s, q) = [s EXCEPT !.ready_bitmap = s.ready_bitmap \ {q}]
    BY <1>1 DEF ClearReadyIfEmpty
  <2>2. /\ ClearReadyIfEmpty(s, q).state = s.state
        /\ ClearReadyIfEmpty(s, q).priority = s.priority
        /\ ClearReadyIfEmpty(s, q).ready_bitmap = s.ready_bitmap \ {q}
    BY <2>1 DEF Scheduler
  <2>3. QED BY <1>1, <2>2 DEF ReadyAt, HasBits, AllBacked, Backed
<1>2. CASE ReadyAt(s, q) # {}
  <2>1. ClearReadyIfEmpty(s, q) = s
    BY <1>2 DEF ClearReadyIfEmpty
  <2>2. Backed(s, q)
    BY <1>2 DEF ReadyAt, Backed, Runnable
  <2>3. QED BY <2>1, <2>2 DEF AllBacked
<1>3. QED BY <1>1, <1>2

LEMMA DispatchChanges ==
  ASSUME NEW s \in Scheduler, NEW id \in ThreadIds, NEW c, NEW b
  PROVE  LET d == Dispatch(s, id) IN
         /\ d.state = [s.state EXCEPT ![id] = "Running"]
         /\ d.ready_bitmap = s.ready_bitmap
         /\ d.priority = s.priority
         /\ d.started = s.started
         /\ d.panicked = s.panicked /\ d.irq_masked = s.irq_masked
         /\ LET e == [d EXCEPT !.current_id = c, !.irq_masked = b] IN
              /\ e.state = d.state /\ e.ready_bitmap = d.ready_bitmap
              /\ e.priority = d.priority /\ e.started = d.started
              /\ e.current_id = c /\ e.panicked = d.panicked /\ e.irq_masked = b
         /\ LET e == [d EXCEPT !.current_id = c, !.started = b] IN
              /\ e.state = d.state /\ e.ready_bitmap = d.ready_bitmap
              /\ e.priority = d.priority /\ e.started = b
              /\ e.current_id = c /\ e.panicked = d.panicked
              /\ e.irq_masked = d.irq_masked
         /\ LET e == Panic(d) IN
              /\ e.state = d.state /\ e.ready_bitmap = d.ready_bitmap
              /\ e.priority = d.priority /\ e.started = d.started
  BY DEF Dispatch, Panic, Scheduler

\* do_schedule changes at most two states, the ready thread it picks to
\* Running, and neither priorities nor the bitmap.
LEMMA DoScheduleChanges ==
  ASSUME NEW s \in Scheduler
  PROVE  /\ DoSchedule(s).ready_bitmap = s.ready_bitmap
         /\ DoSchedule(s).priority = s.priority
         /\ DoSchedule(s).started = s.started
         /\ PickNext(s) = NULL_ID => DoSchedule(s) = s
         /\ PickNext(s) # NULL_ID =>
              /\ DoSchedule(s).state = [s.state EXCEPT ![PickNext(s)] = "Running"]
              /\ s.current_id # NULL_ID /\ s.state[s.current_id] # "Dead" =>
                   /\ DoSchedule(s).current_id = PickNext(s)
                   /\ DoSchedule(s).panicked = s.panicked
                   /\ ~s.irq_masked => ~DoSchedule(s).irq_masked
<1>1. CASE PickNext(s) = NULL_ID
  BY <1>1 DEF DoSchedule
<1>2. CASE PickNext(s) # NULL_ID /\ PickNext(s) = s.current_id
  <2>1. PickNext(s) \in ThreadIds
    BY <1>2, PickNextReady
  <2>2. DoSchedule(s) = [s EXCEPT !.state[PickNext(s)] = "Running"]
    BY <1>2 DEF DoSchedule
  <2>3. QED BY <1>2, <2>1, <2>2 DEF Scheduler
<1>3. CASE PickNext(s) # NULL_ID /\ PickNext(s) # s.current_id
  <2>1. PickNext(s) \in ThreadIds
    BY <1>3, PickNextReady
  <2>2. CASE s.current_id = NULL_ID \/ s.state[s.current_id] = "Dead"
    <3>1. DoSchedule(s) = Panic(Dispatch(s, PickNext(s)))
      BY <1>3, <2>2 DEF DoSchedule
    <3>2. QED BY <1>3, <2>1, <2>2, <3>1, DispatchChanges
  <2>3. CASE ~(s.current_id = NULL_ID \/ s.state[s.current_id] = "Dead")
    <3>1. DoSchedule(s) = [Dispatch(s, PickNext(s)) EXCEPT
                             !.current_id = PickNext(s), !.irq_masked = FALSE]
      BY <1>3, <2>3 DEF DoSchedule
    <3>2. QED BY <1>3, <2>1, <2>3, <3>1, DispatchChanges
  <2>4. QED BY <2>2, <2>3
<1>4. QED BY <1>1, <1>2, <1>3

LEMMA DoScheduleBits ==
  ASSUME NEW s \in Scheduler
  PROVE  /\ HasBits(s) => HasBits(DoSchedule(s))
         /\ AllBacked(s) => AllBacked(DoSchedule(s))
<1>1. CASE PickNext(s) = NULL_ID
  BY <1>1, DoScheduleChanges
<1>2. CASE PickNext(s) # NULL_ID
  <2>1. \A t \in ThreadIds : DoSchedule(s).state[t] =
          IF t = PickNext(s) THEN "Running" ELSE s.state[t]
    BY <1>2, DoScheduleChanges, PickNextReady DEF Scheduler
  <2>2. /\ DoSchedule(s).ready_bitmap = s.ready_bitmap
        /\ DoSchedule(s).priority = s.priority
    BY DoScheduleChanges
  <2>3. HasBits(s) => HasBits(DoSchedule(s))
    BY <2>1, <2>2 DEF HasBits
  <2>4. \A p : Backed(s, p) => Backed(DoSchedule(s), p)
    BY <2>1, <2>2 DEF Backed, Runnable
  <2>5. QED BY <2>2, <2>3, <2>4 DEF AllBacked
<1>3. QED BY <1>1, <1>2

-----------------------------------------------------------------------------
(* Each call and the tick keep both halves; thread_yield keeps the second. *)

\* A thread that leaves the runnable states after which its priority's bit is
\* cleared if empty: sleep, block, delete, exit and suspend.
LEMMA StopBits ==
  ASSUME NEW s \in Scheduler, NEW id \in ThreadIds, NEW r \in Scheduler,
         r.ready_bitmap = s.ready_bitmap,
         r.state[id] # "Ready",
         \A t \in ThreadIds \ {id} : /\ r.state[t] = s.state[t]
                                    /\ r.priority[t] = s.priority[t]
  PROVE  LET c == ClearReadyIfEmpty(r, s.priority[id]) IN
         /\ HasBits(s) => HasBits(c)
         /\ AllBacked(s) => AllBacked(c)
<1>1. s.priority[id] \in Priorities
  BY DEF Scheduler
<1>2. HasBits(s) => HasBits(r)
  BY DEF HasBits
<1>3. AllBacked(s) => \A p \in r.ready_bitmap \ {s.priority[id]} : Backed(r, p)
  BY DEF AllBacked, Backed
<1>4. QED BY <1>1, <1>2, <1>3, ClearBits

\* A thread made Ready with its bit: create, resume, unblock and preempt.
LEMMA SetReadyBits ==
  ASSUME NEW s \in Scheduler, NEW id \in ThreadIds
  PROVE  /\ HasBits(s) => HasBits(SetReady(s, id))
         /\ AllBacked(s) => AllBacked(SetReady(s, id))
<1>1. /\ SetReady(s, id).ready_bitmap = s.ready_bitmap \cup {s.priority[id]}
      /\ SetReady(s, id).priority = s.priority
      /\ SetReady(s, id).state[id] = "Ready"
      /\ \A t \in ThreadIds \ {id} : SetReady(s, id).state[t] = s.state[t]
  BY DEF SetReady, Scheduler
<1>2. HasBits(s) => HasBits(SetReady(s, id))
  BY <1>1 DEF HasBits
<1>3. \A p : Backed(s, p) => Backed(SetReady(s, id), p)
  BY <1>1 DEF Backed, Runnable
<1>4. Backed(SetReady(s, id), s.priority[id])
  BY <1>1 DEF Backed, Runnable
<1>5. QED BY <1>1, <1>2, <1>3, <1>4 DEF AllBacked

LEMMA CreateBits ==
  ASSUME NEW s \in Scheduler, NEW prof \in Profiles,
         \E t \in ThreadIds : s.state[t] = "Dead"
  PROVE  /\ HasBits(s) => HasBits(CreateThread(s, prof))
         /\ AllBacked(s) => AllBacked(CreateThread(s, prof))
<1>1. PICK id \in ThreadIds : /\ s.state[id] = "Dead"
                             /\ CreateThread(s, prof) = PutThread(s, id, prof)
  BY CreateType DEF CreateThread
<1>2. DEFINE r == PutThread(s, id, prof)
<1>3. /\ r.ready_bitmap = s.ready_bitmap \cup {prof.priority}
      /\ r.state[id] = "Ready" /\ r.priority[id] = prof.priority
      /\ \A t \in ThreadIds \ {id} : /\ r.state[t] = s.state[t]
                                     /\ r.priority[t] = s.priority[t]
  BY DEF PutThread, Scheduler
<1>4. HIDE DEF r
<1>5. HasBits(s) => HasBits(r)
  BY <1>3 DEF HasBits
<1>6. \A p : Backed(s, p) => Backed(r, p)
  BY <1>1, <1>3 DEF Backed, Runnable
<1>7. Backed(r, prof.priority)
  BY <1>3 DEF Backed, Runnable
<1>8. AllBacked(s) => AllBacked(r)
  BY <1>3, <1>6, <1>7 DEF AllBacked
<1>9. QED BY <1>1, <1>5, <1>8 DEF r

LEMMA StartBits ==
  ASSUME NEW s \in Scheduler
  PROVE  /\ HasBits(s) => HasBits(StartScheduler(s))
         /\ AllBacked(s) => AllBacked(StartScheduler(s))
<1>1. CASE PickNext(s) = NULL_ID
  BY <1>1 DEF StartScheduler, Panic, Scheduler, HasBits, AllBacked, Backed
<1>2. CASE PickNext(s) # NULL_ID
  <2>1. PickNext(s) \in ThreadIds
    BY <1>2, PickNextReady
  <2>2. StartScheduler(s) =
          [Dispatch(s, PickNext(s)) EXCEPT !.current_id = PickNext(s), !.started = TRUE]
    BY <1>2 DEF StartScheduler
  <2>3. DEFINE r == StartScheduler(s)
  <2>4. /\ r.ready_bitmap = s.ready_bitmap /\ r.priority = s.priority
        /\ r.state = [s.state EXCEPT ![PickNext(s)] = "Running"]
    BY <2>1, <2>2, DispatchChanges
  <2>5. \A t \in ThreadIds : r.state[t] =
          IF t = PickNext(s) THEN "Running" ELSE s.state[t]
    BY <2>1, <2>4 DEF Scheduler
  <2>6. HIDE DEF r
  <2>7. HasBits(s) => HasBits(r)
    BY <2>4, <2>5 DEF HasBits
  <2>8. \A p : Backed(s, p) => Backed(r, p)
    BY <2>4, <2>5 DEF Backed, Runnable
  <2>9. QED BY <2>4, <2>7, <2>8 DEF AllBacked, r
<1>3. QED BY <1>1, <1>2

LEMMA WakeBits ==
  ASSUME NEW s \in Scheduler
  PROVE  /\ HasBits(s) => HasBits(WakeDue(s))
         /\ AllBacked(s) => AllBacked(WakeDue(s))
<1>1. DEFINE due == Due(s, NextTick(s))
             r == WakeDue(s)
<1>2. /\ r.ready_bitmap = s.ready_bitmap \cup {s.priority[t] : t \in due}
      /\ r.priority = s.priority
      /\ \A t \in ThreadIds : r.state[t] = IF t \in due THEN "Ready" ELSE s.state[t]
  BY DEF WakeDue, Wake, Scheduler
<1>3. \A t \in due : t \in ThreadIds /\ s.state[t] \in {"Sleeping", "BlockedTimeout"}
  BY DEF Due
<1>4. HIDE DEF r, due
<1>5. HasBits(s) => HasBits(r)
  BY <1>2 DEF HasBits
<1>6. \A p : Backed(s, p) => Backed(r, p)
  BY <1>2, <1>3 DEF Backed, Runnable
<1>7. \A t \in due : Backed(r, s.priority[t])
  BY <1>2, <1>3 DEF Backed, Runnable
<1>8. AllBacked(s) => AllBacked(r)
  BY <1>2, <1>6, <1>7 DEF AllBacked
<1>9. QED BY <1>5, <1>8 DEF r

LEMMA PreemptBits ==
  ASSUME NEW w, HasCurrent(w), w.current_id # NULL_ID
  PROVE  /\ HasBits(w) => HasBits(Preempt(w))
         /\ AllBacked(w) => AllBacked(Preempt(w))
<1>1. w \in Scheduler /\ w.current_id \in ThreadIds
  BY DEF HasCurrent, Scheduler
<1>2. CASE w.state[w.current_id] = "Running"
  <2>1. w.priority[w.current_id] \in Priorities
    BY <1>1 DEF Scheduler
  <2>2. SetReady(w, w.current_id) \in Scheduler
    BY <1>1, <2>1, SmallTypes
  <2>3. Preempt(w) = DoSchedule(SetReady(w, w.current_id))
    BY <1>2 DEF Preempt
  <2>4. QED BY <1>1, <2>2, <2>3, SetReadyBits, DoScheduleBits
<1>3. CASE w.state[w.current_id] # "Running"
  <2>1. Preempt(w) = DoSchedule(w)
    BY <1>3 DEF Preempt
  <2>2. QED BY <1>1, <2>1, DoScheduleBits
<1>4. QED BY <1>2, <1>3

LEMMA TickBits ==
  ASSUME NEW s, HasCurrent(s)
  PROVE  /\ HasBits(s) => HasBits(TickAwake(WakeDue(s)))
         /\ AllBacked(s) => AllBacked(TickAwake(WakeDue(s)))
<1>1. HasCurrent(WakeDue(s))
  BY WakeType DEF HasCurrent, WakeDue, Wake, Scheduler
<1>2. ASSUME NEW w, HasCurrent(w)
      PROVE  /\ HasBits(w) => HasBits(PreemptIfBetter(w))
             /\ AllBacked(w) => AllBacked(PreemptIfBetter(w))
  <2>1. CASE w.current_id # NULL_ID
    BY <1>2, <2>1, PreemptBits DEF PreemptIfBetter
  <2>2. CASE w.current_id = NULL_ID
    BY <1>2, <2>2 DEF PreemptIfBetter, Panic, HasCurrent, Scheduler, HasBits, AllBacked, Backed
  <2>3. QED BY <2>1, <2>2
<1>3. ASSUME NEW w, HasCurrent(w)
      PROVE  /\ HasBits(w) => HasBits(TickAwake(w))
             /\ AllBacked(w) => AllBacked(TickAwake(w))
  <2>1. CASE w.current_id # NULL_ID /\ w.state[w.current_id] = "Running"
    <3>1. w \in Scheduler /\ w.current_id \in ThreadIds
      BY <1>3, <2>1 DEF HasCurrent, Scheduler
    <3>2. ASSUME NEW n \in Nat
          PROVE  LET r == [w EXCEPT !.tick[w.current_id] = n] IN
                 /\ HasCurrent(r) /\ r.current_id # NULL_ID
                 /\ HasBits(w) => HasBits(r)
                 /\ AllBacked(w) => AllBacked(r)
      BY <1>3, <2>1, <3>1 DEF HasCurrent, Scheduler, HasBits, AllBacked, Backed
    <3>3. /\ (IF w.tick[w.current_id] > 0 THEN w.tick[w.current_id] - 1 ELSE 0) \in Nat
          /\ w.init_tick[w.current_id] \in Nat
      BY <3>1 DEF Scheduler
    <3>4. DEFINE left == IF w.tick[w.current_id] > 0 THEN w.tick[w.current_id] - 1 ELSE 0
    <3>5. CASE left = 0
      <4>1. TickAwake(w) = Preempt([w EXCEPT !.tick[w.current_id] = w.init_tick[w.current_id]])
        BY <2>1, <3>5 DEF TickAwake
      <4>2. QED BY <3>2, <3>3, <4>1, PreemptBits
    <3>6. CASE left # 0
      <4>1. TickAwake(w) = PreemptIfBetter([w EXCEPT !.tick[w.current_id] = left])
        BY <2>1, <3>6 DEF TickAwake
      <4>2. left \in Nat
        BY <3>3
      <4>3. HIDE DEF left
      <4>4. QED BY <3>2, <4>1, <4>2, <1>2
    <3>7. QED BY <3>5, <3>6
  <2>2. CASE ~(w.current_id # NULL_ID /\ w.state[w.current_id] = "Running")
    <3>1. TickAwake(w) = PreemptIfBetter(w)
      BY <2>2 DEF TickAwake
    <3>2. QED BY <1>2, <1>3, <3>1
  <2>3. QED BY <2>1, <2>2
<1>4. QED BY <1>1, <1>3, WakeBits DEF HasCurrent

\* The executing thread stops: the state change, the bit, then do_schedule.
LEMMA StopCurrentBits ==
  ASSUME NEW s, HasCurrent(s), s.started, NEW r \in Scheduler,
         r.ready_bitmap = s.ready_bitmap,
         r.state[s.current_id] # "Ready",
         \A t \in ThreadIds \ {s.current_id} : /\ r.state[t] = s.state[t]
                                              /\ r.priority[t] = s.priority[t]
  PROVE  LET c == ClearReadyIfEmpty(r, s.priority[s.current_id]) IN
         /\ HasBits(s) => HasBits(DoSchedule(c)) /\ HasBits([c EXCEPT !.irq_masked = TRUE])
         /\ AllBacked(s) => AllBacked(DoSchedule(c)) /\ AllBacked([c EXCEPT !.irq_masked = TRUE])
<1>1. s \in Scheduler /\ s.current_id \in ThreadIds
  BY DEF HasCurrent
<1>2. s.priority[s.current_id] \in Priorities
  BY <1>1 DEF Scheduler
<1>3. ClearReadyIfEmpty(r, s.priority[s.current_id]) \in Scheduler
  BY <1>1, <1>2, SmallTypes
<1>4. DEFINE c == ClearReadyIfEmpty(r, s.priority[s.current_id])
<1>5. (HasBits(s) => HasBits(c)) /\ (AllBacked(s) => AllBacked(c))
  BY <1>1, StopBits
<1>6. c \in Scheduler
  BY <1>3
<1>7. HIDE DEF c
<1>8. /\ HasBits(c) => HasBits([c EXCEPT !.irq_masked = TRUE])
      /\ AllBacked(c) => AllBacked([c EXCEPT !.irq_masked = TRUE])
  BY <1>6 DEF HasBits, AllBacked, Backed, Scheduler
<1>9. QED BY <1>5, <1>6, <1>8, DoScheduleBits DEF c

LEMMA CallsBits ==
  ASSUME NEW s, HasCurrent(s), s.started, NEW d \in Nat
  PROVE  /\ HasBits(s) => /\ HasBits(SleepCurrent(s, d))
                          /\ HasBits(ExitCurrent(s))
                          /\ HasBits(BlockCurrent(s))
                          /\ HasBits(BlockCurrentFor(s, d))
         /\ AllBacked(s) => /\ AllBacked(YieldCurrent(s))
                            /\ AllBacked(SleepCurrent(s, d))
                            /\ AllBacked(ExitCurrent(s))
                            /\ AllBacked(BlockCurrent(s))
                            /\ AllBacked(BlockCurrentFor(s, d))
<1>1. s \in Scheduler /\ s.current_id \in ThreadIds
  BY DEF HasCurrent
<1>2. s.tick_count + d \in Nat /\ s.sleep_until[s.current_id] \in Nat
  BY <1>1 DEF Scheduler
<1>3. AllBacked(s) => AllBacked(YieldCurrent(s))
  <2>1. DEFINE r == IF s.state[s.current_id] = "Running"
                    THEN [s EXCEPT !.state[s.current_id] = "Ready"] ELSE s
  <2>2. r \in Scheduler /\ (AllBacked(s) => AllBacked(r))
    BY <1>1 DEF Scheduler, ThreadStates, AllBacked, Backed, Runnable
  <2>3. YieldCurrent(s) = DoSchedule(r)
    BY DEF YieldCurrent
  <2>4. HIDE DEF r
  <2>5. QED BY <2>2, <2>3, DoScheduleBits
<1>4. /\ HasBits(s) => HasBits(SleepCurrent(s, d))
      /\ AllBacked(s) => AllBacked(SleepCurrent(s, d))
  <2>1. DEFINE r == [s EXCEPT !.state[s.current_id]       = "Sleeping",
                              !.is_ipc_wait[s.current_id] = FALSE,
                              !.sleep_until[s.current_id] = s.tick_count + d]
  <2>2. /\ r \in Scheduler /\ r.ready_bitmap = s.ready_bitmap
        /\ r.state[s.current_id] # "Ready"
        /\ \A t \in ThreadIds \ {s.current_id} : /\ r.state[t] = s.state[t]
                                                /\ r.priority[t] = s.priority[t]
    BY <1>1, <1>2 DEF Scheduler, ThreadStates
  <2>3. SleepCurrent(s, d) = DoSchedule(ClearReadyIfEmpty(r, s.priority[s.current_id]))
    BY DEF SleepCurrent
  <2>4. HIDE DEF r
  <2>5. QED BY <2>2, <2>3, StopCurrentBits, ZenonT(60)
<1>5. /\ HasBits(s) => HasBits(ExitCurrent(s))
      /\ AllBacked(s) => AllBacked(ExitCurrent(s))
  <2>1. DEFINE r == EmptySlot(s, s.current_id)
  <2>2. r \in Scheduler
    <3>1. s.priority[s.current_id] \in Priorities
      BY <1>1 DEF Scheduler
    <3>2. QED BY <1>1, <3>1, SmallTypes
  <2>3. /\ r.ready_bitmap = s.ready_bitmap
        /\ r.state[s.current_id] # "Ready"
        /\ \A t \in ThreadIds \ {s.current_id} : /\ r.state[t] = s.state[t]
                                                /\ r.priority[t] = s.priority[t]
    BY <1>1 DEF EmptySlot, Scheduler
  <2>4. ExitCurrent(s) = DoSchedule(ClearReadyIfEmpty(r, s.priority[s.current_id]))
    BY DEF ExitCurrent
  <2>5. HIDE DEF r
  <2>6. QED BY <2>2, <2>3, <2>4, StopCurrentBits, ZenonT(60)
<1>6. ASSUME NEW st \in {"Blocked", "BlockedTimeout"}, NEW until \in Nat
      PROVE  /\ HasBits(s) => HasBits(BlockOn(s, st, until))
             /\ AllBacked(s) => AllBacked(BlockOn(s, st, until))
  <2>1. DEFINE r == [s EXCEPT !.state[s.current_id]       = st,
                              !.ipc_error[s.current_id]   = "SENTINEL",
                              !.is_ipc_wait[s.current_id] = TRUE,
                              !.sleep_until[s.current_id] = until]
  <2>2. /\ r \in Scheduler /\ r.ready_bitmap = s.ready_bitmap
        /\ r.state[s.current_id] # "Ready"
        /\ \A t \in ThreadIds \ {s.current_id} : /\ r.state[t] = s.state[t]
                                                /\ r.priority[t] = s.priority[t]
    BY <1>1, <1>2 DEF Scheduler, ThreadStates, IpcResults
  <2>3. LET c == ClearReadyIfEmpty(r, s.priority[s.current_id])
        IN  BlockOn(s, st, until) \in {[c EXCEPT !.irq_masked = TRUE], DoSchedule(c)}
    BY DEF BlockOn
  <2>4. HIDE DEF r
  <2>5. DEFINE c == ClearReadyIfEmpty(r, s.priority[s.current_id])
  <2>6. /\ HasBits(s) => HasBits(DoSchedule(c)) /\ HasBits([c EXCEPT !.irq_masked = TRUE])
        /\ AllBacked(s) => AllBacked(DoSchedule(c)) /\ AllBacked([c EXCEPT !.irq_masked = TRUE])
    BY <2>2, StopCurrentBits
  <2>7. BlockOn(s, st, until) \in {[c EXCEPT !.irq_masked = TRUE], DoSchedule(c)}
    BY <2>3
  <2>8. HIDE DEF c
  <2>9. QED BY <2>6, <2>7
<1>7. QED BY <1>2, <1>3, <1>4, <1>5, <1>6 DEF BlockCurrent, BlockCurrentFor

LEMMA CallsOnOthersBits ==
  ASSUME NEW s, HasCurrent(s), NEW id \in ThreadIds
  PROVE  /\ HasBits(s) => /\ HasBits(DeleteThread(s, id))
                          /\ HasBits(SuspendThread(s, id))
                          /\ HasBits(ResumeThread(s, id))
                          /\ HasBits(UnblockThread(s, id))
         /\ AllBacked(s) => /\ AllBacked(DeleteThread(s, id))
                            /\ AllBacked(SuspendThread(s, id))
                            /\ AllBacked(ResumeThread(s, id))
                            /\ AllBacked(UnblockThread(s, id))
<1>1. s \in Scheduler /\ s.priority[id] \in Priorities
  BY DEF HasCurrent, Scheduler
<1>2. /\ HasBits(s) => HasBits(DeleteThread(s, id))
      /\ AllBacked(s) => AllBacked(DeleteThread(s, id))
  <2>1. DEFINE r == EmptySlot(s, id)
  <2>2. r \in Scheduler
    BY <1>1, SmallTypes
  <2>3. /\ r.ready_bitmap = s.ready_bitmap /\ r.state[id] # "Ready"
        /\ \A t \in ThreadIds \ {id} : /\ r.state[t] = s.state[t]
                                      /\ r.priority[t] = s.priority[t]
    BY <1>1 DEF EmptySlot, Scheduler
  <2>4. DeleteThread(s, id) = ClearReadyIfEmpty(r, s.priority[id])
    BY DEF DeleteThread
  <2>5. HIDE DEF r
  <2>6. QED BY <1>1, <2>2, <2>3, <2>4, StopBits
<1>3. /\ HasBits(s) => HasBits(SuspendThread(s, id))
      /\ AllBacked(s) => AllBacked(SuspendThread(s, id))
  <2>1. DEFINE r == [s EXCEPT !.state[id] = "Blocked"]
  <2>2. /\ r \in Scheduler /\ r.ready_bitmap = s.ready_bitmap
        /\ r.state[id] # "Ready"
        /\ \A t \in ThreadIds \ {id} : /\ r.state[t] = s.state[t]
                                      /\ r.priority[t] = s.priority[t]
    BY <1>1 DEF Scheduler, ThreadStates
  <2>3. SuspendThread(s, id) \in {s, ClearReadyIfEmpty(r, s.priority[id])}
    BY DEF SuspendThread
  <2>4. HIDE DEF r
  <2>5. QED BY <1>1, <2>2, <2>3, StopBits
<1>4. /\ HasBits(s) => HasBits(ResumeThread(s, id))
      /\ AllBacked(s) => AllBacked(ResumeThread(s, id))
  <2>1. SetReady(s, id) \in Scheduler
    BY <1>1, SmallTypes
  <2>2. ResumeThread(s, id) \in {s, SetReady(s, id), DoSchedule(SetReady(s, id))}
    BY DEF ResumeThread
  <2>3. QED BY <1>1, <2>1, <2>2, SetReadyBits, DoScheduleBits
<1>5. /\ HasBits(s) => HasBits(UnblockThread(s, id))
      /\ AllBacked(s) => AllBacked(UnblockThread(s, id))
  <2>1. DEFINE r == [s EXCEPT !.ipc_error[id]   = "OK",
                              !.is_ipc_wait[id] = FALSE,
                              !.sleep_until[id] = 0]
  <2>2. r \in Scheduler
    BY <1>1 DEF Scheduler, IpcResults
  <2>3. /\ HasBits(s) => HasBits(r)
        /\ AllBacked(s) => AllBacked(r)
    BY <1>1 DEF HasBits, AllBacked, Backed, Scheduler
  <2>4. UnblockThread(s, id) \in {s, SetReady(r, id)}
    BY DEF UnblockThread
  <2>5. HIDE DEF r
  <2>6. QED BY <2>2, <2>3, <2>4, SetReadyBits
<1>6. QED BY <1>2, <1>3, <1>4, <1>5

LEMMA NextBits ==
  ASSUME HasCurrent(sched), [Next]_vars
  PROVE  /\ HasBits(sched) /\ "yield" \notin Api => HasBits(sched)'
         /\ AllBacked(sched) => AllBacked(sched)'
<1>1. CASE Create
  BY <1>1, CreateBits DEF Create, HasCurrent
<1>2. CASE Start
  BY <1>2, StartBits DEF Start, HasCurrent
<1>3. CASE Yield
  BY <1>3, CallsBits DEF Yield, Executing
<1>4. CASE Sleep
  BY <1>4, CallsBits, SchedulerAssumption DEF Sleep, Executing
<1>5. CASE Delete
  BY <1>5, CallsOnOthersBits DEF Delete
<1>6. CASE Suspend
  BY <1>6, CallsOnOthersBits DEF Suspend
<1>7. CASE Resume
  BY <1>7, CallsOnOthersBits DEF Resume
<1>8. CASE Exit
  BY <1>8, CallsBits DEF Exit, Executing
<1>9. CASE Block
  BY <1>9, CallsBits, SchedulerAssumption DEF Block, Executing
<1>10. CASE Unblock
  BY <1>10, CallsOnOthersBits DEF Unblock
<1>11. CASE Tick
  BY <1>11, TickBits DEF Tick
<1>12. CASE UNCHANGED vars
  BY <1>12 DEF vars
<1>13. QED BY <1>1, <1>2, <1>3, <1>4, <1>5, <1>6, <1>7, <1>8, <1>9, <1>10,
               <1>11, <1>12 DEF Next

\* Whatever the application calls, a bit of the bitmap has a Ready or Running
\* thread of its priority behind it (thread.rs:181-215), on the CPU or, after
\* thread_resume, not.
THEOREM BitsAreBacked == Spec => []BitHasRunnable
<1>1. Init => AllBacked(sched)
  BY DEF Init, NewScheduler, AllBacked
<1>2. AllBacked(sched) => BitHasRunnable
  BY DEF AllBacked, Backed, Runnable, BitHasRunnable
<1>3. HasCurrent(sched) /\ AllBacked(sched) /\ [Next]_vars
        => HasCurrent(sched)' /\ AllBacked(sched)'
  BY NextKeepsCurrent, NextBits
<1>4. QED BY <1>1, <1>2, <1>3, InitHasCurrent, PTL DEF Spec

\* Without thread_yield, which requeues the caller but not its bit, no Ready
\* thread ever loses its bit, so pick_next always sees it (thread.rs:171-215).
THEOREM ReadyAreVisible ==
  ASSUME "yield" \notin Api
  PROVE  Spec => []ReadyHasBit
<1>1. Init => HasBits(sched)
  BY DEF Init, NewScheduler, HasBits
<1>2. HasBits(sched) => ReadyHasBit
  BY DEF HasBits, ReadyHasBit
<1>3. HasCurrent(sched) /\ HasBits(sched) /\ [Next]_vars
        => HasCurrent(sched)' /\ HasBits(sched)'
  BY NextKeepsCurrent, NextBits
<1>4. QED BY <1>1, <1>2, <1>3, InitHasCurrent, PTL DEF Spec
=============================================================================
