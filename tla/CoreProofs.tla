----------------------------- MODULE CoreProofs -----------------------------
(***************************************************************************)
(* Proofs about the core calls (create, yield, sleep and the IPC blocking  *)
(* calls) under an idle thread: one thread Running, no panic, no Ready     *)
(* thread invisible, and every switch to a best-priority thread.           *)
(***************************************************************************)
EXTENDS SchedulerProofs

CoreCalls == {"create", "yield", "sleep", "ipc"}

\* Between calls.  A Running thread keeps its bit, which thread_yield counts
\* on; the idle thread is always there to be picked.
Sane(s) ==
  /\ HasCurrent(s)
  /\ ~s.panicked /\ ~s.irq_masked
  /\ s.started \/ s.current_id = NULL_ID
  /\ \A t \in ThreadIds :
        s.state[t] = "Running" <=> s.started /\ t = s.current_id
  /\ \A t \in ThreadIds :
        s.state[t] \in Runnable => s.priority[t] \in s.ready_bitmap
  /\ AllBacked(s)
  /\ s.started => Backed(s, IdlePriority)

\* In a call, when the executing thread has given up the Running state.
Switching(s) ==
  /\ HasCurrent(s)
  /\ ~s.panicked /\ ~s.irq_masked /\ s.started
  /\ s.state[s.current_id] # "Dead"
  /\ \A t \in ThreadIds : s.state[t] # "Running"
  /\ HasBits(s)
  /\ AllBacked(s)
  /\ Backed(s, IdlePriority)

BestRuns(s) ==
  \A t \in ThreadIds :
    s.state[t] = "Ready" => s.priority[s.current_id] <= s.priority[t]

-----------------------------------------------------------------------------
(* The choice of the next thread.                                          *)

\* With no stale bit at the best priority, pick_next finds a Ready thread no
\* Ready thread beats.
LEMMA PickNextBest ==
  ASSUME NEW s \in Scheduler, HasBits(s), NEW u \in ThreadIds, s.state[u] = "Ready",
         \A p \in s.ready_bitmap : ReadyAt(s, p) # {}
  PROVE  /\ PickNext(s) # NULL_ID
         /\ \A t \in ThreadIds :
              s.state[t] = "Ready" => s.priority[PickNext(s)] <= s.priority[t]
<1>1. s.ready_bitmap \in SUBSET Nat /\ s.ready_bitmap # {}
  BY IdsAreNats DEF Scheduler, HasBits
<1>2. /\ Min(s.ready_bitmap) \in s.ready_bitmap
      /\ \A y \in s.ready_bitmap : Min(s.ready_bitmap) <= y
  BY <1>1, MinOfNats
<1>3. ReadyAt(s, Min(s.ready_bitmap)) # {}
  BY <1>2
<1>4. PickNext(s) \in ThreadIds
  <2>1. ReadyAt(s, Min(s.ready_bitmap)) \in SUBSET ThreadIds
    BY DEF ReadyAt
  <2>2. QED BY <1>1, <1>3, <2>1, NextAfterIn DEF PickNext
<1>5. PickNext(s) # NULL_ID
  BY <1>4, IdsAreNats
<1>6. s.priority[PickNext(s)] = Min(s.ready_bitmap)
  BY <1>5, PickNextReady
<1>7. QED BY <1>2, <1>5, <1>6 DEF HasBits

\* With the idle thread Ready, a switch always has somewhere to go.
LEMMA SwitchingPicks ==
  ASSUME NEW s, Switching(s)
  PROVE  /\ PickNext(s) # NULL_ID
         /\ \A t \in ThreadIds :
              s.state[t] = "Ready" => s.priority[PickNext(s)] <= s.priority[t]
<1>1. s \in Scheduler
  BY DEF Switching, HasCurrent
<1>2. PICK u \in ThreadIds : s.state[u] = "Ready"
  BY DEF Switching, Backed, Runnable
<1>3. \A p \in s.ready_bitmap : ReadyAt(s, p) # {}
  BY DEF Switching, AllBacked, Backed, Runnable, ReadyAt
<1>4. QED BY <1>1, <1>2, <1>3, PickNextBest DEF Switching

LEMMA DoScheduleSane ==
  ASSUME NEW s, Switching(s)
  PROVE  /\ Sane(DoSchedule(s))
         /\ BestRuns(DoSchedule(s))
<1>1. s \in Scheduler /\ s.current_id \in ThreadIds /\ s.current_id # NULL_ID
  BY IdsAreNats DEF Switching, HasCurrent
<1>2. /\ PickNext(s) # NULL_ID
      /\ \A t \in ThreadIds :
           s.state[t] = "Ready" => s.priority[PickNext(s)] <= s.priority[t]
  BY SwitchingPicks
<1>3. PickNext(s) \in ThreadIds /\ s.state[PickNext(s)] = "Ready"
  BY <1>1, <1>2, PickNextReady
<1>4. DEFINE r == DoSchedule(s)
<1>5. /\ r.current_id = PickNext(s) /\ r.panicked = s.panicked /\ ~r.irq_masked
      /\ r.started = s.started /\ r.priority = s.priority
      /\ r.ready_bitmap = s.ready_bitmap
      /\ r.state = [s.state EXCEPT ![PickNext(s)] = "Running"]
  BY <1>1, <1>2, DoScheduleChanges DEF Switching
<1>6. \A t \in ThreadIds : r.state[t] =
        IF t = PickNext(s) THEN "Running" ELSE s.state[t]
  BY <1>1, <1>3, <1>5 DEF Scheduler
<1>7. HasCurrent(r) /\ AllBacked(r)
  BY <1>1, DoScheduleCurrent, DoScheduleBits DEF Switching
<1>8. HIDE DEF r
<1>9. \A t \in ThreadIds : r.state[t] = "Running" <=> r.started /\ t = r.current_id
  BY <1>3, <1>5, <1>6 DEF Switching
<1>10. \A t \in ThreadIds : r.state[t] \in Runnable => r.priority[t] \in r.ready_bitmap
  BY <1>3, <1>5, <1>6 DEF Switching, HasBits, Runnable
<1>11. Backed(r, IdlePriority)
  BY <1>5, <1>6 DEF Switching, Backed, Runnable
<1>12. Sane(r)
  BY <1>5, <1>7, <1>9, <1>10, <1>11 DEF Sane, Switching
<1>13. BestRuns(r)
  BY <1>2, <1>5, <1>6 DEF BestRuns
<1>14. QED BY <1>12, <1>13 DEF r

-----------------------------------------------------------------------------
(* The calls and the tick.                                                 *)

LEMMA YieldSane ==
  ASSUME NEW s, Sane(s), s.started
  PROVE  Sane(YieldCurrent(s)) /\ BestRuns(YieldCurrent(s))
<1>1. s \in Scheduler /\ s.current_id \in ThreadIds
  BY DEF Sane, HasCurrent
<1>2. s.state[s.current_id] = "Running"
  BY <1>1 DEF Sane
<1>3. DEFINE r == [s EXCEPT !.state[s.current_id] = "Ready"]
<1>4. /\ r \in Scheduler /\ r.current_id = s.current_id /\ r.started = s.started
      /\ r.panicked = s.panicked /\ r.irq_masked = s.irq_masked /\ r.priority = s.priority
      /\ r.ready_bitmap = s.ready_bitmap /\ r.state[s.current_id] = "Ready"
      /\ \A t \in ThreadIds \ {s.current_id} : r.state[t] = s.state[t]
  BY <1>1 DEF Scheduler, ThreadStates
<1>5. YieldCurrent(s) = DoSchedule(r)
  BY <1>2 DEF YieldCurrent
<1>6. HIDE DEF r
<1>7. Switching(r)
  <2>1. HasCurrent(r)
    BY <1>1, <1>4 DEF HasCurrent
  <2>2. \A t \in ThreadIds : r.state[t] # "Running"
    BY <1>4 DEF Sane
  <2>3. HasBits(r)
    BY <1>1, <1>2, <1>4 DEF Sane, HasBits, Runnable
  <2>4. \A p : Backed(s, p) => Backed(r, p)
    BY <1>4 DEF Backed, Runnable
  <2>5. AllBacked(r) /\ Backed(r, IdlePriority)
    BY <1>4, <2>4 DEF Sane, AllBacked
  <2>6. QED BY <1>4, <2>1, <2>2, <2>3, <2>5 DEF Sane, Switching
<1>8. QED BY <1>5, <1>7, DoScheduleSane

\* The executing thread leaves the runnable states: sleep and block.
LEMMA StopSane ==
  ASSUME NEW s, Sane(s), s.started, s.priority[s.current_id] # IdlePriority,
         NEW r \in Scheduler,
         r.ready_bitmap = s.ready_bitmap, r.priority = s.priority,
         r.current_id = s.current_id, r.started = s.started,
         r.panicked = s.panicked /\ r.irq_masked = s.irq_masked,
         r.state[s.current_id] \in {"Sleeping", "Blocked", "BlockedTimeout"},
         \A t \in ThreadIds \ {s.current_id} : r.state[t] = s.state[t]
  PROVE  LET c == ClearReadyIfEmpty(r, s.priority[s.current_id]) IN
         /\ PickNext(c) # NULL_ID
         /\ Sane(DoSchedule(c)) /\ BestRuns(DoSchedule(c))
<1>1. s \in Scheduler /\ s.current_id \in ThreadIds
  BY DEF Sane, HasCurrent
<1>2. s.priority[s.current_id] \in Priorities
  BY <1>1 DEF Scheduler
<1>3. DEFINE c == ClearReadyIfEmpty(r, s.priority[s.current_id])
<1>4. c \in Scheduler
  BY <1>1, <1>2, SmallTypes
<1>5. /\ c.state = r.state /\ c.priority = r.priority
      /\ c.current_id = r.current_id /\ c.started = r.started
      /\ c.panicked = r.panicked /\ c.irq_masked = r.irq_masked
  BY DEF ClearReadyIfEmpty, Scheduler
<1>6. (HasBits(s) => HasBits(c)) /\ (AllBacked(s) => AllBacked(c))
  BY <1>1, StopBits
<1>7. HIDE DEF c
<1>8. HasBits(s) /\ AllBacked(s)
  BY DEF Sane, HasBits, Runnable
<1>9. \A t \in ThreadIds : c.state[t] # "Running"
  BY <1>5 DEF Sane
<1>10. Backed(c, IdlePriority)
  BY <1>1, <1>5 DEF Sane, Backed, Runnable
<1>11. Switching(c)
  BY <1>1, <1>4, <1>5, <1>6, <1>8, <1>9, <1>10 DEF Sane, Switching, HasCurrent
<1>12. PickNext(c) # NULL_ID
  BY <1>11, SwitchingPicks
<1>13. QED BY <1>11, <1>12, DoScheduleSane DEF c

LEMMA WaitsSane ==
  ASSUME NEW s, Sane(s), s.started, s.priority[s.current_id] # IdlePriority,
         NEW d \in Nat
  PROVE  /\ Sane(SleepCurrent(s, d)) /\ BestRuns(SleepCurrent(s, d))
         /\ Sane(BlockCurrent(s)) /\ BestRuns(BlockCurrent(s))
         /\ Sane(BlockCurrentFor(s, d)) /\ BestRuns(BlockCurrentFor(s, d))
<1>1. s \in Scheduler /\ s.current_id \in ThreadIds
  BY DEF Sane, HasCurrent
<1>2. s.tick_count + d \in Nat /\ s.sleep_until[s.current_id] \in Nat
  BY <1>1 DEF Scheduler
<1>3. Sane(SleepCurrent(s, d)) /\ BestRuns(SleepCurrent(s, d))
  <2>1. DEFINE r == [s EXCEPT !.state[s.current_id]       = "Sleeping",
                              !.is_ipc_wait[s.current_id] = FALSE,
                              !.sleep_until[s.current_id] = s.tick_count + d]
  <2>2. /\ r \in Scheduler /\ r.current_id = s.current_id /\ r.started = s.started
        /\ r.panicked = s.panicked /\ r.irq_masked = s.irq_masked /\ r.priority = s.priority
        /\ r.ready_bitmap = s.ready_bitmap /\ r.state[s.current_id] = "Sleeping"
        /\ \A t \in ThreadIds \ {s.current_id} : r.state[t] = s.state[t]
    BY <1>1, <1>2 DEF Scheduler, ThreadStates
  <2>3. SleepCurrent(s, d) = DoSchedule(ClearReadyIfEmpty(r, s.priority[s.current_id]))
    BY DEF SleepCurrent
  <2>4. HIDE DEF r
  <2>5. QED BY <2>2, <2>3, StopSane
<1>4. ASSUME NEW st \in {"Blocked", "BlockedTimeout"}, NEW until \in Nat
      PROVE  Sane(BlockOn(s, st, until)) /\ BestRuns(BlockOn(s, st, until))
  <2>1. DEFINE r == [s EXCEPT !.state[s.current_id]       = st,
                              !.ipc_error[s.current_id]   = "SENTINEL",
                              !.is_ipc_wait[s.current_id] = TRUE,
                              !.sleep_until[s.current_id] = until]
  <2>2. /\ r \in Scheduler /\ r.current_id = s.current_id /\ r.started = s.started
        /\ r.panicked = s.panicked /\ r.irq_masked = s.irq_masked /\ r.priority = s.priority
        /\ r.ready_bitmap = s.ready_bitmap /\ r.state[s.current_id] = st
        /\ \A t \in ThreadIds \ {s.current_id} : r.state[t] = s.state[t]
    BY <1>1, <1>2 DEF Scheduler, ThreadStates, IpcResults
  <2>3. LET c == ClearReadyIfEmpty(r, s.priority[s.current_id])
        IN  BlockOn(s, st, until) =
              IF PickNext(c) = NULL_ID THEN [c EXCEPT !.irq_masked = TRUE]
              ELSE DoSchedule(c)
    BY DEF BlockOn
  <2>4. HIDE DEF r
  <2>5. QED BY <2>2, <2>3, StopSane
<1>5. QED BY <1>2, <1>3, <1>4 DEF BlockCurrent, BlockCurrentFor

\* Threads other than the current one become Ready with their bits.
LEMMA MoreReadySane ==
  ASSUME NEW s, Sane(s), NEW r \in Scheduler, NEW woken \in SUBSET ThreadIds,
         r.started = s.started, r.current_id = s.current_id,
         r.panicked = s.panicked /\ r.irq_masked = s.irq_masked,
         \A t \in woken : /\ s.state[t] \notin Runnable /\ r.state[t] = "Ready"
                          /\ r.priority[t] \in r.ready_bitmap,
         \A t \in ThreadIds \ woken : /\ r.state[t] = s.state[t]
                                     /\ r.priority[t] = s.priority[t],
         s.ready_bitmap \subseteq r.ready_bitmap,
         \A p \in r.ready_bitmap \ s.ready_bitmap :
            \E t \in woken : r.priority[t] = p
  PROVE  Sane(r)
<1>1. HasCurrent(r)
  BY DEF Sane, HasCurrent
<1>2. \A t \in ThreadIds : r.state[t] = "Running" <=> r.started /\ t = r.current_id
  BY DEF Sane, Runnable
<1>3. \A t \in ThreadIds : r.state[t] \in Runnable => r.priority[t] \in r.ready_bitmap
  BY DEF Sane
<1>4. \A p : Backed(s, p) => Backed(r, p)
  BY DEF Backed
<1>5. AllBacked(r)
  <2>1. SUFFICES ASSUME NEW p \in r.ready_bitmap PROVE Backed(r, p)
    BY DEF AllBacked
  <2>2. CASE p \in s.ready_bitmap
    BY <1>4, <2>2 DEF Sane, AllBacked
  <2>3. CASE p \notin s.ready_bitmap
    BY <2>3 DEF Backed, Runnable
  <2>4. QED BY <2>2, <2>3
<1>6. QED BY <1>1, <1>2, <1>3, <1>4, <1>5 DEF Sane

LEMMA UnblockSane ==
  ASSUME NEW s, Sane(s), NEW id \in ThreadIds
  PROVE  Sane(UnblockThread(s, id)) /\ UnblockThread(s, id).current_id = s.current_id
<1>1. s \in Scheduler
  BY DEF Sane, HasCurrent
<1>2. CASE /\ s.state[id] \in {"Blocked", "BlockedTimeout", "Sleeping"}
           /\ s.is_ipc_wait[id]
  <2>1. DEFINE r == UnblockThread(s, id)
  <2>2. DEFINE q == [s EXCEPT !.ipc_error[id]   = "OK",
                              !.is_ipc_wait[id] = FALSE,
                              !.sleep_until[id] = 0]
  <2>3. /\ r \in Scheduler /\ r.current_id = s.current_id /\ r.started = s.started
        /\ r.panicked = s.panicked /\ r.irq_masked = s.irq_masked /\ r.priority = s.priority
        /\ r.ready_bitmap = s.ready_bitmap \cup {s.priority[id]}
        /\ r.state[id] = "Ready"
        /\ \A t \in ThreadIds \ {id} : /\ r.state[t] = s.state[t]
                                      /\ r.priority[t] = s.priority[t]
    <3>1. /\ q \in Scheduler /\ q.current_id = s.current_id /\ q.started = s.started
          /\ q.panicked = s.panicked /\ q.irq_masked = s.irq_masked /\ q.priority = s.priority
          /\ q.ready_bitmap = s.ready_bitmap /\ q.state = s.state
      BY <1>1 DEF Scheduler, IpcResults
    <3>2. r = SetReady(q, id)
      BY <1>2 DEF UnblockThread
    <3>3. HIDE DEF q, r
    <3>4. s.priority[id] \in Priorities
      BY <1>1 DEF Scheduler
    <3>5. r \in Scheduler
      BY <3>1, <3>2, <3>4, SmallTypes
    <3>6. r = [q EXCEPT !.state[id] = "Ready",
                        !.ready_bitmap = q.ready_bitmap \cup {q.priority[id]}]
      BY <3>2 DEF SetReady
    <3>7. QED BY <3>1, <3>5, <3>6 DEF Scheduler
  <2>4. HIDE DEF r
  <2>5. /\ \A t \in {id} : /\ s.state[t] \notin Runnable /\ r.state[t] = "Ready"
                           /\ r.priority[t] \in r.ready_bitmap
        /\ \A p \in r.ready_bitmap \ s.ready_bitmap :
             \E t \in {id} : r.priority[t] = p
    BY <1>2, <2>3 DEF Runnable
  <2>6. Sane(r)
    <3>1. {id} \in SUBSET ThreadIds
      OBVIOUS
    <3>2. QED BY <2>3, <2>5, <3>1, MoreReadySane
  <2>7. QED BY <2>3, <2>6 DEF r
<1>3. CASE ~(/\ s.state[id] \in {"Blocked", "BlockedTimeout", "Sleeping"}
             /\ s.is_ipc_wait[id])
  <2>1. UnblockThread(s, id) = s
    BY <1>3 DEF UnblockThread
  <2>2. QED BY <2>1
<1>4. QED BY <1>2, <1>3

LEMMA CreateSane ==
  ASSUME NEW s, Sane(s), NEW prof \in Profiles,
         \E t \in ThreadIds : s.state[t] = "Dead"
  PROVE  /\ Sane(CreateThread(s, prof))
         /\ CreateThread(s, prof).current_id = s.current_id
<1>1. s \in Scheduler
  BY DEF Sane, HasCurrent
<1>2. PICK id \in ThreadIds : /\ s.state[id] = "Dead"
                             /\ CreateThread(s, prof) = PutThread(s, id, prof)
  BY <1>1, CreateType DEF CreateThread
<1>3. DEFINE r == PutThread(s, id, prof)
<1>4. r \in Scheduler
  BY <1>1, <1>2, CreateType
<1>5. /\ r.current_id = s.current_id /\ r.started = s.started
      /\ r.panicked = s.panicked /\ r.irq_masked = s.irq_masked
      /\ r.ready_bitmap = s.ready_bitmap \cup {prof.priority}
      /\ r.state[id] = "Ready" /\ r.priority[id] = prof.priority
      /\ \A t \in ThreadIds \ {id} : /\ r.state[t] = s.state[t]
                                     /\ r.priority[t] = s.priority[t]
  BY <1>1 DEF PutThread, Scheduler
<1>6. HIDE DEF r
<1>7. /\ \A t \in {id} : /\ s.state[t] \notin Runnable /\ r.state[t] = "Ready"
                         /\ r.priority[t] \in r.ready_bitmap
      /\ \A p \in r.ready_bitmap \ s.ready_bitmap :
           \E t \in {id} : r.priority[t] = p
  BY <1>2, <1>5 DEF Runnable
<1>8. Sane(r)
  <2>1. {id} \in SUBSET ThreadIds
    OBVIOUS
  <2>2. QED BY <1>4, <1>5, <1>7, <2>1, MoreReadySane, ZenonT(60)
<1>9. QED BY <1>2, <1>5, <1>8 DEF r

LEMMA WakeSane ==
  ASSUME NEW s, Sane(s)
  PROVE  /\ Sane(WakeDue(s)) /\ WakeDue(s).current_id = s.current_id
         /\ WakeDue(s).started = s.started
<1>1. s \in Scheduler
  BY DEF Sane, HasCurrent
<1>2. DEFINE due == Due(s, NextTick(s))
             r == WakeDue(s)
<1>3. r \in Scheduler
  BY <1>1, WakeType
<1>4. /\ r.current_id = s.current_id /\ r.started = s.started
      /\ r.panicked = s.panicked /\ r.irq_masked = s.irq_masked /\ r.priority = s.priority
      /\ r.ready_bitmap = s.ready_bitmap \cup {s.priority[t] : t \in due}
      /\ \A t \in ThreadIds : r.state[t] = IF t \in due THEN "Ready" ELSE s.state[t]
  BY <1>1 DEF WakeDue, Wake, Scheduler
<1>5. due \in SUBSET ThreadIds /\ \A t \in due : s.state[t] \notin Runnable
  BY DEF Due, Runnable
<1>6. HIDE DEF r, due
<1>7. /\ \A t \in due : /\ s.state[t] \notin Runnable /\ r.state[t] = "Ready"
                        /\ r.priority[t] \in r.ready_bitmap
      /\ \A p \in r.ready_bitmap \ s.ready_bitmap :
           \E t \in due : r.priority[t] = p
  BY <1>4, <1>5
<1>8. Sane(r)
  BY <1>3, <1>4, <1>5, <1>7, MoreReadySane
<1>9. QED BY <1>4, <1>8 DEF r

\* The interrupted thread is requeued with its bit, then the best one runs.
LEMMA PreemptSane ==
  ASSUME NEW w, Sane(w), w.started
  PROVE  Sane(Preempt(w)) /\ BestRuns(Preempt(w))
<1>1. /\ w \in Scheduler /\ w.current_id \in ThreadIds
      /\ w.state[w.current_id] = "Running"
  BY DEF Sane, HasCurrent
<1>2. w.priority[w.current_id] \in Priorities
  BY <1>1 DEF Scheduler
<1>3. DEFINE r == SetReady(w, w.current_id)
<1>4. r \in Scheduler
  BY <1>1, <1>2, SmallTypes
<1>5. /\ r.current_id = w.current_id /\ r.started = w.started
      /\ r.panicked = w.panicked /\ r.irq_masked = w.irq_masked /\ r.priority = w.priority
      /\ r.state[w.current_id] = "Ready"
      /\ \A t \in ThreadIds \ {w.current_id} : r.state[t] = w.state[t]
  BY <1>1 DEF SetReady, Scheduler
<1>6. (HasBits(w) => HasBits(r)) /\ (AllBacked(w) => AllBacked(r))
  BY <1>1, SetReadyBits
<1>7. Preempt(w) = DoSchedule(r)
  BY <1>1 DEF Preempt
<1>8. HIDE DEF r
<1>9. Switching(r)
  <2>1. HasBits(w) /\ AllBacked(w)
    BY DEF Sane, HasBits, Runnable
  <2>2. Backed(r, IdlePriority)
    BY <1>5 DEF Sane, Backed, Runnable
  <2>3. QED BY <1>1, <1>4, <1>5, <1>6, <2>1, <2>2 DEF Sane, Switching, HasCurrent
<1>10. QED BY <1>7, <1>9, DoScheduleSane

LEMMA PreemptIfBetterSane ==
  ASSUME NEW w, Sane(w), w.started
  PROVE  Sane(PreemptIfBetter(w)) /\ BestRuns(PreemptIfBetter(w))
<1>1. /\ w \in Scheduler /\ w.current_id \in ThreadIds
      /\ w.state[w.current_id] = "Running" /\ w.current_id # NULL_ID
  BY IdsAreNats DEF Sane, HasCurrent
<1>2. CASE Min(w.ready_bitmap) < w.priority[w.current_id]
  <2>1. w.ready_bitmap # {}
    BY <1>1 DEF Sane, Runnable
  <2>2. PreemptIfBetter(w) = Preempt(w)
    BY <1>1, <1>2, <2>1 DEF PreemptIfBetter
  <2>3. QED BY <2>2, PreemptSane
<1>3. CASE ~(Min(w.ready_bitmap) < w.priority[w.current_id])
  <2>1. PreemptIfBetter(w) = w
    BY <1>1, <1>3 DEF PreemptIfBetter
  <2>2. w.ready_bitmap \in SUBSET Nat /\ w.priority[w.current_id] \in Nat
    BY <1>1, IdsAreNats DEF Scheduler
  <2>3. ASSUME NEW t \in ThreadIds, w.state[t] = "Ready"
        PROVE  w.priority[w.current_id] <= w.priority[t]
    <3>1. w.priority[t] \in w.ready_bitmap
      BY <2>3 DEF Sane, Runnable
    <3>2. Min(w.ready_bitmap) \in Nat /\ Min(w.ready_bitmap) <= w.priority[t]
      BY <2>2, <3>1, MinOfNats
    <3>3. w.priority[t] \in Nat
      BY <2>2, <3>1
    <3>4. QED BY <1>3, <2>2, <3>2, <3>3
  <2>4. QED BY <2>1, <2>3 DEF BestRuns
<1>4. QED BY <1>2, <1>3

LEMMA TickSane ==
  ASSUME NEW s, Sane(s), s.started
  PROVE  Sane(TickAwake(WakeDue(s))) /\ BestRuns(TickAwake(WakeDue(s)))
<1>1. ASSUME NEW w, Sane(w), w.started
      PROVE  Sane(TickAwake(w)) /\ BestRuns(TickAwake(w))
  <2>1. /\ w \in Scheduler /\ w.current_id \in ThreadIds
        /\ w.state[w.current_id] = "Running" /\ w.current_id # NULL_ID
    BY <1>1, IdsAreNats DEF Sane, HasCurrent
  <2>2. ASSUME NEW n \in Nat
        PROVE  LET r == [w EXCEPT !.tick[w.current_id] = n] IN Sane(r) /\ r.started
    <3>1. DEFINE r == [w EXCEPT !.tick[w.current_id] = n]
    <3>2. /\ r \in Scheduler /\ r.current_id = w.current_id /\ r.started = w.started
          /\ r.panicked = w.panicked /\ r.irq_masked = w.irq_masked /\ r.priority = w.priority /\ r.state = w.state
          /\ r.ready_bitmap = w.ready_bitmap
      BY <2>1 DEF Scheduler
    <3>3. HIDE DEF r
    <3>4. Sane(r) /\ r.started
      BY <1>1, <3>2 DEF Sane, HasCurrent, AllBacked, Backed
    <3>5. QED BY <3>4 DEF r
  <2>3. DEFINE left == IF w.tick[w.current_id] > 0 THEN w.tick[w.current_id] - 1 ELSE 0
  <2>4. left \in Nat /\ w.init_tick[w.current_id] \in Nat
    BY <2>1 DEF Scheduler
  <2>5. CASE left = 0
    <3>1. TickAwake(w) = Preempt([w EXCEPT !.tick[w.current_id] = w.init_tick[w.current_id]])
      BY <2>1, <2>5 DEF TickAwake
    <3>2. QED BY <2>2, <2>4, <3>1, PreemptSane
  <2>6. CASE left # 0
    <3>1. TickAwake(w) = PreemptIfBetter([w EXCEPT !.tick[w.current_id] = left])
      BY <2>1, <2>6 DEF TickAwake
    <3>2. HIDE DEF left
    <3>3. QED BY <2>2, <2>4, <3>1, PreemptIfBetterSane
  <2>7. QED BY <2>5, <2>6
<1>2. QED BY <1>1, WakeSane

LEMMA StartSane ==
  ASSUME NEW s, Sane(s), ~s.started, ReadyAt(s, IdlePriority) # {}
  PROVE  Sane(StartScheduler(s)) /\ BestRuns(StartScheduler(s))
<1>1. s \in Scheduler
  BY DEF Sane, HasCurrent
<1>2. PICK u \in ThreadIds : s.state[u] = "Ready" /\ s.priority[u] = IdlePriority
  BY DEF ReadyAt
<1>3. HasBits(s)
  BY DEF Sane, HasBits, Runnable
<1>4. \A p \in s.ready_bitmap : ReadyAt(s, p) # {}
  BY DEF Sane, AllBacked, Backed, Runnable, ReadyAt
<1>5. /\ PickNext(s) # NULL_ID
      /\ \A t \in ThreadIds :
           s.state[t] = "Ready" => s.priority[PickNext(s)] <= s.priority[t]
  BY <1>1, <1>2, <1>3, <1>4, PickNextBest
<1>6. PickNext(s) \in ThreadIds /\ s.state[PickNext(s)] = "Ready"
  BY <1>1, <1>5, PickNextReady
<1>7. DEFINE r == StartScheduler(s)
<1>8. r = [Dispatch(s, PickNext(s)) EXCEPT !.current_id = PickNext(s), !.started = TRUE]
  BY <1>5 DEF StartScheduler
<1>9. /\ r.current_id = PickNext(s) /\ r.panicked = s.panicked /\ r.irq_masked = s.irq_masked
      /\ r.started = TRUE /\ r.priority = s.priority
      /\ r.ready_bitmap = s.ready_bitmap
      /\ r.state = [s.state EXCEPT ![PickNext(s)] = "Running"]
  BY <1>1, <1>6, <1>8, DispatchChanges
<1>10. r \in Scheduler /\ AllBacked(r)
  BY <1>1, StartType, StartBits DEF Sane
<1>11. \A t \in ThreadIds : r.state[t] =
         IF t = PickNext(s) THEN "Running" ELSE s.state[t]
  BY <1>1, <1>6, <1>9 DEF Scheduler
<1>12. HIDE DEF r
<1>13. \A t \in ThreadIds : r.state[t] = "Running" <=> r.started /\ t = r.current_id
  BY <1>9, <1>11 DEF Sane
<1>14. \A t \in ThreadIds : r.state[t] \in Runnable => r.priority[t] \in r.ready_bitmap
  BY <1>6, <1>9, <1>11 DEF Sane, Runnable
<1>15. Backed(r, IdlePriority)
  BY <1>2, <1>9, <1>11 DEF Backed, Runnable
<1>16. Sane(r)
  BY <1>6, <1>9, <1>10, <1>13, <1>14, <1>15 DEF Sane, HasCurrent
<1>17. BestRuns(r)
  BY <1>5, <1>9, <1>11 DEF BestRuns
<1>18. QED BY <1>16, <1>17 DEF r

-----------------------------------------------------------------------------
(* The theorems.                                                           *)

LEMMA InitSane == Init => Sane(sched)
<1>1. SUFFICES ASSUME Init PROVE Sane(sched)
  OBVIOUS
<1>2. HasCurrent(sched)
  BY <1>1, InitHasCurrent
<1>3. /\ sched.started = FALSE /\ sched.panicked = FALSE
      /\ sched.irq_masked = FALSE
      /\ sched.current_id = NULL_ID /\ sched.ready_bitmap = {}
      /\ \A t \in ThreadIds : sched.state[t] = "Dead"
  BY <1>1 DEF Init, NewScheduler
<1>4. QED BY <1>2, <1>3 DEF Sane, AllBacked, Runnable

LEMMA NextSane ==
  ASSUME Api \subseteq CoreCalls, KeepIdle, Sane(sched), [Next]_vars
  PROVE  /\ Sane(sched)'
         /\ sched'.current_id = sched.current_id \/ BestRuns(sched')
<1>1. CASE Create
  BY <1>1, CreateSane DEF Create
<1>2. CASE Start
  BY <1>2, StartSane DEF Start
<1>3. CASE Yield
  BY <1>3, YieldSane DEF Yield, Executing
<1>4. CASE Sleep
  BY <1>4, WaitsSane, SchedulerAssumption DEF Sleep, Executing, MayStop
<1>5. CASE Delete
  BY <1>5 DEF Delete, CoreCalls
<1>6. CASE Suspend
  BY <1>6 DEF Suspend, CoreCalls
<1>7. CASE Resume
  BY <1>7 DEF Resume, CoreCalls
<1>8. CASE Exit
  BY <1>8 DEF Exit, CoreCalls
<1>9. CASE Block
  BY <1>9, WaitsSane, SchedulerAssumption DEF Block, Executing, MayStop
<1>10. CASE Unblock
  BY <1>10, UnblockSane DEF Unblock
<1>11. CASE Tick
  BY <1>11, TickSane DEF Tick, CoreCalls
<1>12. CASE UNCHANGED vars
  BY <1>12 DEF vars
<1>13. QED BY <1>1, <1>2, <1>3, <1>4, <1>5, <1>6, <1>7, <1>8, <1>9, <1>10,
               <1>11, <1>12 DEF Next

\* With an idle thread and the core calls, exactly the thread on the CPU is
\* Running between calls (thread.rs:221-289).
THEOREM OnlyCurrentRuns ==
  ASSUME Api \subseteq CoreCalls, KeepIdle
  PROVE  Spec => []OneRunning
<1>1. Sane(sched) => OneRunning
  BY DEF Sane, OneRunning, Executing
<1>2. Sane(sched) /\ [Next]_vars => Sane(sched)'
  BY NextSane
<1>3. QED BY <1>1, <1>2, InitSane, PTL DEF Spec

\* A bit with nobody Ready is that of the thread on the CPU, so that pick_next never
\* stops at it with lower priorities waiting (thread.rs:181-215).
THEOREM BitsAreServed ==
  ASSUME Api \subseteq CoreCalls, KeepIdle
  PROVE  Spec => []BitIsServed
<1>1. BitHasRunnable /\ OneRunning => BitIsServed
  BY DEF BitHasRunnable, OneRunning, BitIsServed
<1>2. QED BY <1>1, BitsAreBacked, OnlyCurrentRuns, PTL

\* No lookup of the thread table fails: pick_next never comes back empty when
\* the scheduler starts, and no switch leaves an empty slot (thread.rs:246).
THEOREM NeverPanics ==
  ASSUME Api \subseteq CoreCalls, KeepIdle
  PROVE  Spec => []NoPanic
<1>1. Sane(sched) => NoPanic
  BY DEF Sane, NoPanic
<1>2. Sane(sched) /\ [Next]_vars => Sane(sched)'
  BY NextSane
<1>3. QED BY <1>1, <1>2, InitSane, PTL DEF Spec

\* IRQs are enabled at every return to a thread: a thread that blocks always
\* leaves the CPU to another one, which resumes unmasked (asm/context.s:26).
THEOREM IrqsStayOn ==
  ASSUME Api \subseteq CoreCalls, KeepIdle
  PROVE  Spec => []IrqsComeBack
<1>1. Sane(sched) => IrqsComeBack
  BY DEF Sane, IrqsComeBack
<1>2. Sane(sched) /\ [Next]_vars => Sane(sched)'
  BY NextSane
<1>3. QED BY <1>1, <1>2, InitSane, PTL DEF Spec

\* The bit of a Ready thread is set, thread_yield included: a Running thread
\* keeps its bit as long as only the current thread can stop (thread.rs:144).
THEOREM ReadyAreVisibleInCore ==
  ASSUME Api \subseteq CoreCalls, KeepIdle
  PROVE  Spec => []ReadyHasBit
<1>1. Sane(sched) => ReadyHasBit
  BY DEF Sane, ReadyHasBit, Runnable
<1>2. Sane(sched) /\ [Next]_vars => Sane(sched)'
  BY NextSane
<1>3. QED BY <1>1, <1>2, InitSane, PTL DEF Spec

\* Whenever the CPU changes hands it goes to a best-priority Ready thread
\* (docs/THREADING.md:58, thread.rs:196-256).
THEOREM SwitchesToBest ==
  ASSUME Api \subseteq CoreCalls, KeepIdle
  PROVE  Spec => SwitchToBest
<1>1. Sane(sched) /\ [Next]_vars => Sane(sched)'
  BY NextSane
<1>2. Sane(sched) /\ [Next]_vars =>
        [sched'.current_id # sched.current_id =>
           \A t \in ThreadIds :
             sched'.state[t] = "Ready" =>
               sched'.priority[sched'.current_id] <= sched'.priority[t]]_vars
  BY NextSane DEF BestRuns
<1>3. QED BY <1>1, <1>2, InitSane, PTL DEF Spec, SwitchToBest

\* After every timer interrupt a best-priority thread has the CPU
\* (thread.rs:519-555).
THEOREM TicksPreempt ==
  ASSUME Api \subseteq CoreCalls, KeepIdle
  PROVE  Spec => TickPreempts
<1>1. Sane(sched) /\ [Next]_vars => Sane(sched)'
  BY NextSane
<1>2. ASSUME Sane(sched), Ticked, Executing(sched'), ~sched.started
      PROVE  FALSE
  <2>1. WakeDue(sched).current_id = NULL_ID /\ ~WakeDue(sched).started
        /\ WakeDue(sched) \in Scheduler
    BY <1>2, WakeSane DEF Sane, HasCurrent
  <2>2. sched' = PreemptIfBetter(WakeDue(sched))
    BY <1>2, <2>1 DEF Ticked, SchedTick, TickAwake
  <2>3. sched' \in {WakeDue(sched), Panic(WakeDue(sched))}
    BY <2>1, <2>2 DEF PreemptIfBetter
  <2>4. QED BY <1>2, <2>1, <2>3 DEF Panic, Executing, Scheduler
<1>3. Sane(sched) /\ Ticked /\ Executing(sched') => BestRuns(sched')
  BY <1>2, TickSane DEF Ticked, SchedTick
<1>4. Sane(sched) /\ [Next]_vars =>
        [Ticked /\ Executing(sched') =>
           \A t \in ThreadIds :
             sched'.state[t] = "Ready" =>
               sched'.priority[sched'.current_id] <= sched'.priority[t]]_vars
  BY <1>3 DEF BestRuns
<1>5. QED BY <1>1, <1>4, InitSane, PTL DEF Spec, TickPreempts
=============================================================================
