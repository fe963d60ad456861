------------------------------- MODULE IpcProofs -------------------------------
(***************************************************************************)
(* Proofs about the scheduler under the IPC objects, and about the objects *)
(* over it.  With an idle thread, and threads that come and go, the thread *)
(* on the CPU is Running and no other is.  An object sees of a thread the  *)
(* call it is in, the mark of its wait and the wait's result: each step is *)
(* described by how it moves those, so that an object's invariant is       *)
(* disturbed only by its own steps and by the clock.                       *)
(***************************************************************************)
EXTENDS Ipc, WaitProofs, FiniteSetTheorems

-----------------------------------------------------------------------------
(* One thread Running.  Deleting a peer may hide a thread from pick_next   *)
(* (unlike under Sane), but never the idle thread.                         *)

Steady(s) ==
  /\ HasCurrent(s) /\ s.started /\ ~s.panicked
  /\ \A t \in ThreadIds : s.state[t] = "Running" <=> t = s.current_id
  /\ AllBacked(s) /\ IdlePriority \in s.ready_bitmap

\* In a call that has taken the caller's Running state away.
MidSwitch(s) ==
  /\ HasCurrent(s) /\ s.started /\ ~s.panicked
  /\ s.state[s.current_id] # "Dead"
  /\ \A t \in ThreadIds : s.state[t] # "Running"
  /\ AllBacked(s) /\ IdlePriority \in s.ready_bitmap

LEMMA SteadyCurrent ==
  ASSUME NEW s, Steady(s)
  PROVE  /\ s \in Scheduler /\ HasCurrent(s)
         /\ s.current_id \in ThreadIds /\ s.current_id # NULL_ID
         /\ s.state[s.current_id] = "Running"
         /\ s.priority[s.current_id] \in Priorities
<1>1. s \in Scheduler /\ s.current_id \in ThreadIds
  BY DEF Steady, HasCurrent
<1>2. QED BY <1>1, IdsAreNats DEF Steady, Scheduler

\* A best bit that nobody Running holds has a Ready thread.
LEMMA NoneRunningPicks ==
  ASSUME NEW s \in Scheduler, AllBacked(s), s.ready_bitmap # {},
         \A t \in ThreadIds : s.state[t] # "Running"
  PROVE  PickNext(s) \in ThreadIds /\ PickNext(s) # NULL_ID
<1>1. s.ready_bitmap \in SUBSET Nat
  BY IdsAreNats DEF Scheduler
<1>2. Min(s.ready_bitmap) \in s.ready_bitmap
  BY <1>1, MinOfNats
<1>3. PICK t \in ThreadIds : /\ s.priority[t] = Min(s.ready_bitmap)
                             /\ s.state[t] \in {"Ready", "Running"}
  BY <1>2 DEF AllBacked, Backed, Runnable
<1>4. ReadyAt(s, Min(s.ready_bitmap)) # {}
  BY <1>3 DEF ReadyAt
<1>5. ReadyAt(s, Min(s.ready_bitmap)) \in SUBSET ThreadIds
  BY DEF ReadyAt
<1>6. PickNext(s) \in ThreadIds
  BY <1>4, <1>5, NextAfterIn DEF PickNext
<1>7. QED BY <1>6, IdsAreNats

LEMMA DoScheduleSteady ==
  ASSUME NEW s, MidSwitch(s)
  PROVE  PickNext(s) # NULL_ID /\ Steady(DoSchedule(s))
<1>1. s \in Scheduler /\ s.current_id \in ThreadIds /\ s.current_id # NULL_ID
  BY IdsAreNats DEF MidSwitch, HasCurrent
<1>2. PickNext(s) \in ThreadIds /\ PickNext(s) # NULL_ID
  BY <1>1, NoneRunningPicks DEF MidSwitch
<1>3. DEFINE r == DoSchedule(s)
<1>4. /\ r.current_id = PickNext(s) /\ r.panicked = s.panicked
      /\ r.started = s.started /\ r.ready_bitmap = s.ready_bitmap
      /\ r.state = [s.state EXCEPT ![PickNext(s)] = "Running"]
  BY <1>1, <1>2, DoScheduleChanges DEF MidSwitch
<1>5. HasCurrent(r) /\ AllBacked(r)
  BY <1>1, DoScheduleCurrent, DoScheduleBits DEF MidSwitch
<1>6. \A t \in ThreadIds : r.state[t] = IF t = PickNext(s) THEN "Running" ELSE s.state[t]
  BY <1>1, <1>2, <1>4 DEF Scheduler
<1>7. HIDE DEF r
<1>8. Steady(r)
  BY <1>4, <1>5, <1>6 DEF Steady, MidSwitch
<1>9. QED BY <1>2, <1>8 DEF r

LEMMA YieldSteady ==
  ASSUME NEW s, Steady(s)
  PROVE  Steady(YieldCurrent(s))
<1>1. /\ s \in Scheduler /\ HasCurrent(s) /\ s.current_id \in ThreadIds
      /\ s.state[s.current_id] = "Running"
  BY SteadyCurrent
<1>2. DEFINE r == [s EXCEPT !.state[s.current_id] = "Ready"]
<1>3. /\ r \in Scheduler /\ r.current_id = s.current_id /\ r.started = s.started
      /\ r.panicked = s.panicked /\ r.priority = s.priority
      /\ r.ready_bitmap = s.ready_bitmap /\ r.state[s.current_id] = "Ready"
      /\ \A t \in ThreadIds \ {s.current_id} : r.state[t] = s.state[t]
  BY <1>1 DEF Scheduler, ThreadStates
<1>4. YieldCurrent(s) = DoSchedule(r)
  BY <1>1 DEF YieldCurrent
<1>5. HIDE DEF r
<1>6. \A p : Backed(s, p) => Backed(r, p)
  BY <1>3 DEF Backed, Runnable
<1>7. MidSwitch(r)
  BY <1>1, <1>3, <1>6 DEF Steady, MidSwitch, HasCurrent, AllBacked
<1>8. QED BY <1>4, <1>7, DoScheduleSteady

\* The executing thread stops: sleep and block.
LEMMA StopSteady ==
  ASSUME NEW s, Steady(s), s.priority[s.current_id] # IdlePriority,
         NEW r \in Scheduler,
         r.ready_bitmap = s.ready_bitmap, r.priority = s.priority,
         r.current_id = s.current_id, r.started = s.started,
         r.panicked = s.panicked,
         r.state[s.current_id] \in Waiting,
         \A t \in ThreadIds \ {s.current_id} : r.state[t] = s.state[t]
  PROVE  LET c == ClearReadyIfEmpty(r, s.priority[s.current_id])
         IN  PickNext(c) # NULL_ID /\ Steady(DoSchedule(c))
<1>1. /\ s \in Scheduler /\ s.current_id \in ThreadIds
      /\ s.priority[s.current_id] \in Priorities
  BY SteadyCurrent
<1>2. DEFINE c == ClearReadyIfEmpty(r, s.priority[s.current_id])
<1>3. c \in Scheduler
  BY <1>1, SmallTypes
<1>4. /\ c.state = r.state /\ c.current_id = r.current_id
      /\ c.started = r.started /\ c.panicked = r.panicked
      /\ r.ready_bitmap \ {s.priority[s.current_id]} \subseteq c.ready_bitmap
  BY DEF ClearReadyIfEmpty, Scheduler
<1>5. AllBacked(s) => AllBacked(c)
  BY <1>1, StopBits DEF Waiting
<1>6. HIDE DEF c
<1>7. MidSwitch(c)
  BY <1>1, <1>3, <1>4, <1>5 DEF Steady, MidSwitch, HasCurrent, Waiting
<1>8. QED BY <1>7, DoScheduleSteady DEF c

\* The sleeping thread's mark goes: under WaitsSound it had none.
LEMMA SleepSteady ==
  ASSUME NEW s, Steady(s), s.priority[s.current_id] # IdlePriority, NEW d \in Nat
  PROVE  LET r == SleepCurrent(s, d) IN
         /\ Steady(r)
         /\ r.is_ipc_wait = [s.is_ipc_wait EXCEPT ![s.current_id] = FALSE]
         /\ r.ipc_error = s.ipc_error
         /\ \A t \in ThreadIds : r.state[t] = "BlockedTimeout" => s.state[t] = "BlockedTimeout"
         /\ \A t \in ThreadIds : r.state[t] = "Dead" <=> s.state[t] = "Dead"
<1>1. /\ s \in Scheduler /\ s.current_id \in ThreadIds
      /\ s.state[s.current_id] = "Running" /\ s.priority[s.current_id] \in Priorities
  BY SteadyCurrent
<1>2. s.tick_count + d \in Nat
  BY <1>1 DEF Scheduler
<1>3. DEFINE m == [s EXCEPT !.state[s.current_id]       = "Sleeping",
                            !.is_ipc_wait[s.current_id] = FALSE,
                            !.sleep_until[s.current_id] = s.tick_count + d]
             c == ClearReadyIfEmpty(m, s.priority[s.current_id])
<1>4. /\ m \in Scheduler /\ m.current_id = s.current_id /\ m.started = s.started
      /\ m.panicked = s.panicked /\ m.priority = s.priority
      /\ m.ready_bitmap = s.ready_bitmap /\ m.state[s.current_id] = "Sleeping"
      /\ \A t \in ThreadIds \ {s.current_id} : m.state[t] = s.state[t]
      /\ m.is_ipc_wait = [s.is_ipc_wait EXCEPT ![s.current_id] = FALSE]
      /\ m.ipc_error = s.ipc_error
  BY <1>1, <1>2 DEF Scheduler, ThreadStates
<1>5. SleepCurrent(s, d) = DoSchedule(c)
  BY DEF SleepCurrent
<1>6. HIDE DEF m
<1>7. Steady(DoSchedule(c))
  BY <1>4, StopSteady DEF Waiting
<1>8. c \in Scheduler /\ Quiet(m, c)
  BY <1>1, <1>4, SmallTypes, SmallQuiet
<1>9. Quiet(m, DoSchedule(c))
  <2>1. HIDE DEF c
  <2>2. QED BY <1>8, DoScheduleQuiet, QuietComposes
<1>10. HIDE DEF c
<1>11. \A t \in ThreadIds : m.state[t] = "Dead" <=> s.state[t] = "Dead"
  BY <1>1, <1>4
<1>12. \A t \in ThreadIds : m.state[t] = "BlockedTimeout" => s.state[t] = "BlockedTimeout"
  BY <1>4
<1>13. QED BY <1>4, <1>5, <1>7, <1>9, <1>11, <1>12 DEF Quiet, Runnable

\* What block_current does to the marks and results.
LEMMA BlockOnSteady ==
  ASSUME NEW s, Steady(s), s.priority[s.current_id] # IdlePriority,
         NEW st \in {"Blocked", "BlockedTimeout"}, NEW until \in Nat
  PROVE  LET r == BlockOn(s, st, until) IN
         /\ Steady(r)
         /\ r.is_ipc_wait = [s.is_ipc_wait EXCEPT ![s.current_id] = TRUE]
         /\ r.ipc_error = [s.ipc_error EXCEPT ![s.current_id] = "SENTINEL"]
         /\ st # "BlockedTimeout" =>
              \A t \in ThreadIds : r.state[t] = "BlockedTimeout" => s.state[t] = "BlockedTimeout"
         /\ \A t \in ThreadIds : r.state[t] = "Dead" => s.state[t] = "Dead"
<1>1. s \in Scheduler /\ s.current_id \in ThreadIds /\ s.priority[s.current_id] \in Priorities
  BY SteadyCurrent
<1>2. DEFINE m == [s EXCEPT !.state[s.current_id]       = st,
                            !.ipc_error[s.current_id]   = "SENTINEL",
                            !.is_ipc_wait[s.current_id] = TRUE,
                            !.sleep_until[s.current_id] = until]
             c == ClearReadyIfEmpty(m, s.priority[s.current_id])
<1>3. /\ m \in Scheduler /\ m.current_id = s.current_id /\ m.started = s.started
      /\ m.panicked = s.panicked /\ m.priority = s.priority
      /\ m.ready_bitmap = s.ready_bitmap /\ m.state[s.current_id] = st
      /\ \A t \in ThreadIds \ {s.current_id} : m.state[t] = s.state[t]
      /\ m.is_ipc_wait = [s.is_ipc_wait EXCEPT ![s.current_id] = TRUE]
      /\ m.ipc_error = [s.ipc_error EXCEPT ![s.current_id] = "SENTINEL"]
  BY <1>1 DEF Scheduler, ThreadStates, IpcResults
<1>4. BlockOn(s, st, until) = IF PickNext(c) = NULL_ID THEN [c EXCEPT !.irq_masked = TRUE]
                              ELSE DoSchedule(c)
  BY DEF BlockOn
<1>5. HIDE DEF m
<1>6. PickNext(c) # NULL_ID /\ Steady(DoSchedule(c))
  BY <1>3, StopSteady DEF Waiting
<1>7. c \in Scheduler /\ Quiet(m, c)
  BY <1>1, <1>3, SmallTypes, SmallQuiet
<1>8. Quiet(m, DoSchedule(c))
  <2>1. HIDE DEF c
  <2>2. QED BY <1>7, DoScheduleQuiet, QuietComposes
<1>9. BlockOn(s, st, until) = DoSchedule(c)
  BY <1>4, <1>6
<1>10. HIDE DEF c
<1>11. QED BY <1>3, <1>6, <1>8, <1>9 DEF Quiet, Runnable

LEMMA CreateSteady ==
  ASSUME NEW s, Steady(s), NEW prof \in Profiles,
         \E t \in ThreadIds : s.state[t] = "Dead"
  PROVE  LET r == CreateThread(s, prof) IN
         /\ Steady(r) /\ r.current_id = s.current_id
         /\ \E id \in ThreadIds :
              /\ s.state[id] = "Dead" /\ r.state[id] = "Ready" /\ ~r.is_ipc_wait[id]
              /\ \A t \in ThreadIds \ {id} :
                   /\ r.state[t] = s.state[t]
                   /\ r.is_ipc_wait[t] = s.is_ipc_wait[t] /\ r.ipc_error[t] = s.ipc_error[t]
<1>1. s \in Scheduler /\ s.current_id \in ThreadIds
  BY SteadyCurrent
<1>2. PICK id \in ThreadIds : /\ s.state[id] = "Dead"
                             /\ CreateThread(s, prof) = PutThread(s, id, prof)
  BY <1>1, CreateType DEF CreateThread
<1>3. DEFINE r == PutThread(s, id, prof)
<1>4. r \in Scheduler
  BY <1>1, <1>2, CreateType
<1>5. /\ r.current_id = s.current_id /\ r.started = s.started /\ r.panicked = s.panicked
      /\ s.ready_bitmap \subseteq r.ready_bitmap
      /\ r.state[id] = "Ready" /\ r.is_ipc_wait[id] = FALSE
      /\ \A t \in ThreadIds \ {id} :
           /\ r.state[t] = s.state[t]
           /\ r.is_ipc_wait[t] = s.is_ipc_wait[t] /\ r.ipc_error[t] = s.ipc_error[t]
  BY <1>1 DEF PutThread, Scheduler
<1>6. AllBacked(s) => AllBacked(r)
  BY <1>1, <1>2, CreateBits
<1>7. HIDE DEF r
<1>8. Steady(r)
  BY <1>1, <1>2, <1>4, <1>5, <1>6 DEF Steady, HasCurrent
<1>9. QED BY <1>2, <1>5, <1>8 DEF r

LEMMA DeleteSteady ==
  ASSUME NEW s, Steady(s), NEW id \in ThreadIds \ {s.current_id},
         s.priority[id] # IdlePriority
  PROVE  LET r == DeleteThread(s, id) IN
         /\ Steady(r) /\ r.current_id = s.current_id
         /\ r.state[id] = "Dead" /\ ~r.is_ipc_wait[id]
         /\ \A t \in ThreadIds \ {id} :
              /\ r.state[t] = s.state[t]
              /\ r.is_ipc_wait[t] = s.is_ipc_wait[t] /\ r.ipc_error[t] = s.ipc_error[t]
<1>1. s \in Scheduler /\ HasCurrent(s) /\ s.current_id \in ThreadIds
  BY SteadyCurrent
<1>2. s.priority[id] \in Priorities
  BY <1>1 DEF Scheduler
<1>3. DEFINE m == EmptySlot(s, id)
             r == ClearReadyIfEmpty(m, s.priority[id])
<1>4. m \in Scheduler /\ r \in Scheduler
  BY <1>1, <1>2, SmallTypes
<1>5. /\ m.current_id = s.current_id /\ m.started = s.started /\ m.panicked = s.panicked
      /\ m.ready_bitmap = s.ready_bitmap
      /\ m.state[id] = "Dead" /\ m.is_ipc_wait[id] = FALSE
      /\ \A t \in ThreadIds \ {id} :
           /\ m.state[t] = s.state[t]
           /\ m.is_ipc_wait[t] = s.is_ipc_wait[t] /\ m.ipc_error[t] = s.ipc_error[t]
  BY <1>1 DEF EmptySlot, Scheduler
<1>6. DeleteThread(s, id) = r
  BY DEF DeleteThread
<1>7. AllBacked(s) => AllBacked(r)
  BY <1>1, <1>6, CallsOnOthersBits
<1>8. HIDE DEF m
<1>9. /\ r.state = m.state /\ r.is_ipc_wait = m.is_ipc_wait /\ r.ipc_error = m.ipc_error
      /\ r.current_id = m.current_id /\ r.started = m.started /\ r.panicked = m.panicked
      /\ m.ready_bitmap \ {s.priority[id]} \subseteq r.ready_bitmap
  BY <1>4 DEF ClearReadyIfEmpty, Scheduler
<1>10. HIDE DEF r
<1>11. Steady(r)
  BY <1>1, <1>4, <1>5, <1>7, <1>9 DEF Steady, HasCurrent
<1>12. QED BY <1>5, <1>6, <1>9, <1>11

\* unblock_thread ends the IPC wait of a waiting thread with Ok, and is
\* nothing to any other thread.
LEMMA UnblockSteady ==
  ASSUME NEW s, Steady(s), WaitsSound(s), NEW id \in ThreadIds
  PROVE  LET r == UnblockThread(s, id) IN
         /\ Steady(r) /\ r.current_id = s.current_id
         /\ s.is_ipc_wait[id] => ~r.is_ipc_wait[id] /\ r.ipc_error[id] = "OK"
         /\ \A t \in ThreadIds :
              t # id \/ ~s.is_ipc_wait[id] =>
                r.is_ipc_wait[t] = s.is_ipc_wait[t] /\ r.ipc_error[t] = s.ipc_error[t]
         /\ \A t \in ThreadIds :
              r.state[t] = "BlockedTimeout" => s.state[t] = "BlockedTimeout"
         /\ \A t \in ThreadIds : r.state[t] = "Dead" <=> s.state[t] = "Dead"
<1>1. s \in Scheduler /\ s.priority[id] \in Priorities
  BY SteadyCurrent DEF Scheduler
<1>2. CASE s.is_ipc_wait[id]
  <2>1. s.state[id] \in {"Blocked", "BlockedTimeout"}
    BY <1>2 DEF WaitsSound
  <2>2. DEFINE q == [s EXCEPT !.ipc_error[id]   = "OK",
                              !.is_ipc_wait[id] = FALSE,
                              !.sleep_until[id] = 0]
               r == SetReady(q, id)
  <2>3. /\ q \in Scheduler /\ q.current_id = s.current_id /\ q.started = s.started
        /\ q.panicked = s.panicked /\ q.priority = s.priority
        /\ q.ready_bitmap = s.ready_bitmap /\ q.state = s.state
        /\ q.is_ipc_wait = [s.is_ipc_wait EXCEPT ![id] = FALSE]
        /\ q.ipc_error = [s.ipc_error EXCEPT ![id] = "OK"]
    BY <1>1 DEF Scheduler, IpcResults
  <2>4. UnblockThread(s, id) = r
    BY <1>2, <2>1 DEF UnblockThread
  <2>5. HIDE DEF q
  <2>6. /\ r \in Scheduler /\ (AllBacked(q) => AllBacked(r))
    BY <1>1, <2>3, SmallTypes, SetReadyBits
  <2>7. /\ r.current_id = q.current_id /\ r.started = q.started /\ r.panicked = q.panicked
        /\ q.ready_bitmap \subseteq r.ready_bitmap
        /\ r.is_ipc_wait = q.is_ipc_wait /\ r.ipc_error = q.ipc_error
        /\ \A t \in ThreadIds : r.state[t] = IF t = id THEN "Ready" ELSE q.state[t]
    BY <2>3 DEF SetReady, Scheduler
  <2>8. HIDE DEF r
  <2>9. AllBacked(r)
    BY <2>3, <2>6 DEF Steady, AllBacked, Backed
  <2>10. Steady(r)
    BY <1>1, <2>1, <2>3, <2>6, <2>7, <2>9 DEF Steady, HasCurrent
  <2>11. /\ ~r.is_ipc_wait[id] /\ r.ipc_error[id] = "OK"
         /\ \A t \in ThreadIds \ {id} :
              r.is_ipc_wait[t] = s.is_ipc_wait[t] /\ r.ipc_error[t] = s.ipc_error[t]
    BY <1>1, <2>3, <2>7 DEF Scheduler
  <2>12. QED BY <1>2, <2>1, <2>3, <2>4, <2>7, <2>10, <2>11
<1>3. CASE ~s.is_ipc_wait[id]
  BY <1>3 DEF UnblockThread
<1>4. QED BY <1>2, <1>3

\* The tick expires some timed waits, and leaves every other mark and result.
LEMMA TickSteady ==
  ASSUME NEW s, Steady(s), WaitsSound(s)
  PROVE  LET r == TickAwake(WakeDue(s)) IN
         /\ Steady(r)
         /\ \A t \in ThreadIds :
              \/ r.is_ipc_wait[t] = s.is_ipc_wait[t] /\ r.ipc_error[t] = s.ipc_error[t]
              \/ /\ s.is_ipc_wait[t] /\ ~r.is_ipc_wait[t]
                 /\ r.ipc_error[t] = "TIMEOUT" /\ s.state[t] = "BlockedTimeout"
         /\ \A t \in ThreadIds :
              r.state[t] = "BlockedTimeout" => s.state[t] = "BlockedTimeout"
         /\ \A t \in ThreadIds : r.state[t] = "Dead" => s.state[t] = "Dead"
<1>1. s \in Scheduler /\ HasCurrent(s)
  BY SteadyCurrent
<1>2. DEFINE due == Due(s, NextTick(s))
             w == WakeDue(s)
<1>3. /\ w.current_id = s.current_id /\ w.started = s.started
      /\ w.panicked = s.panicked /\ s.ready_bitmap \subseteq w.ready_bitmap
      /\ \A t \in ThreadIds :
           /\ w.state[t] = IF t \in due THEN "Ready" ELSE s.state[t]
           /\ w.is_ipc_wait[t] = (t \notin due /\ s.is_ipc_wait[t])
           /\ w.ipc_error[t] = IF t \in due /\ s.is_ipc_wait[t] THEN "TIMEOUT"
                               ELSE s.ipc_error[t]
  BY <1>1 DEF WakeDue, Wake, Scheduler
<1>4. \A t \in due : s.state[t] \in {"Sleeping", "BlockedTimeout"}
  BY DEF Due
<1>5. w \in Scheduler /\ (AllBacked(s) => AllBacked(w))
  BY <1>1, WakeType, WakeBits
<1>6. HIDE DEF w, due
<1>7. Steady(w)
  BY <1>3, <1>4, <1>5 DEF Steady, HasCurrent
<1>8. ASSUME NEW v, Steady(v)
      PROVE  Steady(Preempt(v))
  <2>1. /\ v \in Scheduler /\ v.current_id \in ThreadIds
        /\ v.state[v.current_id] = "Running" /\ v.priority[v.current_id] \in Priorities
    BY <1>8, SteadyCurrent
  <2>2. DEFINE r == SetReady(v, v.current_id)
  <2>3. r \in Scheduler /\ (AllBacked(v) => AllBacked(r))
    BY <2>1, SmallTypes, SetReadyBits
  <2>4. /\ r.current_id = v.current_id /\ r.started = v.started /\ r.panicked = v.panicked
        /\ v.ready_bitmap \subseteq r.ready_bitmap
        /\ \A t \in ThreadIds : r.state[t] = IF t = v.current_id THEN "Ready" ELSE v.state[t]
    BY <2>1 DEF SetReady, Scheduler
  <2>5. Preempt(v) = DoSchedule(r)
    BY <2>1 DEF Preempt
  <2>6. HIDE DEF r
  <2>7. MidSwitch(r)
    BY <1>8, <2>1, <2>3, <2>4 DEF Steady, MidSwitch, HasCurrent
  <2>8. QED BY <2>5, <2>7, DoScheduleSteady
<1>9. ASSUME NEW v, Steady(v)
      PROVE  Steady(PreemptIfBetter(v))
  BY <1>8, <1>9, SteadyCurrent DEF PreemptIfBetter
<1>10. Steady(TickAwake(w))
  <2>1. /\ w.current_id # NULL_ID /\ w.current_id \in ThreadIds
        /\ w.state[w.current_id] = "Running" /\ w \in Scheduler
    BY <1>7, SteadyCurrent
  <2>2. ASSUME NEW n \in Nat
        PROVE  Steady([w EXCEPT !.tick[w.current_id] = n])
    <3>1. DEFINE v == [w EXCEPT !.tick[w.current_id] = n]
    <3>2. /\ v \in Scheduler /\ v.current_id = w.current_id /\ v.started = w.started
          /\ v.panicked = w.panicked /\ v.ready_bitmap = w.ready_bitmap
          /\ v.state = w.state /\ v.priority = w.priority
      BY <2>1 DEF Scheduler
    <3>3. HIDE DEF v
    <3>4. Steady(v)
      BY <1>7, <3>2 DEF Steady, HasCurrent, AllBacked, Backed
    <3>5. QED BY <3>4 DEF v
  <2>3. DEFINE left == IF w.tick[w.current_id] > 0 THEN w.tick[w.current_id] - 1 ELSE 0
  <2>4. left \in Nat /\ w.init_tick[w.current_id] \in Nat
    BY <2>1 DEF Scheduler
  <2>5. TickAwake(w) = IF left = 0
                       THEN Preempt([w EXCEPT !.tick[w.current_id] = w.init_tick[w.current_id]])
                       ELSE PreemptIfBetter([w EXCEPT !.tick[w.current_id] = left])
    BY <2>1 DEF TickAwake
  <2>6. HIDE DEF left
  <2>7. QED BY <1>8, <1>9, <2>2, <2>4, <2>5
<1>11. Quiet(w, TickAwake(w))
  BY <1>7, TickAwakeQuiet DEF Steady
<1>12. \A t \in ThreadIds :
         \/ w.is_ipc_wait[t] = s.is_ipc_wait[t] /\ w.ipc_error[t] = s.ipc_error[t]
         \/ /\ s.is_ipc_wait[t] /\ ~w.is_ipc_wait[t]
            /\ w.ipc_error[t] = "TIMEOUT" /\ s.state[t] = "BlockedTimeout"
  <2>1. TAKE t \in ThreadIds
  <2>2. s.is_ipc_wait[t] \in BOOLEAN
    BY <1>1 DEF Scheduler
  <2>3. CASE t \in due /\ s.is_ipc_wait[t]
    BY <1>3, <1>4, <2>3 DEF WaitsSound
  <2>4. CASE ~(t \in due /\ s.is_ipc_wait[t])
    BY <1>3, <2>2, <2>4
  <2>5. QED BY <2>3, <2>4
<1>13. \A t \in ThreadIds :
         /\ w.state[t] = "BlockedTimeout" => s.state[t] = "BlockedTimeout"
         /\ w.state[t] = "Dead" => s.state[t] = "Dead"
  BY <1>3
<1>14. DEFINE r == TickAwake(w)
<1>15. /\ Steady(r) /\ r.is_ipc_wait = w.is_ipc_wait /\ r.ipc_error = w.ipc_error
       /\ \A t \in ThreadIds :
            /\ r.state[t] = "BlockedTimeout" => w.state[t] = "BlockedTimeout"
            /\ r.state[t] = "Dead" => w.state[t] = "Dead"
  BY <1>10, <1>11 DEF Quiet, Runnable
<1>16. HIDE DEF r
<1>17. \A t \in ThreadIds :
         \/ r.is_ipc_wait[t] = s.is_ipc_wait[t] /\ r.ipc_error[t] = s.ipc_error[t]
         \/ /\ s.is_ipc_wait[t] /\ ~r.is_ipc_wait[t]
            /\ r.ipc_error[t] = "TIMEOUT" /\ s.state[t] = "BlockedTimeout"
  BY <1>12, <1>15
<1>18. \A t \in ThreadIds : r.state[t] = "BlockedTimeout" => s.state[t] = "BlockedTimeout"
  BY <1>13, <1>15
<1>19. \A t \in ThreadIds : r.state[t] = "Dead" => s.state[t] = "Dead"
  BY <1>13, <1>15
<1>20. Steady(r)
  BY <1>15
<1>21. QED BY <1>17, <1>18, <1>19, <1>20 DEF r, w

\* main has created its threads, an idle one among them, and started.
LEMMA BootedSteady ==
  ASSUME NEW T \in SUBSET ThreadIds,
         \E t \in T : ThreadProfile[t].priority = IdlePriority
  PROVE  LET r == Booted(T) IN
         /\ Steady(r) /\ WaitsSound(r)
         /\ \A t \in ThreadIds : ~r.is_ipc_wait[t] /\ r.state[t] # "BlockedTimeout"
<1>1. \A t \in ThreadIds :
        ThreadProfile[t].priority \in Priorities /\ ThreadProfile[t].tick \in Nat
  <2>1. TAKE t \in ThreadIds
  <2>2. ThreadProfile[t] \in Profiles
    BY KernelAssumption
  <2>3. QED BY <2>2, SchedulerAssumption
<1>2. 0 \in Priorities /\ 0 \in Nat
  BY SchedulerAssumption DEF Priorities
<1>3. DEFINE m == [NewScheduler EXCEPT
       !.state        = [t \in ThreadIds |-> IF t \in T THEN "Ready" ELSE @[t]],
       !.priority     = [t \in ThreadIds |->
                           IF t \in T THEN ThreadProfile[t].priority ELSE @[t]],
       !.tick         = [t \in ThreadIds |->
                           IF t \in T THEN ThreadProfile[t].tick ELSE @[t]],
       !.init_tick    = [t \in ThreadIds |->
                           IF t \in T THEN ThreadProfile[t].tick ELSE @[t]],
       !.ready_bitmap = {ThreadProfile[t].priority : t \in T}]
<1>4. /\ \A t \in ThreadIds :
           /\ m.state[t] = (IF t \in T THEN "Ready" ELSE "Dead")
           /\ m.priority[t] = (IF t \in T THEN ThreadProfile[t].priority ELSE 0)
           /\ ~m.is_ipc_wait[t]
      /\ m.ready_bitmap = {ThreadProfile[t].priority : t \in T}
      /\ m.current_id = NULL_ID /\ ~m.started /\ ~m.panicked
      /\ m.is_ipc_wait = [t \in ThreadIds |-> FALSE]
  BY SMTT(30) DEF NewScheduler
<1>5. m \in Scheduler
  BY <1>1, <1>2 DEF NewScheduler, Scheduler, ThreadStates, IpcResults
<1>6. Booted(T) = StartScheduler(m)
  BY DEF Booted
<1>7. HIDE DEF m
<1>8. AllBacked(m) /\ IdlePriority \in m.ready_bitmap
  BY <1>4 DEF AllBacked, Backed, Runnable
<1>9. PickNext(m) \in ThreadIds /\ PickNext(m) # NULL_ID
  BY <1>4, <1>5, <1>8, NoneRunningPicks
<1>10. StartScheduler(m) =
         [Dispatch(m, PickNext(m)) EXCEPT !.current_id = PickNext(m), !.started = TRUE]
  BY <1>9 DEF StartScheduler
<1>11. DEFINE r == StartScheduler(m)
<1>12. /\ r.state = [m.state EXCEPT ![PickNext(m)] = "Running"]
       /\ r.ready_bitmap = m.ready_bitmap
       /\ r.started /\ r.current_id = PickNext(m) /\ r.panicked = m.panicked
  BY <1>5, <1>9, <1>10, DispatchChanges
<1>13. r \in Scheduler /\ (AllBacked(m) => AllBacked(r)) /\ Quiet(m, r)
  BY <1>5, StartType, StartBits, StartQuiet
<1>14. \A t \in ThreadIds : r.state[t] = IF t = PickNext(m) THEN "Running" ELSE m.state[t]
  BY <1>5, <1>9, <1>12 DEF Scheduler
<1>15. HIDE DEF r
<1>16. Steady(r)
  BY <1>4, <1>8, <1>9, <1>12, <1>13, <1>14 DEF Steady, HasCurrent
<1>17. \A t \in ThreadIds : r.state[t] \in {"Dead", "Ready", "Running"} /\ ~r.is_ipc_wait[t]
  BY <1>4, <1>13, <1>14 DEF Quiet
<1>18. WaitsSound(r)
  BY <1>17 DEF WaitsSound
<1>19. QED BY <1>6, <1>16, <1>17, <1>18 DEF r

-----------------------------------------------------------------------------
(* The objects over the scheduler.                                         *)

\* Threads delete and create one another only where no object but the signals
\* is used: the waiter bitmasks of the other objects keep the slot of a
\* deleted waiter, whose next thread they would then wake.
ReusesOnlySignals ==
  \A a \in Applications : a.reuses => a.objects \subseteq {"signals"}

-----------------------------------------------------------------------------
(* The scheduler with the calls its threads are in.                        *)

KernelInv ==
  /\ Steady(sched) /\ WaitsSound(sched)
  /\ app \in Applications /\ pc \in [ThreadIds -> Calls]
  /\ \A t \in ThreadIds :
       /\ sched.is_ipc_wait[t] => pc[t] # "app"
       /\ sched.state[t] = "Dead" => pc[t] = "app"
       /\ app.reuses => pc[t] \in {"app", "signal_wait"}
  /\ Untimed => \A t \in ThreadIds :
                  /\ sched.state[t] # "BlockedTimeout"
                  /\ pc[t] # "app" => sched.is_ipc_wait[t] \/ Granted(t)

\* What a step may do to thread t, as the objects see it: nothing ...
Untouched(t) ==
  /\ pc'[t] = pc[t]
  /\ sched'.is_ipc_wait[t] = sched.is_ipc_wait[t]
  /\ sched'.ipc_error[t] = sched.ipc_error[t]

\* ... the end of its wait by a tick ...
TimesOut(t) ==
  /\ pc'[t] = pc[t]
  /\ sched.is_ipc_wait[t] /\ ~sched'.is_ipc_wait[t] /\ sched'.ipc_error[t] = "TIMEOUT"
  /\ ~Untimed

\* ... or something that is no matter of the call c.
Elsewhere(c) ==
  \A t \in ThreadIds : Untouched(t) \/ TimesOut(t) \/ (pc[t] # c /\ pc'[t] # c)

LEMMA SelfFacts ==
  ASSUME KernelInv
  PROVE  /\ Self \in ThreadIds /\ Self # NULL_ID
         /\ sched \in Scheduler /\ HasCurrent(sched) /\ sched.started
         /\ sched.state[Self] = "Running" /\ ~sched.is_ipc_wait[Self]
         /\ app \in Applications /\ pc \in [ThreadIds -> Calls]
<1>1. /\ sched \in Scheduler /\ HasCurrent(sched) /\ Self \in ThreadIds
      /\ Self # NULL_ID /\ sched.state[Self] = "Running"
  BY SteadyCurrent DEF KernelInv, Self
<1>2. QED BY <1>1 DEF KernelInv, Steady, WaitsSound

LEMMA StoppersAreNotIdle ==
  ASSUME NEW id, MayStop(sched, id)
  PROVE  sched.priority[id] # IdlePriority
  BY KernelAssumption DEF MayStop

\* The first half of a blocking call.
LEMMA BlockMoves ==
  ASSUME KernelInv, MayBlock, NEW c \in Calls \ {"app"}, BlockSelf(c),
         UNCHANGED app, app.reuses => c = "signal_wait"
  PROVE  /\ KernelInv'
         /\ pc[Self] = "app" /\ ~sched.is_ipc_wait[Self]
         /\ pc'[Self] = c /\ sched'.is_ipc_wait[Self]
         /\ \A t \in ThreadIds \ {Self} : Untouched(t)
         /\ pc' = [pc EXCEPT ![Self] = c]
<1>1. /\ Self \in ThreadIds /\ sched \in Scheduler /\ HasCurrent(sched) /\ sched.started
      /\ ~sched.is_ipc_wait[Self] /\ pc \in [ThreadIds -> Calls]
      /\ Self = sched.current_id
  BY SelfFacts DEF Self
<1>2. sched.priority[sched.current_id] # IdlePriority
  BY <1>1, StoppersAreNotIdle DEF MayBlock
<1>3. app.timeouts \subseteq Nat \cup {Forever}
  BY KernelAssumption DEF KernelInv
<1>4. PICK timeout \in app.timeouts :
         sched' = IF timeout = Forever THEN BlockCurrent(sched)
                  ELSE BlockCurrentFor(sched, timeout)
  BY DEF BlockSelf
<1>5. /\ sched.sleep_until[sched.current_id] \in Nat
      /\ timeout # Forever => timeout \in Nat /\ sched.tick_count + timeout \in Nat
  BY <1>1, <1>3, <1>4 DEF Scheduler
<1>6. /\ Steady(sched')
      /\ sched'.is_ipc_wait = [sched.is_ipc_wait EXCEPT ![Self] = TRUE]
      /\ sched'.ipc_error = [sched.ipc_error EXCEPT ![Self] = "SENTINEL"]
      /\ timeout = Forever => \A t \in ThreadIds :
           sched'.state[t] = "BlockedTimeout" => sched.state[t] = "BlockedTimeout"
      /\ \A t \in ThreadIds : sched'.state[t] = "Dead" => sched.state[t] = "Dead"
  <2>1. CASE timeout = Forever
    BY <1>1, <1>2, <1>4, <1>5, <2>1, BlockOnSteady DEF BlockCurrent, KernelInv
  <2>2. CASE timeout # Forever
    BY <1>1, <1>2, <1>4, <1>5, <2>2, BlockOnSteady DEF BlockCurrentFor, KernelInv
  <2>3. QED BY <2>1, <2>2
<1>7. WaitsSound(sched')
  <2>1. CASE timeout = Forever
    BY <1>1, <1>4, <2>1, CallsKeepWaits DEF KeepsWaits, KernelInv
  <2>2. CASE timeout # Forever
    BY <1>1, <1>4, <1>5, <2>2, CallsKeepWaits DEF KeepsWaits, KernelInv
  <2>3. QED BY <2>1, <2>2
<1>8. /\ pc' = [pc EXCEPT ![Self] = c] /\ pc'[Self] = c
      /\ pc' \in [ThreadIds -> Calls]
      /\ \A t \in ThreadIds \ {Self} : pc'[t] = pc[t]
  BY <1>1 DEF BlockSelf
<1>9. /\ sched'.is_ipc_wait[Self]
      /\ \A t \in ThreadIds \ {Self} :
           /\ sched'.is_ipc_wait[t] = sched.is_ipc_wait[t]
           /\ sched'.ipc_error[t] = sched.ipc_error[t]
  BY <1>1, <1>6 DEF Scheduler
<1>10. pc[Self] = "app" /\ sched.state[Self] # "Dead"
  BY DEF MayBlock, InApp, Executing, Self
<1>11. Untimed => timeout = Forever /\ Untimed'
  BY <1>4 DEF Untimed
<1>12. Untimed' = Untimed
  BY DEF Untimed
<1>13. \A t \in ThreadIds :
         /\ sched'.is_ipc_wait[t] => pc'[t] # "app"
         /\ sched'.state[t] = "Dead" => pc'[t] = "app"
         /\ app.reuses => pc'[t] \in {"app", "signal_wait"}
  BY <1>6, <1>8, <1>9, <1>10 DEF KernelInv
<1>14. Untimed' => \A t \in ThreadIds :
         /\ sched'.state[t] # "BlockedTimeout"
         /\ pc'[t] # "app" => sched'.is_ipc_wait[t] \/ Granted(t)'
  BY <1>6, <1>8, <1>9, <1>11, <1>12 DEF KernelInv, Granted
<1>15. KernelInv'
  BY <1>6, <1>7, <1>8, <1>13, <1>14 DEF KernelInv
<1>16. QED BY <1>1, <1>8, <1>9, <1>10, <1>15 DEF Untouched

\* The second half, when it leaves the scheduler alone.
LEMMA ReturnMoves ==
  ASSUME KernelInv, NEW c \in Calls \ {"app"}, BackIn(c), ReturnSelf,
         UNCHANGED <<sched, app>>
  PROVE  /\ KernelInv'
         /\ pc[Self] = c /\ pc'[Self] = "app" /\ ~sched.is_ipc_wait[Self]
         /\ \A t \in ThreadIds \ {Self} : Untouched(t)
         /\ pc' = [pc EXCEPT ![Self] = "app"]
<1>1. /\ Self \in ThreadIds /\ ~sched.is_ipc_wait[Self] /\ pc \in [ThreadIds -> Calls]
  BY SelfFacts
<1>2. /\ pc' = [pc EXCEPT ![Self] = "app"] /\ pc'[Self] = "app"
      /\ pc' \in [ThreadIds -> Calls]
      /\ \A t \in ThreadIds \ {Self} : pc'[t] = pc[t]
  BY <1>1 DEF ReturnSelf, Calls
<1>3. KernelInv'
  BY <1>1, <1>2 DEF KernelInv, Untimed, Granted
<1>4. QED BY <1>1, <1>2, <1>3 DEF Untouched, BackIn

\* An unblock_thread for w, by an object that leaves the calls alone or in the
\* second half of a call.
LEMMA UnblockMoves ==
  ASSUME KernelInv, NEW w \in ThreadIds, sched' = UnblockThread(sched, w),
         UNCHANGED app, UNCHANGED pc \/ ReturnSelf
  PROVE  /\ KernelInv'
         /\ sched.is_ipc_wait[w] => ~sched'.is_ipc_wait[w] /\ Granted(w)'
         /\ \A t \in ThreadIds :
              t # w \/ ~sched.is_ipc_wait[t] =>
                /\ sched'.is_ipc_wait[t] = sched.is_ipc_wait[t]
                /\ sched'.ipc_error[t] = sched.ipc_error[t]
<1>1. /\ Self \in ThreadIds /\ ~sched.is_ipc_wait[Self] /\ pc \in [ThreadIds -> Calls]
      /\ sched \in Scheduler
  BY SelfFacts
<1>2. /\ Steady(sched')
      /\ sched.is_ipc_wait[w] => ~sched'.is_ipc_wait[w] /\ sched'.ipc_error[w] = "OK"
      /\ \A t \in ThreadIds :
           t # w \/ ~sched.is_ipc_wait[w] =>
             /\ sched'.is_ipc_wait[t] = sched.is_ipc_wait[t]
             /\ sched'.ipc_error[t] = sched.ipc_error[t]
      /\ \A t \in ThreadIds :
           sched'.state[t] = "BlockedTimeout" => sched.state[t] = "BlockedTimeout"
      /\ \A t \in ThreadIds : sched'.state[t] = "Dead" <=> sched.state[t] = "Dead"
  BY UnblockSteady DEF KernelInv
<1>3. WaitsSound(sched')
  BY <1>1, UnblockKeeps DEF KeepsWaits, KernelInv
<1>4. /\ pc' \in [ThreadIds -> Calls]
      /\ \A t \in ThreadIds : pc'[t] = pc[t] \/ (t = Self /\ pc'[t] = "app")
  BY <1>1 DEF ReturnSelf, Calls
<1>5. \A t \in ThreadIds :
        /\ sched'.is_ipc_wait[t] => sched.is_ipc_wait[t]
        /\ sched.is_ipc_wait[t] => sched'.is_ipc_wait[t] \/ Granted(t)'
  BY <1>2 DEF Granted
<1>6. \A t \in ThreadIds : Granted(t) => Granted(t)'
  BY <1>2 DEF Granted
<1>7. \A t \in ThreadIds :
         /\ sched'.is_ipc_wait[t] => pc'[t] # "app"
         /\ sched'.state[t] = "Dead" => pc'[t] = "app"
         /\ app.reuses => pc'[t] \in {"app", "signal_wait"}
  BY <1>1, <1>2, <1>4, <1>5 DEF KernelInv
<1>8. Untimed' => \A t \in ThreadIds :
         /\ sched'.state[t] # "BlockedTimeout"
         /\ pc'[t] # "app" => sched'.is_ipc_wait[t] \/ Granted(t)'
  BY <1>2, <1>4, <1>5, <1>6 DEF KernelInv, Untimed
<1>9. KernelInv'
  BY <1>2, <1>3, <1>4, <1>7, <1>8 DEF KernelInv
<1>10. QED BY <1>2, <1>9 DEF Granted

\* The timer, yielding and sleeping: no thread changes call, and a wait ends
\* only by its timeout.
LEMMA KernelMoves ==
  ASSUME KernelInv, KernelStep, UNCHANGED app
  PROVE  KernelInv' /\ \A t \in ThreadIds : Untouched(t) \/ TimesOut(t)
<1>1. /\ Self \in ThreadIds /\ sched \in Scheduler /\ HasCurrent(sched) /\ sched.started
      /\ ~sched.is_ipc_wait[Self] /\ Self = sched.current_id
      /\ Steady(sched) /\ WaitsSound(sched)
  BY SelfFacts DEF Self, KernelInv
<1>2. pc' = pc
  BY DEF KernelStep
<1>3. SUFFICES
        /\ Steady(sched') /\ WaitsSound(sched')
        /\ \A t \in ThreadIds : /\ Untouched(t) \/ TimesOut(t)
                                /\ sched'.state[t] = "Dead" => sched.state[t] = "Dead"
                                /\ sched'.state[t] = "BlockedTimeout"
                                     => sched.state[t] = "BlockedTimeout"
  <2>1. ASSUME Steady(sched'), WaitsSound(sched'),
               \A t \in ThreadIds : /\ Untouched(t) \/ TimesOut(t)
                                    /\ sched'.state[t] = "Dead" => sched.state[t] = "Dead"
                                    /\ sched'.state[t] = "BlockedTimeout"
                                         => sched.state[t] = "BlockedTimeout"
        PROVE  KernelInv'
    <3>1. \A t \in ThreadIds :
            /\ sched'.is_ipc_wait[t] => pc'[t] # "app"
            /\ sched'.state[t] = "Dead" => pc'[t] = "app"
            /\ app.reuses => pc'[t] \in {"app", "signal_wait"}
      BY <1>2, <2>1 DEF KernelInv, Untouched, TimesOut
    <3>2. Untimed' => \A t \in ThreadIds :
            /\ sched'.state[t] # "BlockedTimeout"
            /\ pc'[t] # "app" => sched'.is_ipc_wait[t] \/ Granted(t)'
      BY <1>2, <2>1 DEF KernelInv, Untimed, Untouched, TimesOut, Granted
    <3>3. QED BY <1>2, <2>1, <3>1, <3>2 DEF KernelInv
  <2>2. QED BY <2>1
<1>4. CASE Tick
  <2>1. sched' = TickAwake(WakeDue(sched))
    BY <1>4 DEF Tick
  <2>2. WaitsSound(sched')
    BY <1>1, <2>1, TickKeepsWaits DEF KeepsWaits
  <2>3. /\ Steady(sched')
        /\ \A t \in ThreadIds :
             \/ /\ sched'.is_ipc_wait[t] = sched.is_ipc_wait[t]
                /\ sched'.ipc_error[t] = sched.ipc_error[t]
             \/ /\ sched.is_ipc_wait[t] /\ ~sched'.is_ipc_wait[t]
                /\ sched'.ipc_error[t] = "TIMEOUT" /\ sched.state[t] = "BlockedTimeout"
        /\ \A t \in ThreadIds :
             sched'.state[t] = "BlockedTimeout" => sched.state[t] = "BlockedTimeout"
        /\ \A t \in ThreadIds : sched'.state[t] = "Dead" => sched.state[t] = "Dead"
    BY <1>1, <2>1, TickSteady
  <2>4. \A t \in ThreadIds : sched.state[t] = "BlockedTimeout" => ~Untimed
    BY DEF KernelInv
  <2>5. \A t \in ThreadIds : Untouched(t) \/ TimesOut(t)
    BY <1>2, <2>3, <2>4 DEF Untouched, TimesOut
  <2>6. QED BY <2>2, <2>3, <2>5
<1>5. CASE InApp /\ Yield
  <2>1. sched' = YieldCurrent(sched)
    BY <1>5 DEF Yield
  <2>2. Steady(sched') /\ Quiet(sched, sched')
    BY <1>1, <2>1, YieldSteady, YieldQuiet
  <2>3. WaitsSound(sched')
    BY <1>1, <2>2, QuietIsSound
  <2>4. QED BY <1>2, <2>2, <2>3 DEF Quiet, Runnable, Untouched
<1>6. CASE InApp /\ Sleep
  <2>1. PICK d \in Durations : sched' = SleepCurrent(sched, d)
    BY <1>6 DEF Sleep
  <2>2. sched.priority[sched.current_id] # IdlePriority /\ d \in Nat
    BY <1>6, StoppersAreNotIdle, SchedulerAssumption DEF Sleep
  <2>3. WaitsSound(sched')
    BY <1>1, <2>1, <2>2, CallsKeepWaits DEF KeepsWaits
  <2>4. /\ Steady(sched')
        /\ sched'.is_ipc_wait = [sched.is_ipc_wait EXCEPT ![Self] = FALSE]
        /\ sched'.ipc_error = sched.ipc_error
        /\ \A t \in ThreadIds :
             sched'.state[t] = "BlockedTimeout" => sched.state[t] = "BlockedTimeout"
        /\ \A t \in ThreadIds : sched'.state[t] = "Dead" <=> sched.state[t] = "Dead"
    BY <1>1, <2>1, <2>2, SleepSteady
  <2>5. \A t \in ThreadIds : sched'.is_ipc_wait[t] = sched.is_ipc_wait[t]
    <3>1. sched.is_ipc_wait \in [ThreadIds -> BOOLEAN] /\ sched.is_ipc_wait[Self] = FALSE
      BY <1>1 DEF Scheduler
    <3>2. QED BY <1>1, <2>4, <3>1
  <2>6. \A t \in ThreadIds : Untouched(t)
    BY <1>2, <2>4, <2>5 DEF Untouched
  <2>7. QED BY <2>3, <2>4, <2>6
<1>7. QED BY <1>4, <1>5, <1>6 DEF KernelStep

\* Deleting a thread and filling an empty slot: only with the signals.
LEMMA SlotMoves ==
  ASSUME KernelInv, NEW id \in ThreadIds, DeleteOther(id) \/ CreateOther(id),
         UNCHANGED app
  PROVE  /\ KernelInv' /\ app.reuses
         /\ pc'[id] = "app" /\ ~sched'.is_ipc_wait[id]
         /\ \A t \in ThreadIds \ {id} : Untouched(t)
         /\ \A t \in ThreadIds : pc'[t] \in {pc[t], "app"}
<1>1. /\ Self \in ThreadIds /\ sched \in Scheduler
      /\ Self = sched.current_id /\ pc \in [ThreadIds -> Calls]
      /\ Steady(sched) /\ WaitsSound(sched)
  BY SelfFacts DEF Self, KernelInv
<1>2. app.reuses
  BY DEF DeleteOther, CreateOther
<1>3. /\ Steady(sched') /\ WaitsSound(sched')
      /\ pc' = [pc EXCEPT ![id] = "app"]
      /\ ~sched'.is_ipc_wait[id] /\ sched'.state[id] # "BlockedTimeout"
      /\ \A t \in ThreadIds \ {id} :
           /\ sched'.state[t] = sched.state[t]
           /\ sched'.is_ipc_wait[t] = sched.is_ipc_wait[t]
           /\ sched'.ipc_error[t] = sched.ipc_error[t]
  <2>1. CASE DeleteOther(id)
    <3>1. PICK i \in ThreadIds \ {sched.current_id} :
            MayStop(sched, i) /\ sched' = DeleteThread(sched, i)
      BY <2>1 DEF DeleteOther, Delete
    <3>2. sched.priority[i] # IdlePriority
      BY <3>1, StoppersAreNotIdle
    <3>3. /\ Steady(sched')
          /\ sched'.state[i] = "Dead" /\ ~sched'.is_ipc_wait[i]
          /\ \A t \in ThreadIds \ {i} :
               /\ sched'.state[t] = sched.state[t]
               /\ sched'.is_ipc_wait[t] = sched.is_ipc_wait[t]
               /\ sched'.ipc_error[t] = sched.ipc_error[t]
      BY <1>1, <3>1, <3>2, DeleteSteady
    <3>4. i = id
      BY <2>1, <3>3 DEF DeleteOther
    <3>5. WaitsSound(sched')
      <4>1. \A t \in ThreadIds : sched'.is_ipc_wait[t] =>
              sched'.state[t] \in {"Blocked", "BlockedTimeout"}
        BY <1>1, <3>3 DEF WaitsSound
      <4>2. DEFINE m == EmptySlot(sched, i)
      <4>3. sched.priority[i] \in Priorities
        BY <1>1 DEF Scheduler
      <4>4. m \in Scheduler /\ KeepsWaits(sched, m)
        BY <1>1, <4>3, SmallTypes, EmptySlotKeeps
      <4>5. sched' = ClearReadyIfEmpty(m, sched.priority[i])
        BY <3>1 DEF DeleteThread
      <4>6. HIDE DEF m
      <4>7. Quiet(m, sched')
        BY <3>1, <4>4, <4>5, SmallQuiet
      <4>8. QED BY <1>1, <4>4, <4>7, QuietIsSound DEF KeepsWaits
    <3>6. QED BY <2>1, <3>3, <3>4, <3>5 DEF DeleteOther
  <2>2. CASE CreateOther(id)
    <3>1. PICK prof \in Profiles :
            /\ sched' = CreateThread(sched, prof)
            /\ \E t \in ThreadIds : sched.state[t] = "Dead"
      BY <2>2 DEF CreateOther, Create
    <3>2. /\ Steady(sched')
          /\ \E i \in ThreadIds :
               /\ sched.state[i] = "Dead" /\ sched'.state[i] = "Ready"
               /\ ~sched'.is_ipc_wait[i]
               /\ \A t \in ThreadIds \ {i} :
                    /\ sched'.state[t] = sched.state[t]
                    /\ sched'.is_ipc_wait[t] = sched.is_ipc_wait[t]
                    /\ sched'.ipc_error[t] = sched.ipc_error[t]
      BY <1>1, <3>1, CreateSteady
    <3>3. WaitsSound(sched')
      BY <1>1, <3>1, CreateKeeps DEF KeepsWaits
    <3>4. /\ sched.state[id] = "Dead" /\ sched'.state[id] # "Dead"
          /\ pc' = pc /\ pc[id] = "app"
      BY <2>2 DEF CreateOther, KernelInv
    <3>5. PICK i \in ThreadIds :
            /\ sched.state[i] = "Dead" /\ sched'.state[i] = "Ready"
            /\ ~sched'.is_ipc_wait[i]
            /\ \A t \in ThreadIds \ {i} :
                 /\ sched'.state[t] = sched.state[t]
                 /\ sched'.is_ipc_wait[t] = sched.is_ipc_wait[t]
                 /\ sched'.ipc_error[t] = sched.ipc_error[t]
      BY <3>2
    <3>6. i = id
      BY <3>4, <3>5
    <3>7. pc' = [pc EXCEPT ![id] = "app"]
      BY <1>1, <3>4
    <3>8. QED BY <3>2, <3>3, <3>5, <3>6, <3>7
  <2>3. QED BY <2>1, <2>2
<1>4. /\ pc' \in [ThreadIds -> Calls] /\ pc'[id] = "app"
      /\ \A t \in ThreadIds \ {id} : pc'[t] = pc[t]
  BY <1>1, <1>3 DEF Calls
<1>5. \A t \in ThreadIds \ {id} : Untouched(t)
  BY <1>3, <1>4 DEF Untouched
<1>6. \A t \in ThreadIds :
        /\ sched'.is_ipc_wait[t] => pc'[t] # "app"
        /\ sched'.state[t] = "Dead" => pc'[t] = "app"
        /\ app.reuses => pc'[t] \in {"app", "signal_wait"}
  BY <1>3, <1>4 DEF KernelInv
<1>7. Untimed' => \A t \in ThreadIds :
        /\ sched'.state[t] # "BlockedTimeout"
        /\ pc'[t] # "app" => sched'.is_ipc_wait[t] \/ Granted(t)'
  BY <1>3, <1>4 DEF KernelInv, Untimed, Granted
<1>8. KernelInv'
  BY <1>3, <1>4, <1>6, <1>7 DEF KernelInv
<1>9. QED BY <1>2, <1>3, <1>4, <1>5, <1>8

-----------------------------------------------------------------------------
(* What the objects make of it.                                            *)

\* A step that is no matter of c ends no wait of c with Ok and begins none.
LEMMA ElsewhereWaits ==
  ASSUME NEW c, Elsewhere(c), NEW t \in ThreadIds
  PROVE  /\ WaitsIn(c, t)' => WaitsIn(c, t)
         /\ WaitsIn(c, t) => WaitsIn(c, t)' \/ ExpiredIn(c, t)'
         /\ ExpiredIn(c, t) => ExpiredIn(c, t)'
         /\ GrantedIn(c, t)' <=> GrantedIn(c, t)
         /\ pc'[t] = c <=> pc[t] = c
  BY DEF Elsewhere, Untouched, TimesOut, WaitsIn, ExpiredIn, GrantedIn, Granted

LEMMA UntouchedWaits ==
  ASSUME NEW c, NEW t, Untouched(t)
  PROVE  /\ WaitsIn(c, t)' <=> WaitsIn(c, t)
         /\ ExpiredIn(c, t)' <=> ExpiredIn(c, t)
         /\ GrantedIn(c, t)' <=> GrantedIn(c, t)
         /\ pc'[t] = pc[t]
  BY DEF Untouched, WaitsIn, ExpiredIn, GrantedIn, Granted

\* unblock_thread hands the thread w that waits in a call an Ok, and is
\* nothing to one whose wait is over.
LEMMA ReleaseWaits ==
  ASSUME KernelInv, NEW w \in ThreadIds, sched' = UnblockThread(sched, w),
         UNCHANGED <<app, pc>>
  PROVE  /\ KernelInv'
         /\ \A t \in ThreadIds \ {w} : Untouched(t)
         /\ sched.is_ipc_wait[w] => ~sched'.is_ipc_wait[w] /\ Granted(w)'
         /\ ~sched.is_ipc_wait[w] => Untouched(w)
         /\ \A c \in Calls : /\ WaitsIn(c, w) => GrantedIn(c, w)'
                             /\ ExpiredIn(c, w) => Untouched(w)
                             /\ pc[w] # c => Elsewhere(c)
<1>1. /\ KernelInv'
      /\ sched.is_ipc_wait[w] => ~sched'.is_ipc_wait[w] /\ Granted(w)'
      /\ \A t \in ThreadIds :
           t # w \/ ~sched.is_ipc_wait[t] =>
             /\ sched'.is_ipc_wait[t] = sched.is_ipc_wait[t]
             /\ sched'.ipc_error[t] = sched.ipc_error[t]
  BY UnblockMoves
<1>2. /\ \A t \in ThreadIds \ {w} : Untouched(t)
      /\ ~sched.is_ipc_wait[w] => Untouched(w)
  BY <1>1 DEF Untouched
<1>3. ASSUME NEW c \in Calls
      PROVE  /\ WaitsIn(c, w) => GrantedIn(c, w)'
             /\ ExpiredIn(c, w) => Untouched(w)
             /\ pc[w] # c => Elsewhere(c)
  <2>1. WaitsIn(c, w) => GrantedIn(c, w)'
    BY <1>1 DEF WaitsIn, GrantedIn, Granted
  <2>2. ExpiredIn(c, w) => Untouched(w)
    BY <1>2 DEF ExpiredIn
  <2>3. pc[w] # c => Elsewhere(c)
    BY <1>2 DEF Elsewhere
  <2>4. QED BY <2>1, <2>2, <2>3
<1>4. QED BY <1>1, <1>2, <1>3

-----------------------------------------------------------------------------
(* The semaphore.                                                          *)

SemInv == SemTypeOK /\ SemaphoreKept

LEMMA HandedFinite ==
  /\ IsFiniteSet(Handed) /\ Cardinality(Handed) \in Nat
<1>1. IsFiniteSet(ThreadIds)
  BY FS_Interval, SchedulerAssumption DEF ThreadIds
<1>2. Handed \subseteq ThreadIds
  BY DEF Handed
<1>3. QED BY <1>1, <1>2, FS_Subset, FS_CardinalityType

\* Nothing handed over, one token handed over, one taken.
LEMMA HandedMoves ==
  ASSUME NEW w \in ThreadIds,
         \A t \in ThreadIds \ {w} : GrantedIn("take", t)' <=> GrantedIn("take", t)
  PROVE  /\ (GrantedIn("take", w)' <=> GrantedIn("take", w)) =>
              Cardinality(Handed)' = Cardinality(Handed)
         /\ ~GrantedIn("take", w) /\ GrantedIn("take", w)' =>
              Cardinality(Handed)' = Cardinality(Handed) + 1
         /\ GrantedIn("take", w) /\ ~GrantedIn("take", w)' =>
              Cardinality(Handed)' = Cardinality(Handed) - 1
<1>1. IsFiniteSet(Handed) /\ Cardinality(Handed) \in Nat
  BY HandedFinite
<1>2. ASSUME GrantedIn("take", w)' <=> GrantedIn("take", w)
      PROVE  Cardinality(Handed)' = Cardinality(Handed)
  <2>1. Handed' = Handed
    BY <1>2 DEF Handed
  <2>2. QED BY <2>1
<1>3. ASSUME ~GrantedIn("take", w), GrantedIn("take", w)'
      PROVE  Cardinality(Handed)' = Cardinality(Handed) + 1
  <2>1. Handed' = Handed \cup {w} /\ w \notin Handed
    BY <1>3 DEF Handed
  <2>2. QED BY <1>1, <2>1, FS_AddElement
<1>4. ASSUME GrantedIn("take", w), ~GrantedIn("take", w)'
      PROVE  Cardinality(Handed)' = Cardinality(Handed) - 1
  <2>1. Handed' = Handed \ {w} /\ w \in Handed
    BY <1>4 DEF Handed
  <2>2. QED BY <1>1, <2>1, FS_RemoveElement
<1>5. QED BY <1>2, <1>3, <1>4

\* No other object's step and no tick disturbs it, but a tick may time out a
\* taker that a release then finds in the bitmask.
LEMMA SemElsewhere ==
  ASSUME SemInv, Elsewhere("take"), UNCHANGED semVars, UNCHANGED app
  PROVE  SemInv'
<1>1. \A t \in ThreadIds :
         /\ WaitsIn("take", t)' => WaitsIn("take", t)
         /\ WaitsIn("take", t) => WaitsIn("take", t)' \/ ExpiredIn("take", t)'
         /\ ExpiredIn("take", t) => ExpiredIn("take", t)'
         /\ GrantedIn("take", t)' <=> GrantedIn("take", t)
  BY ElsewhereWaits
<1>2. Handed' = Handed
  BY <1>1 DEF Handed
<1>3. TakersExact'
  BY <1>1 DEF SemInv, SemTypeOK, SemaphoreKept, TakersExact, semVars
<1>4. SemTypeOK' /\ NoTokenInvented' /\ TokensConservedUntimed'
  BY <1>2 DEF SemInv, SemTypeOK, SemaphoreKept, NoTokenInvented, Untimed,
              TokensConservedUntimed, TokensConserved, semVars
<1>5. QED BY <1>3, <1>4 DEF SemInv, SemaphoreKept

\* release_locked, by a thread or an ISR.
LEMMA ReleaseKept ==
  ASSUME KernelInv, SemInv, ReleaseLocked, owed' = owed + 1, UNCHANGED <<pc, app>>
  PROVE  KernelInv' /\ SemInv' /\ \A c \in Calls \ {"take"} : Elsewhere(c)
<1>1. sem_count \in Nat /\ owed \in Nat /\ sem_waiters \subseteq ThreadIds
  BY DEF SemInv, SemTypeOK
<1>2. Cardinality(Handed) \in Nat
  BY HandedFinite
<1>3. CASE sem_waiters = {}
  <2>1. /\ sem_count' = sem_count + 1 /\ UNCHANGED <<sched, sem_waiters>>
    BY <1>3 DEF ReleaseLocked
  <2>2. \A t \in ThreadIds : Untouched(t)
    BY <2>1 DEF Untouched
  <2>3. Handed' = Handed
    BY <2>1 DEF Handed, GrantedIn, Granted
  <2>4. KernelInv'
    BY <2>1 DEF KernelInv, Untimed, Granted
  <2>5. SemTypeOK' /\ NoTokenInvented' /\ TokensConservedUntimed'
    BY <1>1, <1>2, <2>1, <2>3
    DEF SemInv, SemTypeOK, SemaphoreKept, NoTokenInvented, TokensConservedUntimed,
        TokensConserved, Untimed
  <2>6. TakersExact'
    BY <1>3, <2>1 DEF SemInv, SemaphoreKept, TakersExact, WaitsIn, ExpiredIn, Granted
  <2>7. QED BY <2>2, <2>4, <2>5, <2>6 DEF SemInv, SemaphoreKept, Elsewhere
<1>4. CASE sem_waiters # {}
  <2>1. PICK w \in ThreadIds : /\ w \in sem_waiters
                               /\ sem_waiters' = sem_waiters \ {w}
                               /\ sched' = UnblockThread(sched, w)
                               /\ sem_count' = sem_count
    <3>1. sem_waiters \in SUBSET Nat
      BY <1>1, IdsAreNats
    <3>2. Min(sem_waiters) \in sem_waiters
      BY <1>4, <3>1, MinOfNats
    <3>3. QED BY <1>1, <1>4, <3>2 DEF ReleaseLocked
  <2>2. /\ KernelInv'
        /\ \A t \in ThreadIds \ {w} : Untouched(t)
        /\ WaitsIn("take", w) => GrantedIn("take", w)'
        /\ ExpiredIn("take", w) => Untouched(w)
        /\ \A c \in Calls : pc[w] # c => Elsewhere(c)
    BY <2>1, ReleaseWaits DEF Calls
  <2>3. WaitsIn("take", w) \/ ExpiredIn("take", w)
    BY <2>1 DEF SemInv, SemaphoreKept, TakersExact
  <2>4. \A c \in Calls \ {"take"} : Elsewhere(c)
    BY <2>2, <2>3 DEF WaitsIn, ExpiredIn
  <2>5. \A t \in ThreadIds \ {w} :
          /\ WaitsIn("take", t)' <=> WaitsIn("take", t)
          /\ ExpiredIn("take", t)' <=> ExpiredIn("take", t)
          /\ GrantedIn("take", t)' <=> GrantedIn("take", t)
    BY <2>2, UntouchedWaits
  <2>6. ~WaitsIn("take", w)'
    <3>1. CASE WaitsIn("take", w)
      BY <2>2, <3>1 DEF WaitsIn, GrantedIn
    <3>2. CASE ExpiredIn("take", w)
      BY <2>2, <3>2, UntouchedWaits DEF WaitsIn, ExpiredIn
    <3>3. QED BY <2>3, <3>1, <3>2
  <2>7. TakersExact'
    BY <1>1, <1>4, <2>1, <2>5, <2>6 DEF SemInv, SemaphoreKept, TakersExact
  <2>8. CASE WaitsIn("take", w)
    <3>1. ~GrantedIn("take", w) /\ GrantedIn("take", w)'
      BY <2>2, <2>8 DEF WaitsIn, GrantedIn
    <3>2. Cardinality(Handed)' = Cardinality(Handed) + 1
      BY <2>5, <3>1, HandedMoves
    <3>3. SemTypeOK' /\ NoTokenInvented' /\ TokensConservedUntimed'
      BY <1>1, <1>2, <2>1, <3>2
      DEF SemInv, SemTypeOK, SemaphoreKept, NoTokenInvented, TokensConservedUntimed,
          TokensConserved, Untimed
    <3>4. QED BY <2>2, <2>4, <2>7, <3>3 DEF SemInv, SemaphoreKept
  <2>9. CASE ExpiredIn("take", w)
    <3>1. GrantedIn("take", w)' <=> GrantedIn("take", w)
      BY <2>2, <2>9, UntouchedWaits
    <3>2. Cardinality(Handed)' = Cardinality(Handed)
      BY <2>5, <3>1, HandedMoves
    <3>3. ~Untimed /\ ~Untimed'
      BY <2>9 DEF ExpiredIn, KernelInv, Untimed
    <3>4. SemTypeOK' /\ NoTokenInvented' /\ TokensConservedUntimed'
      BY <1>1, <1>2, <2>1, <3>2, <3>3
      DEF SemInv, SemTypeOK, SemaphoreKept, NoTokenInvented, TokensConservedUntimed
    <3>5. QED BY <2>2, <2>4, <2>7, <3>4 DEF SemInv, SemaphoreKept
  <2>10. QED BY <2>3, <2>8, <2>9
<1>5. QED BY <1>3, <1>4

LEMMA SemaphoreMoves ==
  ASSUME ReusesOnlySignals, KernelInv, SemInv, SemaphoreOp
  PROVE  KernelInv' /\ SemInv' /\ \A c \in Calls \ {"app", "take"} : Elsewhere(c)
<1>1. sem_count \in Nat /\ owed \in Nat /\ sem_waiters \subseteq ThreadIds
  BY DEF SemInv, SemTypeOK
<1>2. Cardinality(Handed) \in Nat
  BY HandedFinite
<1>3. /\ UNCHANGED app /\ ~app.reuses
      /\ Self \in ThreadIds /\ ~sched.is_ipc_wait[Self] /\ "take" \in Calls \ {"app"}
  BY SelfFacts DEF SemaphoreOp, Uses, ReusesOnlySignals, KernelInv, Calls
<1>4. PICK me \in ThreadIds : me = Self
  BY <1>3
<1>5. CASE TakeAtOnce
  <2>1. UNCHANGED <<sched, pc, sem_waiters>>
    BY <1>5 DEF TakeAtOnce
  <2>2. \A t \in ThreadIds : Untouched(t)
    BY <2>1 DEF Untouched
  <2>3. Handed' = Handed
    BY <2>1 DEF Handed, GrantedIn, Granted
  <2>4. KernelInv'
    BY <1>3, <2>1 DEF KernelInv, Untimed, Granted
  <2>5. SemTypeOK' /\ NoTokenInvented' /\ TokensConservedUntimed'
    BY <1>1, <1>2, <1>3, <1>5, <2>3
    DEF SemInv, SemTypeOK, SemaphoreKept, NoTokenInvented, TokensConservedUntimed,
        TokensConserved, Untimed, TakeAtOnce
  <2>6. TakersExact'
    BY <1>1, <1>5, <2>1
    DEF SemInv, SemaphoreKept, TakersExact, WaitsIn, ExpiredIn, Granted, TakeAtOnce
  <2>7. QED BY <2>2, <2>4, <2>5, <2>6 DEF SemInv, SemaphoreKept, Elsewhere
<1>6. CASE TakeBlock
  <2>1. /\ KernelInv'
        /\ pc[me] = "app" /\ pc'[me] = "take" /\ sched'.is_ipc_wait[me]
        /\ \A t \in ThreadIds \ {me} : Untouched(t)
    BY <1>3, <1>4, <1>6, BlockMoves DEF TakeBlock
  <2>2. /\ sem_waiters' = sem_waiters \cup {me} /\ sem_count = 0
        /\ UNCHANGED <<sem_count, owed>>
    BY <1>1, <1>4, <1>6 DEF TakeBlock
  <2>3. \A c \in Calls \ {"app", "take"} : Elsewhere(c)
    BY <2>1 DEF Elsewhere
  <2>4. \A t \in ThreadIds \ {me} :
          /\ WaitsIn("take", t)' <=> WaitsIn("take", t)
          /\ ExpiredIn("take", t)' <=> ExpiredIn("take", t)
          /\ GrantedIn("take", t)' <=> GrantedIn("take", t)
    BY <2>1, UntouchedWaits
  <2>5. WaitsIn("take", me)' /\ ~GrantedIn("take", me) /\ ~GrantedIn("take", me)'
    BY <2>1 DEF WaitsIn, GrantedIn
  <2>6. Handed' = Handed
    BY <1>3, <1>4, <2>4, <2>5 DEF Handed
  <2>7. SemTypeOK' /\ NoTokenInvented' /\ TokensConservedUntimed'
    BY <1>1, <1>3, <1>4, <2>2, <2>6
    DEF SemInv, SemTypeOK, SemaphoreKept, NoTokenInvented, TokensConservedUntimed,
        TokensConserved, Untimed
  <2>8. TakersExact'
    BY <1>1, <1>3, <1>4, <2>2, <2>4, <2>5 DEF SemInv, SemaphoreKept, TakersExact
  <2>9. QED BY <2>1, <2>3, <2>7, <2>8 DEF SemInv, SemaphoreKept
<1>7. CASE TakeReturn
  <2>1. /\ KernelInv'
        /\ pc[me] = "take" /\ pc'[me] = "app"
        /\ \A t \in ThreadIds \ {me} : Untouched(t)
    BY <1>3, <1>4, <1>7, ReturnMoves DEF TakeReturn
  <2>2. UNCHANGED <<sched, sem_count>>
    BY <1>7 DEF TakeReturn
  <2>3. \A c \in Calls \ {"app", "take"} : Elsewhere(c)
    BY <2>1 DEF Elsewhere
  <2>4. \A t \in ThreadIds \ {me} :
          /\ WaitsIn("take", t)' <=> WaitsIn("take", t)
          /\ ExpiredIn("take", t)' <=> ExpiredIn("take", t)
          /\ GrantedIn("take", t)' <=> GrantedIn("take", t)
    BY <2>1, UntouchedWaits
  <2>5. /\ ~WaitsIn("take", me) /\ ~WaitsIn("take", me)' /\ ~GrantedIn("take", me)'
        /\ GrantedIn("take", me) <=> Granted(me)
        /\ ExpiredIn("take", me) <=> ~Granted(me)
    BY <1>3, <1>4, <2>1 DEF WaitsIn, GrantedIn, ExpiredIn
  <2>6. CASE Granted(me)
    <3>1. owed' = owed - 1 /\ UNCHANGED sem_waiters
      BY <1>4, <1>7, <2>6 DEF TakeReturn
    <3>2. Cardinality(Handed)' = Cardinality(Handed) - 1
      BY <1>3, <1>4, <2>4, <2>5, <2>6, HandedMoves
    <3>3. Cardinality(Handed)' \in Nat
      <4>1. me \in Handed
        BY <1>3, <1>4, <2>5, <2>6 DEF Handed
      <4>2. Cardinality(Handed \ {me}) = Cardinality(Handed) - 1
        BY <4>1, HandedFinite, FS_RemoveElement
      <4>3. IsFiniteSet(Handed \ {me})
        BY HandedFinite, FS_RemoveElement
      <4>4. Cardinality(Handed \ {me}) \in Nat
        BY <4>3, FS_CardinalityType
      <4>5. QED BY <3>2, <4>2, <4>4
    <3>4. me \notin sem_waiters
      BY <2>5, <2>6 DEF SemInv, SemaphoreKept, TakersExact
    <3>5. TakersExact'
      BY <1>1, <1>3, <1>4, <2>2, <2>4, <2>5, <3>1, <3>4
      DEF SemInv, SemaphoreKept, TakersExact
    <3>6. NoTokenInvented' /\ TokensConservedUntimed'
      BY <1>1, <1>2, <1>3, <2>2, <3>1, <3>2
      DEF SemInv, SemaphoreKept, NoTokenInvented, TokensConservedUntimed,
          TokensConserved, Untimed
    <3>7. SemTypeOK'
      <4>1. sem_count + Cardinality(Handed) <= owed /\ Cardinality(Handed) >= 1
        BY <1>2, <3>2, <3>3 DEF SemInv, SemaphoreKept, NoTokenInvented
      <4>2. QED BY <1>1, <1>2, <2>2, <3>1, <4>1 DEF SemTypeOK
    <3>8. QED BY <2>1, <2>3, <3>5, <3>6, <3>7 DEF SemInv, SemaphoreKept
  <2>7. CASE ~Granted(me)
    <3>1. sem_waiters' = sem_waiters \ {me} /\ UNCHANGED owed
      BY <1>4, <1>7, <2>7 DEF TakeReturn
    <3>2. Handed' = Handed
      BY <1>3, <1>4, <2>4, <2>5, <2>7 DEF Handed
    <3>3. TakersExact'
      BY <1>1, <1>3, <1>4, <2>2, <2>4, <2>5, <3>1 DEF SemInv, SemaphoreKept, TakersExact
    <3>4. SemTypeOK' /\ NoTokenInvented' /\ TokensConservedUntimed'
      BY <1>1, <1>3, <1>4, <2>2, <3>1, <3>2
      DEF SemInv, SemTypeOK, SemaphoreKept, NoTokenInvented, TokensConservedUntimed,
          TokensConserved, Untimed
    <3>5. QED BY <2>1, <2>3, <3>3, <3>4 DEF SemInv, SemaphoreKept
  <2>8. QED BY <2>6, <2>7
<1>8. CASE Release \/ ReleaseFromIsr
  BY <1>3, <1>4, <1>8, ReleaseKept DEF Release, ReleaseFromIsr
<1>9. QED BY <1>5, <1>6, <1>7, <1>8 DEF SemaphoreOp, SemStep

-----------------------------------------------------------------------------
(* The mutex.                                                              *)

\* Whoever is inside, or was let in and has yet to return from lock, is the
\* owner; the owner may not know it, after a timeout.
MutexInv ==
  /\ MutexTypeOK /\ MutexKept
  /\ ~Uses("mutex") => ~locked
  /\ locked <=> owner # NO_OWNER
  /\ locked => nest >= 1
  /\ \A t \in ThreadIds :
       /\ depth[t] > 0 => owner = t /\ depth[t] <= nest
       /\ GrantedIn("lock", t) => owner = t /\ nest = 1 /\ depth[t] = 0

LEMMA MutexElsewhere ==
  ASSUME MutexInv, Elsewhere("lock"), UNCHANGED mutexVars, UNCHANGED app
  PROVE  MutexInv'
<1>1. \A t \in ThreadIds :
         /\ WaitsIn("lock", t)' => WaitsIn("lock", t)
         /\ WaitsIn("lock", t) => WaitsIn("lock", t)' \/ ExpiredIn("lock", t)'
         /\ ExpiredIn("lock", t) => ExpiredIn("lock", t)'
         /\ GrantedIn("lock", t)' <=> GrantedIn("lock", t)
         /\ pc'[t] = "lock" <=> pc[t] = "lock"
  BY ElsewhereWaits
<1>2. UNCHANGED <<locked, owner, nest, mutex_waiters, depth>>
  BY DEF mutexVars
<1>3. mutex_waiters \subseteq ThreadIds /\ owner \in ThreadIds \cup {NO_OWNER}
  BY DEF MutexInv, MutexTypeOK
<1>4. NoLostWaiter'
  BY <1>1, <1>2, <1>3 DEF MutexInv, MutexKept, NoLostWaiter
<1>5. OwnerEnteredUntimed'
  BY <1>1, <1>2, <1>3 DEF MutexInv, MutexKept, OwnerEnteredUntimed, OwnerEntered, Untimed
<1>6. QED BY <1>1, <1>2, <1>4, <1>5 DEF MutexInv, MutexTypeOK, MutexKept, Uses

\* The only one that can be inside is the owner.
LEMMA OthersAreOut ==
  ASSUME MutexInv, NEW t \in ThreadIds, ~locked \/ owner = t
  PROVE  \A d \in ThreadIds \ {t} : depth[d] = 0
<1>1. TAKE d \in ThreadIds \ {t}
<1>2. owner # d
  BY IdsAreNats DEF MutexInv, NO_OWNER
<1>3. QED BY <1>2 DEF MutexInv, MutexTypeOK

\* The last unlock by the owner.
LEMMA HandOverKept ==
  ASSUME KernelInv, MutexInv, NEW me \in ThreadIds, pc[me] = "app", owner = me,
         nest <= 1, HandOver, depth' = [depth EXCEPT ![me] = IF @ > 0 THEN @ - 1 ELSE 0],
         UNCHANGED <<pc, app>>, Uses("mutex")
  PROVE  KernelInv' /\ MutexInv' /\ \A c \in Calls \ {"lock"} : Elsewhere(c)
<1>1. /\ mutex_waiters \subseteq ThreadIds /\ nest \in Nat /\ depth \in [ThreadIds -> Nat]
      /\ locked /\ nest = 1 /\ me # NO_OWNER
  BY IdsAreNats DEF MutexInv, MutexTypeOK, NO_OWNER
<1>2. \A t \in ThreadIds : depth'[t] = 0
  <2>1. \A t \in ThreadIds \ {me} : depth[t] = 0
    BY OthersAreOut
  <2>2. depth[me] \in {0, 1}
    BY <1>1 DEF MutexInv
  <2>3. QED BY <1>1, <2>1, <2>2
<1>3. depth' \in [ThreadIds -> Nat]
  BY <1>1
<1>4. \A t \in ThreadIds : ~GrantedIn("lock", t)
  BY DEF MutexInv, GrantedIn
<1>5. CASE mutex_waiters = {}
  <2>1. /\ ~locked' /\ owner' = NO_OWNER /\ nest' = 0 /\ mutex_waiters' = {}
        /\ UNCHANGED sched /\ locked' \in BOOLEAN
    BY <1>5 DEF HandOver
  <2>2. \A t \in ThreadIds : Untouched(t)
    BY <2>1 DEF Untouched
  <2>3. KernelInv'
    BY <2>1 DEF KernelInv, Untimed, Granted
  <2>4. \A t \in ThreadIds : ~GrantedIn("lock", t)' /\ ~WaitsIn("lock", t)'
    BY <1>4, <1>5, <2>1
    DEF GrantedIn, Granted, WaitsIn, MutexInv, MutexKept, NoLostWaiter
  <2>5. MutexInv'
    BY <1>2, <1>3, <2>1, <2>4
    DEF MutexInv, MutexTypeOK, MutexKept, NoLostWaiter, OwnerEnteredUntimed, OwnerEntered
  <2>6. QED BY <2>2, <2>3, <2>5 DEF Elsewhere
<1>6. CASE mutex_waiters # {}
  <2>1. PICK w \in ThreadIds : /\ w \in mutex_waiters
                               /\ mutex_waiters' = mutex_waiters \ {w}
                               /\ owner' = w /\ nest' = 1 /\ locked' = locked
                               /\ sched' = UnblockThread(sched, w)
    <3>1. mutex_waiters \in SUBSET Nat
      BY <1>1, IdsAreNats
    <3>2. Min(mutex_waiters) \in mutex_waiters
      BY <1>6, <3>1, MinOfNats
    <3>3. QED BY <1>1, <1>6, <3>2 DEF HandOver
  <2>2. /\ KernelInv'
        /\ \A t \in ThreadIds \ {w} : Untouched(t)
        /\ WaitsIn("lock", w) => GrantedIn("lock", w)'
        /\ ExpiredIn("lock", w) => Untouched(w)
        /\ \A c \in Calls : pc[w] # c => Elsewhere(c)
    BY <2>1, ReleaseWaits DEF Calls
  <2>3. WaitsIn("lock", w) \/ ExpiredIn("lock", w)
    BY <2>1 DEF MutexInv, MutexKept, NoLostWaiter
  <2>4. \A c \in Calls \ {"lock"} : Elsewhere(c)
    BY <2>2, <2>3 DEF WaitsIn, ExpiredIn
  <2>5. \A t \in ThreadIds \ {w} :
          /\ WaitsIn("lock", t)' <=> WaitsIn("lock", t)
          /\ ExpiredIn("lock", t)' <=> ExpiredIn("lock", t)
          /\ GrantedIn("lock", t)' <=> GrantedIn("lock", t)
    BY <2>2, UntouchedWaits
  <2>6. ~WaitsIn("lock", w)'
    <3>1. CASE WaitsIn("lock", w)
      BY <2>2, <3>1 DEF WaitsIn, GrantedIn
    <3>2. CASE ExpiredIn("lock", w)
      BY <2>2, <3>2, UntouchedWaits DEF WaitsIn, ExpiredIn
    <3>3. QED BY <2>3, <3>1, <3>2
  <2>7. NoLostWaiter'
    BY <1>1, <2>1, <2>5, <2>6 DEF MutexInv, MutexKept, NoLostWaiter
  <2>8. OwnerEnteredUntimed'
    <3>1. SUFFICES ASSUME Untimed' PROVE OwnerEntered'
      BY DEF OwnerEnteredUntimed
    <3>2. WaitsIn("lock", w)
      BY <2>3, <3>1 DEF ExpiredIn, KernelInv, Untimed
    <3>3. GrantedIn("lock", w)'
      BY <2>2, <3>2
    <3>4. QED BY <1>2, <2>1, <3>3 DEF OwnerEntered
  <2>9. w # NO_OWNER
    BY IdsAreNats DEF NO_OWNER
  <2>10. MutexTypeOK'
    BY <1>1, <1>3, <2>1 DEF MutexInv, MutexTypeOK
  <2>11. \A t \in ThreadIds : GrantedIn("lock", t)' => t = w
    BY <1>4, <2>5
  <2>12. MutexInv'
    BY <1>1, <1>2, <2>1, <2>7, <2>8, <2>9, <2>10, <2>11 DEF MutexInv, MutexKept, Uses
  <2>13. QED BY <2>2, <2>4, <2>12
<1>7. QED BY <1>5, <1>6

LEMMA MutexMoves ==
  ASSUME ReusesOnlySignals, KernelInv, MutexInv, MutexOp
  PROVE  /\ KernelInv' /\ MutexInv' /\ \A c \in Calls \ {"app", "lock"} : Elsewhere(c)
         /\ [Lock!LockNext]_depth
<1>1. /\ mutex_waiters \subseteq ThreadIds /\ nest \in Nat /\ depth \in [ThreadIds -> Nat]
      /\ owner \in ThreadIds \cup {NO_OWNER}
  BY DEF MutexInv, MutexTypeOK
<1>2. /\ UNCHANGED app /\ ~app.reuses /\ Uses("mutex") /\ Uses("mutex")'
      /\ Self \in ThreadIds /\ ~sched.is_ipc_wait[Self] /\ "lock" \in Calls \ {"app"}
  BY SelfFacts DEF MutexOp, Uses, ReusesOnlySignals, KernelInv, Calls
<1>3. PICK me \in ThreadIds : me = Self
  BY <1>2
<1>4. me # NO_OWNER
  BY IdsAreNats DEF NO_OWNER
<1>5. CASE Acquire
  <2>1. UNCHANGED <<sched, pc, mutex_waiters>> /\ pc[me] = "app"
    BY <1>3, <1>5 DEF Acquire, InApp
  <2>2. \A t \in ThreadIds : Untouched(t)
    BY <2>1 DEF Untouched
  <2>3. KernelInv'
    BY <1>2, <2>1 DEF KernelInv, Untimed, Granted
  <2>4. /\ locked' /\ owner' = me /\ nest' \in Nat \ {0} /\ locked' \in BOOLEAN
        /\ locked => owner = me /\ nest' = nest + 1
        /\ ~locked => nest' = 1
        /\ depth' = [depth EXCEPT ![me] = @ + 1]
    <3>1. CASE locked
      BY <1>1, <1>3, <1>5, <3>1 DEF Acquire
    <3>2. CASE ~locked
      BY <1>1, <1>3, <1>5, <3>2 DEF Acquire
    <3>3. QED BY <3>1, <3>2
  <2>5. ~locked \/ owner = me
    BY <2>4
  <2>6. /\ \A d \in ThreadIds \ {me} : depth[d] = 0
        /\ ~locked => depth[me] = 0
        /\ depth[me] <= nest \/ depth[me] = 0
    BY <1>1, <1>4, <2>5, OthersAreOut DEF MutexInv
  <2>7. \A t \in ThreadIds : ~GrantedIn("lock", t)
    <3>1. ASSUME NEW t \in ThreadIds, GrantedIn("lock", t) PROVE FALSE
      <4>1. owner = t /\ t # me /\ t # NO_OWNER
        BY <2>1, <3>1, IdsAreNats DEF MutexInv, GrantedIn, NO_OWNER
      <4>2. QED BY <2>5, <4>1 DEF MutexInv
    <3>2. QED BY <3>1
  <2>8. NoLostWaiter'
    BY <2>1, <2>4 DEF MutexInv, MutexKept, NoLostWaiter, WaitsIn, ExpiredIn, Granted
  <2>9. OwnerEnteredUntimed'
    <3>1. SUFFICES ASSUME Untimed PROVE OwnerEntered'
      BY <1>2 DEF OwnerEnteredUntimed, Untimed
    <3>2. CASE locked
      BY <1>1, <1>4, <2>1, <2>4, <2>7, <3>1, <3>2
      DEF MutexInv, MutexKept, OwnerEnteredUntimed, OwnerEntered
    <3>3. CASE ~locked
      BY <1>1, <2>1, <2>4, <2>6, <3>3 DEF OwnerEntered
    <3>4. QED BY <3>2, <3>3
  <2>10. \A t \in ThreadIds : ~GrantedIn("lock", t)'
    BY <2>1, <2>7 DEF GrantedIn, Granted
  <2>11. /\ depth' \in [ThreadIds -> Nat] /\ depth'[me] = depth[me] + 1
         /\ \A d \in ThreadIds \ {me} : depth'[d] = 0
    BY <1>1, <2>4, <2>6
  <2>12. MutexTypeOK'
    BY <1>1, <2>1, <2>4, <2>11 DEF MutexTypeOK
  <2>13. depth'[me] <= nest'
    BY <1>1, <2>4, <2>6, <2>11
  <2>14. MutexInv'
    BY <1>2, <1>4, <2>4, <2>8, <2>9, <2>10, <2>11, <2>12, <2>13 DEF MutexInv, MutexKept
  <2>15. Lock!LockNext
    BY <2>4, <2>6 DEF Lock!LockNext, Lock!Enter
  <2>16. QED BY <2>2, <2>3, <2>14, <2>15 DEF Elsewhere
<1>6. CASE LockBlock
  <2>1. /\ KernelInv'
        /\ pc[me] = "app" /\ pc'[me] = "lock" /\ sched'.is_ipc_wait[me]
        /\ \A t \in ThreadIds \ {me} : Untouched(t)
    BY <1>2, <1>3, <1>6, BlockMoves DEF LockBlock
  <2>2. /\ mutex_waiters' = mutex_waiters \cup {me} /\ locked /\ owner # me
        /\ UNCHANGED <<locked, owner, nest, depth>>
    BY <1>3, <1>6 DEF LockBlock
  <2>3. \A c \in Calls \ {"app", "lock"} : Elsewhere(c)
    BY <2>1 DEF Elsewhere
  <2>4. \A t \in ThreadIds \ {me} :
          /\ WaitsIn("lock", t)' <=> WaitsIn("lock", t)
          /\ ExpiredIn("lock", t)' <=> ExpiredIn("lock", t)
          /\ GrantedIn("lock", t)' <=> GrantedIn("lock", t)
          /\ pc'[t] = pc[t]
    BY <2>1, UntouchedWaits
  <2>5. WaitsIn("lock", me)' /\ ~GrantedIn("lock", me)'
    BY <2>1 DEF WaitsIn, GrantedIn
  <2>6. NoLostWaiter'
    BY <1>1, <2>2, <2>4, <2>5 DEF MutexInv, MutexKept, NoLostWaiter
  <2>7. OwnerEnteredUntimed'
    BY <1>1, <1>2, <2>2, <2>4
    DEF MutexInv, MutexKept, OwnerEnteredUntimed, OwnerEntered, Untimed
  <2>8. MutexInv'
    BY <1>1, <1>2, <2>2, <2>4, <2>5, <2>6, <2>7 DEF MutexInv, MutexTypeOK, MutexKept
  <2>9. QED BY <2>1, <2>2, <2>3, <2>8
<1>7. CASE LockReturn
  <2>1. /\ KernelInv'
        /\ pc[me] = "lock" /\ pc'[me] = "app"
        /\ \A t \in ThreadIds \ {me} : Untouched(t)
    BY <1>2, <1>3, <1>7, ReturnMoves DEF LockReturn
  <2>2. UNCHANGED <<sched, locked, owner, nest>>
    BY <1>7 DEF LockReturn
  <2>3. \A c \in Calls \ {"app", "lock"} : Elsewhere(c)
    BY <2>1 DEF Elsewhere
  <2>4. \A t \in ThreadIds \ {me} :
          /\ WaitsIn("lock", t)' <=> WaitsIn("lock", t)
          /\ ExpiredIn("lock", t)' <=> ExpiredIn("lock", t)
          /\ GrantedIn("lock", t)' <=> GrantedIn("lock", t)
          /\ pc'[t] = pc[t]
    BY <2>1, UntouchedWaits
  <2>5. /\ ~WaitsIn("lock", me) /\ ~WaitsIn("lock", me)' /\ ~GrantedIn("lock", me)'
        /\ GrantedIn("lock", me) <=> Granted(me)
        /\ ExpiredIn("lock", me) <=> ~Granted(me)
    BY <1>2, <1>3, <2>1 DEF WaitsIn, GrantedIn, ExpiredIn
  <2>6. CASE Granted(me)
    <3>1. depth' = [depth EXCEPT ![me] = @ + 1] /\ UNCHANGED mutex_waiters
      BY <1>3, <1>7, <2>6 DEF LockReturn
    <3>2. owner = me /\ nest = 1 /\ depth[me] = 0 /\ locked
      BY <1>4, <2>5, <2>6 DEF MutexInv
    <3>3. \A d \in ThreadIds \ {me} : depth[d] = 0
      BY <3>2, OthersAreOut
    <3>4. /\ depth' \in [ThreadIds -> Nat] /\ depth'[me] = 1
          /\ \A d \in ThreadIds \ {me} : depth'[d] = 0
      BY <1>1, <3>1, <3>2, <3>3
    <3>5. me \notin mutex_waiters
      BY <2>5, <2>6 DEF MutexInv, MutexKept, NoLostWaiter
    <3>6. NoLostWaiter'
      BY <1>1, <2>2, <2>4, <2>5, <3>1, <3>5 DEF MutexInv, MutexKept, NoLostWaiter
    <3>7. OwnerEnteredUntimed'
      BY <2>1, <2>2, <3>2, <3>4 DEF OwnerEnteredUntimed, OwnerEntered
    <3>8. \A t \in ThreadIds : ~GrantedIn("lock", t)'
      BY <2>4, <2>5, <3>2 DEF MutexInv
    <3>9. MutexInv'
      BY <1>1, <1>2, <1>4, <2>2, <3>1, <3>2, <3>4, <3>6, <3>7, <3>8
      DEF MutexInv, MutexTypeOK, MutexKept
    <3>10. Lock!LockNext
      BY <3>1, <3>3 DEF Lock!LockNext, Lock!Enter
    <3>11. QED BY <2>1, <2>3, <3>9, <3>10
  <2>7. CASE ~Granted(me)
    <3>1. mutex_waiters' = mutex_waiters \ {me} /\ UNCHANGED depth
      BY <1>3, <1>7, <2>7 DEF LockReturn
    <3>2. ~Untimed /\ ~Untimed'
      BY <1>2, <1>3, <2>1, <2>7 DEF KernelInv, Untimed
    <3>3. NoLostWaiter'
      BY <1>1, <2>2, <2>4, <2>5, <3>1 DEF MutexInv, MutexKept, NoLostWaiter
    <3>4. OwnerEnteredUntimed'
      BY <3>2 DEF OwnerEnteredUntimed
    <3>5. MutexInv'
      BY <1>1, <1>2, <2>2, <2>4, <2>5, <3>1, <3>3, <3>4
      DEF MutexInv, MutexTypeOK, MutexKept
    <3>6. QED BY <2>1, <2>3, <3>1, <3>5
  <2>8. QED BY <2>6, <2>7
<1>8. CASE Unlock
  <2>1. /\ pc[me] = "app" /\ owner = me /\ UNCHANGED pc /\ locked
        /\ depth' = [depth EXCEPT ![me] = IF @ > 0 THEN @ - 1 ELSE 0]
    BY <1>3, <1>4, <1>8 DEF Unlock, InApp, MutexInv
  <2>2. [Lock!LockNext]_depth
    <3>1. CASE depth[me] > 0
      BY <2>1, <3>1 DEF Lock!LockNext, Lock!Leave
    <3>2. CASE ~(depth[me] > 0)
      <4>1. depth[me] = 0
        BY <1>1, <3>2
      <4>2. depth' = depth
        BY <1>1, <2>1, <4>1
      <4>3. QED BY <4>2
    <3>3. QED BY <3>1, <3>2
  <2>3. CASE nest > 1
    <3>1. nest' = nest - 1 /\ UNCHANGED <<sched, locked, owner, mutex_waiters>>
      BY <1>8, <2>3 DEF Unlock
    <3>2. \A t \in ThreadIds : Untouched(t)
      BY <2>1, <3>1 DEF Untouched
    <3>3. KernelInv'
      BY <1>2, <2>1, <3>1 DEF KernelInv, Untimed, Granted
    <3>4. \A t \in ThreadIds : ~GrantedIn("lock", t) /\ ~GrantedIn("lock", t)'
      BY <2>1, <3>1 DEF MutexInv, GrantedIn, Granted
    <3>5. /\ depth' \in [ThreadIds -> Nat]
          /\ \A d \in ThreadIds \ {me} : depth'[d] = depth[d]
          /\ depth'[me] = IF depth[me] > 0 THEN depth[me] - 1 ELSE 0
      BY <1>1, <2>1
    <3>6. NoLostWaiter'
      BY <2>1, <3>1 DEF MutexInv, MutexKept, NoLostWaiter, WaitsIn, ExpiredIn, Granted
    <3>7. OwnerEnteredUntimed'
      <4>1. SUFFICES ASSUME Untimed PROVE OwnerEntered'
        BY <1>2 DEF OwnerEnteredUntimed, Untimed
      <4>2. nest = depth[me]
        BY <1>4, <2>1, <3>4, <4>1
        DEF MutexInv, MutexKept, OwnerEnteredUntimed, OwnerEntered
      <4>3. QED BY <1>1, <2>1, <2>3, <3>1, <3>5, <4>2 DEF OwnerEntered
    <3>8. depth[me] = 0 \/ depth[me] <= nest
      BY <1>1 DEF MutexInv
    <3>9. nest' \in Nat \ {0} /\ depth'[me] <= nest'
      BY <1>1, <2>3, <3>1, <3>5, <3>8
    <3>10. MutexTypeOK'
      BY <1>1, <2>1, <3>1, <3>5, <3>9 DEF MutexInv, MutexTypeOK
    <3>11. \A d \in ThreadIds \ {me} : depth'[d] = 0
      BY <2>1, <3>5, OthersAreOut
    <3>12. /\ locked' /\ owner' = me /\ nest' >= 1
           /\ \A t \in ThreadIds : depth'[t] > 0 => owner' = t /\ depth'[t] <= nest'
      <4>1. locked' /\ owner' = me
        BY <2>1, <3>1, Zenon
      <4>2. nest' >= 1
        BY <3>9
      <4>3. \A t \in ThreadIds : depth'[t] > 0 => t = me
        BY <3>11
      <4>4. QED BY <3>9, <4>1, <4>2, <4>3
    <3>13. MutexInv'
      BY <1>2, <1>4, <3>4, <3>6, <3>7, <3>10, <3>12 DEF MutexInv, MutexKept
    <3>14. QED BY <2>2, <3>2, <3>3, <3>13 DEF Elsewhere
  <2>4. CASE ~(nest > 1)
    <3>1. HandOver /\ nest <= 1
      BY <1>1, <1>8, <2>4 DEF Unlock
    <3>2. KernelInv' /\ MutexInv' /\ \A c \in Calls \ {"lock"} : Elsewhere(c)
      BY <1>2, <2>1, <3>1, HandOverKept
    <3>3. QED BY <2>2, <3>2
  <2>5. QED BY <2>3, <2>4
<1>9. QED BY <1>5, <1>6, <1>7, <1>8 DEF MutexOp, MutexStep

-----------------------------------------------------------------------------
(* The signals.                                                            *)

\* A blocked thread is in SIG_WAITERS, and only threads in signal_wait are,
\* or slots that have been used again.
SigInv ==
  /\ SigTypeOK /\ SignalsKept
  /\ \A t \in ThreadIds : WaitsIn("signal_wait", t) => t \in sig_waiters
  /\ \A t \in sig_waiters :
       WaitsIn("signal_wait", t) \/ ExpiredIn("signal_wait", t) \/ app.reuses

LEMMA SigElsewhere ==
  ASSUME SigInv, Elsewhere("signal_wait"), UNCHANGED sigVars, UNCHANGED app
  PROVE  SigInv'
<1>1. \A t \in ThreadIds :
         /\ WaitsIn("signal_wait", t)' => WaitsIn("signal_wait", t)
         /\ WaitsIn("signal_wait", t) =>
              WaitsIn("signal_wait", t)' \/ ExpiredIn("signal_wait", t)'
         /\ ExpiredIn("signal_wait", t) => ExpiredIn("signal_wait", t)'
         /\ GrantedIn("signal_wait", t)' <=> GrantedIn("signal_wait", t)
  BY ElsewhereWaits
<1>2. UNCHANGED <<sig_pending, sig_mask, sig_waiters, sig_wait_mask, sent>>
  BY DEF sigVars
<1>3. SigTypeOK' /\ sig_waiters \subseteq ThreadIds
  BY <1>2 DEF SigInv, SigTypeOK
<1>4. SignalsKept'
  BY <1>1, <1>2 DEF SigInv, SignalsKept, NoneWaitsSignalled, NoSignalLost, OkMeansSignal,
                    Deliverable
<1>5. QED BY <1>1, <1>2, <1>3, <1>4 DEF SigInv

\* What a step must keep when it is about the thread me alone.
LEMMA SigOne ==
  ASSUME SigInv, UNCHANGED app, SigTypeOK', NEW me \in ThreadIds,
         \A t \in ThreadIds \ {me} :
           /\ Untouched(t)
           /\ sig_pending'[t] = sig_pending[t] /\ sig_mask'[t] = sig_mask[t]
           /\ sig_wait_mask'[t] = sig_wait_mask[t] /\ sent'[t] = sent[t]
           /\ t \in sig_waiters' <=> t \in sig_waiters,
         sent'[me] \subseteq sig_pending'[me],
         WaitsIn("signal_wait", me)' =>
           me \in sig_waiters' /\ Deliverable(me, sig_wait_mask[me])' = {},
         GrantedIn("signal_wait", me)' => Deliverable(me, sig_wait_mask[me])' # {},
         me \in sig_waiters' =>
           WaitsIn("signal_wait", me)' \/ ExpiredIn("signal_wait", me)' \/ app.reuses
  PROVE  SigInv'
<1>1. \A t \in ThreadIds \ {me} :
         /\ WaitsIn("signal_wait", t)' <=> WaitsIn("signal_wait", t)
         /\ ExpiredIn("signal_wait", t)' <=> ExpiredIn("signal_wait", t)
         /\ GrantedIn("signal_wait", t)' <=> GrantedIn("signal_wait", t)
         /\ Deliverable(t, sig_wait_mask[t])' = Deliverable(t, sig_wait_mask[t])
  BY UntouchedWaits DEF Deliverable
<1>2. sig_waiters' \subseteq ThreadIds
  BY DEF SigTypeOK
<1>3. /\ \A t \in ThreadIds : WaitsIn("signal_wait", t)' => t \in sig_waiters'
      /\ \A t \in sig_waiters' :
           WaitsIn("signal_wait", t)' \/ ExpiredIn("signal_wait", t)' \/ app.reuses
  BY <1>1, <1>2 DEF SigInv
<1>4. NoSignalLost'
  BY DEF SigInv, SignalsKept, NoSignalLost
<1>5. NoneWaitsSignalled'
  BY <1>1 DEF SigInv, SignalsKept, NoneWaitsSignalled
<1>6. OkMeansSignal'
  BY <1>1 DEF SigInv, SignalsKept, OkMeansSignal
<1>7. QED BY <1>3, <1>4, <1>5, <1>6 DEF SigInv, SignalsKept

LEMMA SendKept ==
  ASSUME KernelInv, SigInv, SendSignal, UNCHANGED app
  PROVE  KernelInv' /\ SigInv' /\ \A c \in Calls \ {"app", "signal_wait"} : Elsewhere(c)
<1>1. PICK w \in ThreadIds, s \in SignalNumbers :
        /\ sig_pending' = [sig_pending EXCEPT ![w] = @ \cup {s}]
        /\ sent' = [sent EXCEPT ![w] = @ \cup {s}]
        /\ IF WakesTarget(w, sig_pending'[w])
           THEN sig_waiters' = sig_waiters \ {w} /\ sched' = UnblockThread(sched, w)
           ELSE UNCHANGED <<sig_waiters, sched>>
  BY DEF SendSignal
<1>2. UNCHANGED <<pc, sig_mask, sig_wait_mask>>
  BY DEF SendSignal
<1>3. /\ sig_pending \in [ThreadIds -> SUBSET SignalNumbers]
      /\ sent \in [ThreadIds -> SUBSET SignalNumbers]
      /\ sig_waiters \subseteq ThreadIds
  BY DEF SigInv, SigTypeOK
<1>4. /\ sig_pending'[w] = sig_pending[w] \cup {s} /\ sent'[w] = sent[w] \cup {s}
      /\ \A t \in ThreadIds \ {w} : sig_pending'[t] = sig_pending[t] /\ sent'[t] = sent[t]
      /\ sig_pending' \in [ThreadIds -> SUBSET SignalNumbers]
      /\ sent' \in [ThreadIds -> SUBSET SignalNumbers]
  BY <1>1, <1>3
<1>5. sent'[w] \subseteq sig_pending'[w]
  BY <1>4 DEF SigInv, SignalsKept, NoSignalLost
<1>6. SigTypeOK'
  <2>1. sig_waiters' \subseteq ThreadIds
    BY <1>1, <1>3
  <2>2. QED BY <1>2, <1>4, <2>1 DEF SigInv, SigTypeOK
<1>7. CASE WakesTarget(w, sig_pending'[w])
  <2>1. /\ sig_waiters' = sig_waiters \ {w} /\ sched' = UnblockThread(sched, w)
        /\ w \in sig_waiters
        /\ Deliverable(w, sig_wait_mask[w])' # {}
    BY <1>1, <1>2, <1>7 DEF WakesTarget, Deliverable
  <2>2. /\ KernelInv'
        /\ \A t \in ThreadIds \ {w} : Untouched(t)
        /\ \A c \in Calls : pc[w] # c => Elsewhere(c)
        /\ sched.is_ipc_wait[w] => ~sched'.is_ipc_wait[w]
        /\ ~sched.is_ipc_wait[w] => Untouched(w)
    BY <1>2, <2>1, ReleaseWaits
  <2>3. ~sched'.is_ipc_wait[w]
    BY <2>2 DEF Untouched
  <2>4. pc[w] \in {"app", "signal_wait"}
    BY <2>1 DEF SigInv, KernelInv, WaitsIn, ExpiredIn
  <2>5. \A c \in Calls \ {"app", "signal_wait"} : Elsewhere(c)
    BY <2>2, <2>4
  <2>6. ~WaitsIn("signal_wait", w)' /\ w \notin sig_waiters'
    BY <2>1, <2>3 DEF WaitsIn
  <2>7. SigInv'
    BY <1>2, <1>4, <1>5, <1>6, <2>1, <2>2, <2>6, SigOne
  <2>8. QED BY <2>2, <2>5, <2>7
<1>8. CASE ~WakesTarget(w, sig_pending'[w])
  <2>1. UNCHANGED <<sig_waiters, sched>>
    BY <1>1, <1>8
  <2>2. \A t \in ThreadIds : Untouched(t)
    BY <1>2, <2>1 DEF Untouched
  <2>3. KernelInv'
    BY <1>2, <2>1 DEF KernelInv, Untimed, Granted
  <2>4. /\ WaitsIn("signal_wait", w)' <=> WaitsIn("signal_wait", w)
        /\ ExpiredIn("signal_wait", w)' <=> ExpiredIn("signal_wait", w)
        /\ GrantedIn("signal_wait", w)' <=> GrantedIn("signal_wait", w)
    BY <2>2, UntouchedWaits
  <2>5. WaitsIn("signal_wait", w) => w \in sig_waiters
    BY DEF SigInv
  <2>6. w \in sig_waiters => Deliverable(w, sig_wait_mask[w])' = {}
    BY <1>2, <1>8 DEF WakesTarget, Deliverable
  <2>7. GrantedIn("signal_wait", w)' => Deliverable(w, sig_wait_mask[w])' # {}
    <3>1. GrantedIn("signal_wait", w) => Deliverable(w, sig_wait_mask[w]) # {}
      BY DEF SigInv, SignalsKept, OkMeansSignal
    <3>2. Deliverable(w, sig_wait_mask[w]) \subseteq Deliverable(w, sig_wait_mask[w])'
      BY <1>2, <1>4 DEF Deliverable
    <3>3. QED BY <2>4, <3>1, <3>2
  <2>8. w \in sig_waiters' =>
          WaitsIn("signal_wait", w)' \/ ExpiredIn("signal_wait", w)' \/ app.reuses
    BY <2>1, <2>4 DEF SigInv
  <2>9. SigInv'
    BY <1>2, <1>4, <1>5, <1>6, <2>1, <2>2, <2>4, <2>5, <2>6, <2>7, <2>8, SigOne
  <2>10. QED BY <2>2, <2>3, <2>9 DEF Elsewhere
<1>9. QED BY <1>7, <1>8

\* A thread in application code changes its own mask or pending word.
LEMMA OwnWordsKept ==
  ASSUME SigInv, NEW me \in ThreadIds, pc[me] = "app",
         UNCHANGED <<sched, pc, app, sig_waiters, sig_wait_mask>>, SigTypeOK',
         \A t \in ThreadIds \ {me} :
           sig_pending'[t] = sig_pending[t] /\ sig_mask'[t] = sig_mask[t] /\ sent'[t] = sent[t],
         sent'[me] \subseteq sig_pending'[me]
  PROVE  SigInv'
<1>1. \A t \in ThreadIds : Untouched(t)
  BY DEF Untouched
<1>2. ~WaitsIn("signal_wait", me)' /\ ~GrantedIn("signal_wait", me)'
  BY DEF WaitsIn, GrantedIn
<1>3. me \in sig_waiters' => app.reuses
  BY DEF SigInv, WaitsIn, ExpiredIn
<1>4. QED BY <1>1, <1>2, <1>3, SigOne

LEMMA TakeSignalKeeps ==
  ASSUME SigInv, NEW me \in ThreadIds, me = Self, NEW s, TakeSignal(s),
         UNCHANGED <<sig_mask, sig_waiters, sig_wait_mask>>
  PROVE  /\ SigTypeOK' /\ sent'[me] \subseteq sig_pending'[me]
         /\ \A t \in ThreadIds \ {me} :
              sig_pending'[t] = sig_pending[t] /\ sent'[t] = sent[t]
<1>1. /\ sig_pending \in [ThreadIds -> SUBSET SignalNumbers]
      /\ sent \in [ThreadIds -> SUBSET SignalNumbers]
      /\ sig_mask \in [ThreadIds -> SUBSET SignalNumbers]
      /\ sig_wait_mask \in [ThreadIds -> SUBSET SignalNumbers]
      /\ sig_waiters \subseteq ThreadIds
      /\ sent[me] \subseteq sig_pending[me]
  BY DEF SigInv, SigTypeOK, SignalsKept, NoSignalLost
<1>2. /\ sig_pending' = [sig_pending EXCEPT ![me] = @ \ {s}]
      /\ sent' = [sent EXCEPT ![me] = @ \ {s}]
  BY DEF TakeSignal
<1>3. QED BY <1>1, <1>2 DEF SigTypeOK

LEMMA SignalMoves ==
  ASSUME KernelInv, SigInv, SignalOp
  PROVE  KernelInv' /\ SigInv' /\ \A c \in Calls \ {"app", "signal_wait"} : Elsewhere(c)
<1>1. /\ sig_pending \in [ThreadIds -> SUBSET SignalNumbers]
      /\ sent \in [ThreadIds -> SUBSET SignalNumbers]
      /\ sig_mask \in [ThreadIds -> SUBSET SignalNumbers]
      /\ sig_wait_mask \in [ThreadIds -> SUBSET SignalNumbers]
      /\ sig_waiters \subseteq ThreadIds
      /\ \A t \in ThreadIds : sent[t] \subseteq sig_pending[t]
  BY DEF SigInv, SigTypeOK, SignalsKept, NoSignalLost
<1>2. /\ UNCHANGED app
      /\ Self \in ThreadIds /\ ~sched.is_ipc_wait[Self] /\ "signal_wait" \in Calls \ {"app"}
  BY SelfFacts DEF SignalOp, Calls
<1>3. PICK me \in ThreadIds : me = Self
  BY <1>2
<1>4. ASSUME UNCHANGED <<sched, pc, app>>
      PROVE  KernelInv' /\ \A c \in Calls \ {"app", "signal_wait"} : Elsewhere(c)
  <2>1. \A t \in ThreadIds : Untouched(t)
    BY <1>4 DEF Untouched
  <2>2. QED BY <1>4, <2>1 DEF KernelInv, Untimed, Granted, Elsewhere
<1>5. CASE SetMask
  <2>1. PICK m \in SUBSET SignalNumbers : sig_mask' = [sig_mask EXCEPT ![me] = m]
    BY <1>3, <1>5 DEF SetMask
  <2>2. /\ UNCHANGED <<sched, pc, sig_pending, sig_waiters, sig_wait_mask, sent>>
        /\ pc[me] = "app"
    BY <1>3, <1>5 DEF SetMask, InApp
  <2>3. /\ SigTypeOK'
        /\ \A t \in ThreadIds \ {me} : sig_mask'[t] = sig_mask[t]
    BY <1>1, <2>1, <2>2 DEF SigTypeOK
  <2>4. SigInv'
    BY <1>1, <1>2, <2>2, <2>3, OwnWordsKept
  <2>5. QED BY <1>2, <1>4, <2>2, <2>4
<1>6. CASE SignalAtOnce \/ CheckSignals
  <2>1. PICK s : TakeSignal(s)
    BY <1>6 DEF SignalAtOnce, CheckSignals
  <2>2. /\ UNCHANGED <<sched, pc, sig_mask, sig_waiters, sig_wait_mask>>
        /\ pc[me] = "app"
    BY <1>3, <1>6 DEF SignalAtOnce, CheckSignals, InApp
  <2>3. /\ SigTypeOK' /\ sent'[me] \subseteq sig_pending'[me]
        /\ \A t \in ThreadIds \ {me} :
             sig_pending'[t] = sig_pending[t] /\ sent'[t] = sent[t]
    BY <1>3, <2>1, <2>2, TakeSignalKeeps
  <2>4. SigInv'
    BY <1>2, <2>2, <2>3, OwnWordsKept
  <2>5. QED BY <1>2, <1>4, <2>2, <2>4
<1>7. CASE SendSignal
  BY <1>2, <1>7, SendKept
<1>8. CASE SignalBlock
  <2>1. /\ KernelInv'
        /\ pc[me] = "app" /\ pc'[me] = "signal_wait" /\ sched'.is_ipc_wait[me]
        /\ \A t \in ThreadIds \ {me} : Untouched(t)
    BY <1>2, <1>3, <1>8, BlockMoves DEF SignalBlock
  <2>2. PICK wait \in WaitMasks :
          /\ Deliverable(me, wait) = {}
          /\ sig_wait_mask' = [sig_wait_mask EXCEPT ![me] = wait]
    BY <1>3, <1>8 DEF SignalBlock
  <2>3. /\ sig_waiters' = sig_waiters \cup {me}
        /\ UNCHANGED <<sig_pending, sig_mask, sent>>
    BY <1>3, <1>8 DEF SignalBlock
  <2>4. wait \in SUBSET SignalNumbers
    BY SignalAssumption
  <2>5. /\ SigTypeOK' /\ sig_wait_mask'[me] = wait
        /\ \A t \in ThreadIds \ {me} : sig_wait_mask'[t] = sig_wait_mask[t]
    BY <1>1, <2>2, <2>3, <2>4 DEF SigTypeOK
  <2>6. Deliverable(me, sig_wait_mask[me])' = {}
    BY <2>2, <2>3, <2>5 DEF Deliverable
  <2>7. WaitsIn("signal_wait", me)' /\ ~GrantedIn("signal_wait", me)'
    BY <2>1 DEF WaitsIn, GrantedIn
  <2>8. \A c \in Calls \ {"app", "signal_wait"} : Elsewhere(c)
    BY <2>1 DEF Elsewhere
  <2>9. SigInv'
    BY <1>1, <1>2, <2>1, <2>3, <2>5, <2>6, <2>7, SigOne
  <2>10. QED BY <2>1, <2>8, <2>9
<1>9. CASE SignalReturn
  <2>1. /\ KernelInv'
        /\ pc[me] = "signal_wait" /\ pc'[me] = "app" /\ ~sched.is_ipc_wait[me]
        /\ \A t \in ThreadIds \ {me} : Untouched(t)
    BY <1>2, <1>3, <1>9, ReturnMoves DEF SignalReturn
  <2>2. UNCHANGED <<sched, sig_mask, sig_wait_mask>>
    BY <1>9 DEF SignalReturn
  <2>3. sig_waiters' = IF Granted(me) THEN sig_waiters ELSE sig_waiters \ {me}
    BY <1>3, <1>9 DEF SignalReturn
  <2>4. (\E s : TakeSignal(s)) \/ UNCHANGED <<sig_pending, sent>>
    BY <1>9 DEF SignalReturn
  <2>5. /\ sig_pending' \in [ThreadIds -> SUBSET SignalNumbers]
        /\ sent' \in [ThreadIds -> SUBSET SignalNumbers]
        /\ sent'[me] \subseteq sig_pending'[me]
        /\ \A t \in ThreadIds \ {me} :
             sig_pending'[t] = sig_pending[t] /\ sent'[t] = sent[t]
    BY <1>1, <1>3, <2>4 DEF TakeSignal
  <2>6. SigTypeOK'
    BY <1>1, <2>2, <2>3, <2>5 DEF SigTypeOK
  <2>7. ~WaitsIn("signal_wait", me)' /\ ~GrantedIn("signal_wait", me)'
    BY <2>1 DEF WaitsIn, GrantedIn
  <2>8. \A c \in Calls \ {"app", "signal_wait"} : Elsewhere(c)
    BY <2>1 DEF Elsewhere
  <2>9. me \in sig_waiters' => app.reuses
    <3>1. Granted(me) => (me \in sig_waiters => app.reuses)
      BY <2>1 DEF SigInv, WaitsIn, ExpiredIn
    <3>2. QED BY <2>3, <3>1
  <2>10. SigInv'
    BY <1>2, <2>1, <2>2, <2>3, <2>5, <2>6, <2>7, <2>9, SigOne
  <2>11. QED BY <2>1, <2>8, <2>10
<1>10. QED BY <1>5, <1>6, <1>7, <1>8, <1>9 DEF SignalOp, SigStep

-----------------------------------------------------------------------------
(* The event flags.                                                        *)

\* check_waiters is what its rounds make of it, one by one.
LEMMA PassRounds ==
  ASSUME NEW f
  PROVE  \E g : /\ g[0] = [flags |-> f, waiters |-> event_waiters, sched |-> sched]
                /\ \A n \in 1 .. MAX_THREADS : g[n] = CheckWaiter(g[n - 1], n - 1)
                /\ CheckWaiters(f) = g[MAX_THREADS]
<1>1. DEFINE start == [flags |-> f, waiters |-> event_waiters, sched |-> sched]
             Rounds(g, k) == g = [n \in 0 .. k |->
                                    IF n = 0 THEN start ELSE CheckWaiter(g[n - 1], n - 1)]
             after[n \in 0 .. MAX_THREADS] ==
               IF n = 0 THEN start ELSE CheckWaiter(after[n - 1], n - 1)
             missing == {k \in Nat : ~\E g : Rounds(g, k)}
<1>2. MAX_THREADS \in Nat
  BY SchedulerAssumption
<1>3. missing = {}
  <2>1. SUFFICES ASSUME missing # {} PROVE FALSE
    OBVIOUS
  <2>2. PICK k \in Nat : k \in missing /\ \A i \in missing : k <= i
    <3>1. missing \in SUBSET Nat
      OBVIOUS
    <3>2. QED BY <2>1, <3>1, MinOfNats
  <2>3. CASE k = 0
    <3>1. Rounds([n \in 0 .. 0 |-> start], 0)
      OBVIOUS
    <3>2. QED BY <2>2, <2>3, <3>1
  <2>4. CASE k # 0
    <3>1. k - 1 \in Nat /\ k - 1 < k
      BY <2>4
    <3>2. PICK g : Rounds(g, k - 1)
      BY <2>2, <3>1
    <3>3. DEFINE h == [n \in 0 .. k |-> IF n < k THEN g[n] ELSE CheckWaiter(g[k - 1], k - 1)]
    <3>4. \A n \in 0 .. k : h[n] = IF n = 0 THEN start ELSE CheckWaiter(h[n - 1], n - 1)
      <4>1. TAKE n \in 0 .. k
      <4>2. CASE n = 0
        BY <2>4, <3>2, <4>2
      <4>3. CASE n # 0 /\ n < k
        <5>1. n \in 0 .. k - 1 /\ n - 1 \in 0 .. k /\ n - 1 < k
          BY <4>3
        <5>2. h[n] = g[n] /\ h[n - 1] = g[n - 1]
          BY <4>3, <5>1
        <5>3. g[n] = CheckWaiter(g[n - 1], n - 1)
          BY <3>2, <4>3, <5>1
        <5>4. QED BY <4>3, <5>2, <5>3
      <4>4. CASE n = k
        <5>1. h[k - 1] = g[k - 1]
          BY <3>1
        <5>2. h[k] = CheckWaiter(g[k - 1], k - 1)
          OBVIOUS
        <5>3. QED BY <2>4, <4>4, <5>1, <5>2
      <4>5. QED BY <4>2, <4>3, <4>4
    <3>5. Rounds(h, k)
      <4>1. h = [n \in 0 .. k |-> h[n]]
        OBVIOUS
      <4>2. HIDE DEF h
      <4>3. QED BY <3>4, <4>1
    <3>6. QED BY <2>2, <3>5
  <2>5. QED BY <2>3, <2>4
<1>4. \E g : Rounds(g, MAX_THREADS)
  BY <1>2, <1>3
<1>5. Rounds(after, MAX_THREADS)
  <2>1. after = CHOOSE g : Rounds(g, MAX_THREADS)
    OBVIOUS
  <2>2. QED BY <1>4, <2>1
<1>6. CheckWaiters(f) = after[MAX_THREADS]
  BY DEF CheckWaiters
<1>7. HIDE DEF after
<1>8. QED BY <1>2, <1>5, <1>6

\* A thread woken by set() had its condition met then: by flags that are still there
\* and flags that have gone out since.
WokenForCause ==
  \A t \in ThreadIds : GrantedIn("wait", t) => Met(flags \cup gone[t], wait_params[t])

EventInv == EventTypeOK /\ EventsKept /\ WokenForCause

\* Fewer flags satisfy no more waits.
LEMMA MetShrinks ==
  ASSUME NEW w \in Waits \cup {NoWait}, NEW f, NEW g, f \subseteq g, Met(f, w)
  PROVE  Met(g, w)
<1>1. w.mode \in {"Or", "And", "None"}
  BY EventAssumption DEF Waiter, NoWait
<1>2. CASE w.mode = "Or"
  BY <1>2 DEF Met
<1>3. CASE w.mode = "And"
  BY <1>3 DEF Met
<1>4. CASE w.mode = "None"
  BY <1>4 DEF Met
<1>5. QED BY <1>1, <1>2, <1>3, <1>4

\* Flags a wait does not ask for are no matter of it.
LEMMA MetByOwn ==
  ASSUME NEW w \in Waits \cup {NoWait}, NEW f, NEW g, Met(f \cup g, w)
  PROVE  Met((f \cap w.flags) \cup g, w)
<1>1. w.mode \in {"Or", "And", "None"}
  BY EventAssumption DEF Waiter, NoWait
<1>2. CASE w.mode = "Or"
  BY <1>2 DEF Met
<1>3. CASE w.mode = "And"
  BY <1>3 DEF Met
<1>4. CASE w.mode = "None"
  BY <1>4 DEF Met
<1>5. QED BY <1>1, <1>2, <1>3, <1>4

\* What goes out of f in a step that takes bits out is remembered by every wait that
\* lasts beyond it.
LEMMA GoneGrows ==
  ASSUME EventTypeOK, NEW f \in SUBSET Bits, TakesOut(f), flags' \subseteq Bits
  PROVE  /\ gone' \in [ThreadIds -> SUBSET Bits]
         /\ \A t \in ThreadIds : pc'[t] = "wait" =>
              /\ f \subseteq flags' \cup gone'[t]
              /\ gone[t] \subseteq gone'[t]
<1>1. gone \in [ThreadIds -> SUBSET Bits]
  BY DEF EventTypeOK
<1>2. gone' = [t \in ThreadIds |->
                 IF pc'[t] = "wait" THEN gone[t] \cup (f \ flags') ELSE {}]
  BY DEF TakesOut
<1>3. \A t \in ThreadIds : gone'[t] =
        IF pc'[t] = "wait" THEN gone[t] \cup (f \ flags') ELSE {}
  BY <1>2
<1>4. QED BY <1>1, <1>2, <1>3

\* A thread that was woken for a cause before a step that takes bits out still is.
LEMMA CauseStays ==
  ASSUME EventInv, NEW f \in SUBSET Bits, flags \subseteq f, TakesOut(f), flags' \subseteq Bits,
         NEW t \in ThreadIds, GrantedIn("wait", t), pc'[t] = "wait",
         wait_params'[t] = wait_params[t]
  PROVE  Met(flags' \cup gone'[t], wait_params'[t])
<1>1. Met(flags \cup gone[t], wait_params[t]) /\ wait_params[t] \in Waits \cup {NoWait}
  BY DEF EventInv, WokenForCause, EventTypeOK
<1>2. flags \cup gone[t] \subseteq flags' \cup gone'[t]
  BY GoneGrows DEF EventInv
<1>3. QED BY <1>1, <1>2, MetShrinks

LEMMA NoWaitIsNoWait ==
  ASSUME NEW w \in Waits
  PROVE  w # NoWait
<1>1. w.mode \in {"Or", "And"} /\ NoWait.mode = "None"
  BY EventAssumption DEF Waiter, NoWait
<1>2. QED BY <1>1

\* A pass over the waiters below n, begun with the flags f, has made e of it:
\* it woke those whose condition held, and whoever is left of them has none
\* that does.
Passed(e, n, f) ==
  /\ e.flags \subseteq f /\ e.waiters \subseteq event_waiters
  /\ \A t \in event_waiters : t >= n => t \in e.waiters
  /\ \A t \in e.waiters : t < n => ~Met(e.flags, wait_params[t])
  /\ \A b \in f \ e.flags :
       \E t \in event_waiters \ e.waiters :
         wait_params[t].clear_on_exit /\ b \in wait_params[t].flags
  /\ \A t \in event_waiters \ e.waiters : Met(f, wait_params[t])
  /\ Steady(e.sched) /\ WaitsSound(e.sched)
  /\ \A t \in ThreadIds :
       /\ e.sched.state[t] = "BlockedTimeout" => sched.state[t] = "BlockedTimeout"
       /\ e.sched.state[t] = "Dead" <=> sched.state[t] = "Dead"
  /\ \A t \in event_waiters \ e.waiters :
       sched.is_ipc_wait[t] => ~e.sched.is_ipc_wait[t] /\ e.sched.ipc_error[t] = "OK"
  /\ \A t \in ThreadIds :
       t \notin event_waiters \ e.waiters \/ ~sched.is_ipc_wait[t] =>
         /\ e.sched.is_ipc_wait[t] = sched.is_ipc_wait[t]
         /\ e.sched.ipc_error[t] = sched.ipc_error[t]

LEMMA RoundPasses ==
  ASSUME EventInv, NEW f, NEW e, NEW n \in ThreadIds, Passed(e, n, f)
  PROVE  Passed(CheckWaiter(e, n), n + 1, f)
<1>1. /\ event_waiters \subseteq ThreadIds
      /\ wait_params \in [ThreadIds -> Waits \cup {NoWait}]
      /\ n \in Nat /\ event_waiters \subseteq Nat
  BY IdsAreNats DEF EventInv, EventTypeOK
<1>2. \A t \in Nat : t < n + 1 <=> t < n \/ t = n
  BY <1>1
<1>3. \A t \in Nat : t >= n + 1 => t >= n /\ t # n
  BY <1>1
<1>4. e.waiters \subseteq event_waiters
  BY DEF Passed
<1>5. CASE n \in event_waiters /\ Met(e.flags, wait_params[n])
  <2>1. DEFINE w == wait_params[n]
               r == [flags |-> Consume(e.flags, w), waiters |-> e.waiters \ {n},
                     sched |-> UnblockThread(e.sched, n)]
  <2>2. /\ r.flags = Consume(e.flags, w) /\ r.waiters = e.waiters \ {n}
        /\ r.sched = UnblockThread(e.sched, n)
        /\ CheckWaiter(e, n) = r
    BY <1>5 DEF CheckWaiter
  <2>3. HIDE DEF r
  <2>4. n \in e.waiters
    BY <1>1, <1>5 DEF Passed
  <2>5. /\ r.flags \subseteq e.flags
        /\ \A b \in e.flags \ r.flags : w.clear_on_exit /\ b \in w.flags
    BY <2>2 DEF Consume
  <2>6. event_waiters \ r.waiters = (event_waiters \ e.waiters) \cup {n}
    BY <1>5, <2>2, <2>4
  <2>7. /\ Steady(r.sched)
        /\ e.sched.is_ipc_wait[n] => ~r.sched.is_ipc_wait[n] /\ r.sched.ipc_error[n] = "OK"
        /\ \A t \in ThreadIds :
             t # n \/ ~e.sched.is_ipc_wait[n] =>
               /\ r.sched.is_ipc_wait[t] = e.sched.is_ipc_wait[t]
               /\ r.sched.ipc_error[t] = e.sched.ipc_error[t]
        /\ \A t \in ThreadIds :
             r.sched.state[t] = "BlockedTimeout" => e.sched.state[t] = "BlockedTimeout"
        /\ \A t \in ThreadIds : r.sched.state[t] = "Dead" <=> e.sched.state[t] = "Dead"
    BY <2>2, UnblockSteady DEF Passed
  <2>8. WaitsSound(r.sched)
    <3>1. e.sched \in Scheduler /\ WaitsSound(e.sched)
      BY SteadyCurrent DEF Passed
    <3>2. QED BY <2>2, <3>1, UnblockKeeps DEF KeepsWaits
  <2>9. /\ e.sched.is_ipc_wait[n] = sched.is_ipc_wait[n]
        /\ e.sched.ipc_error[n] = sched.ipc_error[n]
    BY <2>4 DEF Passed
  <2>10. /\ r.flags \subseteq f /\ r.waiters \subseteq event_waiters
         /\ \A t \in event_waiters : t >= n + 1 => t \in r.waiters
    BY <1>1, <1>3, <2>2, <2>5 DEF Passed
  <2>11. \A t \in r.waiters : t < n + 1 => ~Met(r.flags, wait_params[t])
    <3>1. TAKE t \in r.waiters
    <3>2. t \in e.waiters /\ t # n /\ t \in Nat /\ wait_params[t] \in Waits \cup {NoWait}
      BY <1>1, <1>4, <2>2
    <3>3. t < n + 1 => ~Met(e.flags, wait_params[t])
      BY <1>2, <3>2 DEF Passed
    <3>4. QED BY <2>5, <3>2, <3>3, MetShrinks
  <2>12. \A b \in f \ r.flags :
           \E t \in event_waiters \ r.waiters :
             wait_params[t].clear_on_exit /\ b \in wait_params[t].flags
    BY <2>5, <2>6 DEF Passed
  <2>13. \A t \in ThreadIds :
           /\ r.sched.state[t] = "BlockedTimeout" => sched.state[t] = "BlockedTimeout"
           /\ r.sched.state[t] = "Dead" <=> sched.state[t] = "Dead"
    BY <2>7 DEF Passed
  <2>14. \A t \in event_waiters \ r.waiters :
           sched.is_ipc_wait[t] => ~r.sched.is_ipc_wait[t] /\ r.sched.ipc_error[t] = "OK"
    <3>1. TAKE t \in event_waiters \ r.waiters
    <3>2. CASE t = n
      BY <2>7, <2>9, <3>2
    <3>3. CASE t # n
      <4>1. t \in event_waiters \ e.waiters /\ t \in ThreadIds
        BY <1>1, <2>6, <3>3
      <4>2. QED BY <2>7, <3>3, <4>1 DEF Passed
    <3>4. QED BY <3>2, <3>3
  <2>15. \A t \in ThreadIds :
           t \notin event_waiters \ r.waiters \/ ~sched.is_ipc_wait[t] =>
             /\ r.sched.is_ipc_wait[t] = sched.is_ipc_wait[t]
             /\ r.sched.ipc_error[t] = sched.ipc_error[t]
    <3>1. TAKE t \in ThreadIds
    <3>2. CASE t = n
      BY <1>5, <2>6, <2>7, <2>9, <3>2
    <3>3. CASE t # n
      BY <2>6, <2>7, <3>3 DEF Passed
    <3>4. QED BY <3>2, <3>3
  <2>16. \A t \in event_waiters \ r.waiters : Met(f, wait_params[t])
    <3>1. Met(f, wait_params[n])
      BY <1>1, <1>5, MetShrinks DEF Passed
    <3>2. QED BY <2>6, <3>1 DEF Passed
  <2>17. Passed(r, n + 1, f)
    BY <2>7, <2>8, <2>10, <2>11, <2>12, <2>13, <2>14, <2>15, <2>16 DEF Passed
  <2>18. QED BY <2>2, <2>17
<1>6. CASE ~(n \in event_waiters /\ Met(e.flags, wait_params[n]))
  <2>1. CheckWaiter(e, n) = e
    BY <1>6 DEF CheckWaiter
  <2>2. \A t \in event_waiters : t >= n + 1 => t \in e.waiters
    BY <1>1, <1>3 DEF Passed
  <2>3. \A t \in e.waiters : t < n + 1 => ~Met(e.flags, wait_params[t])
    BY <1>1, <1>2, <1>4, <1>6 DEF Passed
  <2>4. Passed(e, n + 1, f)
    BY <2>2, <2>3 DEF Passed
  <2>5. QED BY <2>1, <2>4
<1>7. QED BY <1>5, <1>6

LEMMA PassPasses ==
  ASSUME KernelInv, EventInv, NEW f
  PROVE  Passed(CheckWaiters(f), MAX_THREADS, f)
<1>1. PICK g : /\ g[0] = [flags |-> f, waiters |-> event_waiters, sched |-> sched]
               /\ \A n \in 1 .. MAX_THREADS : g[n] = CheckWaiter(g[n - 1], n - 1)
               /\ CheckWaiters(f) = g[MAX_THREADS]
  BY PassRounds
<1>2. MAX_THREADS \in Nat /\ ThreadIds = 0 .. MAX_THREADS - 1
  BY SchedulerAssumption DEF ThreadIds
<1>3. DEFINE bad == {n \in 0 .. MAX_THREADS : ~Passed(g[n], n, f)}
<1>4. SUFFICES ASSUME bad # {} PROVE FALSE
  BY <1>1, <1>2
<1>5. PICK n \in bad : \A i \in bad : n <= i
  <2>1. bad \in SUBSET Nat
    OBVIOUS
  <2>2. QED BY <1>4, <2>1, MinOfNats
<1>6. n \in 0 .. MAX_THREADS /\ ~Passed(g[n], n, f)
  BY <1>5
<1>7. CASE n = 0
  <2>1. event_waiters \subseteq ThreadIds
    BY DEF EventInv, EventTypeOK
  <2>2. \A t \in event_waiters : ~(t < 0)
    BY <1>2, <2>1
  <2>3. /\ g[0].flags = f /\ g[0].waiters = event_waiters /\ g[0].sched = sched
    BY <1>1
  <2>4. Passed(g[0], 0, f)
    BY <2>2, <2>3 DEF Passed, KernelInv
  <2>5. QED BY <1>6, <1>7, <2>4
<1>8. CASE n # 0
  <2>1. /\ n - 1 \in ThreadIds /\ n - 1 \in 0 .. MAX_THREADS /\ n - 1 < n
        /\ n \in 1 .. MAX_THREADS /\ (n - 1) + 1 = n
    BY <1>2, <1>6, <1>8
  <2>2. Passed(g[n - 1], n - 1, f)
    BY <1>5, <1>6, <2>1
  <2>3. Passed(CheckWaiter(g[n - 1], n - 1), n, f)
    BY <2>1, <2>2, RoundPasses
  <2>4. QED BY <1>1, <1>6, <2>1, <2>3
<1>9. QED BY <1>7, <1>8

LEMMA EventElsewhere ==
  ASSUME EventInv, Elsewhere("wait"), UNCHANGED eventVars, UNCHANGED app
  PROVE  EventInv'
<1>1. \A t \in ThreadIds :
         /\ WaitsIn("wait", t)' => WaitsIn("wait", t)
         /\ WaitsIn("wait", t) => WaitsIn("wait", t)' \/ ExpiredIn("wait", t)'
         /\ ExpiredIn("wait", t) => ExpiredIn("wait", t)'
         /\ GrantedIn("wait", t)' => GrantedIn("wait", t)
         /\ pc'[t] = "wait" <=> pc[t] = "wait"
  BY ElsewhereWaits
<1>2. UNCHANGED <<flags, event_waiters, wait_params, told, gone, unseen>>
  BY DEF eventVars
<1>3. NoneLeftWaiting' /\ RegisteredExactly' /\ WokenForCause'
  BY <1>1, <1>2 DEF EventInv, EventsKept, NoneLeftWaiting, RegisteredExactly, WokenForCause
<1>4. OkHasCause'
  BY <1>2 DEF EventInv, EventsKept, OkHasCause, Met
<1>5. QED BY <1>2, <1>3, <1>4 DEF EventInv, EventTypeOK, EventsKept, NoEventLostUntimed,
                                  NoEventLost, Untimed

Tellings == [wait : Waits \cup {NoWait}, word : SUBSET Bits, gone : SUBSET Bits]

LEMMA NothingTold == NotTold \in Tellings /\ NotTold.wait = NoWait
BY DEF NotTold, Tellings

\* What a granted wait on w takes away is what it returns.
LEMMA Tells ==
  ASSUME EventTypeOK, NEW w \in Waits \cup {NoWait}, Tell(w),
         Self \in ThreadIds, Met(flags \cup gone[Self], w)
  PROVE  /\ told' \in Tellings /\ OkHasCause'
         /\ \E out : /\ flags' \subseteq flags /\ flags \ out \subseteq flags'
                     /\ unseen' = unseen \ out
<1>1. /\ told' = [wait |-> w, word |-> flags \cap w.flags, gone |-> gone[Self]]
      /\ unseen' = unseen \ told'.word
      /\ flags' = IF w.clear_on_exit THEN flags \ w.flags ELSE flags
  BY DEF Tell, Consume
<1>2. /\ flags \cap w.flags \in SUBSET Bits /\ gone[Self] \in SUBSET Bits
      /\ told'.word = flags \cap w.flags /\ told'.gone = gone[Self] /\ told'.wait = w
  BY <1>1 DEF EventTypeOK
<1>3. flags' \subseteq flags /\ flags \ told'.word \subseteq flags'
  BY <1>1, <1>2
<1>4. Met((flags \cap w.flags) \cup gone[Self], w)
  BY MetByOwn
<1>5. OkHasCause'
  BY <1>2, <1>4 DEF OkHasCause, Met
<1>6. QED BY <1>1, <1>2, <1>3, <1>5 DEF Tellings

LEMMA SetFlagsKept ==
  ASSUME KernelInv, EventInv, SetFlags, UNCHANGED app
  PROVE  KernelInv' /\ EventInv' /\ \A c \in Calls \ {"app", "wait"} : Elsewhere(c)
<1>1. PICK f \in SUBSET Bits :
        LET e == CheckWaiters(flags \cup f)
        IN  /\ flags' = e.flags /\ event_waiters' = e.waiters /\ sched' = e.sched
            /\ unseen' = (unseen \cup f) \ ConsumedFor(Woken(e))
            /\ UNCHANGED pc /\ TakesOut(flags \cup f)
  BY DEF SetFlags
<1>2. DEFINE e == CheckWaiters(flags \cup f)
<1>3. Passed(e, MAX_THREADS, flags \cup f)
  BY PassPasses
<1>4. /\ flags' = e.flags /\ event_waiters' = e.waiters /\ sched' = e.sched
      /\ unseen' = (unseen \cup f) \ ConsumedFor(Woken(e))
  BY <1>1
<1>5. HIDE DEF e
<1>6. UNCHANGED <<pc, wait_params>> /\ told' = NotTold /\ TakesOut(flags \cup f)
  BY <1>1 DEF SetFlags
<1>7. /\ event_waiters \subseteq ThreadIds
      /\ flags \subseteq Bits /\ unseen \subseteq Bits
      /\ wait_params \in [ThreadIds -> Waits \cup {NoWait}]
  BY DEF EventInv, EventTypeOK
<1>8. /\ flags' \subseteq flags \cup f /\ event_waiters' \subseteq event_waiters
      /\ \A t \in event_waiters' : ~Met(flags', wait_params[t])
      /\ \A b \in (flags \cup f) \ flags' :
           \E t \in event_waiters \ event_waiters' :
             wait_params[t].clear_on_exit /\ b \in wait_params[t].flags
      /\ \A t \in event_waiters \ event_waiters' : Met(flags \cup f, wait_params[t])
      /\ Steady(sched') /\ WaitsSound(sched')
      /\ \A t \in ThreadIds :
           /\ sched'.state[t] = "BlockedTimeout" => sched.state[t] = "BlockedTimeout"
           /\ sched'.state[t] = "Dead" <=> sched.state[t] = "Dead"
      /\ \A t \in event_waiters \ event_waiters' :
           sched.is_ipc_wait[t] => ~sched'.is_ipc_wait[t] /\ sched'.ipc_error[t] = "OK"
      /\ \A t \in ThreadIds :
           t \notin event_waiters \ event_waiters' \/ ~sched.is_ipc_wait[t] =>
             /\ sched'.is_ipc_wait[t] = sched.is_ipc_wait[t]
             /\ sched'.ipc_error[t] = sched.ipc_error[t]
  <2>1. \A t \in event_waiters : t < MAX_THREADS
    BY <1>7, SchedulerAssumption DEF ThreadIds
  <2>2. QED BY <1>3, <1>4, <2>1 DEF Passed
<1>9. \A t \in event_waiters : WaitsIn("wait", t) \/ ExpiredIn("wait", t)
  BY <1>7 DEF EventInv, EventsKept, RegisteredExactly
<1>10. \A t \in ThreadIds :
         t \notin event_waiters \ event_waiters' \/ ~sched.is_ipc_wait[t] => Untouched(t)
  BY <1>6, <1>8 DEF Untouched
<1>11. \A c \in Calls \ {"app", "wait"} : Elsewhere(c)
  BY <1>6, <1>7, <1>9, <1>10 DEF Elsewhere, WaitsIn, ExpiredIn
<1>12. KernelInv'
  <2>1. \A t \in ThreadIds :
          /\ sched'.is_ipc_wait[t] => pc'[t] # "app"
          /\ sched'.state[t] = "Dead" => pc'[t] = "app"
          /\ app.reuses => pc'[t] \in {"app", "signal_wait"}
    BY <1>6, <1>8 DEF KernelInv
  <2>2. Untimed' => \A t \in ThreadIds :
          /\ sched'.state[t] # "BlockedTimeout"
          /\ pc'[t] # "app" => sched'.is_ipc_wait[t] \/ Granted(t)'
    BY <1>6, <1>8 DEF KernelInv, Untimed, Granted
  <2>3. QED BY <1>6, <1>8, <2>1, <2>2 DEF KernelInv
<1>13. \A t \in ThreadIds : WaitsIn("wait", t)' => WaitsIn("wait", t) /\ t \in event_waiters'
  <2>1. SUFFICES ASSUME NEW t \in ThreadIds, WaitsIn("wait", t)'
                 PROVE  WaitsIn("wait", t) /\ t \in event_waiters'
    OBVIOUS
  <2>2. WaitsIn("wait", t)
    BY <1>6, <1>8, <2>1 DEF WaitsIn
  <2>3. t \in event_waiters
    BY <2>2 DEF EventInv, EventsKept, RegisteredExactly
  <2>4. QED BY <1>8, <2>1, <2>2, <2>3 DEF WaitsIn
<1>14. NoneLeftWaiting'
  BY <1>6, <1>8, <1>13 DEF NoneLeftWaiting
<1>15. RegisteredExactly'
  <2>1. \A t \in event_waiters' : WaitsIn("wait", t)' \/ ExpiredIn("wait", t)'
    BY <1>7, <1>8, <1>9, <1>10, UntouchedWaits
  <2>2. QED BY <1>6, <1>13, <2>1 DEF EventInv, EventsKept, RegisteredExactly
<1>16. NoEventLostUntimed'
  <2>1. SUFFICES ASSUME Untimed, NEW b \in unseen', b \notin flags' PROVE FALSE
    BY DEF NoEventLostUntimed, NoEventLost, Untimed
  <2>2. b \in flags \cup f
    BY <1>4, <2>1 DEF EventInv, EventsKept, NoEventLostUntimed, NoEventLost
  <2>3. PICK t \in event_waiters \ event_waiters' :
          wait_params[t].clear_on_exit /\ b \in wait_params[t].flags
    BY <1>8, <2>1, <2>2
  <2>4. sched.is_ipc_wait[t]
    BY <1>7, <1>9, <2>1, <2>3 DEF WaitsIn, ExpiredIn, KernelInv
  <2>5. t \in Woken(e)
    BY <1>4, <2>3, <2>4 DEF Woken
  <2>6. b \in ConsumedFor(Woken(e))
    BY <2>3, <2>5 DEF ConsumedFor
  <2>7. QED BY <1>4, <2>1, <2>6
<1>17. EventTypeOK'
  <2>1. flags' \subseteq Bits /\ unseen' \subseteq Bits
    BY <1>4, <1>7, <1>8
  <2>2. gone' \in [ThreadIds -> SUBSET Bits]
    BY <1>6, <1>7, <2>1, GoneGrows DEF EventInv
  <2>3. QED BY <1>6, <1>7, <1>8, <2>1, <2>2, NothingTold DEF EventTypeOK, Tellings
<1>18. WokenForCause'
  <2>1. SUFFICES ASSUME NEW t \in ThreadIds, GrantedIn("wait", t)'
                 PROVE  Met(flags' \cup gone'[t], wait_params'[t])
    BY DEF WokenForCause, Met
  <2>2. /\ pc'[t] = "wait" /\ wait_params'[t] = wait_params[t]
        /\ wait_params[t] \in Waits \cup {NoWait} /\ flags \cup f \in SUBSET Bits
        /\ flags' \subseteq Bits
    BY <1>6, <1>7, <1>8, <2>1 DEF GrantedIn
  <2>3. CASE t \in event_waiters \ event_waiters'
    <3>1. Met(flags \cup f, wait_params[t])
      BY <1>8, <2>3
    <3>2. flags \cup f \subseteq flags' \cup gone'[t]
      BY <1>6, <2>2, GoneGrows DEF EventInv
    <3>3. QED BY <2>2, <3>1, <3>2, MetShrinks
  <2>4. CASE t \notin event_waiters \ event_waiters'
    <3>1. GrantedIn("wait", t)
      BY <1>10, <2>1, <2>4, UntouchedWaits
    <3>2. QED BY <1>6, <2>2, <3>1, CauseStays
  <2>5. QED BY <2>3, <2>4
<1>19. OkHasCause'
  BY <1>6, NothingTold DEF OkHasCause
<1>20. QED BY <1>11, <1>12, <1>14, <1>15, <1>16, <1>17, <1>18, <1>19 DEF EventInv, EventsKept

LEMMA EventMoves ==
  ASSUME ReusesOnlySignals, KernelInv, EventInv, EventOp
  PROVE  KernelInv' /\ EventInv' /\ \A c \in Calls \ {"app", "wait"} : Elsewhere(c)
<1>1. /\ event_waiters \subseteq ThreadIds
      /\ flags \subseteq Bits /\ unseen \subseteq Bits
      /\ wait_params \in [ThreadIds -> Waits \cup {NoWait}]
  BY DEF EventInv, EventTypeOK
<1>2. /\ UNCHANGED app /\ ~app.reuses
      /\ Self \in ThreadIds /\ ~sched.is_ipc_wait[Self] /\ "wait" \in Calls \ {"app"}
  BY SelfFacts DEF EventOp, Uses, ReusesOnlySignals, KernelInv, Calls
<1>3. PICK me \in ThreadIds : me = Self
  BY <1>2
<1>4. CASE SetFlags
  BY <1>2, <1>4, SetFlagsKept
<1>5. CASE ClearFlags \/ WaitAtOnce
  <2>1. UNCHANGED <<sched, pc, event_waiters, wait_params>>
    BY <1>5 DEF ClearFlags, WaitAtOnce
  <2>2. PICK out :
          /\ flags' \subseteq flags /\ flags \ out \subseteq flags'
          /\ unseen' = unseen \ out
          /\ told' \in Tellings /\ OkHasCause'
    <3>1. CASE ClearFlags
      <4>1. PICK f \in SUBSET Bits : flags' = flags \ f /\ unseen' = unseen \ f
        BY <3>1 DEF ClearFlags
      <4>2. told' = NotTold
        BY <3>1 DEF ClearFlags
      <4>3. OkHasCause'
        BY <4>2, NothingTold DEF OkHasCause
      <4>4. QED BY <4>1, <4>2, <4>3, NothingTold
    <3>2. CASE WaitAtOnce
      <4>1. PICK w \in Waits : Met(flags, w) /\ Tell(w)
        BY <3>2 DEF WaitAtOnce
      <4>2. Met(flags \cup gone[Self], w)
        BY <4>1, MetShrinks
      <4>3. QED BY <1>2, <4>1, <4>2, Tells DEF EventInv
    <3>3. QED BY <1>5, <3>1, <3>2
  <2>3. \A t \in ThreadIds : Untouched(t)
    BY <2>1 DEF Untouched
  <2>4. KernelInv'
    BY <1>2, <2>1 DEF KernelInv, Untimed, Granted
  <2>5. \A t \in ThreadIds : /\ WaitsIn("wait", t)' <=> WaitsIn("wait", t)
                             /\ ExpiredIn("wait", t)' <=> ExpiredIn("wait", t)
                             /\ GrantedIn("wait", t)' <=> GrantedIn("wait", t)
    BY <2>3, UntouchedWaits
  <2>6. NoneLeftWaiting'
    BY <1>1, <2>1, <2>2, <2>5, MetShrinks DEF EventInv, EventsKept, NoneLeftWaiting
  <2>7. RegisteredExactly'
    BY <2>1, <2>5 DEF EventInv, EventsKept, RegisteredExactly
  <2>8. NoEventLostUntimed'
    BY <1>2, <2>2 DEF EventInv, EventsKept, NoEventLostUntimed, NoEventLost, Untimed
  <2>9. TakesOut(flags) /\ flags \in SUBSET Bits /\ flags' \subseteq Bits
    BY <1>1, <1>5, <2>2 DEF ClearFlags, WaitAtOnce
  <2>10. EventTypeOK'
    <3>1. gone' \in [ThreadIds -> SUBSET Bits]
      BY <2>9, GoneGrows DEF EventInv
    <3>2. QED BY <1>1, <2>1, <2>2, <2>9, <3>1 DEF EventTypeOK, Tellings
  <2>11. WokenForCause'
    <3>1. SUFFICES ASSUME NEW t \in ThreadIds, GrantedIn("wait", t)'
                   PROVE  Met(flags' \cup gone'[t], wait_params'[t])
      BY DEF WokenForCause, Met
    <3>2. /\ GrantedIn("wait", t) /\ pc'[t] = "wait" /\ wait_params'[t] = wait_params[t]
      BY <2>1, <2>5, <3>1 DEF GrantedIn
    <3>3. QED BY <2>9, <3>2, CauseStays
  <2>12. QED BY <2>2, <2>3, <2>4, <2>6, <2>7, <2>8, <2>10, <2>11 DEF EventInv, EventsKept, Elsewhere
<1>6. CASE WaitBlock
  <2>1. /\ KernelInv'
        /\ pc[me] = "app" /\ pc'[me] = "wait" /\ sched'.is_ipc_wait[me]
        /\ \A t \in ThreadIds \ {me} : Untouched(t)
    BY <1>2, <1>3, <1>6, BlockMoves DEF WaitBlock
  <2>2. PICK w \in Waits : /\ ~Met(flags, w)
                           /\ wait_params' = [wait_params EXCEPT ![me] = w]
    BY <1>3, <1>6 DEF WaitBlock
  <2>3. event_waiters' = event_waiters \cup {me} /\ UNCHANGED <<flags, gone, unseen>> /\ told' = NotTold
    BY <1>3, <1>6 DEF WaitBlock
  <2>4. w # NoWait
    BY NoWaitIsNoWait
  <2>5. /\ wait_params' \in [ThreadIds -> Waits \cup {NoWait}] /\ wait_params'[me] = w
        /\ \A t \in ThreadIds \ {me} : wait_params'[t] = wait_params[t]
    BY <1>1, <2>2
  <2>6. \A t \in ThreadIds \ {me} : /\ WaitsIn("wait", t)' <=> WaitsIn("wait", t)
                                    /\ ExpiredIn("wait", t)' <=> ExpiredIn("wait", t)
                                    /\ GrantedIn("wait", t)' <=> GrantedIn("wait", t)
                                    /\ pc'[t] = pc[t]
    BY <2>1, UntouchedWaits
  <2>7. WaitsIn("wait", me)'
    BY <2>1 DEF WaitsIn
  <2>8. \A c \in Calls \ {"app", "wait"} : Elsewhere(c)
    BY <2>1 DEF Elsewhere
  <2>9. NoneLeftWaiting'
    BY <2>2, <2>3, <2>5, <2>6 DEF EventInv, EventsKept, NoneLeftWaiting
  <2>10. RegisteredExactly'
    BY <2>1, <2>3, <2>4, <2>5, <2>6, <2>7 DEF EventInv, EventsKept, RegisteredExactly
  <2>11. NoEventLostUntimed' /\ EventTypeOK'
    BY <1>1, <1>2, <2>3, <2>5, NothingTold
    DEF EventInv, EventsKept, NoEventLostUntimed, NoEventLost, Untimed, EventTypeOK, Tellings
  <2>12. WokenForCause'
    <3>1. ~GrantedIn("wait", me)'
      BY <2>1 DEF GrantedIn
    <3>2. SUFFICES ASSUME NEW t \in ThreadIds \ {me}, GrantedIn("wait", t)
                   PROVE  Met(flags' \cup gone'[t], wait_params'[t])
      BY <2>6, <3>1 DEF WokenForCause, Met
    <3>3. Met(flags \cup gone[t], wait_params[t])
      BY <3>2 DEF EventInv, WokenForCause
    <3>4. QED BY <2>3, <2>5, <3>3
  <2>13. OkHasCause'
    BY <2>3, NothingTold DEF OkHasCause
  <2>14. QED BY <2>1, <2>8, <2>9, <2>10, <2>11, <2>12, <2>13 DEF EventInv, EventsKept
<1>7. CASE WaitReturn
  <2>1. /\ KernelInv'
        /\ pc[me] = "wait" /\ pc'[me] = "app" /\ ~sched.is_ipc_wait[me]
        /\ \A t \in ThreadIds \ {me} : Untouched(t)
    BY <1>2, <1>3, <1>7, ReturnMoves DEF WaitReturn
  <2>2. /\ wait_params' = [wait_params EXCEPT ![me] = NoWait]
        /\ event_waiters' = IF Granted(me) THEN event_waiters ELSE event_waiters \ {me}
    BY <1>3, <1>7 DEF WaitReturn
  <2>3. PICK out :
          /\ flags' \subseteq flags /\ flags \ out \subseteq flags'
          /\ unseen' = unseen \ out
          /\ told' \in Tellings /\ OkHasCause'
    <3>1. CASE Granted(Self)
      <4>1. Tell(wait_params[Self]) /\ wait_params[Self] \in Waits \cup {NoWait}
        BY <1>1, <1>2, <1>7, <3>1 DEF WaitReturn
      <4>2. GrantedIn("wait", Self)
        BY <1>3, <2>1, <3>1 DEF GrantedIn
      <4>3. Met(flags \cup gone[Self], wait_params[Self])
        BY <1>2, <4>2 DEF EventInv, WokenForCause
      <4>4. QED BY <1>2, <4>1, <4>3, Tells DEF EventInv
    <3>2. CASE ~Granted(Self)
      <4>1. flags' = flags /\ unseen' = unseen \ {} /\ told' = NotTold
        BY <1>7, <3>2 DEF WaitReturn
      <4>2. OkHasCause'
        BY <4>1, NothingTold DEF OkHasCause
      <4>3. QED BY <4>1, <4>2, NothingTold
    <3>3. QED BY <3>1, <3>2
  <2>4. /\ wait_params' \in [ThreadIds -> Waits \cup {NoWait}] /\ wait_params'[me] = NoWait
        /\ \A t \in ThreadIds \ {me} : wait_params'[t] = wait_params[t]
    BY <1>1, <2>2
  <2>5. \A t \in ThreadIds \ {me} : /\ WaitsIn("wait", t)' <=> WaitsIn("wait", t)
                                    /\ ExpiredIn("wait", t)' <=> ExpiredIn("wait", t)
                                    /\ GrantedIn("wait", t)' <=> GrantedIn("wait", t)
                                    /\ pc'[t] = pc[t]
    BY <2>1, UntouchedWaits
  <2>6. ~WaitsIn("wait", me)'
    BY <2>1 DEF WaitsIn
  <2>7. me \notin event_waiters'
    <3>1. Granted(me) => me \notin event_waiters
      BY <2>1 DEF EventInv, EventsKept, RegisteredExactly, WaitsIn, ExpiredIn
    <3>2. QED BY <2>2, <3>1
  <2>8. \A c \in Calls \ {"app", "wait"} : Elsewhere(c)
    BY <2>1 DEF Elsewhere
  <2>9. NoneLeftWaiting'
    <3>1. SUFFICES ASSUME NEW t \in ThreadIds \ {me}, WaitsIn("wait", t)
                   PROVE  ~Met(flags', wait_params[t])
      BY <2>4, <2>5, <2>6 DEF NoneLeftWaiting
    <3>2. ~Met(flags, wait_params[t])
      BY <3>1 DEF EventInv, EventsKept, NoneLeftWaiting
    <3>3. QED BY <1>1, <2>3, <3>2, MetShrinks
  <2>10. \A t \in ThreadIds \ {me} : t \in event_waiters' <=> t \in event_waiters
    BY <2>2
  <2>11. RegisteredExactly'
    BY <2>1, <2>4, <2>5, <2>6, <2>7, <2>10 DEF EventInv, EventsKept, RegisteredExactly
  <2>12. NoEventLostUntimed'
    BY <1>2, <2>3 DEF EventInv, EventsKept, NoEventLostUntimed, NoEventLost, Untimed
  <2>13. TakesOut(flags) /\ flags \in SUBSET Bits /\ flags' \subseteq Bits
    BY <1>1, <1>7, <2>3 DEF WaitReturn
  <2>14. EventTypeOK'
    <3>1. gone' \in [ThreadIds -> SUBSET Bits]
      BY <2>13, GoneGrows DEF EventInv
    <3>2. QED BY <1>1, <2>2, <2>3, <2>4, <2>13, <3>1 DEF EventTypeOK, Tellings
  <2>15. WokenForCause'
    <3>1. SUFFICES ASSUME NEW t \in ThreadIds, GrantedIn("wait", t)'
                   PROVE  Met(flags' \cup gone'[t], wait_params'[t])
      BY DEF WokenForCause, Met
    <3>2. t # me
      BY <2>1, <3>1 DEF GrantedIn
    <3>3. GrantedIn("wait", t) /\ pc'[t] = "wait" /\ wait_params'[t] = wait_params[t]
      BY <2>4, <2>5, <3>1, <3>2 DEF GrantedIn
    <3>4. QED BY <2>13, <3>3, CauseStays
  <2>16. QED BY <2>1, <2>3, <2>8, <2>9, <2>11, <2>12, <2>14, <2>15 DEF EventInv, EventsKept
<1>8. QED BY <1>4, <1>5, <1>6, <1>7 DEF EventOp, EventStep

-----------------------------------------------------------------------------
(* The message queue.                                                      *)

\* For any number of senders and receivers.
QueueShape ==
  /\ QueueTypeOK
  /\ \A t \in ThreadIds :
       /\ WaitsIn("recv", t) => t \in recv_waiters
       /\ WaitsIn("send", t) => t \in send_waiters
       /\ pc[t] = "recv" => t \in Receivers
       /\ pc[t] = "send" => t \in Senders /\ msg[t] \in Messages
  /\ \A t \in recv_waiters : WaitsIn("recv", t) \/ ExpiredIn("recv", t)
  /\ \A t \in send_waiters : WaitsIn("send", t) \/ ExpiredIn("send", t)

\* With one sender and one receiver: nobody waits next to what it waits for,
\* and whoever was woken still finds it there.
OneEach == (\E a \in Senders : Senders = {a}) /\ (\E b \in Receivers : Receivers = {b})

QueueFlow ==
  /\ count \in 0 .. Capacity
  /\ tail = (head + count) % Capacity
  /\ \A t \in ThreadIds :
       /\ WaitsIn("recv", t) => count = 0
       /\ GrantedIn("recv", t) => count > 0
       /\ WaitsIn("send", t) => count = Capacity
       /\ GrantedIn("send", t) => count < Capacity

\* k places after cell h of a ring of n.
After(n, h, k) == (h + k) % n

LEMMA AfterIs ==
  ASSUME NEW n \in Nat \ {0}, NEW h \in 0 .. n - 1, NEW k \in 0 .. n
  PROVE  /\ After(n, h, k) = IF h + k < n THEN h + k ELSE h + k - n
         /\ After(n, h, k) \in 0 .. n - 1
  BY DEF After

\* Two sequences are equal when their elements are.
LEMMA IsAppend ==
  ASSUME NEW S, NEW s \in Seq(S), NEW m \in S, NEW u \in Seq(S),
         Len(u) = Len(s) + 1, \A i \in 1 .. Len(s) : u[i] = s[i],
         u[Len(s) + 1] = m
  PROVE  u = Append(s, m)
  OBVIOUS

LEMMA IsTail ==
  ASSUME NEW S, NEW s \in Seq(S), s # <<>>, NEW u \in Seq(S),
         Len(u) = Len(s) - 1, \A i \in 1 .. Len(s) - 1 : u[i] = s[i + 1]
  PROVE  u = Tail(s)
  OBVIOUS

\* What a cell may hold.
Cells == Messages \cup {NoMessage}

\* What a ring of n cells f holds, as a sequence.
Held(n, h, k, f) == [i \in 1 .. k |-> f[(h + i - 1) % n]]

LEMMA HeldIs ==
  ASSUME NEW n \in Nat \ {0}, NEW h \in 0 .. n - 1, NEW k \in 0 .. n,
         NEW f \in [0 .. n - 1 -> Cells]
  PROVE  /\ Held(n, h, k, f) \in Seq(Cells) /\ Len(Held(n, h, k, f)) = k
         /\ \A i \in 1 .. k : Held(n, h, k, f)[i] = f[After(n, h, i - 1)]
<1>1. ASSUME NEW i \in 1 .. k
      PROVE  /\ (h + i - 1) % n = After(n, h, i - 1)
             /\ f[After(n, h, i - 1)] \in Cells
  <2>1. i - 1 \in 0 .. n /\ h + i - 1 = h + (i - 1)
    OBVIOUS
  <2>2. After(n, h, i - 1) \in 0 .. n - 1
    BY <2>1, AfterIs
  <2>3. (h + i - 1) % n = After(n, h, i - 1)
    BY <2>1 DEF After
  <2>4. QED BY <2>2, <2>3
<1> DEFINE e(i) == f[After(n, h, i - 1)]
<1>2. Held(n, h, k, f) = [i \in 1 .. k |-> e(i)]
  BY <1>1 DEF Held
<1>3. \A i \in 1 .. k : e(i) \in Cells
  BY <1>1
<1>4. \A i \in 1 .. k : Held(n, h, k, f)[i] = f[After(n, h, i - 1)]
  BY <1>2
<1> HIDE DEF e
<1>5. Held(n, h, k, f) \in Seq(Cells) /\ Len(Held(n, h, k, f)) = k
  BY <1>2, <1>3
<1>6. QED BY <1>4, <1>5

\* The cells between head and tail are not the one at the tail ...
LEMMA FreeCell ==
  ASSUME NEW n \in Nat \ {0}, NEW h \in 0 .. n - 1, NEW k \in 0 .. n - 1
  PROVE  /\ \A i \in 1 .. k : After(n, h, i - 1) # After(n, h, k)
         /\ After(n, After(n, h, k), 1) = After(n, h, k + 1)
<1>1. k \in 0 .. n /\ k + 1 \in 0 .. n /\ 1 \in 0 .. n
  OBVIOUS
<1>2. /\ After(n, h, k) = IF h + k < n THEN h + k ELSE h + k - n
      /\ After(n, h, k) \in 0 .. n - 1
  BY <1>1, AfterIs
<1>3. ASSUME NEW i \in 1 .. k PROVE After(n, h, i - 1) # After(n, h, k)
  <2>1. i - 1 \in 0 .. n
    OBVIOUS
  <2>2. After(n, h, i - 1) = IF h + (i - 1) < n THEN h + (i - 1) ELSE h + (i - 1) - n
    BY <2>1, AfterIs
  <2>3. QED BY <1>2, <2>2
<1>4. After(n, h, k + 1) = IF h + (k + 1) < n THEN h + (k + 1) ELSE h + (k + 1) - n
  BY <1>1, AfterIs
<1>5. After(n, After(n, h, k), 1) =
        IF After(n, h, k) + 1 < n THEN After(n, h, k) + 1 ELSE After(n, h, k) + 1 - n
  BY <1>1, <1>2, AfterIs
<1>6. After(n, After(n, h, k), 1) = After(n, h, k + 1)
  BY <1>2, <1>4, <1>5
<1>7. QED BY <1>3, <1>6

\* ... and after a step of the head each moves one place forward.
LEMMA NextCell ==
  ASSUME NEW n \in Nat \ {0}, NEW h \in 0 .. n - 1, NEW i \in 0 .. n - 1
  PROVE  After(n, After(n, h, 1), i) = After(n, h, i + 1)
<1>1. i \in 0 .. n /\ i + 1 \in 0 .. n /\ 1 \in 0 .. n
  OBVIOUS
<1>2. /\ After(n, h, 1) = IF h + 1 < n THEN h + 1 ELSE h + 1 - n
      /\ After(n, h, 1) \in 0 .. n - 1
  BY <1>1, AfterIs
<1>3. After(n, h, i + 1) = IF h + (i + 1) < n THEN h + (i + 1) ELSE h + (i + 1) - n
  BY <1>1, AfterIs
<1>4. After(n, After(n, h, 1), i) =
        IF After(n, h, 1) + i < n THEN After(n, h, 1) + i ELSE After(n, h, 1) + i - n
  BY <1>1, <1>2, AfterIs
<1>5. QED BY <1>2, <1>3, <1>4

\* The ring holds what was put in, in order.
LEMMA ContentsPut ==
  ASSUME QueueTypeOK, NEW m \in Messages, Enqueue(m),
         count < Capacity, tail = (head + count) % Capacity
  PROVE  /\ count' = count + 1 /\ tail' = (head' + count') % Capacity
         /\ tail' \in SlotIds
         /\ Fifo!Put(m)
<1>1. /\ Capacity \in Nat \ {0} /\ UsizeModulus \in Nat /\ UsizeModulus > Capacity
      /\ head \in 0 .. Capacity - 1 /\ tail \in 0 .. Capacity - 1
      /\ count \in 0 .. Capacity - 1 /\ slots \in [0 .. Capacity - 1 -> Cells]
  BY QueueAssumption DEF QueueTypeOK, SlotIds, Cells
<1>2. /\ slots' = [slots EXCEPT ![tail] = m] /\ tail' = (tail + 1) % Capacity
      /\ count' = (count + 1) % UsizeModulus /\ head' = head /\ delivered' = delivered
  BY DEF Enqueue
<1>3. count' = count + 1
  <2>1. count + 1 < UsizeModulus
    BY <1>1
  <2>2. QED BY <1>1, <1>2, <2>1
<1>4. /\ tail = After(Capacity, head, count) /\ tail' = After(Capacity, tail, 1)
      /\ count \in 0 .. Capacity /\ count + 1 \in 0 .. Capacity /\ 1 \in 0 .. Capacity
  BY <1>1, <1>2 DEF After
<1>14. /\ \A i \in 1 .. count : After(Capacity, head, i - 1) # tail
       /\ tail' = After(Capacity, head, count + 1)
  BY <1>1, <1>4, FreeCell
<1>5. tail' = (head' + count') % Capacity
  BY <1>2, <1>3, <1>14 DEF After
<1>6. tail' \in SlotIds
  BY <1>1, <1>4, AfterIs DEF SlotIds
<1>7. slots' \in [0 .. Capacity - 1 -> Cells]
  BY <1>1, <1>2 DEF Cells
<1>8. /\ Contents \in Seq(Cells) /\ Len(Contents) = count
      /\ \A i \in 1 .. count : Contents[i] = slots[After(Capacity, head, i - 1)]
  <2>1. count \in 0 .. Capacity /\ Contents = Held(Capacity, head, count, slots)
    BY <1>1 DEF Contents, Held
  <2>2. Capacity \in Nat \ {0} /\ head \in 0 .. Capacity - 1
        /\ slots \in [0 .. Capacity - 1 -> Cells]
    BY <1>1
  <2>3. /\ Held(Capacity, head, count, slots) \in Seq(Cells)
        /\ Len(Held(Capacity, head, count, slots)) = count
        /\ \A i \in 1 .. count : Held(Capacity, head, count, slots)[i]
                                   = slots[After(Capacity, head, i - 1)]
    BY <2>1, <2>2, HeldIs
  <2>4. QED BY <2>1, <2>3
<1>9. /\ Contents' \in Seq(Cells) /\ Len(Contents') = count + 1
      /\ \A i \in 1 .. count + 1 : Contents'[i] = slots'[After(Capacity, head, i - 1)]
  <2>1. count + 1 \in 0 .. Capacity
    BY <1>1
  <2>2. Contents' = Held(Capacity, head, count + 1, slots')
    BY <1>2, <1>3 DEF Contents, Held
  <2>3. /\ Held(Capacity, head, count + 1, slots') \in Seq(Cells)
        /\ Len(Held(Capacity, head, count + 1, slots')) = count + 1
        /\ \A i \in 1 .. count + 1 : Held(Capacity, head, count + 1, slots')[i]
                                       = slots'[After(Capacity, head, i - 1)]
    <3>1. Capacity \in Nat \ {0} /\ head \in 0 .. Capacity - 1
      BY <1>1
    <3>2. QED BY ONLY <1>7, <2>1, <3>1, HeldIs, ZenonT(60)
  <2>4. QED BY <2>2, <2>3
<1>10. \A i \in 1 .. count : Contents'[i] = Contents[i]
  <2>1. TAKE i \in 1 .. count
  <2>2. /\ i \in 1 .. count + 1 /\ i - 1 \in 0 .. Capacity
    BY <1>1
  <2>3. After(Capacity, head, i - 1) \in 0 .. Capacity - 1
    BY <1>1, <2>2, AfterIs
  <2>4. slots'[After(Capacity, head, i - 1)] = slots[After(Capacity, head, i - 1)]
    BY <1>1, <1>2, <1>14, <2>3
  <2>5. QED BY <1>8, <1>9, <2>2, <2>4
<1>11. Contents'[count + 1] = m
  <2>1. count + 1 \in 1 .. count + 1 /\ (count + 1) - 1 = count
    BY <1>1
  <2>2. Contents'[count + 1] = slots'[tail]
    BY <1>4, <1>9, <2>1
  <2>3. QED BY <1>1, <1>2, <2>2
<1>12. Contents' = Append(Contents, m)
  <2>1. m \in Cells
    BY DEF Cells
  <2>2. QED BY <1>8, <1>9, <1>10, <1>11, <2>1, IsAppend
<1>13. Len(Contents) < Capacity
  BY <1>8
<1>15. QED BY <1>2, <1>3, <1>5, <1>6, <1>12, <1>13 DEF Fifo!Put

LEMMA ContentsGet ==
  ASSUME QueueTypeOK, Dequeue,
         count > 0, count <= Capacity, tail = (head + count) % Capacity
  PROVE  /\ count' = count - 1 /\ tail' = (head' + count') % Capacity
         /\ head' \in SlotIds /\ delivered' \in Messages \cup {NoMessage}
         /\ Fifo!Get
<1>1. /\ Capacity \in Nat \ {0} /\ UsizeModulus \in Nat /\ UsizeModulus > Capacity
      /\ head \in 0 .. Capacity - 1 /\ tail \in 0 .. Capacity - 1
      /\ count \in 1 .. Capacity /\ slots \in [0 .. Capacity - 1 -> Cells]
  BY QueueAssumption DEF QueueTypeOK, SlotIds, Cells
<1>2. /\ delivered' = slots[head] /\ head' = (head + 1) % Capacity
      /\ count' = (count - 1) % UsizeModulus /\ slots' = slots /\ tail' = tail
  BY DEF Dequeue
<1>3. count' = count - 1
  <2>1. count - 1 \in Nat /\ count - 1 < UsizeModulus
    BY <1>1
  <2>2. QED BY <1>1, <1>2, <2>1
<1>4. head' = After(Capacity, head, 1) /\ head' \in 0 .. Capacity - 1
  <2>1. 1 \in 0 .. Capacity /\ head' = After(Capacity, head, 1)
    BY <1>1, <1>2 DEF After
  <2>2. QED BY <1>1, <2>1, AfterIs
<1>5. \A i \in 0 .. Capacity - 1 : After(Capacity, head', i) = After(Capacity, head, i + 1)
  BY <1>1, <1>4, NextCell
<1>6. tail' = (head' + count') % Capacity
  <2>1. count - 1 \in 0 .. Capacity - 1 /\ (count - 1) + 1 = count
    BY <1>1
  <2>2. After(Capacity, head', count - 1) = After(Capacity, head, count)
    BY <1>5, <2>1
  <2>3. QED BY <1>2, <1>3, <2>2 DEF After
<1>7. /\ Contents \in Seq(Cells) /\ Len(Contents) = count
      /\ \A i \in 1 .. count : Contents[i] = slots[After(Capacity, head, i - 1)]
  <2>1. count \in 0 .. Capacity /\ Contents = Held(Capacity, head, count, slots)
    BY <1>1 DEF Contents, Held
  <2>2. Capacity \in Nat \ {0} /\ head \in 0 .. Capacity - 1
        /\ slots \in [0 .. Capacity - 1 -> Cells]
    BY <1>1
  <2>3. /\ Held(Capacity, head, count, slots) \in Seq(Cells)
        /\ Len(Held(Capacity, head, count, slots)) = count
        /\ \A i \in 1 .. count : Held(Capacity, head, count, slots)[i]
                                   = slots[After(Capacity, head, i - 1)]
    BY <2>1, <2>2, HeldIs
  <2>4. QED BY <2>1, <2>3
<1>8. /\ Contents' \in Seq(Cells) /\ Len(Contents') = count - 1
      /\ \A i \in 1 .. count - 1 : Contents'[i] = slots[After(Capacity, head', i - 1)]
  <2>1. count - 1 \in 0 .. Capacity
    BY <1>1
  <2>2. Contents' = Held(Capacity, head', count - 1, slots)
    BY <1>2, <1>3 DEF Contents, Held
  <2>3. Capacity \in Nat \ {0} /\ head' \in 0 .. Capacity - 1
        /\ slots \in [0 .. Capacity - 1 -> Cells]
    BY <1>1, <1>4
  <2>4. /\ Held(Capacity, head', count - 1, slots) \in Seq(Cells)
        /\ Len(Held(Capacity, head', count - 1, slots)) = count - 1
        /\ \A i \in 1 .. count - 1 : Held(Capacity, head', count - 1, slots)[i]
                                       = slots[After(Capacity, head', i - 1)]
    BY <2>1, <2>3, HeldIs, ZenonT(60)
  <2>5. QED BY <2>2, <2>4, Zenon
<1>9. \A i \in 1 .. count - 1 : Contents'[i] = Contents[i + 1]
  <2>1. TAKE i \in 1 .. count - 1
  <2>2. i - 1 \in 0 .. Capacity - 1 /\ i + 1 \in 1 .. count /\ (i + 1) - 1 = (i - 1) + 1
    BY <1>1
  <2>3. After(Capacity, head', i - 1) = After(Capacity, head, (i + 1) - 1)
    BY <1>5, <2>2
  <2>4. QED BY <1>7, <1>8, <2>2, <2>3
<1>10. Contents # <<>>
  <2>1. Len(Contents) # 0
    BY <1>1, <1>7
  <2>2. QED BY <2>1
<1>11. Contents' = Tail(Contents)
  <2>1. QED BY <1>7, <1>8, <1>9, <1>10, IsTail
<1>12. delivered' = Head(Contents)
  <2>1. 1 \in 1 .. count /\ 1 - 1 = 0 /\ 0 \in 0 .. Capacity
    BY <1>1
  <2>4. After(Capacity, head, 0) = head
    BY <1>1, <2>1, AfterIs
  <2>2. Contents[1] = slots[head]
    BY <1>7, <2>1, <2>4
  <2>3. Head(Contents) = Contents[1]
    BY <1>7
  <2>5. QED BY <1>2, <2>2, <2>3
<1>13. delivered' \in Messages \cup {NoMessage}
  BY <1>1, <1>2 DEF Cells
<1>14. QED BY <1>3, <1>4, <1>6, <1>10, <1>11, <1>12, <1>13 DEF Fifo!Get, SlotIds

LEMMA ModRange ==
  ASSUME NEW n \in Nat \ {0}, NEW x \in Int
  PROVE  x % n \in 0 .. n - 1
  OBVIOUS

\* wake_recv_waiter and wake_send_waiter over the waiters W: the one that is
\* struck off has its wait ended, if it still waits.
LEMMA WakeMoves ==
  ASSUME KernelInv, NEW W \in SUBSET ThreadIds, sched' = WakeWaiter(W),
         UNCHANGED app, UNCHANGED pc \/ ReturnSelf
  PROVE  /\ KernelInv'
         /\ Unlisted(W) \subseteq W
         /\ \A t : W \subseteq {t} => Unlisted(W) = {}
         /\ \A t \in ThreadIds :
              \/ /\ t \in W \ Unlisted(W)
                 /\ sched.is_ipc_wait[t] /\ ~sched'.is_ipc_wait[t] /\ Granted(t)'
              \/ /\ sched.is_ipc_wait[t] => t \notin W \ Unlisted(W)
                 /\ sched'.is_ipc_wait[t] = sched.is_ipc_wait[t]
                 /\ sched'.ipc_error[t] = sched.ipc_error[t]
<1>1. CASE W = {}
  <2>1. sched' = sched /\ Unlisted(W) = {}
    BY <1>1 DEF WakeWaiter, Unlisted
  <2>2. /\ pc' \in [ThreadIds -> Calls]
        /\ \A t \in ThreadIds : pc'[t] = pc[t] \/ (t = Self /\ pc'[t] = "app")
    BY SelfFacts DEF ReturnSelf, Calls
  <2>3. KernelInv'
    BY <2>1, <2>2, SelfFacts DEF KernelInv, Untimed, Granted
  <2>4. QED BY <1>1, <2>1, <2>3
<1>2. CASE W # {}
  <2>1. PICK w \in ThreadIds : /\ w \in W /\ Unlisted(W) = W \ {w}
                               /\ sched' = UnblockThread(sched, w)
    <3>1. W \in SUBSET Nat
      BY IdsAreNats
    <3>2. Min(W) \in W
      BY <1>2, <3>1, MinOfNats
    <3>3. QED BY <1>2, <3>2 DEF WakeWaiter, Unlisted
  <2>2. /\ KernelInv'
        /\ sched.is_ipc_wait[w] => ~sched'.is_ipc_wait[w] /\ Granted(w)'
        /\ \A t \in ThreadIds :
             t # w \/ ~sched.is_ipc_wait[t] =>
               /\ sched'.is_ipc_wait[t] = sched.is_ipc_wait[t]
               /\ sched'.ipc_error[t] = sched.ipc_error[t]
    BY <2>1, UnblockMoves
  <2>3. QED BY <2>1, <2>2
<1>3. QED BY <1>1, <1>2

\* A message goes in, at once or in the second half of send.
LEMMA EnqueueKept ==
  ASSUME KernelInv, QueueShape, UNCHANGED <<app, send_waiters>>,
         NEW me \in ThreadIds, me = Self, me \in Senders,
         NEW m \in Messages, EnqueueAndWake(m),
         pc[me] = "app" \/ GrantedIn("send", me),
         pc' = [pc EXCEPT ![me] = "app"],
         msg' \in [ThreadIds -> Messages \cup {NoMessage}],
         \A t \in ThreadIds \ {me} : msg'[t] = msg[t]
  PROVE  /\ KernelInv' /\ QueueShape'
         /\ \A c \in Calls \ {"app", "send", "recv"} : Elsewhere(c)
         /\ OneEach /\ QueueFlow /\ count < Capacity => QueueFlow' /\ Fifo!Put(m)
<1>1. recv_waiters \in SUBSET ThreadIds /\ sched' = WakeWaiter(recv_waiters)
      /\ recv_waiters' = Unlisted(recv_waiters) /\ Enqueue(m)
  BY QueueAssumption DEF QueueShape, QueueTypeOK, EnqueueAndWake
<1>2. ReturnSelf
  BY DEF ReturnSelf
<1>3. /\ KernelInv'
      /\ recv_waiters' \subseteq recv_waiters
      /\ \A t : recv_waiters \subseteq {t} => recv_waiters' = {}
      /\ \A t \in ThreadIds :
           \/ /\ t \in recv_waiters \ recv_waiters'
              /\ sched.is_ipc_wait[t] /\ ~sched'.is_ipc_wait[t] /\ Granted(t)'
           \/ /\ sched.is_ipc_wait[t] => t \notin recv_waiters \ recv_waiters'
              /\ sched'.is_ipc_wait[t] = sched.is_ipc_wait[t]
              /\ sched'.ipc_error[t] = sched.ipc_error[t]
  BY <1>1, <1>2, WakeMoves
<1>4. /\ pc[me] \in {"app", "send"} /\ pc'[me] = "app"
      /\ \A t \in ThreadIds \ {me} : pc'[t] = pc[t]
      /\ me \notin recv_waiters /\ me \notin send_waiters
  BY SelfFacts DEF GrantedIn, QueueShape, WaitsIn, ExpiredIn
<1>5. \A t \in ThreadIds : t \in recv_waiters => pc[t] = "recv" /\ t # me
  BY <1>4 DEF QueueShape, WaitsIn, ExpiredIn
<1>6. \A t \in ThreadIds \ {me} : Untouched(t) \/ (pc[t] = "recv" /\ pc'[t] = "recv")
  BY <1>3, <1>4, <1>5 DEF Untouched
<1>7. \A c \in Calls \ {"app", "send", "recv"} : Elsewhere(c)
  BY <1>4, <1>6 DEF Elsewhere
<1>8. QueueTypeOK'
  <2>1. /\ Capacity \in Nat \ {0} /\ UsizeModulus \in Nat \ {0}
        /\ tail \in Int /\ count \in Int
    BY QueueAssumption DEF QueueShape, QueueTypeOK, SlotIds
  <2>2. tail' \in SlotIds /\ count' \in 0 .. UsizeModulus - 1
    BY <1>1, <2>1, ModRange DEF Enqueue, SlotIds
  <2>3. slots' \in [SlotIds -> Messages \cup {NoMessage}]
    BY <1>1 DEF Enqueue, QueueShape, QueueTypeOK
  <2>4. QED BY <1>1, <1>3, <2>2, <2>3 DEF Enqueue, QueueShape, QueueTypeOK
<1>9. \A t \in ThreadIds :
        /\ WaitsIn("recv", t)' => t \in recv_waiters'
        /\ WaitsIn("send", t)' => t \in send_waiters'
        /\ pc'[t] = "recv" => t \in Receivers
        /\ pc'[t] = "send" => t \in Senders /\ msg'[t] \in Messages
  <2>1. TAKE t \in ThreadIds
  <2>2. CASE t = me
    BY <1>4, <2>2 DEF WaitsIn
  <2>3. CASE t # me
    BY <1>3, <1>4, <2>3 DEF WaitsIn, QueueShape
  <2>4. QED BY <2>2, <2>3
<1>10. \A t \in ThreadIds : t \in recv_waiters' =>
         WaitsIn("recv", t)' \/ ExpiredIn("recv", t)'
  BY <1>3, <1>4, <1>5 DEF QueueShape, WaitsIn, ExpiredIn, Granted
<1>11. \A t \in ThreadIds : t \in send_waiters' =>
         WaitsIn("send", t)' \/ ExpiredIn("send", t)'
  BY <1>3, <1>4, <1>5 DEF QueueShape, WaitsIn, ExpiredIn, Granted
<1>12. QueueShape'
  <2>1. recv_waiters' \subseteq ThreadIds /\ send_waiters' \subseteq ThreadIds
    BY <1>8, QueueAssumption DEF QueueTypeOK
  <2>2. QED BY <1>8, <1>9, <1>10, <1>11, <2>1 DEF QueueShape
<1>13. ASSUME OneEach, QueueFlow, count < Capacity PROVE QueueFlow' /\ Fifo!Put(m)
  <2>1. /\ count' = count + 1 /\ tail' = (head' + count') % Capacity /\ Fifo!Put(m)
    BY <1>1, <1>13, ContentsPut DEF QueueShape, QueueFlow
  <2>2. Senders = {me} /\ \E b : Receivers = {b}
    BY <1>13 DEF OneEach
  <2>3. recv_waiters' = {}
    <3>1. recv_waiters \subseteq Receivers
      BY DEF QueueShape, QueueTypeOK
    <3>2. QED BY <1>3, <2>2, <3>1
  <2>4. \A t \in ThreadIds : ~WaitsIn("recv", t)'
    BY <1>9, <2>3
  <2>5. \A t \in ThreadIds : pc'[t] # "send"
    BY <1>4, <1>9, <2>2
  <2>6. count' \in 0 .. Capacity /\ count' > 0
    BY <1>13, <2>1, QueueAssumption DEF QueueFlow
  <2>7. QED BY <2>1, <2>4, <2>5, <2>6 DEF QueueFlow, WaitsIn, GrantedIn
<1>14. QED BY <1>3, <1>7, <1>12, <1>13

\* A message goes out, at once or in the second half of recv.
LEMMA DequeueKept ==
  ASSUME KernelInv, QueueShape, UNCHANGED <<app, recv_waiters, msg>>,
         NEW me \in ThreadIds, me = Self, me \in Receivers, DequeueAndWake,
         pc[me] = "app" \/ GrantedIn("recv", me),
         pc' = [pc EXCEPT ![me] = "app"]
  PROVE  /\ KernelInv' /\ QueueShape'
         /\ \A c \in Calls \ {"app", "send", "recv"} : Elsewhere(c)
         /\ OneEach /\ QueueFlow /\ count > 0 => QueueFlow' /\ Fifo!Get
<1>1. send_waiters \in SUBSET ThreadIds /\ sched' = WakeWaiter(send_waiters)
      /\ send_waiters' = Unlisted(send_waiters) /\ Dequeue
  BY QueueAssumption DEF QueueShape, QueueTypeOK, DequeueAndWake
<1>2. ReturnSelf
  BY DEF ReturnSelf
<1>3. /\ KernelInv'
      /\ send_waiters' \subseteq send_waiters
      /\ \A t : send_waiters \subseteq {t} => send_waiters' = {}
      /\ \A t \in ThreadIds :
           \/ /\ t \in send_waiters \ send_waiters'
              /\ sched.is_ipc_wait[t] /\ ~sched'.is_ipc_wait[t] /\ Granted(t)'
           \/ /\ sched.is_ipc_wait[t] => t \notin send_waiters \ send_waiters'
              /\ sched'.is_ipc_wait[t] = sched.is_ipc_wait[t]
              /\ sched'.ipc_error[t] = sched.ipc_error[t]
  BY <1>1, <1>2, WakeMoves
<1>4. /\ pc[me] \in {"app", "recv"} /\ pc'[me] = "app"
      /\ \A t \in ThreadIds \ {me} : pc'[t] = pc[t]
      /\ me \notin recv_waiters /\ me \notin send_waiters
  BY SelfFacts DEF GrantedIn, QueueShape, WaitsIn, ExpiredIn
<1>5. \A t \in ThreadIds : t \in send_waiters => pc[t] = "send" /\ t # me
  BY <1>4 DEF QueueShape, WaitsIn, ExpiredIn
<1>6. \A t \in ThreadIds \ {me} : Untouched(t) \/ (pc[t] = "send" /\ pc'[t] = "send")
  BY <1>3, <1>4, <1>5 DEF Untouched
<1>7. \A c \in Calls \ {"app", "send", "recv"} : Elsewhere(c)
  BY <1>4, <1>6 DEF Elsewhere
<1>8. QueueTypeOK'
  <2>1. /\ Capacity \in Nat \ {0} /\ UsizeModulus \in Nat \ {0}
        /\ head \in SlotIds /\ head \in Int /\ count \in Int
    BY QueueAssumption DEF QueueShape, QueueTypeOK, SlotIds
  <2>2. head' \in SlotIds /\ count' \in 0 .. UsizeModulus - 1
    BY <1>1, <2>1, ModRange DEF Dequeue, SlotIds
  <2>3. delivered' \in Messages \cup {NoMessage}
    BY <1>1, <2>1 DEF Dequeue, QueueShape, QueueTypeOK
  <2>4. QED BY <1>1, <1>3, <2>2, <2>3 DEF Dequeue, QueueShape, QueueTypeOK
<1>9. \A t \in ThreadIds :
        /\ WaitsIn("recv", t)' => t \in recv_waiters'
        /\ WaitsIn("send", t)' => t \in send_waiters'
        /\ pc'[t] = "recv" => t \in Receivers
        /\ pc'[t] = "send" => t \in Senders /\ msg'[t] \in Messages
  <2>1. TAKE t \in ThreadIds
  <2>2. CASE t = me
    BY <1>4, <2>2 DEF WaitsIn
  <2>3. CASE t # me
    BY <1>3, <1>4, <2>3 DEF WaitsIn, QueueShape
  <2>4. QED BY <2>2, <2>3
<1>10. \A t \in ThreadIds : t \in recv_waiters' =>
         WaitsIn("recv", t)' \/ ExpiredIn("recv", t)'
  BY <1>3, <1>4, <1>5 DEF QueueShape, WaitsIn, ExpiredIn, Granted
<1>11. \A t \in ThreadIds : t \in send_waiters' =>
         WaitsIn("send", t)' \/ ExpiredIn("send", t)'
  BY <1>3, <1>4, <1>5 DEF QueueShape, WaitsIn, ExpiredIn, Granted
<1>12. QueueShape'
  <2>1. recv_waiters' \subseteq ThreadIds /\ send_waiters' \subseteq ThreadIds
    BY <1>8, QueueAssumption DEF QueueTypeOK
  <2>2. QED BY <1>8, <1>9, <1>10, <1>11, <2>1 DEF QueueShape
<1>13. ASSUME OneEach, QueueFlow, count > 0 PROVE QueueFlow' /\ Fifo!Get
  <2>1. /\ count \in 0 .. Capacity /\ count <= Capacity /\ Capacity \in Nat
    BY <1>13, QueueAssumption DEF QueueFlow
  <2>2. /\ count' = count - 1 /\ tail' = (head' + count') % Capacity /\ Fifo!Get
    BY <1>1, <1>13, <2>1, ContentsGet DEF QueueShape, QueueFlow
  <2>3. Receivers = {me} /\ \E a : Senders = {a}
    BY <1>13 DEF OneEach
  <2>4. send_waiters' = {}
    <3>1. send_waiters \subseteq Senders
      BY DEF QueueShape, QueueTypeOK
    <3>2. QED BY <1>3, <2>3, <3>1
  <2>5. \A t \in ThreadIds : ~WaitsIn("send", t)'
    BY <1>9, <2>4
  <2>6. \A t \in ThreadIds : pc'[t] # "recv"
    BY <1>4, <1>9, <2>3
  <2>7. count' \in 0 .. Capacity /\ count' < Capacity
    BY <1>13, <2>1, <2>2
  <2>8. QED BY <2>2, <2>5, <2>6, <2>7 DEF QueueFlow, WaitsIn, GrantedIn
<1>14. QED BY <1>3, <1>7, <1>12, <1>13

\* No other object's step and no tick disturbs the queue.
LEMMA QueueElsewhere ==
  ASSUME QueueShape, Elsewhere("send"), Elsewhere("recv"), UNCHANGED queueVars
  PROVE  /\ QueueShape' /\ (QueueFlow => QueueFlow')
         /\ UNCHANGED <<Contents, delivered>>
<1>1. UNCHANGED <<slots, head, tail, count, recv_waiters, send_waiters, msg, delivered>>
  BY DEF queueVars, ring
<1>2. \A t \in ThreadIds : \A c \in {"send", "recv"} :
        /\ WaitsIn(c, t)' => WaitsIn(c, t)
        /\ WaitsIn(c, t) => WaitsIn(c, t)' \/ ExpiredIn(c, t)'
        /\ ExpiredIn(c, t) => ExpiredIn(c, t)'
        /\ GrantedIn(c, t)' <=> GrantedIn(c, t)
        /\ pc'[t] = c <=> pc[t] = c
  BY ElsewhereWaits
<1>3. QueueTypeOK'
  BY <1>1 DEF QueueShape, QueueTypeOK
<1>4. recv_waiters \subseteq ThreadIds /\ send_waiters \subseteq ThreadIds
  BY QueueAssumption DEF QueueShape, QueueTypeOK
<1>5. QueueShape'
  BY <1>1, <1>2, <1>3, <1>4 DEF QueueShape
<1>6. QueueFlow => QueueFlow'
  BY <1>1, <1>2 DEF QueueFlow
<1>7. UNCHANGED <<Contents, delivered>>
  BY <1>1 DEF Contents
<1>8. QED BY <1>5, <1>6, <1>7

\* The caller me begins to wait, or returns without a message.
LEMMA CallerKept ==
  ASSUME QueueShape, QueueTypeOK', UNCHANGED <<ring, delivered>>,
         NEW me \in ThreadIds,
         \A t \in ThreadIds \ {me} :
           /\ Untouched(t) /\ msg'[t] = msg[t]
           /\ t \in recv_waiters' <=> t \in recv_waiters
           /\ t \in send_waiters' <=> t \in send_waiters,
         \/ pc'[me] = "app" /\ me \notin recv_waiters' /\ me \notin send_waiters'
         \/ /\ pc'[me] = "recv" /\ sched'.is_ipc_wait[me] /\ me \in Receivers
            /\ me \in recv_waiters' /\ me \notin send_waiters' /\ count = 0
         \/ /\ pc'[me] = "send" /\ sched'.is_ipc_wait[me] /\ me \in Senders
            /\ me \notin recv_waiters' /\ me \in send_waiters' /\ count >= Capacity
            /\ msg'[me] \in Messages
  PROVE  /\ QueueShape' /\ (QueueFlow => QueueFlow')
         /\ UNCHANGED <<Contents, delivered>>
<1>1. UNCHANGED <<slots, head, tail, count, delivered>>
  BY DEF ring
<1>2. \A t \in ThreadIds \ {me} : \A c \in {"send", "recv"} :
        /\ WaitsIn(c, t)' <=> WaitsIn(c, t)
        /\ ExpiredIn(c, t)' <=> ExpiredIn(c, t)
        /\ GrantedIn(c, t)' <=> GrantedIn(c, t)
        /\ pc'[t] = pc[t]
  BY UntouchedWaits
<1>3. recv_waiters' \subseteq ThreadIds /\ send_waiters' \subseteq ThreadIds
  BY QueueAssumption DEF QueueTypeOK
<1>4. \A t \in ThreadIds :
        /\ WaitsIn("recv", t)' => t \in recv_waiters'
        /\ WaitsIn("send", t)' => t \in send_waiters'
        /\ pc'[t] = "recv" => t \in Receivers
        /\ pc'[t] = "send" => t \in Senders /\ msg'[t] \in Messages
        /\ t \in recv_waiters' => WaitsIn("recv", t)' \/ ExpiredIn("recv", t)'
        /\ t \in send_waiters' => WaitsIn("send", t)' \/ ExpiredIn("send", t)'
  <2>1. TAKE t \in ThreadIds
  <2>2. CASE t = me
    BY <2>2 DEF WaitsIn
  <2>3. CASE t # me
    BY <1>2, <2>3 DEF QueueShape
  <2>4. QED BY <2>2, <2>3
<1>5. QueueShape'
  BY <1>3, <1>4 DEF QueueShape
<1>6. ASSUME QueueFlow PROVE QueueFlow'
  <2>1. count \in Nat /\ Capacity \in Nat /\ count <= Capacity
    BY <1>6, QueueAssumption DEF QueueFlow
  <2>2. \A t \in ThreadIds :
          /\ WaitsIn("recv", t)' => count = 0
          /\ GrantedIn("recv", t)' => count > 0
          /\ WaitsIn("send", t)' => count = Capacity
          /\ GrantedIn("send", t)' => count < Capacity
    <3>1. TAKE t \in ThreadIds
    <3>2. CASE t = me
      BY <2>1, <3>2 DEF WaitsIn, GrantedIn
    <3>3. CASE t # me
      BY <1>2, <1>6, <3>3 DEF QueueFlow
    <3>4. QED BY <3>2, <3>3
  <2>3. QED BY <1>1, <1>6, <2>2 DEF QueueFlow
<1>7. UNCHANGED <<Contents, delivered>>
  BY <1>1 DEF Contents
<1>8. QED BY <1>5, <1>6, <1>7

LEMMA QueueMoves ==
  ASSUME ReusesOnlySignals, KernelInv, QueueShape, QueueOp
  PROVE  /\ KernelInv' /\ QueueShape'
         /\ \A c \in Calls \ {"app", "send", "recv"} : Elsewhere(c)
         /\ OneEach /\ QueueFlow =>
              QueueFlow' /\ [Fifo!QueueNext]_<<Contents, delivered>>
<1>1. /\ UNCHANGED app /\ ~app.reuses /\ QueueStep
      /\ Self \in ThreadIds /\ pc \in [ThreadIds -> Calls]
      /\ "send" \in Calls \ {"app"} /\ "recv" \in Calls \ {"app"}
  BY SelfFacts DEF QueueOp, Uses, ReusesOnlySignals, KernelInv, Calls
<1>2. PICK me \in ThreadIds : me = Self
  BY <1>1
<1>3. QueueTypeOK /\ me \in Nat
  BY IdsAreNats DEF QueueShape
<1>4. CASE SendAtOnce
  <2>1. PICK m \in Messages : EnqueueAndWake(m)
    BY <1>4 DEF SendAtOnce
  <2>2. /\ pc[me] = "app" /\ me \in Senders /\ count < Capacity
        /\ UNCHANGED <<pc, send_waiters, msg>>
    BY <1>2, <1>4 DEF SendAtOnce, InApp
  <2>3. pc' = [pc EXCEPT ![me] = "app"]
    BY <1>1, <2>2
  <2>4. msg' \in [ThreadIds -> Messages \cup {NoMessage}]
    BY <1>3, <2>2 DEF QueueTypeOK
  <2>5. /\ KernelInv' /\ QueueShape'
        /\ \A c \in Calls \ {"app", "send", "recv"} : Elsewhere(c)
        /\ OneEach /\ QueueFlow /\ count < Capacity => QueueFlow' /\ Fifo!Put(m)
    BY <1>1, <1>2, <2>1, <2>2, <2>3, <2>4, EnqueueKept
  <2>6. QED BY <2>2, <2>5 DEF Fifo!QueueNext
<1>5. CASE SendBlock
  <2>1. /\ KernelInv' /\ pc[me] = "app" /\ ~sched.is_ipc_wait[me]
        /\ pc'[me] = "send" /\ sched'.is_ipc_wait[me]
        /\ \A t \in ThreadIds \ {me} : Untouched(t)
    BY <1>1, <1>2, <1>5, BlockMoves DEF SendBlock
  <2>2. PICK m \in Messages : msg' = [msg EXCEPT ![me] = m]
    BY <1>2, <1>5 DEF SendBlock
  <2>3. /\ me \in Senders /\ count >= Capacity /\ send_waiters' = send_waiters \cup {me}
        /\ UNCHANGED <<ring, recv_waiters, delivered>>
    BY <1>2, <1>5 DEF SendBlock
  <2>4. /\ msg' \in [ThreadIds -> Messages \cup {NoMessage}] /\ msg'[me] \in Messages
        /\ \A t \in ThreadIds \ {me} : msg'[t] = msg[t]
    BY <1>3, <2>2 DEF QueueTypeOK
  <2>5. QueueTypeOK'
    BY <1>3, <2>3, <2>4 DEF QueueTypeOK, ring
  <2>6. me \notin recv_waiters'
    BY <2>1, <2>3 DEF QueueShape, WaitsIn, ExpiredIn
  <2>7. /\ QueueShape' /\ (QueueFlow => QueueFlow')
        /\ UNCHANGED <<Contents, delivered>>
    <3>1. \A t \in ThreadIds \ {me} :
            /\ Untouched(t) /\ msg'[t] = msg[t]
            /\ t \in recv_waiters' <=> t \in recv_waiters
            /\ t \in send_waiters' <=> t \in send_waiters
      BY <2>1, <2>3, <2>4
    <3>2. me \in send_waiters'
      BY <2>3
    <3>3. QED BY <2>1, <2>3, <2>4, <2>5, <2>6, <3>1, <3>2, CallerKept
  <2>8. \A c \in Calls \ {"app", "send", "recv"} : Elsewhere(c)
    BY <2>1 DEF Elsewhere
  <2>9. QED BY <2>1, <2>7, <2>8
<1>6. CASE SendReturn
  <2>1. /\ pc[me] = "send" /\ pc' = [pc EXCEPT ![me] = "app"]
        /\ msg' = [msg EXCEPT ![me] = NoMessage] /\ ~sched.is_ipc_wait[me]
    BY <1>2, <1>6, SelfFacts DEF SendReturn, BackIn, ReturnSelf
  <2>2. /\ msg' \in [ThreadIds -> Messages \cup {NoMessage}]
        /\ \A t \in ThreadIds \ {me} : msg'[t] = msg[t]
    BY <1>3, <2>1 DEF QueueTypeOK
  <2>3. me \in Senders /\ msg[me] \in Messages
    BY <2>1 DEF QueueShape
  <2>4. CASE Granted(me)
    <3>1. EnqueueAndWake(msg[me]) /\ UNCHANGED send_waiters
      BY <1>2, <1>6, <2>4 DEF SendReturn
    <3>2. GrantedIn("send", me)
      BY <2>1, <2>4 DEF GrantedIn
    <3>3. PICK m \in Messages : m = msg[me]
      BY <2>3
    <3>4. /\ KernelInv' /\ QueueShape'
          /\ \A c \in Calls \ {"app", "send", "recv"} : Elsewhere(c)
          /\ OneEach /\ QueueFlow /\ count < Capacity => QueueFlow' /\ Fifo!Put(m)
      BY <1>1, <1>2, <2>1, <2>2, <2>3, <3>1, <3>2, <3>3, EnqueueKept
    <3>5. QueueFlow => count < Capacity
      BY <3>2 DEF QueueFlow
    <3>6. QED BY <3>4, <3>5 DEF Fifo!QueueNext
  <2>5. CASE ~Granted(me)
    <3>1. /\ send_waiters' = send_waiters \ {me}
          /\ UNCHANGED <<sched, ring, recv_waiters, delivered>>
      BY <1>2, <1>6, <2>5 DEF SendReturn
    <3>2. /\ KernelInv' /\ pc'[me] = "app"
          /\ \A t \in ThreadIds \ {me} : Untouched(t)
      BY <1>1, <1>2, <1>6, <3>1, ReturnMoves DEF SendReturn
    <3>3. QueueTypeOK'
      BY <1>3, <2>2, <3>1 DEF QueueTypeOK, ring
    <3>4. me \notin recv_waiters' /\ me \notin send_waiters'
      BY <2>1, <3>1 DEF QueueShape, WaitsIn, ExpiredIn
    <3>5. \A t \in ThreadIds \ {me} :
            /\ Untouched(t) /\ msg'[t] = msg[t]
            /\ t \in recv_waiters' <=> t \in recv_waiters
            /\ t \in send_waiters' <=> t \in send_waiters
      BY <2>2, <3>1, <3>2
    <3>6. /\ QueueShape' /\ (QueueFlow => QueueFlow')
          /\ UNCHANGED <<Contents, delivered>>
      BY <3>1, <3>2, <3>3, <3>4, <3>5, CallerKept
    <3>7. \A c \in Calls \ {"app", "send", "recv"} : Elsewhere(c)
      BY <2>1, <3>2 DEF Elsewhere
    <3>8. QED BY <3>2, <3>6, <3>7
  <2>6. QED BY <2>4, <2>5
<1>7. CASE RecvAtOnce
  <2>1. /\ pc[me] = "app" /\ me \in Receivers /\ count > 0 /\ DequeueAndWake
        /\ UNCHANGED <<pc, recv_waiters, msg>>
    BY <1>2, <1>7 DEF RecvAtOnce, InApp
  <2>2. pc' = [pc EXCEPT ![me] = "app"]
    BY <1>1, <2>1
  <2>3. /\ KernelInv' /\ QueueShape'
        /\ \A c \in Calls \ {"app", "send", "recv"} : Elsewhere(c)
        /\ OneEach /\ QueueFlow /\ count > 0 => QueueFlow' /\ Fifo!Get
    BY <1>1, <1>2, <2>1, <2>2, DequeueKept
  <2>4. QED BY <2>1, <2>3 DEF Fifo!QueueNext
<1>8. CASE RecvBlock
  <2>1. /\ KernelInv' /\ pc[me] = "app" /\ ~sched.is_ipc_wait[me]
        /\ pc'[me] = "recv" /\ sched'.is_ipc_wait[me]
        /\ \A t \in ThreadIds \ {me} : Untouched(t)
    BY <1>1, <1>2, <1>8, BlockMoves DEF RecvBlock
  <2>2. /\ me \in Receivers /\ count = 0 /\ recv_waiters' = recv_waiters \cup {me}
        /\ UNCHANGED <<ring, send_waiters, msg, delivered>>
    BY <1>2, <1>8 DEF RecvBlock
  <2>3. QueueTypeOK'
    BY <1>3, <2>2 DEF QueueTypeOK, ring
  <2>4. me \notin send_waiters' /\ me \in recv_waiters'
    BY <2>1, <2>2 DEF QueueShape, WaitsIn, ExpiredIn
  <2>5. \A t \in ThreadIds \ {me} :
          /\ Untouched(t) /\ msg'[t] = msg[t]
          /\ t \in recv_waiters' <=> t \in recv_waiters
          /\ t \in send_waiters' <=> t \in send_waiters
    BY <2>1, <2>2
  <2>6. /\ QueueShape' /\ (QueueFlow => QueueFlow')
        /\ UNCHANGED <<Contents, delivered>>
    BY <2>1, <2>2, <2>3, <2>4, <2>5, CallerKept
  <2>7. \A c \in Calls \ {"app", "send", "recv"} : Elsewhere(c)
    BY <2>1 DEF Elsewhere
  <2>8. QED BY <2>1, <2>6, <2>7
<1>9. CASE RecvReturn
  <2>1. /\ pc[me] = "recv" /\ pc' = [pc EXCEPT ![me] = "app"]
        /\ UNCHANGED msg /\ ~sched.is_ipc_wait[me]
    BY <1>2, <1>9, SelfFacts DEF RecvReturn, BackIn, ReturnSelf
  <2>2. me \in Receivers
    BY <2>1 DEF QueueShape
  <2>3. CASE Granted(me)
    <3>1. DequeueAndWake /\ UNCHANGED recv_waiters
      BY <1>2, <1>9, <2>3 DEF RecvReturn
    <3>2. GrantedIn("recv", me)
      BY <2>1, <2>3 DEF GrantedIn
    <3>3. /\ KernelInv' /\ QueueShape'
          /\ \A c \in Calls \ {"app", "send", "recv"} : Elsewhere(c)
          /\ OneEach /\ QueueFlow /\ count > 0 => QueueFlow' /\ Fifo!Get
      BY <1>1, <1>2, <2>1, <2>2, <3>1, <3>2, DequeueKept
    <3>4. QueueFlow => count > 0
      BY <3>2 DEF QueueFlow
    <3>5. QED BY <3>3, <3>4 DEF Fifo!QueueNext
  <2>4. CASE ~Granted(me)
    <3>1. /\ recv_waiters' = recv_waiters \ {me}
          /\ UNCHANGED <<sched, ring, send_waiters, delivered>>
      BY <1>2, <1>9, <2>4 DEF RecvReturn
    <3>2. /\ KernelInv' /\ pc'[me] = "app"
          /\ \A t \in ThreadIds \ {me} : Untouched(t)
      BY <1>1, <1>2, <1>9, <3>1, ReturnMoves DEF RecvReturn
    <3>3. QueueTypeOK'
      BY <1>3, <2>1, <3>1 DEF QueueTypeOK, ring
    <3>4. me \notin recv_waiters' /\ me \notin send_waiters'
      BY <2>1, <3>1 DEF QueueShape, WaitsIn, ExpiredIn
    <3>5. \A t \in ThreadIds \ {me} :
            /\ Untouched(t) /\ msg'[t] = msg[t]
            /\ t \in recv_waiters' <=> t \in recv_waiters
            /\ t \in send_waiters' <=> t \in send_waiters
      BY <2>1, <3>1, <3>2
    <3>6. /\ QueueShape' /\ (QueueFlow => QueueFlow')
          /\ UNCHANGED <<Contents, delivered>>
      BY <3>1, <3>2, <3>3, <3>4, <3>5, CallerKept
    <3>7. \A c \in Calls \ {"app", "send", "recv"} : Elsewhere(c)
      BY <2>1, <3>2 DEF Elsewhere
    <3>8. QED BY <3>2, <3>6, <3>7
  <2>5. QED BY <2>3, <2>4
<1>10. QED BY <1>1, <1>4, <1>5, <1>6, <1>7, <1>8, <1>9 DEF QueueStep

-----------------------------------------------------------------------------
(* All of them together.                                                   *)

\* The inductive invariant: the scheduler's, each object's, and what a queue
\* between two threads adds.
IpcInv ==
  /\ KernelInv /\ SemInv /\ MutexInv /\ EventInv /\ SigInv
  /\ QueueShape /\ (OneEach => QueueFlow)

LEMMA IpcStart ==
  IpcInit => IpcInv /\ Lock!LockInit /\ Fifo!QueueInit
<1> SUFFICES ASSUME IpcInit PROVE IpcInv /\ Lock!LockInit /\ Fifo!QueueInit
  OBVIOUS
<1>1. /\ app \in Applications /\ sched = Booted(app.threads)
      /\ pc = [t \in ThreadIds |-> "app"]
      /\ SemInit /\ MutexInit /\ QueueInit /\ EventInit /\ SigInit
  BY DEF IpcInit, KernelInit
<1>2. /\ Steady(sched) /\ WaitsSound(sched)
      /\ \A t \in ThreadIds : ~sched.is_ipc_wait[t] /\ sched.state[t] # "BlockedTimeout"
  <2>1. /\ app.threads \in SUBSET ThreadIds
        /\ \E t \in app.threads : ThreadProfile[t].priority = IdlePriority
    BY <1>1, KernelAssumption
  <2>2. QED BY <1>1, <2>1, BootedSteady
<1>3. \A t \in ThreadIds : pc[t] = "app"
  BY <1>1
<1>4. \A c \in Calls \ {"app"} : \A t \in ThreadIds :
        ~WaitsIn(c, t) /\ ~GrantedIn(c, t) /\ ~ExpiredIn(c, t)
  BY <1>3 DEF WaitsIn, GrantedIn, ExpiredIn
<1>5. KernelInv
  <2>1. pc \in [ThreadIds -> Calls]
    BY <1>1 DEF Calls
  <2>2. QED BY <1>1, <1>2, <1>3, <2>1 DEF KernelInv
<1>6. SemInv
  <2>1. Handed = {}
    BY <1>4 DEF Handed, Calls
  <2>2. Cardinality(Handed) = 0
    BY <2>1, FS_EmptySet
  <2>3. QED BY <1>1, <1>4, <2>2, SemaphoreAssumption
        DEF SemInv, SemTypeOK, SemaphoreKept, NoTokenInvented, TokensConservedUntimed,
            TokensConserved, TakersExact, SemInit, Calls
<1>7. MutexInv /\ Lock!LockInit
  <2>1. /\ locked = FALSE /\ owner = NO_OWNER /\ nest = 0 /\ mutex_waiters = {}
        /\ depth = [t \in ThreadIds |-> 0]
    BY <1>1 DEF MutexInit
  <2>2. MutexTypeOK
    BY <2>1 DEF MutexTypeOK
  <2>3. MutexKept
    BY <1>4, <2>1 DEF MutexKept, NoLostWaiter, OwnerEnteredUntimed, OwnerEntered, Calls
  <2>4. \A t \in ThreadIds :
          /\ depth[t] > 0 => owner = t /\ depth[t] <= nest
          /\ GrantedIn("lock", t) => owner = t /\ nest = 1 /\ depth[t] = 0
    BY <1>4, <2>1 DEF Calls
  <2>5. QED BY <2>1, <2>2, <2>3, <2>4 DEF MutexInv, Lock!LockInit
<1>8. EventInv
  <2>1. EventTypeOK /\ OkHasCause
    <3>1. /\ flags = {} /\ event_waiters = {} /\ told = NotTold /\ unseen = {}
          /\ wait_params = [t \in ThreadIds |-> NoWait] /\ gone = [t \in ThreadIds |-> {}]
      BY <1>1, <1>3 DEF EventInit
    <3>2. QED BY <3>1, NothingTold DEF EventTypeOK, OkHasCause, Tellings
  <2>2. WokenForCause
    BY <1>4 DEF WokenForCause, Calls
  <2>3. QED BY <1>1, <1>3, <1>4, <2>1, <2>2
    DEF EventInv, EventsKept, NoEventLostUntimed, NoEventLost,
        NoneLeftWaiting, RegisteredExactly, EventInit, Calls
<1>9. SigInv
  <2>1. \A t \in ThreadIds :
          /\ sig_pending[t] = {} /\ sig_mask[t] = {} /\ sent[t] = {}
          /\ sig_wait_mask[t] = {}
    BY <1>1 DEF SigInit, NoSignals
  <2>2. SigTypeOK
    BY <1>1 DEF SigTypeOK, SigInit, NoSignals
  <2>3. SignalsKept
    BY <1>4, <2>1 DEF SignalsKept, NoneWaitsSignalled, NoSignalLost, OkMeansSignal, Calls
  <2>4. sig_waiters = {}
    BY <1>1 DEF SigInit
  <2>5. QED BY <1>4, <2>2, <2>3, <2>4 DEF SigInv, Calls
<1>10. /\ slots = [i \in SlotIds |-> NoMessage]
       /\ head = 0 /\ tail = 0 /\ count = 0 /\ recv_waiters = {} /\ send_waiters = {}
       /\ msg = [t \in ThreadIds |-> NoMessage] /\ delivered = NoMessage
       /\ Capacity \in Nat \ {0} /\ UsizeModulus \in Nat \ {0} /\ NoMessage \notin Messages
  BY <1>1, QueueAssumption DEF QueueInit
<1>11. QueueShape
  <2>1. QueueTypeOK
    BY <1>10 DEF QueueTypeOK, SlotIds
  <2>2. QED BY <1>3, <1>4, <1>10, <2>1 DEF QueueShape, Calls
<1>12. QueueFlow
  BY <1>4, <1>10 DEF QueueFlow, Calls
<1>13. Fifo!QueueInit
  <2>1. Contents = <<>>
    BY <1>10 DEF Contents
  <2>2. QED BY <1>10, <2>1 DEF Fifo!QueueInit
<1>14. QED BY <1>5, <1>6, <1>7, <1>8, <1>9, <1>11, <1>12, <1>13 DEF IpcInv

\* A slot of the thread table is emptied or filled.
LEMMA ForgetKept ==
  ASSUME ReusesOnlySignals, IpcInv, SlotOp
  PROVE  IpcInv' /\ UNCHANGED depth /\ UNCHANGED <<Contents, delivered>>
<1>1. PICK id \in ThreadIds :
        /\ DeleteOther(id) \/ CreateOther(id)
        /\ MutexForget(id) /\ QueueForget(id) /\ SigForget(id)
  BY DEF SlotOp
<1>2. UNCHANGED app /\ UNCHANGED semVars /\ UNCHANGED eventVars
  BY DEF SlotOp, SemForget, EventForget
<1>3. /\ KernelInv' /\ app.reuses
      /\ pc'[id] = "app" /\ ~sched'.is_ipc_wait[id]
      /\ \A t \in ThreadIds \ {id} : Untouched(t)
      /\ \A t \in ThreadIds : pc'[t] \in {pc[t], "app"}
  BY <1>1, <1>2, SlotMoves DEF IpcInv
<1>4. \A t \in ThreadIds : pc[t] \in {"app", "signal_wait"}
  BY <1>3 DEF IpcInv, KernelInv
<1>5. \A c \in Calls \ {"app", "signal_wait"} : Elsewhere(c)
  BY <1>3, <1>4 DEF Elsewhere
<1>6. Elsewhere("take") /\ Elsewhere("lock") /\ Elsewhere("wait")
  BY <1>5 DEF Calls
<1>7. SemInv' /\ EventInv'
  BY <1>2, <1>6, SemElsewhere, EventElsewhere DEF IpcInv
<1>8. UNCHANGED depth /\ MutexInv'
  <2>1. ~locked
    BY <1>3 DEF ReusesOnlySignals, IpcInv, KernelInv, MutexInv, Uses
  <2>2. depth[id] = 0 /\ depth \in [ThreadIds -> Nat]
    BY <2>1, IdsAreNats DEF IpcInv, MutexInv, MutexTypeOK, NO_OWNER
  <2>3. UNCHANGED mutexVars
    BY <1>1, <2>2 DEF MutexForget, mutexVars
  <2>4. QED BY <1>2, <1>6, <2>3, MutexElsewhere DEF IpcInv, mutexVars
<1>9. /\ QueueShape' /\ (QueueFlow => QueueFlow')
      /\ UNCHANGED <<Contents, delivered>>
  <2>1. /\ msg' = [msg EXCEPT ![id] = NoMessage]
        /\ UNCHANGED <<ring, recv_waiters, send_waiters, delivered>>
    BY <1>1 DEF QueueForget
  <2>2. QueueTypeOK /\ msg \in [ThreadIds -> Messages \cup {NoMessage}]
    BY DEF IpcInv, QueueShape, QueueTypeOK
  <2>3. QueueTypeOK'
    BY <2>1, <2>2 DEF QueueTypeOK, ring
  <2>4. id \notin recv_waiters' /\ id \notin send_waiters'
    BY <1>4, <2>1 DEF IpcInv, QueueShape, WaitsIn, ExpiredIn
  <2>5. \A t \in ThreadIds \ {id} :
          /\ Untouched(t) /\ msg'[t] = msg[t]
          /\ t \in recv_waiters' <=> t \in recv_waiters
          /\ t \in send_waiters' <=> t \in send_waiters
    BY <1>3, <2>1, <2>2
  <2>6. QueueShape
    BY DEF IpcInv
  <2>7. QED BY <1>3, <2>1, <2>3, <2>4, <2>5, <2>6, CallerKept
<1>10. SigInv'
  <2>1. SigInv /\ SigTypeOK
    BY DEF IpcInv, SigInv
  <2>2. /\ sig_pending' = [sig_pending EXCEPT ![id] = {}]
        /\ sig_mask' = [sig_mask EXCEPT ![id] = {}]
        /\ sent' = [sent EXCEPT ![id] = {}]
        /\ UNCHANGED <<sig_waiters, sig_wait_mask>>
    BY <1>1 DEF SigForget
  <2>3. SigTypeOK'
    BY <2>1, <2>2 DEF SigTypeOK
  <2>4. \A t \in ThreadIds \ {id} :
          /\ Untouched(t)
          /\ sig_pending'[t] = sig_pending[t] /\ sig_mask'[t] = sig_mask[t]
          /\ sig_wait_mask'[t] = sig_wait_mask[t] /\ sent'[t] = sent[t]
          /\ t \in sig_waiters' <=> t \in sig_waiters
    BY <1>3, <2>1, <2>2 DEF SigTypeOK
  <2>5. sent'[id] \subseteq sig_pending'[id]
    BY <2>1, <2>2 DEF SigTypeOK
  <2>6. ~WaitsIn("signal_wait", id)' /\ ~GrantedIn("signal_wait", id)'
    BY <1>3 DEF WaitsIn, GrantedIn
  <2>7. QED BY <1>2, <1>3, <2>1, <2>3, <2>4, <2>5, <2>6, SigOne
<1>11. QED BY <1>3, <1>7, <1>8, <1>9, <1>10 DEF IpcInv

\* Each object's invariant is disturbed by its own steps only.
LEMMA IpcMoves ==
  ASSUME ReusesOnlySignals, IpcInv, [IpcNext]_ipcVars
  PROVE  /\ IpcInv' /\ [Lock!LockNext]_depth
         /\ OneEach => [Fifo!QueueNext]_<<Contents, delivered>>
<1>1. /\ KernelInv /\ SemInv /\ MutexInv /\ EventInv /\ SigInv
      /\ QueueShape /\ (OneEach => QueueFlow)
  BY DEF IpcInv
<1>2. /\ "take" \in Calls \ {"app"} /\ "lock" \in Calls \ {"app"}
      /\ "send" \in Calls \ {"app"} /\ "recv" \in Calls \ {"app"}
      /\ "wait" \in Calls \ {"app"} /\ "signal_wait" \in Calls \ {"app"}
  BY DEF Calls
<1>3. CASE SemaphoreOp
  <2>1. KernelInv' /\ SemInv' /\ \A c \in Calls \ {"app", "take"} : Elsewhere(c)
    BY <1>1, <1>3, SemaphoreMoves
  <2>2. UNCHANGED app /\ UNCHANGED mutexVars /\ UNCHANGED queueVars
        /\ UNCHANGED eventVars /\ UNCHANGED sigVars
    BY <1>3 DEF SemaphoreOp
  <2>3. MutexInv' /\ EventInv' /\ SigInv'
    BY <1>1, <1>2, <2>1, <2>2, MutexElsewhere, EventElsewhere, SigElsewhere
  <2>4. /\ QueueShape' /\ (QueueFlow => QueueFlow') /\ UNCHANGED <<Contents, delivered>>
    BY <1>1, <1>2, <2>1, <2>2, QueueElsewhere
  <2>5. UNCHANGED depth
    BY <2>2 DEF mutexVars
  <2>6. QED BY <1>1, <2>1, <2>3, <2>4, <2>5 DEF IpcInv
<1>4. CASE MutexOp
  <2>1. /\ KernelInv' /\ MutexInv' /\ \A c \in Calls \ {"app", "lock"} : Elsewhere(c)
        /\ [Lock!LockNext]_depth
    BY <1>1, <1>4, MutexMoves
  <2>2. UNCHANGED app /\ UNCHANGED semVars /\ UNCHANGED queueVars
        /\ UNCHANGED eventVars /\ UNCHANGED sigVars
    BY <1>4 DEF MutexOp
  <2>3. SemInv' /\ EventInv' /\ SigInv'
    BY <1>1, <1>2, <2>1, <2>2, SemElsewhere, EventElsewhere, SigElsewhere
  <2>4. /\ QueueShape' /\ (QueueFlow => QueueFlow') /\ UNCHANGED <<Contents, delivered>>
    BY <1>1, <1>2, <2>1, <2>2, QueueElsewhere
  <2>5. QED BY <1>1, <2>1, <2>3, <2>4 DEF IpcInv
<1>5. CASE QueueOp
  <2>1. /\ KernelInv' /\ QueueShape'
        /\ \A c \in Calls \ {"app", "send", "recv"} : Elsewhere(c)
        /\ OneEach /\ QueueFlow =>
             QueueFlow' /\ [Fifo!QueueNext]_<<Contents, delivered>>
    BY <1>1, <1>5, QueueMoves
  <2>2. UNCHANGED app /\ UNCHANGED semVars /\ UNCHANGED mutexVars
        /\ UNCHANGED eventVars /\ UNCHANGED sigVars
    BY <1>5 DEF QueueOp
  <2>3. SemInv' /\ MutexInv' /\ EventInv' /\ SigInv'
    BY <1>1, <1>2, <2>1, <2>2, SemElsewhere, MutexElsewhere, EventElsewhere, SigElsewhere
  <2>4. UNCHANGED depth
    BY <2>2 DEF mutexVars
  <2>5. QED BY <1>1, <2>1, <2>3, <2>4 DEF IpcInv
<1>6. CASE EventOp
  <2>1. KernelInv' /\ EventInv' /\ \A c \in Calls \ {"app", "wait"} : Elsewhere(c)
    BY <1>1, <1>6, EventMoves
  <2>2. UNCHANGED app /\ UNCHANGED semVars /\ UNCHANGED mutexVars
        /\ UNCHANGED queueVars /\ UNCHANGED sigVars
    BY <1>6 DEF EventOp
  <2>3. SemInv' /\ MutexInv' /\ SigInv'
    BY <1>1, <1>2, <2>1, <2>2, SemElsewhere, MutexElsewhere, SigElsewhere
  <2>4. /\ QueueShape' /\ (QueueFlow => QueueFlow') /\ UNCHANGED <<Contents, delivered>>
    BY <1>1, <1>2, <2>1, <2>2, QueueElsewhere
  <2>5. UNCHANGED depth
    BY <2>2 DEF mutexVars
  <2>6. QED BY <1>1, <2>1, <2>3, <2>4, <2>5 DEF IpcInv
<1>7. CASE SignalOp
  <2>1. KernelInv' /\ SigInv' /\ \A c \in Calls \ {"app", "signal_wait"} : Elsewhere(c)
    BY <1>1, <1>7, SignalMoves
  <2>2. UNCHANGED app /\ UNCHANGED semVars /\ UNCHANGED mutexVars
        /\ UNCHANGED queueVars /\ UNCHANGED eventVars
    BY <1>7 DEF SignalOp
  <2>3. SemInv' /\ MutexInv' /\ EventInv'
    BY <1>1, <1>2, <2>1, <2>2, SemElsewhere, MutexElsewhere, EventElsewhere
  <2>4. /\ QueueShape' /\ (QueueFlow => QueueFlow') /\ UNCHANGED <<Contents, delivered>>
    BY <1>1, <1>2, <2>1, <2>2, QueueElsewhere
  <2>5. UNCHANGED depth
    BY <2>2 DEF mutexVars
  <2>6. QED BY <1>1, <2>1, <2>3, <2>4, <2>5 DEF IpcInv
<1>8. ASSUME KernelInv', \A t \in ThreadIds : Untouched(t) \/ TimesOut(t),
             UNCHANGED <<app, semVars, mutexVars, queueVars, eventVars, sigVars>>
      PROVE  /\ IpcInv' /\ [Lock!LockNext]_depth
             /\ OneEach => [Fifo!QueueNext]_<<Contents, delivered>>
  <2>1. \A c : Elsewhere(c)
    BY <1>8 DEF Elsewhere
  <2>2. UNCHANGED app /\ UNCHANGED semVars /\ UNCHANGED mutexVars
        /\ UNCHANGED queueVars /\ UNCHANGED eventVars /\ UNCHANGED sigVars
    BY <1>8
  <2>3. SemInv' /\ MutexInv' /\ EventInv' /\ SigInv'
    BY <1>1, <2>1, <2>2, SemElsewhere, MutexElsewhere, EventElsewhere, SigElsewhere
  <2>4. /\ QueueShape' /\ (QueueFlow => QueueFlow') /\ UNCHANGED <<Contents, delivered>>
    BY <1>1, <2>1, <2>2, QueueElsewhere
  <2>5. UNCHANGED depth
    BY <2>2 DEF mutexVars
  <2>6. QED BY <1>1, <1>8, <2>3, <2>4, <2>5 DEF IpcInv
<1>9. CASE KernelOp
  <2>1. /\ KernelStep
        /\ UNCHANGED <<app, semVars, mutexVars, queueVars, eventVars, sigVars>>
    BY <1>9 DEF KernelOp
  <2>2. KernelInv' /\ \A t \in ThreadIds : Untouched(t) \/ TimesOut(t)
    BY <1>1, <2>1, KernelMoves
  <2>3. QED BY <1>8, <2>1, <2>2
<1>10. CASE UNCHANGED ipcVars
  <2>1. UNCHANGED <<sched, pc, app, semVars, mutexVars, queueVars, eventVars, sigVars>>
    BY <1>10 DEF ipcVars
  <2>2. KernelInv'
    BY <1>1, <2>1 DEF KernelInv, Untimed, Granted
  <2>3. \A t \in ThreadIds : Untouched(t)
    BY <2>1 DEF Untouched
  <2>4. QED BY <1>8, <2>1, <2>2, <2>3
<1>11. CASE SlotOp
  BY <1>11, ForgetKept
<1>12. QED BY <1>3, <1>4, <1>5, <1>6, <1>7, <1>9, <1>10, <1>11 DEF IpcNext

LEMMA IpcInvariant ==
  ASSUME ReusesOnlySignals
  PROVE  IpcSpec => []IpcInv
<1>1. IpcInit => IpcInv
  BY IpcStart
<1>2. IpcInv /\ [IpcNext]_ipcVars => IpcInv'
  BY IpcMoves
<1>3. QED BY <1>1, <1>2, PTL DEF IpcSpec

\* Whatever the objects, threads and timeouts of an application, every object
\* and every thread record keeps its shape: bitmasks name thread slots only,
\* counters do not go below zero, head and tail stay inside the ring.
THEOREM IpcTypes ==
  ASSUME ReusesOnlySignals
  PROVE  IpcSpec => []IpcTypeOK
<1>1. IpcInv => IpcTypeOK
  BY DEF IpcInv, IpcTypeOK, TypeOK, KernelInv, Steady, HasCurrent, SemInv, MutexInv,
         EventInv, SigInv, QueueShape
<1>2. QED BY <1>1, IpcInvariant, PTL

\* However releases, takes and timeouts interleave, from threads and from
\* ISRs, the semaphore invents no token, loses none while nothing times out,
\* and leaves no taker next to one (semaphore.rs:27-84).
THEOREM SemaphoreIsKept ==
  ASSUME ReusesOnlySignals
  PROVE  IpcSpec => []SemaphoreKept
<1>1. IpcInv => SemaphoreKept
  BY DEF IpcInv, SemInv
<1>2. QED BY <1>1, IpcInvariant, PTL

\* A free mutex has no waiters, every thread blocked in lock can be found by
\* the next unlock, and while nothing times out the owner knows it is one
\* (mutex.rs:81-109).
THEOREM MutexIsKept ==
  ASSUME ReusesOnlySignals
  PROVE  IpcSpec => []MutexKept
<1>1. IpcInv => MutexKept
  BY DEF IpcInv, MutexInv
<1>2. QED BY <1>1, IpcInvariant, PTL

\* What users of the mutex see is a recursive lock: whatever times out, no two
\* threads are told they are in, and each step of theirs is a step of the lock
\* or none (mutex.rs:15, "Only one thread may hold the mutex at a time").
THEOREM MutexIsALock ==
  ASSUME ReusesOnlySignals
  PROVE  IpcSpec => ImplementsLock
<1>1. IpcInit => Lock!LockInit
  BY IpcStart
<1>2. IpcInv /\ [IpcNext]_ipcVars => [Lock!LockNext]_depth
  BY IpcMoves
<1>3. QED BY <1>1, <1>2, IpcInvariant, PTL DEF IpcSpec, ImplementsLock, Lock!LockSpec

\* set() leaves nobody blocked whose condition holds, everybody blocked can be
\* found by the next set(), nobody is told Ok without a cause, and while nothing times out a flag goes out only when
\* it is cleared, returned by a wait, or taken for a waiter that set() woke, be
\* that one told of it or not (event.rs:50).
THEOREM EventsAreKept ==
  ASSUME ReusesOnlySignals
  PROVE  IpcSpec => []EventsKept
<1>1. IpcInv => EventsKept
  BY DEF IpcInv, EventInv
<1>2. QED BY <1>1, IpcInvariant, PTL

\* Nobody sleeps on a signal deliverable to it, no signal is lost, and Ok
\* means a signal is there, also while threads delete and create one another
\* (signal.rs:84-192).
THEOREM SignalsAreKept ==
  ASSUME ReusesOnlySignals
  PROVE  IpcSpec => []SignalsKept
<1>1. IpcInv => SignalsKept
  BY DEF IpcInv, SigInv
<1>2. QED BY <1>1, IpcInvariant, PTL

\* Between one sender and one receiver, and only there, the queue lets nobody
\* wait next to what it waits for (docs/THREADING.md:216).
THEOREM QueueDoesServe ==
  ASSUME ReusesOnlySignals, OneEach
  PROVE  IpcSpec => []QueueServes
<1>1. IpcInv => QueueServes
  BY QueueAssumption DEF IpcInv, QueueFlow, QueueServes, NoReceiverLeft, NoSenderLeft
<1>2. QED BY <1>1, IpcInvariant, PTL

\* ... and is a bounded FIFO: whatever times out, no message is lost,
\* duplicated, overwritten or overtaken (docs/THREADING.md:189-217).
THEOREM QueueIsAFifo ==
  ASSUME ReusesOnlySignals, OneEach
  PROVE  IpcSpec => ImplementsFifo
<1>1. IpcInit => Fifo!QueueInit
  BY IpcStart
<1>2. IpcInv /\ [IpcNext]_ipcVars => [Fifo!QueueNext]_<<Contents, delivered>>
  BY IpcMoves
<1>3. QED BY <1>1, <1>2, IpcInvariant, PTL DEF IpcSpec, ImplementsFifo, Fifo!QueueSpec
=============================================================================
