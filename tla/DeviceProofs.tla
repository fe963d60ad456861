----------------------------- MODULE DeviceProofs -----------------------------
(***************************************************************************)
(* Proofs about parts of the crate that share no state with the others:    *)
(* each is disturbed by its own steps only.                                *)
(***************************************************************************)
EXTENDS Devices, RegisterProofs, WellFoundedInduction

\* A nonempty set of numbers has a least.
LEMMA LeastOf ==
  ASSUME NEW S \in SUBSET Nat, S # {}
  PROVE  LET x == CHOOSE x \in S : \A y \in S : x <= y
         IN  x \in S /\ \A y \in S : x <= y
<1>1. PICK rel : /\ IsWellFoundedOn(rel, Nat)
                 /\ \A x, y \in Nat : x < y => <<x, y>> \in rel
  <2>1. \A x, y \in Nat : x < y => <<x, y>> \in OpToRel(<, Nat)
    BY Zenon DEF OpToRel
  <2>2. QED BY <2>1, NatLessThanWellFounded, Zenon
<1>2. PICK l \in S : \A y \in S : ~(<<y, l>> \in rel)
  <2>1. IsWellFoundedOn(rel, Nat) /\ S \subseteq Nat
    BY <1>1
  <2>2. QED BY <2>1, WFMin, Zenon
<1>3. \A y \in S : l <= y
  <2>1. TAKE y \in S
  <2>2. y \in Nat /\ l \in Nat
    OBVIOUS
  <2>3. ~(y < l)
    BY <2>2, <1>1, <1>2, Zenon
  <2>4. QED BY <2>2, <2>3
<1>4. QED BY <1>3, Zenon

\* A nonempty set of numbers up to m has a greatest.
LEMMA GreatestOf ==
  ASSUME NEW m \in Nat, NEW S \in SUBSET (0 .. m), S # {}
  PROVE  \E x \in S : \A y \in S : y <= x
<1> DEFINE T == {m - x : x \in S}
<1>1. T \in SUBSET Nat /\ T # {}
  <2>1. \A x \in S : m - x \in Nat
    OBVIOUS
  <2>2. QED BY <2>1
<1>2. PICK l \in T : \A y \in T : l <= y
  <2> HIDE DEF T
  <2>1. QED BY <1>1, LeastOf, Zenon
<1>3. PICK x \in S : l = m - x
  BY <1>2
<1>4. ASSUME NEW y \in S PROVE y <= x
  <2>1. m - y \in T
    OBVIOUS
  <2>2. l <= m - y
    BY <1>2, <2>1, Zenon
  <2>3. QED BY <1>3, <2>2
<1>5. QED BY <1>3, <1>4, Zenon

\* What is left of a sequence without its element i.
LEMMA LeftOut ==
  ASSUME NEW S, NEW s \in Seq(S), NEW i \in 1 .. Len(s), NEW r,
         r = SubSeq(s, 1, i - 1) \o SubSeq(s, i + 1, Len(s))
  PROVE  /\ r \in Seq(S) /\ Len(r) = Len(s) - 1
         /\ \A j \in 1 .. Len(s) - 1 : r[j] = IF j < i THEN s[j] ELSE s[j + 1]
<1> DEFINE a == SubSeq(s, 1, i - 1)
           b == SubSeq(s, i + 1, Len(s))
<1>1. /\ a \in Seq(S) /\ Len(a) = i - 1
      /\ \A j \in 1 .. i - 1 : a[j] = s[j]
  OBVIOUS
<1>2. /\ b \in Seq(S) /\ Len(b) = Len(s) - i
      /\ \A j \in 1 .. Len(s) - i : b[j] = s[i + j]
  OBVIOUS
<1> HIDE DEF a, b
<1>3. r = a \o b
  BY DEF a, b
<1>4. /\ r \in Seq(S) /\ Len(r) = Len(a) + Len(b)
      /\ \A j \in 1 .. Len(a) + Len(b) : r[j] = IF j <= Len(a) THEN a[j] ELSE b[j - Len(a)]
  <2>1. a \in Seq(S) /\ b \in Seq(S)
    BY <1>1, <1>2
  <2>2. /\ a \o b \in Seq(S) /\ Len(a \o b) = Len(a) + Len(b)
        /\ \A j \in 1 .. Len(a) + Len(b) : (a \o b)[j] = IF j <= Len(a) THEN a[j] ELSE b[j - Len(a)]
    BY ONLY <2>1, ConcatProperties, Zenon
  <2>3. QED BY <1>3, <2>2
<1> DEFINE n == Len(s)
<1>0. n \in Nat /\ i \in Nat /\ i >= 1 /\ i <= n
  BY LenProperties
<1> HIDE DEF n
<1>8. Len(a) = i - 1 /\ Len(b) = n - i
  BY <1>1, <1>2 DEF n
<1>5. Len(r) = n - 1
  <2>1. Len(r) = Len(a) + Len(b)
    BY <1>4
  <2>2. QED BY ONLY <1>0, <1>8, <2>1
<1>6. ASSUME NEW j \in 1 .. n - 1
      PROVE  r[j] = IF j < i THEN s[j] ELSE s[j + 1]
  <2>0. r[j] = IF j <= i - 1 THEN a[j] ELSE b[j - (i - 1)]
    <3>1. Len(a) + Len(b) = n - 1
      BY <1>0, <1>8
    <3>2. \A k \in 1 .. n - 1 : r[k] = IF k <= Len(a) THEN a[k] ELSE b[k - Len(a)]
      BY ONLY <1>4, <3>1, Zenon
    <3>3. r[j] = IF j <= Len(a) THEN a[j] ELSE b[j - Len(a)]
      BY ONLY <1>6, <3>2, Zenon
    <3>4. QED BY ONLY <1>8, <3>3, Zenon
  <2>1. CASE j < i
    <3>1. j <= i - 1 /\ j \in 1 .. i - 1
      BY <1>0, <2>1
    <3>2. r[j] = a[j]
      BY ONLY <2>0, <3>1, Zenon
    <3>3. a[j] = s[j]
      BY <1>1, <3>1
    <3>4. QED BY <2>1, <3>2, <3>3
  <2>2. CASE ~(j < i)
    <3>1. j - (i - 1) \in 1 .. n - i /\ i + (j - (i - 1)) = j + 1
      BY <1>0, <2>2
    <3>2. r[j] = b[j - (i - 1)]
      <4>1. ~(j <= i - 1)
        BY <1>0, <2>2
      <4>2. QED BY ONLY <2>0, <4>1, Zenon
    <3>3. b[j - (i - 1)] = s[i + (j - (i - 1))]
      BY <1>2, <3>1 DEF n
    <3>4. QED BY <2>2, <3>1, <3>2, <3>3
  <2>3. QED BY <2>1, <2>2
<1>7. QED BY <1>4, <1>5, <1>6 DEF n

\* A sequence with one element more, after the first n.
With(s, n, b) == SubSeq(s, 1, n) \o (<<b>> \o SubSeq(s, n + 1, Len(s)))

LEMMA Inserted ==
  ASSUME NEW S, NEW s \in Seq(S), NEW n \in Nat, n <= Len(s), NEW b \in S
  PROVE  /\ With(s, n, b) \in Seq(S) /\ Len(With(s, n, b)) = Len(s) + 1
         /\ \A j \in 1 .. n : With(s, n, b)[j] = s[j]
         /\ With(s, n, b)[n + 1] = b
         /\ \A j \in n + 1 .. Len(s) : With(s, n, b)[j + 1] = s[j]
<1> DEFINE r == With(s, n, b)
           k == Len(s)
           u == SubSeq(s, 1, n)
           v == SubSeq(s, n + 1, k)
           w == <<b>> \o v
<1>1. k \in Nat /\ n \in Nat /\ n <= k
  BY LenProperties
<1>2. u \in Seq(S) /\ Len(u) = n /\ \A j \in 1 .. n : u[j] = s[j]
  BY <1>1
<1>3. v \in Seq(S) /\ Len(v) = k - n /\ \A j \in 1 .. k - n : v[j] = s[n + j]
  BY <1>1
<1>4. <<b>> \in Seq(S) /\ Len(<<b>>) = 1 /\ <<b>>[1] = b
  OBVIOUS
<1>5. r = u \o w
  BY DEF With
<1> HIDE DEF k, u, v, r
<1>6. /\ w \in Seq(S) /\ Len(w) = 1 + (k - n)
      /\ \A j \in 1 .. 1 + (k - n) : w[j] = IF j <= 1 THEN <<b>>[j] ELSE v[j - 1]
  <2>1. /\ w \in Seq(S) /\ Len(w) = Len(<<b>>) + Len(v)
        /\ \A j \in 1 .. Len(<<b>>) + Len(v) : w[j] = IF j <= Len(<<b>>) THEN <<b>>[j] ELSE v[j - Len(<<b>>)]
    BY ONLY <1>3, <1>4, ConcatProperties, Zenon
  <2>2. QED BY ONLY <1>3, <1>4, <2>1, Zenon
<1> HIDE DEF w
<1>7. /\ r \in Seq(S) /\ Len(r) = n + (1 + (k - n))
      /\ \A j \in 1 .. n + (1 + (k - n)) : r[j] = IF j <= n THEN u[j] ELSE w[j - n]
  <2>1. /\ u \o w \in Seq(S) /\ Len(u \o w) = Len(u) + Len(w)
        /\ \A j \in 1 .. Len(u) + Len(w) : (u \o w)[j] = IF j <= Len(u) THEN u[j] ELSE w[j - Len(u)]
    BY ONLY <1>2, <1>6, ConcatProperties, Zenon
  <2>2. QED BY ONLY <1>2, <1>5, <1>6, <2>1, Zenon
<1>8. n + (1 + (k - n)) = k + 1
  BY <1>1
<1>9. ASSUME NEW j \in 1 .. n PROVE r[j] = s[j]
  <2>1. j \in 1 .. k + 1 /\ j <= n
    BY <1>1
  <2>2. r[j] = u[j]
    BY ONLY <1>7, <1>8, <2>1, Zenon
  <2>3. QED BY <1>2, <2>2
<1>10. r[n + 1] = b
  <2>1. n + 1 \in 1 .. k + 1 /\ ~(n + 1 <= n) /\ (n + 1) - n = 1 /\ 1 \in 1 .. 1 + (k - n) /\ 1 <= 1
    BY <1>1
  <2>2. r[n + 1] = w[(n + 1) - n]
    BY ONLY <1>7, <1>8, <2>1, Zenon
  <2>3. w[1] = <<b>>[1]
    BY ONLY <1>6, <2>1, Zenon
  <2>4. QED BY ONLY <1>4, <2>1, <2>2, <2>3, Zenon
<1>11. ASSUME NEW j \in n + 1 .. k PROVE r[j + 1] = s[j]
  <2>1. /\ j + 1 \in 1 .. k + 1 /\ ~(j + 1 <= n)
        /\ (j + 1) - n \in 1 .. 1 + (k - n) /\ ~((j + 1) - n <= 1)
        /\ ((j + 1) - n) - 1 = j - n /\ j - n \in 1 .. k - n /\ n + (j - n) = j
    BY <1>1
  <2>2. r[j + 1] = w[(j + 1) - n]
    BY ONLY <1>7, <1>8, <2>1, Zenon
  <2>3. w[(j + 1) - n] = v[((j + 1) - n) - 1]
    BY ONLY <1>6, <2>1, Zenon
  <2>4. v[j - n] = s[n + (j - n)]
    BY ONLY <1>3, <2>1, Zenon
  <2>5. QED BY ONLY <2>1, <2>2, <2>3, <2>4, Zenon
<1>12. QED BY <1>7, <1>8, <1>9, <1>10, <1>11 DEF k, r

\* A sequence without its last element.
ButLast(s) == SubSeq(s, 1, Len(s) - 1)

LEMMA FrontOf ==
  ASSUME NEW S, NEW s \in Seq(S), s # <<>>
  PROVE  /\ Len(s) \in Nat /\ Len(s) >= 1
         /\ ButLast(s) \in Seq(S) /\ Len(ButLast(s)) = Len(s) - 1
         /\ \A i \in 1 .. Len(s) - 1 : ButLast(s)[i] = s[i]
         /\ ButLast(s) = <<>> <=> Len(s) = 1
<1>1. ButLast(s) = SubSeq(s, 1, Len(s) - 1)
  BY DEF ButLast
<1>2. Len(s) \in Nat /\ Len(s) >= 1
  OBVIOUS
<1>3. /\ SubSeq(s, 1, Len(s) - 1) \in Seq(S) /\ Len(SubSeq(s, 1, Len(s) - 1)) = Len(s) - 1
      /\ \A i \in 1 .. Len(s) - 1 : SubSeq(s, 1, Len(s) - 1)[i] = s[i]
  <2> DEFINE n == Len(s) - 1
  <2>1. \A i \in 1 .. n : s[i] \in S
    BY <1>2
  <2>2. n \in Nat /\ 1 \in Int
    BY <1>2
  <2> HIDE DEF n
  <2>3. /\ SubSeq(s, 1, n) \in Seq(S)
        /\ Len(SubSeq(s, 1, n)) = IF 1 <= n THEN n - 1 + 1 ELSE 0
        /\ \A i \in 1 .. n - 1 + 1 : SubSeq(s, 1, n)[i] = s[1 + i - 1]
    BY <2>1, <2>2, SubSeqProperties
  <2>4. n - 1 + 1 = n /\ (~(1 <= n) => n = 0) /\ (\A i \in 1 .. n : 1 + i - 1 = i)
    BY <2>2
  <2>5. \A i \in 1 .. n : SubSeq(s, 1, n)[i] = s[i]
    BY ONLY <2>3, <2>4, Zenon
  <2>6. QED BY <2>2, <2>3, <2>4, <2>5 DEF n
<1>4. Len(s) - 1 = 0 => ButLast(s) = <<>>
  BY <1>1, <1>2, SubSeqEmpty
<1>5. ButLast(s) = <<>> => Len(ButLast(s)) = 0
  OBVIOUS
<1>6. Len(s) - 1 = 0 <=> Len(s) = 1
  BY <1>2
<1>7. QED BY <1>1, <1>2, <1>3, <1>4, <1>5, <1>6

-----------------------------------------------------------------------------
(* The context switch and the critical sections.                           *)

\* Whatever the application does.
SwitchInv ==
  /\ SwitchTypeOK /\ manner \in Manner
  /\ \A t \in Threads : where[t] \in {"code", "yield", "block"} /\ ~frame[t].masked
  /\ where[Main] \in {"code", "starting", "gone"}
  /\ where[Main] = "code" => on = Main
  /\ current = Main <=> where[Main] = "code"
  /\ irq => ~masked
  /\ pending => irq /\ where[Main] # "code"

\* If main starts the scheduler with IRQs masked: until then nothing comes
\* between, and from then on the scheduler's current thread is the one on the
\* CPU, and every other lies in its own frame.
StartedInv ==
  manner.masked_start =>
    /\ \A t \in Threads : on # t => frame[t] = [ctx |-> t, masked |-> FALSE]
    /\ where[Main] # "gone" => on = Main /\ masked
    /\ where[Main] = "gone" =>
         /\ on \in Threads
         /\ pending => leaving = on /\ entering = current
         /\ ~pending => current = on

\* If guards nest: the outermost has found IRQs on, and a thread outside its
\* guards has them on, or will have when its call returns.
MaskInv ==
  manner.scoped =>
    \A t \in Threads :
      /\ guards[t] # <<>> => ~guards[t][1]
      /\ guards[t] = <<>> /\ where[t] # "code" => ~kept[t]
      /\ guards[t] = <<>> /\ where[t] = "code" /\ on = t => ~masked

\* If besides no thread yields, sleeps or blocks inside its guards.
ExcludeInv ==
  manner.scoped /\ ~manner.calls =>
    \A t \in Threads : guards[t] # <<>> =>
      /\ on = t /\ masked /\ where[t] = "code"
      /\ \A i \in 2 .. Len(guards[t]) : guards[t][i]

LEMMA SwitchStart ==
  ASSUME SwitchInit
  PROVE  SwitchInv /\ StartedInv /\ MaskInv /\ ExcludeInv
<1>1. /\ manner \in Manner /\ Main \notin Threads
      /\ on = Main /\ masked = manner.masked_start /\ irq = FALSE
      /\ where = [c \in Threads \cup {Main} |-> "code"]
      /\ kept = [t \in Threads |-> FALSE]
      /\ guards = [t \in Threads |-> <<>>]
      /\ frame = [t \in Threads |-> [ctx |-> t, masked |-> FALSE]]
      /\ current = Main
      /\ pending = FALSE /\ leaving = Main /\ entering = Main
  BY SwitchAssumption DEF SwitchInit
<1>2. SwitchTypeOK
  <2>1. manner.masked_start \in BOOLEAN
    BY <1>1 DEF Manner
  <2>2. guards \in [Threads -> Seq(BOOLEAN)]
    <3>1. <<>> \in Seq(BOOLEAN)
      OBVIOUS
    <3>2. QED BY <1>1, <3>1
  <2>3. frame \in [Threads -> [ctx : Threads \cup {Main}, masked : BOOLEAN]]
    BY <1>1
  <2>4. QED BY <1>1, <2>1, <2>2, <2>3 DEF SwitchTypeOK
<1>3. SwitchInv
  BY <1>1, <1>2 DEF SwitchInv
<1>4. StartedInv
  BY <1>1 DEF StartedInv
<1>5. MaskInv
  BY <1>1 DEF MaskInv
<1>6. ExcludeInv
  BY <1>1 DEF ExcludeInv
<1>7. QED BY <1>3, <1>4, <1>5, <1>6

LEMMA SwitchTypes ==
  ASSUME SwitchInv, SwitchStep
  PROVE  SwitchInv'
<1>1. /\ Main \notin Threads
      /\ on \in Threads \cup {Main} /\ current \in Threads \cup {Main}
      /\ masked \in BOOLEAN /\ irq \in BOOLEAN /\ pending \in BOOLEAN
      /\ where \in [Threads \cup {Main} -> {"code", "yield", "block", "starting", "gone"}]
      /\ kept \in [Threads -> BOOLEAN] /\ guards \in [Threads -> Seq(BOOLEAN)]
      /\ frame \in [Threads -> [ctx : Threads \cup {Main}, masked : BOOLEAN]]
      /\ \A t \in Threads : where[t] \in {"code", "yield", "block"} /\ ~frame[t].masked
      /\ where[Main] \in {"code", "starting", "gone"}
      /\ where[Main] = "code" => on = Main
      /\ current = Main <=> where[Main] = "code"
      /\ irq => ~masked
      /\ pending => irq /\ where[Main] # "code"
      /\ pending => leaving \in Threads /\ entering \in Threads
      /\ ~pending => leaving = Main /\ entering = Main
      /\ manner \in Manner
  BY SwitchAssumption DEF SwitchInv, SwitchTypeOK
<1>2. SUFFICES
        /\ on' \in Threads \cup {Main} /\ current' \in Threads \cup {Main}
        /\ masked' \in BOOLEAN /\ irq' \in BOOLEAN /\ pending' \in BOOLEAN
        /\ where' \in [Threads \cup {Main} -> {"code", "yield", "block", "starting", "gone"}]
        /\ kept' \in [Threads -> BOOLEAN] /\ guards' \in [Threads -> Seq(BOOLEAN)]
        /\ frame' \in [Threads -> [ctx : Threads \cup {Main}, masked : BOOLEAN]]
        /\ \A t \in Threads : where'[t] \in {"code", "yield", "block"} /\ ~frame'[t].masked
        /\ where'[Main] \in {"code", "starting", "gone"}
        /\ where'[Main] = "code" => on' = Main
        /\ current' = Main <=> where'[Main] = "code"
        /\ irq' => ~masked'
        /\ pending' => irq' /\ where'[Main] # "code"
        /\ pending' => leaving' \in Threads /\ entering' \in Threads
        /\ ~pending' => leaving' = Main /\ entering' = Main
        /\ manner' \in Manner
  BY DEF SwitchInv, SwitchTypeOK
<1>3. CASE Lock
  <2>1. Append(guards[on], masked) \in Seq(BOOLEAN)
    BY <1>1, <1>3 DEF Lock, InThread
  <2>2. QED BY <1>1, <1>3, <2>1 DEF Lock, InThread
<1>4. CASE Drop
  <2>1. PICK i \in DOMAIN guards[on] :
          /\ masked' = guards[on][i]
          /\ guards' = [guards EXCEPT ![on] = SubSeq(@, 1, i - 1) \o SubSeq(@, i + 1, Len(@))]
    BY <1>4 DEF Drop
  <2>2. /\ on \in Threads /\ ~irq /\ guards[on] \in Seq(BOOLEAN) /\ i \in 1 .. Len(guards[on])
        /\ UNCHANGED <<on, irq, where, kept, frame, current, pending, leaving, entering, manner>>
    <3>1. /\ on \in Threads /\ ~irq
          /\ UNCHANGED <<on, irq, where, kept, frame, current, pending, leaving, entering, manner>>
      BY <1>4 DEF Drop, InThread
    <3>2. guards[on] \in Seq(BOOLEAN)
      BY <1>1, <3>1
    <3>3. DOMAIN guards[on] = 1 .. Len(guards[on])
      BY <3>2, LenProperties
    <3>4. QED BY <2>1, <3>1, <3>2, <3>3
  <2>3. SubSeq(guards[on], 1, i - 1) \o SubSeq(guards[on], i + 1, Len(guards[on])) \in Seq(BOOLEAN)
    BY <2>2, LeftOut
  <2>4. masked' \in BOOLEAN
    BY <2>1, <2>2
  <2>5. guards' \in [Threads -> Seq(BOOLEAN)]
    BY <1>1, <2>1, <2>3
  <2>6. QED BY <1>1, <2>2, <2>4, <2>5
<1>5. ASSUME NEW kind \in {"yield", "block"}, CallSwitches(kind)
      PROVE  SwitchInv'
  <2>1. PICK next \in Threads \ {current} : ContextSwitch(next)
    BY <1>5 DEF CallSwitches
  <2>2. /\ on \in Threads /\ ~irq
        /\ where' = [where EXCEPT ![on] = kind]
        /\ kept' = [kept EXCEPT ![on] = IF kind = "yield" THEN masked ELSE FALSE]
        /\ UNCHANGED <<irq, guards, pending, leaving, entering, manner>>
        /\ frame' = [frame EXCEPT ![current] = [ctx |-> on, masked |-> FALSE]]
        /\ on' = frame[next].ctx /\ masked' = frame[next].masked /\ current' = next
    BY <1>5, <2>1 DEF CallSwitches, InThread, ContextSwitch, Load
  <2>3. /\ where' \in [Threads \cup {Main} -> {"code", "yield", "block", "starting", "gone"}]
        /\ \A t \in Threads : where'[t] \in {"code", "yield", "block"}
        /\ where'[Main] = where[Main] /\ where[Main] # "code"
    BY <1>1, <2>2
  <2>4. /\ frame' \in [Threads -> [ctx : Threads \cup {Main}, masked : BOOLEAN]]
        /\ \A t \in Threads : ~frame'[t].masked
    BY <1>1, <2>2
  <2>5. kept' \in [Threads -> BOOLEAN]
    BY <1>1, <2>2
  <2>6. on' \in Threads \cup {Main} /\ masked' = FALSE /\ current' \in Threads
    BY <1>1, <2>1, <2>2
  <2>7. QED BY <1>1, <2>2, <2>3, <2>4, <2>5, <2>6 DEF SwitchInv, SwitchTypeOK
<1>6. CASE CallReturns
  BY <1>1, <1>6 DEF CallReturns, InThread
<1>7. CASE StartSets
  BY <1>1, <1>7 DEF StartSets
<1>8. CASE StartSwitches
  BY <1>1, <1>8 DEF StartSwitches, Load
<1>9. CASE EnterIrq
  BY <1>1, <1>9 DEF EnterIrq
<1>10. CASE RequestSwitch
  BY <1>1, <1>10 DEF RequestSwitch
<1>11. CASE ExitIrq
  <2>1. CASE pending
    <3>1. /\ frame' = [frame EXCEPT ![leaving] = [ctx |-> on, masked |-> FALSE]]
          /\ on' = frame'[entering].ctx /\ masked' = frame'[entering].masked
      BY <1>11, <2>1 DEF ExitIrq, Load
    <3>2. /\ frame' \in [Threads -> [ctx : Threads \cup {Main}, masked : BOOLEAN]]
          /\ \A t \in Threads : ~frame'[t].masked
      BY <1>1, <3>1
    <3>3. /\ on' \in Threads \cup {Main} /\ masked' = FALSE
      BY <1>1, <2>1, <3>1, <3>2
    <3>4. where[Main] # "code"
      BY <1>1, <2>1
    <3>5. QED BY <1>1, <1>11, <3>2, <3>3, <3>4 DEF ExitIrq
  <2>2. CASE ~pending
    BY <1>1, <1>11, <2>2 DEF ExitIrq
  <2>3. QED BY <2>1, <2>2
<1>12. QED BY <1>3, <1>4, <1>5, <1>6, <1>7, <1>8, <1>9, <1>10, <1>11
       DEF SwitchStep, SwitchInv, SwitchTypeOK

\* Guards that nest are dropped from the end.
LEMMA DropsLast ==
  ASSUME Drop, on \in Threads, manner.scoped, guards \in [Threads -> Seq(BOOLEAN)]
  PROVE  /\ guards[on] # <<>> /\ masked' = guards[on][Len(guards[on])]
         /\ guards' = [guards EXCEPT ![on] = ButLast(@)]
<1>1. PICK i \in DOMAIN guards[on] :
        /\ i = Len(guards[on]) /\ masked' = guards[on][i]
        /\ guards' = [guards EXCEPT ![on] = SubSeq(@, 1, i - 1) \o SubSeq(@, i + 1, Len(@))]
  BY DEF Drop
<1>2. guards[on] \in Seq(BOOLEAN)
  OBVIOUS
<1>3. guards[on] # <<>> /\ Len(guards[on]) \in Nat /\ Len(guards[on]) >= 1
  BY <1>1, <1>2
<1>4. SubSeq(guards[on], i + 1, Len(guards[on])) = <<>>
  BY <1>1, <1>2, <1>3
<1>5. SubSeq(guards[on], 1, i - 1) \o <<>> = SubSeq(guards[on], 1, i - 1)
  BY <1>2, <1>3, <1>1
<1>6. SubSeq(guards[on], 1, i - 1) = ButLast(guards[on])
  BY <1>1 DEF ButLast
<1>7. QED BY <1>1, <1>3, <1>4, <1>5, <1>6

\* Each of the other parts is kept by every step.
LEMMA StartedStep ==
  ASSUME SwitchInv, SwitchInv', StartedInv, SwitchStep
  PROVE  StartedInv'
<1>1. /\ Main \notin Threads
      /\ on \in Threads \cup {Main} /\ current \in Threads \cup {Main}
      /\ where \in [Threads \cup {Main} -> {"code", "yield", "block", "starting", "gone"}]
      /\ frame \in [Threads -> [ctx : Threads \cup {Main}, masked : BOOLEAN]]
      /\ \A t \in Threads : where[t] \in {"code", "yield", "block"} /\ ~frame[t].masked
      /\ where[Main] \in {"code", "starting", "gone"}
      /\ current = Main <=> where[Main] = "code"
      /\ irq => ~masked
      /\ pending => irq /\ where[Main] # "code"
      /\ pending => leaving \in Threads /\ entering \in Threads
  BY SwitchAssumption DEF SwitchInv, SwitchTypeOK
<1>2. SUFFICES ASSUME manner.masked_start, manner' = manner
               PROVE
        /\ \A t \in Threads : on' # t => frame'[t] = [ctx |-> t, masked |-> FALSE]
        /\ where'[Main] # "gone" => on' = Main /\ masked'
        /\ where'[Main] = "gone" =>
             /\ on' \in Threads
             /\ pending' => leaving' = on' /\ entering' = current'
             /\ ~pending' => current' = on'
  BY DEF StartedInv, SwitchStep, Lock, Drop, CallSwitches, CallReturns, StartSets,
         StartSwitches, EnterIrq, RequestSwitch, ExitIrq
<1>3. /\ \A t \in Threads : on # t => frame[t] = [ctx |-> t, masked |-> FALSE]
      /\ where[Main] # "gone" => on = Main /\ masked
      /\ where[Main] = "gone" =>
           /\ on \in Threads
           /\ pending => leaving = on /\ entering = current
           /\ ~pending => current = on
  BY <1>2 DEF StartedInv
<1>4. CASE Lock \/ Drop \/ CallReturns
  <2>1. /\ on \in Threads
        /\ where'[Main] = where[Main]
        /\ UNCHANGED <<on, frame, current, pending, leaving, entering>>
    BY <1>1, <1>4 DEF Lock, Drop, CallReturns, InThread
  <2>2. QED BY <1>1, <1>3, <2>1
<1>5. ASSUME NEW kind \in {"yield", "block"}, CallSwitches(kind)
      PROVE  StartedInv'
  <2>1. PICK next \in Threads \ {current} : ContextSwitch(next)
    BY <1>5 DEF CallSwitches
  <2>2. /\ on \in Threads /\ ~irq /\ where'[Main] = where[Main]
        /\ UNCHANGED <<pending, leaving, entering>>
        /\ frame' = [frame EXCEPT ![current] = [ctx |-> on, masked |-> FALSE]]
        /\ on' = frame[next].ctx /\ current' = next
    BY <1>1, <1>5, <2>1 DEF CallSwitches, InThread, ContextSwitch, Load
  <2>3. where[Main] = "gone" /\ ~pending /\ current = on
    BY <1>1, <1>3, <2>2
  <2>4. frame[next] = [ctx |-> next, masked |-> FALSE] /\ on' = next
    BY <1>3, <2>1, <2>2, <2>3
  <2>5. \A t \in Threads : next # t => frame'[t] = [ctx |-> t, masked |-> FALSE]
    BY <1>1, <1>3, <2>2, <2>3
  <2>6. QED BY <1>1, <2>1, <2>2, <2>3, <2>4, <2>5 DEF StartedInv
<1>6. CASE StartSets
  BY <1>1, <1>3, <1>6 DEF StartSets
<1>7. CASE StartSwitches
  <2>1. /\ on = Main /\ ~irq /\ where[Main] = "starting" /\ where'[Main] = "gone"
        /\ on' = frame[current].ctx
        /\ UNCHANGED <<frame, current, pending, leaving, entering>>
    BY <1>1, <1>7 DEF StartSwitches, Load
  <2>2. current \in Threads /\ ~pending
    BY <1>1, <2>1
  <2>3. on' = current
    BY <1>1, <1>3, <2>1, <2>2
  <2>4. QED BY <1>1, <1>3, <2>1, <2>2, <2>3
<1>8. CASE EnterIrq
  BY <1>1, <1>3, <1>8 DEF EnterIrq
<1>9. CASE RequestSwitch
  <2>1. where[Main] = "gone"
    BY <1>1, <1>3, <1>9 DEF RequestSwitch
  <2>2. QED BY <1>1, <1>3, <1>9, <2>1 DEF RequestSwitch
<1>10. CASE ExitIrq
  <2>1. where[Main] = "gone" /\ on \in Threads
    BY <1>1, <1>3, <1>10 DEF ExitIrq
  <2>2. CASE pending
    <3>1. /\ frame' = [frame EXCEPT ![on] = [ctx |-> on, masked |-> FALSE]]
          /\ on' = frame'[current].ctx
          /\ UNCHANGED <<where, current>> /\ ~pending'
      BY <1>3, <1>10, <2>1, <2>2 DEF ExitIrq, Load
    <3>2. \A t \in Threads : frame'[t] = [ctx |-> t, masked |-> FALSE]
      BY <1>1, <1>3, <2>1, <3>1
    <3>3. current \in Threads
      BY <1>1, <2>1
    <3>4. on' = current
      <4>1. frame'[current] = [ctx |-> current, masked |-> FALSE]
        BY <3>2, <3>3
      <4>2. QED BY <3>1, <4>1
    <3>5. QED BY <2>1, <3>1, <3>2, <3>3, <3>4
  <2>3. CASE ~pending
    BY <1>3, <1>10, <2>1, <2>3 DEF ExitIrq
  <2>4. QED BY <2>2, <2>3
<1>11. QED BY <1>2, <1>4, <1>5, <1>6, <1>7, <1>8, <1>9, <1>10 DEF SwitchStep, StartedInv

LEMMA MaskStep ==
  ASSUME SwitchInv, MaskInv, SwitchStep
  PROVE  MaskInv'
<1>1. /\ Main \notin Threads
      /\ guards \in [Threads -> Seq(BOOLEAN)] /\ kept \in [Threads -> BOOLEAN]
      /\ where \in [Threads \cup {Main} -> {"code", "yield", "block", "starting", "gone"}]
      /\ frame \in [Threads -> [ctx : Threads \cup {Main}, masked : BOOLEAN]]
      /\ \A t \in Threads : ~frame[t].masked
      /\ current \in Threads \cup {Main}
      /\ current = Main <=> where[Main] = "code"
      /\ irq => ~masked
      /\ pending => leaving \in Threads /\ entering \in Threads
  BY SwitchAssumption DEF SwitchInv, SwitchTypeOK
<1>2. SUFFICES ASSUME manner.scoped, NEW t \in Threads
               PROVE  /\ guards'[t] # <<>> => ~guards'[t][1]
                      /\ guards'[t] = <<>> /\ where'[t] # "code" => ~kept'[t]
                      /\ guards'[t] = <<>> /\ where'[t] = "code" /\ on' = t => ~masked'
  <2>1. manner' = manner
    BY DEF SwitchStep, Lock, Drop, CallSwitches, CallReturns, StartSets, StartSwitches,
           EnterIrq, RequestSwitch, ExitIrq
  <2>2. QED BY <1>2, <2>1 DEF MaskInv
<1>3. /\ guards[t] # <<>> => ~guards[t][1]
      /\ guards[t] = <<>> /\ where[t] # "code" => ~kept[t]
      /\ guards[t] = <<>> /\ where[t] = "code" /\ on = t => ~masked
  BY <1>2 DEF MaskInv
<1>4. CASE Lock
  <2>1. /\ where[on] = "code" /\ UNCHANGED <<on, where, kept>>
        /\ guards' = [guards EXCEPT ![on] = Append(@, masked)]
    BY <1>4 DEF Lock
  <2>2. CASE t = on
    <3>1. guards'[t] = Append(guards[t], masked) /\ guards[t] \in Seq(BOOLEAN)
      BY <1>1, <2>1, <2>2
    <3>2. guards'[t] # <<>> /\ (guards[t] = <<>> => guards'[t][1] = masked)
                           /\ (guards[t] # <<>> => guards'[t][1] = guards[t][1])
      BY <3>1
    <3>3. QED BY <1>3, <2>1, <2>2, <3>2
  <2>3. CASE t # on
    <3>1. guards'[t] = guards[t]
      BY <1>1, <2>1, <2>3
    <3>2. QED BY <1>3, <2>1, <2>3, <3>1
  <2>4. QED BY <2>2, <2>3
<1>5. CASE Drop
  <2>1. /\ on \in Threads /\ where[on] = "code" /\ UNCHANGED <<on, where, kept>>
    BY <1>5 DEF Drop, InThread
  <2>2. /\ guards[on] # <<>> /\ masked' = guards[on][Len(guards[on])]
        /\ guards' = [guards EXCEPT ![on] = ButLast(@)]
    BY <1>1, <1>2, <1>5, <2>1, DropsLast
  <2>3. CASE t = on
    <3>1. guards'[t] = ButLast(guards[t])
      BY <1>1, <2>2, <2>3
    <3>2. /\ Len(guards[t]) = 1 <=> guards'[t] = <<>>
          /\ guards'[t] # <<>> => guards'[t][1] = guards[t][1]
      <4>1. guards[t] \in Seq(BOOLEAN) /\ guards[t] # <<>>
        BY <1>1, <2>2, <2>3
      <4>2. /\ Len(guards[t]) \in Nat /\ Len(guards[t]) >= 1
            /\ \A i \in 1 .. Len(guards[t]) - 1 : guards'[t][i] = guards[t][i]
            /\ guards'[t] = <<>> <=> Len(guards[t]) = 1
        BY <3>1, <4>1, FrontOf
      <4>3. Len(guards[t]) # 1 => 1 \in 1 .. Len(guards[t]) - 1
        <5> DEFINE n == Len(guards[t])
        <5>1. n \in Nat /\ n >= 1
          BY <4>2
        <5> HIDE DEF n
        <5>2. n # 1 => 1 \in 1 .. n - 1
          BY <5>1
        <5>3. QED BY <5>2 DEF n
      <4>4. QED BY <4>2, <4>3
    <3>3. QED BY <1>3, <2>1, <2>2, <2>3, <3>2
  <2>4. CASE t # on
    <3>1. guards'[t] = guards[t]
      BY <1>1, <2>2, <2>4
    <3>2. QED BY <1>3, <2>1, <2>4, <3>1
  <2>5. QED BY <2>3, <2>4
<1>6. ASSUME NEW kind \in {"yield", "block"}, CallSwitches(kind)
      PROVE  /\ guards'[t] # <<>> => ~guards'[t][1]
             /\ guards'[t] = <<>> /\ where'[t] # "code" => ~kept'[t]
             /\ guards'[t] = <<>> /\ where'[t] = "code" /\ on' = t => ~masked'
  <2>1. PICK next \in Threads \ {current} : ContextSwitch(next)
    BY <1>6 DEF CallSwitches
  <2>2. /\ where[on] = "code" /\ on \in Threads /\ guards' = guards
        /\ where' = [where EXCEPT ![on] = kind]
        /\ kept' = [kept EXCEPT ![on] = IF kind = "yield" THEN masked ELSE FALSE]
        /\ masked' = frame[next].masked
    BY <1>6, <2>1 DEF CallSwitches, ContextSwitch, Load, InThread
  <2>3. ~masked'
    BY <1>1, <2>2
  <2>4. CASE t = on
    <3>1. guards[t] = <<>> => ~masked
      BY <1>3, <2>2, <2>4
    <3>2. kept'[t] = IF kind = "yield" THEN masked ELSE FALSE
      BY <1>1, <2>2, <2>4
    <3>3. QED BY <1>3, <2>2, <2>3, <3>1, <3>2
  <2>5. CASE t # on
    <3>1. where'[t] = where[t] /\ kept'[t] = kept[t]
      BY <1>1, <2>2, <2>5
    <3>2. QED BY <1>3, <2>2, <2>3, <3>1
  <2>6. QED BY <2>4, <2>5
<1>7. CASE CallReturns
  <2>1. /\ where[on] # "code" /\ masked' = kept[on] /\ on \in Threads
        /\ where' = [where EXCEPT ![on] = "code"]
        /\ UNCHANGED <<on, kept, guards>>
    BY <1>7 DEF CallReturns, InThread
  <2>2. t # on => where'[t] = where[t]
    BY <1>1, <2>1
  <2>3. t = on => where'[t] = "code"
    BY <1>1, <2>1
  <2>4. QED BY <1>3, <2>1, <2>2, <2>3
<1>8. CASE StartSets
  BY <1>1, <1>2, <1>3, <1>8 DEF StartSets
<1>9. CASE StartSwitches
  <2>1. /\ masked' = frame[current].masked /\ current \in Threads
        /\ where'[t] = where[t] /\ UNCHANGED <<kept, guards>>
    BY <1>1, <1>2, <1>9 DEF StartSwitches, Load
  <2>2. QED BY <1>1, <1>3, <2>1
<1>10. CASE EnterIrq \/ RequestSwitch
  BY <1>3, <1>10 DEF EnterIrq, RequestSwitch
<1>11. CASE ExitIrq
  <2>1. UNCHANGED <<where, kept, guards>>
    BY <1>11 DEF ExitIrq
  <2>2. ~masked'
    <3>1. CASE pending
      <4>1. /\ frame' = [frame EXCEPT ![leaving] = [ctx |-> on, masked |-> FALSE]]
            /\ masked' = frame'[entering].masked
        BY <1>11, <3>1 DEF ExitIrq, Load
      <4>2. QED BY <1>1, <3>1, <4>1
    <3>2. CASE ~pending
      BY <1>1, <1>11, <3>2 DEF ExitIrq
    <3>3. QED BY <3>1, <3>2
  <2>3. QED BY <1>3, <2>1, <2>2
<1>12. QED BY <1>4, <1>5, <1>6, <1>7, <1>8, <1>9, <1>10, <1>11 DEF SwitchStep

LEMMA ExcludeStep ==
  ASSUME SwitchInv, ExcludeInv, SwitchStep
  PROVE  ExcludeInv'
<1>1. /\ Main \notin Threads
      /\ guards \in [Threads -> Seq(BOOLEAN)]
      /\ where \in [Threads \cup {Main} -> {"code", "yield", "block", "starting", "gone"}]
      /\ irq => ~masked
  BY SwitchAssumption DEF SwitchInv, SwitchTypeOK
<1>2. SUFFICES ASSUME manner.scoped, ~manner.calls, NEW t \in Threads, guards'[t] # <<>>
               PROVE  /\ on' = t /\ masked' /\ where'[t] = "code"
                      /\ \A i \in 2 .. Len(guards'[t]) : guards'[t][i]
  <2>1. manner' = manner
    BY DEF SwitchStep, Lock, Drop, CallSwitches, CallReturns, StartSets, StartSwitches,
           EnterIrq, RequestSwitch, ExitIrq
  <2>2. QED BY <1>2, <2>1 DEF ExcludeInv
<1>3. \A u \in Threads : guards[u] # <<>> =>
        /\ on = u /\ masked /\ where[u] = "code"
        /\ \A i \in 2 .. Len(guards[u]) : guards[u][i]
  BY <1>2 DEF ExcludeInv
<1>4. CASE Lock
  <2>1. /\ where[on] = "code" /\ on \in Threads /\ masked' /\ UNCHANGED <<on, where>>
        /\ guards' = [guards EXCEPT ![on] = Append(@, masked)]
    BY <1>4 DEF Lock, InThread
  <2>2. t = on
    BY <1>1, <1>2, <1>3, <2>1
  <2>3. guards'[t] = Append(guards[t], masked) /\ guards[t] \in Seq(BOOLEAN)
    BY <1>1, <2>1, <2>2
  <2>4. ASSUME NEW i \in 2 .. Len(guards'[t])
        PROVE  guards'[t][i]
    <3>1. i \in 2 .. Len(guards[t]) => guards'[t][i] = guards[t][i]
      BY <2>3
    <3>2. i \notin 2 .. Len(guards[t]) => guards'[t][i] = masked /\ guards[t] # <<>>
      BY <2>3
    <3>3. i \in 2 .. Len(guards[t]) => guards[t] # <<>>
      BY <2>3
    <3>4. QED BY <1>3, <3>1, <3>2, <3>3
  <2>5. QED BY <2>1, <2>2, <2>4
<1>5. CASE Drop
  <2>1. /\ on \in Threads /\ where[on] = "code" /\ UNCHANGED <<on, where>>
    BY <1>5 DEF Drop, InThread
  <2>2. /\ guards[on] # <<>> /\ masked' = guards[on][Len(guards[on])]
        /\ guards' = [guards EXCEPT ![on] = ButLast(@)]
    BY <1>1, <1>2, <1>5, <2>1, DropsLast
  <2>3. t = on
    BY <1>1, <1>2, <1>3, <2>1, <2>2
  <2>4. guards'[t] = ButLast(guards[t])
    BY <1>1, <2>2, <2>3
  <2>5. /\ Len(guards[t]) \in 2 .. Len(guards[t])
        /\ \A i \in 2 .. Len(guards'[t]) : i \in 2 .. Len(guards[t]) /\ guards'[t][i] = guards[t][i]
    BY <1>1, <1>2, <2>2, <2>3, <2>4, FrontOf
  <2>6. QED BY <1>3, <2>1, <2>2, <2>3, <2>5
<1>6. ASSUME NEW kind \in {"yield", "block"}, CallSwitches(kind)
      PROVE  FALSE
  BY <1>2, <1>3, <1>6 DEF CallSwitches, InThread
<1>7. CASE CallReturns
  BY <1>2, <1>3, <1>7 DEF CallReturns, InThread
<1>8. CASE StartSets \/ StartSwitches
  BY <1>1, <1>2, <1>3, <1>8 DEF StartSets, StartSwitches
<1>9. CASE EnterIrq \/ RequestSwitch
  BY <1>2, <1>3, <1>9 DEF EnterIrq, RequestSwitch
<1>10. CASE ExitIrq
  BY <1>1, <1>2, <1>3, <1>10 DEF ExitIrq
<1>11. QED BY <1>4, <1>5, <1>6, <1>7, <1>8, <1>9, <1>10 DEF SwitchStep

\* What another part does leaves these variables alone.
LEMMA DeviceSwitch ==
  ASSUME [DevicesNext]_deviceVars
  PROVE  [SwitchStep]_switchVars
BY DEF DevicesNext, Only, deviceVars

\* Every context is where the scheduler will look for it, and critical sections
\* and IRQs are given back to the thread they were taken from, for any number of
\* threads and of open guards and whatever the application does (asm/context.s,
\* asm/startup.s:136, ipc/spinlock.rs:33).
THEOREM ContextsAndIrqsAreKept == DevicesSpec => []ThreadsIntact
<1> DEFINE Inv == SwitchInv /\ StartedInv /\ MaskInv /\ ExcludeInv
<1>1. DevicesInit => Inv
  BY SwitchStart DEF DevicesInit
<1>2. Inv /\ [DevicesNext]_deviceVars => Inv'
  <2>1. ASSUME Inv, SwitchStep PROVE Inv'
    BY <2>1, SwitchTypes, StartedStep, MaskStep, ExcludeStep
  <2>2. ASSUME Inv, UNCHANGED switchVars PROVE Inv'
    BY <2>2 DEF switchVars, SwitchInv, SwitchTypeOK, StartedInv, MaskInv, ExcludeInv
  <2>3. QED BY <2>1, <2>2, DeviceSwitch
<1>3. Inv => ThreadsIntact
  BY SwitchAssumption DEF SwitchInv, SwitchTypeOK, StartedInv, MaskInv, ExcludeInv, ThreadsIntact,
     ContextsIntact, CurrentIsOn, GuardExcludes, IrqsRestored, InThread
<1>4. QED BY <1>1, <1>2, <1>3, PTL DEF DevicesSpec

-----------------------------------------------------------------------------
(* The heap.  What dealloc finds below a payload is the word alloc found    *)
(* there, the next pointer of the last block of the list: so a freed block  *)
(* has size zero, is never handed out again, and only the last block of the *)
(* list, above everything handed out, ever serves.                          *)

HeapBlock == [at : Nat, size : Nat]
HeapEnd == HeapStart + HeapWords

\* The list s with the blocks V handed out.
ListOK(s) ==
  /\ s \in Seq(HeapBlock)
  /\ \A i, j \in 1 .. Len(s) : i < j => s[i].at < s[j].at
  /\ \A i \in 1 .. Len(s) : s[i].size # 0 =>
       i = Len(s) /\ s[i].at % 2 = 0 /\ HeapStart <= s[i].at /\ s[i].at + s[i].size <= HeapEnd

BlockOK(a) ==
  /\ a.at \in Nat /\ a.size \in Nat /\ a.asked \in Nat
  /\ a.at % 2 = 0 /\ a.ptr = a.at + 2 /\ a.asked + 2 <= a.size /\ 2 <= a.size /\ a.below = 0
  /\ HeapStart <= a.at /\ a.at + a.size <= HeapEnd

ClearOf(a, b) ==
  IF b.size = 0 THEN b.at < a.at \/ a.at + a.size <= b.at ELSE a.at + a.size <= b.at

Apart(a, b) == a.at + a.size <= b.at \/ b.at + b.size <= a.at

HeapGood(s, V) ==
  /\ ListOK(s)
  /\ \A a \in V : BlockOK(a)
  /\ \A a \in V, i \in 1 .. Len(s) : ClearOf(a, s[i])
  /\ \A a, b \in V : a # b => Apart(a, b)

\* What a request takes: an even number of words, the header's and the
\* alignment's among them.
LEMMA NeededIs ==
  ASSUME NEW size \in Nat
  PROVE  Needed(size) \in Nat /\ Needed(size) % 2 = 0 /\ Needed(size) >= size + 3
<1>1. Needed(size) = ((size + 1 + 2 + 2 - 1) \div 2) * 2
  BY DEF Needed, Up, ALLOC_HDR, ALIGN
<1>2. QED BY <1>1

LEMMA UpIs ==
  ASSUME NEW a \in Nat, a % 2 = 0
  PROVE  Up(a + ALLOC_HDR, ALIGN) = a + 2
BY DEF Up, ALLOC_HDR, ALIGN

\* The only block large enough is the last.
LEMMA FirstIsLast ==
  ASSUME ListOK(free), NEW n \in Nat, n # 0, \E i \in DOMAIN free : Fits(i, n)
  PROVE  /\ Len(free) \in Nat /\ Len(free) >= 1 /\ First(n) = Len(free)
         /\ free[Len(free)].at \in Nat /\ free[Len(free)].size \in Nat
         /\ free[Len(free)].size >= n
<1>1. free \in Seq(HeapBlock)
  BY DEF ListOK
<1>2. DOMAIN free = 1 .. Len(free) /\ Len(free) \in Nat
  BY <1>1, LenProperties
<1>3. \A i \in 1 .. Len(free) : free[i].at \in Nat /\ free[i].size \in Nat
  <2>1. \A i \in 1 .. Len(free) : free[i] \in HeapBlock
    BY <1>1, ElementOfSeq
  <2>2. QED BY <2>1 DEF HeapBlock
<1>4. \A i \in 1 .. Len(free) : Fits(i, n) => i = Len(free)
  BY <1>3 DEF ListOK, Fits
<1>5. Len(free) >= 1 /\ Fits(Len(free), n)
  <2>1. PICK i \in DOMAIN free : Fits(i, n)
    OBVIOUS
  <2>2. i \in 1 .. Len(free) /\ i = Len(free)
    BY <1>2, <1>4, <2>1
  <2>3. QED BY <1>2, <2>1, <2>2
<1>6. \E i \in DOMAIN free : Fits(i, n) /\ \A j \in 1 .. i - 1 : ~Fits(j, n)
  <2>1. \A j \in 1 .. Len(free) - 1 : ~Fits(j, n)
    <3> DEFINE m == Len(free)
    <3>1. m \in Nat /\ \A i \in 1 .. m : Fits(i, n) => i = m
      BY <1>2, <1>4
    <3> HIDE DEF m
    <3>2. \A j \in 1 .. m - 1 : j \in 1 .. m /\ j # m
      BY <3>1
    <3>3. \A j \in 1 .. m - 1 : ~Fits(j, n)
      BY ONLY <3>1, <3>2, Zenon
    <3>4. QED BY <3>3, Zenon DEF m
  <2>2. Len(free) \in DOMAIN free
    BY <1>2, <1>5
  <2>3. QED BY <1>5, <2>1, <2>2
<1>7. First(n) \in DOMAIN free /\ Fits(First(n), n)
  BY <1>6 DEF First
<1>8. QED BY <1>2, <1>3, <1>4, <1>5, <1>7 DEF Fits

\* What alloc_inner takes and leaves of the list: the last block, or its first n words.
CarveLeaves(c, n, m) ==
  /\ c.taken \in Nat /\ n <= c.taken /\ c.taken <= free[m].size
  /\ c.list \in Seq(HeapBlock)
  /\ \A j \in 1 .. m - 1 : c.list[j] = free[j]
  /\ \/ Len(c.list) = m - 1
     \/ /\ Len(c.list) = m /\ c.taken = n
        /\ c.list[m] = [at |-> free[m].at + n, size |-> free[m].size - n]

LEMMA CarveIs ==
  ASSUME ListOK(free), NEW n \in Nat, n # 0, n % 2 = 0, NEW m, m = Len(free),
         m \in Nat, m >= 1, free[m].at \in Nat, free[m].size \in Nat, free[m].size >= n,
         NEW c, c = Carve(m, n)
  PROVE  CarveLeaves(c, n, m)
<1>1. free \in Seq(HeapBlock) /\ DOMAIN free = 1 .. m
  BY LenProperties DEF ListOK
<1>2. CASE free[m].size - n >= FREE_HDR + ALIGN
  <2> DEFINE b == [at |-> free[m].at + n, size |-> free[m].size - n]
  <2>1. c = [taken |-> n, list |-> [free EXCEPT ![m] = b]]
    BY <1>1, <1>2 DEF Carve
  <2>2. b \in HeapBlock
    BY DEF HeapBlock
  <2>3. m \in 1 .. m
    OBVIOUS
  <2> HIDE DEF b
  <2>4. /\ [free EXCEPT ![m] = b] \in Seq(HeapBlock)
        /\ Len([free EXCEPT ![m] = b]) = m
        /\ [free EXCEPT ![m] = b][m] = b
        /\ \A j \in 1 .. m - 1 : [free EXCEPT ![m] = b][j] = free[j]
    <3>1. /\ [free EXCEPT ![m] = b] \in Seq(HeapBlock)
          /\ Len([free EXCEPT ![m] = b]) = m
      BY ONLY <1>1, <2>2, <2>3, m = Len(free), ExceptSeq
    <3>2. \A j \in 1 .. m - 1 : j \in 1 .. m /\ j # m
      OBVIOUS
    <3>3. QED BY <1>1, <2>3, <3>1, <3>2, Zenon
  <2>5. QED BY <2>1, <2>4 DEF b, CarveLeaves
<1>3. CASE ~(free[m].size - n >= FREE_HDR + ALIGN)
  <2>1. c = [taken |-> free[m].size, list |-> Without(free, m)]
    BY <1>3 DEF Carve
  <2>2. /\ Without(free, m) \in Seq(HeapBlock) /\ Len(Without(free, m)) = m - 1
        /\ \A j \in 1 .. m - 1 : Without(free, m)[j] = IF j < m THEN free[j] ELSE free[j + 1]
    <3>1. m \in 1 .. Len(free)
      OBVIOUS
    <3>2. Without(free, m) = SubSeq(free, 1, m - 1) \o SubSeq(free, m + 1, Len(free))
      BY DEF Without
    <3>3. QED BY ONLY <1>1, <3>1, <3>2, LeftOut, m = Len(free)
  <2>3. \A j \in 1 .. m - 1 : j < m
    OBVIOUS
  <2>4. \A j \in 1 .. m - 1 : Without(free, m)[j] = free[j]
    BY <2>2, <2>3
  <2>5. c.taken = free[m].size /\ c.list = Without(free, m)
    BY <2>1
  <2>6. c.taken \in Nat /\ n <= c.taken /\ c.taken <= free[m].size
    BY <2>5
  <2>7. /\ c.list \in Seq(HeapBlock) /\ Len(c.list) = m - 1
        /\ \A j \in 1 .. m - 1 : c.list[j] = free[j]
    BY ONLY <2>2, <2>4, <2>5
  <2>8. QED BY <2>6, <2>7 DEF CarveLeaves
<1>4. QED BY <1>2, <1>3

\* alloc: the block it hands out is one more.
LEMMA TakeKeeps ==
  ASSUME HeapGood(free, live), NEW n \in Sizes, \E i \in DOMAIN free : Fits(i, Needed(n)),
         NEW L, L = Carve(First(Needed(n)), Needed(n)).list,
         NEW h, h = Handed(n, First(Needed(n)))
  PROVE  HeapGood(L, live \cup {h}) /\ h \notin live
<1> DEFINE m == Len(free)
           b == free[m]
           need == Needed(n)
           took == Carve(m, need).taken
<1>1. n \in Nat /\ n >= 1 /\ need \in Nat /\ need % 2 = 0 /\ need >= n + 3
  BY HeapAssumption, NeededIs
<1>2. ListOK(free)
  BY DEF HeapGood
<1>3. /\ m \in Nat /\ m >= 1 /\ First(need) = m
      /\ b.at \in Nat /\ b.size \in Nat /\ b.size >= need
  BY <1>1, <1>2, FirstIsLast
<1>4. /\ took \in Nat /\ need <= took /\ took <= b.size
      /\ L \in Seq(HeapBlock)
      /\ \A j \in 1 .. m - 1 : L[j] = free[j]
      /\ \/ Len(L) = m - 1
         \/ /\ Len(L) = m /\ took = need
            /\ L[m] = [at |-> b.at + need, size |-> b.size - need]
  <2>1. need # 0
    BY <1>1
  <2> DEFINE c == Carve(m, need)
  <2>2. L = c.list /\ took = c.taken /\ m = Len(free) /\ b = free[m] /\ c = Carve(m, need)
    BY <1>3
  <2> HIDE DEF need, m, b, took, c
  <2>3. /\ ListOK(free) /\ need \in Nat /\ need # 0 /\ need % 2 = 0 /\ m = Len(free) /\ m \in Nat /\ m >= 1
        /\ free[m].at \in Nat /\ free[m].size \in Nat /\ free[m].size >= need
    BY <1>1, <1>2, <1>3, <2>1, <2>2
  <2>4. CarveLeaves(c, need, m)
    BY ONLY <2>2, <2>3, CarveIs
  <2>5. QED BY ONLY <2>2, <2>4 DEF CarveLeaves
<1>5. /\ b.size # 0 /\ b.at % 2 = 0 /\ HeapStart <= b.at /\ b.at + b.size <= HeapEnd
  BY <1>1, <1>2, <1>3 DEF ListOK
<1>6. h = [at |-> b.at, size |-> took, ptr |-> b.at + 2, asked |-> n, below |-> 0]
  BY <1>3, <1>5, UpIs DEF Handed, NextOf
<1>7. BlockOK(h)
  <2>1. HeapStart \in Nat /\ HeapEnd \in Nat
    BY HeapAssumption DEF HeapEnd
  <2>2. n + 2 <= took /\ 2 <= took /\ b.at + took <= HeapEnd
    BY <1>1, <1>3, <1>4, <1>5, <2>1, SMTT(30)
  <2> HIDE DEF took, b
  <2>3. /\ h.at = b.at /\ h.size = took /\ h.ptr = b.at + 2 /\ h.asked = n /\ h.below = 0
    BY <1>6
  <2>4. QED BY <1>1, <1>3, <1>4, <1>5, <2>2, <2>3 DEF BlockOK
<1>8. \A j \in 1 .. m - 1 :
        /\ j \in 1 .. m /\ j < m
        /\ free[j].at \in Nat /\ free[j].size = 0 /\ free[j].at < b.at /\ L[j] = free[j]
  <2>1. TAKE j \in 1 .. m - 1
  <2>2. j \in 1 .. m /\ j < m /\ m \in 1 .. m
    BY <1>3
  <2>3. free[j].at \in Nat /\ free[j].size \in Nat
    <3>1. free[j] \in HeapBlock
      <4>1. free \in Seq(HeapBlock)
        BY <1>2 DEF ListOK
      <4>2. QED BY <2>2, <4>1, ElementOfSeq
    <3>2. QED BY <3>1 DEF HeapBlock
  <2>4. free[j].size = 0 /\ free[j].at < b.at
    BY <1>2, <2>2 DEF ListOK
  <2>5. QED BY <1>4, <2>2, <2>3, <2>4
<1>9. \A j \in 1 .. Len(L) :
        \/ j \in 1 .. m - 1
        \/ j = m /\ Len(L) = m /\ took = need /\ L[m] = [at |-> b.at + need, size |-> b.size - need]
  BY <1>3, <1>4
<1>10. ListOK(L)
  <2>0. m = Len(free) /\ b.at \in Nat /\ b.size \in Nat /\ need \in Nat
    BY <1>1, <1>3
  <2> HIDE DEF m, b, need, took
  <2>1. \A i, j \in 1 .. Len(L) : i < j => L[i].at < L[j].at
    <3>1. TAKE i, j \in 1 .. Len(L)
    <3>2. HAVE i < j
    <3>3. i \in 1 .. m - 1
      BY <1>3, <1>9, <3>2
    <3>4. CASE j \in 1 .. m - 1
      <4>1. free[i].at < free[j].at
        BY ONLY <1>2, <1>8, <2>0, <3>2, <3>3, <3>4 DEF ListOK
      <4>2. QED BY <1>8, <3>3, <3>4, <4>1
    <3>5. CASE j = m /\ L[m] = [at |-> b.at + need, size |-> b.size - need]
      <4>1. L[j].at = b.at + need
        BY <3>5
      <4>2. L[i].at = free[i].at /\ free[i].at \in Nat /\ free[i].at < b.at
        BY <1>8, <3>3
      <4>3. QED BY ONLY <2>0, <4>1, <4>2
    <3>6. QED BY <1>9, <3>4, <3>5
  <2>2. ASSUME NEW i \in 1 .. Len(L), L[i].size # 0
        PROVE  i = Len(L) /\ L[i].at % 2 = 0 /\ HeapStart <= L[i].at /\ L[i].at + L[i].size <= HeapEnd
    <3>1. i = m /\ Len(L) = m /\ L[m] = [at |-> b.at + need, size |-> b.size - need]
      BY <1>8, <1>9, <2>2
    <3>2. (b.at + need) % 2 = 0
      BY <1>1, <1>3, <1>5
    <3>3. HeapStart \in Nat /\ HeapEnd \in Nat
      BY HeapAssumption DEF HeapEnd
    <3>4. HeapStart <= b.at + need /\ (b.at + need) + (b.size - need) <= HeapEnd
      <4>1. HeapStart <= b.at /\ b.at + b.size <= HeapEnd
        BY ONLY <1>5
      <4>2. QED BY ONLY <2>0, <3>3, <4>1
    <3>5. L[i].at = b.at + need /\ L[i].size = b.size - need
      BY <3>1
    <3>6. QED BY <3>1, <3>2, <3>4, <3>5
  <2>3. QED BY <1>4, <2>1, <2>2 DEF ListOK
<1>11. \A a \in live : BlockOK(a) /\ a.at + a.size <= b.at
  <2>1. TAKE a \in live
  <2>2. m \in 1 .. m
    BY <1>3
  <2>3. QED BY <1>5, <2>2 DEF HeapGood, ClearOf
<1>12. h \notin live
  BY <1>1, <1>3, <1>4, <1>6, <1>11
<1>13. ASSUME NEW a \in live \cup {h}, NEW i \in 1 .. Len(L)
       PROVE  ClearOf(a, L[i])
  <2>1. a.at \in Nat /\ a.size \in Nat
    BY <1>7, <1>11 DEF BlockOK
  <2>2. CASE i \in 1 .. m - 1
    <3>1. a \in live => ClearOf(a, free[i])
      BY <1>8, <2>2 DEF HeapGood
    <3>2. a = h => ClearOf(a, free[i])
      BY <1>6, <1>8, <2>2 DEF ClearOf
    <3>3. QED BY <1>8, <2>2, <3>1, <3>2
  <2>3. CASE i = m /\ took = need /\ L[m] = [at |-> b.at + need, size |-> b.size - need]
    <3>1. a.at + a.size <= b.at + need
      BY <1>1, <1>3, <1>6, <1>11, <2>1, <2>3, SMTT(60)
    <3>2. L[i].at = b.at + need
      BY <2>3
    <3>3. QED BY ONLY <3>1, <3>2 DEF ClearOf
  <2>4. QED BY <1>9, <2>2, <2>3
<1>14. ASSUME NEW a \in live \cup {h}, NEW d \in live \cup {h}, a # d
       PROVE  Apart(a, d)
  BY <1>6, <1>11, <1>14 DEF HeapGood, Apart
<1>15. QED BY <1>7, <1>10, <1>11, <1>12, <1>13, <1>14 DEF HeapGood

\* A block of size zero goes to its place and merges with none.
LEMMA InsertIs ==
  ASSUME NEW s, s \in Seq(HeapBlock), NEW b \in HeapBlock, b.size = 0,
         \A i \in 1 .. Len(s) : s[i].at # b.at
  PROVE  \E n \in 0 .. Len(s) :
           /\ Insert(s, b) \in Seq(HeapBlock) /\ Len(Insert(s, b)) = Len(s) + 1
           /\ \A j \in 1 .. n : Insert(s, b)[j] = s[j] /\ s[j].at < b.at
           /\ Insert(s, b)[n + 1] = b
           /\ \A j \in n + 1 .. Len(s) : Insert(s, b)[j + 1] = s[j]
           /\ n < Len(s) => b.at < s[n + 1].at
<1> DEFINE k == Len(s)
           older == {i \in DOMAIN s : \A j \in 1 .. i : s[j].at < b.at}
           n == IF older = {} THEN 0 ELSE CHOOSE i \in older : \A j \in older : j <= i
           rest == SubSeq(s, n + 1, k)
<1>1. k \in Nat /\ DOMAIN s = 1 .. k
  BY LenProperties
<1>2. b.at \in Nat /\ \A i \in 1 .. k : s[i].at \in Nat
  <2>1. \A i \in 1 .. k : s[i] \in HeapBlock
    BY ElementOfSeq
  <2>2. QED BY <2>1 DEF HeapBlock
<1>6. n \in 0 .. k /\ (\A j \in 1 .. n : s[j].at < b.at) /\ (n < k => b.at < s[n + 1].at)
  <2>1. CASE older = {}
    <3>1. n = 0
      BY <2>1
    <3>2. ~(0 < k /\ s[1].at < b.at)
      BY <1>1, <2>1
    <3>3. 0 < k => b.at < s[1].at
      BY <1>1, <1>2, <3>2
    <3> HIDE DEF n
    <3>4. 0 \in 0 .. k /\ (\A j \in 1 .. 0 : s[j].at < b.at) /\ 0 + 1 = 1
      BY <1>1
    <3>5. QED BY ONLY <3>1, <3>3, <3>4, Zenon
  <2>2. CASE older # {}
    <3>1. older \in SUBSET (0 .. k)
      BY <1>1
    <3>2. \E i \in older : \A j \in older : j <= i
      <4> HIDE DEF older, k
      <4>1. QED BY <1>1, <2>2, <3>1, GreatestOf
    <3>3. n \in older /\ \A j \in older : j <= n
      <4>1. n = CHOOSE i \in older : \A j \in older : j <= i
        BY <2>2
      <4> HIDE DEF older, n
      <4>2. QED BY <3>2, <4>1
    <3>4. n \in 1 .. k /\ \A j \in 1 .. n : s[j].at < b.at
      <4> HIDE DEF n
      <4>1. QED BY <1>1, <3>3
    <3>5. ASSUME n < k PROVE b.at < s[n + 1].at
      <4> HIDE DEF n
      <4>1. n + 1 \in DOMAIN s /\ n + 1 \in 1 .. k
        BY <1>1, <3>4, <3>5
      <4>2. ~(n + 1 <= n)
        BY <3>4
      <4>3. n + 1 \notin older
        BY <3>3, <4>2
      <4>4. \A j \in 1 .. n + 1 : j \in 1 .. n \/ j = n + 1
        BY <3>4
      <4>5. ~(s[n + 1].at < b.at)
        BY <3>4, <4>1, <4>3, <4>4
      <4>6. QED BY <1>2, <4>1, <4>5
    <3> HIDE DEF n, k
    <3>6. n \in 0 .. k
      BY <1>1, <3>4
    <3>7. QED BY ONLY <3>4, <3>5, <3>6, Zenon
  <2>3. QED BY <2>1, <2>2
<1> HIDE DEF n
<1>7. Insert(s, b) = SubSeq(s, 1, n) \o (<<b>> \o rest)
  <2>1. Insert(s, b) = SubSeq(s, 1, n) \o
          (IF rest # <<>> /\ b.at + b.size = rest[1].at
           THEN <<[b EXCEPT !.size = @ + rest[1].size]>> \o Tail(rest)
           ELSE <<b>> \o rest)
    BY DEF Insert, n
  <2>2. ~(rest # <<>> /\ b.at + b.size = rest[1].at)
    <3>1. CASE n < k
      <4>1. rest[1] = s[n + 1] /\ n + 1 \in 1 .. k
        BY <1>1, <1>6, <3>1
      <4>2. QED BY <1>2, <1>6, <3>1, <4>1
    <3>2. CASE ~(n < k)
      BY <1>1, <1>6, <3>2, SubSeqEmpty
    <3>3. QED BY <3>1, <3>2
  <2>3. QED BY <2>1, <2>2
<1>8. /\ Insert(s, b) \in Seq(HeapBlock) /\ Len(Insert(s, b)) = k + 1
      /\ \A j \in 1 .. n : Insert(s, b)[j] = s[j]
      /\ Insert(s, b)[n + 1] = b
      /\ \A j \in n + 1 .. k : Insert(s, b)[j + 1] = s[j]
  <2>1. n \in 0 .. Len(s) /\ s \in Seq(HeapBlock) /\ b \in HeapBlock
    BY <1>6
  <2>2. Insert(s, b) = SubSeq(s, 1, n) \o (<<b>> \o SubSeq(s, n + 1, Len(s)))
    BY <1>7
  <2>3. Insert(s, b) = With(s, n, b)
    BY <2>2 DEF With
  <2>4. n \in Nat /\ n <= Len(s)
    BY <1>1, <1>6
  <2>5. /\ With(s, n, b) \in Seq(HeapBlock) /\ Len(With(s, n, b)) = Len(s) + 1
        /\ \A j \in 1 .. n : With(s, n, b)[j] = s[j]
        /\ With(s, n, b)[n + 1] = b
    BY ONLY <2>1, <2>4, Inserted
  <2>6. \A j \in n + 1 .. Len(s) : With(s, n, b)[j + 1] = s[j]
    <3>1. TAKE j \in n + 1 .. Len(s)
    <3>2. \A m \in Nat : m <= Len(s) => \A i \in m + 1 .. Len(s) : With(s, m, b)[i + 1] = s[i]
      <4>1. s \in Seq(HeapBlock) /\ b \in HeapBlock
        OBVIOUS
      <4>2. QED BY ONLY <4>1, Inserted
    <3>3. QED BY ONLY <2>4, <3>1, <3>2
  <2>7. QED BY <2>3, <2>5, <2>6
<1>9. QED BY <1>6, <1>8

\* dealloc: the block is not handed out any more, and is a node of size zero.
LEMMA InsertKeeps ==
  ASSUME NEW s, NEW V, HeapGood(s, V), NEW a \in V
  PROVE  HeapGood(Insert(s, Freed(a)), V \ {a})
<1> DEFINE b == Freed(a)
           r == Insert(s, b)
           k == Len(s)
<1>1. /\ s \in Seq(HeapBlock) /\ k \in Nat
      /\ \A i, j \in 1 .. k : i < j => s[i].at < s[j].at
      /\ \A i \in 1 .. k : s[i].size # 0 =>
           i = k /\ s[i].at % 2 = 0 /\ HeapStart <= s[i].at /\ s[i].at + s[i].size <= HeapEnd
  BY LenProperties DEF HeapGood, ListOK
<1>2. \A i \in 1 .. k : s[i].at \in Nat
  <2>1. \A i \in 1 .. k : s[i] \in HeapBlock
    BY <1>1, ElementOfSeq
  <2>2. QED BY <2>1 DEF HeapBlock
<1>3. BlockOK(a) /\ \A i \in 1 .. k : ClearOf(a, s[i])
  BY DEF HeapGood
<1>4. a.at \in Nat /\ a.size \in Nat /\ a.size >= 2 /\ a.ptr = a.at + 2 /\ a.below = 0
  BY <1>3 DEF BlockOK
<1>5. b.at = a.at + 1 /\ b.size = 0 /\ b \in HeapBlock
  BY <1>4 DEF Freed, ALLOC_HDR, HeapBlock
<1>6. ASSUME NEW i \in 1 .. k
      PROVE  s[i].at # b.at
  BY <1>2, <1>3, <1>4, <1>5, <1>6 DEF ClearOf
<1> HIDE DEF b
<1>7. PICK n \in 0 .. k :
        /\ r \in Seq(HeapBlock) /\ Len(r) = k + 1
        /\ \A j \in 1 .. n : r[j] = s[j] /\ s[j].at < b.at
        /\ r[n + 1] = b
        /\ \A j \in n + 1 .. k : r[j + 1] = s[j]
        /\ n < k => b.at < s[n + 1].at
  BY <1>1, <1>5, <1>6, InsertIs
<1> HIDE DEF r, k
\* Every element of the new list: where it comes from.
<1>8. ASSUME NEW i \in 1 .. k + 1
      PROVE  \/ i \in 1 .. n /\ r[i] = s[i] /\ s[i].at < b.at /\ i \in 1 .. k /\ i < k + 1
             \/ i = n + 1 /\ r[i] = b
             \/ i > n + 1 /\ i - 1 \in 1 .. k /\ r[i] = s[i - 1] /\ b.at < s[i - 1].at
  <2>1. CASE i \in 1 .. n
    BY <1>1, <1>7, <2>1
  <2>2. CASE i = n + 1
    BY <1>7, <2>2
  <2>3. CASE i > n + 1
    <3>1. i - 1 \in n + 1 .. k /\ i - 1 \in 1 .. k /\ (i - 1) + 1 = i /\ n + 1 \in 1 .. k /\ n < k
      BY <1>1, <1>7, <2>3
    <3>2. r[(i - 1) + 1] = s[i - 1]
      BY ONLY <1>7, <3>1
    <3>3. b.at < s[n + 1].at
      BY ONLY <1>7, <3>1
    <3>4. i - 1 = n + 1 \/ n + 1 < i - 1
      BY <1>1, <1>7, <2>3
    <3>5. n + 1 < i - 1 => s[n + 1].at < s[i - 1].at
      BY ONLY <1>1, <3>1
    <3>6. s[n + 1].at \in Nat /\ s[i - 1].at \in Nat /\ b.at \in Nat
      BY <1>2, <1>4, <1>5, <3>1
    <3>7. b.at < s[i - 1].at
      BY ONLY <3>3, <3>4, <3>5, <3>6
    <3>8. QED BY ONLY <2>3, <3>1, <3>2, <3>7
  <2>4. QED BY <1>1, <1>7, <2>1, <2>2, <2>3
<1>9. \A i, j \in 1 .. k + 1 : i < j => r[i].at < r[j].at
  <2>1. TAKE i, j \in 1 .. k + 1
  <2>2. HAVE i < j
  <2>3. CASE j \in 1 .. n
    <3>1. i \in 1 .. n
      BY <1>7, <2>2, <2>3
    <3>2. r[i] = s[i] /\ r[j] = s[j] /\ i \in 1 .. k /\ j \in 1 .. k
      BY <1>1, <1>7, <2>3, <3>1
    <3>3. QED BY ONLY <1>1, <2>2, <3>2
  <2>4. CASE j = n + 1
    <3>1. i \in 1 .. n
      BY <1>7, <2>2, <2>4
    <3>2. QED BY ONLY <1>7, <2>4, <3>1
  <2>5. CASE j > n + 1
    <3>1. j - 1 \in 1 .. k /\ r[j] = s[j - 1] /\ b.at < s[j - 1].at
      BY <1>7, <1>8, <2>5
    <3>2. s[j - 1].at \in Nat /\ b.at \in Nat
      BY <1>2, <1>4, <1>5, <3>1
    <3>3. CASE i \in 1 .. n
      <4>1. r[i] = s[i] /\ s[i].at < b.at /\ s[i].at \in Nat
        BY <1>1, <1>2, <1>7, <3>3
      <4>2. QED BY ONLY <3>1, <3>2, <4>1
    <3>4. CASE i = n + 1
      BY ONLY <1>7, <3>1, <3>4
    <3>5. CASE i > n + 1
      <4>1. i - 1 \in 1 .. k /\ r[i] = s[i - 1]
        BY <1>7, <1>8, <3>5
      <4>2. i - 1 < j - 1
        BY <2>2
      <4>3. s[i - 1].at < s[j - 1].at
        BY ONLY <1>1, <3>1, <4>1, <4>2
      <4>4. QED BY ONLY <3>1, <4>1, <4>3
    <3>6. QED BY <1>7, <1>8, <3>3, <3>4, <3>5
  <2>6. QED BY <1>8, <2>3, <2>4, <2>5
<1>10. \A i \in 1 .. k + 1 : r[i].size # 0 =>
         i = k + 1 /\ r[i].at % 2 = 0 /\ HeapStart <= r[i].at /\ r[i].at + r[i].size <= HeapEnd
  <2>1. TAKE i \in 1 .. k + 1
  <2>2. HAVE r[i].size # 0
  <2>3. CASE i \in 1 .. n /\ r[i] = s[i] /\ s[i].at < b.at /\ i \in 1 .. k
    <3>1. a.at + a.size <= s[i].at
      BY <1>3, <2>2, <2>3 DEF ClearOf
    <3>2. s[i].at \in Nat
      BY <1>2, <2>3
    <3>3. QED BY <1>4, <1>5, <2>3, <3>1, <3>2
  <2>4. CASE i > n + 1 /\ i - 1 \in 1 .. k /\ r[i] = s[i - 1]
    <3>1. i - 1 = k /\ s[i - 1].at % 2 = 0 /\ HeapStart <= s[i - 1].at /\ s[i - 1].at + s[i - 1].size <= HeapEnd
      BY ONLY <1>1, <2>2, <2>4
    <3>2. i = k + 1
      BY <1>1, <3>1
    <3>3. QED BY ONLY <2>4, <3>1, <3>2
  <2>5. QED BY ONLY <1>5, <1>8, <2>1, <2>2, <2>3, <2>4
<1>11. ListOK(r)
  BY ONLY <1>7, <1>9, <1>10 DEF ListOK
<1>12. ASSUME NEW c \in V \ {a}, NEW i \in 1 .. Len(r)
       PROVE  ClearOf(c, r[i])
  <2>1. i \in 1 .. k + 1
    BY <1>7
  <2>2. \A j \in 1 .. k : ClearOf(c, s[j])
    BY <1>12 DEF HeapGood, k
  <2>3. BlockOK(c) /\ Apart(a, c)
    BY <1>12 DEF HeapGood
  <2>4. ClearOf(c, b)
    <3>1. /\ c.at \in Nat /\ c.size \in Nat
          /\ a.at + a.size <= c.at \/ c.at + c.size <= a.at
      BY ONLY <2>3 DEF Apart, BlockOK
    <3>2. b.at < c.at \/ c.at + c.size <= b.at
      BY ONLY <1>4, <1>5, <3>1
    <3>3. QED BY ONLY <1>5, <3>2 DEF ClearOf
  <2>5. QED BY ONLY <1>8, <2>1, <2>2, <2>4
<1>13. QED BY <1>11, <1>12 DEF HeapGood, r, b

LEMMA HeapStarts ==
  ASSUME HeapInit
  PROVE  HeapGood(free, live)
<1> DEFINE b == [at |-> HeapStart, size |-> HeapWords]
<1>1. HeapStart \in Nat /\ HeapStart % 2 = 0 /\ HeapWords \in Nat
  BY HeapAssumption DEF ALIGN
<1>2. b \in HeapBlock
  BY <1>1 DEF HeapBlock
<1>3. b.at = HeapStart /\ b.size = HeapWords
  OBVIOUS
<1> HIDE DEF b
<1>4. free = <<b>> /\ live = {}
  BY DEF HeapInit, b
<1>5. free \in Seq(HeapBlock) /\ Len(free) = 1 /\ free[1] = b
  BY <1>2, <1>4
<1>6. \A i \in 1 .. Len(free) : i = 1
  BY <1>5
<1>7. ListOK(free)
  BY <1>1, <1>3, <1>5, <1>6 DEF ListOK, HeapEnd
<1>8. QED BY <1>4, <1>7 DEF HeapGood

LEMMA HeapStays ==
  ASSUME HeapGood(free, live), HeapStep
  PROVE  HeapGood(free, live)'
<1>1. CASE Alloc
  <2>1. PICK n \in Sizes :
          /\ \E i \in DOMAIN free : Fits(i, Needed(n))
          /\ live' = live \cup {Handed(n, First(Needed(n)))}
          /\ free' = Carve(First(Needed(n)), Needed(n)).list
    BY <1>1 DEF Alloc
  <2>2. HeapGood(free', live')
    BY <2>1, TakeKeeps
  <2>3. QED BY <2>2 DEF HeapGood, ListOK
<1>2. CASE AllocFails
  BY <1>2 DEF AllocFails, heapVars, HeapGood, ListOK
<1>3. CASE Dealloc
  <2>1. PICK a \in live : live' = live \ {a} /\ free' = Insert(free, Freed(a))
    BY <1>3 DEF Dealloc
  <2>2. HeapGood(free', live')
    BY <2>1, InsertKeeps
  <2>3. QED BY <2>2 DEF HeapGood, ListOK
<1>4. CASE Realloc
  <2>1. PICK a \in live, n \in Sizes :
          /\ \E i \in DOMAIN free : Fits(i, Needed(n))
          /\ live' = (live \ {a}) \cup {Handed(n, First(Needed(n)))}
          /\ free' = Insert(Carve(First(Needed(n)), Needed(n)).list, Freed(a))
    BY <1>4 DEF Realloc
  <2> DEFINE h == Handed(n, First(Needed(n)))
             L == Carve(First(Needed(n)), Needed(n)).list
  <2>2. HeapGood(L, live \cup {h}) /\ h \notin live
    BY <2>1, TakeKeeps
  <2>3. live' = (live \cup {h}) \ {a} /\ a \in live \cup {h} /\ free' = Insert(L, Freed(a))
    BY <2>1, <2>2
  <2> HIDE DEF h, L
  <2>4. HeapGood(free', live')
    BY <2>2, <2>3, InsertKeeps
  <2>5. QED BY <2>4 DEF HeapGood, ListOK
<1>5. QED BY <1>1, <1>2, <1>3, <1>4 DEF HeapStep

LEMMA GoodHeapIsKept ==
  ASSUME HeapGood(free, live)
  PROVE  HeapKept
<1>1. /\ free \in Seq(HeapBlock) /\ DOMAIN free = 1 .. Len(free)
      /\ \A i \in 1 .. Len(free) : free[i].at \in Nat /\ free[i].size \in Nat
  <2>1. free \in Seq(HeapBlock)
    BY DEF HeapGood, ListOK
  <2>2. \A i \in 1 .. Len(free) : free[i] \in HeapBlock
    BY <2>1, ElementOfSeq
  <2>3. QED BY <2>1, <2>2, LenProperties DEF HeapBlock
<1>2. ASSUME NEW a \in live
      PROVE  /\ a.ptr % ALIGN = 0
             /\ Region(a.ptr, a.asked) \subseteq Region(a.at, a.size)
             /\ \A d \in live \ {a} : Region(a.at, a.size) \cap Region(d.at, d.size) = {}
             /\ \A i \in DOMAIN free :
                  /\ Region(a.ptr, a.asked) \cap Region(free[i].at, free[i].size) = {}
                  /\ Region(a.ptr, a.asked) \cap Region(free[i].at, FREE_HDR) = {}
  <2>1. /\ a.at \in Nat /\ a.size \in Nat /\ a.asked \in Nat
        /\ a.at % 2 = 0 /\ a.ptr = a.at + 2 /\ a.asked + 2 <= a.size
    BY DEF HeapGood, BlockOK
  <2>2. a.ptr % ALIGN = 0
    BY <2>1 DEF ALIGN
  <2>3. Region(a.ptr, a.asked) \subseteq Region(a.at, a.size)
    BY <2>1 DEF Region
  <2>4. ASSUME NEW d \in live \ {a}
        PROVE  Region(a.at, a.size) \cap Region(d.at, d.size) = {}
    <3>1. d.at \in Nat /\ d.size \in Nat /\ Apart(a, d)
      BY DEF HeapGood, BlockOK
    <3>2. QED BY <2>1, <3>1 DEF Apart, Region
  <2>5. ASSUME NEW i \in DOMAIN free
        PROVE  /\ Region(a.ptr, a.asked) \cap Region(free[i].at, free[i].size) = {}
               /\ Region(a.ptr, a.asked) \cap Region(free[i].at, FREE_HDR) = {}
    <3>1. ClearOf(a, free[i]) /\ free[i].at \in Nat /\ free[i].size \in Nat
      BY <1>1 DEF HeapGood
    <3> DEFINE p == free[i].at
               z == free[i].size
    <3>2. p \in Nat /\ z \in Nat
      BY <3>1
    <3>3. IF z = 0 THEN p < a.at \/ a.at + a.size <= p ELSE a.at + a.size <= p
      BY <3>1 DEF ClearOf
    <3> HIDE DEF p, z
    <3>4. Region(a.ptr, a.asked) \cap Region(p, z) = {}
      BY <2>1, <3>2, <3>3 DEF Region
    <3>5. Region(a.ptr, a.asked) \cap Region(p, FREE_HDR) = {}
      BY <2>1, <3>2, <3>3 DEF Region, FREE_HDR
    <3>6. QED BY <3>4, <3>5 DEF p, z
  <2>6. QED BY <2>2, <2>3, <2>4, <2>5
<1>3. \A i, j \in DOMAIN free : i < j => free[i].at < free[j].at
  BY <1>1 DEF HeapGood, ListOK
<1>4. QED BY <1>2, <1>3 DEF HeapKept, PayloadsAreOwn, NodesSurvive

-----------------------------------------------------------------------------
(* The page table.                                                         *)

\* The descriptors that are in the table and cover section s.
Covering(s) ==
  {i \in 1 .. filled : SectionOf(descs[i].vaddr_start) <= s /\ s <= SectionOf(descs[i].vaddr_end)}

EntryOf(d, s) ==
  [paddr |-> SectionOf(d.paddr_start) + s - SectionOf(d.vaddr_start), attr |-> d.attr]

\* Section by section, the last descriptor holds.
TableInv ==
  /\ descs \in Seq(Descs) /\ filled \in 0 .. Len(descs)
  /\ DOMAIN table = 0 .. Sections - 1
  /\ \A s \in 0 .. Sections - 1 :
       \/ Covering(s) = {} /\ table[s] = Invalid
       \/ \E i \in Covering(s) :
            (\A j \in Covering(s) : j <= i) /\ table[s] = EntryOf(descs[i], s)

LEMMA TableStart == PageTableInit => TableInv
<1> SUFFICES ASSUME PageTableInit PROVE TableInv
  OBVIOUS
<1>1. PICK n \in 0 .. MaxDescs : descs \in [1 .. n -> Descs]
  BY DEF PageTableInit
<1>2. descs \in Seq(Descs) /\ Len(descs) \in Nat
  BY <1>1, PageTableAssumption, LenProperties
<1>3. filled = 0 /\ table = [s \in 0 .. Sections - 1 |-> Invalid]
  BY DEF PageTableInit
<1>4. \A s \in 0 .. Sections - 1 : Covering(s) = {} /\ table[s] = Invalid
  BY <1>3 DEF Covering
<1>5. QED BY <1>2, <1>3, <1>4 DEF TableInv

LEMMA TableStep ==
  ASSUME TableInv, SetNextMapping
  PROVE  TableInv'
<1> DEFINE f == filled + 1
           d == descs[f]
<1>1. /\ filled \in Nat /\ f \in 1 .. Len(descs) /\ filled' = f /\ descs' = descs
      /\ descs \in Seq(Descs) /\ DOMAIN table = 0 .. Sections - 1
  BY LenProperties DEF TableInv, SetNextMapping
<1>2. table' = [s \in 0 .. Sections - 1 |->
        IF SectionOf(d.vaddr_start) <= s /\ s <= SectionOf(d.vaddr_end)
        THEN EntryOf(d, s) ELSE table[s]]
  BY <1>1 DEF SetNextMapping, SetMapping, EntryOf
<1>3. \A j \in 1 .. f : j \in 1 .. filled \/ j = f
  BY <1>1
<1>4. \A j \in 1 .. filled : j \in 1 .. f /\ j <= f
  BY <1>1
<1>5. f \in 1 .. f /\ f <= f
  BY <1>1
<1>6. ASSUME NEW s \in 0 .. Sections - 1
      PROVE  \/ Covering(s)' = {} /\ table'[s] = Invalid
             \/ \E i \in Covering(s)' :
                  (\A j \in Covering(s)' : j <= i) /\ table'[s] = EntryOf(descs'[i], s)
  <2>1. CASE SectionOf(d.vaddr_start) <= s /\ s <= SectionOf(d.vaddr_end)
    <3>1. Covering(s)' = Covering(s) \cup {f}
      BY <1>1, <1>3, <1>4, <1>5, <2>1 DEF Covering
    <3>2. f \in Covering(s)' /\ \A j \in Covering(s)' : j <= f
      BY <1>4, <1>5, <3>1 DEF Covering
    <3>3. table'[s] = EntryOf(descs'[f], s)
      BY <1>1, <1>2, <2>1
    <3>4. QED BY <3>2, <3>3
  <2>2. CASE ~(SectionOf(d.vaddr_start) <= s /\ s <= SectionOf(d.vaddr_end))
    <3>1. Covering(s)' = Covering(s)
      BY <1>1, <1>3, <1>4, <1>5, <2>2 DEF Covering
    <3>2. table'[s] = table[s]
      BY <1>2, <2>2
    <3>3. QED BY <1>1, <3>1, <3>2 DEF TableInv
  <2>3. QED BY <2>1, <2>2
<1>7. filled' \in 0 .. Len(descs') /\ DOMAIN table' = 0 .. Sections - 1
  BY <1>1, <1>2
<1>8. QED BY <1>1, <1>6, <1>7 DEF TableInv

\* Division by the size of a section.
LEMMA Division ==
  ASSUME NEW S \in Nat \ {0}, NEW a \in Nat
  PROVE  /\ a \div S \in Nat /\ a % S \in Nat /\ a % S < S
         /\ a = (a \div S) * S + (a % S)
BY Z3

\* a lies in section q.
LEMMA InSection ==
  ASSUME NEW S \in Nat \ {0}, NEW q \in Nat, NEW r \in Nat, r < S, NEW k \in Nat
  PROVE  /\ k * S <= q * S + r <=> k <= q
         /\ q * S + r <= (k + 1) * S - 1 <=> q <= k
<1>1. CASE k <= q
  <2>1. PICK e \in Nat : q = k + e
    BY <1>1
  <2>2. q * S = k * S + e * S /\ e * S \in Nat /\ k * S \in Nat
    BY <2>1
  <2>3. e # 0 => e * S >= S
    BY Z3
  <2>4. (k + 1) * S = k * S + S
    OBVIOUS
  <2>5. QED BY <1>1, <2>1, <2>2, <2>3, <2>4
<1>2. CASE ~(k <= q)
  <2>1. PICK e \in Nat : k = (q + 1) + e
    BY <1>2
  <2>2. k * S = (q * S + S) + e * S /\ e * S \in Nat /\ q * S \in Nat
    BY <2>1
  <2>3. (k + 1) * S = k * S + S
    OBVIOUS
  <2>4. QED BY <1>2, <2>1, <2>2, <2>3
<1>3. QED BY <1>1, <1>2

\* The quotient and the remainder are what they look like.
LEMMA QuotientIs ==
  ASSUME NEW S \in Nat \ {0}, NEW q \in Nat, NEW r \in Nat, r < S
  PROVE  (q * S + r) \div S = q /\ (q * S + r) % S = r
<1> DEFINE a == q * S + r
           p == a \div S
           t == a % S
<1>1. a \in Nat
  OBVIOUS
<1>2. p \in Nat /\ t \in Nat /\ t < S /\ a = p * S + t
  BY <1>1, Division
<1> HIDE DEF p, t
<1>3. q <= p
  <2>1. q * S <= a
    BY <1>1
  <2>2. QED BY <1>1, <1>2, <2>1, InSection
<1>4. p <= q
  <2>1. p * S <= a
    BY <1>1, <1>2
  <2>2. QED BY <1>1, <2>1, <1>2, InSection
<1>5. p = q /\ t = r
  BY <1>2, <1>3, <1>4
<1>6. QED BY <1>5 DEF p, t

LEMMA SectionOfIs ==
  ASSUME NEW q \in Nat, NEW r \in Nat, r < SectionSize
  PROVE  SectionOf(q * SectionSize + r) = q
BY QuotientIs, PageTableAssumption DEF SectionOf

\* Every address goes where the last descriptor that holds it says.
LEMMA TableMaps ==
  ASSUME TableInv
  PROVE  MapsLikeLast
<1> DEFINE S == SectionSize
<1>1. S \in Nat \ {0} /\ Sections \in Nat \ {0}
  BY PageTableAssumption
<1>2. SUFFICES ASSUME NEW a \in 0 .. S * Sections - 1
               PROVE  LET entry == table[SectionOf(a)]
                      IN  IF Over(a) = {} THEN entry = Invalid
                          ELSE LET d == descs[CHOOSE i \in Over(a) : \A j \in Over(a) : j <= i]
                               IN  /\ entry.paddr * S + (a % S) = d.paddr_start + (a - d.vaddr_start)
                                   /\ entry.attr = d.attr
  BY DEF MapsLikeLast
<1> DEFINE q == a \div S
           r == a % S
<1>3. a \in Nat /\ SectionOf(a) = q
  BY <1>1 DEF SectionOf
<1>4. q \in Nat /\ r \in Nat /\ r < S /\ a = q * S + r
  BY <1>1, <1>3, Division
<1> HIDE DEF q, r
<1>5. q \in 0 .. Sections - 1
  <2>1. Sections - 1 \in Nat /\ a <= ((Sections - 1) + 1) * S - 1
    BY <1>1, <1>3
  <2>2. q <= Sections - 1
    BY <1>1, <1>4, <2>1, InSection
  <2>3. QED BY <1>1, <1>4, <2>2
\* Where descriptor i lies.
<1>6. ASSUME NEW i \in 1 .. filled
      PROVE  \E k, m \in Nat :
               /\ descs[i].vaddr_start = k * S /\ descs[i].vaddr_end = (m + 1) * S - 1
               /\ SectionOf(descs[i].vaddr_start) = k /\ SectionOf(descs[i].vaddr_end) = m
               /\ \E p \in {0, 1} : descs[i].paddr_start = p * S /\ SectionOf(descs[i].paddr_start) = p
  <2>1. descs[i] \in Descs
    <3>1. descs \in Seq(Descs) /\ Len(descs) \in Nat /\ filled \in 0 .. Len(descs)
      BY LenProperties DEF TableInv
    <3>2. i \in 1 .. Len(descs)
      BY <3>1
    <3>3. QED BY <3>1, <3>2, ElementOfSeq
  <2>2. /\ descs[i].vaddr_start \in {s * S : s \in 0 .. Sections - 1}
        /\ descs[i].vaddr_end \in {(s + 1) * S - 1 : s \in 0 .. Sections - 1}
        /\ descs[i].paddr_start \in {0, S}
    BY <2>1 DEF Descs
  <2>3. PICK k \in 0 .. Sections - 1 : descs[i].vaddr_start = k * S
    BY <2>2
  <2>4. PICK m \in 0 .. Sections - 1 : descs[i].vaddr_end = (m + 1) * S - 1
    BY <2>2
  <2>5. k \in Nat /\ m \in Nat
    OBVIOUS
  <2>6. SectionOf(k * S) = k
    <3>1. k * S + 0 = k * S /\ 0 < S /\ 0 \in Nat
      BY <1>1, <2>5
    <3>2. QED BY <2>5, <3>1, SectionOfIs
  <2>7. SectionOf((m + 1) * S - 1) = m
    <3>1. m * S + (S - 1) = (m + 1) * S - 1 /\ S - 1 \in Nat /\ S - 1 < S
      BY <1>1, <2>5
    <3>2. QED BY <2>5, <3>1, SectionOfIs
  <2>8. \E p \in {0, 1} : descs[i].paddr_start = p * S /\ SectionOf(descs[i].paddr_start) = p
    <3>1. CASE descs[i].paddr_start = 0
      <4>1. 0 * S + 0 = 0 /\ 0 * S = 0 /\ 0 < S /\ 0 \in Nat
        BY <1>1
      <4>2. SectionOf(0) = 0
        BY <4>1, SectionOfIs
      <4>3. QED BY <3>1, <4>1, <4>2
    <3>2. CASE descs[i].paddr_start = S
      <4>1. 1 * S + 0 = S /\ 1 * S = S /\ 0 < S /\ 0 \in Nat /\ 1 \in Nat
        BY <1>1
      <4>2. SectionOf(S) = 1
        BY <4>1, SectionOfIs
      <4>3. QED BY <3>2, <4>1, <4>2
    <3>3. QED BY <2>2, <3>1, <3>2
  <2>9. QED BY <2>3, <2>4, <2>5, <2>6, <2>7, <2>8
<1>7. Over(a) = Covering(q)
  <2>1. ASSUME NEW i \in 1 .. filled
        PROVE  (descs[i].vaddr_start <= a /\ a <= descs[i].vaddr_end)
                 <=> (SectionOf(descs[i].vaddr_start) <= q /\ q <= SectionOf(descs[i].vaddr_end))
    <3>1. PICK k, m \in Nat :
            /\ descs[i].vaddr_start = k * S /\ descs[i].vaddr_end = (m + 1) * S - 1
            /\ SectionOf(descs[i].vaddr_start) = k /\ SectionOf(descs[i].vaddr_end) = m
      BY <1>6
    <3>2. (k * S <= a <=> k <= q) /\ (a <= (m + 1) * S - 1 <=> q <= m)
      BY <1>1, <1>4, InSection
    <3>3. QED BY <3>1, <3>2
  <2>2. QED BY <2>1 DEF Over, Covering
<1>8. CASE Covering(q) = {}
  BY <1>3, <1>5, <1>7, <1>8 DEF TableInv
<1>9. CASE Covering(q) # {}
  <2>1. PICK i \in Covering(q) :
          (\A j \in Covering(q) : j <= i) /\ table[q] = EntryOf(descs[i], q)
    BY <1>5, <1>9 DEF TableInv
  <2>2. i \in 1 .. filled /\ Covering(q) \subseteq Nat
    BY DEF Covering
  <2>3. (CHOOSE e \in Covering(q) : \A j \in Covering(q) : j <= e) = i
    <3>1. \A e \in Covering(q) : (\A j \in Covering(q) : j <= e) => e = i
      BY <2>1, <2>2
    <3>2. QED BY <2>1, <3>1
  <2>4. PICK k, m \in Nat :
          /\ descs[i].vaddr_start = k * S
          /\ SectionOf(descs[i].vaddr_start) = k
          /\ \E p \in {0, 1} : descs[i].paddr_start = p * S /\ SectionOf(descs[i].paddr_start) = p
    BY <1>6, <2>2
  <2>5. PICK p \in {0, 1} : descs[i].paddr_start = p * S /\ SectionOf(descs[i].paddr_start) = p
    BY <2>4
  <2>6. table[q].paddr = p + q - k /\ table[q].attr = descs[i].attr
    BY <2>1, <2>4, <2>5 DEF EntryOf
  <2>7. (p + q - k) * S + r = p * S + (a - k * S)
    <3>1. (p + q - k) * S = p * S + q * S - k * S
      BY <1>1, <1>4
    <3>2. p * S \in Int /\ q * S \in Int /\ k * S \in Int
      BY <1>1, <1>4
    <3>3. QED BY <1>4, <3>1, <3>2
  <2>8. QED BY <1>3, <1>7, <1>9, <2>3, <2>4, <2>5, <2>6, <2>7 DEF r
<1>10. QED BY <1>8, <1>9

\* What is handed out by the heap is its caller's, aligned and inside its block,
\* and no list node lies in it, for every size of the heap and of requests; and
\* addresses map where the last descriptor says, for every number of sections
\* and of descriptors (allocator.rs:75-190, mmu.rs:114).
THEOREM MemoryIsKept == DevicesSpec => []MemoryKept
<1> DEFINE Inv == HeapGood(free, live) /\ TableInv
<1>1. DevicesInit => Inv
  BY HeapStarts, TableStart DEF DevicesInit
<1>2. Inv /\ [DevicesNext]_deviceVars => Inv'
  <2>1. [DevicesNext]_deviceVars => [HeapStep]_heapVars
    BY DEF DevicesNext, Only, deviceVars
  <2>2. [DevicesNext]_deviceVars => [SetNextMapping]_pageVars
    BY DEF DevicesNext, Only, deviceVars
  <2>3. ASSUME HeapGood(free, live), [HeapStep]_heapVars PROVE HeapGood(free, live)'
    <3>1. CASE HeapStep
      BY <2>3, <3>1, HeapStays
    <3>2. CASE UNCHANGED heapVars
      BY <2>3, <3>2 DEF heapVars, HeapGood, ListOK
    <3>3. QED BY <2>3, <3>1, <3>2
  <2>4. ASSUME TableInv, [SetNextMapping]_pageVars PROVE TableInv'
    <3>1. CASE SetNextMapping
      BY <2>4, <3>1, TableStep
    <3>2. CASE UNCHANGED pageVars
      BY <2>4, <3>2 DEF pageVars, TableInv, Covering
    <3>3. QED BY <2>4, <3>1, <3>2
  <2>5. QED BY <2>1, <2>2, <2>3, <2>4
<1>3. Inv => MemoryKept
  BY GoodHeapIsKept, TableMaps DEF MemoryKept
<1>4. QED BY <1>1, <1>2, <1>3, PTL DEF DevicesSpec

-----------------------------------------------------------------------------
(* The display.                                                            *)

Programmed == {"programmed", "layered", "shown"}
Clocked == {"clocked", "defe released", "debe released", "running"} \cup Programmed

\* What has been done when bring-up has got so far.
DisplayInv ==
  /\ DOMAIN layer = {"lo", "hi", "set", "on"}
  /\ debeOn => bringUp \in {"shown", "defe reset"}
  /\ tconOn => bringUp \in {"shown", "defe reset", "debe reset"}
  /\ inReset \subseteq Blocks /\ clocked \subseteq Blocks
  /\ bringUp \in {"debe released", "running"} \cup Programmed => "debe" \notin inReset
  /\ bringUp \in {"running"} \cup Programmed => "tcon" \notin inReset
  /\ bringUp \in {"defe clocked", "debe clocked"} \cup Clocked => "defe" \in clocked
  /\ bringUp \in {"debe clocked"} \cup Clocked => "debe" \in clocked
  /\ bringUp \in Clocked => "tcon" \in clocked
  /\ bringUp = "defe reset" /\ (tconOn \/ debeOn) => DrivenWell
  /\ bringUp \in Programmed => timing
  /\ bringUp \in {"layered", "shown"} => layer.set /\ layer.on

\* A flag which a polling thread may see was raised since it cleared it.
PollInv ==
  /\ DOMAIN polling = Pollers /\ DOMAIN sinceClear = Pollers
  /\ \A t \in Pollers : polling[t] = "poll" /\ flag => sinceClear[t]

LcdInv == DisplayInv /\ PollInv

LEMMA LcdStart == LcdInit => LcdInv
<1>1. LcdInit => DisplayInv
  BY DEF LcdInit, DisplayInv, Blanked, Programmed, Clocked, Blocks
<1>2. LcdInit => PollInv
  BY DEF LcdInit, PollInv
<1>3. QED BY <1>1, <1>2 DEF LcdInv

LEMMA DisplayKeeps ==
  ASSUME DisplayInv, [LcdStep]_lcdVars
  PROVE  DisplayInv'
<1> USE DEF DisplayInv, Programmed, Clocked, Blocks, DrivenWell
<1>1. CASE ResetDefe
  BY <1>1 DEF ResetDefe, Moves, vblankVars
<1>2. CASE ResetDebe
  BY <1>2 DEF ResetDebe, Moves, Blanked, vblankVars
<1>3. CASE ResetTcon
  BY <1>3 DEF ResetTcon, Moves
<1>4. CASE EnableClocks
  <2>1. CASE ClockBlock("defe", "reset", "defe clocked")
    BY <2>1 DEF ClockBlock, Moves
  <2>2. CASE ClockBlock("debe", "defe clocked", "debe clocked")
    BY <2>2 DEF ClockBlock, Moves
  <2>3. CASE ClockBlock("tcon", "debe clocked", "clocked")
    BY <2>3 DEF ClockBlock, Moves
  <2>4. QED BY <1>4, <2>1, <2>2, <2>3 DEF EnableClocks
<1>5. CASE DeassertResets
  <2>1. CASE ReleaseBlock("defe", "clocked", "defe released")
    BY <2>1 DEF ReleaseBlock, Moves
  <2>2. CASE ReleaseBlock("debe", "defe released", "debe released")
    BY <2>2 DEF ReleaseBlock, Moves
  <2>3. CASE ReleaseBlock("tcon", "debe released", "running")
    BY <2>3 DEF ReleaseBlock, Moves
  <2>4. QED BY <1>5, <2>1, <2>2, <2>3 DEF DeassertResets
<1>6. CASE ProgramPanel
  BY <1>6 DEF ProgramPanel, Moves, Blanked
<1>7. CASE LayerInit
  <2>1. PICK fb \in Buffers : layer' = [SetAddr(fb) EXCEPT !.on = TRUE]
    BY <1>7 DEF LayerInit
  <2>2. DOMAIN layer' = {"lo", "hi", "set", "on"} /\ layer'.set /\ layer'.on
    BY <2>1 DEF SetAddr
  <2>3. QED BY <1>7, <2>2 DEF LayerInit, Moves
<1>8. CASE OutputEnable
  <2>1. /\ bringUp \in {"layered", "shown"} /\ bringUp' = "shown"
        /\ UNCHANGED <<inReset, clocked, timing, layer>>
    BY <1>8 DEF OutputEnable, Moves
  <2>2. QED BY <2>1
<1>9. CASE OutputDisable
  BY <1>9 DEF OutputDisable, Moves
<1>10. CASE FlipFramebuffer
  <2>1. PICK fb \in Buffers : layer' = SetAddr(fb)
    BY <1>10 DEF FlipFramebuffer
  <2>2. DOMAIN layer' = {"lo", "hi", "set", "on"} /\ layer'.set /\ (layer.on => layer'.on)
    BY <2>1 DEF SetAddr
  <2>3. QED BY <1>10, <2>2 DEF FlipFramebuffer
<1>11. CASE UNCHANGED displayVars
  BY <1>11 DEF displayVars
<1>12. CASE EnableVblankIrq \/ VblankIsr \/ BlankBegins \/ BlankEnds \/ WatchTick
  BY <1>11, <1>12 DEF EnableVblankIrq, VblankIsr, BlankBegins, BlankEnds, WatchTick
<1>13. ASSUME NEW t \in Pollers, WaitCall(t) \/ WaitClear(t) \/ WaitSees(t) \/ WaitGivesUp(t)
       PROVE  DisplayInv'
  BY <1>11, <1>13 DEF WaitCall, WaitClear, WaitSees, WaitGivesUp, Returns
<1>14. CASE UNCHANGED lcdVars
  BY <1>11, <1>14 DEF lcdVars, displayVars
<1>15. QED BY <1>1, <1>2, <1>3, <1>4, <1>5, <1>6, <1>7, <1>8, <1>9, <1>10, <1>12, <1>13, <1>14
       DEF LcdStep

LEMMA PollKeeps ==
  ASSUME PollInv, [LcdStep]_lcdVars
  PROVE  PollInv'
<1> USE DEF PollInv
<1>1. CASE UNCHANGED <<polling, sinceClear>> /\ (flag' => flag)
  BY <1>1
<1>2. CASE ResetDefe \/ ResetDebe \/ ResetTcon \/ ProgramPanel \/ LayerInit
  BY <1>1, <1>2 DEF ResetDefe, ResetDebe, ResetTcon, ProgramPanel, LayerInit, vblankVars
<1>3. CASE EnableClocks \/ DeassertResets
  BY <1>1, <1>3 DEF EnableClocks, ClockBlock, DeassertResets, ReleaseBlock, vblankVars
<1>4. CASE OutputEnable \/ OutputDisable \/ FlipFramebuffer \/ UNCHANGED lcdVars
  BY <1>1, <1>4 DEF OutputEnable, OutputDisable, FlipFramebuffer, vblankVars, lcdVars
<1>5. CASE EnableVblankIrq \/ VblankIsr \/ BlankEnds \/ WatchTick
  BY <1>1, <1>5 DEF EnableVblankIrq, VblankIsr, WriteInt0, BlankEnds, WatchTick, vblankVars
<1>6. ASSUME NEW t \in Pollers, WaitCall(t)
      PROVE  PollInv'
  BY <1>6 DEF WaitCall
<1>7. ASSUME NEW t \in Pollers, WaitClear(t)
      PROVE  PollInv'
  BY <1>7 DEF WaitClear, WriteInt0
<1>8. ASSUME NEW t \in Pollers, WaitSees(t) \/ WaitGivesUp(t)
      PROVE  PollInv'
  BY <1>8 DEF WaitSees, WaitGivesUp, Returns
<1>9. CASE BlankBegins
  BY <1>9 DEF BlankBegins
<1>10. QED BY <1>2, <1>3, <1>4, <1>5, <1>6, <1>7, <1>8, <1>9 DEF LcdStep

LEMMA LcdKeeps ==
  ASSUME LcdInv, [LcdStep]_lcdVars
  PROVE  LcdInv'
BY DisplayKeeps, PollKeeps DEF LcdInv

-----------------------------------------------------------------------------
(* The touch screen.                                                       *)

TouchInv ==
  /\ flags \in [y_reverse : BOOLEAN, x_reverse : BOOLEAN, xy_exchange : BOOLEAN]
  /\ report \in Reports
  /\ touchAt \in {"out", "count", "data", "enable"}
  /\ count \in Nat
  /\ touchAt \in {"out", "enable"} /\ ~failed => pinPending \/ seen = report
  /\ touchAt = "data" /\ ~moved => count = Shown(Len(report))
  /\ PointsAreFingers /\ WithinOneOfPanel

\* A report is a sequence of points of the controller's.
LEMMA ReportsAre ==
  ASSUME NEW r \in Reports
  PROVE  Len(r) \in Nat /\ \A i \in 1 .. Len(r) : r[i] \in Raw
<1>1. PICK n \in 0 .. MaxFingers : r \in [1 .. n -> Raw]
  BY DEF Reports
<1>2. n \in Nat /\ r \in Seq(Raw) /\ Len(r) = n
  BY <1>1, TouchAssumption
<1>3. QED BY <1>1, <1>2

LEMMA ShownIs ==
  ASSUME NEW n \in Nat
  PROVE  Shown(n) \in Nat /\ Shown(n) <= n
BY TouchAssumption DEF Shown

\* A subtraction that does not wrap.
LEMMA Mirrored ==
  ASSUME NEW M \in Nat, NEW top \in Nat, top < M, NEW v \in Nat, v < top
  PROVE  (top - v + M) % M = top - v
<1>1. PICK w \in Nat : w = top - v /\ w < M
  OBVIOUS
<1>2. (w + M) % M = w
  <2>1. M \in Nat \ {0} /\ w + M \in Nat
    BY <1>1
  <2> DEFINE q == (w + M) \div M
             r == (w + M) % M
  <2>2. q \in Nat /\ r \in Nat /\ r < M /\ w + M = q * M + r
    BY <2>1, Division
  <2> HIDE DEF q
  <2>3. q <= 1
    <3>1. q * M <= (1 + 1) * M - 1
      <4> HIDE DEF r
      <4>1. (1 + 1) * M = M + M /\ q * M \in Nat
        BY <2>1, <2>2
      <4>2. QED BY <1>1, <2>1, <2>2, <4>1
    <3>2. q * M + 0 = q * M /\ 0 < M /\ 0 \in Nat /\ 1 \in Nat
      BY <2>1, <2>2
    <3>3. QED BY <2>1, <2>2, <3>1, <3>2, InSection
  <2>4. 1 <= q
    <3>1. 1 * M <= q * M + r
      <4> HIDE DEF r
      <4>1. QED BY <1>1, <2>1, <2>2
    <3>2. QED BY <2>1, <2>2, <3>1, InSection
  <2>5. q = 1
    BY <2>2, <2>3, <2>4
  <2>6. r = w
    <3> HIDE DEF r
    <3>1. QED BY <1>1, <2>1, <2>2, <2>5
  <2>7. QED BY <2>6
<1>3. QED BY <1>1, <1>2

LEMMA U16IsNat == U16 \in Nat
BY SMT DEF U16

\* A raw point is mapped onto the panel or one past it.
LEMMA TransformWithinOne ==
  ASSUME flags \in [y_reverse : BOOLEAN, x_reverse : BOOLEAN, xy_exchange : BOOLEAN],
         NEW p \in Raw
  PROVE  /\ CoordTransform(p).x \in 0 .. (IF flags.xy_exchange THEN RangeY ELSE RangeX)
         /\ CoordTransform(p).y \in 0 .. (IF flags.xy_exchange THEN RangeX ELSE RangeY)
<1>1. ASSUME NEW top \in 1 .. U16 - 1, NEW v \in 0 .. top - 1, NEW reverse
      PROVE  Mirror(reverse, top, v) \in 0 .. top
  <2>1. U16 \in Nat
    BY U16IsNat
  <2>2. top \in Nat /\ top < U16 /\ v \in Nat /\ v < top
    BY <1>1, <2>1
  <2>3. Sub16(top, v) = top - v
    BY <2>1, <2>2, Mirrored DEF Sub16
  <2>4. v \in 0 .. top /\ top - v \in 0 .. top
    BY <2>2
  <2>5. QED BY <2>3, <2>4, Zenon DEF Mirror
<1>2. /\ RangeX \in 1 .. U16 - 1 /\ RangeY \in 1 .. U16 - 1
      /\ p.x \in 0 .. RangeX - 1 /\ p.y \in 0 .. RangeY - 1
  BY TouchAssumption DEF Raw
<1>3. /\ Mirror(flags.x_reverse, RangeY, p.y) \in 0 .. RangeY
      /\ Mirror(flags.y_reverse, RangeX, p.x) \in 0 .. RangeX
      /\ Mirror(flags.x_reverse, RangeX, p.x) \in 0 .. RangeX
      /\ Mirror(flags.y_reverse, RangeY, p.y) \in 0 .. RangeY
  BY <1>1, <1>2
<1>4. QED BY <1>3 DEF CoordTransform

LEMMA TouchStart == TouchInit => TouchInv
<1> SUFFICES ASSUME TouchInit PROVE TouchInv
  OBVIOUS
<1>1. <<>> \in Reports
  <2>1. <<>> \in [1 .. 0 -> Raw] /\ 0 \in 0 .. MaxFingers
    BY TouchAssumption
  <2>2. QED BY <2>1 DEF Reports
<1>2. WithinOneOfPanel
  BY DEF TouchInit, WithinOneOfPanel
<1>3. QED BY <1>1, <1>2 DEF TouchInit, TouchInv, PointsAreFingers

LEMMA TouchKeeps ==
  ASSUME TouchInv, [TouchStep]_touchVars
  PROVE  TouchInv'
<1>1. CASE Report
  <2>1. /\ report' \in Reports /\ pinPending' = TRUE /\ moved' = TRUE
        /\ UNCHANGED <<flags, pinOn, touchAt, count, seen, failed, points>>
    BY <1>1 DEF Report
  <2>2. PointsAreFingers'
    BY <2>1 DEF PointsAreFingers
  <2>3. WithinOneOfPanel'
    BY <2>1 DEF TouchInv, WithinOneOfPanel, ShownWidth, ShownHeight
  <2>4. QED BY <2>1, <2>2, <2>3 DEF TouchInv
<1>2. CASE IntDisable
  <2>1. PointsAreFingers'
    BY <1>2 DEF IntDisable, PointsAreFingers
  <2>2. WithinOneOfPanel'
    BY <1>2 DEF IntDisable, TouchInv, WithinOneOfPanel, ShownWidth, ShownHeight
  <2>3. QED BY <1>2, <2>1, <2>2 DEF TouchInv, IntDisable
<1>3. CASE ReadCount
  <2>1. Len(report) \in Nat /\ count' = Shown(Len(report)) /\ count' \in Nat
        /\ UNCHANGED <<flags, report, pinPending, pinOn>>
    BY <1>3, ReportsAre, ShownIs DEF TouchInv, ReadCount
  <2>2. CASE report = <<>>
    <3>1. touchAt' = "enable" /\ seen' = report /\ points' = <<>> /\ failed' = FALSE
      BY <1>3, <2>2 DEF ReadCount
    <3>2. Shown(Len(report)) = 0
      BY <2>2, TouchAssumption DEF Shown
    <3>3. PointsAreFingers'
      BY <2>1, <3>1, <3>2 DEF PointsAreFingers, CoordTransform
    <3>4. WithinOneOfPanel'
      BY <3>1 DEF WithinOneOfPanel
    <3>5. QED BY <2>1, <3>1, <3>3, <3>4 DEF TouchInv
  <2>3. CASE report # <<>>
    <3>1. touchAt' = "data" /\ UNCHANGED <<seen, points, failed>>
      BY <1>3, <2>3 DEF ReadCount
    <3>2. PointsAreFingers'
      BY <3>1 DEF PointsAreFingers
    <3>3. WithinOneOfPanel'
      BY <2>1, <3>1 DEF TouchInv, WithinOneOfPanel, ShownWidth, ShownHeight
    <3>4. QED BY <2>1, <3>1, <3>2, <3>3 DEF TouchInv
  <2>4. QED BY <2>2, <2>3
<1>4. CASE ReadData
  <2>1. /\ touchAt = "data" /\ touchAt' = "enable" /\ seen' = report
        /\ UNCHANGED <<flags, report, pinPending, pinOn, count, moved>>
    BY <1>4 DEF ReadData
  <2>2. PICK stale \in Raw :
          points' = [i \in 1 .. count |-> CoordTransform(IF i <= Len(report) THEN report[i] ELSE stale)]
    BY <1>4 DEF ReadData
  <2>3. Len(report) \in Nat /\ (\A i \in 1 .. Len(report) : report[i] \in Raw) /\ count \in Nat
    BY ReportsAre DEF TouchInv
  <2>4. \A p : CoordTransform(p)' = CoordTransform(p)
    BY <2>1 DEF CoordTransform
  <2>5. PointsAreFingers'
    <3>1. SUFFICES ASSUME ~moved
                   PROVE  points' = [i \in 1 .. Shown(Len(report)) |-> CoordTransform(report[i])]
      BY <2>1, <2>4 DEF PointsAreFingers, CoordTransform
    <3>2. count = Shown(Len(report)) /\ count <= Len(report)
      BY <2>1, <2>3, <3>1, ShownIs DEF TouchInv
    <3>3. \A i \in 1 .. count : i <= Len(report)
      BY <2>3, <3>2
    <3>4. QED BY <2>2, <3>2, <3>3
  <2>6. WithinOneOfPanel'
    <3>1. SUFFICES ASSUME NEW i \in DOMAIN points'
                   PROVE  /\ points'[i].x \in 0 .. (IF flags.xy_exchange THEN RangeY ELSE RangeX)
                          /\ points'[i].y \in 0 .. (IF flags.xy_exchange THEN RangeX ELSE RangeY)
      BY <2>1 DEF WithinOneOfPanel, ShownWidth, ShownHeight
    <3>2. PICK p \in Raw : points'[i] = CoordTransform(p)
      BY <2>2, <2>3
    <3>3. QED BY <3>2, TransformWithinOne DEF TouchInv
  <2>7. QED BY <2>1, <2>5, <2>6 DEF TouchInv
<1>5. CASE ReadFails
  <2>1. PointsAreFingers'
    BY <1>5 DEF ReadFails, PointsAreFingers
  <2>2. WithinOneOfPanel'
    BY <1>5 DEF ReadFails, TouchInv, WithinOneOfPanel, ShownWidth, ShownHeight
  <2>3. QED BY <1>5, <2>1, <2>2 DEF TouchInv, ReadFails
<1>6. CASE IntEnable
  <2>1. PointsAreFingers'
    BY <1>6 DEF IntEnable, PointsAreFingers
  <2>2. WithinOneOfPanel'
    BY <1>6 DEF IntEnable, TouchInv, WithinOneOfPanel, ShownWidth, ShownHeight
  <2>3. QED BY <1>6, <2>1, <2>2 DEF TouchInv, IntEnable
<1>7. CASE UNCHANGED touchVars
  <2>1. PointsAreFingers'
    BY <1>7 DEF touchVars, TouchInv, PointsAreFingers, CoordTransform
  <2>2. WithinOneOfPanel'
    BY <1>7 DEF touchVars, TouchInv, WithinOneOfPanel, ShownWidth, ShownHeight
  <2>3. QED BY <1>7, <2>1, <2>2 DEF TouchInv, touchVars
<1>8. QED BY <1>1, <1>2, <1>3, <1>4, <1>5, <1>6, <1>7 DEF TouchStep

\* The back end and the TCON are on only with clocks, timing and a framebuffer, but
\* for the TCON in the one step between the resets of the two when a display that is
\* on is initialised again; touches are neither missed nor invented, and none is
\* mapped below zero or further out than one past the panel, for every size of the
\* panel and number of fingers (lcd.rs:254-420, 635-700, touch.rs:70-128,
\* cst8xx.rs:145-198).
THEOREM PanelIsKept == DevicesSpec => []PanelKept
<1> DEFINE Inv == LcdInv /\ TouchInv
<1>1. DevicesInit => Inv
  BY LcdStart, TouchStart DEF DevicesInit
<1>2. Inv /\ [DevicesNext]_deviceVars => Inv'
  <2>1. [DevicesNext]_deviceVars => [LcdStep]_lcdVars
    BY DEF DevicesNext, Only, deviceVars
  <2>2. [DevicesNext]_deviceVars => [TouchStep]_touchVars
    BY DEF DevicesNext, Only, deviceVars
  <2>3. QED BY <2>1, <2>2, LcdKeeps, TouchKeeps
<1>3. Inv => PanelKept
  <2>1. LcdInv => ShowsABuffer
    BY DEF LcdInv, DisplayInv, ShowsABuffer, DrivenWell, Programmed, Clocked, Blocks
  <2>2. TouchInv => TouchKept
    BY DEF TouchInv, TouchKept, NoTouchMissed
  <2>3. QED BY <2>1, <2>2 DEF PanelKept
<1>4. QED BY <1>1, <1>2, <1>3, PTL DEF DevicesSpec

-----------------------------------------------------------------------------
(* What single steps may not do: the display's.                            *)

LEMMA VblankSteps ==
  ASSUME LcdInv, [LcdStep]_lcdVars
  PROVE  /\ [\A t \in Pollers :
               polling[t] = "poll" /\ polling'[t] = "out" /\ saw' = "edge" => sinceClear[t]]_lcdVars
         /\ [armed /\ ~armed' => polled' \/ "tcon" \in inReset']_lcdVars
<1> SUFFICES ASSUME LcdStep
             PROVE  /\ \A t \in Pollers :
                         polling[t] = "poll" /\ polling'[t] = "out" /\ saw' = "edge" => sinceClear[t]
                    /\ armed /\ ~armed' => polled' \/ "tcon" \in inReset'
  OBVIOUS
<1>0. DOMAIN polling = Pollers /\ \A t \in Pollers : polling[t] = "poll" /\ flag => sinceClear[t]
  BY DEF LcdInv, PollInv
<1>1. CASE ResetDefe \/ ResetDebe \/ ResetTcon \/ EnableClocks \/ DeassertResets \/ ProgramPanel
  <2>1. CASE ResetDefe \/ ResetDebe \/ ProgramPanel
    <3>1. UNCHANGED vblankVars
      BY <2>1 DEF ResetDefe, ResetDebe, ProgramPanel
    <3>2. QED BY <3>1 DEF vblankVars
  <2>2. CASE ResetTcon
    BY <2>2 DEF ResetTcon
  <2>3. CASE EnableClocks \/ DeassertResets
    <3>1. UNCHANGED vblankVars
      BY <2>3 DEF EnableClocks, ClockBlock, DeassertResets, ReleaseBlock
    <3>2. QED BY <3>1 DEF vblankVars
  <2>4. QED BY <1>1, <2>1, <2>2, <2>3
<1>2. CASE LayerInit \/ OutputEnable \/ OutputDisable \/ FlipFramebuffer
  BY <1>2 DEF LayerInit, OutputEnable, OutputDisable, FlipFramebuffer, vblankVars
<1>3. ASSUME NEW u \in Pollers, WaitCall(u) \/ WaitClear(u)
      PROVE  /\ \A t \in Pollers : polling[t] = "poll" => polling'[t] = "poll"
             /\ armed /\ ~armed' => polled'
  BY <1>0, <1>3 DEF WaitCall, WaitClear, WriteInt0
<1>4. ASSUME NEW u \in Pollers, WaitSees(u) \/ WaitGivesUp(u)
      PROVE  /\ \A t \in Pollers :
                  polling[t] = "poll" /\ polling'[t] = "out" /\ saw' = "edge" => sinceClear[t]
             /\ armed' = armed
  <2>1. armed' = armed /\ polling' = [polling EXCEPT ![u] = "out"]
    BY <1>4 DEF WaitSees, WaitGivesUp, Returns
  <2>2. saw' = "edge" => flag
    BY <1>4 DEF WaitSees, WaitGivesUp, Returns
  <2>3. QED BY <1>0, <2>1, <2>2
<1>5. CASE EnableVblankIrq \/ VblankIsr \/ BlankBegins \/ BlankEnds \/ WatchTick
  BY <1>5 DEF EnableVblankIrq, VblankIsr, BlankBegins, BlankEnds, WatchTick, WriteInt0, vblankVars
<1>6. QED BY <1>1, <1>2, <1>3, <1>4, <1>5 DEF LcdStep

-----------------------------------------------------------------------------
(* The delay.                                                              *)

\* The counter has been reset since every call that polls it.
DelayInv ==
  /\ cnt \in Nat /\ us \in [Delayers -> Nat] /\ elapsed \in [Delayers -> Nat]
  /\ at \in [Delayers -> {"out", "reset", "poll"}]
  /\ \A t \in Delayers : at[t] = "poll" => cnt <= elapsed[t]

LEMMA DelayStart == DelayInit => DelayInv
BY DEF DelayInit, DelayInv

LEMMA DelaySteps ==
  ASSUME DelayInv, [DelayStep]_delayVars
  PROVE  /\ DelayInv'
         /\ [\A t \in Delayers : at[t] = "poll" /\ at'[t] = "out" => elapsed[t] >= us[t]]_delayVars
<1>1. CASE UNCHANGED delayVars
  BY <1>1 DEF delayVars, DelayInv
<1>2. ASSUME NEW u \in Delayers, DelayCall(u)
      PROVE  DelayInv' /\ \A t \in Delayers : at[t] = "poll" => at'[t] # "out"
  BY <1>2, DelayAssumption DEF DelayCall, DelayInv
<1>3. ASSUME NEW u \in Delayers, DelayReset(u)
      PROVE  DelayInv' /\ \A t \in Delayers : at[t] = "poll" => at'[t] # "out"
  BY <1>3 DEF DelayReset, DelayInv
<1>4. ASSUME NEW u \in Delayers, DelayPoll(u)
      PROVE  /\ DelayInv'
             /\ \A t \in Delayers : at[t] = "poll" /\ at'[t] = "out" => elapsed[t] >= us[t]
  BY <1>4 DEF DelayPoll, DelayInv
<1>5. CASE AvsTick
  <2>1. cnt' \in Nat /\ cnt' <= cnt + 1
    <3>1. CntModulus \in Nat \ {0} /\ cnt + 1 \in Nat
      BY DelayAssumption DEF DelayInv
    <3> DEFINE q == (cnt + 1) \div CntModulus
               r == (cnt + 1) % CntModulus
    <3>2. q \in Nat /\ r \in Nat /\ cnt + 1 = q * CntModulus + r
      BY <3>1, Division
    <3>3. cnt' = r
      BY <1>5 DEF AvsTick
    <3> HIDE DEF q, r
    <3>4. q * CntModulus \in Nat
      BY <3>1, <3>2
    <3>5. QED BY <3>2, <3>3, <3>4
  <2>2. /\ elapsed' = [t \in Delayers |-> IF at[t] = "out" THEN 0 ELSE elapsed[t] + 1]
        /\ UNCHANGED <<us, at>>
    BY <1>5 DEF AvsTick
  <2>3. QED BY <2>1, <2>2 DEF DelayInv
<1>6. QED BY <1>1, <1>2, <1>3, <1>4, <1>5 DEF DelayStep

-----------------------------------------------------------------------------
(* The clock tree.                                                         *)

\* While the PLLs are programmed the CPU runs on the oscillator.
ClockInv ==
  /\ DOMAIN pll = Plls /\ DOMAIN locked = Plls
  /\ step \in {"periph", "periph on", "periph wait", "ahb", "apb", "video", "video on", "video wait",
              "cpu", "cpu on", "cpu wait", "cpu to PLL"} => cpuSrc = "OSC24M"
  /\ step = "cpu to PLL" => locked["CPU"] \/ gaveUp

LEMMA ClockStart == ClockInit => ClockInv
<1> SUFFICES ASSUME ClockInit PROVE ClockInv
  OBVIOUS
<1>1. DOMAIN pll = Plls
  BY DEF ClockInit, Warm, Plls
<1>2. QED BY <1>1 DEF ClockInit, ClockInv

LEMMA ClockSteps ==
  ASSUME ClockInv, [ClockStep]_clockVars
  PROVE  /\ ClockInv'
         /\ [pll'["CPU"] # pll["CPU"] => cpuSrc # "PLL"]_clockVars
         /\ [cpuSrc # "PLL" /\ cpuSrc' = "PLL" => locked["CPU"] \/ gaveUp]_clockVars
<1> USE DEF ClockInv, Plls
<1>1. CASE UNCHANGED clockVars
  BY <1>1 DEF clockVars
<1>2. CASE SetCpu("cpu to 24M", "OSC24M", "periph") \/ SetCpu("cpu to PLL", "PLL", "done")
  BY <1>2 DEF SetCpu, Goes, ClkCpuConfig
<1>3. CASE ProgramPlls
  <2>1. CASE Goes("periph", "periph on") /\ PllPeriphInit(25, 1)
    BY <1>3, <2>1 DEF ProgramPlls, Goes, PllPeriphInit, SetPll
  <2>2. CASE Goes("video", "video on") /\ PllVideoInit(99, 8)
    BY <1>3, <2>2 DEF ProgramPlls, Goes, PllVideoInit, SetPll
  <2>3. CASE Goes("cpu", "cpu on") /\ PllCpuInit(ratio.mul, ratio.div)
    BY <1>3, <2>3 DEF ProgramPlls, Goes, PllCpuInit, SetPll
  <2>4. QED BY <1>3, <2>1, <2>2, <2>3 DEF ProgramPlls
<1>4. CASE ClkPllEnable
  BY <1>4 DEF ClkPllEnable, Goes, ClkEnable
<1>5. CASE WaitPllStable
  BY <1>5 DEF WaitPllStable, Goes, Polled
<1>6. CASE SetBus
  BY <1>6 DEF SetBus, Goes
<1>7. CASE PllLocks
  BY <1>7 DEF PllLocks
<1>8. QED BY <1>1, <1>2, <1>3, <1>4, <1>5, <1>6, <1>7 DEF ClockStep

\* The steps of init_default from each point on.
PllOn == {"done"}
CpuWait == {"cpu wait", "cpu to PLL"} \cup PllOn
CpuOn == {"cpu on"} \cup CpuWait
VideoWait == {"video wait", "cpu"} \cup CpuOn
VideoOn == {"video on"} \cup VideoWait
BusSet == {"video"} \cup VideoOn
AhbSet == {"apb"} \cup BusSet
PeriphWait == {"periph wait", "ahb"} \cup AhbSet
PeriphOn == {"periph on"} \cup PeriphWait

CpuFields(mul, div) ==
  [n |-> (mul \div FactorK(mul)) - 1, k |-> FactorK(mul) - 1,
   m |-> FactorM(div) - 1, p |-> EncodeP(div \div FactorM(div))]

\* A PLL that has the ratio asked for.
AsAsked(x, r) ==
  LET f == CpuFields(r.mul, r.div)
  IN  Encodable(r.mul, r.div) /\ x.n = f.n /\ x.k = f.k /\ x.m = f.m /\ x.p = f.p

PllFields == [on : BOOLEAN, n : Int, k : Int, m : Int, p : Int]
BusFields == [src : Int, pre : Int, div : Int, apb : Int]

\* What is set so far of a PLL, and of the buses, is what the tree is drawn with; a
\* source of the buses that is not yet set is the oscillator, or what an earlier
\* init_default has left.
PeriphGood(x, s) ==
  /\ x.on \/ s \in PeriphOn => x.n = 24 /\ x.k = 0
  /\ s \in PeriphWait => x.on
VideoGood(x, s) ==
  /\ s \in VideoOn => x.n = 98 /\ x.m = 7
  /\ s \in VideoWait => x.on
CpuGood(x, s, none, r) ==
  /\ s \in CpuOn => none \/ AsAsked(x, r)
  /\ s \in CpuWait => x.on
BusGood(b, s) ==
  /\ (b.src = 1 /\ b.pre = 0) \/ (b.src = 3 /\ b.pre = 2)
  /\ b.div = 0 /\ b.apb \in {0, 1}
  /\ s \in AhbSet => b.src = 3
  /\ s \in BusSet => b.apb = 1

TreeInv ==
  /\ pll \in [Plls -> PllFields] /\ bus \in BusFields
  /\ ratio \in [mul : 1 .. 128, div : 1 .. 16] /\ refused \in BOOLEAN
  /\ PeriphGood(pll["PERIPH"], step) /\ VideoGood(pll["VIDEO"], step)
  /\ CpuGood(pll["CPU"], step, refused, ratio) /\ BusGood(bus, step)
  /\ step \in PllOn => cpuSrc = "PLL"

\* Fields changed one by one.
LEMMA FieldsAre ==
  ASSUME NEW b \in BOOLEAN, NEW n \in Int, NEW k \in Int, NEW m \in Int, NEW p \in Int
  PROVE  [on |-> b, n |-> n, k |-> k, m |-> m, p |-> p] \in PllFields
BY DEF PllFields

LEMMA OnChanged ==
  ASSUME NEW b \in BOOLEAN, NEW r \in PllFields, NEW s, s = [r EXCEPT !.on = b]
  PROVE  s \in PllFields /\ s = [on |-> b, n |-> r.n, k |-> r.k, m |-> r.m, p |-> r.p]
BY DEF PllFields

LEMMA FactorsChanged ==
  ASSUME NEW r \in PllFields, NEW i \in Int, NEW j \in Int
  PROVE  /\ [r EXCEPT !.n = i, !.k = j] = [on |-> r.on, n |-> i, k |-> j, m |-> r.m, p |-> r.p]
         /\ [r EXCEPT !.n = i, !.m = j] = [on |-> r.on, n |-> i, k |-> r.k, m |-> j, p |-> r.p]
<1>1. ASSUME NEW s, s = [r EXCEPT !.n = i, !.k = j]
      PROVE  s = [on |-> r.on, n |-> i, k |-> j, m |-> r.m, p |-> r.p]
  BY <1>1 DEF PllFields
<1>2. ASSUME NEW s, s = [r EXCEPT !.n = i, !.m = j]
      PROVE  s = [on |-> r.on, n |-> i, k |-> r.k, m |-> j, p |-> r.p]
  BY <1>2 DEF PllFields
<1>3. QED BY <1>1, <1>2, Zenon

LEMMA SetPllIs ==
  ASSUME pll \in [Plls -> PllFields], NEW c \in Plls, NEW f \in PllFields, SetPll(c, f)
  PROVE  /\ pll' \in [Plls -> PllFields]
         /\ pll'[c] = [on |-> pll[c].on, n |-> f.n, k |-> f.k, m |-> f.m, p |-> f.p]
         /\ \A d \in Plls \ {c} : pll'[d] = pll[d]
<1>1. pll' = [pll EXCEPT ![c] = [f EXCEPT !.on = pll[c].on]]
  BY DEF SetPll
<1>2. pll[c] \in PllFields /\ pll[c].on \in BOOLEAN
  BY DEF PllFields
<1>3. pll'[c] = [f EXCEPT !.on = pll[c].on] /\ \A d \in Plls \ {c} : pll'[d] = pll[d]
  BY <1>1, Zenon
<1>4. /\ pll'[c] \in PllFields
      /\ pll'[c] = [on |-> pll[c].on, n |-> f.n, k |-> f.k, m |-> f.m, p |-> f.p]
  BY <1>2, <1>3, OnChanged, Zenon
<1>5. pll' = [d \in Plls |-> pll'[d]]
  BY <1>1, Zenon
<1>6. \A d \in Plls : pll'[d] \in PllFields
  BY <1>3, <1>4, Zenon
<1>7. QED BY <1>3, <1>4, <1>5, <1>6

LEMMA OffIs ==
  /\ Off \in PllFields
  /\ \A i, j \in Int :
       /\ [Off EXCEPT !.n = i, !.k = j] = [on |-> FALSE, n |-> i, k |-> j, m |-> 0, p |-> 0]
       /\ [Off EXCEPT !.n = i, !.m = j] = [on |-> FALSE, n |-> i, k |-> 0, m |-> j, p |-> 0]
<1>1. Off \in PllFields /\ Off.on = FALSE /\ Off.k = 0 /\ Off.m = 0 /\ Off.p = 0
  BY DEF Off, PllFields
<1>2. SUFFICES ASSUME NEW i \in Int, NEW j \in Int
               PROVE  /\ [Off EXCEPT !.n = i, !.k = j] = [on |-> FALSE, n |-> i, k |-> j, m |-> 0, p |-> 0]
                      /\ [Off EXCEPT !.n = i, !.m = j] = [on |-> FALSE, n |-> i, k |-> 0, m |-> j, p |-> 0]
  BY <1>1
<1>3. \A r \in PllFields :
        /\ [r EXCEPT !.n = i, !.k = j] = [on |-> r.on, n |-> i, k |-> j, m |-> r.m, p |-> r.p]
        /\ [r EXCEPT !.n = i, !.m = j] = [on |-> r.on, n |-> i, k |-> r.k, m |-> j, p |-> r.p]
  <2>1. TAKE r \in PllFields
  <2>2. [r EXCEPT !.n = i, !.k = j] = [on |-> r.on, n |-> i, k |-> j, m |-> r.m, p |-> r.p]
    BY FactorsChanged, ZenonT(60)
  <2>3. [r EXCEPT !.n = i, !.m = j] = [on |-> r.on, n |-> i, k |-> r.k, m |-> j, p |-> r.p]
    BY FactorsChanged, ZenonT(60)
  <2>4. QED BY <2>2, <2>3
<1>4. QED BY <1>1, <1>3, Zenon

LEMMA EnableIs ==
  ASSUME pll \in [Plls -> PllFields], NEW c \in Plls, ClkEnable(c)
  PROVE  /\ pll' \in [Plls -> PllFields]
         /\ pll'[c] = [on |-> TRUE, n |-> pll[c].n, k |-> pll[c].k, m |-> pll[c].m, p |-> pll[c].p]
         /\ \A d \in Plls \ {c} : pll'[d] = pll[d]
BY DEF ClkEnable, PllFields

\* The same, PLL by PLL.
LEMMA SetPllAt ==
  ASSUME pll \in [Plls -> PllFields], NEW f \in PllFields
  PROVE  /\ \A c \in Plls : SetPll(c, f) => pll' \in [Plls -> PllFields]
         /\ \A c \in Plls : SetPll(c, f) =>
              pll'[c] = [on |-> pll[c].on, n |-> f.n, k |-> f.k, m |-> f.m, p |-> f.p]
         /\ "PERIPH" \in Plls /\ "VIDEO" \in Plls /\ "CPU" \in Plls
         /\ SetPll("PERIPH", f) => pll'["VIDEO"] = pll["VIDEO"] /\ pll'["CPU"] = pll["CPU"]
         /\ SetPll("VIDEO", f) => pll'["PERIPH"] = pll["PERIPH"] /\ pll'["CPU"] = pll["CPU"]
         /\ SetPll("CPU", f) => pll'["PERIPH"] = pll["PERIPH"] /\ pll'["VIDEO"] = pll["VIDEO"]
<1>1. "PERIPH" \in Plls /\ "VIDEO" \in Plls /\ "CPU" \in Plls
  BY DEF Plls
<1>2. \A c, d \in Plls : SetPll(c, f) /\ c # d => pll'[d] = pll[d]
  BY SetPllIs, Zenon
<1>3. "PERIPH" # "VIDEO" /\ "PERIPH" # "CPU" /\ "VIDEO" # "CPU"
  OBVIOUS
<1>4. QED BY <1>1, <1>2, <1>3, SetPllIs, Zenon

LEMMA EnableAt ==
  ASSUME pll \in [Plls -> PllFields]
  PROVE  /\ \A c \in Plls : ClkEnable(c) =>
              /\ pll' \in [Plls -> PllFields] /\ pll'[c].on
              /\ pll'[c].n = pll[c].n /\ pll'[c].k = pll[c].k
              /\ pll'[c].m = pll[c].m /\ pll'[c].p = pll[c].p
         /\ "PERIPH" \in Plls /\ "VIDEO" \in Plls /\ "CPU" \in Plls
         /\ ClkEnable("PERIPH") => pll'["VIDEO"] = pll["VIDEO"] /\ pll'["CPU"] = pll["CPU"]
         /\ ClkEnable("VIDEO") => pll'["PERIPH"] = pll["PERIPH"] /\ pll'["CPU"] = pll["CPU"]
         /\ ClkEnable("CPU") => pll'["PERIPH"] = pll["PERIPH"] /\ pll'["VIDEO"] = pll["VIDEO"]
<1>1. "PERIPH" \in Plls /\ "VIDEO" \in Plls /\ "CPU" \in Plls
  BY DEF Plls
<1>2. \A c, d \in Plls : ClkEnable(c) /\ c # d => pll'[d] = pll[d]
  BY EnableIs, Zenon
<1>3. "PERIPH" # "VIDEO" /\ "PERIPH" # "CPU" /\ "VIDEO" # "CPU"
  OBVIOUS
<1>4. ASSUME NEW c \in Plls, ClkEnable(c)
      PROVE  /\ pll' \in [Plls -> PllFields] /\ pll'[c].on
             /\ pll'[c].n = pll[c].n /\ pll'[c].k = pll[c].k
             /\ pll'[c].m = pll[c].m /\ pll'[c].p = pll[c].p
  <2>1. /\ pll' \in [Plls -> PllFields]
        /\ pll'[c] = [on |-> TRUE, n |-> pll[c].n, k |-> pll[c].k, m |-> pll[c].m, p |-> pll[c].p]
    BY <1>4, EnableIs, Zenon
  <2>2. QED BY <2>1
<1>5. QED BY <1>1, <1>2, <1>3, <1>4, Zenon

LEMMA BusChanged ==
  ASSUME NEW b \in BusFields, NEW c, c = [b EXCEPT !.src = 3, !.pre = 2, !.div = 0]
  PROVE  c \in BusFields /\ c.src = 3 /\ c.pre = 2 /\ c.div = 0 /\ c.apb = b.apb
<1>1. /\ c = [src |-> c.src, pre |-> c.pre, div |-> c.div, apb |-> c.apb]
      /\ c.src = 3 /\ c.pre = 2 /\ c.div = 0 /\ c.apb = b.apb
  BY Zenon DEF BusFields
<1>2. b.apb \in Int
  BY DEF BusFields
<1>3. QED BY <1>1, <1>2 DEF BusFields

LEMMA TreeStart == ClockInit => TreeInv
<1> SUFFICES ASSUME ClockInit PROVE TreeInv
  OBVIOUS
<1> USE DEF PllOn, CpuWait, CpuOn, VideoWait, VideoOn, BusSet, AhbSet, PeriphWait, PeriphOn, Plls
<1>1. ratio \in [mul : 1 .. 128, div : 1 .. 16]
  BY ClockAssumption DEF ClockInit
<1>2. step = "cpu to 24M" /\ refused = FALSE
  BY DEF ClockInit
<1>3. /\ pll \in [Plls -> PllFields]
      /\ pll["PERIPH"].on => pll["PERIPH"].n = 24 /\ pll["PERIPH"].k = 0
  <2>1. CASE pll = [c \in Plls |-> [Off EXCEPT !.on = (c = "CPU" /\ cpuSrc = "PLL")]]
    <3>1. \A b \in BOOLEAN : /\ [Off EXCEPT !.on = b] \in PllFields
                            /\ [Off EXCEPT !.on = b].on = b
      <4>1. SUFFICES ASSUME NEW b \in BOOLEAN, NEW r, r = [Off EXCEPT !.on = b]
                     PROVE  r \in PllFields /\ r.on = b
        BY Zenon
      <4>2. r \in PllFields /\ r = [on |-> b, n |-> Off.n, k |-> Off.k, m |-> Off.m, p |-> Off.p]
        BY <4>1, OffIs, OnChanged, Zenon
      <4>3. QED BY <4>2
    <3>2. \A c \in Plls : (c = "CPU" /\ cpuSrc = "PLL") \in BOOLEAN
      OBVIOUS
    <3>3. /\ \A c \in Plls : pll[c] \in PllFields
          /\ pll["PERIPH"].on = ("PERIPH" = "CPU" /\ cpuSrc = "PLL")
      BY <2>1, <3>1, <3>2, Zenon
    <3>4. pll = [c \in Plls |-> pll[c]]
      BY <2>1
    <3>5. QED BY <3>3, <3>4
  <2>2. CASE pll = Warm
    <3>1. /\ Warm = [c \in Plls |-> Warm[c]]
          /\ Warm["PERIPH"] = [on |-> TRUE, n |-> 24, k |-> 0, m |-> 0, p |-> 0]
          /\ Warm["CPU"] = [on |-> TRUE, n |-> 16, k |-> 0, m |-> 0, p |-> 0]
          /\ Warm["VIDEO"] = [on |-> TRUE, n |-> 98, k |-> 0, m |-> 7, p |-> 0]
      BY DEF Off, Warm
    <3>2. \A c \in Plls : Warm[c] \in PllFields
      <4>1. \A c \in Plls : c = "CPU" \/ c = "PERIPH" \/ c = "VIDEO"
        OBVIOUS
      <4>2. TRUE \in BOOLEAN /\ 0 \in Int /\ 7 \in Int /\ 16 \in Int /\ 24 \in Int /\ 98 \in Int
        OBVIOUS
      <4>3. Warm["CPU"] \in PllFields /\ Warm["PERIPH"] \in PllFields /\ Warm["VIDEO"] \in PllFields
        <5>1. /\ [on |-> TRUE, n |-> 24, k |-> 0, m |-> 0, p |-> 0] \in PllFields
              /\ [on |-> TRUE, n |-> 16, k |-> 0, m |-> 0, p |-> 0] \in PllFields
              /\ [on |-> TRUE, n |-> 98, k |-> 0, m |-> 7, p |-> 0] \in PllFields
          BY DEF PllFields
        <5>2. QED BY <3>1, <5>1, Zenon
      <4>4. QED BY <4>1, <4>3, Zenon
    <3>3. QED BY <2>2, <3>1, <3>2
  <2>3. QED BY <2>1, <2>2 DEF ClockInit
<1>4. bus \in BusFields /\ BusGood(bus, step)
  <2>1. \/ bus = [src |-> 1, pre |-> 0, div |-> 0, apb |-> 0]
        \/ bus = [src |-> 3, pre |-> 2, div |-> 0, apb |-> 1]
    BY DEF ClockInit
  <2>2. bus.div = 0 /\ bus.apb \in {0, 1} /\ ((bus.src = 1 /\ bus.pre = 0) \/ (bus.src = 3 /\ bus.pre = 2))
    BY <2>1
  <2>3. step \notin AhbSet /\ step \notin BusSet
    BY <1>2
  <2>4. bus \in BusFields
    BY <2>1 DEF BusFields
  <2>5. QED BY <2>2, <2>3, <2>4, Zenon DEF BusGood
<1>5. /\ step \notin PeriphOn /\ step \notin PeriphWait /\ step \notin VideoOn /\ step \notin VideoWait
      /\ step \notin CpuOn /\ step \notin CpuWait /\ step \notin PllOn
  BY <1>2
<1> HIDE DEF PllOn, CpuWait, CpuOn, VideoWait, VideoOn, BusSet, AhbSet, PeriphWait, PeriphOn
<1>6. QED BY <1>1, <1>2, <1>3, <1>4, <1>5, Zenon DEF TreeInv, PeriphGood, VideoGood, CpuGood

\* The factors found are those of the fields.
LEMMA FactorsIn ==
  ASSUME NEW mul \in 1 .. 128, NEW div \in 1 .. 16
  PROVE  FactorK(mul) \in 1 .. 4 /\ FactorM(div) \in 1 .. 4
<1> DEFINE ks == {k \in 1 .. 4 : mul \div k < 32 /\ (mul \div k) * k = mul}
           ms == {m \in 1 .. 4 : div \div m \in {1, 2, 4} /\ (div \div m) * m = div}
<1>1. /\ ks \in SUBSET (1 .. 4) /\ ms \in SUBSET (1 .. 4)
      /\ ks \in SUBSET Nat /\ ms \in SUBSET Nat
  OBVIOUS
<1>2. FactorK(mul) = IF ks = {} THEN 4 ELSE CHOOSE k \in ks : \A j \in ks : k <= j
  BY Zenon DEF FactorK
<1>3. FactorM(div) = IF ms = {} THEN 4 ELSE CHOOSE m \in ms : \A j \in ms : m <= j
  BY Zenon DEF FactorM
<1> HIDE DEF ks, ms
<1>4. ks # {} => (CHOOSE k \in ks : \A j \in ks : k <= j) \in ks
  BY <1>1, LeastOf, Zenon
<1>5. ms # {} => (CHOOSE m \in ms : \A j \in ms : m <= j) \in ms
  BY <1>1, LeastOf, Zenon
<1>6. 4 \in 1 .. 4
  OBVIOUS
<1>7. FactorK(mul) \in 1 .. 4
  BY ONLY <1>1, <1>2, <1>4, <1>6, Zenon
<1>8. FactorM(div) \in 1 .. 4
  BY ONLY <1>1, <1>3, <1>5, <1>6, Zenon
<1>9. QED BY <1>7, <1>8

\* What is left of a divider after its factor goes into two bits.
LEMMA DivisorLeft ==
  ASSUME NEW div \in 1 .. 16, (div \div FactorM(div)) * FactorM(div) = div
  PROVE  div \div FactorM(div) \in {1, 2, 4}
<1> DEFINE M == FactorM(div)
           ms == {m \in 1 .. 4 : div \div m \in {1, 2, 4} /\ (div \div m) * m = div}
<1>1. M = IF ms = {} THEN 4 ELSE CHOOSE m \in ms : \A j \in ms : m <= j
  BY Zenon DEF FactorM
<1>2. CASE ms # {}
  <2>1. ms \in SUBSET Nat
    OBVIOUS
  <2> HIDE DEF M
  <2>2. M \in ms
    <3> HIDE DEF ms
    <3>1. QED BY <1>1, <1>2, <2>1, LeastOf, Zenon
  <2>3. div \div M \in {1, 2, 4}
    BY <2>2
  <2>4. QED BY <2>3 DEF M
<1>3. CASE ms = {}
  <2>1. M = 4
    BY <1>1, <1>3
  <2>2. (div \div 4) * 4 = div
    BY <2>1
  <2>3. \A m \in 1 .. 4 : ~(div \div m \in {1, 2, 4} /\ (div \div m) * m = div)
    BY <1>3
  <2>4. div \in {4, 8, 12, 16}
    BY <2>2
  <2>5. /\ ~(div \div 1 \in {1, 2, 4} /\ (div \div 1) * 1 = div)
        /\ ~(div \div 2 \in {1, 2, 4} /\ (div \div 2) * 2 = div)
        /\ ~(div \div 3 \in {1, 2, 4} /\ (div \div 3) * 3 = div)
        /\ ~(div \div 4 \in {1, 2, 4} /\ (div \div 4) * 4 = div)
    BY <2>3
  <2>6. QED BY ONLY <2>4, <2>5
<1>4. QED BY <1>2, <1>3

\* A ratio that has an encoding is multiplied and divided by exactly.
LEMMA EncodedExactly ==
  ASSUME NEW mul \in 1 .. 128, NEW div \in 1 .. 16, Encodable(mul, div)
  PROVE  LET f == CpuFields(mul, div)
         IN  /\ (f.n + 1) * (f.k + 1) = mul
             /\ (f.m + 1) * 2 ^ f.p = div
             /\ f.n \in Int /\ f.k \in Int /\ f.m \in Int /\ f.p \in Int
<1> DEFINE K == FactorK(mul)
           M == FactorM(div)
<1>1. K \in 1 .. 4 /\ M \in 1 .. 4
  BY FactorsIn
<1>2. (mul \div K) * K = mul /\ (div \div M) * M = div
  BY DEF Encodable
<1>3. div \div M \in {1, 2, 4}
  BY <1>2, DivisorLeft
<1>4. mul \div K \in Int
  BY <1>1
<1>5. /\ EncodeP(div \div M) \in Int
      /\ 2 ^ EncodeP(div \div M) = div \div M
  <2>1. 2 ^ 0 = 1 /\ 2 ^ 1 = 2 /\ 2 ^ 2 = 4 /\ 0 \in Int /\ 1 \in Int /\ 2 \in Int
    OBVIOUS
  <2>2. PICK q \in {1, 2, 4} : div \div M = q
    BY <1>3
  <2>3. EncodeP(q) = IF q = 4 THEN 2 ELSE q - 1
    BY DEF EncodeP
  <2>4. EncodeP(q) \in Int /\ 2 ^ EncodeP(q) = q
    <3> HIDE DEF M
    <3>1. CASE q = 1
      <4>1. EncodeP(q) = 0
        BY <2>3, <3>1
      <4>2. QED BY ONLY <2>1, <3>1, <4>1, Zenon
    <3>2. CASE q = 2
      <4>1. EncodeP(q) = 1
        BY <2>3, <3>2
      <4>2. QED BY ONLY <2>1, <3>2, <4>1, Zenon
    <3>3. CASE q = 4
      <4>1. EncodeP(q) = 2
        BY <2>3, <3>3
      <4>2. QED BY ONLY <2>1, <3>3, <4>1, Zenon
    <3>4. QED BY <3>1, <3>2, <3>3
  <2>5. QED BY ONLY <2>2, <2>4, Zenon
<1> DEFINE f == CpuFields(mul, div)
<1>6. /\ f.n = (mul \div K) - 1 /\ f.k = K - 1 /\ f.m = M - 1 /\ f.p = EncodeP(div \div M)
  BY DEF CpuFields
<1> HIDE DEF f, K, M
<1>7. f.n + 1 = mul \div K /\ f.k + 1 = K /\ f.m + 1 = M
  BY <1>1, <1>4, <1>6
<1>8. M * (div \div M) = div
  <2>1. div \div M \in Int /\ M \in Int
    BY <1>1, <1>3
  <2>2. M * (div \div M) = (div \div M) * M
    BY <2>1
  <2>3. QED BY <1>2, <2>2
<1>9. (f.n + 1) * (f.k + 1) = mul /\ (f.m + 1) * 2 ^ f.p = div
  BY <1>2, <1>5, <1>6, <1>7, <1>8, Zenon
<1>10. f.n \in Int /\ f.k \in Int /\ f.m \in Int /\ f.p \in Int
  BY <1>1, <1>4, <1>5, <1>6
<1>11. QED BY <1>9, <1>10 DEF f

\* At points a and b the same is set.
PeriphSame(a, b) == (a \in PeriphOn <=> b \in PeriphOn) /\ (a \in PeriphWait <=> b \in PeriphWait)
VideoSame(a, b) == (a \in VideoOn <=> b \in VideoOn) /\ (a \in VideoWait <=> b \in VideoWait)
CpuSame(a, b) == (a \in CpuOn <=> b \in CpuOn) /\ (a \in CpuWait <=> b \in CpuWait)
BusSame(a, b) == (a \in AhbSet <=> b \in AhbSet) /\ (a \in BusSet <=> b \in BusSet)

\* Each step of init_default sets one thing.
LEMMA Stages ==
  /\ PeriphSame("cpu to 24M", "periph") /\ VideoSame("cpu to 24M", "periph")
  /\ CpuSame("cpu to 24M", "periph") /\ BusSame("cpu to 24M", "periph")
  /\ VideoSame("periph", "periph on") /\ CpuSame("periph", "periph on")
  /\ BusSame("periph", "periph on")
  /\ VideoSame("periph on", "periph wait") /\ CpuSame("periph on", "periph wait")
  /\ BusSame("periph on", "periph wait")
  /\ PeriphSame("periph wait", "ahb") /\ VideoSame("periph wait", "ahb")
  /\ CpuSame("periph wait", "ahb") /\ BusSame("periph wait", "ahb")
  /\ PeriphSame("ahb", "apb") /\ VideoSame("ahb", "apb")
  /\ CpuSame("ahb", "apb")
  /\ PeriphSame("apb", "video") /\ VideoSame("apb", "video")
  /\ CpuSame("apb", "video")
  /\ PeriphSame("video", "video on") /\ CpuSame("video", "video on")
  /\ BusSame("video", "video on")
  /\ PeriphSame("video on", "video wait") /\ CpuSame("video on", "video wait")
  /\ BusSame("video on", "video wait")
  /\ PeriphSame("video wait", "cpu") /\ VideoSame("video wait", "cpu")
  /\ CpuSame("video wait", "cpu") /\ BusSame("video wait", "cpu")
  /\ PeriphSame("cpu", "cpu on") /\ VideoSame("cpu", "cpu on")
  /\ BusSame("cpu", "cpu on")
  /\ PeriphSame("cpu on", "cpu wait") /\ VideoSame("cpu on", "cpu wait")
  /\ BusSame("cpu on", "cpu wait")
  /\ PeriphSame("cpu wait", "cpu to PLL") /\ VideoSame("cpu wait", "cpu to PLL")
  /\ CpuSame("cpu wait", "cpu to PLL") /\ BusSame("cpu wait", "cpu to PLL")
  /\ PeriphSame("cpu to PLL", "done") /\ VideoSame("cpu to PLL", "done")
  /\ CpuSame("cpu to PLL", "done") /\ BusSame("cpu to PLL", "done")
BY DEF PeriphSame, VideoSame, CpuSame, BusSame,
       PllOn, CpuWait, CpuOn, VideoWait, VideoOn, BusSet, AhbSet, PeriphWait, PeriphOn

LEMMA StaysGood ==
  ASSUME NEW a, NEW b
  PROVE  /\ PeriphSame(a, b) => \A x : PeriphGood(x, a) => PeriphGood(x, b)
         /\ VideoSame(a, b) => \A x : VideoGood(x, a) => VideoGood(x, b)
         /\ CpuSame(a, b) => \A x, none, r : CpuGood(x, a, none, r) => CpuGood(x, b, none, r)
         /\ BusSame(a, b) => \A x : BusGood(x, a) => BusGood(x, b)
BY Zenon DEF PeriphSame, PeriphGood, VideoSame, VideoGood, CpuSame, CpuGood, BusSame, BusGood

LEMMA TreeKept ==
  ASSUME TreeInv, [ClockStep]_clockVars
  PROVE  TreeInv'
<1>0. /\ pll \in [Plls -> PllFields] /\ bus \in BusFields
      /\ ratio \in [mul : 1 .. 128, div : 1 .. 16] /\ refused \in BOOLEAN
      /\ PeriphGood(pll["PERIPH"], step) /\ VideoGood(pll["VIDEO"], step)
      /\ CpuGood(pll["CPU"], step, refused, ratio) /\ BusGood(bus, step)
      /\ step \in PllOn => cpuSrc = "PLL"
  BY DEF TreeInv
<1>1. CASE UNCHANGED clockVars
  BY <1>1, Zenon DEF clockVars, TreeInv
<1>2. CASE SetCpu("cpu to 24M", "OSC24M", "periph")
  <2>1. /\ UNCHANGED <<pll, bus, ratio, refused>> /\ step = "cpu to 24M" /\ step' = "periph"
        /\ step' \notin PllOn
    BY <1>2 DEF SetCpu, Goes, PllOn
  <2>2. QED BY <1>0, <2>1, Stages, StaysGood, Zenon DEF TreeInv
<1>3. CASE SetCpu("cpu to PLL", "PLL", "done")
  <2>1. /\ UNCHANGED <<pll, bus, ratio, refused>> /\ cpuSrc' = "PLL" /\ step = "cpu to PLL" /\ step' = "done"
    BY <1>3 DEF SetCpu, Goes, ClkCpuConfig
  <2>2. QED BY <1>0, <2>1, Stages, StaysGood, Zenon DEF TreeInv
<1>4. CASE ProgramPlls
  <2>0. UNCHANGED <<cpuSrc, bus, ratio, gaveUp>>
    BY <1>4 DEF ProgramPlls
  <2>1. CASE Goes("periph", "periph on") /\ PllPeriphInit(25, 1) /\ UNCHANGED refused
    <3> DEFINE r == [on |-> FALSE, n |-> 24, k |-> 0, m |-> 0, p |-> 0]
    <3>1. [Off EXCEPT !.n = 25 - 1, !.k = 1 - 1] = r
      <4>1. 25 - 1 = 24 /\ 1 - 1 = 0 /\ 25 - 1 \in Int /\ 1 - 1 \in Int
        OBVIOUS
      <4>2. [Off EXCEPT !.n = 25 - 1, !.k = 1 - 1] = [on |-> FALSE, n |-> 25 - 1, k |-> 1 - 1, m |-> 0, p |-> 0]
        BY <4>1, OffIs
      <4>3. QED BY <4>2
    <3>2. SetPll("PERIPH", [Off EXCEPT !.n = 25 - 1, !.k = 1 - 1])
      BY <2>1 DEF PllPeriphInit
    <3>3. r \in PllFields /\ r.n = 24 /\ r.k = 0
      BY DEF PllFields
    <3> HIDE DEF r
    <3>4. /\ pll' \in [Plls -> PllFields]
          /\ pll'["PERIPH"] = [on |-> pll["PERIPH"].on, n |-> r.n, k |-> r.k, m |-> r.m, p |-> r.p]
          /\ pll'["VIDEO"] = pll["VIDEO"] /\ pll'["CPU"] = pll["CPU"]
      BY <1>0, <3>1, <3>2, <3>3, SetPllAt, Zenon
    <3>5. pll'["PERIPH"].n = 24 /\ pll'["PERIPH"].k = 0
      BY <3>3, <3>4
    <3>6. /\ step = "periph" /\ step' = "periph on" /\ UNCHANGED refused
          /\ step' \notin PllOn /\ step' \notin PeriphWait
      BY <2>1 DEF Goes, PeriphWait, AhbSet, BusSet, VideoOn, VideoWait, CpuOn, CpuWait, PllOn
    <3>7. PeriphGood(pll'["PERIPH"], step')
      BY <3>5, <3>6, Zenon DEF PeriphGood
    <3>8. QED BY <1>0, <2>0, <3>4, <3>6, <3>7, Stages, StaysGood, Zenon DEF TreeInv
  <2>2. CASE Goes("video", "video on") /\ PllVideoInit(99, 8) /\ UNCHANGED refused
    <3> DEFINE r == [on |-> FALSE, n |-> 98, k |-> 0, m |-> 7, p |-> 0]
    <3>1. [Off EXCEPT !.n = 99 - 1, !.m = 8 - 1] = r
      <4>1. 99 - 1 = 98 /\ 8 - 1 = 7 /\ 99 - 1 \in Int /\ 8 - 1 \in Int
        OBVIOUS
      <4>2. ASSUME NEW i \in Int, NEW j \in Int, i = 99 - 1, j = 8 - 1
            PROVE  [Off EXCEPT !.n = i, !.m = j] = [on |-> FALSE, n |-> i, k |-> 0, m |-> j, p |-> 0]
        BY OffIs, Zenon
      <4>3. ASSUME NEW i \in Int, NEW j \in Int, i = 99 - 1, j = 8 - 1
            PROVE  [Off EXCEPT !.n = 99 - 1, !.m = 8 - 1] = r
        <5>1. [Off EXCEPT !.n = i, !.m = j] = [on |-> FALSE, n |-> i, k |-> 0, m |-> j, p |-> 0]
          BY <4>2, <4>3
        <5>2. i = 98 /\ j = 7
          BY <4>3
        <5>3. [Off EXCEPT !.n = i, !.m = j] = r
          BY <5>1, <5>2
        <5>4. [Off EXCEPT !.n = 99 - 1, !.m = 8 - 1] = [Off EXCEPT !.n = i, !.m = j]
          BY <4>3, Zenon
        <5>5. QED BY <5>3, <5>4
      <4>4. QED BY <4>1, <4>3, SMTT(30)
    <3>2. SetPll("VIDEO", [Off EXCEPT !.n = 99 - 1, !.m = 8 - 1])
      BY <2>2 DEF PllVideoInit
    <3>3. r \in PllFields /\ r.n = 98 /\ r.m = 7
      BY DEF PllFields
    <3> HIDE DEF r
    <3>4. /\ pll' \in [Plls -> PllFields]
          /\ pll'["VIDEO"] = [on |-> pll["VIDEO"].on, n |-> r.n, k |-> r.k, m |-> r.m, p |-> r.p]
          /\ pll'["PERIPH"] = pll["PERIPH"] /\ pll'["CPU"] = pll["CPU"]
      BY <1>0, <3>1, <3>2, <3>3, SetPllAt, Zenon
    <3>5. pll'["VIDEO"].n = 98 /\ pll'["VIDEO"].m = 7
      BY <3>3, <3>4
    <3>6. /\ step = "video" /\ step' = "video on" /\ UNCHANGED refused
          /\ step' \notin PllOn /\ step' \notin VideoWait
      BY <2>2 DEF Goes, VideoWait, CpuOn, CpuWait, PllOn
    <3>7. VideoGood(pll'["VIDEO"], step')
      BY <3>5, <3>6, Zenon DEF VideoGood
    <3>8. QED BY <1>0, <2>0, <3>4, <3>6, <3>7, Stages, StaysGood, Zenon DEF TreeInv
  <2>3. CASE Goes("cpu", "cpu on") /\ PllCpuInit(ratio.mul, ratio.div)
    <3>0. step = "cpu" /\ step' = "cpu on" /\ step' \notin CpuWait /\ step' \notin PllOn
      BY <2>3 DEF Goes, CpuWait, PllOn
    <3>1. CASE Encodable(ratio.mul, ratio.div)
      <4> DEFINE f == CpuFields(ratio.mul, ratio.div)
                 r == [on |-> FALSE, n |-> f.n, k |-> f.k, m |-> f.m, p |-> f.p]
      <4>0. ratio.mul \in 1 .. 128 /\ ratio.div \in 1 .. 16
        BY <1>0
      <4>1. f.n \in Int /\ f.k \in Int /\ f.m \in Int /\ f.p \in Int
        BY <3>1, <4>0, EncodedExactly, Zenon
      <4>2. SetPll("CPU", r) /\ UNCHANGED refused
        BY <2>3, <3>1 DEF PllCpuInit, CpuFields
      <4> HIDE DEF f
      <4>3. r \in PllFields /\ r.n = f.n /\ r.k = f.k /\ r.m = f.m /\ r.p = f.p
        BY <4>1 DEF PllFields
      <4> HIDE DEF r
      <4>4. /\ pll' \in [Plls -> PllFields]
            /\ pll'["CPU"] = [on |-> pll["CPU"].on, n |-> r.n, k |-> r.k, m |-> r.m, p |-> r.p]
            /\ pll'["PERIPH"] = pll["PERIPH"] /\ pll'["VIDEO"] = pll["VIDEO"]
        BY <1>0, <4>2, <4>3, SetPllAt, Zenon
      <4>5. pll'["CPU"].n = f.n /\ pll'["CPU"].k = f.k /\ pll'["CPU"].m = f.m /\ pll'["CPU"].p = f.p
        BY <4>3, <4>4
      <4>6. AsAsked(pll'["CPU"], ratio)
        BY <3>1, <4>5 DEF AsAsked, f
      <4>7. CpuGood(pll'["CPU"], step', refused, ratio)
        BY <3>0, <4>6, Zenon DEF CpuGood
      <4>8. QED BY <1>0, <2>0, <3>0, <4>2, <4>4, <4>7, Stages, StaysGood, Zenon DEF TreeInv
    <3>2. CASE ~Encodable(ratio.mul, ratio.div)
      <4>1. refused' = TRUE /\ UNCHANGED pll /\ refused' \in BOOLEAN
        BY <2>3, <3>2 DEF PllCpuInit
      <4>2. CpuGood(pll'["CPU"], step', refused', ratio)
        BY <3>0, <4>1, Zenon DEF CpuGood
      <4>3. QED BY <1>0, <2>0, <3>0, <4>1, <4>2, Stages, StaysGood, Zenon DEF TreeInv
    <3>3. QED BY <3>1, <3>2
  <2>4. QED BY <1>4, <2>1, <2>2, <2>3 DEF ProgramPlls
<1>5. CASE ClkPllEnable
  <2>0. UNCHANGED <<cpuSrc, bus, ratio, refused>>
    BY <1>5 DEF ClkPllEnable
  <2>1. CASE Goes("periph on", "periph wait") /\ ClkEnable("PERIPH")
    <3>1. /\ pll' \in [Plls -> PllFields] /\ pll'["PERIPH"].on
          /\ pll'["PERIPH"].n = pll["PERIPH"].n /\ pll'["PERIPH"].k = pll["PERIPH"].k
          /\ pll'["VIDEO"] = pll["VIDEO"] /\ pll'["CPU"] = pll["CPU"]
      BY <1>0, <2>1, EnableAt, Zenon
    <3>2. step = "periph on" /\ step' = "periph wait" /\ step' \notin PllOn /\ step \in PeriphOn
      BY <2>1 DEF Goes, PllOn, PeriphOn
    <3>3. PeriphGood(pll'["PERIPH"], step')
      BY <1>0, <3>1, <3>2, Zenon DEF PeriphGood
    <3>4. QED BY <1>0, <2>0, <3>1, <3>2, <3>3, Stages, StaysGood, Zenon DEF TreeInv
  <2>2. CASE Goes("video on", "video wait") /\ ClkEnable("VIDEO")
    <3>1. /\ pll' \in [Plls -> PllFields] /\ pll'["VIDEO"].on
          /\ pll'["VIDEO"].n = pll["VIDEO"].n /\ pll'["VIDEO"].m = pll["VIDEO"].m
          /\ pll'["PERIPH"] = pll["PERIPH"] /\ pll'["CPU"] = pll["CPU"]
      BY <1>0, <2>2, EnableAt, Zenon
    <3>2. step = "video on" /\ step' = "video wait" /\ step' \notin PllOn /\ step \in VideoOn
      BY <2>2 DEF Goes, PllOn, VideoOn
    <3>3. VideoGood(pll'["VIDEO"], step')
      BY <1>0, <3>1, <3>2, Zenon DEF VideoGood
    <3>4. QED BY <1>0, <2>0, <3>1, <3>2, <3>3, Stages, StaysGood, Zenon DEF TreeInv
  <2>3. CASE Goes("cpu on", "cpu wait") /\ ClkEnable("CPU")
    <3>1. /\ pll' \in [Plls -> PllFields] /\ pll'["CPU"].on
          /\ pll'["CPU"].n = pll["CPU"].n /\ pll'["CPU"].k = pll["CPU"].k
          /\ pll'["CPU"].m = pll["CPU"].m /\ pll'["CPU"].p = pll["CPU"].p
          /\ pll'["PERIPH"] = pll["PERIPH"] /\ pll'["VIDEO"] = pll["VIDEO"]
      BY <1>0, <2>3, EnableAt, Zenon
    <3>2. step = "cpu on" /\ step' = "cpu wait" /\ step' \notin PllOn /\ step \in CpuOn
      BY <2>3 DEF Goes, PllOn, CpuOn
    <3>3. AsAsked(pll["CPU"], ratio) => AsAsked(pll'["CPU"], ratio)
      BY <3>1, Zenon DEF AsAsked
    <3>4. CpuGood(pll'["CPU"], step', refused, ratio)
      BY <1>0, <3>1, <3>2, <3>3, Zenon DEF CpuGood
    <3>5. QED BY <1>0, <2>0, <3>1, <3>2, <3>4, Stages, StaysGood, Zenon DEF TreeInv
  <2>4. QED BY <1>5, <2>1, <2>2, <2>3 DEF ClkPllEnable
<1>6. CASE WaitPllStable
  <2>1. UNCHANGED <<pll, cpuSrc, bus, ratio, refused>>
    BY <1>6 DEF WaitPllStable
  <2>2. ASSUME NEW a, NEW b, Goes(a, b), PeriphSame(a, b), VideoSame(a, b), CpuSame(a, b), BusSame(a, b),
               b \notin PllOn
        PROVE  TreeInv'
    BY <1>0, <2>1, <2>2, StaysGood, Zenon DEF TreeInv, Goes
  <2>3. "ahb" \notin PllOn /\ "cpu" \notin PllOn /\ "cpu to PLL" \notin PllOn
    BY DEF PllOn
  <2>4. Goes("periph wait", "ahb") \/ Goes("video wait", "cpu") \/ Goes("cpu wait", "cpu to PLL")
    BY <1>6, Zenon DEF WaitPllStable
  <2>5. QED BY <2>2, <2>3, <2>4, Stages, Zenon
<1>7. CASE SetBus
  <2>0. UNCHANGED <<pll, cpuSrc, ratio, refused>>
    BY <1>7 DEF SetBus
  <2>1. CASE Goes("ahb", "apb") /\ ClkAhbConfig(3, 3, 1)
    <3>1. bus' = [bus EXCEPT !.src = 3, !.pre = 2, !.div = 0]
      BY <2>1 DEF ClkAhbConfig
    <3>2. bus' \in BusFields /\ bus'.src = 3 /\ bus'.pre = 2 /\ bus'.div = 0 /\ bus'.apb = bus.apb
      BY <1>0, <3>1, BusChanged
    <3>3. step = "ahb" /\ step' = "apb" /\ step' \notin PllOn /\ step' \notin BusSet
      BY <2>1 DEF Goes, PllOn, BusSet, VideoOn, VideoWait, CpuOn, CpuWait
    <3>4. BusGood(bus', step')
      BY <1>0, <3>2, <3>3, Zenon DEF BusGood
    <3>5. QED BY <1>0, <2>0, <3>2, <3>3, <3>4, Stages, StaysGood, Zenon DEF TreeInv
  <2>2. CASE Goes("apb", "video") /\ ClkApbConfig(2)
    <3>1. bus' = [bus EXCEPT !.apb = 1]
      BY <2>2 DEF ClkApbConfig
    <3>2. bus' \in BusFields /\ bus'.src = bus.src /\ bus'.pre = bus.pre /\ bus'.div = bus.div /\ bus'.apb = 1
      BY <1>0, <3>1 DEF BusFields
    <3>3. step = "apb" /\ step' = "video" /\ step' \notin PllOn /\ step \in AhbSet /\ 1 \in {0, 1}
      BY <2>2 DEF Goes, PllOn, AhbSet
    <3>4. BusGood(bus', step')
      BY <1>0, <3>2, <3>3, Zenon DEF BusGood
    <3>5. QED BY <1>0, <2>0, <3>2, <3>3, <3>4, Stages, StaysGood, Zenon DEF TreeInv
  <2>3. QED BY <1>7, <2>1, <2>2 DEF SetBus
<1>8. CASE PllLocks
  <2>1. UNCHANGED <<pll, cpuSrc, bus, step, ratio, refused>>
    BY <1>8 DEF PllLocks
  <2>2. QED BY <2>1, Zenon DEF TreeInv
<1>9. QED BY <1>1, <1>2, <1>3, <1>4, <1>5, <1>6, <1>7, <1>8 DEF ClockStep

\* What is in the fields is what the getters report.
LEMMA TreeMeans == TreeInv => ClocksKept
<1> SUFFICES ASSUME TreeInv PROVE ClocksKept
  OBVIOUS
<1>0. /\ pll \in [Plls -> PllFields] /\ bus \in BusFields
      /\ ratio \in [mul : 1 .. 128, div : 1 .. 16] /\ refused \in BOOLEAN
      /\ PeriphGood(pll["PERIPH"], step) /\ VideoGood(pll["VIDEO"], step)
      /\ CpuGood(pll["CPU"], step, refused, ratio) /\ BusGood(bus, step)
      /\ step \in PllOn => cpuSrc = "PLL"
  BY DEF TreeInv
<1>1. 2 ^ bus.div = 1
  <2>1. bus.div = 0
    BY <1>0, Zenon DEF BusGood
  <2>2. 2 ^ 0 = 1
    OBVIOUS
  <2>3. QED BY ONLY <2>1, <2>2, Zenon
<1>2. PllKhz("PERIPH") = IF ~pll["PERIPH"].on THEN 0 ELSE Hz24M * (pll["PERIPH"].n + 1) * (pll["PERIPH"].k + 1)
  BY DEF PllKhz
<1>3. PllKhz("VIDEO") = IF ~pll["VIDEO"].on THEN 0 ELSE (Hz24M * (pll["VIDEO"].n + 1)) \div (pll["VIDEO"].m + 1)
  BY DEF PllKhz
<1>4. PllKhz("CPU") = IF ~pll["CPU"].on THEN 0 ELSE (Hz24M * (pll["CPU"].n + 1) * (pll["CPU"].k + 1))
                           \div ((pll["CPU"].m + 1) * 2 ^ pll["CPU"].p)
  BY DEF PllKhz
<1>5. Hz24M = 24000
  BY SMT DEF Hz24M
<1>6. PllKhz("PERIPH") = 0 \/ PllKhz("PERIPH") = 600000
  <2>1. pll["PERIPH"].on => pll["PERIPH"].n = 24 /\ pll["PERIPH"].k = 0
    BY <1>0, Zenon DEF PeriphGood
  <2>2. 24000 * (24 + 1) * (0 + 1) = 600000
    BY SMT
  <2>3. QED BY ONLY <1>2, <1>5, <2>1, <2>2, SMT
<1>7. AhbKhz = (CASE bus.src = 0 -> 32 [] bus.src = 1 -> Hz24M [] bus.src = 2 -> PllKhz("CPU")
     [] bus.src = 3 -> PllKhz("PERIPH") \div (bus.pre + 1)) \div 2 ^ bus.div
  BY Zenon DEF AhbKhz
<1>8. /\ bus.src = 1 => AhbKhz = Hz24M
      /\ bus.src = 3 => AhbKhz = PllKhz("PERIPH") \div 3
  <2>1. ASSUME bus.src = 1 PROVE AhbKhz = Hz24M
    BY ONLY <1>1, <1>5, <1>7, <2>1, SMT
  <2>2. ASSUME bus.src = 3 PROVE AhbKhz = PllKhz("PERIPH") \div 3
    <3>1. bus.pre = 2
      BY <1>0, <2>2, SMT DEF BusGood
    <3>2. PllKhz("PERIPH") \in Int
      BY ONLY <1>6, SMT
    <3>3. bus.src # 0 /\ bus.src # 1 /\ bus.src # 2
      BY ONLY <2>2, SMT
    <3>4. AhbKhz = (PllKhz("PERIPH") \div (bus.pre + 1)) \div 2 ^ bus.div
      BY ONLY <1>7, <2>2, <3>3, Zenon
    <3>5. bus.pre + 1 = 3
      BY ONLY <3>1, SMT
    <3>6. \A x \in Int : (x \div 3) \div 1 = x \div 3
      BY ONLY SMT
    <3>7. QED BY ONLY <1>1, <3>2, <3>4, <3>5, <3>6, Zenon
  <2>3. QED BY <2>1, <2>2, Zenon
<1>9. bus.src = 1 \/ bus.src = 3
  BY <1>0, Zenon DEF BusGood
<1>10. AhbKhz \in {0, 24000, 200000}
  BY ONLY <1>5, <1>6, <1>8, <1>9, SMT
<1>11. ApbKhz = AhbKhz \div 2
  <2>1. bus.apb # 2 /\ bus.apb # 3
    BY <1>0, SMT DEF BusGood
  <2>2. QED BY ONLY <2>1, SMT DEF ApbKhz
<1>12. BusInLimits
  BY ONLY <1>10, <1>11, SMT DEF BusInLimits
<1>13. CASE step = "done"
  <2>1. /\ step \in PeriphOn /\ step \in PeriphWait /\ step \in VideoOn /\ step \in VideoWait
        /\ step \in CpuOn /\ step \in CpuWait /\ step \in AhbSet /\ step \in BusSet /\ step \in PllOn
    BY <1>13 DEF PllOn, CpuWait, CpuOn, VideoWait, VideoOn, BusSet, AhbSet, PeriphWait, PeriphOn
  <2>2. /\ pll["PERIPH"].on /\ pll["PERIPH"].n = 24 /\ pll["PERIPH"].k = 0
        /\ pll["VIDEO"].on /\ pll["VIDEO"].n = 98 /\ pll["VIDEO"].m = 7
        /\ pll["CPU"].on /\ bus.src = 3 /\ cpuSrc = "PLL"
        /\ ~refused => AsAsked(pll["CPU"], ratio)
    BY <1>0, <2>1, Zenon DEF PeriphGood, VideoGood, CpuGood, BusGood
  <2>3. PllKhz("PERIPH") = 600000
    BY ONLY <1>2, <1>5, <2>2, SMT
  <2>4. PllKhz("VIDEO") = 297000
    BY ONLY <1>3, <1>5, <2>2, SMT
  <2>5. AhbKhz = 200000 /\ ApbKhz = 100000
    BY ONLY <1>8, <1>11, <2>2, <2>3, SMT
  <2>6. ASSUME ~refused PROVE CpuKhz = (Hz24M * ratio.mul) \div ratio.div
    <3> DEFINE x == pll["CPU"]
               f == CpuFields(ratio.mul, ratio.div)
    <3>0. ratio.mul \in 1 .. 128 /\ ratio.div \in 1 .. 16
      BY <1>0
    <3>1. Encodable(ratio.mul, ratio.div) /\ x.n = f.n /\ x.k = f.k /\ x.m = f.m /\ x.p = f.p
      BY <2>2, <2>6, Zenon DEF AsAsked
    <3>2. /\ (f.n + 1) * (f.k + 1) = ratio.mul /\ (f.m + 1) * 2 ^ f.p = ratio.div
          /\ f.n \in Int /\ f.k \in Int
      BY <3>0, <3>1, EncodedExactly, Zenon
    <3>3. CpuKhz = (Hz24M * (x.n + 1) * (x.k + 1)) \div ((x.m + 1) * 2 ^ x.p)
      BY <1>4, <2>2, Zenon DEF CpuKhz
    <3> HIDE DEF x, f
    <3>4. CpuKhz = (Hz24M * (f.n + 1) * (f.k + 1)) \div ((f.m + 1) * 2 ^ f.p)
      BY ONLY <3>1, <3>3, Zenon
    <3>5. \A i, j \in Int : Hz24M * (i + 1) * (j + 1) = Hz24M * ((i + 1) * (j + 1))
      BY ONLY <1>5, SMT
    <3>6. Hz24M * (f.n + 1) * (f.k + 1) = Hz24M * ((f.n + 1) * (f.k + 1))
      BY ONLY <3>2, <3>5, Zenon
    <3>7. QED BY ONLY <3>2, <3>4, <3>6, Zenon
  <2>7. QED BY <1>12, <2>3, <2>4, <2>5, <2>6, SMT DEF ClocksKept, RatesAsAsked
<1>14. CASE step # "done"
  BY <1>12, <1>14, SMT DEF ClocksKept, RatesAsAsked
<1>15. QED BY <1>13, <1>14, Zenon
-----------------------------------------------------------------------------
(* The cache.                                                              *)

CacheRanges ==
  {k \in [name : {"clean", "invalidate", "clean_invalidate"}, buffer : MemBytes, size : Nat] :
     k.buffer + k.size <= LineSize * CacheLines}

\* What the cache holds is at least as new as memory, and no newer unless dirty;
\* before the first invalidation it holds none of these bytes.
CopyInv ==
  /\ ram \in [MemBytes -> {0, 1}] /\ copy \in [MemBytes -> {0, 1}]
  /\ dirty \subseteq held /\ held \subseteq MemLines
  /\ dcacheOn <=> bootStep \in {"enabled", "done"}
  /\ bootStep = "invalidated" => held = {}
  /\ \A b \in MemBytes :
       /\ LineOf(b) \notin held \/ bootStep = "disabled" => copy[b] = 0
       /\ LineOf(b) \in held /\ bootStep # "disabled" =>
            /\ ram[b] = 1 => copy[b] = 1
            /\ LineOf(b) \notin dirty /\ copy[b] = 1 => ram[b] = 1

\* Line l is as the call k leaves it.
Maintained(l, k) == IF k.name = "clean" THEN l \notin dirty ELSE l \notin held

\* A call's loop is at the start of a line, and has done those before it.
RangeInv ==
  /\ bootStep \in {"disabled", "invalidated", "enabled", "done"}
  /\ range # NoRange =>
       /\ bootStep = "done" /\ range \in CacheRanges
       /\ \E n \in LineOf(range.buffer) .. CacheLines :
            /\ ptr = n * LineSize
            /\ quiet => \A l \in Touches(range) : l < n => Maintained(l, range)

CacheInv == CopyInv /\ RangeInv

\* Line q is where its bytes are.
LEMMA LineOfIs ==
  ASSUME NEW q \in Nat, NEW r \in Nat, r < LineSize
  PROVE  LineOf(q * LineSize + r) = q
BY QuotientIs, CacheAssumption DEF LineOf

\* A line begins below a byte of it, and the next one above.
LEMMA LineOfByte ==
  ASSUME NEW b \in Nat
  PROVE  /\ LineOf(b) \in Nat
         /\ LineOf(b) * LineSize <= b /\ b < (LineOf(b) + 1) * LineSize
<1> DEFINE p == b \div LineSize
           t == b % LineSize
<1>1. LineSize \in Nat \ {0} /\ LineOf(b) = p
  BY CacheAssumption DEF LineOf
<1>2. p \in Nat /\ t \in Nat /\ t < LineSize /\ b = p * LineSize + t
  BY <1>1, Division
<1> HIDE DEF p, t
<1>3. (p + 1) * LineSize = p * LineSize + LineSize /\ p * LineSize \in Nat
  BY <1>1, <1>2
<1>4. QED BY <1>1, <1>2, <1>3

\* Lines are in the order of their first bytes.
LEMMA LinesInOrder ==
  ASSUME NEW m \in Nat, NEW n \in Nat, m * LineSize < n * LineSize
  PROVE  m < n
<1>1. CASE n <= m
  <2>1. PICK e \in Nat : m = n + e
    BY <1>1
  <2>2. m * LineSize = n * LineSize + e * LineSize /\ e * LineSize \in Nat /\ n * LineSize \in Nat
    BY <2>1, CacheAssumption
  <2>3. QED BY <2>2
<1>2. QED BY <1>1

LEMMA CacheStart == CacheInit => CacheInv
<1> SUFFICES ASSUME CacheInit PROVE CacheInv
  OBVIOUS
<1>1. /\ ram = [b \in MemBytes |-> 1] /\ copy = [b \in MemBytes |-> 0]
      /\ held \in SUBSET MemLines /\ dirty \in SUBSET held
      /\ dcacheOn = FALSE /\ bootStep = "disabled" /\ range = NoRange
  BY DEF CacheInit
<1>2. CopyInv
  BY <1>1 DEF CopyInv
<1>3. RangeInv
  BY <1>1 DEF RangeInv
<1>4. QED BY <1>2, <1>3 DEF CacheInv

\* What each step on the lines does to them.
LEMMA CopiesKept ==
  ASSUME CopyInv, RangeInv, CacheStep
  PROVE  /\ CopyInv'
         /\ \A b \in MemBytes : (Latest(b) /\ ~Latest(b)') =>
              \/ bootStep = "enabled" /\ bootStep' = "done"
              \/ RangeLine /\ range.name = "invalidate" /\ LineOf(b) = LineOf(ptr)
<1> DEFINE Kept == \A b \in MemBytes : Latest(b) => Latest(b)'
<1>1. CASE InvalidateBefore
  <2>1. /\ bootStep = "disabled" /\ bootStep' = "invalidated" /\ UNCHANGED <<ram, dcacheOn>>
        /\ held' = held \ MemLines /\ dirty' = dirty \ MemLines
        /\ copy' = [b \in MemBytes |-> IF LineOf(b) \in MemLines THEN 0 ELSE copy[b]]
    BY <1>1 DEF InvalidateBefore, Boots, Drops
  <2>2. held' = {} /\ dirty' = {} /\ copy' = copy
    <3>1. copy = [b \in MemBytes |-> copy[b]] /\ \A b \in MemBytes : copy[b] = 0
      BY <2>1 DEF CopyInv
    <3>2. QED BY <2>1, <3>1 DEF CopyInv
  <2>3. CopyInv'
    BY <2>1, <2>2 DEF CopyInv
  <2>4. Kept
    BY <2>1, <2>2 DEF Latest
  <2>5. QED BY <2>3, <2>4
<1>2. CASE EnableDcache
  <2>1. /\ bootStep = "invalidated" /\ bootStep' = "enabled" /\ dcacheOn' = TRUE
        /\ UNCHANGED <<ram, copy, held, dirty>>
    BY <1>2 DEF EnableDcache, Boots
  <2>2. QED BY <2>1 DEF CopyInv, Latest
<1>3. CASE InvalidateAfter
  <2>1. /\ bootStep = "enabled" /\ bootStep' = "done" /\ UNCHANGED <<ram, dcacheOn>>
        /\ held' = held \ MemLines /\ dirty' = dirty \ MemLines
        /\ copy' = [b \in MemBytes |-> IF LineOf(b) \in MemLines THEN 0 ELSE copy[b]]
    BY <1>3 DEF InvalidateAfter, Boots, Drops
  <2>2. held' = {} /\ dirty' = {}
    BY <2>1 DEF CopyInv
  <2>3. \A b \in MemBytes : copy'[b] = 0
    BY <2>1 DEF CopyInv
  <2>4. copy' \in [MemBytes -> {0, 1}]
    BY <2>1 DEF CopyInv
  <2>5. QED BY <2>1, <2>2, <2>3, <2>4 DEF CopyInv
<1>4. CASE RangeCall \/ RangeDone
  BY <1>4 DEF RangeCall, RangeDone, CopyInv, Latest
<1>5. ASSUME NEW l, Drops({l}), ram' = Cleaned(l), dcacheOn, UNCHANGED <<dcacheOn, bootStep>>
      PROVE  CopyInv' /\ Kept
  <2>1. /\ held' = held \ {l} /\ dirty' = dirty \ {l}
        /\ copy' = [b \in MemBytes |-> IF LineOf(b) = l THEN 0 ELSE copy[b]]
    BY <1>5 DEF Drops
  <2>2. ram' \in [MemBytes -> {0, 1}] /\ copy' \in [MemBytes -> {0, 1}]
    BY <1>5, <2>1 DEF Cleaned, CopyInv
  <2>3. \A b \in MemBytes : ram'[b] = IF l \in dirty /\ LineOf(b) = l THEN copy[b] ELSE ram[b]
    BY <1>5 DEF Cleaned
  <2>4. CopyInv'
    BY <1>5, <2>1, <2>2, <2>3 DEF CopyInv
  <2>5. Kept
    BY <1>5, <2>1, <2>3 DEF CopyInv, Latest
  <2>6. QED BY <2>4, <2>5
<1>6. CASE RangeLine
  <2> DEFINE l == LineOf(ptr)
  <2>1. dcacheOn /\ bootStep = "done" /\ UNCHANGED <<dcacheOn, bootStep>>
    BY <1>6 DEF RangeLine, RangeInv, CopyInv
  <2>2. CASE range.name = "clean"
    <3>1. ram' = Cleaned(l) /\ dirty' = dirty \ {l} /\ UNCHANGED <<copy, held>>
      BY <1>6, <2>2 DEF RangeLine
    <3>2. ram' \in [MemBytes -> {0, 1}]
      BY <3>1 DEF Cleaned, CopyInv
    <3>3. \A b \in MemBytes : ram'[b] = IF l \in dirty /\ LineOf(b) = l THEN copy[b] ELSE ram[b]
      BY <3>1 DEF Cleaned
    <3>4. CopyInv'
      BY <2>1, <3>1, <3>2, <3>3 DEF CopyInv
    <3>5. Kept
      BY <2>1, <3>1, <3>3 DEF CopyInv, Latest
    <3>6. QED BY <3>4, <3>5
  <2>3. CASE range.name = "clean_invalidate"
    <3>1. ram' = Cleaned(l) /\ Drops({l})
      BY <1>6, <2>3 DEF RangeLine
    <3>2. QED BY <1>5, <2>1, <3>1
  <2>4. CASE range.name = "invalidate"
    <3>1. /\ UNCHANGED ram /\ held' = held \ {l} /\ dirty' = dirty \ {l}
          /\ copy' = [b \in MemBytes |-> IF LineOf(b) = l THEN 0 ELSE copy[b]]
      BY <1>6, <2>4 DEF RangeLine, Drops
    <3>2. copy' \in [MemBytes -> {0, 1}]
      BY <3>1 DEF CopyInv
    <3>3. CopyInv'
      BY <2>1, <3>1, <3>2 DEF CopyInv
    <3>4. \A b \in MemBytes : Latest(b) /\ ~Latest(b)' => LineOf(b) = l
      BY <3>1 DEF Latest
    <3>5. QED BY <1>6, <2>4, <3>3, <3>4
  <2>5. range.name \in {"clean", "invalidate", "clean_invalidate"}
    BY <1>6 DEF RangeLine, RangeInv, CacheRanges
  <2>6. QED BY <2>2, <2>3, <2>4, <2>5
<1>7. ASSUME NEW l \in MemLines, CpuRead(l)
      PROVE  CopyInv' /\ Kept
  <2>1. /\ dcacheOn /\ l \notin held /\ held' = held \cup {l} /\ UNCHANGED <<ram, dirty, dcacheOn, bootStep>>
        /\ copy' = [b \in MemBytes |-> IF LineOf(b) = l THEN ram[b] ELSE copy[b]]
    BY <1>7 DEF CpuRead
  <2>2. copy' \in [MemBytes -> {0, 1}]
    BY <2>1 DEF CopyInv
  <2>3. CopyInv'
    BY <2>1, <2>2 DEF CopyInv
  <2>4. Kept
    BY <2>1 DEF CopyInv, Latest
  <2>5. QED BY <2>3, <2>4
<1>8. ASSUME NEW l \in MemLines, Evict(l)
      PROVE  CopyInv' /\ Kept
  BY <1>5, <1>8 DEF Evict
<1>9. ASSUME NEW b \in MemBytes, CpuWrite(b)
      PROVE  CopyInv' /\ Kept
  <2> DEFINE l == LineOf(b)
  <2>1. UNCHANGED <<held, dcacheOn, bootStep>>
    BY <1>9 DEF CpuWrite
  <2>2. CASE dcacheOn /\ l \in held
    <3>1. /\ copy' = [copy EXCEPT ![b] = 1] /\ ram' = [ram EXCEPT ![b] = 0]
          /\ dirty' = dirty \cup {l}
      BY <1>9, <2>2 DEF CpuWrite
    <3>2. bootStep \in {"enabled", "done"} /\ l \in held
      BY <2>2 DEF CopyInv
    <3>3. CopyInv'
      BY <2>1, <3>1, <3>2 DEF CopyInv
    <3>4. Kept
      BY <3>1 DEF CopyInv, Latest
    <3>5. QED BY <3>3, <3>4
  <2>3. CASE ~(dcacheOn /\ l \in held)
    <3>1. ram' = [ram EXCEPT ![b] = 1] /\ UNCHANGED <<copy, dirty>>
      BY <1>9, <2>3 DEF CpuWrite
    <3>2. l \notin held \/ bootStep = "disabled"
      BY <2>3 DEF CopyInv, RangeInv
    <3>3. CopyInv'
      BY <2>1, <3>1, <3>2 DEF CopyInv
    <3>4. Kept
      BY <3>1 DEF CopyInv, Latest
    <3>5. QED BY <3>3, <3>4
  <2>4. QED BY <2>2, <2>3
<1>10. QED
  BY <1>1, <1>2, <1>3, <1>4, <1>6, <1>7, <1>8, <1>9 DEF CacheStep

\* A loop that is below its end is at a line it has to do.
LEMMA LoopIsOnBuffer ==
  ASSUME NEW k \in CacheRanges, NEW n \in Nat, LineOf(k.buffer) <= n, n * LineSize < k.buffer + k.size
  PROVE  n < CacheLines /\ n \in Touches(k) \cup {LineOf(k.buffer)}
<1>1. /\ k.buffer \in Nat /\ k.size \in Nat /\ LineSize \in Nat \ {0} /\ CacheLines \in Nat
      /\ k.buffer + k.size <= LineSize * CacheLines
  BY CacheAssumption DEF CacheRanges, MemBytes
<1>2. n < CacheLines
  <2>1. n * LineSize \in Nat /\ LineSize * CacheLines = CacheLines * LineSize /\ CacheLines * LineSize \in Nat
    BY <1>1
  <2>2. n * LineSize < CacheLines * LineSize
    BY <1>1, <2>1
  <2>3. QED BY <1>1, <2>2, LinesInOrder
<1>3. ASSUME n # LineOf(k.buffer) PROVE n \in Touches(k)
  <2> DEFINE p == LineOf(k.buffer)
  <2>1. p \in Nat /\ k.buffer < (p + 1) * LineSize
    BY <1>1, LineOfByte
  <2> HIDE DEF p
  <2>2. p + 1 <= n
    BY <1>3, <2>1 DEF p
  <2>3. (p + 1) * LineSize <= n * LineSize
    <3>1. LineSize \in Nat \ {0} /\ p + 1 \in Nat /\ 0 \in Nat /\ 0 < LineSize
      BY <1>1, <2>1
    <3>2. (p + 1) * LineSize <= n * LineSize + 0 <=> p + 1 <= n
      BY <3>1, InSection
    <3>3. QED BY <1>1, <2>2, <3>2
  <2>4. n * LineSize \in k.buffer .. k.buffer + k.size - 1
    BY <1>1, <2>1, <2>3
  <2>5. LineOf(n * LineSize) = n
    <3>1. \A r \in Nat : r < LineSize => LineOf(n * LineSize + r) = n
      BY LineOfIs
    <3>2. LineOf(n * LineSize + 0) = n
      BY <1>1, <3>1
    <3>3. n * LineSize + 0 = n * LineSize
      BY <1>1
    <3>4. QED BY <3>2, <3>3
  <2>6. QED BY <2>4, <2>5 DEF Touches
<1>4. QED BY <1>2, <1>3

LEMMA CacheSteps ==
  ASSUME CacheInv, [CacheStep]_cacheVars
  PROVE  /\ CacheInv'
         /\ [\A b \in MemBytes : (Latest(b) /\ ~Latest(b)') =>
                \/ bootStep = "enabled" /\ bootStep' = "done"
                \/ range.name = "invalidate" /\ LineOf(b) \in Touches(range) \cup {LineOf(range.buffer)}]_cacheVars
         /\ [(range # NoRange /\ range' = NoRange /\ quiet) =>
                \A l \in Touches(range) :
                  IF range.name = "clean" THEN l \notin dirty ELSE l \notin held]_cacheVars
<1>1. CASE UNCHANGED cacheVars
  <2>1. CopyInv'
    BY <1>1 DEF cacheVars, CacheInv, CopyInv
  <2>2. RangeInv'
    BY <1>1 DEF cacheVars, CacheInv, RangeInv, Maintained
  <2>3. QED BY <1>1, <2>1, <2>2 DEF CacheInv
<1>2. ASSUME CacheStep
      PROVE  /\ CacheInv'
             /\ \A b \in MemBytes : (Latest(b) /\ ~Latest(b)') =>
                  \/ bootStep = "enabled" /\ bootStep' = "done"
                  \/ range.name = "invalidate" /\ LineOf(b) \in Touches(range) \cup {LineOf(range.buffer)}
             /\ (range # NoRange /\ range' = NoRange /\ quiet) =>
                  \A l \in Touches(range) : Maintained(l, range)
  <2>0. CopyInv /\ RangeInv
    BY DEF CacheInv
  <2>1. /\ CopyInv'
        /\ \A b \in MemBytes : (Latest(b) /\ ~Latest(b)') =>
             \/ bootStep = "enabled" /\ bootStep' = "done"
             \/ RangeLine /\ range.name = "invalidate" /\ LineOf(b) = LineOf(ptr)
    BY <1>2, <2>0, CopiesKept
  <2> DEFINE Done == (range # NoRange /\ range' = NoRange /\ quiet) =>
                       \A l \in Touches(range) : Maintained(l, range)
             At(n) == /\ n \in LineOf(range.buffer) .. CacheLines /\ ptr = n * LineSize
                      /\ quiet => \A l \in Touches(range) : l < n => Maintained(l, range)
  <2> HIDE DEF At
  <2>2. range # NoRange =>
          /\ bootStep = "done" /\ range \in CacheRanges /\ LineOf(range.buffer) \in Nat
          /\ \E n \in Nat : At(n)
    <3>1. range # NoRange => range \in CacheRanges /\ range.buffer \in Nat
      BY <2>0 DEF RangeInv, CacheRanges, MemBytes
    <3>2. range # NoRange => LineOf(range.buffer) \in Nat
      BY <3>1, LineOfByte
    <3>3. QED BY <2>0, <3>1, <3>2, CacheAssumption DEF RangeInv, At
  <2>3. CASE InvalidateBefore \/ EnableDcache \/ InvalidateAfter
    <3>1. UNCHANGED <<range, ptr>> /\ bootStep # "done" /\ bootStep' \in {"invalidated", "enabled", "done"}
      BY <2>3 DEF InvalidateBefore, EnableDcache, InvalidateAfter, Boots
    <3>2. RangeInv' /\ Done
      BY <2>0, <3>1 DEF RangeInv
    <3>3. ~RangeLine
      BY <2>2, <3>1 DEF RangeLine
    <3>4. QED BY <2>1, <3>2, <3>3 DEF CacheInv
  <2>4. CASE RangeCall
    <3>1. PICK name \in {"clean", "invalidate", "clean_invalidate"}, b \in MemBytes, n \in 0 .. MaxSize :
            /\ b + n <= LineSize * CacheLines
            /\ range' = [name |-> name, buffer |-> b, size |-> n]
            /\ ptr' = FirstLine(b)
      BY <2>4 DEF RangeCall
    <3>2. bootStep = "done" /\ range = NoRange /\ UNCHANGED bootStep
      BY <2>4 DEF RangeCall
    <3>3. range' \in CacheRanges /\ range'.buffer = b /\ range'.size = n
      BY <3>1, CacheAssumption DEF CacheRanges
    <3>4. b \in Nat /\ LineOf(b) \in Nat /\ LineOf(b) * LineSize <= b
      BY LineOfByte DEF MemBytes
    <3>5. LineOf(b) <= CacheLines /\ ptr' = LineOf(b) * LineSize
      <4>1. LineSize * CacheLines = CacheLines * LineSize /\ CacheLines * LineSize \in Nat
        BY CacheAssumption
      <4>2. LineOf(b) * LineSize \in Nat /\ b < CacheLines * LineSize
        BY <3>4, <4>1, CacheAssumption DEF MemBytes
      <4>3. LineOf(b) < CacheLines
        BY <3>4, <4>1, <4>2, LinesInOrder, CacheAssumption
      <4>4. QED BY <3>1, <3>4, <4>3, CacheAssumption DEF FirstLine
    <3>6. \A l \in Touches(range') : ~(l < LineOf(b))
      <4>1. SUFFICES ASSUME NEW c \in b .. b + n - 1 PROVE ~(LineOf(c) < LineOf(b))
        BY <3>3 DEF Touches
      <4>2. c \in Nat /\ b <= c
        BY <3>4
      <4>3. LineOf(c) \in Nat /\ c < (LineOf(c) + 1) * LineSize
        BY <4>2, LineOfByte
      <4>4. LineOf(b) * LineSize < (LineOf(c) + 1) * LineSize
        BY <3>4, <4>2, <4>3, CacheAssumption
      <4>5. LineOf(b) < LineOf(c) + 1
        BY <3>4, <4>3, <4>4, LinesInOrder
      <4>6. QED BY <3>4, <4>3, <4>5
    <3>7. RangeInv'
      <4>1. /\ LineOf(b) \in LineOf(range'.buffer) .. CacheLines /\ ptr' = LineOf(b) * LineSize
            /\ \A l \in Touches(range') : ~(l < LineOf(b))
        BY <3>3, <3>4, <3>5, <3>6, CacheAssumption
      <4>2. bootStep' = "done"
        BY <3>2
      <4>3. QED BY <3>3, <4>1, <4>2 DEF RangeInv
    <3>8. ~RangeLine
      BY <3>2 DEF RangeLine
    <3>9. QED BY <2>1, <3>2, <3>7, <3>8 DEF CacheInv
  <2>5. CASE RangeLine
    <3>1. range # NoRange /\ AnotherLine /\ ptr' = ptr + LineSize /\ UNCHANGED <<bootStep, range, quiet>>
      BY <2>5 DEF RangeLine
    <3>2. PICK n \in Nat : At(n)
      BY <2>2, <3>1
    <3>3. /\ bootStep = "done" /\ range \in CacheRanges /\ LineOf(range.buffer) \in Nat
          /\ range.buffer \in Nat /\ range.size \in Nat
      BY <2>2, <3>1 DEF CacheRanges, MemBytes
    <3>4. ptr = n * LineSize /\ LineOf(range.buffer) <= n /\ n <= CacheLines
      BY <3>2, <3>3, CacheAssumption DEF At
    <3>5. n < CacheLines /\ n \in Touches(range) \cup {LineOf(range.buffer)}
      BY <3>1, <3>3, <3>4, LoopIsOnBuffer DEF AnotherLine
    <3>6. LineOf(ptr) = n
      <4>1. \A r \in Nat : r < LineSize => LineOf(n * LineSize + r) = n
        BY LineOfIs
      <4>2. LineOf(n * LineSize + 0) = n
        BY <4>1, CacheAssumption
      <4>3. n * LineSize + 0 = ptr
        BY <3>4, CacheAssumption
      <4>4. QED BY <4>2, <4>3
    <3>7. ptr' = (n + 1) * LineSize
      BY <3>1, <3>4, CacheAssumption
    <3>8. /\ dirty' \subseteq dirty /\ held' \subseteq held
          /\ IF range.name = "clean" THEN n \notin dirty' ELSE n \notin held'
      BY <2>5, <3>6 DEF RangeLine, Drops
    <3>9. quiet => \A l \in Touches(range) : l < n + 1 => Maintained(l, range)'
      <4>1. SUFFICES ASSUME quiet, NEW l \in Touches(range), l < n + 1 PROVE Maintained(l, range)'
        OBVIOUS
      <4>2. l \in Nat
        <5>1. PICK c \in range.buffer .. range.buffer + range.size - 1 : l = LineOf(c)
          BY DEF Touches
        <5>2. c \in Nat
          BY <3>3
        <5>3. QED BY <5>1, <5>2, LineOfByte
      <4>3. CASE l = n
        BY <3>1, <3>8, <4>3 DEF Maintained
      <4>4. CASE l < n
        <5>1. Maintained(l, range)
          BY <3>2, <4>1, <4>4 DEF At
        <5>2. QED BY <3>1, <3>8, <5>1 DEF Maintained
      <4>5. QED BY <4>1, <4>2, <4>3, <4>4
    <3>10. RangeInv'
      <4>1. n + 1 \in LineOf(range.buffer) .. CacheLines
        BY <3>3, <3>4, <3>5, CacheAssumption
      <4>2. QED BY <3>1, <3>3, <3>7, <3>9, <4>1 DEF RangeInv, Touches
    <3>11. QED BY <2>1, <3>1, <3>5, <3>6, <3>10 DEF CacheInv
  <2>6. CASE RangeDone
    <3>1. range # NoRange /\ ~AnotherLine /\ range' = NoRange /\ UNCHANGED bootStep
      BY <2>6 DEF RangeDone
    <3>2. PICK n \in Nat : At(n)
      BY <2>2, <3>1
    <3>3. quiet => \A l \in Touches(range) : Maintained(l, range)
      <4>1. SUFFICES ASSUME quiet, NEW c \in range.buffer .. range.buffer + range.size - 1
                     PROVE  Maintained(LineOf(c), range)
        BY DEF Touches
      <4>2. range.buffer \in Nat /\ range.size \in Nat
        BY <2>2, <3>1 DEF CacheRanges, MemBytes
      <4>3. c \in Nat /\ c < range.buffer + range.size
        BY <4>2
      <4>4. LineOf(c) \in Nat /\ LineOf(c) * LineSize <= c
        BY <4>3, LineOfByte
      <4>5. ptr = n * LineSize /\ n * LineSize \in Nat /\ LineOf(c) * LineSize \in Nat
        BY <3>2, <4>4, CacheAssumption DEF At
      <4>6. LineOf(c) * LineSize < n * LineSize
        BY <3>1, <4>2, <4>3, <4>4, <4>5 DEF AnotherLine
      <4>7. LineOf(c) < n
        BY <4>4, <4>6, LinesInOrder
      <4>8. QED BY <3>2, <4>1, <4>7 DEF At, Touches
    <3>4. RangeInv' /\ Done
      BY <2>0, <3>1, <3>3 DEF RangeInv
    <3>5. ~(RangeLine)
      BY <3>1 DEF RangeLine
    <3>6. QED BY <2>1, <3>4, <3>5 DEF CacheInv
  <2>7. ASSUME UNCHANGED <<range, ptr, bootStep>>,
               quiet' => /\ quiet
                         /\ \A l \in Touches(range) : (l \in held' => l \in held) /\ (l \in dirty' => l \in dirty)
        PROVE  RangeInv' /\ Done /\ ~RangeLine
    <3>1. ~RangeLine
      <4>1. SUFFICES ASSUME RangeLine PROVE FALSE
        OBVIOUS
      <4>2. range # NoRange /\ ptr' = ptr + LineSize
        BY <4>1 DEF RangeLine
      <4>3. PICK n \in Nat : At(n)
        BY <2>2, <4>2
      <4>4. ptr \in Nat
        BY <4>3, CacheAssumption DEF At
      <4>5. QED BY <2>7, <4>2, <4>4, CacheAssumption
    <3>2. Done
      BY <2>7
    <3>3. RangeInv'
      BY <2>0, <2>7 DEF RangeInv, Maintained, Touches
    <3>4. QED BY <3>1, <3>2, <3>3
  <2>8. ASSUME NEW l \in MemLines, CpuRead(l) \/ Evict(l)
        PROVE  RangeInv' /\ Done /\ ~RangeLine
    <3>1. UNCHANGED <<range, ptr, bootStep>>
      BY <2>8 DEF CpuRead, Evict
    <3>2. CASE CpuRead(l)
      <4>1. held' = held \cup {l} /\ dirty' = dirty /\ (quiet' => quiet /\ l \notin Touches(range))
        BY <3>2 DEF CpuRead, Accesses
      <4>2. QED BY <2>7, <3>1, <4>1
    <3>3. CASE Evict(l)
      <4>1. held' = held \ {l} /\ dirty' = dirty \ {l} /\ quiet' = quiet
        BY <3>3 DEF Evict, Drops
      <4>2. QED BY <2>7, <3>1, <4>1
    <3>4. QED BY <2>8, <3>2, <3>3
  <2>9. ASSUME NEW b \in MemBytes, CpuWrite(b)
        PROVE  RangeInv' /\ Done /\ ~RangeLine
    BY <2>7, <2>9 DEF CpuWrite, Accesses
  <2>10. QED
    BY <1>2, <2>1, <2>3, <2>4, <2>5, <2>6, <2>8, <2>9 DEF CacheStep, CacheInv
<1>3. QED BY <1>1, <1>2 DEF Maintained

-----------------------------------------------------------------------------
(* The flash chip.                                                         *)

FlashShape ==
  /\ mem \in [Addresses -> Cells] /\ before \in [Addresses -> Cells]
  /\ wel \in BOOLEAN /\ busy \in BOOLEAN /\ asleep \in BOOLEAN /\ doubtful \in BOOLEAN
  /\ flashAt \in {"idle", "enable", "command", "wait"}
  /\ flashAt = "idle" => flashCall = NoFlashCall /\ offset = 0
  /\ flashAt # "idle" =>
       /\ flashCall \in FlashCalls /\ Allowed(flashCall)
       /\ offset \in Nat /\ offset < flashCall.len
       /\ flashCall.name # "write" => offset = 0

\* The chip is at rest before each command, and an awake one takes the command.
ChipInv ==
  ~doubtful =>
    /\ flashAt \in {"idle", "enable"} => ~busy /\ ~wel
    /\ flashAt = "command" => ~busy /\ (wel <=> ~asleep)
    /\ flashAt = "wait" => ~wel /\ (asleep => ~busy)

\* These cells and no others are as the call leaves them.
AreDone(cells) ==
  \A a \in Addresses :
    mem[a] = IF a \notin cells THEN before[a]
             ELSE IF ~Programs THEN "erased"
             ELSE IF before[a] = "erased" THEN "new" ELSE "other"

\* The first n bytes of a write.
FirstBytes(n) == flashCall.addr .. flashCall.addr + n - 1

\* The call has done the pieces before this one, and this one too once the chip has it.
CellsInv ==
  ~doubtful =>
    /\ flashAt \in {"enable", "command"} => AreDone(IF Programs THEN FirstBytes(offset) ELSE {})
    /\ flashAt = "wait" /\ ~asleep =>
         AreDone(IF Programs THEN FirstBytes(offset + PieceLength) ELSE Span(flashCall))

FlashInv == FlashShape /\ ChipInv /\ CellsInv

LEMMA FlashCallIs ==
  ASSUME NEW k \in FlashCalls
  PROVE  /\ k.name \in {"write", "page_program", "erase", "chip_erase"}
         /\ k.addr \in Nat /\ k.len \in Nat /\ 0 < k.len
<1>1. PageSize \in Nat \ {0} /\ Pages \in Nat \ {0} /\ PageSize * Pages \in Nat /\ 0 < PageSize * Pages
  BY FlashAssumption, Z3
<1>2. Addresses \subseteq Nat
  BY <1>1 DEF Addresses
<1>3. QED BY <1>1, <1>2 DEF FlashCalls

\* A piece is what is left of the data, or of the page.
LEMMA PieceIs ==
  ASSUME flashCall \in FlashCalls, offset \in Nat, offset < flashCall.len
  PROVE  /\ PieceLength \in Nat /\ 0 < PieceLength /\ offset + PieceLength <= flashCall.len
         /\ ((flashCall.addr + offset) % PageSize) + PieceLength <= PageSize
         /\ \/ offset + PieceLength = flashCall.len
            \/ ((flashCall.addr + offset) % PageSize) + PieceLength = PageSize
<1>1. flashCall.addr \in Nat /\ flashCall.len \in Nat
  BY FlashCallIs
<1> DEFINE t == (flashCall.addr + offset) % PageSize
<1>2. t \in Nat /\ t < PageSize /\ PageSize \in Nat
  <2>1. PageSize \in Nat \ {0} /\ flashCall.addr + offset \in Nat
    BY <1>1, FlashAssumption
  <2>2. QED BY ONLY <2>1, Division
<1>3. PieceLength = IF flashCall.len - offset <= PageSize - t THEN flashCall.len - offset ELSE PageSize - t
  BY DEF PieceLength
<1> HIDE DEF t
<1>4. /\ PieceLength \in Nat /\ 0 < PieceLength /\ offset + PieceLength <= flashCall.len
      /\ t + PieceLength <= PageSize
      /\ offset + PieceLength = flashCall.len \/ t + PieceLength = PageSize
  BY <1>1, <1>2, <1>3
<1>5. QED BY <1>4 DEF t

\* Within a page, byte i of a piece is at address a + i.
LEMMA NoWrap ==
  ASSUME NEW a \in Nat, NEW i \in Nat, (a % PageSize) + i < PageSize
  PROVE  (Page(a) * PageSize) + ((a + i) % PageSize) = a + i
<1> DEFINE S == PageSize
           p == a \div S
           t == a % S
<1>1. S \in Nat \ {0}
  BY FlashAssumption
<1>2. p \in Nat /\ t \in Nat /\ a = p * S + t /\ Page(a) = p
  BY <1>1, Division DEF Page
<1>3. t + i \in Nat /\ t + i < S
  BY <1>2
<1> HIDE DEF p, t
<1>4. (p * S + (t + i)) % S = t + i
  BY <1>1, <1>2, <1>3, QuotientIs
<1>5. p * S \in Nat /\ a + i = p * S + (t + i)
  BY <1>1, <1>2
<1>6. QED BY <1>2, <1>4, <1>5

\* A program does not wrap: it touches the next bytes of the call.
LEMMA TouchedIs ==
  ASSUME flashCall \in FlashCalls, offset \in Nat, offset < flashCall.len, Programs
  PROVE  Touched = flashCall.addr + offset .. flashCall.addr + offset + PieceLength - 1
<1> DEFINE a == flashCall.addr + offset
           n == PieceLength
<1>1. a \in Nat
  BY FlashCallIs
<1>2. n \in Nat /\ (a % PageSize) + n <= PageSize
  BY PieceIs
<1>3. a % PageSize \in Nat
  BY <1>1, Division, FlashAssumption
<1>4. Touched = {(Page(a) * PageSize) + ((a + i) % PageSize) : i \in 0 .. n - 1}
  BY DEF Touched
<1> HIDE DEF a, n
<1>5. \A i \in 0 .. n - 1 : (Page(a) * PageSize) + ((a + i) % PageSize) = a + i
  <2>1. SUFFICES ASSUME NEW i \in 0 .. n - 1 PROVE (Page(a) * PageSize) + ((a + i) % PageSize) = a + i
    OBVIOUS
  <2>2. i \in Nat /\ (a % PageSize) + i < PageSize
    BY <1>2, <1>3, FlashAssumption
  <2>3. QED BY <1>1, <2>2, NoWrap
<1>6. Touched = {a + i : i \in 0 .. n - 1}
  BY <1>4, <1>5
<1>7. {a + i : i \in 0 .. n - 1} = a .. a + n - 1
  <2>1. \A b \in a .. a + n - 1 : b - a \in 0 .. n - 1 /\ b = a + (b - a)
    BY <1>1, <1>2
  <2>2. \A i \in 0 .. n - 1 : a + i \in a .. a + n - 1
    BY <1>1, <1>2
  <2>3. QED BY <2>1, <2>2
<1>8. QED BY <1>6, <1>7 DEF a, n

LEMMA FlashStart == FlashInit => FlashInv
BY DEF FlashInit, FlashInv, FlashShape, ChipInv, CellsInv, Cells

\* A failing transaction ends the call, and leaves the chip in doubt.
LEMMA FailsKeeps ==
  ASSUME FlashShape, NEW to, Fails(to), asleep' = asleep, wel' \in BOOLEAN, busy' \in BOOLEAN,
         mem' \in [Addresses -> Cells]
  PROVE  FlashInv' /\ outcome' = "error"
<1>1. /\ flashAt' = "idle" /\ flashCall' = NoFlashCall /\ offset' = 0
      /\ outcome' = "error" /\ doubtful' = TRUE /\ before' = mem
  BY DEF Fails
<1>2. FlashShape'
  BY <1>1 DEF FlashShape
<1>3. QED BY <1>1, <1>2 DEF FlashInv, ChipInv, CellsInv

\* What the chip makes of a command.
LEMMA CommandDoes ==
  ASSUME FlashInv, flashAt = "command", ChipTakes
  PROVE  /\ wel' \in BOOLEAN /\ busy' \in BOOLEAN /\ mem' \in [Addresses -> Cells]
         /\ ~doubtful => ~wel' /\ (asleep => ~busy')
         /\ ~doubtful /\ ~asleep =>
              \A a \in Addresses :
                mem'[a] = IF a \notin (IF Programs THEN FirstBytes(offset + PieceLength) ELSE Span(flashCall))
                          THEN before[a]
                          ELSE IF ~Programs THEN "erased"
                          ELSE IF before[a] = "erased" THEN "new" ELSE "other"
<1>1. /\ mem \in [Addresses -> Cells] /\ wel \in BOOLEAN /\ busy \in BOOLEAN /\ asleep \in BOOLEAN
      /\ flashCall \in FlashCalls /\ offset \in Nat /\ offset < flashCall.len
  BY DEF FlashInv, FlashShape
<1>2. \/ /\ Listens /\ wel /\ wel' = FALSE /\ busy' = TRUE
         /\ mem' = [a \in Addresses |-> IF a \in Touched THEN Becomes(a) ELSE mem[a]]
      \/ ~(Listens /\ wel) /\ UNCHANGED <<mem, wel, busy>>
  BY DEF ChipTakes
<1>3. wel' \in BOOLEAN /\ busy' \in BOOLEAN /\ mem' \in [Addresses -> Cells]
  <2>1. \A a \in Addresses : Becomes(a) \in Cells
    BY DEF Becomes, Cells
  <2>2. QED BY <1>1, <1>2, <2>1
<1>4. ~doubtful => ~wel' /\ (asleep => ~busy')
  BY <1>1, <1>2 DEF FlashInv, ChipInv, Listens
<1>5. ASSUME ~doubtful, ~asleep
      PROVE  \A a \in Addresses :
                mem'[a] = IF a \notin (IF Programs THEN FirstBytes(offset + PieceLength) ELSE Span(flashCall))
                          THEN before[a]
                          ELSE IF ~Programs THEN "erased"
                          ELSE IF before[a] = "erased" THEN "new" ELSE "other"
  <2>1. AreDone(IF Programs THEN FirstBytes(offset) ELSE {})
    BY <1>5 DEF FlashInv, CellsInv
  <2>2. \A a \in Addresses : mem'[a] = IF a \in Touched THEN Becomes(a) ELSE mem[a]
    BY <1>2, <1>5 DEF FlashInv, ChipInv, Listens
  <2>3. CASE Programs
    <3> DEFINE x == flashCall.addr
               n == PieceLength
    <3>1. x \in Nat /\ n \in Nat
      BY <1>1, FlashCallIs, PieceIs
    <3>2. Touched = x + offset .. x + offset + n - 1
      BY <1>1, <2>3, TouchedIs
    <3>3. FirstBytes(offset) = x .. x + offset - 1 /\ FirstBytes(offset + n) = x .. x + (offset + n) - 1
      BY DEF FirstBytes
    <3> HIDE DEF x, n
    <3>4. FirstBytes(offset + n) = FirstBytes(offset) \cup Touched /\ FirstBytes(offset) \cap Touched = {}
      BY <1>1, <3>1, <3>2, <3>3
    <3>5. \A a \in Addresses : Becomes(a) = IF mem[a] = "erased" THEN "new" ELSE "other"
      BY <2>3 DEF Becomes
    <3>6. SUFFICES ASSUME NEW a \in Addresses
                   PROVE  mem'[a] = IF a \notin FirstBytes(offset + n) THEN before[a]
                                    ELSE IF before[a] = "erased" THEN "new" ELSE "other"
      BY <2>3 DEF n
    <3>7. mem[a] = IF a \notin FirstBytes(offset) THEN before[a]
                   ELSE IF before[a] = "erased" THEN "new" ELSE "other"
      BY <2>1, <2>3 DEF AreDone
    <3>8. QED BY <2>2, <3>4, <3>5, <3>7
  <2>4. CASE ~Programs
    <3>1. Touched = Span(flashCall)
      BY <2>4 DEF Touched, Span, Programs
    <3>2. \A a \in Addresses : mem[a] = before[a] /\ Becomes(a) = "erased"
      BY <2>1, <2>4 DEF AreDone, Becomes
    <3>3. QED BY <2>2, <2>4, <3>1, <3>2
  <2>5. QED BY <2>3, <2>4
<1>6. QED BY <1>3, <1>4, <1>5

LEMMA FlashSteps ==
  ASSUME FlashInv, [FlashStep]_flashVars
  PROVE  /\ FlashInv'
         /\ [(flashAt = "wait" /\ flashAt' = "idle" /\ outcome' = "ok" /\ ~doubtful) =>
               \A a \in Addresses :
                 mem[a] = IF a \notin Span(flashCall) THEN before[a]
                          ELSE IF ~Programs THEN "erased"
                          ELSE IF before[a] = "erased" THEN "new" ELSE "other"]_flashVars
<1> DEFINE Ended == (flashAt = "wait" /\ flashAt' = "idle" /\ outcome' = "ok" /\ ~doubtful) =>
                      AreDone(Span(flashCall))
<1>0. FlashShape /\ ChipInv /\ CellsInv
  BY DEF FlashInv
<1>1. CASE UNCHANGED flashVars
  <2>1. FlashShape'
    BY <1>0, <1>1 DEF flashVars, FlashShape
  <2>2. ChipInv'
    BY <1>0, <1>1 DEF flashVars, ChipInv
  <2>3. CellsInv'
    BY <1>0, <1>1 DEF flashVars, CellsInv, AreDone, FirstBytes, Programs, PieceLength
  <2>4. QED BY <1>1, <2>1, <2>2, <2>3 DEF FlashInv
<1>2. CASE FlashBegin
  <2>1. /\ flashAt = "idle" /\ flashCall' \in FlashCalls /\ Allowed(flashCall')
        /\ flashAt' = "enable" /\ offset' = 0 /\ before' = mem
        /\ UNCHANGED <<mem, wel, busy, asleep, outcome, faults, doubtful>>
    BY <1>2 DEF FlashBegin
  <2>2. flashCall'.addr \in Nat /\ 0 < flashCall'.len
    BY <2>1, FlashCallIs
  <2>3. FlashShape'
    BY <1>0, <2>1, <2>2 DEF FlashShape, Allowed
  <2>4. ChipInv'
    BY <1>0, <2>1 DEF ChipInv
  <2>5. CellsInv'
    <3>1. flashCall'.addr .. flashCall'.addr + 0 - 1 = {}
      BY <2>2
    <3>2. FirstBytes(offset)' = {}
      BY <2>1, <3>1 DEF FirstBytes
    <3>3. AreDone({})'
      BY <2>1 DEF AreDone
    <3>4. (IF Programs THEN FirstBytes(offset) ELSE {})' = {}
      BY <3>2
    <3>5. AreDone(IF Programs THEN FirstBytes(offset) ELSE {})'
      BY <3>3, <3>4 DEF AreDone
    <3>6. QED BY <2>1, <3>5 DEF CellsInv
  <2>6. QED BY <2>1, <2>3, <2>4, <2>5 DEF FlashInv
<1>3. CASE WriteEnable
  <2>1. CASE /\ wel' = (wel \/ Listens) /\ flashAt' = "command"
             /\ UNCHANGED <<mem, busy, asleep, flashCall, offset, outcome, before, faults, doubtful>>
    <3>1. flashAt = "enable"
      BY <1>3 DEF WriteEnable
    <3>2. FlashShape'
      BY <1>0, <2>1, <3>1 DEF FlashShape, Listens
    <3>3. ChipInv'
      BY <1>0, <2>1, <3>1 DEF ChipInv, Listens, FlashShape
    <3>4. CellsInv'
      BY <1>0, <2>1, <3>1 DEF CellsInv, AreDone, FirstBytes, Programs, PieceLength
    <3>5. QED BY <3>1, <3>2, <3>3, <3>4 DEF FlashInv
  <2>2. CASE Fails(wel' \in {wel, wel \/ Listens} /\ UNCHANGED <<mem, busy, asleep>>)
    <3>1. wel' \in {wel, wel \/ Listens} /\ UNCHANGED <<mem, busy, asleep>>
      BY <2>2 DEF Fails
    <3>2. QED BY <1>0, <2>2, <3>1, FailsKeeps DEF FlashShape
  <2>3. QED BY <1>3, <2>1, <2>2 DEF WriteEnable
<1>4. CASE Command
  <2>1. flashAt = "command"
    BY <1>4 DEF Command
  <2>2. CASE /\ ChipTakes /\ flashAt' = "wait"
             /\ UNCHANGED <<asleep, flashCall, offset, outcome, before, faults, doubtful>>
    <3>1. FlashShape'
      BY <1>0, <2>1, <2>2, CommandDoes DEF FlashShape
    <3>2. ChipInv'
      BY <1>0, <2>1, <2>2, CommandDoes DEF ChipInv
    <3>3. CellsInv'
      <4>1. SUFFICES ASSUME ~doubtful, ~asleep
                     PROVE  AreDone(IF Programs THEN FirstBytes(offset + PieceLength) ELSE Span(flashCall))'
        BY <2>2 DEF CellsInv
      <4>2. \A a \in Addresses :
              mem'[a] = IF a \notin (IF Programs THEN FirstBytes(offset + PieceLength) ELSE Span(flashCall))
                        THEN before[a]
                        ELSE IF ~Programs THEN "erased"
                        ELSE IF before[a] = "erased" THEN "new" ELSE "other"
        BY <2>1, <2>2, <4>1, CommandDoes
      <4>3. QED BY <2>2, <4>2 DEF AreDone, FirstBytes, Programs, PieceLength
    <3>4. QED BY <2>1, <3>1, <3>2, <3>3 DEF FlashInv
  <2>3. CASE Fails((ChipTakes \/ UNCHANGED <<mem, wel, busy>>) /\ UNCHANGED asleep)
    <3>1. (ChipTakes \/ UNCHANGED <<mem, wel, busy>>) /\ UNCHANGED asleep
      BY <2>3 DEF Fails
    <3>2. wel' \in BOOLEAN /\ busy' \in BOOLEAN /\ mem' \in [Addresses -> Cells]
      BY <1>0, <2>1, <3>1, CommandDoes DEF FlashShape
    <3>3. QED BY <1>0, <2>1, <2>3, <3>1, <3>2, FailsKeeps
  <2>4. QED BY <1>4, <2>2, <2>3 DEF Command
<1>5. CASE WaitBusy
  <2>1. flashAt = "wait" /\ flashCall \in FlashCalls /\ offset \in Nat /\ offset < flashCall.len
    BY <1>0, <1>5 DEF WaitBusy, FlashShape
  <2>2. flashCall.addr \in Nat /\ flashCall.len \in Nat
    BY <2>1, FlashCallIs
  <2>3. /\ PieceLength \in Nat /\ 0 < PieceLength /\ offset + PieceLength <= flashCall.len
        /\ ((flashCall.addr + offset) % PageSize) + PieceLength <= PageSize
        /\ \/ offset + PieceLength = flashCall.len
           \/ ((flashCall.addr + offset) % PageSize) + PieceLength = PageSize
    BY <2>1, PieceIs
  <2>4. CASE /\ Listens /\ MoreToWrite
             /\ offset' = offset + PieceLength /\ flashAt' = "enable"
             /\ UNCHANGED <<flashCall, outcome, before, mem, wel, busy, asleep, faults, doubtful>>
    <3>1. flashCall.name = "write" /\ offset + PieceLength < flashCall.len /\ Programs
      BY <2>4 DEF MoreToWrite, Programs
    <3>2. FlashShape'
      BY <1>0, <2>1, <2>3, <2>4, <3>1 DEF FlashShape
    <3>3. ChipInv'
      BY <1>0, <2>1, <2>4 DEF ChipInv, Listens
    <3>4. CellsInv'
      <4>1. ~doubtful => AreDone(FirstBytes(offset + PieceLength))
        BY <1>0, <2>1, <2>4, <3>1 DEF CellsInv, Listens
      <4>2. Programs' /\ FirstBytes(offset)' = FirstBytes(offset + PieceLength)
        BY <2>4, <3>1 DEF Programs, FirstBytes
      <4>3. (IF Programs THEN FirstBytes(offset) ELSE {})' = FirstBytes(offset + PieceLength)
        BY <4>2
      <4>4. \A cells : AreDone(cells) => AreDone(cells)'
        BY <2>4 DEF AreDone, Programs
      <4>5. ~doubtful => AreDone(IF Programs THEN FirstBytes(offset) ELSE {})'
        BY <2>4, <4>1, <4>3, <3>1 DEF AreDone, Programs
      <4>6. QED BY <2>4, <4>5 DEF CellsInv
    <3>5. QED BY <2>4, <3>2, <3>3, <3>4 DEF FlashInv
  <2>5. CASE /\ Listens /\ ~MoreToWrite
             /\ flashAt' = "idle" /\ flashCall' = NoFlashCall /\ offset' = 0
             /\ outcome' = "ok" /\ before' = mem
             /\ UNCHANGED <<mem, wel, busy, asleep, faults, doubtful>>
    <3>1. FlashShape'
      BY <1>0, <2>5 DEF FlashShape
    <3>2. ChipInv'
      BY <1>0, <2>1, <2>5 DEF ChipInv, Listens
    <3>3. CellsInv'
      BY <2>5 DEF CellsInv
    <3>4. Programs => FirstBytes(offset + PieceLength) = Span(flashCall)
      <4>1. SUFFICES ASSUME Programs PROVE offset + PieceLength = flashCall.len
        BY DEF FirstBytes, Span, Programs
      <4>2. CASE flashCall.name = "write"
        BY <2>2, <2>1, <2>3, <2>5, <4>2 DEF MoreToWrite
      <4>3. CASE flashCall.name = "page_program"
        <5>1. offset = 0 /\ (flashCall.addr % PageSize) + flashCall.len <= PageSize
          BY <1>0, <2>1, <4>3 DEF FlashShape, Allowed
        <5>2. flashCall.addr % PageSize \in Nat /\ PageSize \in Nat
          BY <2>2, Division, FlashAssumption
        <5>3. flashCall.addr + 0 = flashCall.addr
          BY <2>2
        <5> DEFINE t == flashCall.addr % PageSize
        <5>4. (flashCall.addr + offset) % PageSize = t
          BY <5>1, <5>3
        <5> HIDE DEF t
        <5>5. t \in Nat /\ t + flashCall.len <= PageSize
          BY <5>1, <5>2 DEF t
        <5>6. PieceLength <= flashCall.len /\ (PieceLength = flashCall.len \/ t + PieceLength = PageSize)
          BY <2>2, <2>3, <5>1, <5>4
        <5>7. PieceLength \in Nat /\ offset = 0 /\ flashCall.len \in Nat /\ PageSize \in Nat
          BY <2>2, <2>3, <5>1, <5>2
        <5>8. PieceLength = flashCall.len
          BY <5>5, <5>6, <5>7
        <5>9. QED BY <5>7, <5>8
      <4>4. QED BY <4>1, <4>2, <4>3 DEF Programs
    <3>5. Ended
      BY <1>0, <2>1, <2>5, <3>4 DEF CellsInv, Listens
    <3>6. QED BY <3>1, <3>2, <3>3, <3>5 DEF FlashInv, AreDone
  <2>6. CASE Fails(UNCHANGED <<mem, wel, busy, asleep>>)
    <3>1. UNCHANGED <<mem, wel, busy, asleep>>
      BY <2>6 DEF Fails
    <3>2. FlashInv' /\ outcome' = "error"
      BY <1>0, <2>6, <3>1, FailsKeeps DEF FlashShape
    <3>3. QED BY <3>2
  <2>7. QED BY <1>5, <2>4, <2>5, <2>6 DEF WaitBusy
<1>6. CASE PowerDown \/ ReleasePowerDown \/ ChipDone
  <2>1. /\ UNCHANGED <<mem, wel, flashCall, flashAt, offset, outcome, before, faults, doubtful>>
        /\ asleep' # asleep => flashAt = "idle"
        /\ \/ asleep' \in BOOLEAN /\ busy' = busy
           \/ asleep' = asleep /\ busy' = FALSE
    BY <1>0, <1>6 DEF PowerDown, ReleasePowerDown, ChipDone, FlashShape
  <2>2. FlashShape'
    BY <1>0, <2>1 DEF FlashShape
  <2>3. ChipInv'
    BY <1>0, <2>1 DEF ChipInv
  <2>4. CellsInv'
    BY <1>0, <2>1 DEF CellsInv, AreDone, FirstBytes, Programs, PieceLength
  <2>5. QED BY <2>1, <2>2, <2>3, <2>4 DEF FlashInv
<1>7. QED BY <1>1, <1>2, <1>3, <1>4, <1>5, <1>6 DEF FlashStep

-----------------------------------------------------------------------------
\* What single steps may not do: a flash call that says Ok with no transaction
\* failed has done its span and nothing else (spi_flash.rs:68-241); a wait for
\* blanking ends on an edge seen since it cleared the flag, and the interrupt stays
\* armed (lcd.rs); a delay lasts as long as asked (delay.rs); the CPU's PLL is not
\* changed under it, nor run on before it locks or the poll gives up (ccu.rs); a
\* cached write is lost only to an invalidation that was asked for, and a cache
\* range is done to its end (mmu.rs).
StepInv == LcdInv /\ DelayInv /\ ClockInv /\ CacheInv /\ FlashInv

THEOREM StepsAreKept == DevicesSpec => StepsKept
<1>1. DevicesInit => StepInv
  BY LcdStart, DelayStart, ClockStart, CacheStart, FlashStart DEF DevicesInit, StepInv
<1>2. StepInv /\ [DevicesNext]_deviceVars => StepInv'
  <2>1. [DevicesNext]_deviceVars =>
          /\ [LcdStep]_lcdVars /\ [DelayStep]_delayVars /\ [ClockStep]_clockVars
          /\ [CacheStep]_cacheVars /\ [FlashStep]_flashVars
    BY DEF DevicesNext, Only, deviceVars
  <2>2. QED BY <2>1, LcdKeeps, DelaySteps, ClockSteps, CacheSteps, FlashSteps DEF StepInv
<1>3. ASSUME StepInv, [DevicesNext]_deviceVars
      PROVE  /\ [(flashAt = "wait" /\ flashAt' = "idle" /\ outcome' = "ok" /\ ~doubtful) =>
                    \A a \in Addresses :
                      mem[a] = IF a \notin Span(flashCall) THEN before[a]
                               ELSE IF ~Programs THEN "erased"
                               ELSE IF before[a] = "erased" THEN "new" ELSE "other"]_flashVars
             /\ [\A t \in Pollers :
                    polling[t] = "poll" /\ polling'[t] = "out" /\ saw' = "edge" => sinceClear[t]]_lcdVars
             /\ [armed /\ ~armed' => polled' \/ "tcon" \in inReset']_lcdVars
             /\ [\A t \in Delayers : at[t] = "poll" /\ at'[t] = "out" => elapsed[t] >= us[t]]_delayVars
             /\ [pll'["CPU"] # pll["CPU"] => cpuSrc # "PLL"]_clockVars
             /\ [cpuSrc # "PLL" /\ cpuSrc' = "PLL" => locked["CPU"] \/ gaveUp]_clockVars
             /\ [\A b \in MemBytes : (Latest(b) /\ ~Latest(b)') =>
                    \/ bootStep = "enabled" /\ bootStep' = "done"
                    \/ range.name = "invalidate" /\ LineOf(b) \in Touches(range) \cup {LineOf(range.buffer)}]_cacheVars
             /\ [(range # NoRange /\ range' = NoRange /\ quiet) =>
                    \A l \in Touches(range) :
                      IF range.name = "clean" THEN l \notin dirty ELSE l \notin held]_cacheVars
  <2>1. /\ [LcdStep]_lcdVars /\ [DelayStep]_delayVars /\ [ClockStep]_clockVars
        /\ [CacheStep]_cacheVars /\ [FlashStep]_flashVars
    BY <1>3 DEF DevicesNext, Only, deviceVars
  <2>2. LcdInv /\ DelayInv /\ ClockInv /\ CacheInv /\ FlashInv
    BY <1>3 DEF StepInv
  <2>3. QED
    BY <2>1, <2>2, VblankSteps, DelaySteps, ClockSteps, CacheSteps, FlashSteps
<1>4. QED
  BY <1>1, <1>2, <1>3, PTL
  DEF DevicesSpec, StepsKept, SpanIsDone, EdgeIsFresh, StaysArmed, DelayAtLeast,
      CpuPllStill, CpuOnLockedPll, LossesAsked, RangeIsDone

-----------------------------------------------------------------------------
(* The timers.                                                             *)

Configuring == {"stop", "configure", "configure-stop", "oneshot", "oneshot-stop", "oneshot-enable",
                "systick", "systick-stop", "systick-install"}

TimersShape ==
  /\ ctrl \in [Channels -> [en : BOOLEAN, oneshot : BOOLEAN]]
  /\ modeAsked \in [Channels -> Modes] /\ DOMAIN wanted = Channels
  /\ shots \in [Channels -> Nat] /\ DOMAIN doing = Channels /\ DOMAIN isrOf = Channels
  /\ callback \in [Channels -> BOOLEAN] /\ rearms \in BOOLEAN /\ dropped \in BOOLEAN

\* A channel that runs for one shot has not flagged yet, and will stop when it does.
ShotsInv ==
  \A c \in Channels :
    /\ modeAsked[c] = "OneShot" => shots[c] <= 1
    /\ modeAsked[c] = "OneShot" /\ ctrl[c].en => ctrl[c].oneshot /\ shots[c] = 0
    /\ doing[c] \in {"oneshot", "oneshot-stop", "oneshot-enable"} => wanted[c].mode = "OneShot"
    /\ doing[c] = "oneshot-enable" => ctrl[c].oneshot

\* The handler that calls back is in the table only once there is a callback.
InstallInv ==
  /\ ~dropped
  /\ \A c \in Channels : isrOf[c] = "timer_isr" \/ doing[c] = "install-isr" => callback[c]

\* A channel that is being set up does not run.
SetUpInv == rearms \/ \A c \in Channels : doing[c] \in Configuring => ~ctrl[c].en

TimersInv == TimersShape /\ ShotsInv /\ InstallInv /\ SetUpInv

LEMMA TimersStart == TimersInit => TimersInv
<1> SUFFICES ASSUME TimersInit PROVE TimersInv
  OBVIOUS
<1>1. /\ ctrl = [c \in Channels |-> [en |-> FALSE, oneshot |-> FALSE]]
      /\ isrOf = [c \in Channels |-> "default_handler"] /\ doing = [c \in Channels |-> "none"]
      /\ callback = [c \in Channels |-> FALSE] /\ shots = [c \in Channels |-> 0]
      /\ modeAsked = [c \in Channels |-> "Periodic"] /\ DOMAIN wanted = Channels
      /\ dropped = FALSE /\ rearms \in BOOLEAN
  BY DEF TimersInit
<1>2. TimersShape
  BY <1>1 DEF TimersShape, Modes
<1>3. ShotsInv
  BY <1>1 DEF ShotsInv
<1>4. InstallInv /\ SetUpInv
  BY <1>1 DEF InstallInv, SetUpInv, Configuring
<1>5. QED BY <1>2, <1>3, <1>4 DEF TimersInv

\* Whatever leaves the channel's mode, callback and handler alone keeps the
\* invariant if it starts nothing.
LEMMA TimersRest ==
  ASSUME TimersInv, NEW c \in Channels,
         UNCHANGED <<modeAsked, shots, wanted, isrOf, dropped, rearms>>,
         ctrl' \in [Channels -> [en : BOOLEAN, oneshot : BOOLEAN]],
         \A d \in Channels : ctrl'[d].en => ctrl[d].en /\ ctrl'[d] = ctrl[d],
         callback' \in [Channels -> BOOLEAN], \A d \in Channels : callback[d] => callback'[d],
         NEW to, doing' = [doing EXCEPT ![c] = to],
         to \in Configuring => ~ctrl'[c].en,
         to \in {"oneshot", "oneshot-stop", "oneshot-enable"} => wanted[c].mode = "OneShot",
         to = "oneshot-enable" => ctrl'[c].oneshot,
         to = "install-isr" => callback'[c],
         \A d \in Channels : d # c => ctrl'[d] = ctrl[d]
  PROVE  TimersInv'
<1>1. TimersShape'
  BY DEF TimersInv, TimersShape
<1>2. \A d \in Channels : doing'[d] = IF d = c THEN to ELSE doing[d]
  BY DEF TimersInv, TimersShape
<1>3. ShotsInv'
  BY <1>2 DEF TimersInv, ShotsInv
<1>4. InstallInv'
  BY <1>2 DEF TimersInv, InstallInv
<1>5. SetUpInv'
  BY <1>2 DEF TimersInv, SetUpInv
<1>6. QED BY <1>1, <1>3, <1>4, <1>5 DEF TimersInv

\* A channel is started, from a call that ends with it or from its callback.
LEMMA TimersRun ==
  ASSUME TimersInv, NEW c \in Channels, NEW mode \in Modes,
         NEW shot \in BOOLEAN, mode = "OneShot" => shot,
         ctrl' \in [Channels -> [en : BOOLEAN, oneshot : BOOLEAN]],
         ctrl'[c].oneshot = shot, \A d \in Channels : d # c => ctrl'[d] = ctrl[d],
         modeAsked' = [modeAsked EXCEPT ![c] = mode], shots' = [shots EXCEPT ![c] = 0],
         UNCHANGED <<wanted, isrOf, callback, dropped, rearms>>,
         \/ doing' = [doing EXCEPT ![c] = "none"]
         \/ doing' = doing /\ (doing[c] = "none" \/ (rearms /\ shot))
  PROVE  TimersInv'
<1>1. TimersShape'
  BY DEF TimersInv, TimersShape
<1>2. \A d \in Channels : doing'[d] = doing[d] \/ (d = c /\ doing'[d] = "none")
  BY DEF TimersInv, TimersShape
<1>4. ShotsInv'
  BY <1>1, <1>2 DEF TimersInv, TimersShape, ShotsInv
<1>5. InstallInv'
  BY <1>2 DEF TimersInv, InstallInv
<1>6. SetUpInv'
  BY <1>2 DEF TimersInv, TimersShape, SetUpInv, Configuring
<1>7. QED BY <1>1, <1>4, <1>5, <1>6 DEF TimersInv

LEMMA TimersKeep ==
  ASSUME TimersInv, [TimersStep]_timerVars
  PROVE  TimersInv'
<1>0. TimersShape /\ ShotsInv /\ InstallInv /\ SetUpInv
  BY DEF TimersInv
<1>1. CASE UNCHANGED timerVars
  BY <1>1 DEF timerVars, TimersInv, TimersShape, ShotsInv, InstallInv, SetUpInv
<1>2. ASSUME NEW c \in Channels, Stop(c)
      PROVE  TimersInv'
  <2>1. /\ ctrl' = [ctrl EXCEPT ![c].en = FALSE] /\ doing' = [doing EXCEPT ![c] = "stop"]
        /\ UNCHANGED <<callback, modeAsked, shots, wanted, isrOf, dropped, rearms>>
    BY <1>2 DEF Stop, BeginStop
  <2>2. /\ ctrl' \in [Channels -> [en : BOOLEAN, oneshot : BOOLEAN]] /\ ~ctrl'[c].en
        /\ \A d \in Channels : d # c => ctrl'[d] = ctrl[d]
    BY <1>0, <2>1 DEF TimersShape
  <2>3. QED BY <1>0, <2>1, <2>2, TimersRest DEF TimersShape
<1>3. ASSUME NEW c \in Channels, StopDone(c)
      PROVE  TimersInv'
  <2>1. UNCHANGED <<ctrl, callback, modeAsked, shots, wanted, isrOf, dropped, rearms>>
    BY <1>3 DEF StopDone
  <2>2. PICK to \in {"none", "configure", "oneshot", "systick"} :
          /\ doing' = [doing EXCEPT ![c] = to]
          /\ doing[c] \in Configuring /\ (to = "oneshot" => doing[c] = "oneshot-stop")
    BY <1>3 DEF StopDone, TimerMoves, Configuring
  <2>3. to = "oneshot" => wanted[c].mode = "OneShot"
    BY <1>0, <2>2 DEF ShotsInv
  <2>4. CASE ~rearms
    <3>1. ~ctrl[c].en
      BY <1>0, <2>2, <2>4 DEF SetUpInv
    <3>2. QED BY <1>0, <2>1, <2>2, <2>3, <3>1, TimersRest DEF TimersShape
  <2>5. CASE rearms
    <3>1. \A d \in Channels : doing'[d] = IF d = c THEN to ELSE doing[d]
      BY <1>0, <2>2 DEF TimersShape
    <3>2. TimersShape' /\ ShotsInv' /\ InstallInv' /\ SetUpInv'
      BY <1>0, <2>1, <2>2, <2>3, <2>5, <3>1 DEF TimersShape, ShotsInv, InstallInv, SetUpInv
    <3>3. QED BY <3>2 DEF TimersInv
  <2>6. QED BY <2>4, <2>5
<1>4. ASSUME NEW c \in Channels, BeginConfigure(c)
      PROVE  TimersInv'
  <2>1. PICK made \in {"configure", "oneshot", "systick"}, k \in Settings :
          /\ made = "oneshot" => k.mode = "OneShot"
          /\ wanted' = [wanted EXCEPT ![c] = k]
          /\ IF ctrl[c].en THEN BeginStop(c, Stopping[made])
             ELSE doing' = [doing EXCEPT ![c] = made] /\ UNCHANGED <<ctrl, old>>
    BY <1>4 DEF BeginConfigure
  <2>2. UNCHANGED <<callback, modeAsked, shots, isrOf, dropped, rearms>>
    BY <1>4 DEF BeginConfigure
  <2>3. PICK to \in {"configure", "oneshot", "systick", "configure-stop", "oneshot-stop", "systick-stop"} :
          doing' = [doing EXCEPT ![c] = to] /\ (to \in {"oneshot", "oneshot-stop"} => k.mode = "OneShot")
    BY <2>1 DEF BeginStop, Stopping
  <2>4. /\ ctrl' \in [Channels -> [en : BOOLEAN, oneshot : BOOLEAN]] /\ ~ctrl'[c].en
        /\ \A d \in Channels : d # c => ctrl'[d] = ctrl[d]
    <3>1. CASE ctrl[c].en
      <4>1. ctrl' = [ctrl EXCEPT ![c].en = FALSE]
        BY <2>1, <3>1 DEF BeginStop
      <4>2. QED BY <1>0, <4>1 DEF TimersShape
    <3>2. CASE ~ctrl[c].en
      BY <1>0, <2>1, <3>2 DEF TimersShape
    <3>3. QED BY <3>1, <3>2
  <2>5. /\ \A d \in Channels : doing'[d] = IF d = c THEN to ELSE doing[d]
        /\ \A d \in Channels : wanted'[d] = IF d = c THEN k ELSE wanted[d]
        /\ DOMAIN wanted' = Channels
    BY <1>0, <2>1, <2>3 DEF TimersShape
  <2>6. TimersShape'
    BY <1>0, <2>2, <2>3, <2>4, <2>5 DEF TimersShape
  <2>7. ShotsInv' /\ InstallInv' /\ SetUpInv'
    BY <1>0, <2>2, <2>3, <2>4, <2>5 DEF ShotsInv, InstallInv, SetUpInv
  <2>8. QED BY <2>6, <2>7 DEF TimersInv
<1>5. ASSUME NEW c \in Channels, TimerConfigure(c)
      PROVE  TimersInv'
  <2>1. PICK to \in {"none", "oneshot-enable", "systick-install"} :
          doing' = [doing EXCEPT ![c] = to] /\ (to = "oneshot-enable" => doing[c] = "oneshot")
    BY <1>5 DEF TimerConfigure, TimerMoves
  <2>2. /\ ctrl' = [ctrl EXCEPT ![c] = [en |-> FALSE, oneshot |-> wanted[c].mode = "OneShot"]]
        /\ UNCHANGED <<callback, modeAsked, shots, wanted, isrOf, dropped, rearms>>
    BY <1>5 DEF TimerConfigure, ConfigureRegs
  <2>3. to = "oneshot-enable" => wanted[c].mode = "OneShot"
    BY <1>0, <2>1 DEF ShotsInv
  <2>4. /\ ctrl' \in [Channels -> [en : BOOLEAN, oneshot : BOOLEAN]] /\ ~ctrl'[c].en
        /\ ctrl'[c].oneshot = (wanted[c].mode = "OneShot")
        /\ \A d \in Channels : d # c => ctrl'[d] = ctrl[d]
    BY <1>0, <2>2 DEF TimersShape
  <2>5. QED BY <1>0, <2>1, <2>2, <2>3, <2>4, TimersRest DEF TimersShape
<1>6. ASSUME NEW c \in Channels, NEW n, NEW mode \in Modes, StartRegs(c, n, mode),
             UNCHANGED <<wanted, isrOf, callback, dropped, rearms>>,
             \/ doing' = [doing EXCEPT ![c] = "none"]
             \/ doing' = doing /\ (doing[c] = "none" \/ (rearms /\ mode = "OneShot"))
      PROVE  TimersInv'
  <2>1. /\ ctrl' = [ctrl EXCEPT ![c] = [en |-> TRUE, oneshot |-> mode = "OneShot"]]
        /\ modeAsked' = [modeAsked EXCEPT ![c] = mode] /\ shots' = [shots EXCEPT ![c] = 0]
    BY <1>6 DEF StartRegs, Enabled
  <2>2. (mode = "OneShot") \in BOOLEAN
    OBVIOUS
  <2>3. /\ ctrl' \in [Channels -> [en : BOOLEAN, oneshot : BOOLEAN]]
        /\ ctrl'[c].oneshot = (mode = "OneShot") /\ \A d \in Channels : d # c => ctrl'[d] = ctrl[d]
    BY <1>0, <2>1 DEF TimersShape
  <2>4. QED BY <1>6, <2>1, <2>2, <2>3, TimersRun
<1>7. ASSUME NEW c \in Channels, Start(c)
      PROVE  TimersInv'
  BY <1>6, <1>7 DEF Start, Settings
<1>8. ASSUME NEW c \in Channels, OneshotEnable(c)
      PROVE  TimersInv'
  <2>1. /\ doing[c] = "oneshot-enable" /\ doing' = [doing EXCEPT ![c] = "none"]
        /\ ctrl' = [ctrl EXCEPT ![c].en = TRUE]
        /\ modeAsked' = [modeAsked EXCEPT ![c] = "OneShot"] /\ shots' = [shots EXCEPT ![c] = 0]
        /\ UNCHANGED <<wanted, isrOf, callback, dropped, rearms>>
    BY <1>8 DEF OneshotEnable, Enabled, TimerMoves
  <2>2. ctrl[c].oneshot = TRUE
    BY <1>0, <2>1 DEF ShotsInv, TimersShape
  <2>3. /\ ctrl' \in [Channels -> [en : BOOLEAN, oneshot : BOOLEAN]]
        /\ ctrl'[c].oneshot = TRUE /\ \A d \in Channels : d # c => ctrl'[d] = ctrl[d]
    BY <1>0, <2>1, <2>2 DEF TimersShape
  <2>4. QED BY <2>1, <2>3, TimersRun DEF Modes
<1>9. ASSUME NEW c \in Channels,
             InstallCallback(c) \/ InstallIsr(c) \/ EnableInterrupt(c) \/ DisableInterrupt(c)
               \/ ClearInterrupt(c) \/ UnmaskVector(c)
      PROVE  TimersInv'
  <2>1. UNCHANGED <<ctrl, modeAsked, shots, wanted, dropped, rearms>>
    BY <1>9 DEF InstallCallback, InstallIsr, EnableInterrupt, DisableInterrupt, ClearInterrupt, UnmaskVector
  <2>2. PICK to \in {"install-isr", "install-enable", "none"} : doing' = [doing EXCEPT ![c] = to]
    BY <1>9 DEF InstallCallback, InstallIsr, EnableInterrupt, DisableInterrupt, ClearInterrupt,
                UnmaskVector, TimerMoves
  <2>3. CASE InstallIsr(c)
    <3>1. /\ doing[c] = "install-isr" /\ doing' = [doing EXCEPT ![c] = "install-enable"]
          /\ isrOf' = [isrOf EXCEPT ![c] = "timer_isr"] /\ UNCHANGED callback
      BY <2>3 DEF InstallIsr, TimerMoves, SetEntry
    <3>2. /\ \A d \in Channels : doing'[d] = IF d = c THEN "install-enable" ELSE doing[d]
          /\ \A d \in Channels : isrOf'[d] = IF d = c THEN "timer_isr" ELSE isrOf[d]
      BY <1>0, <3>1 DEF TimersShape
    <3>3. TimersShape'
      BY <1>0, <2>1, <3>1 DEF TimersShape
    <3>4. ShotsInv' /\ InstallInv' /\ SetUpInv'
      BY <1>0, <2>1, <3>1, <3>2 DEF ShotsInv, InstallInv, SetUpInv, Configuring
    <3>5. QED BY <3>3, <3>4 DEF TimersInv
  <2>4. CASE InstallCallback(c)
    <3>1. callback' = [callback EXCEPT ![c] = TRUE] /\ UNCHANGED isrOf
      BY <2>4 DEF InstallCallback
    <3>2. callback' \in [Channels -> BOOLEAN] /\ callback'[c] /\ \A d \in Channels : callback[d] => callback'[d]
      BY <1>0, <3>1 DEF TimersShape
    <3>3. QED BY <1>0, <2>1, <2>2, <3>1, <3>2, TimersRest DEF TimersShape, Configuring
  <2>5. CASE EnableInterrupt(c) \/ DisableInterrupt(c) \/ ClearInterrupt(c) \/ UnmaskVector(c)
    <3>1. UNCHANGED <<callback, isrOf>> /\ doing' = [doing EXCEPT ![c] = "none"]
      BY <2>5 DEF EnableInterrupt, DisableInterrupt, ClearInterrupt, UnmaskVector, TimerMoves
    <3>2. QED BY <1>0, <2>1, <3>1, TimersRest DEF TimersShape, Configuring
  <2>6. QED BY <1>9, <2>3, <2>4, <2>5
<1>10. CASE SystickInstall
  <2>1. /\ 0 \in Channels /\ doing' = [doing EXCEPT ![0] = "systick-start"]
        /\ isrOf' = [isrOf EXCEPT ![0] = "systick_isr"]
        /\ UNCHANGED <<ctrl, callback, modeAsked, shots, wanted, dropped, rearms>>
    BY <1>10, TimersAssumption DEF SystickInstall, TimerMoves, SetEntry
  <2>2. /\ \A d \in Channels : doing'[d] = IF d = 0 THEN "systick-start" ELSE doing[d]
        /\ \A d \in Channels : isrOf'[d] = IF d = 0 THEN "systick_isr" ELSE isrOf[d]
    BY <1>0, <2>1 DEF TimersShape
  <2>3. TimersShape'
    BY <1>0, <2>1 DEF TimersShape
  <2>4. ShotsInv' /\ InstallInv' /\ SetUpInv'
    BY <1>0, <2>1, <2>2 DEF ShotsInv, InstallInv, SetUpInv, Configuring
  <2>5. QED BY <2>3, <2>4 DEF TimersInv
<1>11. CASE SystickStart
  BY <1>6, <1>11, TimersAssumption DEF SystickStart, TimerMoves, Modes
<1>12. ASSUME NEW c \in Channels, Count(c)
       PROVE  TimersInv'
  <2>1. UNCHANGED <<callback, isrOf, modeAsked, doing, wanted, dropped, rearms>> /\ ctrl[c].en
    BY <1>12 DEF Count
  <2>2. \/ UNCHANGED <<ctrl, shots>>
        \/ /\ shots' = [shots EXCEPT ![c] = IF @ < MaxShots THEN @ + 1 ELSE @]
           /\ IF ctrl[c].oneshot THEN ctrl' = [ctrl EXCEPT ![c].en = FALSE] ELSE UNCHANGED ctrl
    BY <1>12 DEF Count
  <2>3. /\ ctrl' \in [Channels -> [en : BOOLEAN, oneshot : BOOLEAN]]
        /\ shots' \in [Channels -> Nat]
    <3>1. CASE UNCHANGED <<ctrl, shots>>
      BY <1>0, <3>1 DEF TimersShape
    <3>2. CASE /\ shots' = [shots EXCEPT ![c] = IF @ < MaxShots THEN @ + 1 ELSE @]
               /\ IF ctrl[c].oneshot THEN ctrl' = [ctrl EXCEPT ![c].en = FALSE] ELSE UNCHANGED ctrl
      <4>1. shots' \in [Channels -> Nat]
        BY <1>0, <3>2 DEF TimersShape
      <4>2. ctrl' \in [Channels -> [en : BOOLEAN, oneshot : BOOLEAN]]
        BY <1>0, <3>2, ZenonT(60) DEF TimersShape
      <4>3. QED BY <4>1, <4>2
    <3>3. QED BY <2>2, <3>1, <3>2
  <2>4. \A d \in Channels : /\ d # c => ctrl'[d] = ctrl[d] /\ shots'[d] = shots[d]
                            /\ ctrl'[d].oneshot = ctrl[d].oneshot /\ (ctrl'[d].en => ctrl[d].en)
    BY <1>0, <2>2 DEF TimersShape
  <2>5. ctrl[c].oneshot => \/ ~ctrl'[c].en /\ shots'[c] <= shots[c] + 1
                           \/ ctrl'[c] = ctrl[c] /\ shots'[c] = shots[c]
    BY <1>0, <2>2 DEF TimersShape
  <2>6. TimersShape'
    BY <1>0, <2>1, <2>3 DEF TimersShape
  <2>7. ShotsInv'
    <3>1. \A d \in Channels : d # c =>
            /\ ctrl'[d] = ctrl[d] /\ shots'[d] = shots[d]
      BY <2>4
    <3>2. modeAsked[c] = "OneShot" => /\ shots'[c] <= 1
                                      /\ ctrl'[c].en => ctrl'[c].oneshot /\ shots'[c] = 0
      BY <1>0, <2>1, <2>4, <2>5 DEF ShotsInv, TimersShape
    <3>3. QED BY <1>0, <2>1, <2>4, <3>1, <3>2 DEF ShotsInv
  <2>8. InstallInv' /\ SetUpInv'
    BY <1>0, <2>1, <2>4 DEF InstallInv, SetUpInv
  <2>9. QED BY <2>6, <2>7, <2>8 DEF TimersInv
<1>13. ASSUME NEW c \in Channels, TimerIsr(c)
       PROVE  TimersInv'
  <2>1. /\ isrOf[c] = "timer_isr" /\ dropped' = (dropped \/ ~callback[c])
        /\ UNCHANGED <<isrOf, callback, doing, wanted, rearms>>
    BY <1>13 DEF TimerIsr
  <2>2. UNCHANGED dropped
    <3>1. callback[c] = TRUE /\ dropped = FALSE
      BY <1>0, <2>1 DEF InstallInv, TimersShape
    <3>2. QED BY <2>1, <3>1
  <2>3. CASE rearms /\ callback[c]
    <3>1. PICK n \in Intervals : StartRegs(c, n, "OneShot")
      BY <1>13, <2>3 DEF TimerIsr
    <3>2. QED BY <1>6, <2>1, <2>2, <2>3, <3>1 DEF Modes
  <2>4. CASE ~(rearms /\ callback[c])
    <3>1. UNCHANGED <<ctrl, modeAsked, shots>>
      BY <1>13, <2>4 DEF TimerIsr
    <3>2. QED BY <1>0, <2>1, <2>2, <3>1 DEF TimersInv, TimersShape, ShotsInv, InstallInv, SetUpInv
  <2>5. QED BY <2>3, <2>4
<1>14. CASE SystickIsr
  BY <1>0, <1>14 DEF SystickIsr, TimersInv, TimersShape, ShotsInv, InstallInv, SetUpInv
<1>15. QED
  BY <1>1, <1>2, <1>3, <1>4, <1>5, <1>7, <1>8, <1>9, <1>10, <1>11, <1>12, <1>13, <1>14 DEF TimersStep

-----------------------------------------------------------------------------
(* Rates and divisors worked out.                                          *)

\* Powers of two that a divider can be.
LEMMA Powers ==
  ASSUME NEW n \in 0 .. 15
  PROVE  /\ 2 ^ n \in Nat \ {0} /\ 2 ^ (n + 1) \in Nat /\ 2 ^ (n + 1) = 2 * 2 ^ n
<1> DEFINE Twice(k) == 2 ^ k \in Nat \ {0} /\ 2 ^ (k + 1) \in Nat /\ 2 ^ (k + 1) = 2 * 2 ^ k
<1>1. Twice(0) /\ Twice(1) /\ Twice(2) /\ Twice(3) /\ Twice(4) /\ Twice(5) /\ Twice(6) /\ Twice(7)
  BY SMT
<1>2. Twice(8) /\ Twice(9) /\ Twice(10) /\ Twice(11) /\ Twice(12) /\ Twice(13) /\ Twice(14) /\ Twice(15)
  BY SMT
<1>3. \/ n = 0 \/ n = 1 \/ n = 2 \/ n = 3 \/ n = 4 \/ n = 5 \/ n = 6 \/ n = 7
      \/ n = 8 \/ n = 9 \/ n = 10 \/ n = 11 \/ n = 12 \/ n = 13 \/ n = 14 \/ n = 15
  OBVIOUS
<1> HIDE DEF Twice
<1>4. Twice(n)
  BY ONLY <1>1, <1>2, <1>3, SMT
<1>5. QED BY <1>4 DEF Twice

\* A quotient is not above another that is multiplied by the divisor.
LEMMA QuotientBelow ==
  ASSUME NEW S \in Nat \ {0}, NEW a \in Nat, NEW q \in Nat, a < (q + 1) * S
  PROVE  a \div S <= q
<1> DEFINE p == a \div S
<1>1. p \in Nat /\ a = p * S + (a % S) /\ a % S \in Nat
  BY Division
<1> HIDE DEF p
<1>2. CASE q < p
  <2>1. PICK e \in Nat : p = (q + 1) + e
    BY <1>1, <1>2
  <2>2. p * S = (q + 1) * S + e * S /\ e * S \in Nat /\ (q + 1) * S \in Nat
    BY <2>1
  <2>3. QED BY <1>1, <2>2
<1>3. QED BY <1>1, <1>2 DEF p

\* The divider of set_clock brings the rate down to the limit, and not far below.
LEMMA DividerIs ==
  ASSUME NEW src \in Nat \ {0}, NEW limit \in Nat \ {0}, NEW d, d = Divider(src, limit)
  PROVE  d \in Nat /\ d * limit \in Nat /\ src <= d * limit /\ d * limit < src + limit
<1>1. src + limit - 1 \in Nat
  OBVIOUS
<1>2. /\ d \in Nat /\ (src + limit - 1) % limit \in Nat /\ (src + limit - 1) % limit < limit
      /\ src + limit - 1 = d * limit + ((src + limit - 1) % limit)
  BY <1>1, Division DEF Divider
<1>3. d * limit \in Nat
  BY <1>2
<1>4. QED BY <1>2, <1>3

LEMMA TimesKeeps ==
  ASSUME NEW l \in Nat \ {0}, NEW a \in Nat, NEW b \in Nat
  PROVE  /\ l * a \in Nat /\ l * a = a * l
         /\ a <= b => l * a <= l * b
         /\ l * (a + b) = l * a + l * b
<1>1. ASSUME a <= b PROVE l * a <= l * b
  <2>1. PICK e \in Nat : b = a + e
    BY <1>1
  <2>2. l * b = l * a + l * e /\ l * e \in Nat /\ l * a \in Nat
    BY <2>1
  <2>3. QED BY <2>2
<1>2. QED BY <1>1

\* What set_clock leaves.
LEMMA SetClockKeeps == SetClock => RatesKept'
<1> SUFFICES ASSUME SetClock PROVE RatesKept'
  OBVIOUS
<1>1. PICK src \in AhbRates, max \in SpiLimits :
        LET limit  == IF max < BUS_MAX_CLK THEN max ELSE BUS_MAX_CLK
            div    == Divider(src, limit)
            powers == {n \in 0 .. 15 : n = 15 \/ 2 ^ (n + 1) >= div}
        IN  setting' = [of |-> "spi", src |-> src, limit |-> limit, drs |-> div <= 512,
                        n |-> IF div > 512 THEN CHOOSE n \in powers : \A m \in powers : n <= m
                              ELSE IF div < 2 THEN 0 ELSE ((div + 1) \div 2) - 1]
  BY Zenon DEF SetClock
<1> DEFINE limit  == IF max < BUS_MAX_CLK THEN max ELSE BUS_MAX_CLK
           div    == Divider(src, limit)
           powers == {n \in 0 .. 15 : n = 15 \/ 2 ^ (n + 1) >= div}
           num    == IF div > 512 THEN CHOOSE n \in powers : \A m \in powers : n <= m
                     ELSE IF div < 2 THEN 0 ELSE ((div + 1) \div 2) - 1
<1>2. setting' = [of |-> "spi", src |-> src, limit |-> limit, drs |-> div <= 512, n |-> num]
  BY <1>1
<1>3. src \in Nat \ {0} /\ max \in Nat \ {0}
  BY RatesAssumption
<1>4. limit \in Nat \ {0}
  BY <1>3, SMT DEF BUS_MAX_CLK
<1> HIDE DEF limit
<1>5. div \in Nat /\ div * limit \in Nat /\ src <= div * limit /\ div * limit < src + limit
  BY <1>3, <1>4, DividerIs
<1> HIDE DEF div
<1>6. powers \in SUBSET Nat /\ 15 \in powers
  OBVIOUS
<1> DEFINE D == IF div <= 512 THEN 2 * (num + 1) ELSE 2 * 2 ^ (num + 1)
<1> HIDE DEF num
<1>7. /\ setting'.of = "spi" /\ setting'.src = src /\ setting'.limit = limit
      /\ setting'.drs = (div <= 512) /\ setting'.n = num
  BY <1>2, Zenon
<1>8. Divides' = D
  BY <1>7, Zenon DEF Divides
<1> HIDE DEF D
<1>9. ASSUME num \in Nat, num <= (IF div <= 512 THEN 255 ELSE 15),
             (src \div limit) < 2 ^ 17 => src <= limit * D, limit * D <= 4 * (src + limit)
      PROVE  RatesKept'
  <2>1. (src \div limit) < 2 ^ 17 => src <= limit * Divides'
    BY <1>8, <1>9, Zenon
  <2>2. limit * Divides' <= 4 * (src + limit)
    BY <1>8, <1>9, Zenon
  <2>3. setting'.n <= (IF setting'.drs THEN 255 ELSE 15)
    <3> DEFINE wide == 255
               narrow == 15
    <3>1. num <= (IF div <= 512 THEN wide ELSE narrow)
      BY <1>9
    <3> HIDE DEF wide, narrow
    <3>2. setting'.n <= (IF setting'.drs THEN wide ELSE narrow)
      BY <1>7, <3>1, Zenon
    <3>3. QED BY <3>2 DEF wide, narrow
  <2>4. SpiNotFaster'
    BY <1>7, <2>1, <2>2, <2>3, ZenonT(40) DEF SpiNotFaster
  <2>5. QED BY <1>7, <2>4, Zenon DEF RatesKept
<1>10. div >= 1
  BY <1>3, <1>4, <1>5
<1>11. CASE div <= 512
  <2>1. num = IF div < 2 THEN 0 ELSE ((div + 1) \div 2) - 1
    BY <1>5, <1>11 DEF num
  <2>2. num \in 0 .. 255
    BY <1>5, <1>11, <2>1
  <2>3. D = 2 * (num + 1)
    BY <1>11 DEF D
  <2>4. D \in Nat /\ div <= D /\ D <= div + 1
    BY <1>5, <1>10, <1>11, <2>1, <2>2, <2>3
  <2>5. /\ limit * D \in Nat /\ limit * div = div * limit /\ limit * div <= limit * D
        /\ limit * D <= limit * (div + 1) /\ limit * (div + 1) = limit * div + limit
    BY <1>4, <1>5, <2>4, TimesKeeps
  <2>6. src <= limit * D /\ limit * D <= 4 * (src + limit)
    BY <1>3, <1>4, <1>5, <2>5
  <2>7. QED BY <1>9, <1>11, <2>2, <2>6
<1>12. CASE div > 512
  <2>1. num = CHOOSE n \in powers : \A m \in powers : n <= m
    BY <1>12 DEF num
  <2>2. num \in powers /\ \A m \in powers : num <= m
    <3> HIDE DEF powers
    <3>1. QED BY <1>6, <2>1, LeastOf, Zenon
  <2>3. num \in 0 .. 15 /\ (num = 15 \/ 2 ^ (num + 1) >= div)
    BY <2>2
  <2>4. D = 2 * 2 ^ (num + 1)
    BY <1>5, <1>12 DEF D
  <2> DEFINE P == 2 ^ (num + 1)
  <2>5. P \in Nat /\ 2 ^ num \in Nat /\ P = 2 * 2 ^ num
    BY <2>3, Powers
  <2>6. D \in Nat /\ D = 2 * P /\ (num # 15 => P >= div)
    BY <2>3, <2>4, <2>5
  <2>7. D < 4 * div
    <3>1. CASE num = 0
      <4>1. P = 2
        BY ONLY <3>1, SMT
      <4>2. QED BY <1>5, <1>12, <2>6, <4>1
    <3>2. CASE num > 0
      <4>1. num - 1 \in 0 .. 15 /\ num - 1 # 15 /\ ~(num <= num - 1)
        BY <2>3, <3>2
      <4>2. num - 1 \notin powers
        BY <2>2, <4>1
      <4>3. ~(2 ^ ((num - 1) + 1) >= div)
        BY <4>1, <4>2
      <4>4. (num - 1) + 1 = num
        BY <2>3
      <4>5. 2 ^ num < div
        BY <1>5, <2>5, <4>3, <4>4
      <4>6. QED BY <1>5, <2>5, <2>6, <4>5
    <3>3. QED BY <2>3, <3>1, <3>2
  <2>8. num = 15 => D = 2 ^ 17
    <3>1. 2 * 2 ^ (15 + 1) = 2 ^ 17
      BY SMT
    <3>2. QED BY <2>4, <3>1
  <2> HIDE DEF P, powers
  <2>9. /\ limit * D \in Nat /\ limit * div = div * limit
        /\ limit * D <= limit * (4 * div) /\ limit * (4 * div) = 4 * (limit * div)
    <3>1. 4 * div \in Nat /\ D <= 4 * div
      BY <1>5, <2>6, <2>7
    <3>2. limit * D \in Nat /\ limit * div = div * limit /\ limit * D <= limit * (4 * div)
      BY <1>4, <1>5, <2>6, <3>1, TimesKeeps
    <3>3. QED BY <1>4, <1>5, <3>2
  <2>10. limit * D <= 4 * (src + limit)
    BY <1>3, <1>4, <1>5, <2>9
  <2>11. (src \div limit) < 2 ^ 17 => src <= limit * D
    <3>1. CASE num # 15
      <4>1. limit * div <= limit * D
        BY <1>4, <1>5, <2>5, <2>6, <3>1, TimesKeeps
      <4>2. QED BY <1>3, <1>5, <2>9, <4>1
    <3>2. CASE num = 15
      <4>1. D = 2 ^ 17
        BY <2>8, <3>2
      <4>2. /\ src \div limit \in Nat /\ src % limit < limit /\ src % limit \in Nat
            /\ src = (src \div limit) * limit + (src % limit)
        BY <1>3, <1>4, Division
      <4> DEFINE q == src \div limit
      <4> HIDE DEF q
      <4>3. SUFFICES ASSUME q < D PROVE src <= limit * D
        BY <4>1, Zenon DEF q
      <4>4. q \in Nat /\ src < q * limit + limit
        BY <1>3, <1>4, <4>2 DEF q
      <4>5. q + 1 \in Nat /\ q + 1 <= D
        BY <2>6, <4>3, <4>4
      <4>6. limit * (q + 1) <= limit * D /\ limit * (q + 1) = q * limit + limit
        BY <1>4, <2>6, <4>4, <4>5, TimesKeeps
      <4>7. QED BY <1>3, <1>4, <2>9, <4>4, <4>6
    <3>3. QED BY <3>1, <3>2
  <2>12. ~(div <= 512)
    BY <1>5, <1>12
  <2>13. QED BY <1>9, <2>3, <2>10, <2>11, <2>12
<1>13. QED BY <1>5, <1>11, <1>12

\* The prescalers of the table.
LEMMA PrescalerIs ==
  /\ \A idx \in 0 .. 15 : Prescaler(idx) \in Nat
  /\ Prescaler(0) = 120
<1>1. ASSUME NEW idx \in 0 .. 15 PROVE Prescaler(idx) \in Nat
  <2>1. \/ idx = 0 \/ idx = 1 \/ idx = 2 \/ idx = 3 \/ idx = 4 \/ idx = 5 \/ idx = 6 \/ idx = 7
        \/ idx = 8 \/ idx = 9 \/ idx = 10 \/ idx = 11 \/ idx = 12 \/ idx = 13 \/ idx = 14 \/ idx = 15
    OBVIOUS
  <2>2. QED BY <2>1, SMT DEF Prescaler, PRESCALER_TABLE
<1>2. Prescaler(0) = 120
  BY SMT DEF Prescaler, PRESCALER_TABLE
<1>3. QED BY <1>1, <1>2, Zenon

\* An extra factor leaves at most MaxCount cycles.
LEMMA ExtraLeaves ==
  ASSUME NEW div \in Nat, NEW p \in Nat \ {0}, NEW e, e = (div \div (p * (MaxCount + 1))) + 1
  PROVE  e \in Nat \ {0} /\ p * e \in Nat \ {0} /\ div \div (p * e) <= MaxCount
<1> DEFINE w == p * (MaxCount + 1)
           q == div \div w
<1>1. MaxCount \in Nat /\ MaxCount + 1 \in Nat \ {0}
  BY RatesAssumption
<1>2. w \in Nat \ {0}
  BY <1>1, Z3
<1>3. q \in Nat /\ div % w \in Nat /\ div % w < w /\ div = q * w + (div % w)
  BY <1>2, Division
<1>4. e = q + 1
  OBVIOUS
<1> HIDE DEF q
<1>5. e \in Nat \ {0}
  BY <1>3, <1>4
<1>6. p * e \in Nat \ {0}
  BY <1>5, Z3
<1>7. div < w * e
  <2>1. w * e = q * w + w
    BY <1>2, <1>3, <1>4
  <2> HIDE DEF w
  <2>2. QED BY <1>2, <1>3, <2>1
<1>8. w * e = (MaxCount + 1) * (p * e)
  BY <1>1, <1>5
<1>9. div < (MaxCount + 1) * (p * e)
  BY <1>7, <1>8
<1> DEFINE s == p * e
<1> HIDE DEF s
<1>10. div \div s <= MaxCount
  BY <1>1, <1>6, <1>9, QuotientBelow DEF s
<1>11. QED BY <1>5, <1>6, <1>10 DEF s

\* The pulse that is written, of prd counts.
LEMMA DutyIs ==
  ASSUME NEW a \in Nat \ {0}, NEW pulse \in 0 .. a, NEW prd \in 1 .. MaxCount, NEW dty,
         dty = ((prd * pulse) \div a) % MaxCount
  PROVE  /\ dty <= prd
         /\ ~(prd = MaxCount /\ pulse = a) => (prd * pulse) - (dty * a) \in 0 .. a - 1
<1> DEFINE x == prd * pulse
           q == x \div a
<1>0. MaxCount \in Nat \ {0} /\ prd \in Nat \ {0} /\ pulse \in Nat /\ pulse <= a
  BY RatesAssumption
<1>1. x \in Nat /\ prd * a \in Nat /\ x <= prd * a /\ x = prd * pulse
  BY <1>0, TimesKeeps
<1>2. pulse < a => x < prd * a
  <2>1. ASSUME pulse < a PROVE x < prd * a
    <3>1. pulse + 1 <= a /\ pulse + 1 \in Nat
      BY <1>0, <2>1
    <3>2. prd * (pulse + 1) <= prd * a
      BY <1>0, <3>1, TimesKeeps
    <3>3. prd * (pulse + 1) = x + prd
      BY <1>0
    <3>4. QED BY <1>0, <1>1, <3>2, <3>3
  <2>2. QED BY <2>1
<1> HIDE DEF x
<1>3. q \in Nat /\ x % a \in Nat /\ x % a < a /\ x = q * a + (x % a)
  BY <1>1, Division
<1>4. dty = q % MaxCount
  BY DEF x
<1> HIDE DEF q
<1>5. q <= prd
  <2>1. (prd + 1) * a = prd * a + a
    BY <1>0
  <2>2. x < (prd + 1) * a
    BY <1>0, <1>1, <2>1
  <2>3. QED BY <1>0, <1>1, <2>2, QuotientBelow DEF q
<1>6. CASE q < MaxCount
  <2>1. dty = q
    BY <1>0, <1>3, <1>4, <1>6
  <2>2. x - (dty * a) = x % a
    BY <1>3, <2>1
  <2>3. QED BY <1>1, <1>3, <1>5, <2>1, <2>2
<1>7. CASE ~(q < MaxCount)
  <2>1. q = MaxCount /\ prd = MaxCount
    BY <1>0, <1>3, <1>5, <1>7
  <2>2. dty = 0
    BY <1>0, <1>4, <2>1
  <2>3. x >= prd * a
    BY <1>1, <1>3, <2>1
  <2>4. pulse = a
    BY <1>0, <1>1, <1>2, <2>3
  <2>5. QED BY <1>0, <2>1, <2>2, <2>4
<1>8. QED BY <1>6, <1>7

\* What calculate leaves.
LEMMA CalculateKeeps == Calculate => RatesKept'
<1> SUFFICES ASSUME Calculate PROVE RatesKept'
  OBVIOUS
<1>1. PICK div \in PwmPeriods : \E pulse \in {0, div \div 2, div} :
        /\ div # 0 /\ Indices(div) # {}
        /\ setting' = [of |-> "pwm", asked |-> div, pulse |-> pulse, idx |-> Index(div),
                       prd |-> EntireCycles(div),
                       dty |-> ((EntireCycles(div) * pulse) \div div) % MaxCount]
  BY Zenon DEF Calculate
<1>2. PICK pulse \in {0, div \div 2, div} :
        /\ div # 0 /\ Indices(div) # {}
        /\ setting' = [of |-> "pwm", asked |-> div, pulse |-> pulse, idx |-> Index(div),
                       prd |-> EntireCycles(div),
                       dty |-> ((EntireCycles(div) * pulse) \div div) % MaxCount]
  BY <1>1, Zenon
<1> DEFINE idx == Index(div)
           p   == Prescaler(idx)
           e   == Extra(div, idx)
           prd == EntireCycles(div)
           dty == ((prd * pulse) \div div) % MaxCount
<1>3. /\ setting'.of = "pwm" /\ setting'.asked = div /\ setting'.pulse = pulse /\ setting'.idx = idx
      /\ setting'.prd = prd /\ setting'.dty = dty
  BY <1>2, Zenon
<1>4. div \in Nat \ {0} /\ pulse \in 0 .. div
  <2>1. div \in Nat \ {0}
    BY <1>2, RatesAssumption
  <2>2. div \div 2 \in 0 .. div
    BY <2>1
  <2>3. QED BY <2>1, <2>2
<1>5. idx \in Indices(div) /\ \A j \in Indices(div) : idx <= j
  <2>1. Indices(div) \in SUBSET Nat /\ Indices(div) # {}
    BY <1>2 DEF Indices
  <2>2. QED BY <2>1, LeastOf, Zenon DEF Index
<1>6. idx \in 0 .. 15 /\ p \in Nat \ {0}
  BY <1>5, PrescalerIs DEF Indices
<1>7. Scaled(div) = div \div (p * e) /\ e = (div \div (p * (MaxCount + 1))) + 1
  BY Zenon DEF Scaled, Extra
<1> HIDE DEF p, e, idx, prd, dty
<1>8. e \in Nat \ {0} /\ p * e \in Nat \ {0} /\ Scaled(div) <= MaxCount
  BY <1>4, <1>6, <1>7, ExtraLeaves
<1>9. Scaled(div) \in Nat
  BY <1>4, <1>7, <1>8, Division
<1>10. prd = IF Scaled(div) = 0 THEN 1 ELSE Scaled(div)
  BY DEF prd, EntireCycles
<1>11. prd \in 1 .. MaxCount
  BY <1>8, <1>9, <1>10, RatesAssumption
<1>12. /\ dty <= prd
       /\ ~(prd = MaxCount /\ pulse = div) => (prd * pulse) - (dty * div) \in 0 .. div - 1
  BY <1>4, <1>11, DutyIs DEF dty
<1>13. ASSUME div \in 120 .. (120 * MaxCount) + 119
       PROVE  div - (p * prd) \in 0 .. p - 1
  <2> DEFINE w == 120 * (MaxCount + 1)
  <2>0. MaxCount \in Nat /\ w \in Nat \ {0} /\ div < w
    BY <1>13, RatesAssumption
  <2>1. Extra(div, 0) = 1
    <3>1. Extra(div, 0) = (div \div w) + 1
      BY PrescalerIs DEF Extra
    <3> HIDE DEF w
    <3>2. div \div w = 0
      BY <1>4, <2>0
    <3>3. QED BY <3>1, <3>2
  <2>2. 0 \in Indices(div)
    BY <2>1, PrescalerIs DEF Indices
  <2>3. idx = 0
    BY <1>5, <1>6, <2>2
  <2>4. p = 120 /\ e = 1
    BY <2>1, <2>3, PrescalerIs DEF p, e
  <2>5. Scaled(div) = div \div 120
    BY <1>7, <2>4
  <2>6. prd = div \div 120
    BY <1>4, <1>10, <1>13, <2>5
  <2>7. QED BY <1>4, <2>4, <2>6
<1>14. PwmAsAsked'
  BY <1>3, <1>11, <1>12, <1>13, Zenon DEF PwmAsAsked, p
<1>15. "pwm" # "spi"
  OBVIOUS
<1>16. QED BY <1>3, <1>14, <1>15, Zenon DEF RatesKept

LEMMA RatesStart == RatesInit => RatesKept
BY DEF RatesInit, RatesKept

LEMMA RatesSteps == RatesKept /\ [RatesStep]_rateVars => RatesKept'
<1> SUFFICES ASSUME RatesKept, [RatesStep]_rateVars PROVE RatesKept'
  OBVIOUS
<1>1. CASE UNCHANGED rateVars
  <2>1. setting' = setting
    BY <1>1 DEF rateVars
  <2>2. QED BY <2>1 DEF RatesKept, SpiNotFaster, PwmAsAsked, Divides
<1>2. CASE CalculateFails
  <2>1. UNCHANGED rateVars
    BY <1>2 DEF CalculateFails
  <2>2. QED BY <1>1, <2>1
<1>3. QED BY <1>1, <1>2, CalculateKeeps, SetClockKeeps DEF RatesStep

\* Through any calls and interrupts: a timer channel asked for one shot gives no
\* second one, no interrupt is cleared with nobody to tell, and a channel does not run
\* while it is set up (timer.rs:160-345); the buses are in their limits at each step of
\* init_default, and the getters report the ratio asked for at its end (clock.rs:666-701);
\* what set_clock writes is not above what was asked for nor, below the bus rate, under
\* an eighth of it (spi.rs:274-303), and what calculate writes is within a count for the periods that
\* prescaler 120 can count, and in proportion for the pulse (pwm.rs:356-412).  It says
\* nothing of longer or shorter periods, nor of how often a channel interrupts.
THEOREM TimingIsKept == DevicesSpec => []TimingKept
<1>1. DevicesInit => TimersInv /\ TreeInv /\ RatesKept
  BY TimersStart, TreeStart, RatesStart DEF DevicesInit
<1>2. TimersInv /\ [DevicesNext]_deviceVars => TimersInv'
  <2>1. [DevicesNext]_deviceVars => [TimersStep]_timerVars
    BY DEF DevicesNext, Only, deviceVars
  <2>2. QED BY <2>1, TimersKeep
<1>3. TreeInv /\ [DevicesNext]_deviceVars => TreeInv'
  <2>1. [DevicesNext]_deviceVars => [ClockStep]_clockVars
    BY DEF DevicesNext, Only, deviceVars
  <2>2. QED BY <2>1, TreeKept
<1>4. RatesKept /\ [DevicesNext]_deviceVars => RatesKept'
  <2>1. [DevicesNext]_deviceVars => [RatesStep]_rateVars
    BY DEF DevicesNext, Only, deviceVars
  <2>2. QED BY <2>1, RatesSteps
<1>5. TimersInv => TimersKept
  BY DEF TimersInv, ShotsInv, InstallInv, SetUpInv, TimersKept, OneShotIsOne, NoneDropped,
         StillWhileConfigured, Configuring
<1>6. TimersInv /\ TreeInv /\ RatesKept => TimingKept
  BY <1>5, TreeMeans, Zenon DEF TimingKept
<1>7. QED BY <1>1, <1>2, <1>3, <1>4, <1>6, PTL DEF DevicesSpec

-----------------------------------------------------------------------------
(* The UART.                                                               *)

UartShape ==
  /\ solo \in BOOLEAN /\ dlab \in BOOLEAN /\ lostByte \in BOOLEAN /\ rxAsked \in BOOLEAN
  /\ DOMAIN userAt = UartUsers /\ DOMAIN toWrite = UartUsers
  /\ dll \in Nat /\ dlh \in Nat /\ txLevel \in Nat
  /\ divisor \in Nat

\* The divisor and the interrupts are as last asked for.
LineAsAsked ==
  /\ ~dlab /\ (rxAsked <=> ier = 1)
  /\ divisor < Radix * Radix => (dlh * Radix) + dll = divisor

\* One thread is in the driver; what is set so far depends on where it is.
SoloInv ==
  /\ ~lostByte
  /\ \A t, u \in UartUsers : userAt[t] # "out" /\ userAt[u] # "out" => t = u
  /\ \A t \in UartUsers :
       /\ userAt[t] \in {"out", "dlab-on", "dll", "dlh", "dlab-off", "poll", "put"}
       /\ userAt[t] \in {"dlab-on", "dll", "dlh", "dlab-off"} => ier = 0 /\ ~rxAsked
       /\ userAt[t] = "dlab-on" => ~dlab
       /\ userAt[t] \in {"dll", "dlh", "dlab-off"} => dlab
       /\ userAt[t] \in {"dlh", "dlab-off"} => dll = divisor % Radix
       /\ userAt[t] = "dlab-off" => dlh = (divisor \div Radix) % Radix
       /\ userAt[t] = "put" => txLevel < TxDepth
  /\ (\A t \in UartUsers : userAt[t] \in {"out", "poll", "put"}) => LineAsAsked

UartInv == UartShape /\ (solo => SoloInv)

LEMMA HalvesAreNat ==
  ASSUME NEW d \in Nat
  PROVE  (d \div Radix) % Radix \in Nat /\ d % Radix \in Nat
<1>1. Radix \in Nat \ {0}
  BY UartAssumption
<1>2. d \div Radix \in Nat /\ d % Radix \in Nat
  BY <1>1, Division
<1>3. QED BY <1>1, <1>2, Division

\* The two halves make up a divisor that needs no more.
LEMMA HalvesAre ==
  ASSUME NEW d \in Nat, d < Radix * Radix
  PROVE  (((d \div Radix) % Radix) * Radix) + (d % Radix) = d
<1> DEFINE q == d \div Radix
           r == d % Radix
<1>1. Radix \in Nat \ {0}
  BY UartAssumption
<1>2. q \in Nat /\ r \in Nat /\ r < Radix /\ d = q * Radix + r
  BY <1>1, Division
<1> HIDE DEF q, r
<1>3. q < Radix
  <2>1. CASE Radix <= q
    <3>1. Radix * Radix <= q * Radix + 0
      BY <1>1, <1>2, <2>1, InSection
    <3>2. QED BY <1>1, <1>2, <3>1
  <2>2. QED BY <1>1, <1>2, <2>1
<1>4. q % Radix = q
  <2>1. (0 * Radix + q) % Radix = q
    BY <1>1, <1>2, <1>3, QuotientIs
  <2>2. 0 * Radix + q = q
    BY <1>1, <1>2
  <2>3. QED BY <2>1, <2>2
<1>5. (q % Radix) * Radix + r = d /\ q % Radix \in Nat
  BY <1>2, <1>4
<1>6. QED BY <1>2, <1>5 DEF q, r

LEMMA UartStart == UartInit => UartInv
<1> SUFFICES ASSUME UartInit PROVE UartInv
  OBVIOUS
<1>1. Radix \in Nat \ {0} /\ 0 < Radix * Radix
  BY UartAssumption, Z3
<1>2. UartShape
  BY <1>1 DEF UartInit, UartShape
<1>3. SoloInv
  BY <1>1 DEF UartInit, SoloInv, LineAsAsked
<1>4. QED BY <1>2, <1>3 DEF UartInv

\* The thread that moves is the one in the driver.
LEMMA OneMoves ==
  ASSUME UartInv, solo, NEW t \in UartUsers, NEW from, NEW to, UserMoves(t, from, to)
  PROVE  /\ userAt[t] = from /\ userAt'[t] = to
         /\ \A u \in UartUsers : u # t => userAt[u] = "out" /\ userAt'[u] = "out"
         /\ DOMAIN userAt' = UartUsers
BY DEF UartInv, UartShape, SoloInv, UserMoves

\* What a write to the data register leaves.
LEMMA DataWritten ==
  ASSUME UartShape, NEW v \in Nat, WriteData(v)
  PROVE  dll' \in Nat /\ txLevel' \in Nat /\ lostByte' \in BOOLEAN
<1>1. CASE dlab
  BY <1>1 DEF WriteData, UartShape
<1>2. CASE ~dlab
  <2>1. /\ txLevel' = IF txLevel < TxDepth THEN txLevel + 1 ELSE txLevel
        /\ lostByte' = (lostByte \/ txLevel = TxDepth) /\ UNCHANGED dll
    BY <1>2 DEF WriteData
  <2>2. (lostByte \/ txLevel = TxDepth) \in BOOLEAN
    OBVIOUS
  <2>3. QED BY <2>1, <2>2 DEF UartShape
<1>3. QED BY <1>1, <1>2

LEMMA UartKeeps ==
  ASSUME UartInv, [UartStep]_uartVars
  PROVE  UartInv'
<1>0. UartShape /\ (solo => SoloInv)
  BY DEF UartInv
<1>1. CASE UNCHANGED uartVars
  BY <1>1 DEF uartVars, UartInv, UartShape, SoloInv, LineAsAsked
<1>2. CASE Sent
  <2>1. UartShape'
    BY <1>0, <1>2 DEF Sent, UartShape
  <2>2. solo => SoloInv'
    BY <1>0, <1>2, UartAssumption DEF Sent, UartShape, SoloInv, LineAsAsked
  <2>3. QED BY <1>2, <2>1, <2>2 DEF UartInv, Sent
<1>3. ASSUME NEW t \in UartUsers, ConfigureBegin(t)
      PROVE  UartInv'
  <2>1. /\ UserMoves(t, "out", "dlab-on") /\ WriteIer(0) /\ txLevel' = 0 /\ rxAsked' = FALSE
        /\ UNCHANGED <<solo, dlab, dll, toWrite, lostByte>>
    BY <1>3 DEF ConfigureBegin
  <2>2. divisor' \in Nat
    BY <1>3, UartAssumption DEF ConfigureBegin
  <2>3. dlh' \in Nat
    BY <1>0, <2>1 DEF WriteIer, UartShape
  <2>4. UartShape'
    BY <1>0, <2>1, <2>2, <2>3 DEF UartShape, UserMoves
  <2>5. ASSUME solo PROVE SoloInv'
    <3>1. /\ userAt[t] = "out" /\ userAt'[t] = "dlab-on"
          /\ \A u \in UartUsers : u # t => userAt[u] = "out" /\ userAt'[u] = "out"
      BY <2>1, <2>5, OneMoves
    <3>2. ~dlab
      BY <1>0, <2>5, <3>1 DEF SoloInv, LineAsAsked
    <3>3. ier' = 0
      BY <2>1, <3>2 DEF WriteIer
    <3>4. QED BY <1>0, <2>1, <2>5, <3>1, <3>2, <3>3 DEF SoloInv
  <2>6. QED BY <2>1, <2>4, <2>5 DEF UartInv
<1>4. ASSUME NEW t \in UartUsers, DlabOn(t) \/ DlabOff(t) \/ WriteCall(t) \/ TxReady(t)
      PROVE  UartInv'
  <2>1. /\ UNCHANGED <<solo, dll, dlh, ier, txLevel, divisor, rxAsked, lostByte>>
        /\ \/ UserMoves(t, "dlab-on", "dll") /\ dlab' = TRUE
           \/ UserMoves(t, "dlab-off", "out") /\ dlab' = FALSE
           \/ UserMoves(t, "out", "poll") /\ dlab' = dlab
           \/ UserMoves(t, "poll", "put") /\ dlab' = dlab /\ txLevel < TxDepth
    BY <1>4 DEF DlabOn, DlabOff, WriteCall, TxReady
  <2>2. UartShape'
    <3>1. DOMAIN toWrite' = UartUsers /\ DOMAIN userAt' = UartUsers
      BY <1>0, <1>4 DEF DlabOn, DlabOff, WriteCall, TxReady, UserMoves, UartShape
    <3>2. QED BY <1>0, <2>1, <3>1 DEF UartShape
  <2>3. ASSUME solo PROVE SoloInv'
    <3>1. CASE UserMoves(t, "dlab-on", "dll") /\ dlab' = TRUE
      <4>1. /\ userAt[t] = "dlab-on" /\ userAt'[t] = "dll"
            /\ \A u \in UartUsers : u # t => userAt[u] = "out" /\ userAt'[u] = "out"
        BY <2>3, <3>1, OneMoves
      <4>2. QED BY <1>0, <2>1, <2>3, <3>1, <4>1 DEF SoloInv
    <3>2. CASE UserMoves(t, "dlab-off", "out") /\ dlab' = FALSE
      <4>1. /\ userAt[t] = "dlab-off" /\ userAt'[t] = "out"
            /\ \A u \in UartUsers : u # t => userAt[u] = "out" /\ userAt'[u] = "out"
        BY <2>3, <3>2, OneMoves
      <4>2. dll = divisor % Radix /\ dlh = (divisor \div Radix) % Radix /\ ier = 0 /\ ~rxAsked
        BY <1>0, <2>3, <4>1 DEF SoloInv
      <4>3. divisor < Radix * Radix => (dlh * Radix) + dll = divisor
        BY <1>0, <4>2, HalvesAre DEF UartShape
      <4>4. LineAsAsked'
        BY <2>1, <3>2, <4>2, <4>3 DEF LineAsAsked
      <4>5. QED BY <1>0, <2>1, <2>3, <4>1, <4>4 DEF SoloInv
    <3>3. CASE UserMoves(t, "out", "poll") /\ dlab' = dlab
      <4>1. /\ userAt[t] = "out" /\ userAt'[t] = "poll"
            /\ \A u \in UartUsers : u # t => userAt[u] = "out" /\ userAt'[u] = "out"
        BY <2>3, <3>3, OneMoves
      <4>2. LineAsAsked'
        BY <1>0, <2>1, <2>3, <3>3, <4>1 DEF SoloInv, LineAsAsked
      <4>3. QED BY <1>0, <2>1, <2>3, <4>1, <4>2 DEF SoloInv
    <3>4. CASE UserMoves(t, "poll", "put") /\ dlab' = dlab /\ txLevel < TxDepth
      <4>1. /\ userAt[t] = "poll" /\ userAt'[t] = "put"
            /\ \A u \in UartUsers : u # t => userAt[u] = "out" /\ userAt'[u] = "out"
        BY <2>3, <3>4, OneMoves
      <4>2. LineAsAsked'
        BY <1>0, <2>1, <2>3, <3>4, <4>1 DEF SoloInv, LineAsAsked
      <4>3. QED BY <1>0, <2>1, <2>3, <3>4, <4>1, <4>2 DEF SoloInv
    <3>5. QED BY <2>1, <3>1, <3>2, <3>3, <3>4
  <2>4. QED BY <2>1, <2>2, <2>3 DEF UartInv
<1>5. ASSUME NEW t \in UartUsers, SetDll(t)
      PROVE  UartInv'
  <2>1. /\ UserMoves(t, "dll", "dlh")
        /\ IF dlab THEN dll' = divisor % Radix /\ UNCHANGED <<txLevel, lostByte>>
           ELSE WriteData(divisor % Radix)
        /\ UNCHANGED <<solo, dlab, dlh, ier, toWrite, divisor, rxAsked>>
    BY <1>5 DEF SetDll
  <2>2. divisor % Radix \in Nat
    BY <1>0, HalvesAreNat DEF UartShape
  <2>3. dll' \in Nat /\ txLevel' \in Nat /\ lostByte' \in BOOLEAN
    BY <1>0, <2>1, <2>2, DataWritten DEF UartShape
  <2>4. UartShape'
    BY <1>0, <2>1, <2>3 DEF UartShape, UserMoves
  <2>5. ASSUME solo PROVE SoloInv'
    <3>1. /\ userAt[t] = "dll" /\ userAt'[t] = "dlh"
          /\ \A u \in UartUsers : u # t => userAt[u] = "out" /\ userAt'[u] = "out"
      BY <2>1, <2>5, OneMoves
    <3>2. dlab /\ ier = 0 /\ ~rxAsked
      BY <1>0, <2>5, <3>1 DEF SoloInv
    <3>3. QED BY <1>0, <2>1, <2>5, <3>1, <3>2 DEF SoloInv
  <2>6. QED BY <2>1, <2>4, <2>5 DEF UartInv
<1>6. ASSUME NEW t \in UartUsers, SetDlh(t)
      PROVE  UartInv'
  <2>1. /\ UserMoves(t, "dlh", "dlab-off") /\ WriteIer((divisor \div Radix) % Radix)
        /\ UNCHANGED <<solo, dlab, dll, txLevel, toWrite, divisor, rxAsked, lostByte>>
    BY <1>6 DEF SetDlh
  <2>2. (divisor \div Radix) % Radix \in Nat
    BY <1>0, HalvesAreNat DEF UartShape
  <2>3. dlh' \in Nat
    BY <1>0, <2>1, <2>2 DEF UartShape, WriteIer
  <2>4. UartShape'
    BY <1>0, <2>1, <2>3 DEF UartShape, UserMoves
  <2>5. ASSUME solo PROVE SoloInv'
    <3>1. /\ userAt[t] = "dlh" /\ userAt'[t] = "dlab-off"
          /\ \A u \in UartUsers : u # t => userAt[u] = "out" /\ userAt'[u] = "out"
      BY <2>1, <2>5, OneMoves
    <3>2. dlab /\ ier = 0 /\ ~rxAsked /\ dll = divisor % Radix
      BY <1>0, <2>5, <3>1 DEF SoloInv
    <3>3. dlh' = (divisor \div Radix) % Radix /\ ier' = ier
      BY <2>1, <3>2 DEF WriteIer
    <3>4. QED BY <1>0, <2>1, <2>5, <3>1, <3>2, <3>3 DEF SoloInv
  <2>6. QED BY <2>1, <2>4, <2>5 DEF UartInv
<1>7. ASSUME NEW t \in UartUsers, EnableRxInterrupt(t) \/ DisableInterrupts(t)
      PROVE  UartInv'
  <2>1. /\ UserMoves(t, "out", "out") /\ UNCHANGED <<solo, dlab, dll, txLevel, toWrite, divisor, lostByte>>
        /\ \/ WriteIer(1) /\ rxAsked' = TRUE
           \/ WriteIer(0) /\ rxAsked' = FALSE
    BY <1>7 DEF EnableRxInterrupt, DisableInterrupts
  <2>2. UartShape'
    <3>1. dlh' \in Nat /\ rxAsked' \in BOOLEAN
      <4>1. \A v \in {0, 1} : WriteIer(v) => dlh' \in Nat
        BY <1>0 DEF UartShape, WriteIer
      <4>2. QED BY <2>1, <4>1
    <3>2. DOMAIN userAt' = UartUsers
      BY <1>0, <2>1 DEF UartShape, UserMoves
    <3>3. QED BY <1>0, <2>1, <3>1, <3>2 DEF UartShape
  <2>3. ASSUME solo PROVE SoloInv'
    <3>1. /\ userAt[t] = "out" /\ userAt'[t] = "out"
          /\ \A u \in UartUsers : u # t => userAt[u] = "out" /\ userAt'[u] = "out"
      BY <2>1, <2>3, OneMoves
    <3>2. LineAsAsked /\ ~lostByte
      BY <1>0, <2>3, <3>1 DEF SoloInv
    <3>3. LineAsAsked'
      BY <2>1, <3>2 DEF LineAsAsked, WriteIer
    <3>4. \A u \in UartUsers : userAt'[u] = "out"
      BY <3>1
    <3>5. QED BY <2>1, <3>2, <3>3, <3>4 DEF SoloInv
  <2>4. QED BY <2>1, <2>2, <2>3 DEF UartInv
<1>8. ASSUME NEW t \in UartUsers, PutByte(t)
      PROVE  UartInv'
  <2>1. /\ UserMoves(t, "put", IF toWrite[t] = 1 THEN "out" ELSE "poll")
        /\ toWrite' = [toWrite EXCEPT ![t] = @ - 1]
        /\ WriteData(1) /\ UNCHANGED <<solo, dlab, dlh, ier, divisor, rxAsked>>
    BY <1>8 DEF PutByte
  <2>2. UartShape'
    <3>1. dll' \in Nat /\ txLevel' \in Nat /\ lostByte' \in BOOLEAN
      BY <1>0, <2>1, DataWritten
    <3>2. DOMAIN userAt' = UartUsers /\ DOMAIN toWrite' = UartUsers
      BY <1>0, <2>1 DEF UartShape, UserMoves
    <3>3. QED BY <1>0, <2>1, <3>1, <3>2 DEF UartShape
  <2>3. ASSUME solo PROVE SoloInv'
    <3>1. /\ userAt[t] = "put" /\ userAt'[t] \in {"out", "poll"}
          /\ \A u \in UartUsers : u # t => userAt[u] = "out" /\ userAt'[u] = "out"
      BY <2>1, <2>3, OneMoves
    <3>2. LineAsAsked /\ ~lostByte /\ txLevel < TxDepth
      BY <1>0, <2>3, <3>1 DEF SoloInv
    <3>3. UNCHANGED dll /\ ~lostByte'
      BY <1>0, <2>1, <3>2, UartAssumption DEF WriteData, LineAsAsked, UartShape
    <3>4. LineAsAsked'
      BY <2>1, <3>2, <3>3 DEF LineAsAsked
    <3>5. QED BY <3>1, <3>3, <3>4 DEF SoloInv
  <2>4. QED BY <2>1, <2>2, <2>3 DEF UartInv
<1>9. QED
  BY <1>1, <1>2, <1>3, <1>4, <1>5, <1>6, <1>7, <1>8 DEF UartStep

-----------------------------------------------------------------------------
(* The SPI master.                                                         *)

HeadLen == Length(spiCall.head)
TailLen == Length(spiCall.tail)

\* Byte i of the call on the wire, and the i-th byte its caller is given.
OnWire(i) == IF i <= HeadLen THEN Byte(spiCall.head, i) ELSE Byte(spiCall.tail, i - HeadLen)
Answered(i) ==
  IF spiCall.name = "transfer" THEN FF
  ELSE IF i <= spiCall.head.rx THEN i ELSE HeadLen + (i - spiCall.head.rx)

\* The bytes exchanged in the chunks that are over, and those of them that the
\* caller has been given.
Exchanged == (IF part = 1 THEN 0 ELSE IF part = 2 THEN HeadLen ELSE HeadLen + TailLen) + off
Taken ==
  IF part = 1 THEN Smaller(off, spiCall.head.rx)
  ELSE spiCall.head.rx + (IF part = 2 THEN Smaller(off, spiCall.tail.rx) ELSE spiCall.tail.rx)

SpiShape ==
  /\ part \in 1 .. 3 /\ off \in Nat /\ burst \in Nat /\ xch \in Nat /\ late \in Nat
  /\ txFifo \in Seq(Nat) /\ rxFifo \in Seq(Nat) /\ wire \in Seq(Nat) /\ into \in Seq(Nat)
  /\ spiAt \in {"idle", "load", "exchange", "drain", "end"}
  /\ spiAt = "idle" => ~selected /\ wire = <<>> /\ into = <<>> /\ part = 1 /\ off = 0
  /\ spiAt # "idle" => spiCall \in SpiCalls /\ selected = (spiCall.name # "transfer")
  /\ spiAt \in {"load", "exchange", "drain"} => part # 3 /\ off <= Length(Current)
  /\ spiAt \in {"exchange", "drain"} => off + burst <= Length(Current)

WireIs(n) == selected => Len(wire) = n /\ \A i \in 1 .. n : wire[i] = OnWire(i)
IntoIs(n) == Len(into) = n /\ \A i \in 1 .. n : into[i] = Answered(i)

\* With no timeout, between chunks the FIFOs are empty; within one, its bytes are
\* either still in the transmit FIFO or answered in the receive FIFO.
FlowInv ==
  late = 0 =>
    /\ spiAt \in {"idle", "load", "end"} => txFifo = <<>> /\ rxFifo = <<>> /\ xch = 0
    /\ spiAt \in {"load", "end"} => WireIs(Exchanged)
    /\ spiAt # "idle" => IntoIs(Taken)
    /\ spiAt = "end" => part = 3 /\ off = 0
    /\ spiAt = "drain" => xch = 0
    /\ spiAt \in {"exchange", "drain"} =>
         /\ 0 < burst /\ xch + Len(rxFifo) = burst /\ Len(txFifo) = xch
         /\ WireIs(Exchanged + Len(rxFifo))
         /\ \A i \in 1 .. xch : txFifo[i] = OnWire(Exchanged + Len(rxFifo) + i)
         /\ \A i \in 1 .. Len(rxFifo) : rxFifo[i] = IF selected THEN Exchanged + i ELSE FF

SpiInv == SpiShape /\ FlowInv

LEMMA TransferIs ==
  ASSUME NEW x, x.tx \in Seq(Nat), x.rx \in Nat
  PROVE  /\ Length(x) \in Nat /\ x.rx <= Length(x)
         /\ \A i \in Nat \ {0} : Byte(x, i) \in Nat
BY DEF Length, Larger, Byte, FF

LEMMA SpiCallIs ==
  ASSUME NEW k \in SpiCalls
  PROVE  /\ k.head.tx \in Seq(Nat) /\ k.head.rx \in Nat
         /\ k.tail.tx \in Seq(Nat) /\ k.tail.rx \in Nat
<1>1. \A n \in Nat : Bytes(n) \in Seq(Nat)
  BY DEF Bytes
<1>2. \A n \in Nat, m \in Nat : /\ Transfer(Bytes(n), m).tx \in Seq(Nat) /\ Transfer(Bytes(n), m).rx \in Nat
                                /\ Receive(n).tx \in Seq(Nat) /\ Receive(n).rx \in Nat
                                /\ [Send(n) EXCEPT !.rx = 0].tx \in Seq(Nat)
                                /\ [Send(n) EXCEPT !.rx = 0].rx \in Nat
  BY <1>1 DEF Transfer, Receive, Send, FF
<1>3. Nothing.tx \in Seq(Nat) /\ Nothing.rx \in Nat
  BY DEF Nothing, Transfer
<1>4. 0 .. MaxLen \subseteq Nat /\ 1 .. MaxLen \subseteq Nat
  BY SpiAssumption
<1> DEFINE Shape == /\ k.head.tx \in Seq(Nat) /\ k.head.rx \in Nat
                    /\ k.tail.tx \in Seq(Nat) /\ k.tail.rx \in Nat
<1>5. ASSUME NEW name, NEW n \in Nat, NEW m \in Nat,
             k = [name |-> name, head |-> Transfer(Bytes(n), m), tail |-> Nothing]
      PROVE  Shape
  BY <1>2, <1>3, <1>5
<1>6. ASSUME NEW n \in 0 .. MaxLen,
             k = [name |-> "xfer_send", head |-> [Send(n) EXCEPT !.rx = 0], tail |-> Nothing]
      PROVE  Shape
  BY <1>2, <1>3, <1>4, <1>6
<1>7. ASSUME NEW n \in 0 .. MaxLen,
             k = [name |-> "xfer_receive", head |-> IF n = 0 THEN Nothing ELSE Receive(n), tail |-> Nothing]
      PROVE  Shape
  BY <1>2, <1>3, <1>4, <1>7
<1>8. ASSUME NEW n \in 1 .. MaxLen, NEW m \in 0 .. MaxLen,
             k = [name |-> "xfer_cmd_read", head |-> Transfer(Bytes(n), 0),
                  tail |-> IF m = 0 THEN Nothing ELSE Receive(m)]
      PROVE  Shape
  BY <1>2, <1>3, <1>4, <1>8
<1>9. ASSUME NEW n \in 1 .. MaxLen, NEW m \in 0 .. MaxLen,
             k = [name |-> "xfer_cmd_send", head |-> [Send(n) EXCEPT !.rx = 0],
                  tail |-> [Send(m) EXCEPT !.rx = 0]]
      PROVE  Shape
  BY <1>2, <1>4, <1>9
<1>10. QED
  <2>1. \/ \E n \in 0 .. MaxLen, m \in 0 .. MaxLen :
             k = [name |-> "transfer", head |-> Transfer(Bytes(n), m), tail |-> Nothing]
        \/ \E n \in 0 .. MaxLen, m \in 0 .. MaxLen :
             k = [name |-> "xfer", head |-> Transfer(Bytes(n), m), tail |-> Nothing]
        \/ \E n \in 0 .. MaxLen :
             k = [name |-> "xfer_send", head |-> [Send(n) EXCEPT !.rx = 0], tail |-> Nothing]
        \/ \E n \in 0 .. MaxLen :
             k = [name |-> "xfer_receive", head |-> IF n = 0 THEN Nothing ELSE Receive(n), tail |-> Nothing]
        \/ \E n \in 1 .. MaxLen, m \in 0 .. MaxLen :
             k = [name |-> "xfer_cmd_read", head |-> Transfer(Bytes(n), 0),
                  tail |-> IF m = 0 THEN Nothing ELSE Receive(m)]
        \/ \E n \in 1 .. MaxLen, m \in 0 .. MaxLen :
             k = [name |-> "xfer_cmd_send", head |-> [Send(n) EXCEPT !.rx = 0],
                  tail |-> [Send(m) EXCEPT !.rx = 0]]
    BY DEF SpiCalls
  <2> HIDE DEF Shape
  <2>2. Shape
    BY <1>4, <1>5, <1>6, <1>7, <1>8, <1>9, <2>1, Zenon
  <2>3. QED BY <2>2 DEF Shape

LEMMA SpiStart == SpiInit => SpiInv
BY DEF SpiInit, SpiInv, SpiShape, FlowInv

\* The numbers of a call under way.
LEMMA CountsAre ==
  ASSUME SpiShape, spiAt # "idle"
  PROVE  /\ HeadLen \in Nat /\ TailLen \in Nat
         /\ spiCall.head.rx \in Nat /\ spiCall.head.rx <= HeadLen
         /\ spiCall.tail.rx \in Nat /\ spiCall.tail.rx <= TailLen
         /\ Exchanged \in Nat /\ Taken \in Nat
         /\ \A i \in Nat \ {0} : OnWire(i) \in Nat
         /\ Length(Current) \in Nat /\ Current.rx \in Nat
         /\ part = 1 => Current = spiCall.head
         /\ part # 1 => Current = spiCall.tail
<1>1. /\ spiCall.head.tx \in Seq(Nat) /\ spiCall.head.rx \in Nat
      /\ spiCall.tail.tx \in Seq(Nat) /\ spiCall.tail.rx \in Nat
  BY SpiCallIs DEF SpiShape
<1>2. /\ HeadLen \in Nat /\ spiCall.head.rx <= HeadLen
      /\ TailLen \in Nat /\ spiCall.tail.rx <= TailLen
      /\ \A i \in Nat \ {0} : Byte(spiCall.head, i) \in Nat /\ Byte(spiCall.tail, i) \in Nat
  BY <1>1, TransferIs DEF HeadLen, TailLen
<1>3. Exchanged \in Nat /\ Taken \in Nat
  <2>1. part \in 1 .. 3 /\ off \in Nat
    BY DEF SpiShape
  <2>2. Smaller(off, spiCall.head.rx) \in Nat /\ Smaller(off, spiCall.tail.rx) \in Nat
    BY <1>1, <2>1 DEF Smaller
  <2>3. Exchanged \in Nat
    BY <1>2, <2>1 DEF Exchanged
  <2>4. QED BY <1>1, <2>1, <2>2, <2>3 DEF Taken
<1>4. \A i \in Nat \ {0} : OnWire(i) \in Nat
  BY <1>2 DEF OnWire
<1>5. (part = 1 => Current = spiCall.head) /\ (part # 1 => Current = spiCall.tail)
  BY DEF Current
<1>6. Length(Current) \in Nat /\ Current.rx \in Nat
  BY <1>1, <1>2, <1>5 DEF HeadLen, TailLen
<1>7. QED BY <1>1, <1>2, <1>3, <1>4, <1>5, <1>6

\* The FIFO of the next chunk.
LEMMA SpiLoads ==
  ASSUME SpiInv, SpiLoad
  PROVE  SpiInv'
<1>0. SpiShape /\ FlowInv
  BY DEF SpiInv
<1>1. /\ spiAt = "load" /\ part <= 2 /\ off < Length(Current)
      /\ burst' = Chunk /\ xch' = Chunk
      /\ txFifo' = txFifo \o [i \in 1 .. Chunk |-> Byte(Current, off + i)]
      /\ spiAt' = "exchange"
      /\ UNCHANGED <<selected, spiCall, part, off, rxFifo, wire, into, verdict, late>>
  BY DEF SpiLoad
<1>2. /\ HeadLen \in Nat /\ Exchanged \in Nat /\ Length(Current) \in Nat
      /\ part = 1 => Current = spiCall.head
      /\ part # 1 => Current = spiCall.tail
      /\ \A i \in Nat \ {0} : OnWire(i) \in Nat
  BY <1>0, <1>1, CountsAre
<1>3. off \in Nat /\ part \in {1, 2}
  BY <1>0, <1>1 DEF SpiShape
<1>4. Chunk \in Nat /\ 0 < Chunk /\ off + Chunk <= Length(Current)
  BY <1>1, <1>2, <1>3, SpiAssumption DEF Chunk, Smaller
<1> DEFINE n == Chunk
           piece == [i \in 1 .. n |-> Byte(Current, off + i)]
<1> HIDE DEF n
<1>5. \A i \in 1 .. n : Byte(Current, off + i) = OnWire(Exchanged + i) /\ OnWire(Exchanged + i) \in Nat
  <2>1. SUFFICES ASSUME NEW i \in 1 .. n
                 PROVE  Byte(Current, off + i) = OnWire(Exchanged + i) /\ OnWire(Exchanged + i) \in Nat
    OBVIOUS
  <2>2. i \in Nat \ {0} /\ Exchanged + i \in Nat \ {0} /\ off + i <= Length(Current)
    BY <1>2, <1>3, <1>4 DEF n
  <2>3. CASE part = 1
    <3>1. Exchanged = off /\ Length(Current) = HeadLen
      BY <1>2, <1>3, <2>3 DEF Exchanged, HeadLen
    <3>2. QED BY <1>2, <2>2, <2>3, <3>1 DEF OnWire
  <2>4. CASE part = 2
    <3>1. Exchanged = HeadLen + off
      BY <1>2, <1>3, <2>4 DEF Exchanged
    <3>2. ~(HeadLen + off + i <= HeadLen) /\ (HeadLen + off + i) - HeadLen = off + i
      BY <1>2, <1>3, <2>2
    <3>3. QED BY <1>2, <2>2, <2>4, <3>1, <3>2 DEF OnWire
  <2>5. QED BY <1>3, <2>3, <2>4
<1>6. piece \in Seq(Nat) /\ Len(piece) = n /\ \A i \in 1 .. n : piece[i] = OnWire(Exchanged + i)
  <2>1. n \in Nat
    BY <1>4 DEF n
  <2>2. piece \in [1 .. n -> Nat]
    BY <1>5
  <2>3. QED BY <1>5, <2>1, <2>2
<1> HIDE DEF piece
<1>7. txFifo' = txFifo \o piece
  BY <1>1 DEF n, piece
<1>8. SpiShape'
  <2>1. txFifo' \in Seq(Nat)
    BY <1>0, <1>6, <1>7 DEF SpiShape
  <2>2. Current' = Current
    BY <1>1 DEF Current
  <2>3. Length(Current)' = Length(Current)
    BY <2>2 DEF Length
  <2>4. QED BY <1>0, <1>1, <1>3, <1>4, <2>1, <2>3 DEF SpiShape
<1>9. FlowInv'
  <2>1. SUFFICES ASSUME late = 0
                 PROVE  FlowInv'
    BY <1>1 DEF FlowInv
  <2>2. txFifo = <<>> /\ rxFifo = <<>> /\ xch = 0 /\ WireIs(Exchanged) /\ IntoIs(Taken)
    BY <1>0, <1>1, <2>1 DEF FlowInv
  <2>3. txFifo' = piece
    BY <1>6, <1>7, <2>2
  <2>4. Exchanged' = Exchanged /\ Taken' = Taken /\ \A i : OnWire(i)' = OnWire(i) /\ Answered(i)' = Answered(i)
    BY <1>1 DEF Exchanged, Taken, OnWire, Answered, HeadLen, TailLen
  <2>6. WireIs(Exchanged + Len(rxFifo))'
    <3>1. Len(rxFifo') = 0 /\ Exchanged + 0 = Exchanged
      BY <1>1, <1>2, <2>2
    <3>2. QED BY <1>1, <2>2, <2>4, <3>1 DEF WireIs
  <2>7. IntoIs(Taken)'
    BY <1>1, <2>2, <2>4 DEF IntoIs
  <2>8. xch' = n /\ burst' = n /\ Len(rxFifo') = 0 /\ Len(txFifo') = n /\ n \in Nat /\ 0 < n
    BY <1>1, <1>4, <1>6, <2>2, <2>3 DEF n
  <2>9. \A i \in 1 .. xch' : txFifo'[i] = OnWire(Exchanged + Len(rxFifo) + i)'
    <3>1. \A i \in 1 .. n : Exchanged' + Len(rxFifo') + i = Exchanged + i
      BY <1>2, <2>4, <2>8
    <3>2. QED BY <1>6, <2>3, <2>4, <2>8, <3>1
  <2>10. QED BY <1>1, <2>6, <2>7, <2>8, <2>9 DEF FlowInv
<1>10. QED BY <1>8, <1>9 DEF SpiInv

\* The controller exchanges a byte.
LEMMA SpiShifts ==
  ASSUME SpiInv, SpiShift
  PROVE  SpiInv'
<1>0. SpiShape /\ FlowInv
  BY DEF SpiInv
<1> DEFINE byte == IF txFifo = <<>> THEN 0 ELSE Head(txFifo)
<1>1. /\ xch > 0 /\ xch' = xch - 1
      /\ txFifo' = IF txFifo = <<>> THEN <<>> ELSE Tail(txFifo)
      /\ IF selected
         THEN wire' = Append(wire, byte) /\ rxFifo' = Append(rxFifo, Len(wire) + 1)
         ELSE UNCHANGED wire /\ rxFifo' = Append(rxFifo, FF)
      /\ UNCHANGED <<selected, spiCall, spiAt, part, off, burst, into, verdict, late>>
  BY DEF SpiShift
<1>2. txFifo \in Seq(Nat) /\ rxFifo \in Seq(Nat) /\ wire \in Seq(Nat) /\ xch \in Nat
  BY <1>0 DEF SpiShape
<1>3. byte \in Nat
  BY <1>2
<1> HIDE DEF byte
<1>a. PICK v \in Nat : rxFifo' = Append(rxFifo, v) /\ v = IF selected THEN Len(wire) + 1 ELSE FF
  BY <1>1, <1>2 DEF FF
<1>b. /\ rxFifo' \in Seq(Nat) /\ Len(rxFifo') = Len(rxFifo) + 1 /\ rxFifo'[Len(rxFifo) + 1] = v
      /\ \A i \in 1 .. Len(rxFifo) : rxFifo'[i] = rxFifo[i]
  BY <1>2, <1>a, AppendProperties
<1>c. ASSUME selected
      PROVE  /\ wire' \in Seq(Nat) /\ Len(wire') = Len(wire) + 1 /\ wire'[Len(wire) + 1] = byte
             /\ \A i \in 1 .. Len(wire) : wire'[i] = wire[i]
  <2>1. wire' = Append(wire, byte)
    BY <1>1, <1>c
  <2>2. QED BY <1>2, <1>3, <2>1, AppendProperties
<1>4. Current' = Current /\ Length(Current)' = Length(Current)
  BY <1>1 DEF Current, Length
<1>5. SpiShape'
  <2>1. txFifo' \in Seq(Nat) /\ xch' \in Nat
    BY <1>1, <1>2
  <2>2. rxFifo' \in Seq(Nat) /\ wire' \in Seq(Nat)
    BY <1>1, <1>2, <1>b, <1>c
  <2>3. spiAt = "idle" => wire' = <<>>
    BY <1>0, <1>1 DEF SpiShape
  <2>4. QED BY <1>0, <1>1, <1>4, <2>1, <2>2, <2>3 DEF SpiShape
<1>6. FlowInv'
  <2>1. SUFFICES ASSUME late = 0
                 PROVE  FlowInv'
    BY <1>1 DEF FlowInv
  <2>2. spiAt = "exchange"
    BY <1>0, <1>1, <1>2, <2>1 DEF FlowInv, SpiShape
  <2> DEFINE e == Exchanged
             r == Len(rxFifo)
  <2>3. /\ 0 < burst /\ xch + r = burst /\ Len(txFifo) = xch
        /\ WireIs(e + r) /\ IntoIs(Taken)
        /\ \A i \in 1 .. xch : txFifo[i] = OnWire(e + r + i)
        /\ \A i \in 1 .. r : rxFifo[i] = IF selected THEN e + i ELSE FF
    BY <1>0, <2>1, <2>2 DEF FlowInv
  <2>4. e \in Nat /\ r \in Nat
    BY <1>0, <1>2, <2>2, CountsAre
  <2>5. Exchanged' = e /\ Taken' = Taken /\ \A i : OnWire(i)' = OnWire(i) /\ Answered(i)' = Answered(i)
    BY <1>1 DEF Exchanged, Taken, OnWire, Answered, HeadLen, TailLen
  <2> HIDE DEF e, r
  <2>6. txFifo # <<>> /\ txFifo' = Tail(txFifo) /\ byte = txFifo[1] /\ byte = OnWire(e + r + 1)
    BY <1>1, <1>2, <2>3 DEF byte
  <2>7. Len(txFifo') = xch' /\ \A i \in 1 .. xch' : txFifo'[i] = txFifo[i + 1]
    BY <1>1, <1>2, <2>3, <2>6
  <2>8. Len(rxFifo') = r + 1 /\ \A i \in 1 .. r : rxFifo'[i] = rxFifo[i]
    BY <1>b DEF r
  <2>9. rxFifo'[r + 1] = IF selected THEN e + (r + 1) ELSE FF
    <3>1. selected => Len(wire) = e + r
      BY <2>3 DEF WireIs
    <3>2. rxFifo'[r + 1] = v
      BY <1>b DEF r
    <3>3. selected => v = e + r + 1 /\ e + r + 1 = e + (r + 1)
      BY <1>a, <2>4, <3>1
    <3>4. ~selected => v = FF
      BY <1>a
    <3>5. QED BY <3>2, <3>3, <3>4
  <2>10. \A i \in 1 .. Len(rxFifo') : rxFifo'[i] = IF selected' THEN Exchanged' + i ELSE FF
    <3>1. \A i \in 1 .. r + 1 : i \in 1 .. r \/ i = r + 1
      BY <2>4
    <3>2. QED BY <1>1, <2>3, <2>5, <2>8, <2>9, <3>1
  <2>11. WireIs(Exchanged + Len(rxFifo))'
    <3>1. SUFFICES ASSUME selected
                   PROVE  /\ Len(wire') = e + (r + 1)
                          /\ \A i \in 1 .. e + (r + 1) : wire'[i] = OnWire(i)
      BY <1>1, <2>5, <2>8 DEF WireIs
    <3>2. Len(wire) = e + r /\ \A i \in 1 .. e + r : wire[i] = OnWire(i)
      BY <2>3, <3>1 DEF WireIs
    <3>3. byte = OnWire(e + r + 1)
      BY <2>6
    <3>4. Len(wire') = e + (r + 1) /\ wire'[e + r + 1] = OnWire(e + r + 1) /\ \A i \in 1 .. e + r : wire'[i] = wire[i]
      BY <1>c, <2>4, <3>1, <3>2, <3>3
    <3>5. \A i \in 1 .. e + (r + 1) : i \in 1 .. e + r \/ i = e + r + 1
      BY <2>4
    <3>6. QED BY <3>2, <3>4, <3>5
  <2>12. \A i \in 1 .. xch' : txFifo'[i] = OnWire(Exchanged + Len(rxFifo) + i)'
    <3>1. \A i \in 1 .. xch' : /\ i + 1 \in 1 .. xch
                               /\ Exchanged' + Len(rxFifo') + i = e + r + (i + 1)
      <4>1. xch' = xch - 1 /\ Exchanged' = e /\ Len(rxFifo') = r + 1
        BY <1>1, <2>5, <2>8
      <4>2. QED BY ONLY <1>2, <2>4, <4>1
    <3>2. QED BY <2>3, <2>5, <2>7, <3>1
  <2>13. IntoIs(Taken)'
    BY <1>1, <2>3, <2>5 DEF IntoIs
  <2>14. xch' + Len(rxFifo') = burst' /\ 0 < burst'
    BY <1>1, <1>2, <2>3, <2>4, <2>8
  <2>15. QED BY <1>1, <2>2, <2>7, <2>10, <2>11, <2>12, <2>13, <2>14 DEF FlowInv
<1>7. QED BY <1>5, <1>6 DEF SpiInv

\* The chunk is drained into the caller's buffer.
LEMMA SpiDrains ==
  ASSUME SpiInv, SpiDrain
  PROVE  SpiInv'
<1>0. SpiShape /\ FlowInv
  BY DEF SpiInv
<1> DEFINE n == Smaller(burst, Larger(Current.rx, off) - off)
<1>1. /\ spiAt = "drain" /\ Len(rxFifo) >= burst
      /\ into' = into \o SubSeq(rxFifo, 1, n)
      /\ rxFifo' = SubSeq(rxFifo, burst + 1, Len(rxFifo))
      /\ off' = off + burst /\ spiAt' = "load"
      /\ UNCHANGED <<selected, spiCall, part, burst, txFifo, xch, wire, verdict, late>>
  BY DEF SpiDrain
<1>2. /\ rxFifo \in Seq(Nat) /\ into \in Seq(Nat) /\ off \in Nat /\ burst \in Nat /\ part \in {1, 2}
      /\ HeadLen \in Nat /\ Exchanged \in Nat /\ Taken \in Nat /\ Length(Current) \in Nat /\ Current.rx \in Nat
      /\ spiCall.head.rx \in Nat /\ spiCall.head.rx <= HeadLen /\ spiCall.tail.rx \in Nat
      /\ part = 1 => Current = spiCall.head
      /\ part # 1 => Current = spiCall.tail
  BY <1>0, <1>1, CountsAre DEF SpiShape
<1>3. /\ n \in Nat /\ n <= burst /\ (n = 0 \/ off + n <= Current.rx)
      /\ Smaller(off + burst, Current.rx) = Smaller(off, Current.rx) + n
  <2>1. CASE off <= Current.rx
    <3>1. n = Smaller(burst, Current.rx - off) /\ Current.rx - off \in Nat
      BY <1>2, <2>1 DEF Larger
    <3>2. QED BY <1>2, <2>1, <3>1 DEF Smaller
  <2>2. CASE ~(off <= Current.rx)
    <3>1. n = Smaller(burst, off - off) /\ off - off = 0
      BY <1>2, <2>2 DEF Larger
    <3>2. QED BY <1>2, <2>2, <3>1 DEF Smaller
  <2>3. QED BY <2>1, <2>2
<1> HIDE DEF n
<1> DEFINE piece == SubSeq(rxFifo, 1, n)
<1>4. piece \in Seq(Nat) /\ Len(piece) = n /\ \A i \in 1 .. n : piece[i] = rxFifo[i]
  <2>1. 1 \in 1 .. Len(rxFifo) + 1 /\ n \in 0 .. Len(rxFifo)
    BY <1>1, <1>2, <1>3
  <2>2. piece \in Seq(Nat) /\ Len(piece) = n
    BY <1>2, <1>3, <2>1
  <2>3. \A i \in 1 .. n : piece[i] = rxFifo[i]
    BY <1>2, <1>3, <2>1
  <2>4. QED BY <2>2, <2>3
<1> HIDE DEF piece
<1>5. /\ into' = into \o piece /\ into' \in Seq(Nat) /\ Len(into') = Len(into) + n
      /\ \A i \in 1 .. Len(into) : into'[i] = into[i]
      /\ \A i \in 1 .. n : into'[Len(into) + i] = rxFifo[i]
  <2>1. into' = into \o piece
    BY <1>1 DEF piece
  <2>2. into' \in Seq(Nat) /\ Len(into') = Len(into) + n
    BY <1>2, <1>4, <2>1, ConcatProperties
  <2>3. \A i \in 1 .. Len(into) + n :
           into'[i] = IF i <= Len(into) THEN into[i] ELSE piece[i - Len(into)]
    BY <1>2, <1>3, <1>4, <2>1
  <2>4. \A i \in 1 .. Len(into) : i \in 1 .. Len(into) + n /\ i <= Len(into)
    BY <1>2, <1>3
  <2>5. \A i \in 1 .. n : /\ Len(into) + i \in 1 .. Len(into) + n /\ ~(Len(into) + i <= Len(into))
                          /\ (Len(into) + i) - Len(into) = i
    BY <1>2, <1>3
  <2>6. QED BY <1>4, <2>1, <2>2, <2>3, <2>4, <2>5
<1>6. rxFifo' \in Seq(Nat)
  <2>1. /\ burst + 1 \in Int /\ Len(rxFifo) \in Int
        /\ \A i \in burst + 1 .. Len(rxFifo) : rxFifo[i] \in Nat
    <3>1. \A i \in burst + 1 .. Len(rxFifo) : i \in 1 .. Len(rxFifo)
      BY <1>2
    <3>2. \A i \in 1 .. Len(rxFifo) : rxFifo[i] \in Nat
      BY <1>2, ElementOfSeq, Zenon
    <3>3. burst + 1 \in Int /\ Len(rxFifo) \in Int
      BY <1>2
    <3>4. QED BY <3>1, <3>2, <3>3, Zenon
  <2>2. SubSeq(rxFifo, burst + 1, Len(rxFifo)) \in Seq(Nat)
    BY <2>1, SubSeqProperties, Zenon
  <2>3. QED BY <1>1, <2>2, Zenon
<1>7. off + burst <= Length(Current)
  BY <1>0, <1>1 DEF SpiShape
<1>8. Current' = Current /\ Length(Current)' = Length(Current)
  BY <1>1 DEF Current, Length
<1>9. SpiShape'
  <2>1. off' \in Nat
    BY <1>1, <1>2
  <2>2. off' <= Length(Current)'
    BY <1>1, <1>7, <1>8
  <2>3. QED BY <1>0, <1>1, <1>5, <1>6, <2>1, <2>2 DEF SpiShape
<1>10. FlowInv'
  <2>1. SUFFICES ASSUME late = 0
                 PROVE  FlowInv'
    BY <1>1 DEF FlowInv
  <2>2. /\ xch = 0 /\ xch + Len(rxFifo) = burst /\ Len(txFifo) = xch
        /\ WireIs(Exchanged + Len(rxFifo)) /\ IntoIs(Taken)
        /\ \A i \in 1 .. Len(rxFifo) : rxFifo[i] = IF selected THEN Exchanged + i ELSE FF
    BY <1>0, <1>1, <2>1 DEF FlowInv
  <2>3. Len(rxFifo) = burst /\ txFifo = <<>> /\ rxFifo' = <<>> /\ xch' = 0
    BY <1>0, <1>1, <1>2, <2>2 DEF SpiShape
  <2>4. /\ \A i : OnWire(i)' = OnWire(i) /\ Answered(i)' = Answered(i)
        /\ Exchanged' = Exchanged + burst
    BY <1>1, <1>2 DEF Exchanged, OnWire, Answered, HeadLen, TailLen
  <2>5. WireIs(Exchanged)'
    BY <1>1, <2>2, <2>3, <2>4 DEF WireIs
  <2>6. Taken' = Taken + n
    <3>1. Smaller(off + burst, Current.rx) = Smaller(off, Current.rx) + n
      BY <1>3
    <3>2. CASE part = 1
      <4>1. Taken' = Smaller(off', spiCall'.head.rx) /\ Taken = Smaller(off, spiCall.head.rx)
        BY <1>1, <3>2 DEF Taken
      <4>2. off' = off + burst /\ spiCall'.head.rx = Current.rx /\ spiCall.head.rx = Current.rx
        BY <1>1, <1>2, <3>2
      <4>3. QED BY <3>1, <4>1, <4>2
    <3>3. CASE part = 2
      <4>1. /\ Taken' = spiCall'.head.rx + Smaller(off', spiCall'.tail.rx)
            /\ Taken = spiCall.head.rx + Smaller(off, spiCall.tail.rx)
        BY <1>1, <3>3 DEF Taken
      <4>2. /\ off' = off + burst /\ spiCall'.tail.rx = Current.rx /\ spiCall.tail.rx = Current.rx
            /\ spiCall'.head.rx = spiCall.head.rx
        BY <1>1, <1>2, <3>3
      <4>3. Smaller(off, Current.rx) \in Nat
        BY <1>2 DEF Smaller
      <4>4. QED BY <1>2, <1>3, <3>1, <4>1, <4>2, <4>3
    <3>4. QED BY <1>2, <3>2, <3>3
  <2>7. \A i \in 1 .. n : rxFifo[i] = Answered(Taken + i)
    <3>1. SUFFICES ASSUME NEW i \in 1 .. n PROVE rxFifo[i] = Answered(Taken + i)
      OBVIOUS
    <3>2. i \in Nat /\ 1 <= i /\ i <= n /\ off + n <= Current.rx /\ i \in 1 .. Len(rxFifo)
      BY <1>2, <1>3, <2>3
    <3>3. rxFifo[i] = IF spiCall.name # "transfer" THEN Exchanged + i ELSE FF
      BY <1>0, <1>1, <2>2, <3>2 DEF SpiShape
    <3>4. CASE part = 1
      <4>1. Taken = off /\ Exchanged = off
        BY <1>2, <1>3, <3>2, <3>4 DEF Taken, Exchanged, Smaller
      <4>2. off + i <= spiCall.head.rx
        BY <1>2, <1>3, <3>2, <3>4
      <4>3. QED BY <3>3, <4>1, <4>2 DEF Answered
    <3>5. CASE part = 2
      <4>1. Taken = spiCall.head.rx + off /\ Exchanged = HeadLen + off
        <5>1. spiCall.tail.rx = Current.rx /\ off <= Current.rx
          BY <1>2, <1>3, <3>2, <3>5
        <5>2. Smaller(off, spiCall.tail.rx) = off
          BY ONLY <5>1 DEF Smaller
        <5>3. QED BY <3>5, <5>2 DEF Taken, Exchanged
      <4>2. /\ ~(spiCall.head.rx + off + i <= spiCall.head.rx)
            /\ HeadLen + ((spiCall.head.rx + off + i) - spiCall.head.rx) = HeadLen + off + i
        <5>1. \A a, b, c, h \in Nat : 1 <= c => ~(a + b + c <= a) /\ h + ((a + b + c) - a) = h + b + c
          OBVIOUS
        <5>2. spiCall.head.rx \in Nat /\ off \in Nat /\ i \in Nat /\ HeadLen \in Nat /\ 1 <= i
          BY <1>2, <3>2
        <5>3. QED BY ONLY <5>1, <5>2
      <4>3. QED BY <3>3, <4>1, <4>2 DEF Answered
    <3>6. QED BY <1>2, <3>4, <3>5
  <2>8. IntoIs(Taken)'
    <3>1. SUFFICES ASSUME NEW i \in 1 .. Taken + n PROVE into'[i] = Answered(i)
      BY <1>5, <2>2, <2>4, <2>6 DEF IntoIs
    <3>2. Len(into) = Taken /\ \A j \in 1 .. Taken : into[j] = Answered(j)
      BY <2>2 DEF IntoIs
    <3>3. CASE i <= Taken
      <4>1. i \in 1 .. Taken
        BY <1>2, <1>3, <3>3
      <4>2. QED BY <1>5, <3>2, <4>1
    <3>4. CASE ~(i <= Taken)
      <4>1. i - Taken \in 1 .. n /\ Taken + (i - Taken) = i
        BY <1>2, <1>3, <3>4
      <4>2. QED BY <1>5, <2>7, <3>2, <4>1
    <3>5. QED BY <3>3, <3>4
  <2>9. QED BY <1>1, <2>3, <2>5, <2>8 DEF FlowInv
<1>11. QED BY <1>9, <1>10 DEF SpiInv

LEMMA SpiKeeps ==
  ASSUME SpiInv, [SpiStep]_spiVars
  PROVE  SpiInv'
<1>0. SpiShape /\ FlowInv
  BY DEF SpiInv
<1>1. CASE UNCHANGED spiVars
  <2>1. /\ UNCHANGED <<selected, spiCall, spiAt, part, off, burst, txFifo, rxFifo, xch, wire, into, late>>
        /\ Current' = Current /\ Length(Current)' = Length(Current)
        /\ Exchanged' = Exchanged /\ Taken' = Taken
        /\ \A i : OnWire(i)' = OnWire(i) /\ Answered(i)' = Answered(i)
    BY <1>1 DEF spiVars, Current, Length, Exchanged, Taken, OnWire, Answered, HeadLen, TailLen
  <2>2. SpiShape'
    BY <1>0, <2>1 DEF SpiShape
  <2>3. /\ WireIs(Exchanged)' = WireIs(Exchanged) /\ IntoIs(Taken)' = IntoIs(Taken)
        /\ WireIs(Exchanged + Len(rxFifo))' = WireIs(Exchanged + Len(rxFifo))
    BY <2>1 DEF WireIs, IntoIs
  <2>4. FlowInv'
    BY <1>0, <2>1, <2>3 DEF FlowInv
  <2>5. QED BY <2>2, <2>4 DEF SpiInv
<1>2. CASE SpiBegin
  <2>1. /\ spiAt = "idle" /\ spiAt' = "load" /\ part' = 1 /\ off' = 0
        /\ spiCall' \in SpiCalls /\ selected' = (spiCall'.name # "transfer")
        /\ late' = IF late = 0 THEN 0 ELSE late + 1
        /\ UNCHANGED <<burst, txFifo, rxFifo, xch, wire, into>>
    BY <1>2 DEF SpiBegin
  <2>2. /\ Current' = spiCall'.head /\ Length(Current)' \in Nat
        /\ spiCall'.head.rx \in Nat
    <3>1. Current' = spiCall'.head
      BY <2>1 DEF Current
    <3>2. Current'.tx \in Seq(Nat) /\ Current'.rx \in Nat
      BY <2>1, <3>1, SpiCallIs
    <3>3. QED BY <3>1, <3>2, TransferIs DEF Length
  <2>3. SpiShape'
    BY <1>0, <2>1, <2>2 DEF SpiShape
  <2>4. Exchanged' = 0 /\ Taken' = 0
    BY <2>1, <2>2 DEF Exchanged, Taken, Smaller
  <2>5. late' = 0 => late = 0
    BY <1>0, <2>1 DEF SpiShape
  <2>6. wire' = <<>> /\ into' = <<>>
    BY <1>0, <2>1 DEF SpiShape
  <2>7. WireIs(Exchanged)' /\ IntoIs(Taken)'
    BY <2>4, <2>6 DEF WireIs, IntoIs
  <2>8. FlowInv'
    BY <1>0, <2>1, <2>5, <2>7 DEF FlowInv
  <2>9. QED BY <2>3, <2>8 DEF SpiInv
<1>3. CASE SpiNextPart
  <2>1. /\ spiAt = "load" /\ part <= 2 /\ off >= Length(Current)
        /\ part' = part + 1 /\ off' = 0
        /\ spiAt' = IF part = 2 THEN "end" ELSE "load"
        /\ UNCHANGED <<selected, spiCall, burst, txFifo, rxFifo, xch, wire, into, late>>
    BY <1>3 DEF SpiNextPart
  <2>2. /\ HeadLen \in Nat /\ TailLen \in Nat /\ spiCall.head.rx \in Nat /\ spiCall.head.rx <= HeadLen
        /\ spiCall.tail.rx \in Nat /\ spiCall.tail.rx <= TailLen
        /\ part = 1 => Current = spiCall.head
        /\ part # 1 => Current = spiCall.tail
        /\ Length(Current) \in Nat
    BY <1>0, <2>1, CountsAre
  <2>3. part \in {1, 2} /\ off \in Nat /\ off = Length(Current)
    BY <1>0, <2>1, <2>2 DEF SpiShape
  <2>4. HeadLen' = HeadLen /\ TailLen' = TailLen /\ \A i : OnWire(i)' = OnWire(i) /\ Answered(i)' = Answered(i)
    BY <2>1 DEF OnWire, Answered, HeadLen, TailLen
  <2>5. SpiShape'
    <3>1. part = 1 => Current' = spiCall.tail
      BY <2>1 DEF Current
    <3>2. part = 1 => Length(Current)' = TailLen
      BY <3>1 DEF Length, TailLen
    <3>3. part' \in 1 .. 3 /\ (part = 1 => part' # 3 /\ off' <= Length(Current)')
      BY <2>1, <2>2, <2>3, <3>2
    <3>4. QED BY <1>0, <2>1, <2>3, <3>3 DEF SpiShape
  <2>6. Exchanged' = Exchanged /\ Taken' = Taken
    <3>1. CASE part = 1
      <4>1. off = HeadLen /\ part' = 2
        BY <2>1, <2>2, <2>3, <3>1 DEF HeadLen
      <4>2. Exchanged = HeadLen /\ Exchanged' = HeadLen
        BY <2>1, <2>2, <2>4, <3>1, <4>1 DEF Exchanged
      <4>3. Taken = spiCall.head.rx /\ Taken' = spiCall.head.rx
        BY <2>1, <2>2, <3>1, <4>1 DEF Taken, Smaller
      <4>4. QED BY <4>2, <4>3
    <3>2. CASE part = 2
      <4>1. off = TailLen /\ part' = 3
        BY <2>1, <2>2, <2>3, <3>2 DEF TailLen
      <4>2. Exchanged = HeadLen + TailLen /\ Exchanged' = HeadLen + TailLen
        BY <2>1, <2>2, <2>4, <3>2, <4>1 DEF Exchanged
      <4>3. Taken = spiCall.head.rx + spiCall.tail.rx /\ Taken' = spiCall.head.rx + spiCall.tail.rx
        BY <2>1, <2>2, <3>2, <4>1 DEF Taken, Smaller
      <4>4. QED BY <4>2, <4>3
    <3>3. QED BY <2>3, <3>1, <3>2
  <2>7. /\ WireIs(Exchanged)' = WireIs(Exchanged)
        /\ IntoIs(Taken)' = IntoIs(Taken)
    BY <2>1, <2>4, <2>6 DEF WireIs, IntoIs
  <2>8. FlowInv'
    <3>1. spiAt' = "end" => part' = 3
      BY <2>1
    <3>2. QED BY <1>0, <2>1, <2>7, <3>1 DEF FlowInv
  <2>9. QED BY <2>5, <2>8 DEF SpiInv
<1>4. CASE SpiXchDone
  <2>1. /\ spiAt = "exchange" /\ xch = 0 /\ spiAt' = "drain"
        /\ UNCHANGED <<selected, spiCall, part, off, burst, txFifo, rxFifo, xch, wire, into, late>>
    BY <1>4 DEF SpiXchDone
  <2>2. /\ Current' = Current /\ Length(Current)' = Length(Current)
        /\ Exchanged' = Exchanged /\ Taken' = Taken
        /\ \A i : OnWire(i)' = OnWire(i) /\ Answered(i)' = Answered(i)
    BY <2>1 DEF Current, Length, Exchanged, Taken, OnWire, Answered, HeadLen, TailLen
  <2>3. SpiShape'
    BY <1>0, <2>1, <2>2 DEF SpiShape
  <2>4. /\ IntoIs(Taken)' = IntoIs(Taken)
        /\ WireIs(Exchanged + Len(rxFifo))' = WireIs(Exchanged + Len(rxFifo))
    BY <2>1, <2>2 DEF WireIs, IntoIs
  <2>5. FlowInv'
    BY <1>0, <2>1, <2>2, <2>4 DEF FlowInv
  <2>6. QED BY <2>3, <2>5 DEF SpiInv
<1>5. CASE SpiTimeout
  <2>1. /\ spiAt # "idle" /\ spiAt' = "end" /\ late' = Larger(late, 1)
        /\ UNCHANGED <<selected, spiCall, part, off, burst, txFifo, rxFifo, xch, wire, into>>
    BY <1>5 DEF SpiTimeout
  <2>2. late' \in Nat /\ late' # 0
    BY <1>0, <2>1 DEF SpiShape, Larger
  <2>3. SpiShape'
    BY <1>0, <2>1, <2>2 DEF SpiShape
  <2>4. QED BY <2>2, <2>3 DEF SpiInv, FlowInv
<1>6. CASE SpiEnd
  <2>1. /\ spiAt = "end" /\ spiAt' = "idle" /\ selected' = FALSE
        /\ part' = 1 /\ off' = 0 /\ burst' = 0 /\ wire' = <<>> /\ into' = <<>>
        /\ UNCHANGED <<txFifo, rxFifo, xch, late>>
    BY <1>6 DEF SpiEnd, CallOver
  <2>2. SpiShape'
    BY <1>0, <2>1 DEF SpiShape
  <2>3. FlowInv'
    BY <1>0, <2>1 DEF FlowInv
  <2>4. QED BY <2>2, <2>3 DEF SpiInv
<1>7. CASE SpiConfigure
  <2>1. /\ spiAt = "idle" /\ spiAt' = "idle" /\ selected' = FALSE
        /\ txFifo' = <<>> /\ rxFifo' = <<>> /\ xch' = 0 /\ late' = 0
        /\ UNCHANGED <<part, off, burst, wire, into>>
    BY <1>7 DEF SpiConfigure
  <2>2. SpiShape'
    BY <1>0, <2>1 DEF SpiShape
  <2>3. FlowInv'
    BY <2>1 DEF FlowInv
  <2>4. QED BY <2>2, <2>3 DEF SpiInv
<1>8. QED
  BY <1>1, <1>2, <1>3, <1>4, <1>5, <1>6, <1>7, SpiLoads, SpiShifts, SpiDrains DEF SpiStep

LEMMA FunctionIsSeq ==
  ASSUME NEW n \in Nat, NEW f \in [1 .. n -> Nat]
  PROVE  f \in Seq(Nat) /\ Len(f) = n
OBVIOUS

\* A finished call has sent its bytes and been given its answers.
LEMMA SpiIsKept ==
  ASSUME SpiInv
  PROVE  SpiKept
<1>0. SpiShape /\ FlowInv
  BY DEF SpiInv
<1>1. ReleasedAtRest
  BY <1>0 DEF SpiShape, ReleasedAtRest
<1>2. FifosEmptyAtRest
  BY <1>0 DEF FlowInv, FifosEmptyAtRest
<1>3. NeverStarved
  BY <1>0 DEF FlowInv, NeverStarved
<1>4. ExchangeIsExact
  <2>1. SUFFICES ASSUME spiAt = "end", late = 0
                 PROVE  /\ spiCall.name # "transfer" => wire = Padded(spiCall.head) \o Padded(spiCall.tail)
                        /\ into = Answers(spiCall.head, 0) \o Answers(spiCall.tail, Length(spiCall.head))
    BY DEF ExchangeIsExact
  <2> DEFINE h == spiCall.head
             t == spiCall.tail
  <2>2. /\ HeadLen \in Nat /\ TailLen \in Nat /\ h.rx \in Nat /\ t.rx \in Nat
        /\ \A i \in Nat \ {0} : OnWire(i) \in Nat
        /\ HeadLen = Length(h) /\ TailLen = Length(t)
    BY <1>0, <2>1, CountsAre DEF HeadLen, TailLen
  <2>3. /\ h.tx \in Seq(Nat) /\ t.tx \in Seq(Nat)
        /\ \A i \in Nat \ {0} : Byte(h, i) \in Nat /\ Byte(t, i) \in Nat
    <3>1. h.tx \in Seq(Nat) /\ t.tx \in Seq(Nat)
      BY <1>0, <2>1, SpiCallIs DEF SpiShape
    <3>2. QED BY <2>2, <3>1, TransferIs, Zenon
  <2>4. /\ WireIs(Exchanged) /\ IntoIs(Taken) /\ part = 3 /\ off = 0
        /\ selected = (spiCall.name # "transfer")
    BY <1>0, <2>1 DEF SpiShape, FlowInv
  <2>5. Exchanged = HeadLen + TailLen /\ Taken = h.rx + t.rx
    BY <2>2, <2>4 DEF Exchanged, Taken
  <2>6. wire \in Seq(Nat) /\ into \in Seq(Nat)
    BY <1>0 DEF SpiShape
  <2>7. ASSUME spiCall.name # "transfer"
        PROVE  wire = Padded(h) \o Padded(t)
    <3>1. /\ Padded(h) \in Seq(Nat) /\ Len(Padded(h)) = HeadLen
          /\ \A i \in 1 .. HeadLen : Padded(h)[i] = Byte(h, i)
      <4>1. \A i \in 1 .. HeadLen : Byte(h, i) \in Nat
        <5>1. \A i \in 1 .. HeadLen : i \in Nat \ {0}
          BY <2>2
        <5>2. QED BY <2>3, <5>1, Zenon
      <4>2. QED BY <2>2, <4>1 DEF Padded
    <3>2. /\ Padded(t) \in Seq(Nat) /\ Len(Padded(t)) = TailLen
          /\ \A i \in 1 .. TailLen : Padded(t)[i] = Byte(t, i)
      <4>1. \A i \in 1 .. TailLen : Byte(t, i) \in Nat
        <5>1. \A i \in 1 .. TailLen : i \in Nat \ {0}
          BY <2>2
        <5>2. QED BY <2>3, <5>1, Zenon
      <4>2. Padded(t) = [i \in 1 .. TailLen |-> Byte(t, i)]
        BY <2>2 DEF Padded
      <4>3. Padded(t) \in [1 .. TailLen -> Nat]
        BY <4>1, <4>2
      <4>4. \A i \in 1 .. TailLen : Padded(t)[i] = Byte(t, i)
        BY <4>2
      <4>5. QED BY <2>2, <4>3, <4>4, FunctionIsSeq
    <3> DEFINE both == Padded(h) \o Padded(t)
    <3>3. /\ both \in Seq(Nat) /\ Len(both) = HeadLen + TailLen
          /\ \A i \in 1 .. HeadLen + TailLen :
               both[i] = IF i <= HeadLen THEN Padded(h)[i] ELSE Padded(t)[i - HeadLen]
      BY <3>1, <3>2, ConcatProperties
    <3> HIDE DEF both
    <3>4. ASSUME NEW i \in 1 .. HeadLen + TailLen PROVE both[i] = OnWire(i)
      <4>1. CASE i <= HeadLen
        <5>1. i \in 1 .. HeadLen
          BY <2>2, <4>1
        <5>2. QED BY <3>1, <3>3, <4>1, <5>1 DEF OnWire
      <4>2. CASE ~(i <= HeadLen)
        <5>1. i - HeadLen \in 1 .. TailLen
          BY <2>2, <4>2
        <5>2. QED BY <3>2, <3>3, <4>2, <5>1 DEF OnWire
      <4>3. QED BY <4>1, <4>2
    <3>5. Len(wire) = HeadLen + TailLen /\ \A i \in 1 .. HeadLen + TailLen : wire[i] = OnWire(i)
      BY <2>4, <2>5, <2>7 DEF WireIs
    <3>6. wire = both
      <4>1. \A i \in 1 .. Len(wire) : wire[i] = both[i]
        BY <3>4, <3>5
      <4>2. QED BY <2>6, <3>3, <3>5, <4>1, SeqEqual
    <3>7. QED BY <3>6 DEF both
  <2>8. into = Answers(h, 0) \o Answers(t, Length(h))
    <3> DEFINE name == spiCall.name
               u == Answers(h, 0)
               v == Answers(t, Length(h))
    <3>1. /\ u \in Seq(Nat) /\ Len(u) = h.rx
          /\ \A i \in 1 .. h.rx : u[i] = IF name = "transfer" THEN FF ELSE i
      BY <2>2 DEF Answers, FF
    <3>2. /\ v \in Seq(Nat) /\ Len(v) = t.rx
          /\ \A i \in 1 .. t.rx : v[i] = IF name = "transfer" THEN FF ELSE HeadLen + i
      <4>1. v = [i \in 1 .. t.rx |-> IF name = "transfer" THEN FF ELSE HeadLen + i]
        BY <2>2 DEF Answers
      <4>2. v \in [1 .. t.rx -> Nat]
        BY <2>2, <4>1 DEF FF
      <4>3. \A i \in 1 .. t.rx : v[i] = IF name = "transfer" THEN FF ELSE HeadLen + i
        BY <4>1
      <4>4. QED BY <2>2, <4>2, <4>3, FunctionIsSeq
    <3> HIDE DEF u, v
    <3> DEFINE both == u \o v
    <3>3. /\ both \in Seq(Nat) /\ Len(both) = h.rx + t.rx
          /\ \A i \in 1 .. h.rx + t.rx : both[i] = IF i <= h.rx THEN u[i] ELSE v[i - h.rx]
      <4>1. u \in Seq(Nat) /\ Len(u) = h.rx /\ v \in Seq(Nat) /\ Len(v) = t.rx
        BY <3>1, <3>2
      <4>2. both \in Seq(Nat) /\ Len(both) = Len(u) + Len(v)
        BY <4>1, ConcatProperties
      <4>3. \A i \in 1 .. Len(u) + Len(v) : both[i] = IF i <= Len(u) THEN u[i] ELSE v[i - Len(u)]
        BY <4>1, ConcatProperties
      <4>4. QED BY <4>1, <4>2, <4>3
    <3> HIDE DEF both
    <3>4. ASSUME NEW i \in 1 .. h.rx + t.rx PROVE both[i] = Answered(i)
      <4>1. CASE i <= h.rx
        <5>1. i \in 1 .. h.rx
          BY <2>2, <4>1
        <5>2. QED BY <3>1, <3>3, <4>1, <5>1 DEF Answered
      <4>2. CASE ~(i <= h.rx)
        <5>1. i - h.rx \in 1 .. t.rx
          BY <2>2, <4>2
        <5>2. QED BY <3>2, <3>3, <4>2, <5>1 DEF Answered
      <4>3. QED BY <4>1, <4>2
    <3>5. Len(into) = h.rx + t.rx /\ \A i \in 1 .. h.rx + t.rx : into[i] = Answered(i)
      BY <2>4, <2>5 DEF IntoIs
    <3>6. into = both
      <4>1. \A i \in 1 .. Len(into) : into[i] = both[i]
        BY <3>4, <3>5
      <4>2. QED BY <2>6, <3>3, <3>5, <4>1, SeqEqual
    <3>7. QED BY <3>6 DEF both, u, v
  <2>9. QED BY <2>7, <2>8
<1>5. QED BY <1>1, <1>2, <1>3, <1>4 DEF SpiKept

-----------------------------------------------------------------------------
(* The software SPI.  All that matters of the pin operations of a bit is    *)
(* where among them each of the wires is touched: a plan says how many      *)
(* operations are left when its turn comes, 0 if it never does.             *)

Plan == [len : Nat, first : Nat, mosi : Nat, lead : Nat, input : Nat, sample : Nat,
         output : Nat, trail : Nat]

\* What a plan keeps to: the bit is out two operations before the leading edge where
\* the device takes it there, and between the edges where it takes it on the trailing
\* one; the answer is read between the edges, on three wires with MOSI an input.
InTurn(p) ==
  /\ 0 < p.trail /\ p.trail < p.lead /\ p.lead <= p.len /\ 0 < p.mosi /\ p.mosi <= p.len
  /\ p.mosi \notin {p.lead, p.trail, p.sample, p.input, p.output}
  /\ p.first \in {0, p.len}
  /\ p.first # 0 => p.lead < p.first /\ p.mosi < p.first /\ p.sample < p.first
  /\ p.sample # 0 => p.trail < p.sample /\ p.sample < p.lead
  /\ IF wiring.three /\ p.sample # 0
     THEN p.trail < p.output /\ p.output < p.sample /\ p.sample < p.input /\ p.input < p.lead
     ELSE p.input = 0 /\ p.output = 0
  /\ wiring.cpha = 0 => p.mosi = p.lead + 2
  /\ wiring.cpha = 1 /\ ~wiring.three => p.trail < p.mosi /\ p.mosi < p.lead

\* o is the operation of a bit b with n left, itself among them.
InPlan(o, n, p, b) ==
  \/ n = p.mosi /\ o = Mosi(b)
  \/ n = p.lead /\ o = Lead
  \/ n = p.trail /\ o = Trail
  \/ n = p.sample /\ o = Sample
  \/ n = p.input /\ o = Input
  \/ n = p.output /\ o = Output
  \/ n = p.first /\ o \in {Output, Cs(0)}
  \/ n \notin {p.mosi, p.lead, p.trail, p.sample, p.input, p.output} /\ o = Half

\* The wires with k bits done and n operations left of bit b.
Wires(p, b, k, n) ==
  /\ sck = IF p.trail <= n /\ n < p.lead THEN 1 - wiring.cpol ELSE wiring.cpol
  /\ drives = IF p.output <= n /\ n < p.input THEN 0 ELSE 1
  /\ n < p.mosi => mosi = b
  /\ wiring.cpha = 0 /\ n = p.lead => still
  /\ p.trail <= n /\ n < p.lead => line = said[k + 1]

Counts(p, k, n) ==
  /\ Len(said) = IF n < p.lead THEN k + 1 ELSE k
  /\ Len(heard) = IF n < (IF wiring.cpha = 0 THEN p.lead ELSE p.trail) THEN k + 1 ELSE k
  /\ room > 0 => Len(buffer) = IF n < p.sample THEN k + 1 ELSE k

\* So far the device has heard what it was to hear, and the caller what it said.
Faithful ==
  /\ ~(wiring.three /\ wiring.cpha = 1) => \A i \in 1 .. Len(heard) : heard[i] = want[i]
  /\ room > 0 => Len(buffer) <= Len(said) /\ \A i \in 1 .. Len(buffer) : buffer[i] = said[i]

\* Between two bits, k of them done.
SoftAfter(k) ==
  /\ sck = wiring.cpol /\ drives = 1
  /\ Len(said) = k /\ Len(heard) = k /\ (room > 0 => Len(buffer) = k)

BitsDone == Len(want) - Len(left)

SoftTypes ==
  /\ wiring \in [cpol : {0, 1}, cpha : {0, 1}, three : BOOLEAN]
  /\ want \in Seq({0, 1}) /\ room \in Nat /\ room <= Len(want)
  /\ mosi \in {0, 1} /\ line \in {0, 1} /\ still \in BOOLEAN
  /\ heard \in Seq({0, 1}) /\ said \in Seq({0, 1}) /\ buffer \in Seq({0, 1})

\* What is left is the end of what the call has to send.
SoftLeft ==
  /\ left \in Seq({0, 1}) /\ Len(left) <= Len(want) /\ frame9 \in BOOLEAN
  /\ \A i \in 1 .. Len(left) : left[i] = want[BitsDone + i]

SoftOps == [op : {"mosi", "sck", "cs", "half", "sample", "drives"}, v : {0, 1}]

SoftSending ==
  /\ BitsDone > 0 /\ ops \in Seq(SoftOps)
  /\ \E p \in Plan :
       /\ InTurn(p) /\ (room > 0 => p.sample # 0) /\ Len(ops) \in 1 .. p.len
       /\ \A i \in 1 .. Len(ops) : InPlan(ops[i], Len(ops) - i + 1, p, want[BitsDone])
       /\ Wires(p, want[BitsDone], BitsDone - 1, Len(ops))
       /\ Counts(p, BitsDone - 1, Len(ops))

SoftClosing == ops \in {<<>>, <<Cs(1)>>} /\ left = <<>> /\ ~frame9 /\ SoftAfter(BitsDone)

SoftInv == SoftTypes /\ SoftLeft /\ Faithful /\ (SoftClosing \/ SoftSending)

LEMMA Appended ==
  ASSUME NEW s \in Seq({0, 1}), NEW x \in {0, 1}
  PROVE  /\ Append(s, x) \in Seq({0, 1}) /\ Len(Append(s, x)) = Len(s) + 1
         /\ \A i \in 1 .. Len(s) : Append(s, x)[i] = s[i]
         /\ Append(s, x)[Len(s) + 1] = x
OBVIOUS

\* What the operations are, so that each of them can be told from the others.
LEMMA OpsAre ==
  /\ \A b : Mosi(b).op = "mosi" /\ Mosi(b).v = b
  /\ \A b : Cs(b).op = "cs" /\ Cs(b).v = b
  /\ Lead.op = "sck" /\ Lead.v = 1 - wiring.cpol
  /\ Trail.op = "sck" /\ Trail.v = wiring.cpol
  /\ Half.op = "half" /\ Sample.op = "sample"
  /\ Input.op = "drives" /\ Input.v = 0 /\ Output.op = "drives" /\ Output.v = 1
BY DEF Mosi, Cs, Lead, Trail, Sck, Half, Sample, Input, Output, Op

\* The wires one operation further, from what each is at its turn.
LEMMA WiresMove ==
  ASSUME NEW p \in Plan, InTurn(p), NEW n \in 1 .. p.len, NEW k, NEW b,
         wiring \in [cpol : {0, 1}, cpha : {0, 1}, three : BOOLEAN], wiring' = wiring,
         Wires(p, b, k, n),
         sck' = IF n = p.lead THEN 1 - wiring.cpol ELSE IF n = p.trail THEN wiring.cpol ELSE sck,
         drives' = IF n = p.input THEN 0 ELSE IF n = p.output THEN 1 ELSE drives,
         mosi' = IF n = p.mosi THEN b ELSE mosi,
         wiring.cpha = 0 /\ n = p.lead + 1 => still',
         n = p.lead => line' = said'[k + 1],
         n # p.lead /\ n # p.trail => UNCHANGED <<line, said>>
  PROVE  Wires(p, b, k, n - 1)'
<1>0. /\ p.len \in Nat /\ p.first \in Nat /\ p.mosi \in Nat /\ p.lead \in Nat /\ p.input \in Nat
      /\ p.sample \in Nat /\ p.output \in Nat /\ p.trail \in Nat /\ n \in Nat /\ n > 0
  BY DEF Plan
<1>1. /\ p.trail < p.lead
      /\ p.input # 0 => p.trail < p.output /\ p.output < p.input /\ p.input < p.lead
      /\ p.input = 0 => p.output = 0
      /\ wiring.cpha = 0 => p.mosi = p.lead + 2
  BY ONLY <1>0, InTurn(p) DEF InTurn
<1>2. sck' = IF p.trail <= n - 1 /\ n - 1 < p.lead THEN 1 - wiring.cpol ELSE wiring.cpol
  BY <1>0, <1>1 DEF Wires
<1>3. drives' = IF p.output <= n - 1 /\ n - 1 < p.input THEN 0 ELSE 1
  BY <1>0, <1>1 DEF Wires
<1>4. n - 1 < p.mosi => mosi' = b
  BY <1>0 DEF Wires
<1>5. wiring.cpha = 0 /\ n - 1 = p.lead => still'
  BY <1>0
<1>6. p.trail <= n - 1 /\ n - 1 < p.lead => line' = said'[k + 1]
  BY <1>0 DEF Wires
<1>7. QED BY <1>2, <1>3, <1>4, <1>5, <1>6 DEF Wires

\* One operation takes the bit one operation further.
LEMMA OpDoes ==
  ASSUME SoftTypes, Faithful, NEW p \in Plan, InTurn(p), NEW n \in 1 .. p.len, NEW k \in Nat,
         k < Len(want), NEW b, b = want[k + 1], NEW o, InPlan(o, n, p, b),
         Wires(p, b, k, n), Counts(p, k, n), Does(o), UNCHANGED <<wiring, want, room>>
  PROVE  /\ Wires(p, b, k, n - 1)' /\ Counts(p, k, n - 1)' /\ Faithful'
         /\ mosi' \in {0, 1} /\ line' \in {0, 1} /\ still' \in BOOLEAN
         /\ heard' \in Seq({0, 1}) /\ said' \in Seq({0, 1}) /\ buffer' \in Seq({0, 1})
<1> DEFINE Goal == /\ Wires(p, b, k, n - 1)' /\ Counts(p, k, n - 1)' /\ Faithful'
                   /\ mosi' \in {0, 1} /\ line' \in {0, 1} /\ still' \in BOOLEAN
                   /\ heard' \in Seq({0, 1}) /\ said' \in Seq({0, 1}) /\ buffer' \in Seq({0, 1})
<1>0. /\ p.len \in Nat /\ p.first \in Nat /\ p.mosi \in Nat /\ p.lead \in Nat /\ p.input \in Nat
      /\ p.sample \in Nat /\ p.output \in Nat /\ p.trail \in Nat /\ b \in {0, 1}
      /\ wiring.cpol \in {0, 1} /\ wiring.cpha \in {0, 1} /\ wiring.three \in BOOLEAN
      /\ still' \in BOOLEAN /\ n \in Nat /\ 0 < n /\ n <= p.len
  BY DEF Plan, SoftTypes, Does
<1>1. CASE n = p.mosi /\ o = Mosi(b)
  <2>1. /\ mosi' = b /\ ~still'
        /\ UNCHANGED <<sck, drives, line, heard, said, buffer>>
    BY <1>1, OpsAre DEF Does
  <2>2. Wires(p, b, k, n - 1)'
    <3>1. /\ n # p.lead /\ n # p.trail /\ n # p.input /\ n # p.output
          /\ wiring.cpha = 0 => n # p.lead + 1
      BY ONLY <1>0, <1>1, InTurn(p) DEF InTurn
    <3>2. QED BY <1>0, <1>1, <2>1, <3>1, WiresMove DEF SoftTypes
  <2>3. Counts(p, k, n - 1)'
    <3>1. n \notin {p.lead, p.trail, p.sample}
      BY ONLY <1>0, <1>1, InTurn(p) DEF InTurn
    <3>2. \A x \in {p.lead, p.trail, p.sample} : n - 1 < x <=> n < x
      BY ONLY <1>0, <3>1
    <3>3. QED BY ONLY <2>1, <3>2, Counts(p, k, n), UNCHANGED <<wiring, want, room>> DEF Counts
  <2>4. QED BY <1>0, <2>1, <2>2, <2>3 DEF Faithful, SoftTypes
<1>2. CASE n = p.lead /\ o = Lead
  <2>1. sck = wiring.cpol /\ drives = 1 /\ Len(said) = k /\ Len(heard) = k
    BY <1>0, <1>2 DEF Wires, Counts, InTurn
  <2>2. /\ sck' = 1 - wiring.cpol
        /\ heard' = IF wiring.cpha = 0 THEN Append(heard, mosi) ELSE heard
        /\ line' \in {0, 1} /\ said' = Append(said, line')
        /\ UNCHANGED <<mosi, drives, buffer>>
    <3>1. Edges(1 - wiring.cpol) /\ mosi' = mosi /\ drives' = drives /\ buffer' = buffer
      BY <1>0, <1>2, <2>1, OpsAre DEF Does
    <3>2. OnMosi = mosi /\ 1 - wiring.cpol # wiring.cpol
      BY <1>0, <2>1 DEF OnMosi
    <3>3. QED BY <1>0, <3>1, <3>2 DEF Edges, SoftTypes
  <2>3. wiring.cpha = 0 => mosi = b
    BY <1>0, <1>2 DEF Wires, InTurn
  <2>4. /\ said' \in Seq({0, 1}) /\ Len(said') = k + 1 /\ said'[k + 1] = line'
        /\ \A i \in 1 .. Len(said) : said'[i] = said[i]
    BY <2>1, <2>2, Appended DEF SoftTypes
  <2>5. /\ heard' \in Seq({0, 1}) /\ Len(heard') = IF wiring.cpha = 0 THEN k + 1 ELSE k
        /\ \A i \in 1 .. Len(heard) : heard'[i] = heard[i]
        /\ wiring.cpha = 0 => heard'[k + 1] = b
    BY <2>1, <2>2, <2>3, Appended DEF SoftTypes
  <2>6. Wires(p, b, k, n - 1)'
    <3>1. n # p.trail /\ n # p.input /\ n # p.output /\ n # p.mosi
      BY ONLY <1>0, <1>2, InTurn(p) DEF InTurn
    <3>2. /\ sck' = 1 - wiring.cpol /\ drives' = drives /\ mosi' = mosi /\ line' = said'[k + 1]
          /\ n # p.lead + 1
      BY <1>0, <1>2, <2>2, <2>4
    <3>3. QED BY <1>2, <3>1, <3>2, WiresMove DEF SoftTypes
  <2>7. Counts(p, k, n - 1)'
    BY <1>0, <1>2, <2>1, <2>2, <2>4, <2>5 DEF Counts, InTurn
  <2>8. Faithful'
    <3>1. ~(wiring.three /\ wiring.cpha = 1)' => \A i \in 1 .. Len(heard') : heard'[i] = want'[i]
      <4>1. ASSUME ~(wiring.three /\ wiring.cpha = 1), NEW i \in 1 .. Len(heard')
            PROVE  heard'[i] = want[i]
        <5>1. CASE i \in 1 .. Len(heard)
          BY <4>1, <5>1, <2>5 DEF Faithful
        <5>2. CASE i \notin 1 .. Len(heard)
          <6>1. wiring.cpha = 0 /\ i = k + 1
            BY <1>0, <2>1, <2>5, <4>1, <5>2
          <6>2. QED BY <2>5, <6>1
        <5>3. QED BY <5>1, <5>2
      <4>2. QED BY <4>1
    <3>2. room' > 0 => Len(buffer') <= Len(said') /\ \A i \in 1 .. Len(buffer') : buffer'[i] = said'[i]
      <4>1. ASSUME room > 0 PROVE Len(buffer) <= k /\ \A i \in 1 .. Len(buffer) : buffer[i] = said[i]
        BY <2>1, <4>1 DEF Faithful
      <4>2. Len(buffer) \in Nat
        BY DEF SoftTypes
      <4>3. QED BY <2>1, <2>2, <2>4, <4>1, <4>2
    <3>3. QED BY <3>1, <3>2 DEF Faithful
  <2>9. QED BY <1>0, <2>2, <2>4, <2>5, <2>6, <2>7, <2>8 DEF SoftTypes
<1>3. CASE n = p.trail /\ o = Trail
  <2>1. sck = 1 - wiring.cpol /\ drives = 1 /\ Len(said) = k + 1
    BY <1>0, <1>3 DEF Wires, Counts, InTurn
  <2>2. /\ sck' = wiring.cpol /\ line' \in {0, 1}
        /\ heard' = IF wiring.cpha = 0 THEN heard ELSE Append(heard, mosi)
        /\ UNCHANGED <<mosi, drives, buffer, said>>
    <3>1. Edges(wiring.cpol) /\ mosi' = mosi /\ drives' = drives /\ buffer' = buffer
      BY <1>0, <1>3, <2>1, OpsAre DEF Does
    <3>2. OnMosi = mosi
      BY <2>1 DEF OnMosi
    <3>3. QED BY <1>0, <3>1, <3>2 DEF Edges, SoftTypes
  <2>3. ~wiring.three /\ wiring.cpha = 1 => mosi = b
    BY <1>0, <1>3 DEF Wires, InTurn
  <2>4. Len(heard) = IF wiring.cpha = 0 THEN k + 1 ELSE k
    BY <1>0, <1>3 DEF Counts, InTurn
  <2>5. /\ heard' \in Seq({0, 1}) /\ Len(heard') = k + 1
        /\ \A i \in 1 .. Len(heard) : heard'[i] = heard[i]
        /\ wiring.cpha = 1 => heard'[k + 1] = mosi
    BY <1>0, <2>2, <2>4, Appended DEF SoftTypes
  <2>6. Wires(p, b, k, n - 1)'
    <3>1. n # p.lead /\ n # p.input /\ n # p.output /\ n # p.mosi /\ n # p.lead + 1
      BY ONLY <1>0, <1>3, InTurn(p) DEF InTurn
    <3>2. QED BY <1>0, <1>3, <2>2, <3>1, WiresMove DEF SoftTypes
  <2>7. Counts(p, k, n - 1)'
    BY <1>0, <1>3, <2>1, <2>2, <2>5 DEF Counts, InTurn
  <2>8. Faithful'
    <3>1. ASSUME ~(wiring.three /\ wiring.cpha = 1), NEW i \in 1 .. Len(heard')
          PROVE  heard'[i] = want[i]
      <4>1. CASE i \in 1 .. Len(heard)
        BY <3>1, <4>1, <2>5 DEF Faithful
      <4>2. CASE i \notin 1 .. Len(heard)
        <5>1. wiring.cpha = 1 /\ i = k + 1
          BY <1>0, <2>4, <2>5, <3>1, <4>2
        <5>2. QED BY <1>0, <2>3, <2>5, <3>1, <5>1
      <4>3. QED BY <4>1, <4>2
    <3>2. QED BY <2>2, <3>1 DEF Faithful
  <2>9. QED BY <1>0, <2>2, <2>5, <2>6, <2>7, <2>8 DEF SoftTypes
<1>4. CASE n = p.sample /\ o = Sample
  <2>1. /\ p.trail <= n /\ n < p.lead /\ (drives = 0 <=> wiring.three)
        /\ Len(said) = k + 1 /\ line = said[k + 1] /\ (room > 0 => Len(buffer) = k)
    BY <1>0, <1>4 DEF Wires, Counts, InTurn
  <2>2. /\ buffer' = Append(buffer, line)
        /\ UNCHANGED <<sck, mosi, drives, line, heard, said>> /\ still' = still
    BY <1>0, <1>4, <2>1, OpsAre DEF Does, OnMiso, OnMosi, SoftTypes
  <2>3. /\ buffer' \in Seq({0, 1}) /\ Len(buffer') = Len(buffer) + 1
        /\ \A i \in 1 .. Len(buffer) : buffer'[i] = buffer[i]
        /\ buffer'[Len(buffer) + 1] = line
    BY <2>2, Appended DEF SoftTypes
  <2>4. Wires(p, b, k, n - 1)'
    <3>1. /\ n # p.lead /\ n # p.trail /\ n # p.input /\ n # p.output /\ n # p.mosi
          /\ n # p.lead + 1
      BY ONLY <1>0, <1>4, InTurn(p) DEF InTurn
    <3>2. QED BY <1>0, <2>2, <3>1, WiresMove DEF SoftTypes
  <2>5. Counts(p, k, n - 1)'
    BY <1>0, <1>4, <2>1, <2>2, <2>3, SMTT(40) DEF Counts, InTurn
  <2>6. Faithful'
    <3>1. ASSUME room > 0, NEW i \in 1 .. Len(buffer') PROVE buffer'[i] = said[i]
      <4>1. CASE i \in 1 .. Len(buffer)
        BY <3>1, <4>1, <2>3 DEF Faithful
      <4>2. CASE i \notin 1 .. Len(buffer)
        <5>1. i = k + 1 /\ Len(buffer) = k
          BY <2>1, <2>3, <3>1, <4>2
        <5>2. QED BY <2>1, <2>3, <5>1
      <4>3. QED BY <4>1, <4>2
    <3>2. room > 0 => Len(buffer') <= Len(said)
      BY <2>1, <2>3
    <3>3. QED BY <2>2, <3>1, <3>2 DEF Faithful
  <2>7. QED BY <1>0, <2>2, <2>3, <2>4, <2>5, <2>6 DEF SoftTypes
<1>5. CASE n = p.input /\ o = Input
  <2>1. drives' = 0 /\ UNCHANGED <<sck, mosi, line, heard, said, buffer>> /\ still' = still
    BY <1>5, OpsAre DEF Does, SoftTypes
  <2>2. Wires(p, b, k, n - 1)'
    <3>1. /\ n # p.lead /\ n # p.trail /\ n # p.output /\ n # p.mosi
          /\ n # p.lead + 1
      BY ONLY <1>0, <1>5, InTurn(p) DEF InTurn
    <3>2. QED BY <1>0, <1>5, <2>1, <3>1, WiresMove DEF SoftTypes
  <2>3. Counts(p, k, n - 1)'
    BY <1>0, <1>5, <2>1, SMTT(40) DEF Counts, InTurn
  <2>4. QED BY <1>0, <2>1, <2>2, <2>3 DEF Faithful, SoftTypes
<1>6. CASE n = p.output /\ o = Output
  <2>1. drives' = 1 /\ UNCHANGED <<sck, mosi, line, heard, said, buffer>> /\ still' = still
    BY <1>6, OpsAre DEF Does, SoftTypes
  <2>2. Wires(p, b, k, n - 1)'
    <3>1. /\ n # p.lead /\ n # p.trail /\ n # p.input /\ n # p.mosi
          /\ n # p.lead + 1
      BY ONLY <1>0, <1>6, InTurn(p) DEF InTurn
    <3>2. QED BY <1>0, <1>6, <2>1, <3>1, WiresMove DEF SoftTypes
  <2>3. Counts(p, k, n - 1)'
    BY <1>0, <1>6, <2>1, SMTT(40) DEF Counts, InTurn
  <2>4. QED BY <1>0, <2>1, <2>2, <2>3 DEF Faithful, SoftTypes
<1>7. CASE n = p.first /\ o \in {Output, Cs(0)}
  <2>1. p.input < n /\ p.output < n /\ p.lead < n /\ p.mosi < n /\ p.sample < n /\ p.trail < n
    BY ONLY <1>0, <1>7, InTurn(p) DEF InTurn
  <2>2. /\ drives' = drives /\ still' = still
        /\ UNCHANGED <<sck, mosi, line, heard, said, buffer>>
    <3>1. drives = 1
      BY <1>0, <2>1 DEF Wires
    <3>2. o.op \in {"drives", "cs"} /\ (o.op = "drives" => o.v = 1)
      BY <1>7, OpsAre
    <3>3. QED BY <3>1, <3>2 DEF Does, SoftTypes
  <2>3. Wires(p, b, k, n - 1)'
    <3>1. wiring.cpha = 0 => n # p.lead + 1
      BY ONLY <1>0, <1>7, InTurn(p) DEF InTurn
    <3>2. /\ n # p.lead /\ n # p.trail /\ n # p.input /\ n # p.output /\ n # p.mosi
      BY <1>0, <2>1
    <3>3. QED BY <2>2, <3>1, <3>2, WiresMove DEF SoftTypes
  <2>4. Counts(p, k, n - 1)'
    BY <1>0, <1>7, <2>1, <2>2 DEF Counts
  <2>5. QED BY <1>0, <2>2, <2>3, <2>4 DEF Faithful, SoftTypes
<1>8. CASE n \notin {p.mosi, p.lead, p.trail, p.sample, p.input, p.output} /\ o = Half
  <2>1. still' /\ UNCHANGED <<sck, mosi, drives, line, heard, said, buffer>>
    BY <1>8, OpsAre DEF Does
  <2>2. Wires(p, b, k, n - 1)'
    BY <1>0, <1>8, <2>1, WiresMove DEF SoftTypes
  <2>3. Counts(p, k, n - 1)'
    <3>1. n \notin {p.lead, p.trail, p.sample}
      BY ONLY <1>0, <1>8, InTurn(p) DEF InTurn
    <3>2. \A x \in {p.lead, p.trail, p.sample} : n - 1 < x <=> n < x
      BY ONLY <1>0, <3>1
    <3>3. QED BY ONLY <2>1, <3>2, Counts(p, k, n), UNCHANGED <<wiring, want, room>> DEF Counts
  <2>4. QED BY <1>0, <2>1, <2>2, <2>3 DEF Faithful, SoftTypes
<1>9. QED
  BY <1>1, <1>2, <1>3, <1>4, <1>5, <1>6, <1>7, <1>8 DEF InPlan

\* The operations s are those of a bit b by some plan.
Planned(s, b, answered) ==
  \E p \in Plan :
    /\ InTurn(p) /\ (answered => p.sample # 0) /\ s \in Seq(SoftOps) /\ Len(s) = p.len
    /\ \A i \in 1 .. p.len : InPlan(s[i], p.len - i + 1, p, b)

LEMMA OpsKnown ==
  ASSUME wiring \in [cpol : {0, 1}, cpha : {0, 1}, three : BOOLEAN], NEW b \in {0, 1}
  PROVE  {Mosi(b), Half, Lead, Trail, Sample, Input, Output, Cs(0), Cs(1)} \subseteq SoftOps
BY DEF SoftOps, Mosi, Cs, Lead, Trail, Sck, Half, Sample, Input, Output, Op

LEMMA BitPlanned ==
  ASSUME wiring \in [cpol : {0, 1}, cpha : {0, 1}, three : BOOLEAN], NEW b \in {0, 1},
         ~wiring.three
  PROVE  Planned(Bit(b), b, TRUE)
<1>0. /\ Mosi(b) \in SoftOps /\ Half \in SoftOps /\ Lead \in SoftOps /\ Trail \in SoftOps
      /\ Sample \in SoftOps
  BY OpsKnown
<1>1. CASE wiring.cpha = 0
  <2> DEFINE s == <<Mosi(b), Half, Lead, Half, Sample, Trail, Half>>
             p == [len |-> 7, first |-> 0, mosi |-> 7, lead |-> 5, input |-> 0, sample |-> 3,
                output |-> 0, trail |-> 2]
  <2>1. Bit(b) = s
    BY <1>1 DEF Bit
  <2>2. /\ s \in Seq(SoftOps) /\ Len(s) = 7
        /\ s[1] = Mosi(b) /\ s[2] = Half /\ s[3] = Lead
        /\ s[4] = Half /\ s[5] = Sample /\ s[6] = Trail /\ s[7] = Half
    BY <1>0
  <2> HIDE DEF s
  <2>3. p \in Plan /\ InTurn(p)
    BY <1>1 DEF Plan, InTurn
  <2>4. \A i \in 1 .. 7 : InPlan(s[i], 7 - i + 1, p, b)
    <3>1. ASSUME NEW i \in 1 .. 7 PROVE InPlan(s[i], 7 - i + 1, p, b)
      <4>1. i = 1 \/ i = 2 \/ i = 3 \/ i = 4 \/ i = 5 \/ i = 6 \/ i = 7
        OBVIOUS
      <4>2. QED BY <2>2, <4>1 DEF InPlan
    <3>2. QED BY <3>1
  <2>5. QED BY <2>1, <2>2, <2>3, <2>4 DEF Planned
<1>2. CASE wiring.cpha = 1
  <2> DEFINE s == <<Lead, Half, Sample, Mosi(b), Trail, Half>>
             p == [len |-> 6, first |-> 0, mosi |-> 3, lead |-> 6, input |-> 0, sample |-> 4,
                output |-> 0, trail |-> 2]
  <2>1. Bit(b) = s
    BY <1>2 DEF Bit
  <2>2. /\ s \in Seq(SoftOps) /\ Len(s) = 6
        /\ s[1] = Lead /\ s[2] = Half /\ s[3] = Sample
        /\ s[4] = Mosi(b) /\ s[5] = Trail /\ s[6] = Half
    BY <1>0
  <2> HIDE DEF s
  <2>3. p \in Plan /\ InTurn(p)
    BY <1>2 DEF Plan, InTurn
  <2>4. \A i \in 1 .. 6 : InPlan(s[i], 6 - i + 1, p, b)
    <3>1. ASSUME NEW i \in 1 .. 6 PROVE InPlan(s[i], 6 - i + 1, p, b)
      <4>1. i = 1 \/ i = 2 \/ i = 3 \/ i = 4 \/ i = 5 \/ i = 6
        OBVIOUS
      <4>2. QED BY <2>2, <4>1 DEF InPlan
    <3>2. QED BY <3>1
  <2>5. QED BY <2>1, <2>2, <2>3, <2>4 DEF Planned
<1>3. QED BY <1>1, <1>2

LEMMA Bit3Planned ==
  ASSUME wiring \in [cpol : {0, 1}, cpha : {0, 1}, three : BOOLEAN], NEW b \in {0, 1},
         wiring.three
  PROVE  Planned(Bit3(b), b, TRUE) /\ Planned(<<Output>> \o Bit3(b), b, TRUE)
<1>0. /\ Mosi(b) \in SoftOps /\ Half \in SoftOps /\ Lead \in SoftOps /\ Trail \in SoftOps
      /\ Sample \in SoftOps /\ Input \in SoftOps /\ Output \in SoftOps
  BY OpsKnown
<1>1. \E p \in Plan :
        /\ InTurn(p) /\ p.sample # 0 /\ p.first = 0 /\ Bit3(b) \in Seq(SoftOps) /\ Len(Bit3(b)) = p.len
        /\ \A i \in 1 .. p.len : InPlan(Bit3(b)[i], p.len - i + 1, p, b)
  <2>1. CASE wiring.cpha = 0
    <3> DEFINE s == <<Mosi(b), Half, Lead, Half, Input, Sample, Output, Trail, Half>>
               p == [len |-> 9, first |-> 0, mosi |-> 9, lead |-> 7, input |-> 5, sample |-> 4,
                output |-> 3, trail |-> 2]
    <3>1. Bit3(b) = s
      BY <2>1 DEF Bit3
    <3>2. /\ s \in Seq(SoftOps) /\ Len(s) = 9
          /\ s[1] = Mosi(b) /\ s[2] = Half /\ s[3] = Lead /\ s[4] = Half
          /\ s[5] = Input /\ s[6] = Sample /\ s[7] = Output /\ s[8] = Trail /\ s[9] = Half
      BY <1>0
    <3> HIDE DEF s
    <3>3. p \in Plan /\ InTurn(p)
      BY <2>1 DEF Plan, InTurn
    <3>4. \A i \in 1 .. 9 : InPlan(s[i], 9 - i + 1, p, b)
      <4>1. ASSUME NEW i \in 1 .. 9 PROVE InPlan(s[i], 9 - i + 1, p, b)
        <5>1. i = 1 \/ i = 2 \/ i = 3 \/ i = 4 \/ i = 5 \/ i = 6 \/ i = 7 \/ i = 8 \/ i = 9
          OBVIOUS
        <5>2. QED BY <3>2, <5>1 DEF InPlan
      <4>2. QED BY <4>1
    <3>5. QED BY <3>1, <3>2, <3>3, <3>4
  <2>2. CASE wiring.cpha = 1
    <3> DEFINE s == <<Lead, Half, Input, Half, Sample, Output, Trail, Mosi(b), Half>>
               p == [len |-> 9, first |-> 0, mosi |-> 2, lead |-> 9, input |-> 7, sample |-> 5,
                output |-> 4, trail |-> 3]
    <3>1. Bit3(b) = s
      BY <2>2 DEF Bit3
    <3>2. /\ s \in Seq(SoftOps) /\ Len(s) = 9
          /\ s[1] = Lead /\ s[2] = Half /\ s[3] = Input /\ s[4] = Half
          /\ s[5] = Sample /\ s[6] = Output /\ s[7] = Trail /\ s[8] = Mosi(b) /\ s[9] = Half
      BY <1>0
    <3> HIDE DEF s
    <3>3. p \in Plan /\ InTurn(p)
      BY <2>2 DEF Plan, InTurn
    <3>4. \A i \in 1 .. 9 : InPlan(s[i], 9 - i + 1, p, b)
      <4>1. ASSUME NEW i \in 1 .. 9 PROVE InPlan(s[i], 9 - i + 1, p, b)
        <5>1. i = 1 \/ i = 2 \/ i = 3 \/ i = 4 \/ i = 5 \/ i = 6 \/ i = 7 \/ i = 8 \/ i = 9
          OBVIOUS
        <5>2. QED BY <3>2, <5>1 DEF InPlan
      <4>2. QED BY <4>1
    <3>5. QED BY <3>1, <3>2, <3>3, <3>4
  <2>3. QED BY <2>1, <2>2
<1>2. PICK p \in Plan :
        /\ InTurn(p) /\ p.sample # 0 /\ p.first = 0 /\ Bit3(b) \in Seq(SoftOps) /\ Len(Bit3(b)) = p.len
        /\ \A i \in 1 .. p.len : InPlan(Bit3(b)[i], p.len - i + 1, p, b)
  BY <1>1
<1>3. Planned(Bit3(b), b, TRUE)
  BY <1>2 DEF Planned
<1>4. Planned(<<Output>> \o Bit3(b), b, TRUE)
  <2> DEFINE s == <<Output>> \o Bit3(b)
             q == [len |-> p.len + 1, first |-> p.len + 1, mosi |-> p.mosi, lead |-> p.lead,
                   input |-> p.input, sample |-> p.sample, output |-> p.output, trail |-> p.trail]
  <2>0. /\ p.len \in Nat /\ p.first \in Nat /\ p.mosi \in Nat /\ p.lead \in Nat /\ p.input \in Nat
        /\ p.sample \in Nat /\ p.output \in Nat /\ p.trail \in Nat
    BY DEF Plan
  <2>1. /\ q \in Plan /\ q.len = p.len + 1 /\ q.first = p.len + 1 /\ q.mosi = p.mosi /\ q.lead = p.lead
        /\ q.input = p.input /\ q.sample = p.sample /\ q.output = p.output /\ q.trail = p.trail
    BY <2>0 DEF Plan
  <2>2. /\ s \in Seq(SoftOps) /\ Len(s) = p.len + 1 /\ s[1] = Output
        /\ \A i \in 1 .. p.len : s[i + 1] = Bit3(b)[i]
    BY <1>0, <1>2
  <2> HIDE DEF s, q
  <2>3. InTurn(q)
    BY <1>2, <2>0, <2>1 DEF InTurn
  <2>4. ASSUME NEW i \in 1 .. p.len + 1 PROVE InPlan(s[i], p.len + 1 - i + 1, q, b)
    <3>1. CASE i = 1
      BY <2>0, <2>1, <2>2, <3>1 DEF InPlan
    <3>2. CASE i # 1
      <4>1. i - 1 \in 1 .. p.len /\ p.len - (i - 1) + 1 = p.len + 1 - i + 1 /\ s[i] = Bit3(b)[i - 1]
        <5>1. i - 1 \in 1 .. p.len /\ p.len - (i - 1) + 1 = p.len + 1 - i + 1 /\ (i - 1) + 1 = i
          BY <2>0, <3>2
        <5>2. s[(i - 1) + 1] = Bit3(b)[i - 1]
          BY <2>2, <5>1
        <5>3. QED BY <5>1, <5>2
      <4>2. InPlan(s[i], p.len + 1 - i + 1, p, b)
        BY <1>2, <4>1
      <4>3. p.len + 1 - i + 1 # p.first
        BY <1>2, <2>0, <4>1
      <4>4. QED BY <2>1, <4>2, <4>3 DEF InPlan
    <3>3. QED BY <3>1, <3>2
  <2>5. QED BY <1>2, <2>1, <2>2, <2>3, <2>4 DEF Planned, s
<1>5. QED BY <1>3, <1>4

LEMMA DcPlanned ==
  ASSUME wiring \in [cpol : {0, 1}, cpha : {0, 1}, three : BOOLEAN], NEW b \in {0, 1}
  PROVE  Planned(DcOps(b), b, FALSE)
<1>0. /\ Mosi(b) \in SoftOps /\ Half \in SoftOps /\ Lead \in SoftOps /\ Trail \in SoftOps
      /\ Cs(0) \in SoftOps
  BY OpsKnown
<1>1. CASE wiring.cpha = 0
  <2> DEFINE s == <<Cs(0), Mosi(b), Half, Lead, Half, Trail, Half>>
             p == [len |-> 7, first |-> 7, mosi |-> 6, lead |-> 4, input |-> 0, sample |-> 0,
                output |-> 0, trail |-> 2]
  <2>1. DcOps(b) = s
    BY <1>1 DEF DcOps
  <2>2. /\ s \in Seq(SoftOps) /\ Len(s) = 7
        /\ s[1] = Cs(0) /\ s[2] = Mosi(b) /\ s[3] = Half
        /\ s[4] = Lead /\ s[5] = Half /\ s[6] = Trail /\ s[7] = Half
    BY <1>0
  <2> HIDE DEF s
  <2>3. p \in Plan /\ InTurn(p)
    BY <1>1 DEF Plan, InTurn
  <2>4. \A i \in 1 .. 7 : InPlan(s[i], 7 - i + 1, p, b)
    <3>1. ASSUME NEW i \in 1 .. 7 PROVE InPlan(s[i], 7 - i + 1, p, b)
      <4>1. i = 1 \/ i = 2 \/ i = 3 \/ i = 4 \/ i = 5 \/ i = 6 \/ i = 7
        OBVIOUS
      <4>2. QED BY <2>2, <4>1 DEF InPlan
    <3>2. QED BY <3>1
  <2>5. QED BY <2>1, <2>2, <2>3, <2>4 DEF Planned
<1>2. CASE wiring.cpha = 1
  <2> DEFINE s == <<Cs(0), Lead, Half, Mosi(b), Trail, Half>>
             p == [len |-> 6, first |-> 6, mosi |-> 3, lead |-> 5, input |-> 0, sample |-> 0,
                output |-> 0, trail |-> 2]
  <2>1. DcOps(b) = s
    BY <1>2 DEF DcOps
  <2>2. /\ s \in Seq(SoftOps) /\ Len(s) = 6
        /\ s[1] = Cs(0) /\ s[2] = Lead /\ s[3] = Half
        /\ s[4] = Mosi(b) /\ s[5] = Trail /\ s[6] = Half
    BY <1>0
  <2> HIDE DEF s
  <2>3. p \in Plan /\ InTurn(p)
    BY <1>2 DEF Plan, InTurn
  <2>4. \A i \in 1 .. 6 : InPlan(s[i], 6 - i + 1, p, b)
    <3>1. ASSUME NEW i \in 1 .. 6 PROVE InPlan(s[i], 6 - i + 1, p, b)
      <4>1. i = 1 \/ i = 2 \/ i = 3 \/ i = 4 \/ i = 5 \/ i = 6
        OBVIOUS
      <4>2. QED BY <2>2, <4>1 DEF InPlan
    <3>2. QED BY <3>1
  <2>5. QED BY <2>1, <2>2, <2>3, <2>4 DEF Planned
<1>3. QED BY <1>1, <1>2

LEMMA BitOpsPlanned ==
  ASSUME wiring \in [cpol : {0, 1}, cpha : {0, 1}, three : BOOLEAN],
         NEW l \in Seq({0, 1}), l # <<>>
  PROVE  Planned(BitOps(l), Head(l), TRUE)
<1>1. Head(l) \in {0, 1}
  OBVIOUS
<1>2. CASE ~wiring.three
  <2>1. BitOps(l) = <<>> \o Bit(Head(l))
    BY <1>2 DEF BitOps
  <2>2. <<>> \o Bit(Head(l)) = Bit(Head(l))
    <3>1. Bit(Head(l)) \in Seq(SoftOps)
      BY <1>1, <1>2, BitPlanned DEF Planned
    <3>2. QED BY <3>1
  <2>3. QED BY <1>1, <1>2, <2>1, <2>2, BitPlanned
<1>3. CASE wiring.three
  <2>1. Bit3(Head(l)) \in Seq(SoftOps)
    BY <1>1, <1>3, Bit3Planned DEF Planned
  <2>2. <<>> \o Bit3(Head(l)) = Bit3(Head(l))
    BY <2>1
  <2>3. BitOps(l) \in {<<Output>> \o Bit3(Head(l)), Bit3(Head(l))}
    BY <1>3, <2>2 DEF BitOps
  <2>4. QED BY <1>1, <1>3, <2>3, Bit3Planned
<1>4. QED BY <1>2, <1>3

\* Between two bits is the start of the next one, and the end of the last.
LEMMA BitStarts ==
  ASSUME NEW k, SoftAfter(k)', NEW p \in Plan, InTurn(p)', NEW b
  PROVE  Wires(p, b, k, p.len)' /\ Counts(p, k, p.len)'
<1>0. /\ p.len \in Nat /\ p.first \in Nat /\ p.mosi \in Nat /\ p.lead \in Nat /\ p.input \in Nat
      /\ p.sample \in Nat /\ p.output \in Nat /\ p.trail \in Nat
  BY DEF Plan
<1>1. /\ p.lead <= p.len /\ p.trail < p.len /\ p.mosi <= p.len /\ p.input <= p.len
      /\ p.sample <= p.len /\ (wiring'.cpha = 0 => p.lead < p.len)
  BY <1>0 DEF InTurn
<1>2. Wires(p, b, k, p.len)'
  BY <1>0, <1>1 DEF Wires, SoftAfter
<1>3. Counts(p, k, p.len)'
  BY <1>0, <1>1 DEF Counts, SoftAfter
<1>4. QED BY <1>2, <1>3

LEMMA BitEnds ==
  ASSUME NEW k, NEW p \in Plan, InTurn(p)', NEW b, (room > 0 => p.sample # 0)',
         Wires(p, b, k, 0)', Counts(p, k, 0)'
  PROVE  SoftAfter(k + 1)'
<1>0. /\ p.lead \in Nat /\ p.input \in Nat /\ p.sample \in Nat /\ p.output \in Nat /\ p.trail \in Nat
  BY DEF Plan
<1>1. 0 < p.trail /\ 0 < p.lead /\ ~(p.output <= 0 /\ 0 < p.input)
  BY <1>0 DEF InTurn
<1>2. sck' = wiring'.cpol /\ drives' = 1
  BY <1>0, <1>1 DEF Wires
<1>3. Len(said)' = k + 1 /\ Len(heard)' = k + 1 /\ (room' > 0 => Len(buffer)' = k + 1)
  BY <1>0, <1>1 DEF Counts
<1>4. QED BY <1>2, <1>3 DEF SoftAfter

\* A bit begins.
LEMMA PlanStarts ==
  ASSUME wiring' = wiring, NEW k \in Nat, SoftAfter(k)', BitsDone' = k + 1,
         NEW b, b = want'[BitsDone'], NEW answered, room' > 0 => answered,
         Planned(ops', b, answered)
  PROVE  SoftSending'
<1>1. PICK p \in Plan :
        /\ InTurn(p) /\ (answered => p.sample # 0) /\ ops' \in Seq(SoftOps) /\ Len(ops') = p.len
        /\ \A i \in 1 .. p.len : InPlan(ops'[i], p.len - i + 1, p, b)
  BY DEF Planned
<1>2. InTurn(p)' /\ p.len \in 1 .. p.len
  <2>1. InTurn(p)'
    BY <1>1 DEF InTurn
  <2>2. p.len \in Nat /\ p.lead \in Nat /\ p.trail \in Nat
    BY DEF Plan
  <2>3. QED BY <1>1, <2>1, <2>2 DEF InTurn
<1>3. \A i \in 1 .. p.len : InPlan(ops'[i], p.len - i + 1, p, b) => InPlan(ops[i], p.len - i + 1, p, b)'
  BY DEF InPlan, Lead, Trail
<1>4. Wires(p, b, k, p.len)' /\ Counts(p, k, p.len)'
  BY <1>2, BitStarts
<1>5. (BitsDone - 1)' = k /\ (want[BitsDone])' = b /\ (BitsDone > 0)'
  OBVIOUS
<1>6. /\ Wires(p, want[BitsDone], BitsDone - 1, Len(ops))' /\ Counts(p, BitsDone - 1, Len(ops))'
      /\ \A i \in 1 .. p.len : InPlan(ops[i], Len(ops) - i + 1, p, want[BitsDone])'
  BY <1>1, <1>3, <1>4, <1>5 DEF Wires, Counts, InPlan
<1>7. QED BY <1>1, <1>2, <1>5, <1>6 DEF SoftSending

\* What follows a bit, with the bits l left.
LEMMA FollowsKeeps ==
  ASSUME SoftTypes', Faithful', wiring' = wiring, NEW l \in Seq({0, 1}), NEW nine \in BOOLEAN,
         Len(l) <= Len(want'), \A i \in 1 .. Len(l) : l[i] = want'[Len(want') - Len(l) + i],
         NEW k \in Nat, k = Len(want') - Len(l), SoftAfter(k)', Follows(l, nine)
  PROVE  SoftInv'
<1>0. want' \in Seq({0, 1}) /\ Len(want') \in Nat
      /\ wiring \in [cpol : {0, 1}, cpha : {0, 1}, three : BOOLEAN]
  BY DEF SoftTypes
<1>1. CASE l = <<>>
  <2>1. left' = <<>> /\ frame9' = FALSE /\ ops' \in {<<>>, <<Cs(1)>>}
    BY <1>1 DEF Follows
  <2>2. BitsDone' = k
    BY <1>0, <1>1, <2>1 DEF BitsDone
  <2>3. SoftAfter(BitsDone)'
    BY <2>2 DEF SoftAfter
  <2>4. SoftLeft'
    <3>1. left' \in Seq({0, 1}) /\ Len(left') = 0
      BY <2>1
    <3>2. Len(left') <= Len(want') /\ \A i \in 1 .. Len(left') : FALSE
      BY <1>0, <3>1
    <3>3. QED BY <2>1, <3>1, <3>2 DEF SoftLeft
  <2>5. SoftClosing'
    BY <2>1, <2>3 DEF SoftClosing
  <2>6. QED BY <2>4, <2>5 DEF SoftInv
<1>2. CASE l # <<>>
  <2>1. left' = Tail(l) /\ frame9' = nine /\ ops' = BitOps(l)
    BY <1>2 DEF Follows
  <2>2. /\ Len(l) \in Nat /\ Len(l) > 0 /\ Tail(l) \in Seq({0, 1}) /\ Len(Tail(l)) = Len(l) - 1
        /\ \A i \in 1 .. Len(l) - 1 : Tail(l)[i] = l[i + 1]
        /\ Head(l) = l[1]
    BY <1>2
  <2>3. BitsDone' = k + 1
    BY <1>0, <2>1, <2>2 DEF BitsDone
  <2>4. Head(l) = want'[BitsDone']
    <3>1. 1 \in 1 .. Len(l) /\ k + 1 = BitsDone'
      BY <2>2, <2>3
    <3>2. QED BY <2>2, <3>1
  <2>5. SoftLeft'
    <3>1. ASSUME NEW i \in 1 .. Len(left') PROVE left'[i] = want'[BitsDone' + i]
      <4>1. i + 1 \in 1 .. Len(l) /\ left'[i] = l[i + 1] /\ k + (i + 1) = BitsDone' + i
        BY <2>1, <2>2, <2>3
      <4>2. QED BY <4>1
    <3>2. Len(left') <= Len(want')
      BY <1>0, <2>1, <2>2
    <3>3. QED BY <2>1, <2>2, <3>1, <3>2 DEF SoftLeft
  <2>6. PICK b : b = Head(l)
    OBVIOUS
  <2>7. Planned(BitOps(l), b, TRUE)
    BY <1>0, <1>2, <2>6, BitOpsPlanned
  <2>8. SoftSending'
    BY <2>1, <2>3, <2>4, <2>6, <2>7, PlanStarts
  <2>9. QED BY <2>5, <2>8 DEF SoftInv
<1>3. QED BY <1>1, <1>2

LEMMA PinOpKeeps ==
  ASSUME SoftInv, PinOp
  PROVE  SoftInv'
<1>0. /\ SoftTypes /\ SoftLeft /\ Faithful /\ ops # <<>> /\ Does(Head(ops))
      /\ wiring' = wiring /\ want' = want /\ room' = room
      /\ IF Len(ops) = 1 THEN Follows(left, frame9) ELSE ops' = Tail(ops) /\ UNCHANGED <<left, frame9>>
  BY DEF SoftInv, PinOp
<1>1. /\ want \in Seq({0, 1}) /\ left \in Seq({0, 1}) /\ Len(left) \in Nat /\ Len(want) \in Nat
      /\ Len(left) <= Len(want) /\ frame9 \in BOOLEAN
      /\ \A i \in 1 .. Len(left) : left[i] = want[Len(want) - Len(left) + i]
  BY <1>0 DEF SoftTypes, SoftLeft, BitsDone
<1>2. CASE SoftClosing
  <2>1. ops = <<Cs(1)>> /\ left = <<>> /\ frame9 = FALSE
    BY <1>0, <1>1, <1>2 DEF SoftClosing
  <2>2. Len(ops) = 1 /\ Head(ops) = Cs(1)
    BY <2>1
  <2>3. ops' = <<>> /\ left' = <<>> /\ frame9' = FALSE
    BY <1>0, <2>1, <2>2 DEF Follows
  <2>4. /\ UNCHANGED <<sck, heard, line, said, mosi, drives, buffer>> /\ still' \in BOOLEAN
    BY <1>0, <2>2, OpsAre DEF Does, SoftTypes
  <2>5. SoftTypes' /\ Faithful'
    BY <1>0, <2>4 DEF SoftTypes, Faithful
  <2>6. SoftLeft' /\ SoftClosing'
    <3>1. BitsDone' = BitsDone /\ left' = left /\ frame9' = frame9
      BY <1>0, <2>1, <2>3 DEF BitsDone
    <3>2. SoftLeft'
      BY <1>0, <3>1 DEF SoftLeft
    <3>3. SoftAfter(BitsDone)'
      BY <1>0, <1>2, <2>4, <3>1 DEF SoftClosing, SoftAfter
    <3>4. QED BY <2>3, <3>2, <3>3 DEF SoftClosing
  <2>7. QED BY <2>5, <2>6 DEF SoftInv
<1>3. CASE SoftSending
  <2>0. BitsDone > 0 /\ ops \in Seq(SoftOps)
    BY <1>3 DEF SoftSending
  <2>1. PICK p \in Plan :
          /\ InTurn(p) /\ (room > 0 => p.sample # 0) /\ Len(ops) \in 1 .. p.len
          /\ \A i \in 1 .. Len(ops) : InPlan(ops[i], Len(ops) - i + 1, p, want[BitsDone])
          /\ Wires(p, want[BitsDone], BitsDone - 1, Len(ops))
          /\ Counts(p, BitsDone - 1, Len(ops))
    BY <1>3 DEF SoftSending
  <2>2. PICK n \in 1 .. p.len : n = Len(ops)
    BY <2>1
  <2>3. PICK k \in Nat : k = BitsDone - 1
    BY <1>1, <2>0 DEF BitsDone
  <2>4. PICK b : b = want[BitsDone]
    OBVIOUS
  <2>5. PICK o : o = Head(ops)
    OBVIOUS
  <2>6. /\ n \in Nat /\ n > 0 /\ p.len \in Nat /\ BitsDone = k + 1 /\ k < Len(want)
    <3>1. p.len \in Nat
      BY DEF Plan
    <3>2. BitsDone = k + 1 /\ k < Len(want)
      BY <1>1, <2>0, <2>3 DEF BitsDone
    <3>3. QED BY <3>1, <3>2
  <2>7. o = ops[1] /\ Len(ops) - 1 + 1 = n
    BY <1>0, <2>0, <2>2, <2>5, <2>6
  <2>8. InPlan(o, n, p, b)
    <3>1. 1 \in 1 .. Len(ops)
      BY <2>2, <2>6
    <3>2. InPlan(ops[1], Len(ops) - 1 + 1, p, want[BitsDone])
      BY <2>1, <3>1
    <3>3. QED BY <2>4, <2>7, <3>2
  <2>9. Wires(p, b, k, n) /\ Counts(p, k, n) /\ b = want[k + 1] /\ Does(o)
    BY <1>0, <2>1, <2>2, <2>3, <2>4, <2>5, <2>6
  <2>10. /\ Wires(p, b, k, n - 1)' /\ Counts(p, k, n - 1)' /\ Faithful'
         /\ mosi' \in {0, 1} /\ line' \in {0, 1} /\ still' \in BOOLEAN
         /\ heard' \in Seq({0, 1}) /\ said' \in Seq({0, 1}) /\ buffer' \in Seq({0, 1})
    BY <1>0, <2>1, <2>6, <2>8, <2>9, OpDoes
  <2>11. SoftTypes'
    BY <1>0, <2>10 DEF SoftTypes
  <2>12. InTurn(p)' /\ (room > 0 => p.sample # 0)'
    BY <1>0, <2>1 DEF InTurn
  <2>13. CASE n = 1
    <3>1. Wires(p, b, k, 0)' /\ Counts(p, k, 0)'
      BY <2>10, <2>13
    <3>2. SoftAfter(k + 1)'
      BY <2>12, <3>1, BitEnds
    <3>3. PICK j \in Nat : j = k + 1
      BY <2>6
    <3>4. SoftAfter(j)' /\ j = Len(want') - Len(left)
      BY <1>0, <2>6, <3>2, <3>3 DEF BitsDone
    <3>5. Follows(left, frame9)
      BY <1>0, <2>2, <2>13
    <3>6. Len(left) <= Len(want') /\ \A i \in 1 .. Len(left) : left[i] = want'[Len(want') - Len(left) + i]
      BY <1>0, <1>1
    <3>7. QED BY <1>0, <1>1, <2>10, <2>11, <3>4, <3>5, <3>6, FollowsKeeps
  <2>14. CASE n # 1
    <3>1. ops' = Tail(ops) /\ left' = left /\ frame9' = frame9 /\ BitsDone' = BitsDone
      BY <1>0, <2>2, <2>14 DEF BitsDone
    <3>2. /\ Len(ops') = n - 1 /\ ops' \in Seq(SoftOps)
          /\ \A i \in 1 .. n - 1 : ops'[i] = ops[i + 1]
      BY <1>0, <2>0, <2>2, <3>1
    <3>3. n - 1 \in 1 .. p.len
      BY <2>6, <2>14
    <3>4. ASSUME NEW i \in 1 .. n - 1 PROVE InPlan(ops[i], n - 1 - i + 1, p, b)'
      <4>1. i + 1 \in 1 .. Len(ops) /\ Len(ops) - (i + 1) + 1 = n - 1 - i + 1
        BY <2>2, <2>6
      <4>2. InPlan(ops[i + 1], n - 1 - i + 1, p, b)
        BY <2>1, <2>4, <4>1
      <4>3. ops'[i] = ops[i + 1]
        BY <3>2
      <4>4. QED BY <1>0, <4>2, <4>3 DEF InPlan, Lead, Trail
    <3>5. SoftLeft'
      BY <1>0, <3>1 DEF SoftLeft
    <3>6. (want[BitsDone])' = b /\ (BitsDone - 1)' = k /\ Len(ops)' = n - 1
      BY <1>0, <2>3, <2>4, <3>1, <3>2
    <3>7. /\ Wires(p, want[BitsDone], BitsDone - 1, Len(ops))' /\ Counts(p, BitsDone - 1, Len(ops))'
          /\ \A i \in 1 .. Len(ops') : InPlan(ops[i], Len(ops) - i + 1, p, want[BitsDone])'
      BY <2>10, <3>4, <3>6 DEF Wires, Counts, InPlan
    <3>8. SoftSending'
      BY <2>0, <2>12, <3>1, <3>2, <3>3, <3>6, <3>7 DEF SoftSending
    <3>9. QED BY <2>10, <2>11, <3>5, <3>8 DEF SoftInv
  <2>15. QED BY <2>13, <2>14
<1>4. QED BY <1>2, <1>3 DEF SoftInv

\* A call begins.
LEMMA BeginsKeeps ==
  ASSUME SoftInv, NEW bits \in Seq({0, 1}), NEW n \in Nat, n <= Len(bits), Begins(bits, n)
  PROVE  SoftTypes' /\ Faithful' /\ SoftAfter(0)' /\ wiring' = wiring /\ want' = bits /\ room' = n
<1>1. /\ ops = <<>> /\ want' = bits /\ room' = n /\ heard' = <<>> /\ said' = <<>> /\ buffer' = <<>>
      /\ UNCHANGED <<wiring, sck, mosi, cs, drives, still, line>>
  BY DEF Begins
<1>2. SoftClosing
  BY <1>1 DEF SoftInv, SoftSending
<1>3. SoftTypes'
  BY <1>1 DEF SoftInv, SoftTypes
<1>4. Faithful'
  BY <1>1 DEF Faithful
<1>5. SoftAfter(0)'
  BY <1>1, <1>2 DEF SoftClosing, SoftAfter
<1>6. QED BY <1>1, <1>3, <1>4, <1>5

LEMMA BitsAre ==
  ASSUME NEW n \in Nat, NEW s \in Bits(n)
  PROVE  s \in Seq({0, 1}) /\ Len(s) = n /\ \A i \in 1 .. n : s[i] \in {0, 1}
BY DEF Bits

LEMMA Transfer8Keeps ==
  ASSUME SoftInv, Transfer8
  PROVE  SoftInv'
<1>1. PICK m \in 0 .. MaxBytes, n \in 0 .. MaxBytes : \E tx \in Bits(m * Width) :
        LET sent == tx \o [i \in 1 .. (IF n > m THEN (n - m) * Width ELSE 0) |-> 0]
        IN  Begins(sent, n * Width) /\ Follows(sent, FALSE)
  BY DEF Transfer8
<1>2. PICK tx \in Bits(m * Width) :
        LET sent == tx \o [i \in 1 .. (IF n > m THEN (n - m) * Width ELSE 0) |-> 0]
        IN  Begins(sent, n * Width) /\ Follows(sent, FALSE)
  BY <1>1
<1>3. m \in Nat /\ n \in Nat /\ Width \in Nat
  BY SoftSpiAssumption
<1> DEFINE more == IF n > m THEN (n - m) * Width ELSE 0
<1>4. PICK z : z = [i \in 1 .. more |-> 0]
  OBVIOUS
<1>5. more \in Nat /\ m * Width \in Nat /\ n * Width \in Nat /\ n * Width <= m * Width + more
  <2>1. m * Width \in Nat /\ n * Width \in Nat
    BY <1>3
  <2>2. CASE n > m
    <3>1. n - m \in Nat /\ n = m + (n - m)
      BY <1>3, <2>2
    <3>2. (m + (n - m)) * Width = m * Width + (n - m) * Width /\ (n - m) * Width \in Nat
      BY <1>3, <3>1
    <3>3. QED BY <2>1, <2>2, <3>1, <3>2
  <2>3. CASE ~(n > m)
    <3>1. m - n \in Nat /\ m = n + (m - n)
      BY <1>3, <2>3
    <3>2. (n + (m - n)) * Width = n * Width + (m - n) * Width /\ (m - n) * Width \in Nat
      BY <1>3, <3>1
    <3>3. QED BY <2>1, <2>3, <3>1, <3>2
  <2>4. QED BY <2>2, <2>3
<1>6. PICK s : s = tx \o z
  OBVIOUS
<1>7. Begins(s, n * Width) /\ Follows(s, FALSE)
  BY <1>2, <1>4, <1>6
<1> HIDE DEF more
<1>8. z \in Seq({0, 1}) /\ Len(z) = more
  BY <1>4, <1>5
<1>9. tx \in Seq({0, 1}) /\ Len(tx) = m * Width
  BY <1>5, BitsAre
<1>10. s \in Seq({0, 1}) /\ Len(s) = m * Width + more
  BY <1>6, <1>8, <1>9, ConcatProperties
<1>11. PICK r \in Nat : r = n * Width
  BY <1>5
<1>12. SoftTypes' /\ Faithful' /\ SoftAfter(0)' /\ wiring' = wiring /\ want' = s
  BY <1>5, <1>7, <1>10, <1>11, BeginsKeeps
<1>13. /\ Len(s) <= Len(want') /\ \A i \in 1 .. Len(s) : s[i] = want'[Len(want') - Len(s) + i]
       /\ 0 = Len(want') - Len(s) /\ 0 \in Nat /\ FALSE \in BOOLEAN
  BY <1>5, <1>10, <1>12
<1>14. QED BY <1>7, <1>10, <1>12, <1>13, FollowsKeeps

LEMMA Send9BitKeeps ==
  ASSUME SoftInv, Send9Bit
  PROVE  SoftInv'
<1>1. PICK dc \in {0, 1}, bits \in Bits(Width) :
        Begins(<<dc>> \o bits, 0) /\ ops' = DcOps(dc) /\ left' = bits /\ frame9' = TRUE
  BY DEF Send9Bit
<1>2. bits \in Seq({0, 1}) /\ Len(bits) = Width /\ Width \in Nat
  BY BitsAre, SoftSpiAssumption
<1>3. PICK s : s = <<dc>> \o bits
  OBVIOUS
<1>4. /\ s \in Seq({0, 1}) /\ Len(s) = Width + 1 /\ s[1] = dc
      /\ \A i \in 1 .. Width : s[i + 1] = bits[i]
  BY <1>2, <1>3
<1>5. /\ SoftTypes' /\ Faithful' /\ SoftAfter(0)' /\ wiring' = wiring /\ want' = s /\ room' = 0
  <2>1. 0 \in Nat /\ 0 <= Len(s) /\ Begins(s, 0)
    BY <1>1, <1>2, <1>3, <1>4
  <2>2. QED BY <1>4, <2>1, BeginsKeeps
<1>6. BitsDone' = 0 + 1
  BY <1>1, <1>2, <1>4, <1>5 DEF BitsDone
<1>7. SoftLeft'
  <2>1. ASSUME NEW i \in 1 .. Len(left') PROVE left'[i] = want'[BitsDone' + i]
    <3>1. i \in 1 .. Width /\ BitsDone' + i = i + 1
      BY <1>1, <1>2, <1>6
    <3>2. QED BY <1>1, <1>4, <1>5, <3>1
  <2>2. Len(left') <= Len(want') /\ left' \in Seq({0, 1}) /\ frame9' \in BOOLEAN
    BY <1>1, <1>2, <1>4, <1>5
  <2>3. QED BY <2>1, <2>2 DEF SoftLeft
<1>8. Planned(ops', dc, FALSE)
  <2>1. wiring \in [cpol : {0, 1}, cpha : {0, 1}, three : BOOLEAN]
    BY DEF SoftInv, SoftTypes
  <2>2. QED BY <1>1, <2>1, DcPlanned
<1>9. SoftSending'
  <2>1. dc = want'[BitsDone'] /\ 0 \in Nat /\ ~(room' > 0)
    BY <1>4, <1>5, <1>6
  <2>2. QED BY <1>5, <1>6, <1>8, <2>1, PlanStarts
<1>10. QED BY <1>5, <1>7, <1>9 DEF SoftInv

LEMMA SoftStart == SoftSpiInit => SoftInv
<1> SUFFICES ASSUME SoftSpiInit PROVE SoftInv
  OBVIOUS
<1>1. /\ wiring \in [cpol : {0, 1}, cpha : {0, 1}, three : BOOLEAN]
      /\ ops = <<>> /\ left = <<>> /\ frame9 = FALSE /\ want = <<>> /\ room = 0
      /\ sck = wiring.cpol /\ mosi = 1 /\ drives = 1 /\ still = FALSE
      /\ line = 0 /\ heard = <<>> /\ said = <<>> /\ buffer = <<>>
  BY DEF SoftSpiInit
<1>2. /\ \A S : <<>> \in Seq(S)
      /\ Len(<<>>) = 0 /\ \A i \in 1 .. Len(<<>>) : FALSE
  OBVIOUS
<1>3. SoftTypes
  <2>1. /\ want \in Seq({0, 1}) /\ heard \in Seq({0, 1}) /\ said \in Seq({0, 1})
        /\ buffer \in Seq({0, 1}) /\ left \in Seq({0, 1})
    BY <1>1, <1>2
  <2>2. Len(want) = 0 /\ Len(left) = 0 /\ room = 0 /\ mosi \in {0, 1} /\ line \in {0, 1}
    BY <1>1
  <2>3. still \in BOOLEAN
    BY <1>1
  <2>4. room \in Nat /\ room <= Len(want)
    BY <2>2
  <2>5. QED BY <1>1, <2>1, <2>2, <2>3, <2>4, Zenon DEF SoftTypes
<1>4. Faithful
  BY <1>1, <1>2 DEF Faithful
<1>5. BitsDone = 0
  BY <1>1, <1>2 DEF BitsDone
<1>6. SoftLeft
  <2>1. left \in Seq({0, 1}) /\ Len(left) = 0 /\ Len(want) = 0 /\ frame9 \in BOOLEAN
    BY <1>1, <1>2
  <2>2. QED BY <2>1 DEF SoftLeft
<1>7. SoftClosing
  BY <1>1, <1>2, <1>5 DEF SoftClosing, SoftAfter
<1>8. QED BY <1>3, <1>4, <1>6, <1>7 DEF SoftInv

LEMMA SoftKeeps == SoftInv /\ [SoftSpiStep]_softVars => SoftInv'
<1>1. CASE SoftInv /\ UNCHANGED softVars
  <2>1. /\ UNCHANGED <<wiring, ops, left, frame9, want, room>>
        /\ UNCHANGED <<sck, mosi, drives, still, line, heard, said, buffer>>
    BY <1>1 DEF softVars
  <2>2. SoftTypes' /\ SoftLeft' /\ Faithful' /\ BitsDone' = BitsDone
    BY <1>1, <2>1 DEF SoftInv, SoftTypes, SoftLeft, Faithful, BitsDone
  <2>3. SoftClosing => SoftClosing'
    BY <2>1, <2>2 DEF SoftClosing, SoftAfter
  <2>4. SoftSending => SoftSending'
    <3>1. ASSUME NEW p, NEW b, NEW k, NEW n
          PROVE  /\ InTurn(p) => InTurn(p)'
                 /\ Wires(p, b, k, n) => Wires(p, b, k, n)'
                 /\ Counts(p, k, n) => Counts(p, k, n)'
                 /\ \A i : InPlan(ops[i], n, p, b) => InPlan(ops[i], n, p, b)'
      <4>1. InTurn(p) => InTurn(p)'
        BY <2>1 DEF InTurn
      <4>2. Wires(p, b, k, n) => Wires(p, b, k, n)'
        BY <2>1 DEF Wires
      <4>3. Counts(p, k, n) => Counts(p, k, n)'
        BY <2>1 DEF Counts
      <4>4. \A i : InPlan(ops[i], n, p, b) => InPlan(ops[i], n, p, b)'
        BY <2>1 DEF InPlan, Lead, Trail
      <4>5. QED BY <4>1, <4>2, <4>3, <4>4
    <3>2. PICK b, k, n : b = want[BitsDone] /\ k = BitsDone - 1 /\ n = Len(ops)
      OBVIOUS
    <3>3. ASSUME SoftSending PROVE SoftSending'
      <4>1. PICK p \in Plan :
              /\ InTurn(p) /\ (room > 0 => p.sample # 0) /\ n \in 1 .. p.len
              /\ \A i \in 1 .. n : InPlan(ops[i], n - i + 1, p, b)
              /\ Wires(p, b, k, n) /\ Counts(p, k, n)
        BY <3>2, <3>3 DEF SoftSending
      <4>2. /\ InTurn(p)' /\ (room > 0 => p.sample # 0)' /\ n \in 1 .. p.len
            /\ \A i \in 1 .. n : InPlan(ops[i], n - i + 1, p, b)'
            /\ Wires(p, b, k, n)' /\ Counts(p, k, n)'
        BY <2>1, <3>1, <4>1
      <4>3. b = (want[BitsDone])' /\ k = (BitsDone - 1)' /\ n = Len(ops)'
        BY <2>1, <2>2, <3>2
      <4>4. QED BY <2>1, <2>2, <3>3, <4>2, <4>3 DEF SoftSending, Wires, Counts, InPlan
    <3>4. QED BY <3>3
  <2>5. QED BY <1>1, <2>2, <2>3, <2>4 DEF SoftInv
<1>2. QED
  BY <1>1, PinOpKeeps, Transfer8Keeps, Send9BitKeeps DEF SoftSpiStep

LEMMA SoftMeans == SoftInv => SoftSpiKept
<1> SUFFICES ASSUME SoftInv PROVE SoftSpiKept
  OBVIOUS
<1>1. /\ SoftTypes /\ Faithful /\ want \in Seq({0, 1}) /\ heard \in Seq({0, 1}) /\ buffer \in Seq({0, 1})
      /\ said \in Seq({0, 1}) /\ room \in Nat /\ room <= Len(want) /\ Len(want) \in Nat
  BY DEF SoftInv, SoftTypes
<1>2. ASSUME ops = <<>>
      PROVE  /\ sck = wiring.cpol /\ Len(said) = Len(want) /\ Len(heard) = Len(want)
             /\ room > 0 => Len(buffer) = Len(want)
  <2>1. SoftClosing
    BY <1>2 DEF SoftInv, SoftSending
  <2>2. BitsDone = Len(want)
    BY <1>1, <2>1 DEF SoftClosing, BitsDone
  <2>3. QED BY <2>1, <2>2 DEF SoftClosing, SoftAfter
<1>3. BitsArrive
  <2>1. ASSUME ops = <<>>, ~(wiring.three /\ wiring.cpha = 1) PROVE heard = want
    <3>1. Len(heard) = Len(want) /\ \A i \in 1 .. Len(heard) : heard[i] = want[i]
      BY <1>1, <1>2, <2>1 DEF Faithful
    <3>2. QED BY <1>1, <3>1, SeqEqual
  <2>2. QED BY <2>1 DEF BitsArrive
<1>4. AnswersRead
  <2>1. ASSUME ops = <<>> PROVE SubSeq(buffer, 1, room) = SubSeq(said, 1, room)
    <3>1. CASE room = 0
      BY <1>1, <3>1
    <3>2. CASE room # 0
      <4>1. Len(buffer) = Len(said) /\ \A i \in 1 .. Len(buffer) : buffer[i] = said[i]
        BY <1>1, <1>2, <2>1, <3>2 DEF Faithful
      <4>2. buffer = said
        BY <1>1, <4>1, SeqEqual
      <4>3. QED BY <4>2
    <3>3. QED BY <3>1, <3>2
  <2>2. QED BY <2>1 DEF AnswersRead
<1>5. ClockRests
  BY <1>2 DEF ClockRests
<1>6. BitSettles
  <2>1. ASSUME ops # <<>>, wiring.cpha = 0, Head(ops) = Lead PROVE still /\ drives = 1
    <3>1. CASE SoftClosing
      BY <2>1, <3>1, OpsAre DEF SoftClosing
    <3>2. CASE SoftSending
      <4>1. PICK p \in Plan :
              /\ InTurn(p) /\ Len(ops) \in 1 .. p.len
              /\ \A i \in 1 .. Len(ops) : InPlan(ops[i], Len(ops) - i + 1, p, want[BitsDone])
              /\ Wires(p, want[BitsDone], BitsDone - 1, Len(ops))
        BY <3>2 DEF SoftSending
      <4>2. /\ p.len \in Nat /\ p.mosi \in Nat /\ p.lead \in Nat /\ p.input \in Nat
            /\ p.output \in Nat /\ p.trail \in Nat /\ Len(ops) \in Nat
        BY <4>1 DEF Plan
      <4>3. InPlan(Lead, Len(ops), p, want[BitsDone])
        <5>1. 1 \in 1 .. Len(ops) /\ Len(ops) - 1 + 1 = Len(ops) /\ ops[1] = Lead
          BY <2>1, <3>2, <4>1, <4>2 DEF SoftSending
        <5>2. InPlan(ops[1], Len(ops) - 1 + 1, p, want[BitsDone])
          BY <4>1, <5>1
        <5>3. QED BY <5>1, <5>2
      <4>4. /\ Lead # Mosi(want[BitsDone]) /\ Lead # Sample /\ Lead # Half /\ Lead # Input
            /\ Lead # Output /\ Lead # Cs(0) /\ Lead # Trail
        <5>1. wiring.cpol \in {0, 1}
          BY <1>1 DEF SoftTypes
        <5>2. QED BY <5>1, OpsAre
      <4>5. Len(ops) = p.lead
        BY <4>3, <4>4 DEF InPlan
      <4>6. QED BY <2>1, <4>1, <4>2, <4>5 DEF Wires, InTurn
    <3>3. QED BY <3>1, <3>2 DEF SoftInv
  <2>2. QED BY <2>1 DEF BitSettles
<1>7. QED BY <1>3, <1>4, <1>5, <1>6 DEF SoftSpiKept

-----------------------------------------------------------------------------
\* Every bus carries the bytes of its calls, no more and no less, and is at rest
\* between them: of the SPI master (spi.rs:342-510), with no timeout since it was
\* configured, for every size of the FIFOs and of the transfers; of the flash chip
\* (spi_flash.rs:68-241), which is awake and idle whenever it is sent a command;
\* of the UART (uart.rs), when one thread at a time is let into its driver and the
\* divisor fits its registers; and of the software SPI (soft_spi.rs:172-350), in every
\* mode on four wires and in modes 0 and 2 on three, for bytes of any width and calls of
\* any length.
BusInv == SpiInv /\ FlashInv /\ UartInv /\ SoftInv

THEOREM BusesAreKept == DevicesSpec => []BusesKept
<1>1. DevicesInit => BusInv
  BY SpiStart, FlashStart, UartStart, SoftStart DEF DevicesInit, BusInv
<1>2. BusInv /\ [DevicesNext]_deviceVars => BusInv'
  <2>1. [DevicesNext]_deviceVars =>
          [SpiStep]_spiVars /\ [FlashStep]_flashVars /\ [UartStep]_uartVars /\ [SoftSpiStep]_softVars
    BY DEF DevicesNext, Only, deviceVars
  <2>2. QED BY <2>1, SpiKeeps, FlashSteps, UartKeeps, SoftKeeps DEF BusInv
<1>3. BusInv => BusesKept
  <2>1. SUFFICES ASSUME BusInv PROVE SpiKept /\ FlashKept /\ LineKept /\ SoftSpiKept
    BY DEF BusesKept
  <2>2. SpiKept
    BY <2>1, SpiIsKept DEF BusInv
  <2>3. FlashKept
    BY <2>1 DEF BusInv, FlashInv, ChipInv, FlashKept, CommandIsTaken, ReadyAtRest
  <2>4. LineKept
    BY <2>1 DEF BusInv, UartInv, SoloInv, LineAsAsked, LineKept
  <2>5. SoftSpiKept
    BY <2>1, SoftMeans DEF BusInv
  <2>6. QED BY <2>2, <2>3, <2>4, <2>5
<1>4. QED BY <1>1, <1>2, <1>3, PTL DEF DevicesSpec

-----------------------------------------------------------------------------
(* The register accesses, from RegisterProofs.                             *)

LEMMA RegistersOfDevices ==
  ASSUME [DevicesNext]_deviceVars
  PROVE  [RegStep]_regVars
BY DEF DevicesNext, Only, deviceVars, regVars

LEMMA AccessInvSpec == DevicesSpec => []AccessInv
<1>1. DevicesInit => AccessInv
  BY KeptAtFirst, AccessAtFirst DEF DevicesInit, AccessInv, RegInv
<1>2. AccessInv /\ [DevicesNext]_deviceVars => AccessInv'
  BY RegistersOfDevices, AccessInvKept
<1>3. QED BY <1>1, <1>2, PTL DEF DevicesSpec

\* Whichever calls of a driver meet, access by access: a field holds what it was last
\* given unless two calls clashed over its word, gpio::init_default leaves the console
\* its pins (gpio.rs:333), and no interrupt is enabled before it has a handler.
THEOREM RegistersSafe == DevicesSpec => []RegistersKept
<1>1. AccessInv => RegistersKept
  BY RegInvMeans DEF AccessInv
<1>2. QED BY <1>1, AccessInvSpec, PTL

\* Whichever calls meet, no single access makes a pin an output before it drives what
\* was asked of it, clears an edge that no call has read, changes the prescaler of a
\* running channel (pwm.rs:306), or releases UART2's reset before its clock runs,
\* unless two calls clashed over the word in question.
THEOREM AccessesSafe == DevicesSpec => AccessesKept
<1>1. AccessInv /\ [DevicesNext]_deviceVars =>
        [\A c \in Contexts :
           (/\ call[c].name = "direction_output" /\ todo'[c] = <<>> /\ todo[c] # <<>>
            /\ DataWord("E") \notin clash)
           => reg[DataWord("E")][call[c].of] = asked[DataWord("E")][call[c].of]
              /\ reg'[CfgWord("E", call[c].of)][call[c].of] = OUTPUT]_regVars
  BY RegistersOfDevices, NoGlitchStep DEF AccessInv, RegInv
<1>2. AccessInv /\ [DevicesNext]_deviceVars =>
        [StaWord("E") \notin clash => \A p \in fresh \ fresh' :
           \E c \in Contexts :
             /\ todo'[c] # todo[c] /\ ~Idle(c)
             /\ Next(c).op = "rd" \/ (Next(c).op = "clear" /\ call[c].of = p)]_regVars
  BY RegistersOfDevices, UnseenStep DEF AccessInv, RegInv
<1>3. AccessInv /\ [DevicesNext]_deviceVars =>
        [area = "pwm" => \A ch \in {0, 1} :
           (/\ PwmCtrl \notin clash'
            /\ reg'[PwmCtrl][Prescal(ch)] # reg[PwmCtrl][Prescal(ch)])
           => reg[PwmCtrl][Gating(ch)] = 0]_regVars
  BY RegistersOfDevices, PrescalerStep DEF AccessInv, RegInv
<1>4. AccessInv /\ [DevicesNext]_deviceVars =>
        [(/\ area = "gates" /\ GateWord(Uart2) \notin clash
          /\ reg[ResetWord(Uart2)][Uart2[2]] = 0 /\ reg'[ResetWord(Uart2)][Uart2[2]] = 1)
         => reg[GateWord(Uart2)][Uart2[2]] = 1]_regVars
  BY RegistersOfDevices, ClockFields, ResetStep DEF AccessInv, RegInv
<1>5. QED
  BY <1>1, <1>2, <1>3, <1>4, AccessInvSpec, PTL
     DEF DevicesSpec, AccessesKept, NoGlitch, UnseenEdgesKept, PrescalerChangesGated,
         ResetWhileClocked

-----------------------------------------------------------------------------
(* The types of the parts.                                                *)

LEMMA HeapTypes ==
  ASSUME HeapGood(free, live)
  PROVE  HeapTypeOK
<1>0. HeapStart \in Nat /\ HeapWords \in Nat
  BY HeapAssumption
<1>1. ASSUME NEW i \in DOMAIN free
      PROVE  Region(free[i].at, free[i].size) \subseteq Region(HeapStart, HeapWords)
  <2>1. i \in 1 .. Len(free) /\ free[i].at \in Nat /\ free[i].size \in Nat
    <3>1. free \in Seq(HeapBlock)
      BY DEF HeapGood, ListOK
    <3>2. i \in 1 .. Len(free) /\ free[i] \in HeapBlock
      BY <3>1
    <3>3. QED BY <3>2 DEF HeapBlock
  <2>2. CASE free[i].size = 0
    BY <2>1, <2>2 DEF Region
  <2>3. CASE free[i].size # 0
    <3>1. HeapStart <= free[i].at /\ free[i].at + free[i].size <= HeapEnd
      BY <2>1, <2>3 DEF HeapGood, ListOK
    <3>2. QED BY <1>0, <2>1, <3>1 DEF Region, HeapEnd
  <2>4. QED BY <2>2, <2>3
<1>2. ASSUME NEW a \in live
      PROVE  Region(a.at, a.size) \subseteq Region(HeapStart, HeapWords)
  <2>1. a.at \in Nat /\ a.size \in Nat /\ HeapStart <= a.at /\ a.at + a.size <= HeapEnd
    BY DEF HeapGood, BlockOK
  <2>2. QED BY <1>0, <2>1 DEF Region, HeapEnd
<1>3. QED BY <1>1, <1>2 DEF HeapTypeOK

-----------------------------------------------------------------------------
LEMMA FlashTypes ==
  ASSUME FlashInv
  PROVE  FlashTypeOK
<1>1. FlashShape
  BY DEF FlashInv
<1>2. PageSize \in Nat \ {0} /\ Pages \in Nat \ {0}
  BY FlashAssumption
<1> DEFINE size == PageSize * Pages
<1>3. size \in Nat /\ 1 <= size
  BY <1>2, Z3
<1>4. offset \in 0 .. size - 1
  <2> HIDE DEF size
  <2>1. CASE flashAt = "idle"
    BY <1>1, <1>3, <2>1 DEF FlashShape
  <2>2. CASE flashAt # "idle" /\ flashCall.name = "write"
    <3>1. flashCall \in FlashCalls /\ Allowed(flashCall) /\ offset \in Nat /\ offset < flashCall.len
      BY <1>1, <2>2 DEF FlashShape
    <3>2. flashCall.addr \in Nat /\ flashCall.len \in Nat
      BY <3>1, FlashCallIs
    <3>3. flashCall.addr + flashCall.len <= size
      BY <2>2, <3>1 DEF Allowed, size
    <3>4. QED BY <1>3, <3>1, <3>2, <3>3
  <2>3. CASE flashAt # "idle" /\ flashCall.name # "write"
    BY <1>1, <1>3, <2>3 DEF FlashShape
  <2>4. QED BY <2>1, <2>2, <2>3
<1>5. QED BY <1>1, <1>4 DEF FlashTypeOK, FlashShape

-----------------------------------------------------------------------------
LcdTypes == LcdTypeOK /\ DOMAIN layer = {"lo", "hi", "set", "on"}

LEMMA LcdTypesStart == LcdInit => LcdTypes
<1>1. 0 \in 0 .. LowModulus - 1 /\ 0 \in 0 .. MaxWatch
  BY LcdAssumption
<1>2. QED BY <1>1 DEF LcdInit, LcdTypes, LcdTypeOK, Blanked

LEMMA AddressSplits ==
  ASSUME DOMAIN layer = {"lo", "hi", "set", "on"}, NEW fb \in Buffers
  PROVE  /\ DOMAIN SetAddr(fb) = {"lo", "hi", "set", "on"}
         /\ SetAddr(fb).lo \in 0 .. LowModulus - 1
         /\ DOMAIN [SetAddr(fb) EXCEPT !.on = TRUE] = {"lo", "hi", "set", "on"}
         /\ [SetAddr(fb) EXCEPT !.on = TRUE].lo \in 0 .. LowModulus - 1
<1>1. LowModulus \in Nat \ {0} /\ fb \in Nat
  BY LcdAssumption
<1> DEFINE r == fb % LowModulus
<1>2. r \in Nat /\ r < LowModulus
  BY <1>1, Division
<1>3. r \in 0 .. LowModulus - 1
  <2> HIDE DEF r
  <2>1. QED BY <1>1, <1>2
<1>4. QED BY <1>3 DEF SetAddr

LEMMA LcdTypesKept ==
  ASSUME LcdTypes, [LcdStep]_lcdVars
  PROVE  LcdTypes'
<1>0. 0 \in 0 .. LowModulus - 1 /\ MaxWatch \in Nat /\ 0 \in 0 .. MaxWatch
  BY LcdAssumption
<1> USE DEF LcdTypes, LcdTypeOK
<1>1. CASE ResetDefe \/ ResetDebe \/ ResetTcon
  <2>1. CASE ResetDefe
    BY <2>1 DEF ResetDefe, Moves, Blocks, vblankVars
  <2>2. CASE ResetDebe
    BY <1>0, <2>2 DEF ResetDebe, Moves, Blanked, Blocks, vblankVars
  <2>3. CASE ResetTcon
    BY <2>3 DEF ResetTcon, Moves, Blocks
  <2>4. QED BY <1>1, <2>1, <2>2, <2>3
<1>2. CASE EnableClocks \/ DeassertResets
  BY <1>2 DEF EnableClocks, ClockBlock, DeassertResets, ReleaseBlock, Moves, Blocks, vblankVars
<1>3. CASE ProgramPanel
  BY <1>0, <1>3 DEF ProgramPanel, Moves, Blanked, vblankVars
<1>4. CASE LayerInit
  <2>1. PICK fb \in Buffers : layer' = [SetAddr(fb) EXCEPT !.on = TRUE]
    BY <1>4 DEF LayerInit
  <2>2. DOMAIN layer' = {"lo", "hi", "set", "on"} /\ layer'.lo \in 0 .. LowModulus - 1
    BY <2>1, AddressSplits
  <2>3. QED BY <1>4, <2>2 DEF LayerInit, Moves, vblankVars
<1>5. CASE OutputEnable \/ OutputDisable
  BY <1>5 DEF OutputEnable, OutputDisable, Moves, vblankVars
<1>6. CASE FlipFramebuffer
  <2>1. PICK fb \in Buffers : layer' = SetAddr(fb)
    BY <1>6 DEF FlipFramebuffer
  <2>2. DOMAIN layer' = {"lo", "hi", "set", "on"} /\ layer'.lo \in 0 .. LowModulus - 1
    BY <2>1, AddressSplits
  <2>3. QED BY <1>6, <2>2 DEF FlipFramebuffer, vblankVars
<1>7. ASSUME NEW t \in Pollers, WaitCall(t)
      PROVE  LcdTypes'
  BY <1>7 DEF WaitCall, displayVars
<1>8. ASSUME NEW t \in Pollers, WaitClear(t)
      PROVE  LcdTypes'
  BY <1>0, <1>8 DEF WaitClear, displayVars
<1>9. ASSUME NEW t \in Pollers, WaitSees(t) \/ WaitGivesUp(t)
      PROVE  LcdTypes'
  <2>1. /\ watch' = [watch EXCEPT ![t] = 0] /\ saw' \in {"edge", "timeout"}
        /\ UNCHANGED <<bringUp, inReset, clocked, layer>>
    BY <1>9 DEF WaitSees, WaitGivesUp, Returns, displayVars
  <2>2. QED BY <1>0, <2>1
<1>10. CASE EnableVblankIrq \/ VblankIsr
  BY <1>10 DEF EnableVblankIrq, VblankIsr, displayVars
<1>11. CASE BlankBegins
  BY <1>11 DEF BlankBegins, displayVars
<1>12. CASE BlankEnds
  BY <1>12 DEF BlankEnds, displayVars, vblankVars
<1>13. CASE WatchTick
  <2>1. /\ watch' = [t \in Pollers |-> IF polling[t] = "poll" THEN watch[t] + 1 ELSE 0]
        /\ \A t \in Pollers : watch[t] < MaxWatch /\ watch[t] \in 0 .. MaxWatch
        /\ UNCHANGED <<bringUp, inReset, clocked, layer, saw>>
    BY <1>13 DEF WatchTick, displayVars
  <2>2. ASSUME NEW t \in Pollers
        PROVE  watch[t] + 1 \in 0 .. MaxWatch
    <3>1. watch[t] < MaxWatch /\ watch[t] \in 0 .. MaxWatch
      BY <2>1
    <3>2. QED BY ONLY <1>0, <3>1
  <2>3. QED BY <1>0, <2>1, <2>2
<1>14. CASE UNCHANGED lcdVars
  BY <1>14 DEF lcdVars
<1>15. QED BY <1>1, <1>2, <1>3, <1>4, <1>5, <1>6, <1>7, <1>8, <1>9, <1>10, <1>11, <1>12, <1>13, <1>14
       DEF LcdStep

\* The counter is loaded with an interval, which it has room for.
LEMMA CurvIs ==
  /\ 0 \in 0 .. CurvModulus - 1 /\ Intervals \cup {1} \subseteq 0 .. CurvModulus - 1
  /\ CurvModulus \in Nat
BY TimersAssumption

LEMMA TimersTypesStart == TimersInit => TimersTypeOK
BY CurvIs DEF TimersInit, TimersTypeOK, Isrs, Modes

\* What a channel that is started is given.
LEMMA StartTypes ==
  ASSUME TimersTypeOK, NEW c \in Channels, NEW n \in Intervals \cup {1}, NEW mode,
         StartRegs(c, n, mode), UNCHANGED <<isrOf, wanted>>
  PROVE  TimersTypeOK'
<1>1. /\ intv' = [intv EXCEPT ![c] = n]
      /\ ctrl' = [ctrl EXCEPT ![c] = [en |-> TRUE, oneshot |-> mode = "OneShot"]]
      /\ curv' = [curv EXCEPT ![c] = intv'[c]]
  BY DEF StartRegs, Enabled
<1>2. ctrl' \in [Channels -> [en : BOOLEAN, oneshot : BOOLEAN]]
  <2>1. [en |-> TRUE, oneshot |-> mode = "OneShot"] \in [en : BOOLEAN, oneshot : BOOLEAN]
    OBVIOUS
  <2>2. QED BY <1>1, <2>1 DEF TimersTypeOK
<1>3. intv' \in [Channels -> Intervals \cup {1}] /\ intv'[c] = n
  BY <1>1 DEF TimersTypeOK
<1>4. curv' \in [Channels -> 0 .. CurvModulus - 1]
  <2>1. n \in 0 .. CurvModulus - 1
    BY CurvIs
  <2>2. QED BY <1>1, <1>3, <2>1 DEF TimersTypeOK
<1>5. QED BY <1>2, <1>3, <1>4 DEF TimersTypeOK

LEMMA TimersTypesKept ==
  ASSUME TimersTypeOK, [TimersStep]_timerVars
  PROVE  TimersTypeOK'
<1>0. \A c \in Channels : ctrl[c] \in [en : BOOLEAN, oneshot : BOOLEAN]
  BY DEF TimersTypeOK
<1>1. ASSUME NEW c \in Channels, NEW b \in BOOLEAN, ctrl' = [ctrl EXCEPT ![c].en = b]
      PROVE  ctrl' \in [Channels -> [en : BOOLEAN, oneshot : BOOLEAN]]
  <2>1. [ctrl[c] EXCEPT !.en = b] \in [en : BOOLEAN, oneshot : BOOLEAN]
    BY <1>0
  <2>2. QED BY <1>1, <2>1 DEF TimersTypeOK
<1>2. ASSUME NEW c \in Channels, Stop(c)
      PROVE  TimersTypeOK'
  BY <1>1, <1>2 DEF Stop, BeginStop, TimersTypeOK
<1>3. ASSUME NEW c \in Channels, StopDone(c)
      PROVE  TimersTypeOK'
  BY <1>3 DEF StopDone, TimersTypeOK
<1>4. ASSUME NEW c \in Channels, BeginConfigure(c)
      PROVE  TimersTypeOK'
  <2>1. PICK k \in Settings : wanted' = [wanted EXCEPT ![c] = k]
    BY <1>4 DEF BeginConfigure
  <2>2. UNCHANGED <<intv, curv, isrOf>>
    BY <1>4 DEF BeginConfigure
  <2>3. ctrl' = [ctrl EXCEPT ![c].en = FALSE] \/ UNCHANGED ctrl
    BY <1>4 DEF BeginConfigure, BeginStop
  <2>4. ctrl' \in [Channels -> [en : BOOLEAN, oneshot : BOOLEAN]]
    BY <1>1, <2>3 DEF TimersTypeOK
  <2>5. wanted' \in [Channels -> [mode : Modes, interval : Intervals \cup {1}]]
    BY <2>1 DEF TimersTypeOK, Settings
  <2>6. QED BY <2>2, <2>4, <2>5 DEF TimersTypeOK
<1>5. ASSUME NEW c \in Channels, TimerConfigure(c)
      PROVE  TimersTypeOK'
  <2>1. /\ ctrl' = [ctrl EXCEPT ![c] = [en |-> FALSE, oneshot |-> wanted[c].mode = "OneShot"]]
        /\ intv' = [intv EXCEPT ![c] = wanted[c].interval]
        /\ UNCHANGED <<curv, isrOf, wanted>>
    BY <1>5 DEF TimerConfigure, ConfigureRegs
  <2>2. [en |-> FALSE, oneshot |-> wanted[c].mode = "OneShot"] \in [en : BOOLEAN, oneshot : BOOLEAN]
    OBVIOUS
  <2>3. wanted[c].interval \in Intervals \cup {1}
    BY DEF TimersTypeOK
  <2>4. QED BY <2>1, <2>2, <2>3 DEF TimersTypeOK
<1>6. ASSUME NEW c \in Channels, Start(c)
      PROVE  TimersTypeOK'
  <2>1. PICK k \in Settings : StartRegs(c, k.interval, k.mode)
    BY <1>6 DEF Start
  <2>2. k.interval \in Intervals \cup {1}
    BY DEF Settings
  <2>3. UNCHANGED <<isrOf, wanted>>
    BY <1>6 DEF Start
  <2>4. QED BY <2>1, <2>2, <2>3, StartTypes
<1>7. ASSUME NEW c \in Channels, OneshotEnable(c)
      PROVE  TimersTypeOK'
  <2>1. /\ ctrl' = [ctrl EXCEPT ![c].en = TRUE] /\ curv' = [curv EXCEPT ![c] = intv[c]]
        /\ UNCHANGED <<intv, isrOf, wanted>>
    BY <1>7 DEF OneshotEnable, Enabled
  <2>2. intv[c] \in 0 .. CurvModulus - 1
    BY CurvIs DEF TimersTypeOK
  <2>3. ctrl' \in [Channels -> [en : BOOLEAN, oneshot : BOOLEAN]]
    BY <1>1, <2>1
  <2>4. QED BY <2>1, <2>2, <2>3 DEF TimersTypeOK
<1>8. ASSUME NEW c \in Channels,
             InstallCallback(c) \/ EnableInterrupt(c) \/ DisableInterrupt(c)
               \/ ClearInterrupt(c) \/ UnmaskVector(c) \/ SystickIsr
      PROVE  TimersTypeOK'
  <2>1. UNCHANGED <<ctrl, intv, curv, isrOf, wanted>>
    BY <1>8 DEF InstallCallback, EnableInterrupt, DisableInterrupt, ClearInterrupt, UnmaskVector,
                SystickIsr
  <2>2. QED BY <2>1 DEF TimersTypeOK
<1>9. ASSUME NEW c \in Channels, InstallIsr(c) \/ (c = 0 /\ SystickInstall)
      PROVE  TimersTypeOK'
  <2>1. /\ \E isr \in Isrs : isrOf' = [isrOf EXCEPT ![c] = isr]
        /\ UNCHANGED <<ctrl, intv, curv, wanted>>
    BY <1>9 DEF InstallIsr, SystickInstall, SetEntry, Isrs
  <2>2. QED BY <2>1 DEF TimersTypeOK
<1>10. CASE SystickStart
  <2>1. 0 \in Channels
    BY TimersAssumption
  <2>2. wanted[0].interval \in Intervals \cup {1}
    BY <2>1 DEF TimersTypeOK
  <2>3. StartRegs(0, wanted[0].interval, "Periodic") /\ UNCHANGED <<isrOf, wanted>>
    BY <1>10 DEF SystickStart
  <2>4. QED BY <2>1, <2>2, <2>3, StartTypes
<1>11. ASSUME NEW c \in Channels, Count(c)
       PROVE  TimersTypeOK'
  <2>1. UNCHANGED <<intv, isrOf, wanted>>
    BY <1>11 DEF Count
  <2>2. UNCHANGED ctrl \/ ctrl' = [ctrl EXCEPT ![c].en = FALSE]
    BY <1>11 DEF Count
  <2>3. \/ UNCHANGED curv \/ curv' = [curv EXCEPT ![c] = intv[c]]
        \/ curv[c] > 0 /\ curv' = [curv EXCEPT ![c] = @ - 1]
    BY <1>11 DEF Count
  <2>4. ctrl' \in [Channels -> [en : BOOLEAN, oneshot : BOOLEAN]]
    BY <1>1, <2>2 DEF TimersTypeOK
  <2>5. /\ curv[c] \in 0 .. CurvModulus - 1 /\ intv[c] \in 0 .. CurvModulus - 1
        /\ curv[c] > 0 => curv[c] - 1 \in 0 .. CurvModulus - 1
    BY CurvIs DEF TimersTypeOK
  <2>6. curv' \in [Channels -> 0 .. CurvModulus - 1]
    BY <2>3, <2>5 DEF TimersTypeOK
  <2>7. QED BY <2>1, <2>4, <2>6 DEF TimersTypeOK
<1>12. ASSUME NEW c \in Channels, TimerIsr(c)
       PROVE  TimersTypeOK'
  <2>1. UNCHANGED <<isrOf, wanted>>
    BY <1>12 DEF TimerIsr
  <2>2. CASE rearms /\ callback[c]
    <3>1. PICK n \in Intervals : StartRegs(c, n, "OneShot")
      BY <1>12, <2>2 DEF TimerIsr
    <3>2. QED BY <2>1, <3>1, StartTypes
  <2>3. CASE ~(rearms /\ callback[c])
    BY <1>12, <2>1, <2>3 DEF TimerIsr, TimersTypeOK
  <2>4. QED BY <2>2, <2>3
<1>13. CASE UNCHANGED timerVars
  BY <1>13 DEF timerVars, TimersTypeOK
<1>14. QED
  BY <1>2, <1>3, <1>4, <1>5, <1>6, <1>7, <1>8, <1>9, <1>10, <1>11, <1>12, <1>13, TimersAssumption
     DEF TimersStep

-----------------------------------------------------------------------------
LEMMA SpiTypesStart == SpiInit => SpiTypeOK
<1>1. FifoSize \in Nat /\ 0 \in 0 .. FifoSize /\ Len(<<>>) = 0
  BY SpiAssumption
<1>2. 0 <= FifoSize /\ 1 \in 1 .. 3
  BY <1>1
<1>3. QED BY <1>1, <1>2 DEF SpiInit, SpiTypeOK

LEMMA SpiTypesKept ==
  ASSUME SpiInv, SpiTypeOK, [SpiStep]_spiVars
  PROVE  SpiTypeOK'
<1>0. SpiShape /\ FifoSize \in Nat /\ 0 \in 0 .. FifoSize
  BY SpiAssumption DEF SpiInv
<1>1. CASE SpiBegin
  <2>1. selected' \in BOOLEAN /\ verdict' = "Ok" /\ part' = 1 /\ UNCHANGED <<burst, xch, rxFifo>>
    BY <1>1 DEF SpiBegin
  <2>2. QED BY <2>1 DEF SpiTypeOK
<1>2. CASE SpiLoad
  <2>1. /\ spiAt = "load" /\ off < Length(Current) /\ burst' = Chunk /\ xch' = Chunk
        /\ UNCHANGED <<selected, part, rxFifo, verdict>>
    BY <1>2 DEF SpiLoad
  <2>2. Length(Current) \in Nat /\ off \in Nat
    BY <1>0, <2>1, CountsAre DEF SpiShape
  <2>3. Chunk \in 0 .. FifoSize
    BY <1>0, <2>1, <2>2 DEF Chunk, Smaller
  <2>4. QED BY <2>1, <2>3 DEF SpiTypeOK
<1>3. CASE SpiNextPart
  <2>1. part <= 2 /\ part' = part + 1 /\ UNCHANGED <<selected, burst, xch, rxFifo, verdict>>
    BY <1>3 DEF SpiNextPart
  <2>2. part' \in 1 .. 3
    BY <2>1 DEF SpiTypeOK
  <2>3. QED BY <2>1, <2>2 DEF SpiTypeOK
<1>4. CASE SpiXchDone
  BY <1>4 DEF SpiXchDone, SpiTypeOK
<1>5. CASE SpiDrain
  <2>1. /\ Len(rxFifo) >= burst /\ rxFifo' = SubSeq(rxFifo, burst + 1, Len(rxFifo))
        /\ UNCHANGED <<selected, part, burst, xch, verdict>>
    BY <1>5 DEF SpiDrain
  <2>2. burst \in Nat /\ rxFifo \in Seq(Nat) /\ Len(rxFifo) \in Nat
    BY <1>0 DEF SpiShape
  <2>3. Len(rxFifo') = Len(rxFifo) - burst
    <3>1. CASE burst = Len(rxFifo)
      BY <2>1, <2>2, <3>1
    <3>2. CASE burst # Len(rxFifo)
      BY <2>1, <2>2, <3>2
    <3>3. QED BY <3>1, <3>2
  <2>4. Len(rxFifo') <= FifoSize
    BY <1>0, <2>2, <2>3 DEF SpiTypeOK
  <2>5. QED BY <2>1, <2>4 DEF SpiTypeOK
<1>6. CASE SpiTimeout
  BY <1>6 DEF SpiTimeout, SpiTypeOK
<1>7. CASE SpiEnd
  <2>1. selected' = FALSE /\ part' = 1 /\ burst' = 0 /\ UNCHANGED <<xch, rxFifo, verdict>>
    BY <1>7 DEF SpiEnd, CallOver
  <2>2. part' \in 1 .. 3 /\ burst' \in 0 .. FifoSize
    BY <1>0, <2>1
  <2>3. selected' \in BOOLEAN
    BY <2>1
  <2>4. QED BY <2>1, <2>2, <2>3 DEF SpiTypeOK
<1>8. CASE SpiConfigure
  <2>1. selected' = FALSE /\ rxFifo' = <<>> /\ xch' = 0 /\ UNCHANGED <<part, burst, verdict>>
    BY <1>8 DEF SpiConfigure
  <2>2. Len(<<>>) <= FifoSize
    BY <1>0
  <2>3. QED BY <1>0, <2>1, <2>2 DEF SpiTypeOK
<1>9. CASE SpiShift
  <2>1. /\ xch > 0 /\ xch' = xch - 1 /\ Len(rxFifo) < FifoSize
        /\ UNCHANGED <<selected, part, burst, verdict>>
    BY <1>9 DEF SpiShift
  <2>2. xch' \in 0 .. FifoSize
    BY <1>0, <2>1 DEF SpiTypeOK
  <2>3. Len(rxFifo) \in Nat /\ Len(rxFifo') = Len(rxFifo) + 1
    <3>1. rxFifo \in Seq(Nat) /\ Len(wire) + 1 \in Nat /\ FF \in Nat
      BY <1>0 DEF SpiShape, FF
    <3>2. PICK x \in Nat : rxFifo' = Append(rxFifo, x)
      BY <1>9, <3>1 DEF SpiShift
    <3>3. QED BY <3>1, <3>2
  <2>4. Len(rxFifo') <= FifoSize
    BY <1>0, <2>1, <2>3
  <2>5. QED BY <2>1, <2>2, <2>4 DEF SpiTypeOK
<1>10. CASE UNCHANGED spiVars
  BY <1>10 DEF spiVars, SpiTypeOK
<1>11. QED BY <1>1, <1>2, <1>3, <1>4, <1>5, <1>6, <1>7, <1>8, <1>9, <1>10 DEF SpiStep

\* The fields of a PLL fit their bits, of which n has as many as top needs.
Narrow(x, top) == x.n \in 0 .. top /\ x.k \in 0 .. 3 /\ x.m \in 0 .. 15 /\ x.p \in 0 .. 3

FieldsFit ==
  /\ "CPU" \in Plls /\ "PERIPH" \in Plls /\ "VIDEO" \in Plls
  /\ Narrow(pll["CPU"], 31) /\ Narrow(pll["PERIPH"], 31) /\ Narrow(pll["VIDEO"], 127)

LEMMA NarrowSame ==
  ASSUME NEW x, NEW y, NEW top, Narrow(x, top), y.n = x.n, y.k = x.k, y.m = x.m, y.p = x.p
  PROVE  Narrow(y, top)
BY Zenon DEF Narrow

\* What is left of a multiplier after its factor fits its field less one.
LEMMA MultiplierLeft ==
  ASSUME NEW mul \in 1 .. 128, (mul \div FactorK(mul)) * FactorK(mul) = mul
  PROVE  (mul \div FactorK(mul)) - 1 \in 0 .. 31
<1> DEFINE K == FactorK(mul)
           ks == {k \in 1 .. 4 : mul \div k < 32 /\ (mul \div k) * k = mul}
<1>1. K = IF ks = {} THEN 4 ELSE CHOOSE k \in ks : \A j \in ks : k <= j
  BY Zenon DEF FactorK
<1>2. CASE ks # {}
  <2>1. ks \in SUBSET Nat
    OBVIOUS
  <2> HIDE DEF K
  <2>2. K \in ks
    <3> HIDE DEF ks
    <3>1. QED BY <1>1, <1>2, <2>1, LeastOf, Zenon
  <2>3. PICK k \in 1 .. 4 : k = K /\ mul \div k < 32 /\ (mul \div k) * k = mul
    BY <2>2
  <2>4. (mul \div k) - 1 \in 0 .. 31
    <3>1. k \in {1, 2, 3, 4}
      OBVIOUS
    <3>2. QED BY <2>3, <3>1
  <2>5. (mul \div K) - 1 \in 0 .. 31
    BY <2>3, <2>4
  <2>6. QED BY <2>5 DEF K
<1>3. CASE ks = {}
  <2>1. K = 4
    BY <1>1, <1>3
  <2>2. (mul \div 4) * 4 = mul
    BY <2>1
  <2>3. (mul \div 4) - 1 \in 0 .. 31
    BY <2>2
  <2>4. QED BY <2>1, <2>3
<1>4. QED BY <1>2, <1>3

LEMMA CpuFieldsFit ==
  ASSUME NEW mul \in 1 .. 128, NEW div \in 1 .. 16, Encodable(mul, div)
  PROVE  Narrow(CpuFields(mul, div), 31)
<1> DEFINE K == FactorK(mul)
           M == FactorM(div)
<1>1. K \in 1 .. 4 /\ M \in 1 .. 4
  BY FactorsIn
<1>2. (mul \div K) * K = mul /\ (div \div M) * M = div
  BY DEF Encodable
<1>3. div \div M \in {1, 2, 4}
  BY <1>2, DivisorLeft
<1>4. (mul \div K) - 1 \in 0 .. 31
  BY <1>2, MultiplierLeft
<1>5. EncodeP(div \div M) \in 0 .. 3
  <2> HIDE DEF M
  <2>1. QED BY <1>3 DEF EncodeP
<1> DEFINE f == CpuFields(mul, div)
<1>6. /\ f.n = (mul \div K) - 1 /\ f.k = K - 1 /\ f.m = M - 1 /\ f.p = EncodeP(div \div M)
  BY DEF CpuFields
<1>7. Narrow(f, 31)
  <2> HIDE DEF f, K, M
  <2>1. f.k \in 0 .. 3 /\ f.m \in 0 .. 15
    BY <1>1, <1>6
  <2>2. QED BY <1>4, <1>5, <1>6, <2>1, Zenon DEF Narrow
<1>8. QED BY <1>7

LEMMA FieldsFitStart == ClockInit => FieldsFit
<1> SUFFICES ASSUME ClockInit PROVE FieldsFit
  OBVIOUS
<1>1. "CPU" \in Plls /\ "PERIPH" \in Plls /\ "VIDEO" \in Plls
  BY DEF Plls
<1>2. CASE pll = Warm
  <2>1. /\ Warm["PERIPH"] = [on |-> TRUE, n |-> 24, k |-> 0, m |-> 0, p |-> 0]
        /\ Warm["CPU"] = [on |-> TRUE, n |-> 16, k |-> 0, m |-> 0, p |-> 0]
        /\ Warm["VIDEO"] = [on |-> TRUE, n |-> 98, k |-> 0, m |-> 7, p |-> 0]
    BY DEF Off, Warm
  <2>2. QED BY <1>1, <1>2, <2>1 DEF FieldsFit, Narrow
<1>3. CASE pll = [c \in Plls |-> [Off EXCEPT !.on = (c = "CPU" /\ cpuSrc = "PLL")]]
  <2>1. \A b \in BOOLEAN : /\ [Off EXCEPT !.on = b].n = 0 /\ [Off EXCEPT !.on = b].k = 0
                          /\ [Off EXCEPT !.on = b].m = 0 /\ [Off EXCEPT !.on = b].p = 0
    BY DEF Off
  <2>2. \A c \in Plls : (c = "CPU" /\ cpuSrc = "PLL") \in BOOLEAN
    OBVIOUS
  <2>3. \A c \in Plls : pll[c].n = 0 /\ pll[c].k = 0 /\ pll[c].m = 0 /\ pll[c].p = 0
    BY <1>3, <2>1, <2>2, Zenon
  <2>4. QED BY <1>1, <2>3 DEF FieldsFit, Narrow
<1>4. QED BY <1>2, <1>3 DEF ClockInit

\* A PLL that is programmed with fields that fit.
LEMMA FitsWhenSet ==
  ASSUME FieldsFit, pll \in [Plls -> PllFields], NEW f \in PllFields, NEW top, Narrow(f, top)
  PROVE  /\ SetPll("CPU", f) /\ top = 31 => FieldsFit'
         /\ SetPll("PERIPH", f) /\ top = 31 => FieldsFit'
         /\ SetPll("VIDEO", f) /\ top = 127 => FieldsFit'
<1>1. \A c \in Plls : SetPll(c, f) => Narrow(pll'[c], top)
  <2>1. SUFFICES ASSUME NEW c \in Plls, SetPll(c, f) PROVE Narrow(pll'[c], top)
    OBVIOUS
  <2>2. pll'[c] = [on |-> pll[c].on, n |-> f.n, k |-> f.k, m |-> f.m, p |-> f.p]
    BY <2>1, SetPllAt, Zenon
  <2>3. pll'[c].n = f.n /\ pll'[c].k = f.k /\ pll'[c].m = f.m /\ pll'[c].p = f.p
    BY <2>2
  <2>4. QED BY <2>3, NarrowSame, Zenon
<1>2. "CPU" \in Plls /\ "PERIPH" \in Plls /\ "VIDEO" \in Plls
  BY DEF FieldsFit
<1>3. ASSUME SetPll("CPU", f), top = 31 PROVE FieldsFit'
  <2>1. pll'["PERIPH"] = pll["PERIPH"] /\ pll'["VIDEO"] = pll["VIDEO"]
    BY <1>3, SetPllAt, Zenon
  <2>2. Narrow(pll'["CPU"], 31)
    BY <1>1, <1>2, <1>3, Zenon
  <2>3. QED BY <1>2, <2>1, <2>2 DEF FieldsFit
<1>4. ASSUME SetPll("PERIPH", f), top = 31 PROVE FieldsFit'
  <2>1. pll'["CPU"] = pll["CPU"] /\ pll'["VIDEO"] = pll["VIDEO"]
    BY <1>4, SetPllAt, Zenon
  <2>2. Narrow(pll'["PERIPH"], 31)
    BY <1>1, <1>2, <1>4, Zenon
  <2>3. QED BY <1>2, <2>1, <2>2 DEF FieldsFit
<1>5. ASSUME SetPll("VIDEO", f), top = 127 PROVE FieldsFit'
  <2>1. pll'["CPU"] = pll["CPU"] /\ pll'["PERIPH"] = pll["PERIPH"]
    BY <1>5, SetPllAt, Zenon
  <2>2. Narrow(pll'["VIDEO"], 127)
    BY <1>1, <1>2, <1>5, Zenon
  <2>3. QED BY <1>2, <2>1, <2>2 DEF FieldsFit
<1>6. QED BY <1>3, <1>4, <1>5

LEMMA FitsWhenOn ==
  ASSUME FieldsFit, pll \in [Plls -> PllFields], NEW c \in {"CPU", "PERIPH", "VIDEO"}, ClkEnable(c)
  PROVE  FieldsFit'
<1>1. c \in Plls /\ (c = "CPU" \/ c = "PERIPH" \/ c = "VIDEO")
  BY DEF Plls
<1>2. \A top : Narrow(pll[c], top) => Narrow(pll'[c], top)
  BY <1>1, EnableAt, NarrowSame, Zenon
<1>3. "CPU" \in Plls /\ "PERIPH" \in Plls /\ "VIDEO" \in Plls
  BY DEF FieldsFit
<1>4. CASE c = "CPU"
  <2>1. pll'["PERIPH"] = pll["PERIPH"] /\ pll'["VIDEO"] = pll["VIDEO"]
    BY <1>4, EnableAt, Zenon
  <2>2. QED BY <1>2, <1>3, <1>4, <2>1 DEF FieldsFit
<1>5. CASE c = "PERIPH"
  <2>1. pll'["CPU"] = pll["CPU"] /\ pll'["VIDEO"] = pll["VIDEO"]
    BY <1>5, EnableAt, Zenon
  <2>2. QED BY <1>2, <1>3, <1>5, <2>1 DEF FieldsFit
<1>6. CASE c = "VIDEO"
  <2>1. pll'["CPU"] = pll["CPU"] /\ pll'["PERIPH"] = pll["PERIPH"]
    BY <1>6, EnableAt, Zenon
  <2>2. QED BY <1>2, <1>3, <1>6, <2>1 DEF FieldsFit
<1>7. QED BY <1>1, <1>4, <1>5, <1>6

LEMMA FieldsFitKept ==
  ASSUME TreeInv, FieldsFit, [ClockStep]_clockVars
  PROVE  FieldsFit'
<1>1. pll \in [Plls -> PllFields] /\ ratio.mul \in 1 .. 128 /\ ratio.div \in 1 .. 16
  BY DEF TreeInv
<1>2. CASE UNCHANGED pll
  BY <1>2, Zenon DEF FieldsFit
<1>3. CASE ProgramPlls
  <2>1. CASE PllPeriphInit(25, 1)
    <3> DEFINE r == [on |-> FALSE, n |-> 24, k |-> 0, m |-> 0, p |-> 0]
    <3>1. [Off EXCEPT !.n = 25 - 1, !.k = 1 - 1] = r
      <4>1. 25 - 1 = 24 /\ 1 - 1 = 0 /\ 25 - 1 \in Int /\ 1 - 1 \in Int
        OBVIOUS
      <4>2. [Off EXCEPT !.n = 25 - 1, !.k = 1 - 1] = [on |-> FALSE, n |-> 25 - 1, k |-> 1 - 1, m |-> 0, p |-> 0]
        BY <4>1, OffIs
      <4>3. QED BY <4>2
    <3>2. SetPll("PERIPH", r)
      BY <2>1, <3>1 DEF PllPeriphInit
    <3>3. r \in PllFields /\ Narrow(r, 31)
      BY DEF PllFields, Narrow
    <3> HIDE DEF r
    <3>4. QED BY <1>1, <3>2, <3>3, FitsWhenSet, Zenon
  <2>2. CASE PllVideoInit(99, 8)
    <3> DEFINE r == [on |-> FALSE, n |-> 98, k |-> 0, m |-> 7, p |-> 0]
    <3>1. [Off EXCEPT !.n = 99 - 1, !.m = 8 - 1] = r
      <4>1. 99 - 1 = 98 /\ 8 - 1 = 7 /\ 99 - 1 \in Int /\ 8 - 1 \in Int
        OBVIOUS
      <4>2. ASSUME NEW i \in Int, NEW j \in Int, i = 99 - 1, j = 8 - 1
            PROVE  [Off EXCEPT !.n = i, !.m = j] = [on |-> FALSE, n |-> i, k |-> 0, m |-> j, p |-> 0]
        BY OffIs, Zenon
      <4>3. ASSUME NEW i \in Int, NEW j \in Int, i = 99 - 1, j = 8 - 1
            PROVE  [Off EXCEPT !.n = 99 - 1, !.m = 8 - 1] = r
        <5>1. [Off EXCEPT !.n = i, !.m = j] = [on |-> FALSE, n |-> i, k |-> 0, m |-> j, p |-> 0]
          BY <4>2, <4>3
        <5>2. i = 98 /\ j = 7
          BY <4>3
        <5>3. [Off EXCEPT !.n = i, !.m = j] = r
          BY <5>1, <5>2
        <5>4. [Off EXCEPT !.n = 99 - 1, !.m = 8 - 1] = [Off EXCEPT !.n = i, !.m = j]
          BY <4>3, Zenon
        <5>5. QED BY <5>3, <5>4
      <4>4. QED BY <4>1, <4>3, SMTT(30)
    <3>2. SetPll("VIDEO", r)
      BY <2>2, <3>1 DEF PllVideoInit
    <3>3. r \in PllFields /\ Narrow(r, 127)
      BY DEF PllFields, Narrow
    <3> HIDE DEF r
    <3>4. QED BY <1>1, <3>2, <3>3, FitsWhenSet, Zenon
  <2>3. CASE PllCpuInit(ratio.mul, ratio.div) /\ Encodable(ratio.mul, ratio.div)
    <3> DEFINE f == CpuFields(ratio.mul, ratio.div)
               r == [on |-> FALSE, n |-> f.n, k |-> f.k, m |-> f.m, p |-> f.p]
    <3>1. f.n \in Int /\ f.k \in Int /\ f.m \in Int /\ f.p \in Int
      BY <1>1, <2>3, EncodedExactly, Zenon
    <3>2. Narrow(f, 31)
      BY <1>1, <2>3, CpuFieldsFit, Zenon
    <3>3. SetPll("CPU", r)
      BY <2>3 DEF PllCpuInit, CpuFields
    <3> HIDE DEF f
    <3>4. r \in PllFields /\ r.n = f.n /\ r.k = f.k /\ r.m = f.m /\ r.p = f.p
      BY <3>1 DEF PllFields
    <3> HIDE DEF r
    <3>5. Narrow(r, 31)
      BY <3>2, <3>4, NarrowSame, Zenon
    <3>6. QED BY <1>1, <3>3, <3>4, <3>5, FitsWhenSet, Zenon
  <2>4. CASE PllCpuInit(ratio.mul, ratio.div) /\ ~Encodable(ratio.mul, ratio.div)
    BY <1>2, <2>4 DEF PllCpuInit
  <2>5. QED BY <1>3, <2>1, <2>2, <2>3, <2>4 DEF ProgramPlls
<1>4. CASE ClkPllEnable
  <2>1. ClkEnable("PERIPH") \/ ClkEnable("VIDEO") \/ ClkEnable("CPU")
    BY <1>4, Zenon DEF ClkPllEnable
  <2>2. QED BY <1>1, <2>1, FitsWhenOn
<1>5. CASE UNCHANGED clockVars \/ WaitPllStable \/ SetBus \/ PllLocks
  BY <1>2, <1>5, Zenon DEF clockVars, WaitPllStable, SetBus, PllLocks
<1>6. CASE SetCpu("cpu to 24M", "OSC24M", "periph") \/ SetCpu("cpu to PLL", "PLL", "done")
  BY <1>2, <1>6, Zenon DEF SetCpu
<1>7. QED BY <1>3, <1>4, <1>5, <1>6, Zenon DEF ClockStep

LEMMA ClockTypes ==
  ASSUME TreeInv, FieldsFit
  PROVE  ClockTypeOK
<1>1. \A c \in Plls : c = "CPU" \/ c = "PERIPH" \/ c = "VIDEO"
  BY DEF Plls
<1>2. \A c \in Plls : pll[c].k \in 0 .. 3 /\ pll[c].m \in 0 .. 15 /\ pll[c].p \in 0 .. 3
  BY <1>1, Zenon DEF FieldsFit, Narrow
<1>3. bus \in [src : 0 .. 3, pre : 0 .. 3, div : 0 .. 3, apb : 0 .. 3]
  <2>1. bus \in BusFields /\ BusGood(bus, step)
    BY DEF TreeInv
  <2>2. bus.src \in 0 .. 3 /\ bus.pre \in 0 .. 3 /\ bus.div \in 0 .. 3 /\ bus.apb \in 0 .. 3
    BY <2>1 DEF BusGood
  <2>3. QED BY <2>1, <2>2 DEF BusFields
<1>4. QED BY <1>2, <1>3, Zenon DEF FieldsFit, Narrow, ClockTypeOK

\* The operations but those of the chip select.
PlainOps == {o \in SoftOps : o.op # "cs"}

\* The chip is selected only while a send_9bit lasts, and no call is longer than
\* the bounds allow.
Selected ==
  /\ Len(want) <= MaxBytes * Width + 1 /\ cs \in {0, 1}
  /\ frame9 \/ ops = <<Cs(1)>> \/ (cs = 1 /\ ops \in Seq(PlainOps))

LEMMA PlainAre ==
  ASSUME wiring \in [cpol : {0, 1}, cpha : {0, 1}, three : BOOLEAN], NEW b \in {0, 1}
  PROVE  {Mosi(b), Half, Lead, Trail, Sample, Input, Output} \subseteq PlainOps
BY OpsKnown, OpsAre DEF PlainOps

LEMMA BitIsPlain ==
  ASSUME wiring \in [cpol : {0, 1}, cpha : {0, 1}, three : BOOLEAN],
         NEW l \in Seq({0, 1}), l # <<>>
  PROVE  BitOps(l) \in Seq(PlainOps)
<1>1. PICK b \in {0, 1} : b = Head(l)
  OBVIOUS
<1>2. /\ Mosi(b) \in PlainOps /\ Half \in PlainOps /\ Lead \in PlainOps /\ Trail \in PlainOps
      /\ Sample \in PlainOps /\ Input \in PlainOps /\ Output \in PlainOps
  BY PlainAre
<1>3. Bit(b) \in Seq(PlainOps)
  <2>1. <<Mosi(b), Half, Lead, Half, Sample, Trail, Half>> \in Seq(PlainOps)
    BY <1>2
  <2>2. <<Lead, Half, Sample, Mosi(b), Trail, Half>> \in Seq(PlainOps)
    BY <1>2
  <2>3. QED BY <2>1, <2>2, Zenon DEF Bit
<1>4. Bit3(b) \in Seq(PlainOps)
  <2>1. <<Mosi(b), Half, Lead, Half, Input, Sample, Output, Trail, Half>> \in Seq(PlainOps)
    BY <1>2
  <2>2. <<Lead, Half, Input, Half, Sample, Output, Trail, Mosi(b), Half>> \in Seq(PlainOps)
    BY <1>2
  <2>3. QED BY <2>1, <2>2, Zenon DEF Bit3
<1>5. PICK u \in Seq(PlainOps), v \in Seq(PlainOps) : BitOps(l) = u \o v
  <2>1. <<Output>> \in Seq(PlainOps) /\ <<>> \in Seq(PlainOps)
    BY <1>2
  <2>2. BitOps(l) = (IF wiring.three /\ Len(l) % Width = 0 THEN <<Output>> ELSE <<>>)
                    \o (IF wiring.three THEN Bit3(b) ELSE Bit(b))
    BY <1>1 DEF BitOps
  <2>3. QED BY <1>3, <1>4, <2>1, <2>2, Zenon
<1>6. QED BY <1>5, ConcatProperties

LEMMA FollowsSelected ==
  ASSUME wiring \in [cpol : {0, 1}, cpha : {0, 1}, three : BOOLEAN], NEW l \in Seq({0, 1}),
         NEW nine \in BOOLEAN, Follows(l, nine), nine \/ cs' = 1
  PROVE  frame9' \/ ops' = <<Cs(1)>> \/ (cs' = 1 /\ ops' \in Seq(PlainOps))
<1>1. CASE l = <<>>
  <2>1. <<>> \in Seq(PlainOps)
    OBVIOUS
  <2>2. QED BY <1>1, <2>1, Zenon DEF Follows
<1>2. CASE l # <<>>
  <2>1. BitOps(l) \in Seq(PlainOps)
    BY <1>2, BitIsPlain
  <2>2. QED BY <1>2, <2>1, Zenon DEF Follows
<1>3. QED BY <1>1, <1>2

LEMMA SelectedStart == SoftSpiInit => Selected
<1>1. MaxBytes * Width \in Nat
  BY SoftSpiAssumption
<1>2. Len(<<>>) = 0 /\ <<>> \in Seq(PlainOps)
  OBVIOUS
<1>3. QED BY <1>1, <1>2 DEF SoftSpiInit, Selected

\* Between calls nothing is selected.
LEMMA AtRest ==
  ASSUME SoftInv, Selected, ops = <<>>
  PROVE  SoftClosing /\ cs = 1
<1>1. SoftClosing
  BY DEF SoftInv, SoftSending
<1>2. QED BY <1>1 DEF SoftClosing, Selected

LEMMA SelectedKept ==
  ASSUME SoftInv, Selected, [SoftSpiStep]_softVars
  PROVE  Selected'
<1>0. /\ wiring \in [cpol : {0, 1}, cpha : {0, 1}, three : BOOLEAN]
      /\ left \in Seq({0, 1}) /\ frame9 \in BOOLEAN
      /\ Width \in Nat /\ MaxBytes \in Nat /\ 1 <= MaxBytes
  BY SoftSpiAssumption DEF SoftInv, SoftTypes, SoftLeft
<1>1. CASE Transfer8
  <2>1. PICK m \in 0 .. MaxBytes, n \in 0 .. MaxBytes : \E tx \in Bits(m * Width) :
          LET sent == tx \o [i \in 1 .. (IF n > m THEN (n - m) * Width ELSE 0) |-> 0]
          IN  Begins(sent, n * Width) /\ Follows(sent, FALSE)
    BY <1>1 DEF Transfer8
  <2>2. PICK tx \in Bits(m * Width) :
          LET sent == tx \o [i \in 1 .. (IF n > m THEN (n - m) * Width ELSE 0) |-> 0]
          IN  Begins(sent, n * Width) /\ Follows(sent, FALSE)
    BY <2>1
  <2>3. m \in Nat /\ n \in Nat /\ m <= MaxBytes /\ n <= MaxBytes
    BY <1>0
  <2> DEFINE more == IF n > m THEN (n - m) * Width ELSE 0
  <2>4. PICK z : z = [i \in 1 .. more |-> 0]
    OBVIOUS
  <2>5. more \in Nat /\ m * Width \in Nat /\ m * Width + more <= MaxBytes * Width
    <3>1. m * Width \in Nat /\ MaxBytes * Width \in Nat
      BY <1>0, <2>3
    <3>2. CASE n > m
      <4>1. n - m \in Nat /\ m + (n - m) = n /\ MaxBytes - n \in Nat /\ n + (MaxBytes - n) = MaxBytes
        BY <1>0, <2>3, <3>2
      <4>2. (m + (n - m)) * Width = m * Width + (n - m) * Width /\ (n - m) * Width \in Nat
        BY <1>0, <2>3, <4>1
      <4>3. (n + (MaxBytes - n)) * Width = n * Width + (MaxBytes - n) * Width
            /\ (MaxBytes - n) * Width \in Nat
        BY <1>0, <2>3, <4>1
      <4>4. n * Width = m * Width + (n - m) * Width
            /\ MaxBytes * Width = n * Width + (MaxBytes - n) * Width
        BY <4>1, <4>2, <4>3
      <4>5. n * Width \in Nat
        BY <1>0, <2>3
      <4>6. QED BY <3>1, <3>2, <4>2, <4>3, <4>4, <4>5
    <3>3. CASE ~(n > m)
      <4>1. MaxBytes - m \in Nat /\ m + (MaxBytes - m) = MaxBytes
        BY <1>0, <2>3
      <4>2. (m + (MaxBytes - m)) * Width = m * Width + (MaxBytes - m) * Width
            /\ (MaxBytes - m) * Width \in Nat
        BY <1>0, <2>3, <4>1
      <4>3. QED BY <3>1, <3>3, <4>1, <4>2
    <3>4. QED BY <3>2, <3>3
  <2>6. PICK s : s = tx \o z
    OBVIOUS
  <2>7. Begins(s, n * Width) /\ Follows(s, FALSE)
    BY <2>2, <2>4, <2>6
  <2> HIDE DEF more
  <2>8. z \in Seq({0, 1}) /\ Len(z) = more
    BY <2>4, <2>5
  <2>9. tx \in Seq({0, 1}) /\ Len(tx) = m * Width
    BY <2>5, BitsAre
  <2>10. s \in Seq({0, 1}) /\ Len(s) = m * Width + more
    BY <2>6, <2>8, <2>9, ConcatProperties
  <2>11. ops = <<>> /\ want' = s /\ cs' = cs
    BY <2>7 DEF Begins
  <2>12. cs' = 1
    BY <2>11, AtRest
  <2>13. frame9' \/ ops' = <<Cs(1)>> \/ (cs' = 1 /\ ops' \in Seq(PlainOps))
    BY <1>0, <2>7, <2>10, <2>12, FollowsSelected
  <2>14. MaxBytes * Width \in Nat
    BY <1>0
  <2>15. Len(want') <= MaxBytes * Width + 1
    BY <2>5, <2>10, <2>11, <2>14
  <2>16. QED BY <2>12, <2>13, <2>15 DEF Selected
<1>2. CASE Send9Bit
  <2>1. PICK dc \in {0, 1}, bits \in Bits(Width) : Begins(<<dc>> \o bits, 0) /\ frame9' = TRUE
    BY <1>2 DEF Send9Bit
  <2>2. bits \in Seq({0, 1}) /\ Len(bits) = Width
    BY <1>0, BitsAre
  <2>3. Len(<<dc>> \o bits) = Width + 1
    BY <1>0, <2>2
  <2>4. Width <= MaxBytes * Width /\ MaxBytes * Width \in Nat
    <3>1. PICK r \in Nat : MaxBytes = r + 1
      <4>1. MaxBytes - 1 \in Nat /\ MaxBytes = (MaxBytes - 1) + 1
        BY <1>0
      <4>2. QED BY <4>1
    <3>2. (r + 1) * Width = r * Width + Width /\ r * Width \in Nat
      BY <1>0
    <3>3. QED BY <1>0, <3>1, <3>2
  <2>5. want' = <<dc>> \o bits /\ cs' = cs
    BY <2>1 DEF Begins
  <2>6. Len(want') <= MaxBytes * Width + 1
    BY <1>0, <2>3, <2>4, <2>5
  <2>7. QED BY <2>1, <2>5, <2>6 DEF Selected
<1>3. CASE PinOp
  <2>0. /\ ops # <<>> /\ Does(Head(ops)) /\ want' = want
        /\ IF Len(ops) = 1 THEN Follows(left, frame9)
           ELSE ops' = Tail(ops) /\ UNCHANGED <<left, frame9>>
    BY <1>3 DEF PinOp
  <2>1. cs' = IF Head(ops).op = "cs" THEN Head(ops).v ELSE cs
    BY <2>0 DEF Does
  <2>2. CASE ops = <<Cs(1)>>
    <3>1. Len(ops) = 1 /\ Head(ops) = Cs(1) /\ 1 \in 1 .. Len(ops) /\ ops[1] = Cs(1)
      BY <2>2
    <3>2. cs' = 1
      BY <2>1, <3>1, OpsAre
    <3>3. ~SoftSending
      <4>1. SUFFICES ASSUME SoftSending PROVE FALSE
        OBVIOUS
      <4>2. PICK p \in Plan : InPlan(ops[1], Len(ops) - 1 + 1, p, want[BitsDone])
        BY <3>1, <4>1 DEF SoftSending
      <4>3. PICK b, n : InPlan(Cs(1), n, p, b)
        BY <3>1, <4>2
      <4>4. Cs(1).op = "cs" /\ Cs(1).v = 1 /\ Cs(0).v = 0
        BY OpsAre
      <4>5. QED BY <4>3, <4>4, OpsAre DEF InPlan
    <3>4. left = <<>> /\ ~frame9
      BY <3>3 DEF SoftInv, SoftClosing
    <3>5. ops' = <<>>
      BY <2>0, <3>1, <3>4 DEF Follows
    <3>6. <<>> \in Seq(PlainOps)
      OBVIOUS
    <3>7. QED BY <2>0, <3>2, <3>5, <3>6 DEF Selected
  <2>3. CASE ops # <<Cs(1)>>
    <3>1. ops \in Seq(SoftOps)
      BY <2>0, <2>3 DEF SoftInv, SoftClosing, SoftSending
    <3>2. Head(ops) \in SoftOps /\ Tail(ops) \in Seq(SoftOps)
      BY <2>0, <3>1
    <3>3. cs' \in {0, 1}
      BY <2>1, <3>2 DEF SoftOps, Selected
    <3>4. CASE frame9
      <4>1. frame9' \/ ops' = <<Cs(1)>>
        BY <2>0, <3>4 DEF Follows
      <4>2. QED BY <2>0, <3>3, <4>1 DEF Selected
    <3>5. CASE ~frame9
      <4>1. cs = 1 /\ ops \in Seq(PlainOps)
        BY <2>3, <3>5 DEF Selected
      <4>2. Head(ops) \in PlainOps /\ Tail(ops) \in Seq(PlainOps)
        BY <2>0, <4>1
      <4>3. cs' = 1
        BY <2>1, <4>1, <4>2 DEF PlainOps
      <4>4. CASE Len(ops) = 1
        <5>1. Follows(left, frame9)
          BY <2>0, <4>4
        <5>2. frame9' \/ ops' = <<Cs(1)>> \/ (cs' = 1 /\ ops' \in Seq(PlainOps))
          BY <1>0, <4>3, <5>1, FollowsSelected
        <5>3. QED BY <2>0, <3>3, <5>2 DEF Selected
      <4>5. CASE Len(ops) # 1
        BY <2>0, <3>3, <4>2, <4>3, <4>5 DEF Selected
      <4>6. QED BY <4>4, <4>5
    <3>6. QED BY <3>4, <3>5
  <2>4. QED BY <2>2, <2>3
<1>4. CASE UNCHANGED softVars
  BY <1>4 DEF softVars, Selected
<1>5. QED BY <1>1, <1>2, <1>3, <1>4 DEF SoftSpiStep

LEMMA SoftSpiTypes ==
  ASSUME SoftInv, Selected
  PROVE  SoftSpiTypeOK
<1>0. /\ wiring.cpol \in {0, 1} /\ mosi \in {0, 1} /\ line \in {0, 1} /\ cs \in {0, 1}
      /\ want \in Seq({0, 1}) /\ left \in Seq({0, 1})
  BY DEF SoftInv, SoftTypes, SoftLeft, Selected
<1>1. BitsDone \in Int /\ BitsDone <= Len(want) /\ Len(want) \in Nat
  BY <1>0 DEF BitsDone
<1>2. sck \in {0, 1} /\ drives \in {0, 1} /\ Len(said) <= BitsDone
  <2>1. CASE SoftClosing
    BY <1>0, <1>1, <2>1 DEF SoftClosing, SoftAfter
  <2>2. CASE SoftSending
    <3>1. PICK p \in Plan : /\ Wires(p, want[BitsDone], BitsDone - 1, Len(ops))
                            /\ Counts(p, BitsDone - 1, Len(ops))
      BY <2>2 DEF SoftSending
    <3>2. PICK b, k, n : k = BitsDone - 1 /\ Wires(p, b, k, n) /\ Counts(p, k, n)
      BY <3>1
    <3>3. sck \in {0, 1} /\ drives \in {0, 1}
      BY <1>0, <3>2 DEF Wires
    <3>4. Len(said) <= BitsDone
      BY <1>1, <3>2 DEF Counts
    <3>5. QED BY <3>3, <3>4
  <2>3. QED BY <2>1, <2>2 DEF SoftInv
<1>3. MaxBytes * Width + 1 \in Nat /\ Len(said) \in Nat
  <2>1. MaxBytes * Width + 1 \in Nat
    BY SoftSpiAssumption
  <2>2. said \in Seq({0, 1})
    BY DEF SoftInv, SoftTypes
  <2>3. QED BY <2>1, <2>2
<1>4. Len(said) <= MaxBytes * Width + 1
  BY <1>1, <1>2, <1>3 DEF Selected
<1>5. ops = <<>> => drives = 1 /\ cs = 1
  BY AtRest DEF SoftClosing, SoftAfter
<1>6. QED BY <1>0, <1>2, <1>4, <1>5 DEF SoftSpiTypeOK

\* Without a call the loop is not in memory at all.
Rewound == range = NoRange => ptr = 0

LEMMA RewoundStart == CacheInit => Rewound
BY DEF CacheInit, Rewound

LEMMA RewoundKept ==
  ASSUME Rewound, [CacheStep]_cacheVars
  PROVE  Rewound'
<1>1. CASE RangeCall
  <2>1. PICK name \in {"clean", "invalidate", "clean_invalidate"}, b \in MemBytes, n \in 0 .. MaxSize :
          range' = [name |-> name, buffer |-> b, size |-> n]
    BY <1>1 DEF RangeCall
  <2>2. range'.name = name /\ NoRange.name = "none"
    BY <2>1 DEF NoRange
  <2>3. QED BY <2>2 DEF Rewound
<1>2. CASE RangeLine
  BY <1>2 DEF RangeLine, Rewound
<1>3. CASE RangeDone
  BY <1>3 DEF RangeDone, Rewound
<1>4. CASE UNCHANGED <<range, ptr>>
  BY <1>4 DEF Rewound
<1>5. ASSUME InvalidateBefore \/ EnableDcache \/ InvalidateAfter \/ UNCHANGED cacheVars
      PROVE  UNCHANGED <<range, ptr>>
  BY <1>5 DEF InvalidateBefore, EnableDcache, InvalidateAfter, cacheVars
<1>6. ASSUME NEW l, CpuRead(l) \/ Evict(l)
      PROVE  UNCHANGED <<range, ptr>>
  BY <1>6 DEF CpuRead, Evict
<1>7. ASSUME NEW b, CpuWrite(b)
      PROVE  UNCHANGED <<range, ptr>>
  BY <1>7 DEF CpuWrite
<1>8. QED BY <1>1, <1>2, <1>3, <1>4, <1>5, <1>6, <1>7 DEF CacheStep

LEMMA CacheTypes ==
  ASSUME CacheInv, Rewound
  PROVE  CacheTypeOK
<1>1. LineSize \in Nat /\ CacheLines \in Nat /\ LineSize * CacheLines \in Nat
  BY CacheAssumption
<1>2. ptr \in 0 .. LineSize * CacheLines
  <2>1. CASE range = NoRange
    BY <1>1, <2>1 DEF Rewound
  <2>2. CASE range # NoRange
    <3>1. PICK n \in LineOf(range.buffer) .. CacheLines : ptr = n * LineSize
      BY <2>2 DEF CacheInv, RangeInv
    <3>2. LineOf(range.buffer) \in Nat
      <4>1. range.buffer \in Nat
        <5>1. range.buffer \in MemBytes
          BY <2>2 DEF CacheInv, RangeInv, CacheRanges
        <5>2. QED BY <1>1, <5>1 DEF MemBytes
      <4>2. LineSize \in Nat \ {0}
        BY CacheAssumption
      <4>3. QED BY <4>1, <4>2, Division DEF LineOf
    <3>3. n \in Nat /\ n <= CacheLines /\ CacheLines - n \in Nat
      BY <1>1, <3>1, <3>2
    <3>4. n * LineSize \in Nat /\ (CacheLines - n) * LineSize \in Nat
      BY <1>1, <3>3
    <3>5. PICK r \in Nat : r = CacheLines - n
      BY <3>3
    <3>6. (n + r) * LineSize = n * LineSize + r * LineSize /\ n + r = CacheLines
      BY <1>1, <3>3, <3>5
    <3>7. CacheLines * LineSize = LineSize * CacheLines
      BY <1>1
    <3>8. QED BY <1>1, <3>1, <3>4, <3>5, <3>6, <3>7
  <2>3. QED BY <2>1, <2>2
<1>3. QED BY <1>2 DEF CacheInv, CopyInv, CacheTypeOK

-----------------------------------------------------------------------------
\* What has been read of the controller's reports.
Read == seen \in Reports /\ count \in 0 .. MAX_TOUCHES

LEMMA ReadStart == TouchInit => Read
<1>1. <<>> \in Reports
  <2>1. <<>> \in [1 .. 0 -> Raw] /\ 0 \in 0 .. MaxFingers
    BY TouchAssumption
  <2>2. QED BY <2>1 DEF Reports
<1>2. 0 \in 0 .. MAX_TOUCHES
  BY TouchAssumption
<1>3. QED BY <1>1, <1>2 DEF TouchInit, Read

LEMMA ReadKept ==
  ASSUME TouchInv, Read, [TouchStep]_touchVars
  PROVE  Read'
<1>0. report \in Reports
  BY DEF TouchInv
<1>1. CASE ReadCount
  <2>1. count' = Shown(Len(report)) /\ Len(report) \in Nat
    BY <1>0, <1>1, ReportsAre DEF ReadCount
  <2>2. count' \in 0 .. MAX_TOUCHES
    BY <2>1, TouchAssumption DEF Shown
  <2>3. seen' = report \/ seen' = seen
    BY <1>1 DEF ReadCount
  <2>4. QED BY <1>0, <2>2, <2>3 DEF Read
<1>2. CASE ReadData
  BY <1>0, <1>2 DEF ReadData, Read
<1>3. CASE UNCHANGED <<seen, count>>
  BY <1>3 DEF Read
<1>4. ASSUME Report \/ IntDisable \/ ReadFails \/ IntEnable \/ UNCHANGED touchVars
      PROVE  UNCHANGED <<seen, count>>
  BY <1>4 DEF Report, IntDisable, ReadFails, IntEnable, touchVars
<1>5. QED BY <1>1, <1>2, <1>3, <1>4 DEF TouchStep

LEMMA TouchTypes ==
  ASSUME TouchInv, Read
  PROVE  TouchTypeOK
BY DEF TouchInv, Read, TouchTypeOK

-----------------------------------------------------------------------------
\* A thread that is writing has a byte left to write.
UartTypes ==
  /\ UartTypeOK /\ DOMAIN userAt = UartUsers
  /\ \A t \in UartUsers : userAt[t] \in {"poll", "put"} => toWrite[t] # 0

LEMMA HalvesFit ==
  /\ \A d \in Nat : d % Radix \in 0 .. Radix - 1
  /\ 0 \in 0 .. Radix - 1 /\ 1 \in 0 .. Radix - 1
<1>1. Radix \in Nat \ {0, 1}
  BY UartAssumption
<1>2. ASSUME NEW d \in Nat PROVE d % Radix \in 0 .. Radix - 1
  <2> DEFINE r == d % Radix
  <2>1. r \in Nat /\ r < Radix
    BY <1>1, Division
  <2>2. r \in 0 .. Radix - 1
    <3> HIDE DEF r
    <3>1. QED BY <1>1, <2>1
  <2>3. QED BY <2>2
<1>3. 0 \in 0 .. Radix - 1 /\ 1 \in 0 .. Radix - 1
  BY <1>1
<1>4. QED BY <1>2, <1>3

LEMMA UartTypesStart == UartInit => UartTypes
<1>1. 0 \in 0 .. TxDepth /\ 0 \in 0 .. MaxWrite
  BY UartAssumption
<1>2. QED BY <1>1, HalvesFit DEF UartInit, UartTypes, UartTypeOK

LEMMA DataFits ==
  ASSUME txLevel \in 0 .. TxDepth, dll \in 0 .. Radix - 1, NEW v \in 0 .. Radix - 1, WriteData(v)
  PROVE  txLevel' \in 0 .. TxDepth /\ dll' \in 0 .. Radix - 1
<1>1. CASE dlab
  BY <1>1 DEF WriteData
<1>2. CASE ~dlab
  <2>1. dll' = dll /\ txLevel' = IF txLevel < TxDepth THEN txLevel + 1 ELSE txLevel
    BY <1>2 DEF WriteData
  <2>2. TxDepth \in Nat
    BY UartAssumption
  <2>3. QED BY <2>1, <2>2
<1>3. QED BY <1>1, <1>2

LEMMA UartTypesKept ==
  ASSUME UartInv, UartTypes, [UartStep]_uartVars
  PROVE  UartTypes'
<1>0. /\ txLevel \in 0 .. TxDepth /\ dll \in 0 .. Radix - 1 /\ dlh \in 0 .. Radix - 1
      /\ ier \in 0 .. Radix - 1 /\ toWrite \in [UartUsers -> 0 .. MaxWrite]
      /\ DOMAIN userAt = UartUsers /\ MaxWrite \in Nat /\ TxDepth \in Nat /\ 0 \in 0 .. TxDepth
      /\ divisor \in Nat
  BY UartAssumption DEF UartTypes, UartTypeOK, UartInv, UartShape
\* A thread moves, and is not left writing.
<1>1. ASSUME NEW t \in UartUsers, NEW from, NEW to, UserMoves(t, from, to),
             to \notin {"poll", "put"}, UNCHANGED toWrite,
             {dll', dlh', ier'} \subseteq 0 .. Radix - 1, txLevel' \in 0 .. TxDepth
      PROVE  UartTypes'
  <2>1. userAt' = [userAt EXCEPT ![t] = to]
    BY <1>1 DEF UserMoves
  <2>2. DOMAIN userAt' = UartUsers
    BY <1>0, <2>1
  <2>3. \A u \in UartUsers : userAt'[u] \in {"poll", "put"} => toWrite'[u] # 0
    <3>1. \A u \in UartUsers : u # t => userAt'[u] = userAt[u]
      BY <1>0, <2>1
    <3>2. userAt'[t] = to
      BY <1>0, <2>1
    <3>3. QED BY <1>1, <3>1, <3>2 DEF UartTypes
  <2>4. QED BY <1>0, <1>1, <2>2, <2>3 DEF UartTypes, UartTypeOK
<1>2. ASSUME NEW v, v \in {0, 1} \/ v = (divisor \div Radix) % Radix, WriteIer(v)
      PROVE  dlh' \in 0 .. Radix - 1 /\ ier' \in 0 .. Radix - 1
  <2>1. v \in 0 .. Radix - 1
    <3>1. divisor \div Radix \in Nat
      BY <1>0, UartAssumption, Division
    <3>2. QED BY <1>2, <3>1, HalvesFit
  <2>2. QED BY <1>0, <1>2, <2>1 DEF WriteIer
<1>3. ASSUME NEW t \in UartUsers, ConfigureBegin(t)
      PROVE  UartTypes'
  <2>1. /\ UserMoves(t, "out", "dlab-on") /\ WriteIer(0) /\ txLevel' = 0
        /\ UNCHANGED <<dll, toWrite>>
    BY <1>3 DEF ConfigureBegin
  <2>2. QED BY <1>0, <1>1, <1>2, <2>1
<1>4. ASSUME NEW t \in UartUsers, DlabOn(t)
      PROVE  UartTypes'
  <2>1. /\ UserMoves(t, "dlab-on", "dll") /\ UNCHANGED <<dll, dlh, ier, txLevel, toWrite>>
    BY <1>4 DEF DlabOn
  <2>2. QED BY <1>0, <1>1, <2>1
<1>5. ASSUME NEW t \in UartUsers, SetDll(t)
      PROVE  UartTypes'
  <2>1. /\ UserMoves(t, "dll", "dlh") /\ UNCHANGED <<dlh, ier, toWrite>>
        /\ (dll' = divisor % Radix /\ UNCHANGED txLevel) \/ WriteData(divisor % Radix)
    BY <1>5 DEF SetDll
  <2>2. divisor % Radix \in 0 .. Radix - 1
    BY <1>0, HalvesFit
  <2>3. txLevel' \in 0 .. TxDepth /\ dll' \in 0 .. Radix - 1
    BY <1>0, <2>1, <2>2, DataFits
  <2>4. QED BY <1>0, <1>1, <2>1, <2>3
<1>6. ASSUME NEW t \in UartUsers, SetDlh(t)
      PROVE  UartTypes'
  <2>1. /\ UserMoves(t, "dlh", "dlab-off") /\ WriteIer((divisor \div Radix) % Radix)
        /\ UNCHANGED <<dll, txLevel, toWrite>>
    BY <1>6 DEF SetDlh
  <2>2. QED BY <1>0, <1>1, <1>2, <2>1
<1>7. ASSUME NEW t \in UartUsers, DlabOff(t)
      PROVE  UartTypes'
  <2>1. /\ UserMoves(t, "dlab-off", "out") /\ UNCHANGED <<dll, dlh, ier, txLevel, toWrite>>
    BY <1>7 DEF DlabOff
  <2>2. QED BY <1>0, <1>1, <2>1
<1>8. ASSUME NEW t \in UartUsers, EnableRxInterrupt(t) \/ DisableInterrupts(t)
      PROVE  UartTypes'
  <2>1. /\ UserMoves(t, "out", "out") /\ (WriteIer(1) \/ WriteIer(0))
        /\ UNCHANGED <<dll, txLevel, toWrite>>
    BY <1>8 DEF EnableRxInterrupt, DisableInterrupts
  <2>2. QED BY <1>0, <1>1, <1>2, <2>1
<1>9. ASSUME NEW t \in UartUsers, WriteCall(t)
      PROVE  UartTypes'
  <2>1. /\ userAt' = [userAt EXCEPT ![t] = "poll"] /\ UNCHANGED <<dll, dlh, ier, txLevel>>
    BY <1>9 DEF WriteCall, UserMoves
  <2>2. PICK n \in 1 .. MaxWrite : toWrite' = [toWrite EXCEPT ![t] = n]
    BY <1>9 DEF WriteCall
  <2>3. n \in 0 .. MaxWrite /\ n # 0
    BY <1>0
  <2>4. QED BY <1>0, <2>1, <2>2, <2>3 DEF UartTypes, UartTypeOK
<1>10. ASSUME NEW t \in UartUsers, TxReady(t)
       PROVE  UartTypes'
  <2>1. /\ userAt[t] = "poll" /\ userAt' = [userAt EXCEPT ![t] = "put"]
        /\ UNCHANGED <<dll, dlh, ier, txLevel, toWrite>>
    BY <1>10 DEF TxReady, UserMoves
  <2>2. QED BY <1>0, <2>1 DEF UartTypes, UartTypeOK
<1>11. ASSUME NEW t \in UartUsers, PutByte(t)
       PROVE  UartTypes'
  <2>1. /\ userAt[t] = "put" /\ WriteData(1) /\ UNCHANGED <<dlh, ier>>
        /\ userAt' = [userAt EXCEPT ![t] = IF toWrite[t] = 1 THEN "out" ELSE "poll"]
        /\ toWrite' = [toWrite EXCEPT ![t] = toWrite[t] - 1]
    BY <1>11 DEF PutByte, UserMoves
  <2>2. toWrite[t] \in 0 .. MaxWrite /\ toWrite[t] # 0
    BY <1>0, <2>1 DEF UartTypes
  <2>3. toWrite[t] - 1 \in 0 .. MaxWrite /\ (toWrite[t] # 1 => toWrite[t] - 1 # 0)
    BY <1>0, <2>2
  <2>4. txLevel' \in 0 .. TxDepth /\ dll' \in 0 .. Radix - 1
    BY <1>0, <2>1, DataFits, HalvesFit
  <2>5. toWrite' \in [UartUsers -> 0 .. MaxWrite]
    BY <1>0, <2>1, <2>3
  <2>6. \A u \in UartUsers : userAt'[u] \in {"poll", "put"} => toWrite'[u] # 0
    <3>1. \A u \in UartUsers : u # t => userAt'[u] = userAt[u] /\ toWrite'[u] = toWrite[u]
      BY <1>0, <2>1
    <3>2. /\ userAt'[t] = (IF toWrite[t] = 1 THEN "out" ELSE "poll")
          /\ toWrite'[t] = toWrite[t] - 1
      BY <1>0, <2>1
    <3>3. QED BY <2>3, <3>1, <3>2 DEF UartTypes
  <2>7. QED BY <1>0, <2>1, <2>4, <2>5, <2>6 DEF UartTypes, UartTypeOK
<1>12. CASE Sent
  <2>1. /\ txLevel > 0 /\ txLevel' = txLevel - 1 /\ UNCHANGED <<dll, dlh, ier, userAt, toWrite>>
    BY <1>12 DEF Sent
  <2>2. txLevel' \in 0 .. TxDepth
    BY <1>0, <2>1
  <2>3. QED BY <1>0, <2>1, <2>2 DEF UartTypes, UartTypeOK
<1>13. CASE UNCHANGED uartVars
  BY <1>13 DEF uartVars, UartTypes, UartTypeOK
<1>14. QED
  BY <1>3, <1>4, <1>5, <1>6, <1>7, <1>8, <1>9, <1>10, <1>11, <1>12, <1>13 DEF UartStep

\* What the parts' types rest on, part by part.
PartInv ==
  /\ SwitchInv /\ StartedInv /\ MaskInv /\ ExcludeInv
  /\ HeapGood(free, live) /\ TimersTypeOK
  /\ SpiInv /\ SpiTypeOK
  /\ FlashInv /\ LcdTypes
  /\ TreeInv /\ FieldsFit
  /\ SoftInv /\ Selected
  /\ CacheInv /\ Rewound
  /\ TouchInv /\ Read
  /\ UartInv /\ UartTypes
  /\ Shaped /\ BitsOnly /\ PartsOnly

LEMMA PartsStart == DevicesInit => PartInv
<1> SUFFICES ASSUME DevicesInit PROVE PartInv
  OBVIOUS
<1>1. /\ SwitchInit /\ HeapInit /\ TimersInit /\ SpiInit /\ FlashInit /\ LcdInit /\ ClockInit
      /\ SoftSpiInit /\ CacheInit /\ TouchInit /\ UartInit /\ RegInit
  BY DEF DevicesInit
<1>2. SwitchInv /\ StartedInv /\ MaskInv /\ ExcludeInv
  BY <1>1, SwitchStart
<1>3. HeapGood(free, live) /\ TimersTypeOK
  BY <1>1, HeapStarts, TimersTypesStart
<1>4. SpiInv /\ SpiTypeOK /\ FlashInv /\ LcdTypes
  BY <1>1, SpiStart, SpiTypesStart, FlashStart, LcdTypesStart
<1>5. TreeInv /\ FieldsFit /\ SoftInv /\ Selected
  BY <1>1, TreeStart, FieldsFitStart, SoftStart, SelectedStart
<1>6. CacheInv /\ Rewound /\ TouchInv /\ Read /\ UartInv /\ UartTypes
  BY <1>1, CacheStart, RewoundStart, TouchStart, ReadStart, UartStart, UartTypesStart
<1>7. Shaped /\ BitsOnly /\ PartsOnly
  BY <1>1, KeptAtFirst, BitsAtFirst
<1>8. QED BY <1>2, <1>3, <1>4, <1>5, <1>6, <1>7 DEF PartInv

LEMMA PartsStay ==
  ASSUME PartInv, [DevicesNext]_deviceVars
  PROVE  PartInv'
<1>1. /\ [SwitchStep]_switchVars /\ [HeapStep]_heapVars /\ [TimersStep]_timerVars
      /\ [SpiStep]_spiVars /\ [FlashStep]_flashVars /\ [LcdStep]_lcdVars
      /\ [ClockStep]_clockVars /\ [SoftSpiStep]_softVars /\ [CacheStep]_cacheVars
      /\ [TouchStep]_touchVars /\ [UartStep]_uartVars
  BY DEF DevicesNext, Only, deviceVars
<1>2. (SwitchInv /\ StartedInv /\ MaskInv /\ ExcludeInv)'
  <2>1. CASE SwitchStep
    BY <2>1, SwitchTypes, StartedStep, MaskStep, ExcludeStep DEF PartInv
  <2>2. CASE UNCHANGED switchVars
    BY <2>2 DEF PartInv, switchVars, SwitchInv, SwitchTypeOK, StartedInv, MaskInv, ExcludeInv
  <2>3. QED BY <1>1, <2>1, <2>2
<1>3. HeapGood(free, live)'
  <2>0. HeapGood(free, live)
    BY DEF PartInv
  <2>1. CASE HeapStep
    BY ONLY <2>0, <2>1, HeapStays
  <2>2. CASE UNCHANGED heapVars
    BY ONLY <2>0, <2>2 DEF heapVars, HeapGood, ListOK
  <2>3. QED BY <1>1, <2>1, <2>2
<1>4. (TimersTypeOK /\ SpiInv /\ SpiTypeOK /\ FlashInv /\ LcdTypes)'
  BY <1>1, TimersTypesKept, SpiKeeps, SpiTypesKept, FlashSteps, LcdTypesKept DEF PartInv
<1>5. (TreeInv /\ FieldsFit /\ SoftInv /\ Selected)'
  BY <1>1, TreeKept, FieldsFitKept, SoftKeeps, SelectedKept DEF PartInv
<1>6. (CacheInv /\ Rewound /\ TouchInv /\ Read /\ UartInv /\ UartTypes)'
  BY <1>1, CacheSteps, RewoundKept, TouchKeeps, ReadKept, UartKeeps, UartTypesKept DEF PartInv
<1>7. (Shaped /\ BitsOnly /\ PartsOnly)'
  BY RegistersOfDevices, ShapedKept, BitsKept, PartsKept DEF PartInv
<1>8. QED BY <1>2, <1>3, <1>4, <1>5, <1>6, <1>7 DEF PartInv

LEMMA PartsTyped ==
  ASSUME PartInv, device \in DeviceNames
  PROVE  DevicesTypeOK
<1>1. SwitchTypeOK /\ HeapTypeOK /\ TimersTypeOK /\ SpiTypeOK
  BY HeapTypes DEF PartInv, SwitchInv
<1>2. FlashTypeOK /\ LcdTypeOK /\ ClockTypeOK /\ SoftSpiTypeOK
  BY FlashTypes, ClockTypes, SoftSpiTypes DEF PartInv, LcdTypes
<1>3. CacheTypeOK /\ TouchTypeOK /\ UartTypeOK /\ RegTypeOK
  BY CacheTypes, TouchTypes, RegTypes DEF PartInv, UartTypes
<1>4. QED BY <1>1, <1>2, <1>3 DEF DevicesTypeOK

\* Every register and variable of every part keeps its type, for any number of steps
\* and whatever the constants: the factors of the PLLs and the dividers of the buses are
\* no wider than their fields (clock.rs:605), the halves of the UART's divisor (uart.rs:178)
\* and of a frame's address (lcd.rs:266) no wider than theirs, a timer counts down from an
\* interval it has room for (timer.rs:239), and no FIFO, buffer or cache holds more than
\* it can.
THEOREM DevicesHaveTypes == DevicesSpec => []DevicesTypeOK
<1> DEFINE Inv == PartInv /\ device \in DeviceNames
<1>1. DevicesInit => Inv
  BY PartsStart DEF DevicesInit
<1>2. Inv /\ [DevicesNext]_deviceVars => Inv'
  <2>1. [DevicesNext]_deviceVars => device' = device
    BY DEF DevicesNext, Only, deviceVars
  <2>2. QED BY <2>1, PartsStay
<1>3. Inv => DevicesTypeOK
  BY PartsTyped
<1>4. QED BY <1>1, <1>2, <1>3, PTL DEF DevicesSpec
=============================================================================
