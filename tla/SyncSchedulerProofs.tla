-------------------------- MODULE SyncSchedulerProofs --------------------------
(* Theorems about SyncScheduler, for any number of routers, any size of the  *)
(* pool and any cadence.                                                     *)
EXTENDS SyncScheduler, Numbers, FiniteSetTheorems, TLAPS

\* The longest wait of TypeOK.
Longest == Max({Max({Skip, Base}), Max({Cap, Deadline})})

\* The states s of the routers: typed, and a router the scheduler does not know
\* has the initial state: nothing of an earlier life of it is left.
GoodStates(s) ==
  /\ s \in [Routers -> RouterState]
  /\ \A r \in Routers : s[r].wait <= Longest /\ (s[r].known \/ s[r] = Unknown)

\* What the reads under way are to them.
Counted(s, running) == \A r \in Routers : running[r] = (IF s[r].inFlight THEN 1 ELSE 0)

\* The slots taken, as the loop over the due routers counts them.
SlotsOK(s) ==
  /\ Cardinality(InFlight(s)) <= PoolMax
  /\ Cardinality(SlowOf(s, InFlight(s))) <= PoolMax - 1

IInv == TypeOK /\ GoodStates(st) /\ Counted(st, reads) /\ SlotsOK(st)

-----------------------------------------------------------------------------
(* The delays.                                                               *)

\* The doubled delays up to n, as a function.
Doubling(f, n) == f = [i \in 1..n |-> IF i = 1 THEN Base ELSE 2 * f[i - 1]]

\* A delay is a natural number: otherwise look at the first one that is not.
LEMMA DoubledType == \A n \in 1..MaxFails : Doubled[n] \in Nat
<1>1. Base \in Nat /\ MaxFails \in Nat
  BY SchedulerAssumption
<1>2. \A n \in 1..MaxFails : \E f : Doubling(f, n)
  <2> DEFINE B == {n \in 1..MaxFails : ~\E f : Doubling(f, n)}
  <2> SUFFICES ASSUME B # {} PROVE FALSE
    OBVIOUS
  <2>1. B \in SUBSET Nat
    BY <1>1
  <2>2. PICK m \in B : \A k \in B : m <= k
    BY <2>1, LeastNatural, Zenon
  <2>3. CASE m = 1
    <3>1. Doubling([i \in 1..1 |-> Base], 1)
      BY DEF Doubling
    <3> QED
      BY <2>2, <2>3, <3>1
  <2>4. CASE m # 1
    <3>1. m \in Nat /\ m - 1 \in 1..MaxFails /\ m - 1 \notin B
      BY <1>1, <2>2, <2>4
    <3>2. PICK f : Doubling(f, m - 1)
      BY <3>1
    <3> DEFINE g == [i \in 1..m |-> IF i = 1 THEN Base ELSE 2 * f[i - 1]]
    <3>3. \A i \in 1..(m - 1) : f[i] = IF i = 1 THEN Base ELSE 2 * f[i - 1]
      BY <3>2 DEF Doubling
    <3>4. \A i \in 1..(m - 1) : g[i] = f[i]
      BY <3>1, <3>3
    <3>5. Doubling(g, m)
      <4>1. \A i \in 1..m : i # 1 => i - 1 \in 1..(m - 1)
        BY <3>1
      <4>2. \A i \in 1..m : g[i] = IF i = 1 THEN Base ELSE 2 * g[i - 1]
        BY <3>4, <4>1
      <4>3. g = [i \in 1..m |-> g[i]]
        OBVIOUS
      <4> HIDE DEF g
      <4> QED
        BY <4>2, <4>3 DEF Doubling
    <3> QED
      BY <2>2, <3>5
  <2> QED
    BY <2>3, <2>4
<1>3. Doubling(Doubled, MaxFails)
  <2>1. MaxFails \in 1..MaxFails
    BY SchedulerAssumption
  <2>2. \E f : f = [i \in 1..MaxFails |-> IF i = 1 THEN Base ELSE 2 * f[i - 1]]
    BY <1>2, <2>1 DEF Doubling
  <2> QED
    BY <2>2 DEF Doubling, Doubled
<1>4. \A n \in 1..MaxFails : Doubled[n] = IF n = 1 THEN Base ELSE 2 * Doubled[n - 1]
  BY <1>3 DEF Doubling
<1> HIDE DEF Doubled
<1> DEFINE B == {n \in 1..MaxFails : Doubled[n] \notin Nat}
<1> SUFFICES ASSUME B # {} PROVE FALSE
  OBVIOUS
<1>5. B \in SUBSET Nat
  BY <1>1
<1>6. PICK m \in B : \A k \in B : m <= k
  BY <1>5, LeastNatural, Zenon
<1>7. m # 1
  BY <1>1, <1>4, <1>6
<1>8. Doubled[m - 1] \in Nat
  BY <1>1, <1>6, <1>7
<1> QED
  BY <1>4, <1>6, <1>7, <1>8

LEMMA LongestBounds ==
  /\ Longest \in Nat
  /\ Skip <= Longest /\ Base <= Longest /\ Cap <= Longest /\ Deadline <= Longest
<1> DEFINE a == Max({Skip, Base})
           b == Max({Cap, Deadline})
<1>1. /\ Skip \in Int /\ Base \in Int /\ Cap \in Int /\ Deadline \in Int
      /\ Skip \in Nat /\ Base \in Nat /\ Cap \in Nat /\ Deadline \in Nat
  BY SchedulerAssumption
<1>2. a \in {Skip, Base} /\ Skip <= a /\ Base <= a
  BY <1>1, MaxOfTwo, Zenon
<1>3. b \in {Cap, Deadline} /\ Cap <= b /\ Deadline <= b
  BY <1>1, MaxOfTwo, Zenon
<1>4. Longest = Max({a, b})
  BY DEF Longest
<1> HIDE DEF a, b
<1>5. a \in Int /\ b \in Int /\ a \in Nat /\ b \in Nat
  BY <1>1, <1>2, <1>3
<1>6. Longest \in {a, b} /\ a <= Longest /\ b <= Longest
  BY <1>4, <1>5, MaxOfTwo, Zenon
<1> QED
  BY <1>1, <1>2, <1>3, <1>5, <1>6

LEMMA UnknownType == Unknown \in RouterState /\ Unknown.wait = 0 /\ ~Unknown.inFlight
                     /\ Unknown.view = "none"
  BY SchedulerAssumption DEF Unknown, RouterState

-----------------------------------------------------------------------------
(* The end of a read, and the refresh of the list.                           *)

\* A read that ends frees the slot, and no wait is longer than the longest.
LEMMA EndedGood ==
  ASSUME NEW x \in RouterState, x.wait <= Longest, NEW status \in Statuses,
         NEW d \in 0..Deadline
  PROVE  /\ Ended(x, status, d) \in RouterState
         /\ Ended(x, status, d).wait <= Longest
         /\ ~Ended(x, status, d).inFlight
         /\ Ended(x, status, d).known = x.known
<1> DEFINE y == Ended(x, status, d)
<1>1. /\ Skip \in Nat /\ Base \in Nat /\ Cap \in Nat /\ Deadline \in Nat /\ MaxFails \in Nat \ {0}
      /\ Probe \in Nat /\ d \in Nat /\ d <= Deadline /\ Slow \in Nat
      /\ Longest \in Nat /\ Skip <= Longest /\ Base <= Longest /\ Cap <= Longest
      /\ Deadline <= Longest
  BY SchedulerAssumption, LongestBounds
<1>2. CASE status = "skipped"
  <2>1. y = [x EXCEPT !.inFlight = FALSE, !.wait = Skip]
    BY <1>2 DEF Ended
  <2> QED
    BY <1>1, <2>1 DEF RouterState
<1>3. CASE status \in {"ok", "failed"}
  <2> DEFINE n == IF status = "ok" THEN 0 ELSE Min({x.fails + 1, MaxFails})
             w == IF status = "ok" THEN Max({Base, 2 * d}) - d ELSE Backoff(n)
             late == d > Slow
             a == [x EXCEPT !.inFlight = FALSE, !.fails = n]
             b == [a EXCEPT !.since = 0, !.slow = late, !.wait = w]
  <2>1. y = b
    BY <1>3 DEF Ended
  <2>2. n \in 0..MaxFails /\ (status = "failed" => n \in 1..MaxFails)
    <3>1. x.fails \in 0..MaxFails
      BY DEF RouterState
    <3>2. x.fails + 1 \in Int /\ 1 <= x.fails + 1
      BY <1>1, <3>1
    <3>3. /\ Min({x.fails + 1, MaxFails}) \in {x.fails + 1, MaxFails}
          /\ Min({x.fails + 1, MaxFails}) <= MaxFails
      <4>1. MaxFails \in Int
        BY <1>1
      <4> QED
        BY <3>2, <4>1, MinOfTwo, Zenon
    <3>4. Min({x.fails + 1, MaxFails}) \in 1..MaxFails
      BY <1>1, <3>2, <3>3
    <3> QED
      BY <1>1, <3>4
  <2>3. w \in Nat /\ w <= Longest
    <3>1. CASE status = "ok"
      <4> DEFINE m == Max({Base, 2 * d})
      <4>1. Base \in Int /\ 2 * d \in Int /\ Base \in Nat /\ 2 * d \in Nat
        BY <1>1
      <4>2. m \in {Base, 2 * d} /\ Base <= m /\ 2 * d <= m
        BY <4>1, MaxOfTwo, Zenon
      <4>3. w = m - d
        BY <3>1
      <4> HIDE DEF m, w
      <4>4. CASE m = Base
        BY <1>1, <4>1, <4>2, <4>3, <4>4
      <4>5. CASE m = 2 * d
        BY <1>1, <4>1, <4>2, <4>3, <4>5
      <4> QED
        BY <4>2, <4>4, <4>5
    <3>2. CASE status = "failed"
      <4> HIDE DEF n
      <4>1. Doubled[n] \in Nat
        BY <2>2, <3>2, DoubledType
      <4>2. Min({Cap, Doubled[n]}) \in {Cap, Doubled[n]} /\ Min({Cap, Doubled[n]}) <= Cap
        <5>1. Cap \in Int /\ Doubled[n] \in Int
          BY <1>1, <4>1
        <5> QED
          BY <5>1, MinOfTwo, Zenon
      <4> HIDE DEF Doubled
      <4> QED
        BY <1>1, <3>2, <4>1, <4>2 DEF Backoff
    <3> QED
      BY <1>3, <3>1, <3>2
  <2>4. late \in BOOLEAN /\ 0 \in {Never} \cup (0..Probe)
    BY <1>1
  <2> HIDE DEF n, w, late
  <2>5. a \in RouterState /\ a.inFlight = FALSE /\ a.known = x.known
    BY <2>2 DEF RouterState
  <2> HIDE DEF a
  <2>6. b \in RouterState /\ b.wait = w /\ b.inFlight = FALSE /\ b.known = x.known
    BY <2>3, <2>4, <2>5 DEF RouterState
  <2> HIDE DEF b
  <2> QED
    BY <2>1, <2>3, <2>6
<1> QED
  BY <1>2, <1>3 DEF Statuses

\* A refresh forgets no router that is being read, and does not change what it
\* counts as.
LEMMA RefreshedGood ==
  ASSUME GoodStates(st), fact \in [Routers -> {"none", "blocked", "down", "up"}]
  PROVE  /\ GoodStates(Refreshed)
         /\ \A r \in Routers : /\ Refreshed[r].inFlight = st[r].inFlight
                               /\ st[r].inFlight => IsSlow(Refreshed[r]) = IsSlow(st[r])
<1> SUFFICES ASSUME NEW r \in Routers
             PROVE  /\ Refreshed[r] \in RouterState /\ Refreshed[r].wait <= Longest
                    /\ Refreshed[r].known \/ Refreshed[r] = Unknown
                    /\ Refreshed[r].inFlight = st[r].inFlight
                    /\ st[r].inFlight => IsSlow(Refreshed[r]) = IsSlow(st[r])
  BY DEF GoodStates, Refreshed
<1> DEFINE y == Refreshed[r]
<1>1. /\ st[r] \in RouterState /\ st[r].wait <= Longest /\ (st[r].known \/ st[r] = Unknown)
      /\ st[r].known \in BOOLEAN /\ fact[r] \in {"none", "blocked", "down", "up"}
  BY DEF GoodStates, RouterState
<1>2. 0 <= Longest
  BY LongestBounds
<1>3. CASE Forgettable(r)
  <2>1. y = Unknown
    BY <1>3 DEF Refreshed, Forgettable
  <2>2. ~st[r].inFlight
    BY <1>3 DEF Forgettable
  <2> QED
    BY <1>1, <1>2, <2>1, <2>2, UnknownType DEF RouterState
<1>4. CASE ~Forgettable(r) /\ fact[r] = "none"
  <2>1. y = st[r]
    BY <1>4 DEF Refreshed
  <2> QED
    BY <1>1, <2>1
<1>5. CASE fact[r] # "none" /\ ~st[r].known
  <2>1. y = [Unknown EXCEPT !.known = TRUE, !.view = fact[r]]
    BY <1>5 DEF Refreshed, Forgettable
  <2>2. st[r] = Unknown
    BY <1>1, <1>5
  <2> QED
    BY <1>1, <1>2, <2>1, <2>2, UnknownType DEF RouterState
<1>6. CASE fact[r] # "none" /\ st[r].known
  <2> DEFINE w == IF Restored(r) THEN 0 ELSE st[r].wait
  <2>1. y = [st[r] EXCEPT !.view = fact[r], !.wait = w]
    BY <1>6 DEF Refreshed, Forgettable
  <2>2. w \in Nat /\ w <= Longest
    BY <1>1, <1>2 DEF RouterState
  <2> HIDE DEF w
  <2>3. /\ y \in RouterState /\ y.wait = w /\ y.known /\ y.inFlight = st[r].inFlight
        /\ y.fails = st[r].fails /\ y.slow = st[r].slow
    BY <1>1, <1>6, <2>1, <2>2 DEF RouterState
  <2> QED
    BY <2>2, <2>3 DEF IsSlow
<1> QED
  BY <1>1, <1>3, <1>4, <1>5, <1>6

-----------------------------------------------------------------------------
(* The loop over the due routers.                                            *)

LEMMA SlotCounts ==
  ASSUME NEW s
  PROVE  /\ IsFiniteSet(InFlight(s)) /\ Cardinality(InFlight(s)) \in Nat
         /\ IsFiniteSet(SlowOf(s, InFlight(s))) /\ Cardinality(SlowOf(s, InFlight(s))) \in Nat
<1>1. InFlight(s) \in SUBSET Routers /\ IsFiniteSet(Routers)
  BY SchedulerAssumption DEF InFlight
<1>2. SlowOf(s, InFlight(s)) \in SUBSET Routers
  BY <1>1 DEF SlowOf
<1> QED
  BY <1>1, <1>2, FS_Subset, FS_CardinalityType

\* Taking at most n of S.
LEMMA FirstsBound ==
  ASSUME NEW s, NEW n \in Int, NEW S \in SUBSET Routers, NEW T \in Firsts(s, n, S)
  PROVE  T \subseteq S /\ IsFiniteSet(T) /\ Cardinality(T) \in Nat /\ Cardinality(T) <= n
<1>1. T \in SUBSET S /\ Cardinality(T) = Min({n, Cardinality(S)})
  BY DEF Firsts, kSubset
<1>2. IsFiniteSet(S) /\ Cardinality(S) \in Int
  BY SchedulerAssumption, FS_Subset, FS_CardinalityType
<1>3. IsFiniteSet(T) /\ Cardinality(T) \in Nat
  BY <1>1, <1>2, FS_Subset, FS_CardinalityType
<1>4. Min({n, Cardinality(S)}) <= n
  BY <1>2, MinOfTwo, Zenon
<1> QED
  BY <1>1, <1>3, <1>4

\* The sizes of three sets that may overlap.
LEMMA UnionBound ==
  ASSUME NEW A, NEW B, IsFiniteSet(A), IsFiniteSet(B)
  PROVE  /\ IsFiniteSet(A \cup B) /\ Cardinality(A \cup B) \in Nat
         /\ Cardinality(A \cup B) <= Cardinality(A) + Cardinality(B)
<1>1. /\ IsFiniteSet(A \cup B)
      /\ Cardinality(A \cup B) = Cardinality(A) + Cardinality(B) - Cardinality(A \cap B)
  BY FS_Union
<1>2. IsFiniteSet(A \cap B)
  <2>1. A \cap B \in SUBSET A
    OBVIOUS
  <2> QED
    BY <2>1, FS_Subset
<1>3. /\ Cardinality(A) \in Nat /\ Cardinality(B) \in Nat /\ Cardinality(A \cap B) \in Nat
      /\ Cardinality(A \cup B) \in Nat
  BY <1>1, <1>2, FS_CardinalityType
<1> QED
  BY <1>1, <1>3

\* What a round of the loop takes: due routers, no more than the free slots, and
\* of the slow ones no more than leaves the last slot.
LEMMA LaunchTakes ==
  ASSUME NEW s, GoodStates(s), Launch(s)
  PROVE  \E H, L :
           /\ H \cup L \subseteq Due(s) /\ H \cap SlowOf(s, Due(s)) = {}
           /\ IsFiniteSet(H) /\ IsFiniteSet(L)
           /\ Cardinality(H) \in Nat /\ Cardinality(L) \in Nat
           /\ Cardinality(H) + Cardinality(L) <= Free(s)
           /\ Cardinality(L) <= SlowRoom(s)
           /\ st' = [r \in Routers |-> [s[r] EXCEPT !.inFlight = @ \/ r \in H \cup L]]
           /\ reads' = [r \in Routers |-> reads[r] + (IF r \in H \cup L THEN 1 ELSE 0)]
           /\ elapsed' = [r \in Routers |-> IF r \in H \cup L THEN 0 ELSE elapsed[r]]
<1> DEFINE due == Due(s)
           slow == SlowOf(s, due)
<1>1. PICK H \in Firsts(s, Free(s), due \ slow) :
        \E L \in Firsts(s, Min({Free(s) - Cardinality(H), SlowRoom(s)}), slow) :
          /\ st' = [r \in Routers |-> [s[r] EXCEPT !.inFlight = @ \/ r \in H \cup L]]
          /\ reads' = [r \in Routers |-> reads[r] + (IF r \in H \cup L THEN 1 ELSE 0)]
          /\ elapsed' = [r \in Routers |-> IF r \in H \cup L THEN 0 ELSE elapsed[r]]
  BY DEF Launch
<1> DEFINE a == Free(s) - Cardinality(H)
           b == SlowRoom(s)
<1>2. PICK L \in Firsts(s, Min({a, b}), slow) :
        /\ st' = [r \in Routers |-> [s[r] EXCEPT !.inFlight = @ \/ r \in H \cup L]]
        /\ reads' = [r \in Routers |-> reads[r] + (IF r \in H \cup L THEN 1 ELSE 0)]
        /\ elapsed' = [r \in Routers |-> IF r \in H \cup L THEN 0 ELSE elapsed[r]]
  BY <1>1
<1>3. due \ slow \in SUBSET Routers /\ slow \in SUBSET Routers
  BY DEF Due, SlowOf
<1>4. Free(s) \in Int /\ b \in Int
  BY SlotCounts, SchedulerAssumption DEF Free, SlowRoom
<1>5. /\ H \subseteq due \ slow /\ IsFiniteSet(H) /\ Cardinality(H) \in Nat
      /\ Cardinality(H) <= Free(s)
  BY <1>3, <1>4, FirstsBound
<1>6. a \in Int
  BY <1>4, <1>5
<1> HIDE DEF a, b
<1>7. Min({a, b}) \in {a, b} /\ Min({a, b}) <= a /\ Min({a, b}) <= b
  BY <1>4, <1>6, MinOfTwo, Zenon
<1>8. Min({a, b}) \in Int
  BY <1>4, <1>6, <1>7
<1>9. L \subseteq slow /\ IsFiniteSet(L) /\ Cardinality(L) \in Nat /\ Cardinality(L) <= Min({a, b})
  BY <1>3, <1>8, FirstsBound
<1>10. Cardinality(L) <= a /\ Cardinality(L) <= b
  BY <1>4, <1>6, <1>7, <1>8, <1>9
<1>11. Cardinality(H) + Cardinality(L) <= Free(s)
  BY <1>4, <1>5, <1>9, <1>10 DEF a
<1>12. H \cup L \subseteq due /\ H \cap slow = {}
  BY <1>5, <1>9 DEF SlowOf
<1> QED
  BY <1>2, <1>5, <1>9, <1>10, <1>11, <1>12 DEF b

LEMMA LaunchGood ==
  ASSUME NEW s, GoodStates(s), Counted(s, reads), SlotsOK(s), Launch(s),
         reads \in [Routers -> Nat], elapsed \in [Routers -> 0..Deadline]
  PROVE  /\ GoodStates(st') /\ Counted(st', reads') /\ SlotsOK(st')
         /\ reads' \in [Routers -> Nat] /\ elapsed' \in [Routers -> 0..Deadline]
<1>1. PICK H, L :
        /\ H \cup L \subseteq Due(s) /\ H \cap SlowOf(s, Due(s)) = {}
        /\ IsFiniteSet(H) /\ IsFiniteSet(L)
        /\ Cardinality(H) \in Nat /\ Cardinality(L) \in Nat
        /\ Cardinality(H) + Cardinality(L) <= Free(s)
        /\ Cardinality(L) <= SlowRoom(s)
        /\ st' = [r \in Routers |-> [s[r] EXCEPT !.inFlight = @ \/ r \in H \cup L]]
        /\ reads' = [r \in Routers |-> reads[r] + (IF r \in H \cup L THEN 1 ELSE 0)]
        /\ elapsed' = [r \in Routers |-> IF r \in H \cup L THEN 0 ELSE elapsed[r]]
  BY LaunchTakes
<1> DEFINE T == H \cup L
<1>2. \A r \in T : r \in Routers /\ ~s[r].inFlight /\ s[r].known
  BY <1>1, UnknownType DEF Due, GoodStates
<1>3. ASSUME NEW r \in Routers
      PROVE  /\ st'[r] \in RouterState /\ st'[r].wait = s[r].wait
             /\ st'[r].known = s[r].known /\ st'[r].fails = s[r].fails /\ st'[r].slow = s[r].slow
             /\ r \in T => st'[r].inFlight = TRUE
             /\ r \notin T => st'[r] = s[r]
  <2>1. s[r] \in RouterState
    BY DEF GoodStates
  <2>2. st'[r] = [s[r] EXCEPT !.inFlight = s[r].inFlight \/ r \in T]
    BY <1>1
  <2>3. CASE r \in T
    <3>1. st'[r] = [s[r] EXCEPT !.inFlight = TRUE]
      BY <2>2, <2>3
    <3> HIDE DEF T
    <3> QED
      BY <2>1, <2>3, <3>1 DEF RouterState
  <2>4. CASE r \notin T
    <3>1. s[r].inFlight \in BOOLEAN
      BY <2>1 DEF RouterState
    <3>2. st'[r] = [s[r] EXCEPT !.inFlight = s[r].inFlight]
      BY <2>2, <2>4, <3>1
    <3> HIDE DEF T
    <3>3. st'[r] = s[r]
      BY <2>1, <3>2 DEF RouterState
    <3> QED
      BY <2>1, <2>4, <3>3
  <2> QED
    BY <2>3, <2>4
<1>4. GoodStates(st')
  <2>1. st' \in [Routers -> RouterState]
    <3>1. st' = [r \in Routers |-> st'[r]]
      BY <1>1
    <3> QED
      BY <1>3, <3>1
  <2>2. \A r \in Routers : st'[r].wait <= Longest /\ (st'[r].known \/ st'[r] = Unknown)
    BY <1>2, <1>3 DEF GoodStates
  <2> QED
    BY <2>1, <2>2 DEF GoodStates
<1>5. reads' \in [Routers -> Nat] /\ elapsed' \in [Routers -> 0..Deadline]
  BY <1>1, SchedulerAssumption
<1>6. Counted(st', reads')
  <2> SUFFICES ASSUME NEW r \in Routers
               PROVE  reads'[r] = (IF st'[r].inFlight THEN 1 ELSE 0)
    BY DEF Counted
  <2>1. reads[r] = IF s[r].inFlight THEN 1 ELSE 0
    BY DEF Counted
  <2>2. reads'[r] = reads[r] + (IF r \in T THEN 1 ELSE 0)
    BY <1>1
  <2>3. CASE r \in T
    <3>1. ~s[r].inFlight /\ st'[r].inFlight = TRUE
      BY <1>2, <1>3, <2>3
    <3> QED
      BY <2>1, <2>2, <2>3, <3>1
  <2>4. CASE r \notin T
    <3>1. st'[r] = s[r]
      BY <1>3, <2>4
    <3>2. reads'[r] = reads[r] + 0
      BY <2>2, <2>4
    <3> QED
      BY <2>1, <3>1, <3>2
  <2> QED
    BY <2>3, <2>4
<1>7. InFlight(st') = InFlight(s) \cup T
  BY <1>2, <1>3 DEF InFlight
<1>8. SlowOf(st', InFlight(st')) \subseteq SlowOf(s, InFlight(s)) \cup L
  <2>1. \A r \in Routers : IsSlow(st'[r]) = IsSlow(s[r])
    BY <1>3 DEF IsSlow
  <2>2. \A r \in H : ~IsSlow(s[r])
    BY <1>1 DEF SlowOf
  <2> QED
    BY <1>2, <1>7, <2>1, <2>2 DEF SlowOf, InFlight
<1>9. SlotsOK(st')
  <2> DEFINE A == InFlight(s)
             B == SlowOf(s, InFlight(s))
  <2>1. /\ IsFiniteSet(A) /\ Cardinality(A) \in Nat /\ IsFiniteSet(B) /\ Cardinality(B) \in Nat
        /\ PoolMax \in Int
    BY SlotCounts, SchedulerAssumption
  <2>2. /\ IsFiniteSet(T) /\ Cardinality(T) \in Nat
        /\ Cardinality(T) <= Cardinality(H) + Cardinality(L)
    BY <1>1, UnionBound
  <2>3. Cardinality(A \cup T) \in Nat /\ Cardinality(A \cup T) <= Cardinality(A) + Cardinality(T)
    BY <2>1, <2>2, UnionBound
  <2>4. /\ IsFiniteSet(B \cup L) /\ Cardinality(B \cup L) \in Nat
        /\ Cardinality(B \cup L) <= Cardinality(B) + Cardinality(L)
    BY <1>1, <2>1, UnionBound
  <2>5. /\ Cardinality(SlowOf(st', InFlight(st'))) \in Nat
        /\ Cardinality(SlowOf(st', InFlight(st'))) <= Cardinality(B \cup L)
    <3>1. SlowOf(st', InFlight(st')) \in SUBSET (B \cup L)
      BY <1>8
    <3> QED
      BY <2>4, <3>1, FS_Subset, FS_CardinalityType
  <2>6. /\ Cardinality(H) + Cardinality(L) <= PoolMax - Cardinality(A)
        /\ Cardinality(L) <= PoolMax - 1 - Cardinality(B)
    BY <1>1 DEF Free, SlowRoom
  <2> HIDE DEF A, B, T
  <2>7. Cardinality(A \cup T) <= PoolMax
    BY <1>1, <2>1, <2>2, <2>3, <2>6
  <2>8. Cardinality(SlowOf(st', InFlight(st'))) <= PoolMax - 1
    BY <1>1, <2>1, <2>4, <2>5, <2>6
  <2> QED
    BY <1>7, <2>7, <2>8 DEF SlotsOK, A
<1> QED
  BY <1>4, <1>5, <1>6, <1>9

-----------------------------------------------------------------------------
(* The inductive invariant.                                                  *)

LEMMA InvInit == Init => IInv
<1> SUFFICES ASSUME Init PROVE IInv
  OBVIOUS
<1>1. /\ st = [r \in Routers |-> Unknown] /\ reads = [r \in Routers |-> 0]
      /\ elapsed = [r \in Routers |-> 0] /\ recent = {}
      /\ fact \in [Routers -> {"none", "blocked", "down", "up"}]
      /\ beat \in BOOLEAN /\ listAge \in 0..Ttl /\ changes \in 0..MaxChanges
  BY SchedulerAssumption DEF Init
<1>2. 0 <= Longest
  BY LongestBounds
<1>3. GoodStates(st)
  BY <1>1, <1>2, UnknownType DEF GoodStates
<1>4. Counted(st, reads)
  BY <1>1, UnknownType DEF Counted
<1>5. SlotsOK(st)
  <2>1. InFlight(st) = {} /\ SlowOf(st, InFlight(st)) = {}
    BY <1>1, UnknownType DEF InFlight, SlowOf
  <2>2. Cardinality({}) = 0
    BY FS_EmptySet, Zenon
  <2>3. 0 <= PoolMax /\ 0 <= PoolMax - 1
    BY SchedulerAssumption
  <2> QED
    BY <2>1, <2>2, <2>3 DEF SlotsOK
<1>6. reads \in [Routers -> Nat] /\ elapsed \in [Routers -> 0..Deadline]
  BY <1>1, SchedulerAssumption
<1> QED
  BY <1>1, <1>3, <1>4, <1>5, <1>6 DEF IInv, TypeOK, GoodStates, Longest

\* The conjuncts of IInv' that a step may disturb, apart from the plain data.
StatesGood ==
  /\ GoodStates(st) /\ Counted(st, reads) /\ SlotsOK(st)
  /\ reads \in [Routers -> Nat] /\ elapsed \in [Routers -> 0..Deadline]

LEMMA DispatchStep ==
  ASSUME IInv, Dispatch
  PROVE  StatesGood'
<1>1. /\ GoodStates(st) /\ Counted(st, reads) /\ SlotsOK(st)
      /\ reads \in [Routers -> Nat] /\ elapsed \in [Routers -> 0..Deadline]
      /\ fact \in [Routers -> {"none", "blocked", "down", "up"}]
  BY DEF IInv, TypeOK
<1>2. ASSUME NEW s, GoodStates(s), Counted(s, reads), SlotsOK(s), Launch(s) PROVE StatesGood'
  BY <1>1, <1>2, LaunchGood DEF StatesGood
<1>3. CASE DispatchLaunch \/ DispatchListFailed
  BY <1>1, <1>2, <1>3 DEF DispatchLaunch, DispatchListFailed
<1>4. CASE DispatchRefresh
  <2>1. PICK s \in {Refreshed} : Launch(s)
    BY <1>4 DEF DispatchRefresh
  <2>2. GoodStates(s)
    BY <1>1, <2>1, RefreshedGood
  <2>3. \A r \in Routers : /\ s[r].inFlight = st[r].inFlight
                           /\ st[r].inFlight => IsSlow(s[r]) = IsSlow(st[r])
    BY <1>1, <2>1, RefreshedGood
  <2>4. Counted(s, reads)
    BY <1>1, <2>3 DEF Counted
  <2>5. InFlight(s) = InFlight(st)
    BY <2>3 DEF InFlight
  <2>6. SlowOf(s, InFlight(s)) = SlowOf(st, InFlight(st))
    BY <2>3, <2>5 DEF SlowOf, InFlight
  <2>7. SlotsOK(s)
    BY <1>1, <2>5, <2>6 DEF SlotsOK
  <2> QED
    BY <1>2, <2>1, <2>2, <2>4, <2>7
<1> QED
  BY <1>3, <1>4 DEF Dispatch

\* A read that ends, and the passage of time, free slots or leave them.
LEMMA SlotsShrink ==
  ASSUME NEW s, NEW t, SlotsOK(s), InFlight(t) \subseteq InFlight(s),
         \A r \in InFlight(t) : IsSlow(t[r]) => IsSlow(s[r])
  PROVE  SlotsOK(t)
<1>1. InFlight(t) \in SUBSET InFlight(s)
  OBVIOUS
<1>2. SlowOf(t, InFlight(t)) \in SUBSET SlowOf(s, InFlight(s))
  BY DEF SlowOf
<1>3. /\ Cardinality(InFlight(t)) <= Cardinality(InFlight(s))
      /\ Cardinality(SlowOf(t, InFlight(t))) <= Cardinality(SlowOf(s, InFlight(s)))
  BY <1>1, <1>2, SlotCounts, FS_Subset
<1> QED
  BY <1>3, SlotCounts, SchedulerAssumption DEF SlotsOK

LEMMA RunEndStep ==
  ASSUME IInv, NEW r \in Routers, NEW status \in Statuses, RunEnd(r, status)
  PROVE  StatesGood'
<1>1. /\ GoodStates(st) /\ Counted(st, reads) /\ SlotsOK(st)
      /\ reads \in [Routers -> Nat] /\ elapsed \in [Routers -> 0..Deadline]
      /\ reads[r] > 0
  BY DEF IInv, TypeOK, RunEnd
<1>2. st[r].inFlight /\ st[r].known /\ st[r] \in RouterState /\ st[r].wait <= Longest
  <2>1. st[r].inFlight
    BY <1>1 DEF Counted
  <2> QED
    BY <1>1, <2>1, UnknownType DEF GoodStates
<1> DEFINE y == Ended(st[r], status, elapsed[r])
<1>3. /\ st' = [st EXCEPT ![r] = y]
      /\ reads' = [reads EXCEPT ![r] = reads[r] - 1]
      /\ elapsed' = [elapsed EXCEPT ![r] = 0]
  BY <1>2 DEF RunEnd
<1>4. y \in RouterState /\ y.wait <= Longest /\ ~y.inFlight /\ y.known
  <2>1. elapsed[r] \in 0..Deadline
    BY <1>1
  <2> QED
    BY <1>2, <2>1, EndedGood
<1> HIDE DEF y
<1>5. st' \in [Routers -> RouterState] /\ st'[r] = y /\ \A q \in Routers : q # r => st'[q] = st[q]
  BY <1>1, <1>3, <1>4 DEF GoodStates
<1>6. GoodStates(st')
  BY <1>1, <1>4, <1>5 DEF GoodStates
<1>7. reads[r] = 1
  BY <1>1, <1>2 DEF Counted
<1>8. reads' \in [Routers -> Nat] /\ elapsed' \in [Routers -> 0..Deadline] /\ reads'[r] = 0
      /\ \A q \in Routers : q # r => reads'[q] = reads[q]
  BY <1>1, <1>3, <1>7, SchedulerAssumption
<1>9. Counted(st', reads')
  BY <1>1, <1>4, <1>5, <1>8 DEF Counted
<1>10. SlotsOK(st')
  <2>1. InFlight(st') \subseteq InFlight(st) /\ \A q \in InFlight(st') : st'[q] = st[q]
    BY <1>4, <1>5 DEF InFlight
  <2>2. \A q \in InFlight(st') : IsSlow(st'[q]) => IsSlow(st[q])
    BY <2>1
  <2> QED
    BY <1>1, <2>1, <2>2, SlotsShrink
<1> QED
  BY <1>6, <1>8, <1>9, <1>10 DEF StatesGood

LEMMA TickStep ==
  ASSUME IInv, Tick
  PROVE  StatesGood'
<1>1. /\ GoodStates(st) /\ Counted(st, reads) /\ SlotsOK(st)
      /\ reads \in [Routers -> Nat] /\ elapsed \in [Routers -> 0..Deadline]
      /\ reads' = reads
  BY DEF IInv, TypeOK, Tick
<1>2. ASSUME NEW r \in Routers
      PROVE  /\ st'[r] \in RouterState /\ st'[r].wait <= Longest
             /\ st'[r].known \/ st'[r] = Unknown
             /\ st'[r].inFlight = st[r].inFlight /\ IsSlow(st'[r]) = IsSlow(st[r])
  <2> DEFINE x == st[r]
             w == IF x.wait > 0 THEN x.wait - 1 ELSE 0
             n == IF x.since = Never THEN Never ELSE Min({x.since + 1, Probe})
  <2>1. x \in RouterState /\ x.wait <= Longest /\ (x.known \/ x = Unknown)
    BY <1>1 DEF GoodStates
  <2>2. st'[r] = [x EXCEPT !.wait = w, !.since = n]
    BY DEF Tick
  <2>3. w \in Nat /\ w <= Longest
    <3>1. x.wait \in Nat /\ Longest \in Nat
      BY <2>1, LongestBounds DEF RouterState
    <3> HIDE DEF x
    <3> QED
      BY <2>1, <3>1
  <2>4. n \in {Never} \cup (0..Probe)
    <3>1. x.since \in {Never} \cup (0..Probe) /\ Probe \in Nat
      BY <2>1, SchedulerAssumption DEF RouterState
    <3> HIDE DEF x
    <3>2. CASE x.since # Never
      <4>1. x.since + 1 \in Int /\ Probe \in Int /\ 0 <= x.since + 1
        BY <3>1, <3>2
      <4>2. Min({x.since + 1, Probe}) \in {x.since + 1, Probe} /\ Min({x.since + 1, Probe}) <= Probe
        BY <4>1, MinOfTwo, Zenon
      <4>3. Min({x.since + 1, Probe}) \in 0..Probe
        BY <3>1, <4>1, <4>2
      <4> QED
        BY <3>2, <4>3
    <3> QED
      BY <3>2
  <2>5. ASSUME x = Unknown PROVE [x EXCEPT !.wait = w, !.since = n] = Unknown
    <3>1. x.wait = 0 /\ x.since = Never
      BY <2>5 DEF Unknown
    <3>2. w = 0 /\ n = Never
      BY <3>1
    <3> HIDE DEF w, n
    <3>3. [x EXCEPT !.wait = x.wait, !.since = x.since] = x
      <4>1. x \in RouterState
        BY <2>1
      <4> HIDE DEF x
      <4> QED
        BY <4>1 DEF RouterState
    <3> QED
      BY <2>5, <3>1, <3>2, <3>3
  <2> HIDE DEF x, w, n
  <2>6. /\ st'[r] \in RouterState /\ st'[r].wait = w /\ st'[r].known = x.known
        /\ st'[r].inFlight = x.inFlight /\ st'[r].fails = x.fails /\ st'[r].slow = x.slow
    BY <2>1, <2>2, <2>3, <2>4 DEF RouterState
  <2>7. x = Unknown => st'[r] = Unknown
    BY <2>2, <2>5
  <2>8. IsSlow(st'[r]) = IsSlow(x)
    BY <2>6 DEF IsSlow
  <2>9. st'[r].known \/ st'[r] = Unknown
    BY <2>1, <2>6, <2>7
  <2> QED
    BY <2>3, <2>6, <2>8, <2>9 DEF x
<1>3. st' \in [Routers -> RouterState]
  <2>1. st' = [r \in Routers |-> st'[r]]
    BY DEF Tick
  <2> QED
    BY <1>2, <2>1
<1>4. GoodStates(st')
  BY <1>2, <1>3 DEF GoodStates
<1>5. Counted(st', reads')
  BY <1>1, <1>2 DEF Counted
<1>6. SlotsOK(st')
  <2>1. InFlight(st') \subseteq InFlight(st)
    BY <1>2 DEF InFlight
  <2>2. \A q \in InFlight(st') : IsSlow(st'[q]) => IsSlow(st[q])
    BY <1>2 DEF InFlight
  <2> QED
    BY <1>1, <2>1, <2>2, SlotsShrink
<1>7. elapsed' \in [Routers -> 0..Deadline]
  <2>1. ASSUME NEW r \in Routers
        PROVE  (IF reads[r] > 0 THEN elapsed[r] + 1 ELSE 0) \in 0..Deadline
    <3>1. elapsed[r] \in 0..Deadline /\ Deadline \in Nat
          /\ (reads[r] > 0 => elapsed[r] < Deadline)
      BY <1>1, SchedulerAssumption DEF Tick
    <3> QED
      BY <3>1
  <2>2. elapsed' = [r \in Routers |-> IF reads[r] > 0 THEN elapsed[r] + 1 ELSE 0]
    BY DEF Tick
  <2> QED
    BY <2>1, <2>2
<1> QED
  BY <1>1, <1>4, <1>5, <1>6, <1>7 DEF StatesGood

LEMMA DataStep ==
  ASSUME IInv, [Next]_vars
  PROVE  /\ fact' \in [Routers -> {"none", "blocked", "down", "up"}]
         /\ recent' \subseteq Routers \X Routers
         /\ beat' \in BOOLEAN /\ listAge' \in 0..Ttl /\ changes' \in 0..MaxChanges
<1>1. /\ fact \in [Routers -> {"none", "blocked", "down", "up"}]
      /\ recent \subseteq Routers \X Routers
      /\ beat \in BOOLEAN /\ listAge \in 0..Ttl /\ changes \in 0..MaxChanges
  BY DEF IInv, TypeOK
<1>2. CASE Dispatch
  <2>1. UNCHANGED <<fact, changes>> /\ beat' = FALSE
    BY <1>2 DEF Dispatch, DispatchLaunch, DispatchRefresh, DispatchListFailed
  <2>2. listAge' = listAge \/ listAge' = 0
    BY <1>2 DEF Dispatch, DispatchLaunch, DispatchRefresh, DispatchListFailed
  <2>3. recent' \subseteq recent
    BY <1>2 DEF Dispatch, DispatchLaunch, DispatchRefresh, DispatchListFailed
  <2>4. listAge' \in 0..Ttl
    BY <1>1, <2>2, SchedulerAssumption
  <2> QED
    BY <1>1, <2>1, <2>3, <2>4
<1>3. CASE Tick
  <2>1. listAge' = Min({listAge + 1, Ttl})
    BY <1>3 DEF Tick
  <2>2. listAge + 1 \in Int /\ Ttl \in Int /\ 0 <= listAge + 1 /\ Ttl \in Nat
    BY <1>1, SchedulerAssumption
  <2>3. listAge' \in {listAge + 1, Ttl} /\ listAge' <= Ttl
    BY <2>1, <2>2, MinOfTwo, Zenon
  <2>4. listAge' \in 0..Ttl
    BY <2>2, <2>3
  <2> QED
    BY <1>1, <1>3, <2>4 DEF Tick
<1>4. ASSUME NEW r \in Routers, Configure(r)
      PROVE  /\ fact' \in [Routers -> {"none", "blocked", "down", "up"}]
             /\ changes' \in 0..MaxChanges /\ UNCHANGED <<recent, beat, listAge>>
  BY <1>1, <1>4, SchedulerAssumption DEF Configure
<1>5. ASSUME NEW r \in Routers, NEW status \in Statuses, RunEnd(r, status)
      PROVE  recent' \subseteq Routers \X Routers /\ UNCHANGED <<fact, beat, listAge, changes>>
  BY <1>1, <1>5 DEF RunEnd
<1>6. CASE UNCHANGED vars
  BY <1>1, <1>6 DEF vars
<1> QED
  BY <1>1, <1>2, <1>3, <1>4, <1>5, <1>6 DEF Next

LEMMA InvStep == IInv /\ [Next]_vars => IInv'
<1> SUFFICES ASSUME IInv, [Next]_vars PROVE IInv'
  OBVIOUS
<1>1. StatesGood
  BY DEF IInv, TypeOK, StatesGood
<1>2. CASE UNCHANGED <<st, reads, elapsed>>
  <2>1. st' = st /\ reads' = reads /\ elapsed' = elapsed
    BY <1>2
  <2> QED
    BY <1>1, <2>1, DataStep DEF IInv, TypeOK, StatesGood, GoodStates, Longest
<1>3. CASE StatesGood'
  BY <1>3, DataStep DEF IInv, TypeOK, StatesGood, GoodStates, Longest
<1>4. ASSUME NEW r \in Routers, Configure(r) PROVE UNCHANGED <<st, reads, elapsed>>
  BY <1>4 DEF Configure
<1> QED
  BY <1>2, <1>3, <1>4, DispatchStep, TickStep, RunEndStep DEF Next, vars

LEMMA InvAlways == Spec => []IInv
  BY InvInit, InvStep, PTL DEF Spec

-----------------------------------------------------------------------------
(* The theorems.                                                             *)

\* Types are kept, and no wait is longer than the cap of the backoff or the
\* longest read.
THEOREM TypeCorrect == Spec => []TypeOK
<1>1. IInv => TypeOK
  BY DEF IInv
<1> QED
  BY <1>1, InvAlways, PTL

\* A router is read once at a time, although it may be deleted and come back
\* while a read of it is running.
THEOREM OneReadCorrect == Spec => []OneReadPerRouter
<1>1. IInv => OneReadPerRouter
  BY DEF IInv, Counted, OneReadPerRouter
<1> QED
  BY <1>1, InvAlways, PTL

\* The pool is never exceeded, and its last slot never goes to a slow router.
THEOREM PoolCorrect == Spec => []PoolBounded
<1>1. ASSUME IInv PROVE PoolBounded
  <2>1. Running = InFlight(st)
    BY <1>1 DEF IInv, Counted, Running, InFlight
  <2> QED
    BY <1>1, <2>1 DEF IInv, SlotsOK, PoolBounded
<1>2. IInv => PoolBounded
  BY <1>1
<1> QED
  BY <1>2, InvAlways, PTL
=============================================================================
