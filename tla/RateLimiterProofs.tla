-------------------------- MODULE RateLimiterProofs --------------------------
(* Proofs about the duplicate cache, the two sliding windows and the time   *)
(* a refusal names, for any requests, nodes, limits and windows.            *)
EXTENDS RateLimiter, DataTheorems, TLAPS

(* The cache holds the latest time each signal passed, and forgets it only  *)
(* when a whole window has gone by; the clock never runs behind the history.*)
CacheTypeOK ==
  /\ now \in Nat
  /\ recentSignals \in [Signals -> Nat \cup {Never}]
  /\ admitted \in [Requests -> SUBSET Nat]

CacheRemembers ==
  \A r \in Requests : \A t \in admitted[r] :
    LET lastSeen == recentSignals[SignalOf[r]]
    IN IF lastSeen = Never THEN t + DupWindow <= now ELSE t <= lastSeen /\ lastSeen <= now

DupInv == CacheTypeOK /\ CacheRemembers /\ DuplicatesApart

(* What Check has found when it admits: every earlier pass of the signal    *)
(* is a whole window ago.                                                   *)
LEMMA AdmitsAfterWindow ==
  ASSUME DupInv, NEW r \in Requests, Verdict(r) = "allowed",
         NEW q \in Requests, SignalOf[q] = SignalOf[r], NEW t \in admitted[q]
  PROVE  t + DupWindow <= now
<1> USE LimiterAssumption
<1> DEFINE lastSeen == recentSignals[SignalOf[r]]
<1>1. /\ now \in Nat /\ DupWindow \in Nat /\ t \in Nat
      /\ lastSeen \in Nat \cup {Never}
  BY DEF DupInv, CacheTypeOK
<1>2. IF lastSeen = Never THEN t + DupWindow <= now ELSE t <= lastSeen
  BY DEF DupInv, CacheRemembers
<1>3. ~(lastSeen # Never /\ now < lastSeen + DupWindow)
  BY DEF Verdict
<1> HIDE DEF lastSeen
<1> QED BY <1>1, <1>2, <1>3

(* The cache is empty at the start.                                         *)
LEMMA DupInitInv == Init => DupInv
  BY LimiterAssumption DEF Init, DupInv, CacheTypeOK, CacheRemembers, DuplicatesApart

(* An admitted signal was not in the cache, so its last time is long ago.   *)
LEMMA AdmitInv ==
  ASSUME DupInv, NEW r \in Requests, Admit(r)
  PROVE  DupInv'
<1> USE LimiterAssumption
<1>1. /\ now \in Nat /\ now' = now /\ DupWindow \in Nat \ {0}
      /\ recentSignals \in [Signals -> Nat \cup {Never}]
      /\ recentSignals' = [recentSignals EXCEPT ![SignalOf[r]] = now]
      /\ admitted \in [Requests -> SUBSET Nat]
      /\ admitted' = [admitted EXCEPT ![r] = @ \cup {now}]
      /\ SignalOf \in [Requests -> Signals]
      /\ Verdict(r) = "allowed"
  BY DEF DupInv, CacheTypeOK, Admit
<1>2. ASSUME NEW q \in Requests, SignalOf[q] = SignalOf[r], NEW t \in admitted[q]
      PROVE  t + DupWindow <= now
  BY <1>2, <1>1, AdmitsAfterWindow
<1>3. CacheTypeOK'
  BY <1>1 DEF CacheTypeOK
<1>4. CacheRemembers'
  <2> SUFFICES ASSUME NEW q \in Requests, NEW t \in admitted'[q]
               PROVE  IF recentSignals'[SignalOf[q]] = Never THEN t + DupWindow <= now'
                      ELSE t <= recentSignals'[SignalOf[q]] /\ recentSignals'[SignalOf[q]] <= now'
    BY DEF CacheRemembers
  <2>1. CASE SignalOf[q] = SignalOf[r]
    <3>1. recentSignals'[SignalOf[q]] = now /\ now # Never
      BY <2>1, <1>1
    <3>2. t = now \/ t \in admitted[q]
      BY <1>1
    <3>3. t \in Nat /\ t <= now
      BY <3>2, <2>1, <1>2, <1>1
    <3> QED BY <3>1, <3>3, <1>1
  <2>2. CASE SignalOf[q] # SignalOf[r]
    <3>1. recentSignals'[SignalOf[q]] = recentSignals[SignalOf[q]] /\ t \in admitted[q]
      BY <2>2, <1>1
    <3> QED BY <3>1, <1>1 DEF DupInv, CacheRemembers
  <2> QED BY <2>1, <2>2
<1>5. DuplicatesApart'
  <2> SUFFICES ASSUME NEW q \in Requests, NEW p \in Requests, SignalOf[q] = SignalOf[p],
                      NEW t \in admitted'[q], NEW u \in admitted'[p]
               PROVE  (t < u => u >= t + DupWindow) /\ (t = u => q = p)
    BY DEF DuplicatesApart
  <2>1. t \in Nat /\ u \in Nat
    BY <1>1
  <2>2. (t \in admitted[q] \/ (q = r /\ t = now)) /\ (u \in admitted[p] \/ (p = r /\ u = now))
    BY <1>1
  <2>3. CASE t \in admitted[q] /\ u \in admitted[p]
    BY <2>3 DEF DupInv, DuplicatesApart
  <2>4. CASE t \in admitted[q] /\ p = r /\ u = now
    <3>1. t + DupWindow <= now
      BY <2>4, <1>2
    <3> QED BY <3>1, <2>4, <2>1, <1>1
  <2>5. CASE q = r /\ t = now /\ u \in admitted[p]
    <3>1. u + DupWindow <= now
      BY <2>5, <1>2
    <3> QED BY <3>1, <2>5, <2>1, <1>1
  <2>6. CASE q = r /\ t = now /\ p = r /\ u = now
    BY <2>6, <1>1
  <2> QED BY <2>2, <2>3, <2>4, <2>5, <2>6
<1> QED BY <1>3, <1>4, <1>5 DEF DupInv

(* The cleanup forgets a signal only once its window is over.               *)
LEMMA CleanupInv ==
  ASSUME DupInv, Cleanup
  PROVE  DupInv'
<1> USE LimiterAssumption
<1>1. /\ now \in Nat /\ now' = now /\ DupWindow \in Nat
      /\ recentSignals \in [Signals -> Nat \cup {Never}]
      /\ recentSignals' = [s \in Signals |->
           IF recentSignals[s] # Never /\ recentSignals[s] < DupCutoff THEN Never
           ELSE recentSignals[s]]
      /\ admitted \in [Requests -> SUBSET Nat] /\ admitted' = admitted
      /\ SignalOf \in [Requests -> Signals]
  BY DEF DupInv, CacheTypeOK, Cleanup
<1>2. CacheTypeOK' /\ DuplicatesApart'
  BY <1>1 DEF DupInv, CacheTypeOK, DuplicatesApart
<1>3. CacheRemembers'
  <2> SUFFICES ASSUME NEW q \in Requests, NEW t \in admitted[q]
               PROVE  IF recentSignals'[SignalOf[q]] = Never THEN t + DupWindow <= now
                      ELSE t <= recentSignals'[SignalOf[q]] /\ recentSignals'[SignalOf[q]] <= now
    BY <1>1 DEF CacheRemembers
  <2> DEFINE s == SignalOf[q]
  <2>1. /\ s \in Signals /\ t \in Nat
        /\ IF recentSignals[s] = Never THEN t + DupWindow <= now
           ELSE t <= recentSignals[s] /\ recentSignals[s] <= now
    BY <1>1 DEF DupInv, CacheRemembers
  <2> HIDE DEF s
  <2>2. CASE recentSignals[s] # Never /\ recentSignals[s] < DupCutoff
    <3>1. recentSignals'[s] = Never /\ recentSignals[s] \in Nat
      BY <2>1, <2>2, <1>1
    <3>2. recentSignals[s] < now - DupWindow
      BY <2>2, <3>1, <1>1 DEF DupCutoff, Ago
    <3> QED BY <2>1, <2>2, <3>1, <3>2, <1>1 DEF s
  <2>3. CASE ~(recentSignals[s] # Never /\ recentSignals[s] < DupCutoff)
    <3>1. recentSignals'[s] = recentSignals[s]
      BY <2>1, <2>3, <1>1
    <3> QED BY <2>1, <3>1 DEF s
  <2> QED BY <2>2, <2>3
<1> QED BY <1>2, <1>3 DEF DupInv

(* Every step preserves the invariant.                                      *)
LEMMA DupNextInv == DupInv /\ [Next]_vars => DupInv'
<1> SUFFICES ASSUME DupInv, [Next]_vars PROVE DupInv'
  OBVIOUS
<1> USE LimiterAssumption
<1>1. ASSUME NEW r \in Requests, Refuse(r) PROVE DupInv'
  BY <1>1 DEF Refuse, DupInv, CacheTypeOK, CacheRemembers, DuplicatesApart
<1>2. ASSUME NEW r \in Requests, Admit(r) PROVE DupInv'
  BY <1>2, AdmitInv
<1>3. CASE Cleanup
  BY <1>3, CleanupInv
<1>4. CASE Tick
  <2>1. /\ now \in Nat /\ now' = now + 1 /\ DupWindow \in Nat
        /\ recentSignals' = recentSignals /\ admitted' = admitted
    BY <1>4 DEF Tick, limiterVars, DupInv, CacheTypeOK
  <2>2. CacheTypeOK' /\ DuplicatesApart'
    BY <2>1 DEF DupInv, CacheTypeOK, DuplicatesApart
  <2>3. ASSUME NEW q \in Requests, NEW t \in admitted[q]
        PROVE  IF recentSignals[SignalOf[q]] = Never THEN t + DupWindow <= now + 1
               ELSE t <= recentSignals[SignalOf[q]] /\ recentSignals[SignalOf[q]] <= now + 1
    <3>1. /\ t \in Nat /\ recentSignals[SignalOf[q]] \in Nat \cup {Never}
          /\ IF recentSignals[SignalOf[q]] = Never THEN t + DupWindow <= now
             ELSE t <= recentSignals[SignalOf[q]] /\ recentSignals[SignalOf[q]] <= now
      BY DEF DupInv, CacheTypeOK, CacheRemembers
    <3> QED BY <3>1, <2>1
  <2> QED BY <2>1, <2>2, <2>3 DEF DupInv, CacheRemembers
<1>5. CASE UNCHANGED vars
  BY <1>5 DEF vars, limiterVars, DupInv, CacheTypeOK, CacheRemembers, DuplicatesApart
<1> QED BY <1>1, <1>2, <1>3, <1>4, <1>5 DEF Next

(* No signal passes Check twice within a duplicate window, whatever the     *)
(* cleanup forgets and under whichever node ids it is sent.                 *)
THEOREM LimiterDuplicatesApart == Spec => []DuplicatesApart
<1>1. Spec => []DupInv
  BY DupInitInv, DupNextInv, PTL DEF Spec
<1>2. DupInv => DuplicatesApart
  BY DEF DupInv
<1> QED BY <1>1, <1>2, PTL

----------------------------------------------------------------------------
(* Slices and what filterAfter makes of them *)

LEMMA FilterType ==
  ASSUME NEW S, NEW slice \in Seq(S), NEW c
  PROVE  /\ FilterAfter(slice, c) \in Seq(S)
         /\ Len(FilterAfter(slice, c)) <= Len(slice)
         /\ Len(FilterAfter(slice, c)) \in Nat
  BY KeepType, LenProperties DEF FilterAfter

(* Filtering first with an earlier cutoff changes nothing, and with any     *)
(* cutoff leaves no more.                                                   *)
LEMMA FilterTwice ==
  ASSUME NEW S, NEW slice \in Seq(S), NEW c \in Nat, NEW d \in Nat
  PROVE  /\ Len(FilterAfter(FilterAfter(slice, d), c)) <= Len(FilterAfter(slice, c))
         /\ d <= c => FilterAfter(FilterAfter(slice, d), c) = FilterAfter(slice, c)
<1>1. d <= c => After(c) \subseteq After(d)
  BY DEF After
<1> QED BY <1>1, KeepTwice DEF FilterAfter

LEMMA FilterAppend ==
  ASSUME NEW S, NEW slice \in Seq(S), NEW t \in S, t \in Nat, NEW c \in Nat
  PROVE  FilterAfter(Append(slice, t), c) =
           IF t > c THEN Append(FilterAfter(slice, c), t) ELSE FilterAfter(slice, c)
<1>1. t \in After(c) <=> t > c
  BY DEF After
<1> QED BY <1>1, KeepAppend DEF FilterAfter

(* A cutoff that is not before the first timestamp drops it.                *)
LEMMA FilterDropsHead ==
  ASSUME NEW S, NEW slice \in Seq(S), slice # <<>>, NEW c \in Nat, Head(slice) <= c
  PROVE  Len(FilterAfter(slice, c)) < Len(slice)
<1>1. Head(slice) = slice[1] /\ 1 \in 1 .. Len(slice)
  BY EmptySeq
<1>2. slice[1] \notin After(c)
  BY <1>1 DEF After
<1> QED BY <1>1, <1>2, KeepDrops DEF FilterAfter

----------------------------------------------------------------------------
(* How many requests have passed since an instant *)

Since(adm, c) == [r \in Requests |-> Cardinality({u \in adm[r] : u > c})]

(* From some instant on, a slice still holds a timestamp for every pass.    *)
Covers(slice, adm, reqs, from) ==
  \A c \in Nat : c >= from =>
    SumFunctionOnSet(Since(adm, c), reqs) <= Len(FilterAfter(slice, c))

LEMMA SinceFinite ==
  ASSUME NEW n \in Nat, NEW adm \in [Requests -> SUBSET (1 .. n)], NEW r \in Requests, NEW P,
         P \subseteq adm[r]
  PROVE  IsFiniteSet(P) /\ Cardinality(P) \in Nat
<1>1. P \subseteq 1 .. n /\ IsFiniteSet(1 .. n)
  BY FS_Interval
<1> QED BY <1>1, FS_Subset, FS_CardinalityType

LEMMA SinceType ==
  ASSUME NEW n \in Nat, NEW adm \in [Requests -> SUBSET (1 .. n)], NEW c, NEW r \in Requests
  PROVE  Since(adm, c)[r] \in Nat
  BY SinceFinite DEF Since

LEMMA SumSinceType ==
  ASSUME NEW n \in Nat, NEW adm \in [Requests -> SUBSET (1 .. n)], NEW c,
         NEW reqs \in SUBSET Requests
  PROVE  SumFunctionOnSet(Since(adm, c), reqs) \in Nat
<1>1. IsFiniteSet(reqs)
  BY LimiterAssumption, FS_Subset
<1> QED BY <1>1, SinceType, SumType

(* One more pass counts once, from the instants before it.                  *)
LEMMA SumSinceAdmitted ==
  ASSUME NEW n \in Nat, NEW adm \in [Requests -> SUBSET (1 .. n)], NEW c \in Nat,
         NEW reqs \in SUBSET Requests, NEW r \in Requests, NEW t \in 1 .. n
  PROVE  LET more == [adm EXCEPT ![r] = @ \cup {t}]
         IN SumFunctionOnSet(Since(more, c), reqs) <=
              SumFunctionOnSet(Since(adm, c), reqs) + (IF r \in reqs /\ t > c THEN 1 ELSE 0)
<1>1. PICK more : more = [adm EXCEPT ![r] = @ \cup {t}]
  OBVIOUS
<1>2. /\ more \in [Requests -> SUBSET (1 .. n)]
      /\ more[r] = adm[r] \cup {t}
      /\ \A q \in Requests : q # r => more[q] = adm[q]
  BY <1>1
<1>3. PICK f, g : f = Since(adm, c) /\ g = Since(more, c)
  OBVIOUS
<1>4. IsFiniteSet(reqs) /\ \A q \in reqs : f[q] \in Nat /\ g[q] \in Nat
  BY <1>2, <1>3, SinceType, LimiterAssumption, FS_Subset
<1>5. \A q \in Requests : q # r => f[q] = g[q]
  BY <1>2, <1>3 DEF Since
<1>6. g[r] <= f[r] + (IF t > c THEN 1 ELSE 0) /\ f[r] \in Nat /\ g[r] \in Nat
  <2>1. PICK A, B : A = {u \in adm[r] : u > c} /\ B = {u \in more[r] : u > c}
    OBVIOUS
  <2>2. f[r] = Cardinality(A) /\ g[r] = Cardinality(B)
    BY <1>3, <2>1 DEF Since
  <2>3. IsFiniteSet(A) /\ f[r] \in Nat /\ g[r] \in Nat
    BY <1>2, <2>1, <2>2, SinceFinite
  <2>4. CASE t > c
    <3>1. B = A \cup {t}
      BY <1>2, <2>1, <2>4
    <3>2. Cardinality(B) = IF t \in A THEN Cardinality(A) ELSE Cardinality(A) + 1
      BY <2>3, <3>1, FS_AddElement
    <3> QED BY <2>2, <2>3, <2>4, <3>2
  <2>5. CASE ~(t > c)
    <3>1. B = A
      BY <1>2, <2>1, <2>5
    <3> QED BY <2>2, <2>3, <2>5, <3>1
  <2> QED BY <2>3, <2>4, <2>5
<1>7. PICK a, b : a = SumFunctionOnSet(f, reqs) /\ b = SumFunctionOnSet(g, reqs)
  OBVIOUS
<1>8. a \in Nat /\ b \in Nat
  BY <1>4, <1>7, SumType
<1>9. CASE r \in reqs
  <2>1. b + f[r] = a + g[r]
    BY <1>4, <1>5, <1>7, <1>9, SumOneChanged
  <2>2. b <= a + (IF t > c THEN 1 ELSE 0)
    BY <1>6, <1>8, <2>1
  <2> QED BY <1>1, <1>3, <1>7, <1>9, <2>2
<1>10. CASE r \notin reqs
  <2>1. a = b
    BY <1>4, <1>5, <1>7, <1>10, SumSame
  <2> QED BY <1>1, <1>3, <1>7, <1>8, <1>10, <2>1
<1> QED BY <1>9, <1>10

(* Recording a pass in the filtered slice keeps it covered; passes of other *)
(* requests do not matter to it; filtering it, at or before the instant     *)
(* from which it is read, and the passing of time do no harm.               *)
LEMMA CoversAppend ==
  ASSUME NEW n \in Nat, NEW adm \in [Requests -> SUBSET (1 .. n)],
         NEW reqs \in SUBSET Requests, NEW r \in reqs, NEW t \in 1 .. n,
         NEW slice \in Seq(1 .. n), NEW from \in Nat, Covers(slice, adm, reqs, from)
  PROVE  Covers(Append(FilterAfter(slice, from), t), [adm EXCEPT ![r] = @ \cup {t}], reqs, from)
<1>1. PICK more, kept : more = [adm EXCEPT ![r] = @ \cup {t}] /\ kept = FilterAfter(slice, from)
  OBVIOUS
<1>2. kept \in Seq(1 .. n)
  BY <1>1, FilterType
<1>3. ASSUME NEW c \in Nat, c >= from
      PROVE  SumFunctionOnSet(Since(more, c), reqs) <= Len(FilterAfter(Append(kept, t), c))
  <2>1. PICK a, b, s, k :
          /\ a = SumFunctionOnSet(Since(adm, c), reqs)
          /\ b = SumFunctionOnSet(Since(more, c), reqs)
          /\ s = FilterAfter(slice, c) /\ k = Len(s)
    OBVIOUS
  <2>2. b <= a + (IF t > c THEN 1 ELSE 0)
    BY <1>1, <2>1, SumSinceAdmitted
  <2>3. more \in [Requests -> SUBSET (1 .. n)]
    BY <1>1
  <2>4. a \in Nat /\ b \in Nat
    BY <2>1, <2>3, SumSinceType
  <2>5. a <= k /\ k \in Nat /\ s \in Seq(1 .. n)
    BY <1>3, <2>1, FilterType DEF Covers
  <2>6. FilterAfter(kept, c) = s
    BY <1>1, <1>3, <2>1, FilterTwice
  <2>7. FilterAfter(Append(kept, t), c) = IF t > c THEN Append(s, t) ELSE s
    <3>1. t \in Nat
      OBVIOUS
    <3> QED BY <1>2, <2>6, <3>1, FilterAppend
  <2>8. Len(Append(s, t)) = k + 1
    BY <2>1, <2>5, AppendProperties
  <2>9. CASE t > c
    <3>1. Len(FilterAfter(Append(kept, t), c)) = k + 1 /\ b <= a + 1
      BY <2>2, <2>7, <2>8, <2>9
    <3> QED BY <2>1, <2>4, <2>5, <3>1
  <2>10. CASE ~(t > c)
    <3>1. Len(FilterAfter(Append(kept, t), c)) = k /\ b <= a + 0
      BY <2>1, <2>2, <2>7, <2>10
    <3> QED BY <2>1, <2>4, <2>5, <3>1
  <2> QED BY <2>9, <2>10
<1> QED BY <1>1, <1>3 DEF Covers

LEMMA CoversOthers ==
  ASSUME NEW n \in Nat, NEW adm \in [Requests -> SUBSET (1 .. n)],
         NEW reqs \in SUBSET Requests, NEW r \in Requests, r \notin reqs, NEW t \in 1 .. n,
         NEW slice, NEW from \in Nat, Covers(slice, adm, reqs, from)
  PROVE  Covers(slice, [adm EXCEPT ![r] = @ \cup {t}], reqs, from)
<1>1. PICK more : more = [adm EXCEPT ![r] = @ \cup {t}]
  OBVIOUS
<1>2. more \in [Requests -> SUBSET (1 .. n)]
  BY <1>1
<1>3. ASSUME NEW c \in Nat
      PROVE  SumFunctionOnSet(Since(more, c), reqs) = SumFunctionOnSet(Since(adm, c), reqs)
  <2>1. \A q \in reqs : more[q] = adm[q]
    BY <1>1
  <2>2. \A q \in reqs : Since(more, c)[q] = Since(adm, c)[q]
    BY <2>1 DEF Since
  <2>3. IsFiniteSet(reqs)
    BY LimiterAssumption, FS_Subset
  <2> QED BY <2>2, <2>3, SumSame
<1> QED BY <1>1, <1>3 DEF Covers

LEMMA CoversFiltered ==
  ASSUME NEW n \in Nat, NEW slice \in Seq(1 .. n), NEW adm, NEW reqs,
         NEW from \in Nat, NEW d \in Nat, d <= from, Covers(slice, adm, reqs, from)
  PROVE  Covers(FilterAfter(slice, d), adm, reqs, from)
<1>1. ASSUME NEW c \in Nat, c >= from
      PROVE  FilterAfter(FilterAfter(slice, d), c) = FilterAfter(slice, c)
  <2>1. d <= c
    BY <1>1
  <2> QED BY <2>1, FilterTwice
<1> QED BY <1>1 DEF Covers

LEMMA CoversLater ==
  ASSUME NEW slice, NEW adm, NEW reqs, NEW from \in Nat, NEW later \in Nat, from <= later,
         Covers(slice, adm, reqs, from)
  PROVE  Covers(slice, adm, reqs, later)
<1>1. \A c \in Nat : c >= later => c >= from
  OBVIOUS
<1> QED BY <1>1 DEF Covers

(* The passes of the window that ends at time n.                            *)
PassesOf(adm, t, window) ==
  [r \in Requests |-> Cardinality({u \in adm[r] : u <= t /\ u + window > t})]

(* A slice that covers its window and is no longer than the limit bounds    *)
(* what passed in the window that ends now.                                 *)
LEMMA WindowNow ==
  ASSUME NEW n \in Nat, NEW adm \in [Requests -> SUBSET (1 .. n)],
         NEW reqs \in SUBSET Requests, NEW window \in Nat, NEW max \in Nat,
         NEW slice \in Seq(1 .. n), Len(slice) <= max,
         Covers(slice, adm, reqs, IF n > window THEN n - window ELSE 0)
  PROVE  SumFunctionOnSet(PassesOf(adm, n, window), reqs) <= max
<1>1. PICK from : from = IF n > window THEN n - window ELSE 0
  OBVIOUS
<1>2. from \in Nat
  BY <1>1
<1>3. PICK f, g : f = PassesOf(adm, n, window) /\ g = Since(adm, from)
  OBVIOUS
<1>4. ASSUME NEW r \in Requests PROVE f[r] \in Nat /\ g[r] \in Nat /\ f[r] <= g[r]
  <2>1. PICK A, B : /\ A = {u \in adm[r] : u <= n /\ u + window > n}
                    /\ B = {u \in adm[r] : u > from}
    OBVIOUS
  <2>2. f[r] = Cardinality(A) /\ g[r] = Cardinality(B)
    BY <1>3, <2>1 DEF PassesOf, Since
  <2>3. A \subseteq B
    BY <1>1, <2>1
  <2>4. IsFiniteSet(B) /\ f[r] \in Nat /\ g[r] \in Nat
    BY <2>1, <2>2, SinceFinite
  <2> QED BY <2>2, <2>3, <2>4, FS_Subset
<1>5. IsFiniteSet(reqs)
  BY LimiterAssumption, FS_Subset
<1>6. PICK a, b, k : /\ a = SumFunctionOnSet(f, reqs) /\ b = SumFunctionOnSet(g, reqs)
                     /\ k = Len(FilterAfter(slice, from))
  OBVIOUS
<1>7. a <= b
  BY <1>4, <1>5, <1>6, SumSmaller
<1>8. a \in Nat /\ b \in Nat
  BY <1>4, <1>5, <1>6, SumType
<1>9. b <= k
  BY <1>1, <1>2, <1>3, <1>6 DEF Covers
<1>10. k <= Len(slice) /\ k \in Nat /\ Len(slice) \in Nat
  BY <1>6, FilterType, LenProperties
<1> QED BY <1>3, <1>6, <1>7, <1>8, <1>9, <1>10

----------------------------------------------------------------------------
(* The invariant of the windows *)

(* Both slices cover what passed in the window they are read with.          *)
Covered ==
  /\ Covers(globalRequests, admitted, Requests, Ago(GlobalWindow))
  /\ \A n \in Nodes : Covers(nodeRequests[n], admitted, ReqsOf(n), Ago(NodeWindow))

WindowInv == TypeOK /\ Covered /\ WindowsRespected

LEMMA AgoType ==
  ASSUME NEW window \in Nat, TypeOK
  PROVE  /\ Ago(window) \in Nat /\ Ago(window * 2) \in Nat
         /\ Ago(window * 2) <= Ago(window)
         /\ now \in Nat
<1>1. now \in Nat
  BY LimiterAssumption DEF TypeOK
<1>2. window * 2 \in Nat /\ window * 2 >= window
  OBVIOUS
<1> QED BY <1>1, <1>2 DEF Ago

(* What a check reads.                                                      *)
LEMMA Windowed ==
  ASSUME TypeOK
  PROVE  /\ GlobalWindowed \in Seq(1 .. now) /\ Len(GlobalWindowed) <= GlobalMaxCount
         /\ Len(GlobalWindowed) \in Nat
         /\ \A n \in Nodes : /\ NodeWindowed(n) \in Seq(1 .. now)
                             /\ Len(NodeWindowed(n)) <= NodeMaxCount
                             /\ Len(NodeWindowed(n)) \in Nat
<1>1. /\ globalRequests \in Seq(1 .. now) /\ Len(globalRequests) <= GlobalMaxCount
      /\ \A n \in Nodes : /\ nodeRequests[n] \in Seq(1 .. now)
                          /\ Len(nodeRequests[n]) <= NodeMaxCount
      /\ GlobalMaxCount \in Nat /\ NodeMaxCount \in Nat
  BY LimiterAssumption DEF TypeOK
<1>2. GlobalWindowed \in Seq(1 .. now) /\ Len(GlobalWindowed) <= GlobalMaxCount
      /\ Len(GlobalWindowed) \in Nat
  <2> PICK s, k : s = GlobalWindowed /\ k = Len(s)
    OBVIOUS
  <2>1. s \in Seq(1 .. now) /\ k <= Len(globalRequests) /\ k \in Nat
    BY <1>1, FilterType DEF GlobalWindowed
  <2>2. Len(globalRequests) \in Nat
    BY <1>1, LenProperties
  <2> QED BY <1>1, <2>1, <2>2
<1>3. ASSUME NEW n \in Nodes
      PROVE  /\ NodeWindowed(n) \in Seq(1 .. now)
             /\ Len(NodeWindowed(n)) <= NodeMaxCount /\ Len(NodeWindowed(n)) \in Nat
  <2> PICK s, k : s = NodeWindowed(n) /\ k = Len(s)
    OBVIOUS
  <2>1. s \in Seq(1 .. now) /\ k <= Len(nodeRequests[n]) /\ k \in Nat
    BY <1>1, FilterType DEF NodeWindowed
  <2>2. Len(nodeRequests[n]) \in Nat
    BY <1>1, LenProperties
  <2> QED BY <1>1, <2>1, <2>2
<1> QED BY <1>2, <1>3

(* A refusal filters some slices, and names a time.                         *)
LEMMA RefuseEffect ==
  ASSUME TypeOK, NEW r \in Requests, Refuse(r)
  PROVE  /\ globalRequests' = globalRequests \/ globalRequests' = GlobalWindowed
         /\ nodeRequests' \in [Nodes -> Seq(1 .. now)]
         /\ \A n \in Nodes : nodeRequests'[n] = nodeRequests[n] \/ nodeRequests'[n] = NodeWindowed(n)
         /\ UNCHANGED <<now, recentSignals, admitted>>
         /\ refusal' \in [Requests -> [reason : Reasons, until : Nat]]
<1>1. nodeRequests \in [Nodes -> Seq(1 .. now)] /\ NodeOf[r] \in Nodes
  BY LimiterAssumption DEF TypeOK
<1>2. \A n \in Nodes : NodeWindowed(n) \in Seq(1 .. now)
  BY Windowed
<1>3. nodeRequests' = nodeRequests
      \/ nodeRequests' = [nodeRequests EXCEPT ![NodeOf[r]] = NodeWindowed(NodeOf[r])]
  BY DEF Refuse
<1>4. globalRequests' = globalRequests \/ globalRequests' = GlobalWindowed
  BY DEF Refuse
<1>5. UNCHANGED <<now, recentSignals, admitted>>
  BY DEF Refuse
<1>6. refusal' \in [Requests -> [reason : Reasons, until : Nat]]
  <2> PICK reason, until : reason = Verdict(r) /\ until = RetryAt(reason, r)
    OBVIOUS
  <2>1. /\ refusal \in [Requests -> [reason : Reasons, until : Nat]]
        /\ refusal' = [refusal EXCEPT ![r] = [reason |-> reason, until |-> until]]
        /\ reason # "allowed"
    BY DEF TypeOK, Refuse
  <2>2. /\ now \in Nat /\ GlobalWindow \in Nat /\ NodeWindow \in Nat /\ DupWindow \in Nat
        /\ GlobalMaxCount \in Nat \ {0} /\ NodeMaxCount \in Nat \ {0}
        /\ recentSignals[SignalOf[r]] \in Nat \cup {Never}
    BY LimiterAssumption DEF TypeOK
  <2>3. CASE reason = "duplicate_signal"
    <3>1. recentSignals[SignalOf[r]] # Never
      BY <2>3 DEF Verdict
    <3>2. until = recentSignals[SignalOf[r]] + DupWindow
      BY <2>3 DEF RetryAt
    <3>3. until \in Nat
      BY <2>2, <3>1, <3>2
    <3> QED BY <2>1, <2>3, <3>3 DEF Reasons
  <2>4. CASE reason = "global_rate_limit"
    <3>1. Len(GlobalWindowed) >= GlobalMaxCount
      BY <2>4 DEF Verdict, Full
    <3>2. GlobalWindowed # <<>> /\ GlobalWindowed \in Seq(1 .. now)
      BY <2>2, <3>1, Windowed
    <3>3. Head(GlobalWindowed) \in 1 .. now
      BY <3>2, HeadTailProperties
    <3>4. until = Head(GlobalWindowed) + GlobalWindow
      BY <2>4 DEF RetryAt
    <3>5. until \in Nat
      BY <2>2, <3>3, <3>4
    <3> QED BY <2>1, <2>4, <3>5 DEF Reasons
  <2>5. CASE reason = "node_rate_limit"
    <3> PICK slice : slice = NodeWindowed(NodeOf[r])
      OBVIOUS
    <3>1. Len(slice) >= NodeMaxCount
      BY <2>5 DEF Verdict, Full
    <3>2. slice # <<>> /\ slice \in Seq(1 .. now)
      BY <1>1, <2>2, <3>1, Windowed
    <3>3. Head(slice) \in 1 .. now
      BY <3>2, HeadTailProperties
    <3>4. until = Head(slice) + NodeWindow
      BY <2>5 DEF RetryAt
    <3>5. until \in Nat
      BY <2>2, <3>3, <3>4
    <3> QED BY <2>1, <2>5, <3>5 DEF Reasons
  <2>6. reason \in {"duplicate_signal", "global_rate_limit", "node_rate_limit", "allowed"}
    BY DEF Verdict
  <2> QED BY <2>1, <2>3, <2>4, <2>5, <2>6
<1> QED BY <1>1, <1>2, <1>3, <1>4, <1>5, <1>6

(* No check admits into a full window.                                      *)
LEMMA AdmitEffect ==
  ASSUME TypeOK, NEW r \in Requests, Admit(r)
  PROVE  /\ Len(GlobalWindowed) < GlobalMaxCount
         /\ Len(NodeWindowed(NodeOf[r])) < NodeMaxCount
<1>1. ~Full(GlobalWindowed, GlobalMaxCount) /\ ~Full(NodeWindowed(NodeOf[r]), NodeMaxCount)
  BY DEF Admit, Verdict
<1>2. /\ Len(GlobalWindowed) \in Nat /\ Len(NodeWindowed(NodeOf[r])) \in Nat
      /\ GlobalMaxCount \in Nat /\ NodeMaxCount \in Nat
  BY LimiterAssumption, Windowed
<1> QED BY <1>1, <1>2 DEF Full

LEMMA LimiterInitTyped == Init => TypeOK
  BY LimiterAssumption, EmptySeq DEF Init, TypeOK, NotRefused, Reasons

LEMMA RefuseTyped ==
  ASSUME TypeOK, NEW r \in Requests, Refuse(r)
  PROVE  TypeOK'
<1>1. /\ globalRequests' = globalRequests \/ globalRequests' = GlobalWindowed
      /\ nodeRequests' \in [Nodes -> Seq(1 .. now)]
      /\ \A n \in Nodes : nodeRequests'[n] = nodeRequests[n] \/ nodeRequests'[n] = NodeWindowed(n)
      /\ UNCHANGED <<now, recentSignals, admitted>>
      /\ refusal' \in [Requests -> [reason : Reasons, until : Nat]]
  BY RefuseEffect
<1>2. globalRequests' \in Seq(1 .. now) /\ Len(globalRequests') <= GlobalMaxCount
  BY <1>1, Windowed DEF TypeOK
<1>3. \A n \in Nodes : Len(nodeRequests'[n]) <= NodeMaxCount
  BY <1>1, Windowed DEF TypeOK
<1> QED BY <1>1, <1>2, <1>3 DEF TypeOK

LEMMA AdmitTyped ==
  ASSUME TypeOK, NEW r \in Requests, Admit(r)
  PROVE  TypeOK'
<1>1. PICK n, slice, kept : n = NodeOf[r] /\ slice = GlobalWindowed /\ kept = NodeWindowed(n)
  OBVIOUS
<1>2. /\ slice \in Seq(1 .. now) /\ Len(slice) < GlobalMaxCount /\ Len(slice) \in Nat
      /\ kept \in Seq(1 .. now) /\ Len(kept) < NodeMaxCount /\ Len(kept) \in Nat
      /\ n \in Nodes /\ now \in 1 .. now /\ SignalOf[r] \in Signals
      /\ GlobalMaxCount \in Nat /\ NodeMaxCount \in Nat
  BY <1>1, LimiterAssumption, AdmitEffect, Windowed DEF TypeOK
<1>3. /\ globalRequests' = Append(slice, now)
      /\ nodeRequests' = [nodeRequests EXCEPT ![n] = Append(kept, now)]
      /\ recentSignals' = [recentSignals EXCEPT ![SignalOf[r]] = now]
      /\ admitted' = [admitted EXCEPT ![r] = @ \cup {now}]
      /\ refusal' = [q \in Requests |-> NotRefused]
      /\ now' = now
  BY <1>1 DEF Admit
<1>4. /\ Append(slice, now) \in Seq(1 .. now) /\ Len(Append(slice, now)) = Len(slice) + 1
      /\ Append(kept, now) \in Seq(1 .. now) /\ Len(Append(kept, now)) = Len(kept) + 1
  BY <1>2, AppendProperties
<1>5. globalRequests' \in Seq(1 .. now) /\ Len(globalRequests') <= GlobalMaxCount
  BY <1>2, <1>3, <1>4
<1>6. /\ nodeRequests' \in [Nodes -> Seq(1 .. now)]
      /\ \A m \in Nodes : Len(nodeRequests'[m]) <= NodeMaxCount
  <2> PICK list : list = Append(kept, now)
    OBVIOUS
  <2>1. list \in Seq(1 .. now) /\ Len(list) <= NodeMaxCount
    BY <1>2, <1>4
  <2> QED BY <1>3, <2>1 DEF TypeOK
<1>7. /\ recentSignals' \in [Signals -> 1 .. now \cup {Never}]
      /\ admitted' \in [Requests -> SUBSET (1 .. now)]
  BY <1>2, <1>3 DEF TypeOK
<1>8. refusal' \in [Requests -> [reason : Reasons, until : Nat]]
  BY <1>3 DEF NotRefused, Reasons
<1> QED BY <1>3, <1>5, <1>6, <1>7, <1>8 DEF TypeOK

LEMMA CleanupTyped ==
  ASSUME TypeOK, Cleanup
  PROVE  TypeOK'
<1>1. /\ globalRequests' = FilterAfter(globalRequests, Ago(GlobalWindow * 2))
      /\ nodeRequests' = [n \in Nodes |-> FilterAfter(nodeRequests[n], Ago(NodeWindow * 2))]
      /\ UNCHANGED <<now, admitted, refusal>>
      /\ GlobalMaxCount \in Nat /\ NodeMaxCount \in Nat
  BY LimiterAssumption DEF Cleanup
<1>2. globalRequests' \in Seq(1 .. now) /\ Len(globalRequests') <= GlobalMaxCount
  <2> PICK s, k : s = globalRequests' /\ k = Len(s)
    OBVIOUS
  <2>1. s \in Seq(1 .. now) /\ k <= Len(globalRequests) /\ k \in Nat
    BY <1>1, FilterType DEF TypeOK
  <2>2. Len(globalRequests) \in Nat /\ Len(globalRequests) <= GlobalMaxCount
    BY LenProperties DEF TypeOK
  <2> QED BY <1>1, <2>1, <2>2
<1>3. ASSUME NEW n \in Nodes
      PROVE  nodeRequests'[n] \in Seq(1 .. now) /\ Len(nodeRequests'[n]) <= NodeMaxCount
  <2> PICK s, k : s = nodeRequests'[n] /\ k = Len(s)
    OBVIOUS
  <2>1. nodeRequests[n] \in Seq(1 .. now) /\ s = FilterAfter(nodeRequests[n], Ago(NodeWindow * 2))
    BY <1>1 DEF TypeOK
  <2>2. s \in Seq(1 .. now) /\ k <= Len(nodeRequests[n]) /\ k \in Nat
    BY <2>1, FilterType
  <2>3. Len(nodeRequests[n]) \in Nat /\ Len(nodeRequests[n]) <= NodeMaxCount
    BY <2>1, LenProperties DEF TypeOK
  <2> QED BY <1>1, <2>2, <2>3
<1>4. recentSignals' \in [Signals -> 1 .. now \cup {Never}]
  BY DEF Cleanup, TypeOK
<1>5. nodeRequests' \in [Nodes -> Seq(1 .. now)]
  BY <1>1, <1>3
<1> QED BY <1>1, <1>2, <1>3, <1>4, <1>5 DEF TypeOK

LEMMA TickTyped ==
  ASSUME TypeOK, Tick
  PROVE  TypeOK'
<1>1. /\ now' = now + 1 /\ now' \in 1 .. MaxTime
      /\ UNCHANGED <<globalRequests, nodeRequests, recentSignals, admitted, refusal>>
  BY LimiterAssumption DEF Tick, limiterVars, TypeOK
<1>2. 1 .. now \subseteq 1 .. now'
  BY <1>1, LimiterAssumption DEF TypeOK
<1>3. \A s \in Seq(1 .. now) : s \in Seq(1 .. now')
  BY <1>2, SeqMonotonic
<1>4. globalRequests' \in Seq(1 .. now') /\ nodeRequests' \in [Nodes -> Seq(1 .. now')]
  BY <1>1, <1>3 DEF TypeOK
<1>5. /\ recentSignals' \in [Signals -> 1 .. now' \cup {Never}]
      /\ admitted' \in [Requests -> SUBSET (1 .. now')]
  BY <1>1, <1>2 DEF TypeOK
<1> QED BY <1>1, <1>4, <1>5 DEF TypeOK

LEMMA LimiterNextTyped == TypeOK /\ [Next]_vars => TypeOK'
<1> SUFFICES ASSUME TypeOK, [Next]_vars PROVE TypeOK'
  OBVIOUS
<1>1. CASE UNCHANGED vars
  BY <1>1 DEF vars, limiterVars, TypeOK
<1> QED BY <1>1, RefuseTyped, AdmitTyped, CleanupTyped, TickTyped DEF Next

(* Every variable has its type, and no slice outgrows its limit.            *)
THEOREM LimiterTypeCorrect == Spec => []TypeOK
  BY LimiterInitTyped, LimiterNextTyped, PTL DEF Spec

(* Nothing has passed yet.                                                  *)
LEMMA CoversNothing ==
  ASSUME NEW adm, adm = [r \in Requests |-> {}], NEW slice \in Seq(Nat),
         NEW reqs \in SUBSET Requests, NEW from
  PROVE  Covers(slice, adm, reqs, from)
<1>1. ASSUME NEW c \in Nat
      PROVE  SumFunctionOnSet(Since(adm, c), reqs) <= Len(FilterAfter(slice, c))
  <2>1. \A r \in reqs : {u \in adm[r] : u > c} = {}
    OBVIOUS
  <2>2. \A r \in reqs : Since(adm, c)[r] = 0
    BY <2>1, FS_EmptySet DEF Since
  <2>3. IsFiniteSet(reqs)
    BY LimiterAssumption, FS_Subset
  <2>4. SumFunctionOnSet(Since(adm, c), reqs) = 0
    BY <2>2, <2>3, SumZero
  <2> QED BY <2>4, FilterType
<1> QED BY <1>1 DEF Covers

LEMMA WindowInitInv == Init => WindowInv
<1> SUFFICES ASSUME Init PROVE WindowInv
  OBVIOUS
<1>1. TypeOK
  BY LimiterInitTyped
<1>2. /\ globalRequests \in Seq(Nat)
      /\ \A n \in Nodes : nodeRequests[n] \in Seq(Nat)
      /\ admitted = [r \in Requests |-> {}] /\ now = 1
  BY EmptySeq DEF Init
<1>3. Covered
  BY <1>2, CoversNothing DEF Covered, ReqsOf
<1>4. ASSUME NEW t \in 1 .. now, NEW window \in Nat, NEW max \in Nat, NEW reqs \in SUBSET Requests
      PROVE  Within(reqs, t, window) <= max
  <2>1. \A r \in reqs : {u \in admitted[r] : u <= t /\ u + window > t} = {}
    BY <1>2
  <2>2. \A r \in reqs : Passes(t, window)[r] = 0
    BY <2>1, FS_EmptySet DEF Passes
  <2>3. IsFiniteSet(reqs)
    BY LimiterAssumption, FS_Subset
  <2>4. SumFunctionOnSet(Passes(t, window), reqs) = 0
    BY <2>2, <2>3, SumZero
  <2> QED BY <2>4 DEF Within
<1>5. WindowsRespected
  BY <1>4, LimiterAssumption DEF WindowsRespected, ReqsOf
<1> QED BY <1>1, <1>3, <1>5 DEF WindowInv

(* A window that ends now holds no more than the limit, because its slice   *)
(* covers it.                                                               *)
RespectedNow ==
  /\ Within(Requests, now, GlobalWindow) <= GlobalMaxCount
  /\ \A n \in Nodes : Within(ReqsOf(n), now, NodeWindow) <= NodeMaxCount

LEMMA NowRespected == TypeOK /\ Covered => RespectedNow
<1> SUFFICES ASSUME TypeOK, Covered PROVE RespectedNow
  OBVIOUS
<1>1. /\ now \in Nat /\ admitted \in [Requests -> SUBSET (1 .. now)]
      /\ GlobalWindow \in Nat /\ NodeWindow \in Nat
      /\ GlobalMaxCount \in Nat /\ NodeMaxCount \in Nat
  BY LimiterAssumption DEF TypeOK
<1>2. \A t, w : Passes(t, w) = PassesOf(admitted, t, w)
  BY DEF Passes, PassesOf
<1>3. Within(Requests, now, GlobalWindow) <= GlobalMaxCount
  <2>1. /\ globalRequests \in Seq(1 .. now) /\ Len(globalRequests) <= GlobalMaxCount
        /\ Covers(globalRequests, admitted, Requests,
                  IF now > GlobalWindow THEN now - GlobalWindow ELSE 0)
    BY DEF TypeOK, Covered, Ago
  <2>2. SumFunctionOnSet(PassesOf(admitted, now, GlobalWindow), Requests) <= GlobalMaxCount
    BY <1>1, <2>1, WindowNow
  <2> QED BY <1>2, <2>2 DEF Within
<1>4. ASSUME NEW n \in Nodes PROVE Within(ReqsOf(n), now, NodeWindow) <= NodeMaxCount
  <2>1. /\ nodeRequests[n] \in Seq(1 .. now) /\ Len(nodeRequests[n]) <= NodeMaxCount
        /\ ReqsOf(n) \in SUBSET Requests
        /\ Covers(nodeRequests[n], admitted, ReqsOf(n),
                  IF now > NodeWindow THEN now - NodeWindow ELSE 0)
    BY DEF TypeOK, Covered, Ago, ReqsOf
  <2>2. SumFunctionOnSet(PassesOf(admitted, now, NodeWindow), ReqsOf(n)) <= NodeMaxCount
    BY <1>1, <2>1, WindowNow
  <2> QED BY <1>2, <2>2 DEF Within
<1> QED BY <1>3, <1>4 DEF RespectedNow

LEMMA NowRespectedNext == (TypeOK /\ Covered)' => RespectedNow'
  BY NowRespected, PTL

(* Windows that ended before a step change only if the past does.           *)
LEMMA PastRespected ==
  ASSUME WindowInv, TypeOK', Covered', now' \in {now, now + 1},
         \A t \in 1 .. now, r \in Requests :
           t # now' => {u \in admitted'[r] : u <= t} = {u \in admitted[r] : u <= t}
  PROVE  WindowsRespected'
<1>1. now \in Nat /\ now' \in Nat
  BY LimiterAssumption DEF WindowInv, TypeOK
<1>2. /\ Within(Requests, now, GlobalWindow)' <= GlobalMaxCount
      /\ \A n \in Nodes : Within(ReqsOf(n), now, NodeWindow)' <= NodeMaxCount
  BY NowRespectedNext DEF RespectedNow
<1>3. ASSUME NEW t \in 1 .. now', t # now', NEW window, NEW reqs \in SUBSET Requests
      PROVE  SumFunctionOnSet(Passes(t, window)', reqs) = SumFunctionOnSet(Passes(t, window), reqs)
  <2>1. PICK f, g : f = Passes(t, window) /\ g = Passes(t, window)'
    OBVIOUS
  <2>2. t \in 1 .. now
    BY <1>1, <1>3
  <2>3. ASSUME NEW r \in Requests PROVE g[r] = f[r]
    <3>1. {u \in admitted'[r] : u <= t} = {u \in admitted[r] : u <= t}
      BY <1>3, <2>2
    <3>2. {u \in admitted'[r] : u <= t /\ u + window > t}
            = {u \in admitted[r] : u <= t /\ u + window > t}
      BY <3>1
    <3> QED BY <2>1, <3>2 DEF Passes
  <2>4. IsFiniteSet(reqs)
    BY LimiterAssumption, FS_Subset
  <2>5. SumFunctionOnSet(g, reqs) = SumFunctionOnSet(f, reqs)
    BY <2>3, <2>4, SumSame
  <2> QED BY <2>1, <2>5
<1>4. ASSUME NEW t \in 1 .. now'
      PROVE  /\ SumFunctionOnSet(Passes(t, GlobalWindow)', Requests) <= GlobalMaxCount
             /\ \A n \in Nodes :
                  SumFunctionOnSet(Passes(t, NodeWindow)', ReqsOf(n)) <= NodeMaxCount
  <2>1. CASE t = now'
    BY <1>2, <2>1 DEF Within, ReqsOf, Passes
  <2>2. CASE t # now'
    <3>1. t \in 1 .. now
      BY <1>1, <2>2
    <3>2. /\ Within(Requests, t, GlobalWindow) <= GlobalMaxCount
          /\ \A n \in Nodes : Within(ReqsOf(n), t, NodeWindow) <= NodeMaxCount
      BY <3>1 DEF WindowInv, WindowsRespected
    <3>3. \A n : ReqsOf(n) \in SUBSET Requests
      BY DEF ReqsOf
    <3> QED BY <1>3, <2>2, <3>2, <3>3 DEF Within
  <2> QED BY <2>1, <2>2
<1> QED BY <1>4 DEF WindowsRespected, Within

LEMMA RefuseCovered ==
  ASSUME WindowInv, NEW r \in Requests, Refuse(r)
  PROVE  Covered'
<1>1. /\ TypeOK /\ Covered
      /\ GlobalWindow \in Nat /\ NodeWindow \in Nat
  BY LimiterAssumption DEF WindowInv
<1>2. /\ now \in Nat /\ Ago(GlobalWindow) \in Nat /\ Ago(NodeWindow) \in Nat
  BY <1>1, AgoType
<1>3. /\ globalRequests' = globalRequests \/ globalRequests' = GlobalWindowed
      /\ \A n \in Nodes : nodeRequests'[n] = nodeRequests[n] \/ nodeRequests'[n] = NodeWindowed(n)
      /\ now' = now /\ admitted' = admitted
  BY <1>1, RefuseEffect
<1>4. Covers(globalRequests', admitted, Requests, Ago(GlobalWindow))
  <2>1. globalRequests \in Seq(1 .. now)
    BY <1>1 DEF TypeOK
  <2>2. Covers(globalRequests, admitted, Requests, Ago(GlobalWindow))
    BY <1>1 DEF Covered
  <2>3. Covers(GlobalWindowed, admitted, Requests, Ago(GlobalWindow))
    BY <1>2, <2>1, <2>2, CoversFiltered DEF GlobalWindowed
  <2> QED BY <1>3, <2>2, <2>3
<1>5. ASSUME NEW n \in Nodes
      PROVE  Covers(nodeRequests'[n], admitted, ReqsOf(n), Ago(NodeWindow))
  <2>1. nodeRequests[n] \in Seq(1 .. now)
    BY <1>1 DEF TypeOK
  <2>2. Covers(nodeRequests[n], admitted, ReqsOf(n), Ago(NodeWindow))
    BY <1>1 DEF Covered
  <2>3. Covers(NodeWindowed(n), admitted, ReqsOf(n), Ago(NodeWindow))
    BY <1>2, <2>1, <2>2, CoversFiltered DEF NodeWindowed
  <2> QED BY <1>3, <2>2, <2>3
<1>6. Ago(GlobalWindow)' = Ago(GlobalWindow) /\ Ago(NodeWindow)' = Ago(NodeWindow)
  BY <1>3 DEF Ago
<1> QED BY <1>3, <1>4, <1>5, <1>6 DEF Covered, ReqsOf

LEMMA AdmitCovered ==
  ASSUME WindowInv, NEW r \in Requests, Admit(r)
  PROVE  Covered'
<1>1. PICK n, g, d : n = NodeOf[r] /\ g = Ago(GlobalWindow) /\ d = Ago(NodeWindow)
  OBVIOUS
<1>2. /\ TypeOK /\ Covered /\ n \in Nodes
      /\ GlobalWindow \in Nat /\ NodeWindow \in Nat
  BY <1>1, LimiterAssumption DEF WindowInv
<1>3. /\ now \in Nat /\ now \in 1 .. now /\ g \in Nat /\ d \in Nat
      /\ admitted \in [Requests -> SUBSET (1 .. now)]
      /\ globalRequests \in Seq(1 .. now)
      /\ nodeRequests \in [Nodes -> Seq(1 .. now)]
  <2>1. now \in Nat /\ g \in Nat /\ d \in Nat
    BY <1>1, <1>2, AgoType
  <2> QED BY <1>2, <2>1 DEF TypeOK
<1>4. /\ globalRequests' = Append(FilterAfter(globalRequests, g), now)
      /\ nodeRequests' = [nodeRequests EXCEPT ![n] = Append(FilterAfter(nodeRequests[n], d), now)]
      /\ admitted' = [admitted EXCEPT ![r] = @ \cup {now}]
      /\ now' = now
  BY <1>1 DEF Admit, GlobalWindowed, NodeWindowed
<1>5. Covers(globalRequests', admitted', Requests, g)
  <2>1. Covers(globalRequests, admitted, Requests, g)
    BY <1>1, <1>2 DEF Covered
  <2>2. Covers(Append(FilterAfter(globalRequests, g), now),
               [admitted EXCEPT ![r] = @ \cup {now}], Requests, g)
    BY <1>3, <2>1, CoversAppend
  <2> QED BY <1>4, <2>2
<1>6. ASSUME NEW m \in Nodes
      PROVE  Covers(nodeRequests'[m], admitted', ReqsOf(m), d)
  <2>1. Covers(nodeRequests[m], admitted, ReqsOf(m), d) /\ ReqsOf(m) \in SUBSET Requests
    BY <1>1, <1>2 DEF Covered, ReqsOf
  <2>2. CASE m = n
    <3>1. r \in ReqsOf(m) /\ nodeRequests[m] \in Seq(1 .. now)
      BY <1>1, <1>3, <2>2 DEF ReqsOf
    <3>2. Covers(Append(FilterAfter(nodeRequests[m], d), now),
                 [admitted EXCEPT ![r] = @ \cup {now}], ReqsOf(m), d)
      BY <1>3, <2>1, <3>1, CoversAppend
    <3>3. nodeRequests'[m] = Append(FilterAfter(nodeRequests[m], d), now)
      BY <1>3, <1>4, <2>2
    <3> QED BY <1>4, <3>2, <3>3
  <2>3. CASE m # n
    <3>1. r \notin ReqsOf(m)
      BY <1>1, <2>3 DEF ReqsOf
    <3>2. Covers(nodeRequests[m], [admitted EXCEPT ![r] = @ \cup {now}], ReqsOf(m), d)
      BY <1>3, <2>1, <3>1, CoversOthers
    <3>3. nodeRequests'[m] = nodeRequests[m]
      BY <1>3, <1>4, <2>3
    <3> QED BY <1>4, <3>2, <3>3
  <2> QED BY <2>2, <2>3
<1>7. Ago(GlobalWindow)' = g /\ Ago(NodeWindow)' = d
  BY <1>1, <1>4 DEF Ago
<1> QED BY <1>5, <1>6, <1>7 DEF Covered, ReqsOf

LEMMA CleanupCovered ==
  ASSUME WindowInv, Cleanup
  PROVE  Covered'
<1>1. /\ TypeOK /\ Covered
      /\ GlobalWindow \in Nat /\ NodeWindow \in Nat
  BY LimiterAssumption DEF WindowInv
<1>2. /\ now \in Nat /\ Ago(GlobalWindow) \in Nat /\ Ago(NodeWindow) \in Nat
      /\ Ago(GlobalWindow * 2) \in Nat /\ Ago(NodeWindow * 2) \in Nat
      /\ Ago(GlobalWindow * 2) <= Ago(GlobalWindow) /\ Ago(NodeWindow * 2) <= Ago(NodeWindow)
  BY <1>1, AgoType
<1>3. /\ globalRequests' = FilterAfter(globalRequests, Ago(GlobalWindow * 2))
      /\ \A n \in Nodes : nodeRequests'[n] = FilterAfter(nodeRequests[n], Ago(NodeWindow * 2))
      /\ now' = now /\ admitted' = admitted
  BY DEF Cleanup
<1>4. Covers(globalRequests', admitted, Requests, Ago(GlobalWindow))
  <2>1. globalRequests \in Seq(1 .. now)
        /\ Covers(globalRequests, admitted, Requests, Ago(GlobalWindow))
    BY <1>1 DEF TypeOK, Covered
  <2> QED BY <1>2, <1>3, <2>1, CoversFiltered
<1>5. ASSUME NEW n \in Nodes
      PROVE  Covers(nodeRequests'[n], admitted, ReqsOf(n), Ago(NodeWindow))
  <2>1. nodeRequests[n] \in Seq(1 .. now)
        /\ Covers(nodeRequests[n], admitted, ReqsOf(n), Ago(NodeWindow))
    BY <1>1 DEF TypeOK, Covered
  <2> QED BY <1>2, <1>3, <2>1, CoversFiltered
<1>6. Ago(GlobalWindow)' = Ago(GlobalWindow) /\ Ago(NodeWindow)' = Ago(NodeWindow)
  BY <1>3 DEF Ago
<1> QED BY <1>3, <1>4, <1>5, <1>6 DEF Covered, ReqsOf

LEMMA TickCovered ==
  ASSUME WindowInv, Tick
  PROVE  Covered'
<1>1. /\ TypeOK /\ Covered
      /\ GlobalWindow \in Nat /\ NodeWindow \in Nat
  BY LimiterAssumption DEF WindowInv
<1>2. /\ now \in Nat /\ Ago(GlobalWindow) \in Nat /\ Ago(NodeWindow) \in Nat
  BY <1>1, AgoType
<1>3. now' = now + 1 /\ UNCHANGED <<globalRequests, nodeRequests, admitted>>
  BY DEF Tick, limiterVars
<1>4. PICK g, d : g = Ago(GlobalWindow)' /\ d = Ago(NodeWindow)'
  OBVIOUS
<1>5. g \in Nat /\ d \in Nat /\ Ago(GlobalWindow) <= g /\ Ago(NodeWindow) <= d
  BY <1>1, <1>2, <1>3, <1>4 DEF Ago
<1>6. Covers(globalRequests, admitted, Requests, g)
  BY <1>1, <1>2, <1>5, CoversLater DEF Covered
<1>7. \A n \in Nodes : Covers(nodeRequests[n], admitted, ReqsOf(n), d)
  BY <1>1, <1>2, <1>5, CoversLater DEF Covered
<1> QED BY <1>3, <1>4, <1>6, <1>7 DEF Covered, ReqsOf

LEMMA WindowNextInv == WindowInv /\ [Next]_vars => WindowInv'
<1> SUFFICES ASSUME WindowInv, [Next]_vars PROVE WindowInv'
  OBVIOUS
<1>1. TypeOK' /\ TypeOK
  BY LimiterNextTyped DEF WindowInv
<1>2. CASE UNCHANGED vars
  <2>1. UNCHANGED <<now, globalRequests, nodeRequests, admitted>>
    BY <1>2 DEF vars, limiterVars
  <2>2. Covered' /\ WindowsRespected'
    BY <2>1 DEF WindowInv, Covered, WindowsRespected, Within, Passes, ReqsOf, Ago
  <2> QED BY <1>1, <2>2 DEF WindowInv
<1>3. ASSUME NEW r \in Requests, Refuse(r) PROVE WindowInv'
  <2>1. Covered'
    BY <1>3, RefuseCovered
  <2>2. now' = now /\ admitted' = admitted
    BY <1>1, <1>3, RefuseEffect
  <2>3. WindowsRespected'
    BY <1>1, <2>1, <2>2, PastRespected
  <2> QED BY <1>1, <2>1, <2>3 DEF WindowInv
<1>4. ASSUME NEW r \in Requests, Admit(r) PROVE WindowInv'
  <2>1. Covered'
    BY <1>4, AdmitCovered
  <2>2. now' = now /\ admitted' = [admitted EXCEPT ![r] = @ \cup {now}] /\ now \in Nat
    BY <1>1, <1>4, LimiterAssumption DEF Admit, TypeOK
  <2>3. ASSUME NEW t \in 1 .. now, NEW q \in Requests, t # now'
        PROVE  {u \in admitted'[q] : u <= t} = {u \in admitted[q] : u <= t}
    BY <1>1, <2>2, <2>3 DEF TypeOK
  <2>4. WindowsRespected'
    BY <1>1, <2>1, <2>2, <2>3, PastRespected
  <2> QED BY <1>1, <2>1, <2>4 DEF WindowInv
<1>5. CASE Cleanup
  <2>1. Covered'
    BY <1>5, CleanupCovered
  <2>2. now' = now /\ admitted' = admitted
    BY <1>5 DEF Cleanup
  <2>3. WindowsRespected'
    BY <1>1, <2>1, <2>2, PastRespected
  <2> QED BY <1>1, <2>1, <2>3 DEF WindowInv
<1>6. CASE Tick
  <2>1. Covered'
    BY <1>6, TickCovered
  <2>2. now' = now + 1 /\ admitted' = admitted
    BY <1>6 DEF Tick
  <2>3. WindowsRespected'
    BY <1>1, <2>1, <2>2, PastRespected
  <2> QED BY <1>1, <2>1, <2>3 DEF WindowInv
<1> QED BY <1>2, <1>3, <1>4, <1>5, <1>6 DEF Next

(* In no window of time does more than the limit get through, in all or     *)
(* under one node id: Check counts in slices that refusals and the cleanup  *)
(* trim at other moments than the checks that read them.                    *)
THEOREM LimiterWindowsRespected == Spec => []WindowsRespected
<1>1. Spec => []WindowInv
  BY WindowInitInv, WindowNextInv, PTL DEF Spec
<1>2. WindowInv => WindowsRespected
  BY DEF WindowInv
<1> QED BY <1>1, <1>2, PTL

----------------------------------------------------------------------------
(* The time a refusal names *)

(* Until somebody passes, the slice that refused a request will have lost   *)
(* its oldest timestamp by the time the refusal names; a duplicate's entry  *)
(* stays as it was, or is forgotten.                                        *)
Shrinks(slice, window, max, until) ==
  \A c \in Nat : c + window >= until => Len(FilterAfter(slice, c)) < max

RetryAccounted ==
  \A r \in Requests :
    LET reason == refusal[r].reason
        until == refusal[r].until
        lastSeen == recentSignals[SignalOf[r]]
    IN /\ reason = "duplicate_signal" => lastSeen = Never \/ until = lastSeen + DupWindow
       /\ reason = "global_rate_limit" =>
            Shrinks(globalRequests, GlobalWindow, GlobalMaxCount, until)
       /\ reason = "node_rate_limit" =>
            Shrinks(nodeRequests[NodeOf[r]], NodeWindow, NodeMaxCount, until)

RetryInv == TypeOK /\ RetryAccounted

(* Filtering a slice further does not bring timestamps back.                *)
LEMMA ShrinksFiltered ==
  ASSUME NEW S, NEW slice \in Seq(S), NEW d \in Nat, NEW window, NEW max \in Nat, NEW until,
         Shrinks(slice, window, max, until)
  PROVE  Shrinks(FilterAfter(slice, d), window, max, until)
<1>1. ASSUME NEW c \in Nat, c + window >= until
      PROVE  Len(FilterAfter(FilterAfter(slice, d), c)) < max
  <2>1. PICK k, m : k = Len(FilterAfter(FilterAfter(slice, d), c)) /\ m = Len(FilterAfter(slice, c))
    OBVIOUS
  <2>2. FilterAfter(slice, d) \in Seq(S)
    BY FilterType
  <2>3. k \in Nat /\ m \in Nat
    BY <2>1, <2>2, FilterType
  <2>4. k <= m
    BY <2>1, FilterTwice
  <2>5. m < max
    BY <1>1, <2>1 DEF Shrinks
  <2> QED BY <2>1, <2>3, <2>4, <2>5
<1> QED BY <1>1 DEF Shrinks

(* A full slice has shrunk once its first timestamp is out of the window.   *)
LEMMA ShrinksAtHead ==
  ASSUME NEW n \in Nat, NEW slice \in Seq(1 .. n), slice # <<>>, NEW window \in Nat,
         NEW max \in Nat, Len(slice) <= max
  PROVE  Shrinks(slice, window, max, Head(slice) + window)
<1>1. Head(slice) \in Nat
  BY HeadTailProperties
<1>2. ASSUME NEW c \in Nat, c + window >= Head(slice) + window
      PROVE  Len(FilterAfter(slice, c)) < max
  <2>1. PICK h : h = Head(slice)
    OBVIOUS
  <2>2. h <= c
    BY <1>1, <1>2, <2>1
  <2>3. Len(FilterAfter(slice, c)) < Len(slice)
    BY <2>1, <2>2, FilterDropsHead
  <2>4. Len(FilterAfter(slice, c)) \in Nat /\ Len(slice) \in Nat
    BY FilterType, LenProperties
  <2> QED BY <2>3, <2>4
<1> QED BY <1>2 DEF Shrinks

(* What a refusal promises when it is made.                                 *)
LEMMA RefusePromises ==
  ASSUME TypeOK, NEW r \in Requests, Refuse(r)
  PROVE  LET reason == refusal'[r].reason
             until == refusal'[r].until
         IN /\ reason = "duplicate_signal" => until = recentSignals[SignalOf[r]] + DupWindow
            /\ reason = "global_rate_limit" =>
                 /\ globalRequests' = GlobalWindowed
                 /\ Shrinks(GlobalWindowed, GlobalWindow, GlobalMaxCount, until)
            /\ reason = "node_rate_limit" =>
                 /\ nodeRequests'[NodeOf[r]] = NodeWindowed(NodeOf[r])
                 /\ Shrinks(NodeWindowed(NodeOf[r]), NodeWindow, NodeMaxCount, until)
<1>1. PICK reason, until, n, slice, kept :
        /\ reason = Verdict(r) /\ until = RetryAt(reason, r) /\ n = NodeOf[r]
        /\ slice = GlobalWindowed /\ kept = NodeWindowed(n)
  OBVIOUS
<1>2. refusal'[r].reason = reason /\ refusal'[r].until = until
  BY <1>1 DEF Refuse, TypeOK
<1>3. /\ now \in Nat /\ n \in Nodes /\ GlobalWindow \in Nat /\ NodeWindow \in Nat
      /\ GlobalMaxCount \in Nat \ {0} /\ NodeMaxCount \in Nat \ {0}
  BY <1>1, LimiterAssumption DEF TypeOK
<1>4. /\ slice \in Seq(1 .. now) /\ Len(slice) <= GlobalMaxCount /\ Len(slice) \in Nat
      /\ kept \in Seq(1 .. now) /\ Len(kept) <= NodeMaxCount /\ Len(kept) \in Nat
  BY <1>1, <1>3, Windowed
<1>5. ASSUME reason = "duplicate_signal"
      PROVE  until = recentSignals[SignalOf[r]] + DupWindow
  BY <1>1, <1>5 DEF RetryAt
<1>6. ASSUME reason = "global_rate_limit"
      PROVE  globalRequests' = slice /\ Shrinks(slice, GlobalWindow, GlobalMaxCount, until)
  <2>1. globalRequests' = slice /\ until = Head(slice) + GlobalWindow
    BY <1>1, <1>6 DEF Refuse, RetryAt
  <2>2. Len(slice) >= GlobalMaxCount
    BY <1>1, <1>6 DEF Verdict, Full
  <2>3. slice # <<>>
    BY <1>3, <2>2
  <2> QED BY <1>3, <1>4, <2>1, <2>3, ShrinksAtHead
<1>7. ASSUME reason = "node_rate_limit"
      PROVE  nodeRequests'[n] = kept /\ Shrinks(kept, NodeWindow, NodeMaxCount, until)
  <2>1. nodeRequests' = [nodeRequests EXCEPT ![n] = kept] /\ until = Head(kept) + NodeWindow
    BY <1>1, <1>7 DEF Refuse, RetryAt
  <2>2. Len(kept) >= NodeMaxCount
    BY <1>1, <1>7 DEF Verdict, Full
  <2>3. kept # <<>>
    BY <1>3, <2>2
  <2>4. nodeRequests'[n] = kept
    BY <1>3, <2>1 DEF TypeOK
  <2> QED BY <1>3, <1>4, <2>1, <2>3, <2>4, ShrinksAtHead
<1> QED BY <1>1, <1>2, <1>5, <1>6, <1>7

LEMMA RefuseRetry ==
  ASSUME RetryInv, NEW r \in Requests, Refuse(r)
  PROVE  RetryAccounted'
<1>1. /\ TypeOK /\ RetryAccounted /\ now \in Nat
      /\ GlobalMaxCount \in Nat /\ NodeMaxCount \in Nat
      /\ GlobalWindow \in Nat /\ NodeWindow \in Nat
  BY LimiterAssumption DEF RetryInv, TypeOK
<1>2. Ago(GlobalWindow) \in Nat /\ Ago(NodeWindow) \in Nat
  BY <1>1, AgoType
<1>3. /\ globalRequests' = globalRequests \/ globalRequests' = GlobalWindowed
      /\ \A n \in Nodes : nodeRequests'[n] = nodeRequests[n] \/ nodeRequests'[n] = NodeWindowed(n)
      /\ recentSignals' = recentSignals
  BY <1>1, RefuseEffect
<1>4. \A q \in Requests : q # r => refusal'[q] = refusal[q]
  BY <1>1 DEF Refuse, TypeOK
<1> SUFFICES ASSUME NEW q \in Requests
             PROVE  LET reason == refusal'[q].reason
                        until == refusal'[q].until
                        lastSeen == recentSignals'[SignalOf[q]]
                    IN /\ reason = "duplicate_signal" =>
                            lastSeen = Never \/ until = lastSeen + DupWindow
                       /\ reason = "global_rate_limit" =>
                            Shrinks(globalRequests', GlobalWindow, GlobalMaxCount, until)
                       /\ reason = "node_rate_limit" =>
                            Shrinks(nodeRequests'[NodeOf[q]], NodeWindow, NodeMaxCount, until)
  BY DEF RetryAccounted
<1>5. CASE q = r
  BY <1>1, <1>3, <1>5, RefusePromises
<1>6. CASE q # r
  <2>1. PICK reason, until, n :
          reason = refusal[q].reason /\ until = refusal[q].until /\ n = NodeOf[q]
    OBVIOUS
  <2>2. refusal'[q].reason = reason /\ refusal'[q].until = until /\ n \in Nodes
    BY <1>4, <1>6, <2>1, LimiterAssumption
  <2>3. reason = "duplicate_signal" =>
          recentSignals[SignalOf[q]] = Never \/ until = recentSignals[SignalOf[q]] + DupWindow
    BY <1>1, <2>1 DEF RetryAccounted
  <2>4. ASSUME reason = "global_rate_limit"
        PROVE  Shrinks(globalRequests', GlobalWindow, GlobalMaxCount, until)
    <3>1. globalRequests \in Seq(1 .. now)
          /\ Shrinks(globalRequests, GlobalWindow, GlobalMaxCount, until)
      BY <1>1, <2>1, <2>4 DEF RetryAccounted, TypeOK
    <3>2. Shrinks(GlobalWindowed, GlobalWindow, GlobalMaxCount, until)
      BY <1>1, <1>2, <3>1, ShrinksFiltered DEF GlobalWindowed
    <3> QED BY <1>3, <3>1, <3>2
  <2>5. ASSUME reason = "node_rate_limit"
        PROVE  Shrinks(nodeRequests'[n], NodeWindow, NodeMaxCount, until)
    <3>1. nodeRequests[n] \in Seq(1 .. now)
          /\ Shrinks(nodeRequests[n], NodeWindow, NodeMaxCount, until)
      BY <1>1, <2>1, <2>2, <2>5 DEF RetryAccounted, TypeOK
    <3>2. Shrinks(NodeWindowed(n), NodeWindow, NodeMaxCount, until)
      BY <1>1, <1>2, <3>1, ShrinksFiltered DEF NodeWindowed
    <3> QED BY <1>3, <2>2, <3>1, <3>2
  <2> QED BY <1>3, <2>1, <2>2, <2>3, <2>4, <2>5
<1> QED BY <1>5, <1>6

LEMMA CleanupRetry ==
  ASSUME RetryInv, Cleanup
  PROVE  RetryAccounted'
<1>1. /\ TypeOK /\ RetryAccounted /\ now \in Nat
      /\ GlobalMaxCount \in Nat /\ NodeMaxCount \in Nat
      /\ GlobalWindow \in Nat /\ NodeWindow \in Nat
  BY LimiterAssumption DEF RetryInv, TypeOK
<1>2. Ago(GlobalWindow * 2) \in Nat /\ Ago(NodeWindow * 2) \in Nat
  BY <1>1, AgoType
<1>3. /\ globalRequests' = FilterAfter(globalRequests, Ago(GlobalWindow * 2))
      /\ \A n \in Nodes : nodeRequests'[n] = FilterAfter(nodeRequests[n], Ago(NodeWindow * 2))
      /\ \A s \in Signals : recentSignals'[s] = Never \/ recentSignals'[s] = recentSignals[s]
      /\ refusal' = refusal
  BY DEF Cleanup
<1> SUFFICES ASSUME NEW q \in Requests
             PROVE  LET reason == refusal[q].reason
                        until == refusal[q].until
                        lastSeen == recentSignals'[SignalOf[q]]
                    IN /\ reason = "duplicate_signal" =>
                            lastSeen = Never \/ until = lastSeen + DupWindow
                       /\ reason = "global_rate_limit" =>
                            Shrinks(globalRequests', GlobalWindow, GlobalMaxCount, until)
                       /\ reason = "node_rate_limit" =>
                            Shrinks(nodeRequests'[NodeOf[q]], NodeWindow, NodeMaxCount, until)
  BY <1>3 DEF RetryAccounted
<1>4. PICK reason, until, n :
        reason = refusal[q].reason /\ until = refusal[q].until /\ n = NodeOf[q]
  OBVIOUS
<1>5. n \in Nodes /\ SignalOf[q] \in Signals
  BY <1>4, LimiterAssumption
<1>6. ASSUME reason = "duplicate_signal"
      PROVE  recentSignals'[SignalOf[q]] = Never
             \/ until = recentSignals'[SignalOf[q]] + DupWindow
  <2>1. recentSignals[SignalOf[q]] = Never \/ until = recentSignals[SignalOf[q]] + DupWindow
    BY <1>1, <1>4, <1>6 DEF RetryAccounted
  <2> QED BY <1>3, <1>5, <2>1
<1>7. ASSUME reason = "global_rate_limit"
      PROVE  Shrinks(globalRequests', GlobalWindow, GlobalMaxCount, until)
  <2>1. globalRequests \in Seq(1 .. now)
        /\ Shrinks(globalRequests, GlobalWindow, GlobalMaxCount, until)
    BY <1>1, <1>4, <1>7 DEF RetryAccounted, TypeOK
  <2> QED BY <1>1, <1>2, <1>3, <2>1, ShrinksFiltered
<1>8. ASSUME reason = "node_rate_limit"
      PROVE  Shrinks(nodeRequests'[n], NodeWindow, NodeMaxCount, until)
  <2>1. nodeRequests[n] \in Seq(1 .. now)
        /\ Shrinks(nodeRequests[n], NodeWindow, NodeMaxCount, until)
    BY <1>1, <1>4, <1>5, <1>8 DEF RetryAccounted, TypeOK
  <2> QED BY <1>1, <1>2, <1>3, <1>5, <2>1, ShrinksFiltered
<1> QED BY <1>4, <1>6, <1>7, <1>8

LEMMA RetryInitInv == Init => RetryInv
<1> SUFFICES ASSUME Init PROVE RetryInv
  OBVIOUS
<1>1. \A r \in Requests : refusal[r].reason = "none"
  BY DEF Init, NotRefused
<1> QED BY <1>1, LimiterInitTyped DEF RetryInv, RetryAccounted

LEMMA RetryNextInv == RetryInv /\ [Next]_vars => RetryInv'
<1> SUFFICES ASSUME RetryInv, [Next]_vars PROVE RetryInv'
  OBVIOUS
<1>1. TypeOK'
  BY LimiterNextTyped DEF RetryInv
<1>2. CASE UNCHANGED <<globalRequests, nodeRequests, recentSignals, refusal>>
  BY <1>1, <1>2 DEF RetryInv, RetryAccounted
<1>3. ASSUME NEW r \in Requests, Refuse(r) PROVE RetryInv'
  BY <1>1, <1>3, RefuseRetry DEF RetryInv
<1>4. ASSUME NEW r \in Requests, Admit(r) PROVE RetryInv'
  <2>1. \A q \in Requests : refusal'[q].reason = "none"
    BY <1>4 DEF Admit, NotRefused
  <2> QED BY <1>1, <2>1 DEF RetryInv, RetryAccounted
<1>5. CASE Cleanup
  BY <1>1, <1>5, CleanupRetry DEF RetryInv
<1>6. CASE Tick
  BY <1>2, <1>6 DEF Tick, limiterVars
<1>7. CASE UNCHANGED vars
  BY <1>2, <1>7 DEF vars, limiterVars
<1> QED BY <1>3, <1>4, <1>5, <1>6, <1>7 DEF Next

LEMMA RetryKept == RetryInv => RetryHonoured
<1> SUFFICES ASSUME RetryInv, NEW r \in Requests, refusal[r].reason # "none",
                    now >= refusal[r].until
             PROVE  Verdict(r) # refusal[r].reason
  BY DEF RetryHonoured
<1>1. PICK reason, until, n, lastSeen :
        /\ reason = refusal[r].reason /\ until = refusal[r].until /\ n = NodeOf[r]
        /\ lastSeen = recentSignals[SignalOf[r]]
  OBVIOUS
<1>2. /\ reason \in Reasons \ {"none"} /\ until \in Nat /\ now >= until
      /\ now \in Nat /\ n \in Nodes /\ GlobalWindow \in Nat /\ NodeWindow \in Nat
      /\ lastSeen \in Nat \cup {Never} /\ DupWindow \in Nat
  BY <1>1, LimiterAssumption DEF RetryInv, TypeOK
<1>3. ASSUME NEW window \in Nat
      PROVE  Ago(window) \in Nat /\ Ago(window) + window >= until
  BY <1>2 DEF Ago
<1>4. TypeOK
  BY DEF RetryInv
<1>5. CASE reason = "duplicate_signal"
  <2>1. lastSeen = Never \/ until = lastSeen + DupWindow
    BY <1>1, <1>5 DEF RetryInv, RetryAccounted
  <2>2. ~(lastSeen # Never /\ now < lastSeen + DupWindow)
    BY <1>2, <2>1
  <2>3. Verdict(r) # "duplicate_signal"
    BY <1>1, <2>2 DEF Verdict
  <2> QED BY <1>1, <1>5, <2>3
<1>6. CASE reason = "global_rate_limit"
  <2>1. Shrinks(globalRequests, GlobalWindow, GlobalMaxCount, until)
    BY <1>1, <1>6 DEF RetryInv, RetryAccounted
  <2>2. Len(GlobalWindowed) < GlobalMaxCount
    BY <1>2, <1>3, <2>1 DEF Shrinks, GlobalWindowed
  <2>3. ~Full(GlobalWindowed, GlobalMaxCount)
    BY <1>4, <2>2, Windowed, LimiterAssumption DEF Full
  <2>4. Verdict(r) # "global_rate_limit"
    BY <2>3 DEF Verdict
  <2> QED BY <1>1, <1>6, <2>4
<1>7. CASE reason = "node_rate_limit"
  <2>1. Shrinks(nodeRequests[n], NodeWindow, NodeMaxCount, until)
    BY <1>1, <1>7 DEF RetryInv, RetryAccounted
  <2>2. Len(NodeWindowed(n)) < NodeMaxCount
    BY <1>2, <1>3, <2>1 DEF Shrinks, NodeWindowed
  <2>3. ~Full(NodeWindowed(n), NodeMaxCount)
    BY <1>2, <1>4, <2>2, Windowed, LimiterAssumption DEF Full
  <2>4. Verdict(r) # "node_rate_limit"
    BY <1>1, <2>3 DEF Verdict
  <2> QED BY <1>1, <1>7, <2>4
<1> QED BY <1>2, <1>5, <1>6, <1>7 DEF Reasons

(* A client that comes back when a refusal told it to is not refused again  *)
(* for the same reason, unless somebody passed meanwhile.                   *)
THEOREM LimiterRetryHonoured == Spec => []RetryHonoured
<1>1. Spec => []RetryInv
  BY RetryInitInv, RetryNextInv, PTL DEF Spec
<1> QED BY <1>1, RetryKept, PTL

=============================================================================
