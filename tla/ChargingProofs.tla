--------------------------- MODULE ChargingProofs ---------------------------
(***************************************************************************)
(* What holds of a session's figures for every set of tariffs, ceilings    *)
(* and bounds: the tariffs installed are never ambiguous, a cost once      *)
(* earned stays, the first session is billed for nothing twice, and the    *)
(* sweep of time ceilings believes nothing it cannot know.                 *)
(***************************************************************************)
EXTENDS MCCharging, SequenceTheorems, NaturalsInduction,
        WellFoundedInduction, TLAPS

-----------------------------------------------------------------------------
(* The largest of some natural numbers.                                      *)

LEMMA LargestExists ==
  ASSUME NEW S \in SUBSET Nat, S # {}, NEW u \in Nat, \A x \in S : x <= u
  PROVE  \E m \in S : \A x \in S : x <= m
<1> DEFINE Above == {b \in Nat : \A x \in S : x <= b}
<1>1. PICK b \in Above : \A k \in Above : ~(<<k, b>> \in OpToRel(<, Nat))
  <2>1. Above \subseteq Nat /\ u \in Above
    OBVIOUS
  <2> HIDE DEF Above
  <2> QED BY <2>1, NatLessThanWellFounded, WFMin
<1>2. b \in Nat /\ \A x \in S : x <= b
  OBVIOUS
<1>3. b \in S
  <2> SUFFICES ASSUME b \notin S PROVE FALSE
    OBVIOUS
  <2>1. \A x \in S : x # b /\ x \in Nat /\ x <= b
    BY <1>2
  <2>2. b # 0
    <3>1. PICK x \in S : TRUE
      OBVIOUS
    <3>2. x # b /\ x \in Nat /\ x <= b
      BY <2>1
    <3> QED BY <1>2, <3>2
  <2> DEFINE k == b - 1
  <2>3. k \in Nat /\ k < b
    BY <1>2, <2>2
  <2>4. ASSUME NEW x \in S
        PROVE  x <= k
    <3>1. x # b /\ x \in Nat /\ x <= b
      BY <2>1
    <3> QED BY <1>2, <3>1
  <2>5. <<k, b>> \in OpToRel(<, Nat)
    BY <1>2, <2>3 DEF OpToRel
  <2> QED BY <1>1, <2>3, <2>4, <2>5
<1> QED BY <1>2, <1>3

-----------------------------------------------------------------------------
(* The store of tariffs: what Retained leaves.                               *)

Installs == [scope : TariffScopes, t : Tariffs]

\* f is what the first m steps of Retained compute.
Retains(gone, m, f) ==
    f = [n \in 0 .. m |->
            IF n = 0 THEN <<>>
            ELSE IF store[n] \in gone THEN f[n - 1]
            ELSE Append(f[n - 1], store[n])]

\* Such an f exists: extend the one for all but the last step.
LEMMA RetainsExist ==
  ASSUME NEW gone, NEW n \in Nat
  PROVE  \E f : Retains(gone, n, f)
<1> DEFINE Bad == {k \in Nat : ~\E f : Retains(gone, k, f)}
           next(f, i) == IF i = 0 THEN <<>>
                         ELSE IF store[i] \in gone THEN f[i - 1]
                         ELSE Append(f[i - 1], store[i])
<1> SUFFICES ASSUME Bad # {} PROVE FALSE
  OBVIOUS
<1>1. PICK b \in Bad : \A k \in Bad : ~(<<k, b>> \in OpToRel(<, Nat))
  <2>1. Bad \subseteq Nat
    OBVIOUS
  <2> HIDE DEF Bad
  <2> QED BY <2>1, NatLessThanWellFounded, WFMin
<1>2. CASE b = 0
  <2> DEFINE g == [i \in 0 .. 0 |-> <<>>]
             h == [i \in 0 .. 0 |-> next(g, i)]
  <2>1. \A i \in 0 .. 0 : i = 0
    OBVIOUS
  <2>2. \A i \in 0 .. 0 : g[i] = h[i]
    BY <2>1
  <2>3. g = h
    BY <2>2
  <2>4. Retains(gone, 0, g)
    BY <2>3 DEF Retains
  <2> QED BY <1>2, <2>4
<1>3. CASE b # 0
  <2> DEFINE m == b - 1
  <2>1. m \in Nat /\ b = m + 1
    BY <1>3
  <2>2. <<m, b>> \in OpToRel(<, Nat)
    BY <2>1 DEF OpToRel
  <2>3. PICK f : Retains(gone, m, f)
    BY <1>1, <2>1, <2>2
  <2> HIDE DEF m
  <2> DEFINE g == [i \in 0 .. b |-> next(f, i)]
  <2>4. ASSUME NEW i \in 0 .. m
        PROVE  g[i] = f[i]
    <3>1. f[i] = next(f, i)
      BY <2>3 DEF Retains
    <3> QED BY <2>1, <3>1
  <2>5. ASSUME NEW i \in 0 .. b
        PROVE  g[i] = next(g, i)
    <3>1. CASE i = 0
      BY <3>1
    <3>2. CASE i # 0
      <4>1. i - 1 \in 0 .. m
        BY <2>1, <3>2
      <4> QED BY <2>4, <3>2, <4>1
    <3> QED BY <3>1, <3>2
  <2>6. Retains(gone, b, g)
    <3> DEFINE h == [i \in 0 .. b |-> next(g, i)]
    <3>1. \A i \in 0 .. b : g[i] = h[i]
      BY <2>5
    <3>2. g = h
      BY <3>1
    <3> QED BY <3>2 DEF Retains
  <2> QED BY <1>1, <2>6
<1> QED BY <1>2, <1>3

\* s is left of the first m tariffs: none of those that go, each at most once,
\* and fewer if one of them goes.
Left(s, gone, m) ==
    /\ s \in Seq(Installs) /\ Len(s) <= m
    /\ \A k \in 1 .. m : store[k] \in gone => Len(s) < m
    /\ \A i \in 1 .. Len(s) :
          s[i] \notin gone /\ \E k \in 1 .. m : s[i] = store[k]
    /\ \A i, j \in 1 .. Len(s) : i # j =>
          \E k, l \in 1 .. m : k # l /\ s[i] = store[k] /\ s[j] = store[l]

\* One more tariff.
LEMMA LeftOne ==
  ASSUME store \in Seq(Installs), NEW gone, NEW m \in Nat, m + 1 <= Len(store),
         NEW s, Left(s, gone, m)
  PROVE  Left(IF store[m + 1] \in gone THEN s ELSE Append(s, store[m + 1]),
              gone, m + 1)
<1> DEFINE x == store[m + 1]
           n == Len(s)
<1>0. s \in Seq(Installs) /\ n \in Nat /\ n <= m
  BY LenProperties DEF Left
<1>1. /\ \A k \in 1 .. m : store[k] \in gone => n < m
      /\ \A i \in 1 .. n :
            s[i] \notin gone /\ \E k \in 1 .. m : s[i] = store[k]
      /\ \A i, j \in 1 .. n : i # j =>
            \E k, l \in 1 .. m : k # l /\ s[i] = store[k] /\ s[j] = store[l]
  BY DEF Left
<1>2. \A k \in 1 .. m : k \in 1 .. m + 1 /\ k # m + 1
  OBVIOUS
<1>3. m + 1 \in 1 .. m + 1 /\ \A k \in 1 .. m + 1 : k = m + 1 \/ k \in 1 .. m
  OBVIOUS
<1>4. CASE x \in gone
  <2>1. n <= m + 1 /\ n < m + 1
    BY <1>0
  <2>2. Left(s, gone, m + 1)
    BY <1>0, <1>1, <1>2, <2>1 DEF Left
  <2> QED BY <1>4, <2>2
<1>5. CASE x \notin gone
  <2> DEFINE u == Append(s, x)
  <2>1. Len(store) \in Nat /\ m + 1 \in 1 .. Len(store)
    BY LenProperties
  <2>2. x \in Installs
    BY <2>1, ElementOfSeq
  <2>3. /\ u \in Seq(Installs) /\ Len(u) = n + 1
        /\ \A i \in 1 .. n : u[i] = s[i]
        /\ u[n + 1] = x
    BY <1>0, <2>2, AppendProperties
  <2> HIDE DEF u, n
  <2>4. \A i \in 1 .. Len(u) : i = n + 1 \/ i \in 1 .. n
    BY <1>0, <2>3
  <2>5. ASSUME NEW i \in 1 .. Len(u)
        PROVE  u[i] \notin gone /\ \E k \in 1 .. m + 1 : u[i] = store[k]
    <3>1. CASE i = n + 1
      BY <1>3, <1>5, <2>3, <3>1
    <3>2. CASE i \in 1 .. n
      BY <1>1, <1>2, <2>3, <3>2
    <3> QED BY <2>4, <3>1, <3>2
  <2>6. ASSUME NEW i \in 1 .. Len(u), NEW j \in 1 .. Len(u), i # j
        PROVE  \E k, l \in 1 .. m + 1 :
                  k # l /\ u[i] = store[k] /\ u[j] = store[l]
    <3>1. CASE i \in 1 .. n /\ j \in 1 .. n
      <4>1. PICK k \in 1 .. m, l \in 1 .. m :
               k # l /\ s[i] = store[k] /\ s[j] = store[l]
        BY <1>1, <2>6, <3>1
      <4> QED BY <1>2, <2>3, <3>1, <4>1
    <3>2. CASE i \in 1 .. n /\ j = n + 1
      <4>1. PICK k \in 1 .. m : s[i] = store[k]
        BY <1>1, <3>2
      <4> QED BY <1>2, <1>3, <2>3, <3>2, <4>1
    <3>3. CASE i = n + 1 /\ j \in 1 .. n
      <4>1. PICK k \in 1 .. m : s[j] = store[k]
        BY <1>1, <3>3
      <4> QED BY <1>2, <1>3, <2>3, <3>3, <4>1
    <3> QED BY <2>4, <2>6, <3>1, <3>2, <3>3
  <2>7. ASSUME NEW k \in 1 .. m + 1, store[k] \in gone
        PROVE  Len(u) < m + 1
    <3>1. k \in 1 .. m
      BY <1>3, <1>5, <2>7
    <3>2. n < m
      BY <1>1, <2>7, <3>1
    <3> QED BY <1>0, <2>3, <3>2
  <2>8. Len(u) <= m + 1
    BY <1>0, <2>3
  <2>9. Left(u, gone, m + 1)
    BY <2>3, <2>5, <2>6, <2>7, <2>8 DEF Left
  <2> QED BY <1>5, <2>9 DEF u
<1> QED BY <1>4, <1>5

\* What Retained returns.
LEMMA RetainedLeft ==
  ASSUME store \in Seq(Installs), NEW gone
  PROVE  Left(Retained(gone), gone, Len(store))
<1> DEFINE n == Len(store)
           kept == CHOOSE f : Retains(gone, n, f)
<1>1. n \in Nat
  BY LenProperties
<1>2. Retains(gone, n, kept)
  BY <1>1, RetainsExist
<1>3. Retained(gone) = kept[n]
  BY DEF Retained, Retains
<1> HIDE DEF kept
<1> DEFINE Bad == {k \in 0 .. n : ~Left(kept[k], gone, k)}
<1>4. Bad = {}
  <2> SUFFICES ASSUME Bad # {} PROVE FALSE
    OBVIOUS
  <2>1. PICK b \in Bad : \A k \in Bad : ~(<<k, b>> \in OpToRel(<, Nat))
    <3>1. Bad \subseteq Nat
      BY <1>1
    <3> HIDE DEF Bad
    <3> QED BY <3>1, NatLessThanWellFounded, WFMin
  <2>2. b \in 0 .. n /\ b \in Nat /\ ~Left(kept[b], gone, b)
    BY <1>1
  <2>3. kept[b] = IF b = 0 THEN <<>>
                  ELSE IF store[b] \in gone THEN kept[b - 1]
                  ELSE Append(kept[b - 1], store[b])
    BY <1>2, <2>2 DEF Retains
  <2>4. CASE b = 0
    <3>1. <<>> \in Seq(Installs) /\ Len(<<>>) = 0
      BY EmptySeq
    <3>2. Left(<<>>, gone, 0)
      BY <3>1 DEF Left
    <3> QED BY <2>2, <2>3, <2>4, <3>2
  <2>5. CASE b # 0
    <3> DEFINE m == b - 1
    <3>1. m \in 0 .. n /\ m \in Nat /\ b = m + 1 /\ b - 1 = m /\ m + 1 <= n
      BY <1>1, <2>2, <2>5
    <3>2. <<m, b>> \in OpToRel(<, Nat)
      BY <2>2, <3>1 DEF OpToRel
    <3>3. Left(kept[m], gone, m)
      BY <2>1, <3>1, <3>2
    <3> HIDE DEF m
    <3>4. Left(IF store[m + 1] \in gone THEN kept[m]
               ELSE Append(kept[m], store[m + 1]), gone, m + 1)
      BY <3>1, <3>3, LeftOne
    <3> QED BY <2>2, <2>3, <2>5, <3>1, <3>4
  <2> QED BY <2>4, <2>5
<1>5. n \in 0 .. n
  BY <1>1
<1> QED BY <1>3, <1>4, <1>5

-----------------------------------------------------------------------------
(* The store stays unambiguous.                                              *)

Unambiguous(s) ==
    /\ Len(s) <= MaxTariffs
    /\ \A i, j \in 1 .. Len(s) : i # j =>
          /\ s[i].t.id # s[j].t.id
          /\ s[i].scope = s[j].scope => s[i].t.from # s[j].t.from

\* What is left of an unambiguous store is.
LEMMA LeftUnambiguous ==
  ASSUME store \in Seq(Installs), Unambiguous(store), NEW gone, NEW s,
         Left(s, gone, Len(store))
  PROVE  s \in Seq(Installs) /\ Unambiguous(s)
<1> DEFINE n == Len(store)
<1>1. s \in Seq(Installs) /\ Len(s) \in Nat /\ n \in Nat /\ Len(s) <= n
  BY LenProperties DEF Left
<1>2. n <= MaxTariffs /\ MaxTariffs \in Nat
  BY CostAssumption DEF Unambiguous
<1>3. ASSUME NEW i \in 1 .. Len(s), NEW j \in 1 .. Len(s), i # j
      PROVE  /\ s[i].t.id # s[j].t.id
             /\ s[i].scope = s[j].scope => s[i].t.from # s[j].t.from
  <2>1. PICK k \in 1 .. n, l \in 1 .. n :
           k # l /\ s[i] = store[k] /\ s[j] = store[l]
    BY <1>3 DEF Left
  <2> QED BY <2>1 DEF Unambiguous
<1>4. Len(s) <= MaxTariffs
  BY <1>1, <1>2
<1> QED BY <1>1, <1>3, <1>4 DEF Unambiguous

LEMMA SetDefaultUnambiguous ==
  ASSUME store \in Seq(Installs), Unambiguous(store),
         NEW scope \in TariffScopes, NEW t \in Tariffs, Takes(scope, t)
  PROVE  /\ SetDefault(scope, t) \in Seq(Installs)
         /\ Unambiguous(SetDefault(scope, t))
<1> DEFINE gone == {x \in Range(store) : Supersedes(scope, t, x)}
           s == Retained(gone)
           x == [scope |-> scope, t |-> t]
           u == Append(s, x)
           n == Len(s)
<1>1. Left(s, gone, Len(store))
  BY RetainedLeft
<1>2. /\ DOMAIN store = 1 .. Len(store) /\ Len(store) \in Nat
      /\ \A k \in 1 .. Len(store) : store[k] \in Range(store)
  BY LenProperties DEF Range
<1>3. u = SetDefault(scope, t)
  BY DEF SetDefault
<1>4. \A k \in 1 .. Len(store) :
         /\ store[k].t.id = t.id => store[k].scope = scope
         /\ Supersedes(scope, t, store[k]) => store[k] \in gone
  BY <1>2 DEF Takes
<1>5. \/ \E k \in 1 .. Len(store) : store[k] \in gone
      \/ Len(store) < MaxTariffs
  BY <1>2, <1>4 DEF Takes
<1> HIDE DEF gone, s
<1>6. s \in Seq(Installs) /\ Unambiguous(s) /\ n \in Nat
  BY <1>1, LeftUnambiguous, LenProperties
<1>7. x \in Installs
  BY DEF Installs
<1>8. n + 1 <= MaxTariffs
  <2>1. Len(store) <= MaxTariffs /\ MaxTariffs \in Nat
    BY CostAssumption DEF Unambiguous
  <2>2. n <= Len(store) /\ (Len(store) < MaxTariffs \/ n < Len(store))
    BY <1>1, <1>5 DEF Left
  <2> HIDE DEF n
  <2> QED BY <1>2, <1>6, <2>1, <2>2
<1>9. /\ u \in Seq(Installs) /\ Len(u) = n + 1
      /\ \A i \in 1 .. n : u[i] = s[i]
      /\ u[n + 1] = x
  BY <1>6, <1>7, AppendProperties
<1>10. ASSUME NEW i \in 1 .. n
       PROVE  s[i].t.id # t.id /\ (s[i].scope = scope => s[i].t.from # t.from)
  <2>1. PICK k \in 1 .. Len(store) : s[i] = store[k]
    BY <1>1 DEF Left
  <2>2. s[i] \notin gone
    BY <1>1 DEF Left
  <2>3. ~Supersedes(scope, t, s[i])
    BY <1>4, <2>1, <2>2
  <2> QED BY <1>4, <2>1, <2>3 DEF Supersedes
<1> HIDE DEF n, u
<1>11. \A i \in 1 .. n + 1 : i = n + 1 \/ i \in 1 .. n
  BY <1>6
<1>12. ASSUME NEW i \in 1 .. n + 1, NEW j \in 1 .. n + 1, i # j
       PROVE  /\ u[i].t.id # u[j].t.id
              /\ u[i].scope = u[j].scope => u[i].t.from # u[j].t.from
  <2>1. CASE i \in 1 .. n /\ j \in 1 .. n
    BY <1>6, <1>9, <1>12, <2>1 DEF Unambiguous, n
  <2>2. CASE i \in 1 .. n /\ j = n + 1
    BY <1>9, <1>10, <2>2
  <2>3. CASE i = n + 1 /\ j \in 1 .. n
    BY <1>9, <1>10, <2>3
  <2> QED BY <1>11, <1>12, <2>1, <2>2, <2>3
<1>13. Unambiguous(u)
  BY <1>8, <1>9, <1>12 DEF Unambiguous
<1> QED BY <1>3, <1>9, <1>13

\* The tariff in force is installed, or the driver's, or none.
LEMMA EffectiveForType ==
  ASSUME store \in Seq(Installs), day \in Nat, NEW scope
  PROVE  EffectiveFor(scope) \in Tariffs \cup {NoTariff}
<1> DEFINE valid == {i \in DOMAIN store :
                        store[i].scope = scope /\ store[i].t.from <= day}
           Best(i) == \A j \in valid :
                         \/ store[j].t.from < store[i].t.from
                         \/ store[j].t.from = store[i].t.from /\ j <= i
<1>1. DOMAIN store = 1 .. Len(store) /\ Len(store) \in Nat
  BY LenProperties
<1>2. ASSUME NEW i \in valid
      PROVE  /\ i \in Nat /\ i <= Len(store)
             /\ store[i].t \in Tariffs
             /\ store[i].t.from \in Nat /\ store[i].t.from <= day
  <2>1. i \in 1 .. Len(store)
    BY <1>1
  <2>2. store[i] \in Installs
    BY <2>1, ElementOfSeq
  <2>3. store[i].t \in Tariffs
    BY <2>2 DEF Installs
  <2> QED BY <1>1, <2>1, <2>3, CostAssumption
<1>3. CASE valid = {}
  BY <1>3 DEF EffectiveFor
<1>4. CASE valid # {}
  <2> HIDE DEF valid
  <2> DEFINE S == {store[i].t.from : i \in valid}
  <2>1. PICK m \in S : \A x \in S : x <= m
    <3>1. S \in SUBSET Nat /\ S # {} /\ \A x \in S : x <= day
      BY <1>2, <1>4
    <3> HIDE DEF S
    <3> QED BY <3>1, LargestExists
  <2> DEFINE J == {i \in valid : store[i].t.from = m}
  <2>2. PICK k \in J : \A x \in J : x <= k
    <3>1. J \in SUBSET Nat /\ J # {} /\ \A x \in J : x <= Len(store)
      BY <1>2, <2>1
    <3> HIDE DEF J
    <3> QED BY <1>1, <3>1, LargestExists
  <2>3. k \in valid /\ store[k].t.from = m /\ m \in Nat
    BY <1>2, <2>2
  <2>4. ASSUME NEW j \in valid
        PROVE  \/ store[j].t.from < store[k].t.from
               \/ store[j].t.from = store[k].t.from /\ j <= k
    <3>1. store[j].t.from <= m /\ store[j].t.from \in Nat
      BY <1>2, <2>1
    <3>2. store[j].t.from = m => j <= k
      BY <2>2
    <3> HIDE DEF S, J
    <3> QED BY <2>3, <3>1, <3>2
  <2>5. Best(k)
    BY <2>4
  <2> HIDE DEF Best
  <2> DEFINE b == CHOOSE i \in valid : Best(i)
  <2>6. b \in valid
    BY <2>3, <2>5
  <2>7. EffectiveFor(scope) = store[b].t
    BY <1>4 DEF EffectiveFor, valid, Best
  <2> HIDE DEF b
  <2> QED BY <1>2, <2>6, <2>7
<1> QED BY <1>3, <1>4

-----------------------------------------------------------------------------
(* Readings that rise.                                                       *)

Runs  == [id : Int, energy : Nat \cup {Absent}, began : Nat]

\* The readings of the reports of q do not fall, from low to high.
Rising(q, low, high) ==
    /\ \A i \in 1 .. Len(q) : low <= Reading(q[i]) /\ Reading(q[i]) <= high
    /\ \A i, j \in 1 .. Len(q) : i <= j => Reading(q[i]) <= Reading(q[j])

LEMMA ReadingType ==
  ASSUME NEW r \in Runs
  PROVE  Reading(r) \in Nat
  BY DEF Runs, Reading, Absent

LEMMA NoSessionType == NoSession \in Runs /\ Reading(NoSession) = 0
  BY DEF NoSession, Runs, Reading, Absent

\* A report of a reading no lower than the others.
LEMMA RisingAppend ==
  ASSUME NEW q \in Seq(Runs), NEW r \in Runs, NEW low \in Nat, NEW high \in Nat,
         NEW low2 \in Nat, NEW high2 \in Nat, Rising(q, low, high),
         low2 <= low, low2 <= Reading(r), high <= Reading(r),
         Reading(r) <= high2
  PROVE  Append(q, r) \in Seq(Runs) /\ Append(q, r) # <<>>
         /\ Rising(Append(q, r), low2, high2)
<1> DEFINE u == Append(q, r)
           n == Len(q)
<1>1. n \in Nat /\ Reading(r) \in Nat
  BY LenProperties, ReadingType
<1>2. /\ u \in Seq(Runs) /\ Len(u) = n + 1 /\ u # <<>>
      /\ \A i \in 1 .. n : u[i] = q[i]
      /\ u[n + 1] = r
  BY AppendProperties
<1>3. ASSUME NEW i \in 1 .. n
      PROVE  /\ q[i] \in Runs /\ Reading(q[i]) \in Nat
             /\ low <= Reading(q[i]) /\ Reading(q[i]) <= high
             /\ \A j \in 1 .. n : i <= j => Reading(q[i]) <= Reading(q[j])
  <2>1. q[i] \in Runs
    BY ElementOfSeq
  <2> QED BY <2>1, ReadingType DEF Rising
<1> HIDE DEF u, n
<1>4. \A i \in 1 .. Len(u) : i = n + 1 \/ i \in 1 .. n
  BY <1>1, <1>2
<1>5. ASSUME NEW i \in 1 .. Len(u)
      PROVE  low2 <= Reading(u[i]) /\ Reading(u[i]) <= high2
  <2>1. CASE i = n + 1
    BY <1>1, <1>2, <2>1
  <2>2. CASE i \in 1 .. n
    <3> DEFINE x == Reading(q[i])
    <3>1. x \in Nat /\ low <= x /\ x <= high /\ u[i] = q[i]
      BY <1>2, <1>3, <2>2
    <3> HIDE DEF x
    <3>2. low2 <= x /\ x <= high2
      BY <1>1, <3>1
    <3> QED BY <3>1, <3>2 DEF x
  <2> QED BY <1>4, <2>1, <2>2
<1>6. ASSUME NEW i \in 1 .. Len(u), NEW j \in 1 .. Len(u), i <= j
      PROVE  Reading(u[i]) <= Reading(u[j])
  <2>1. CASE i \in 1 .. n /\ j \in 1 .. n
    BY <1>2, <1>3, <1>6, <2>1
  <2>2. CASE i \in 1 .. n /\ j = n + 1
    <3> DEFINE x == Reading(q[i])
    <3>1. x \in Nat /\ x <= high /\ u[i] = q[i]
      BY <1>2, <1>3, <2>2
    <3> HIDE DEF x
    <3>2. x <= Reading(r)
      BY <1>1, <3>1
    <3> QED BY <1>2, <2>2, <3>1, <3>2 DEF x
  <2>3. CASE i = n + 1
    <3>1. j = n + 1
      BY <1>1, <1>4, <1>6, <2>3
    <3> QED BY <1>1, <1>2, <2>3, <3>1
  <2> QED BY <1>4, <2>1, <2>2, <2>3
<1>7. Rising(u, low2, high2)
  BY <1>5, <1>6 DEF Rising
<1> QED BY <1>2, <1>7 DEF u

\* The front is delivered.
LEMMA RisingTail ==
  ASSUME NEW q \in Seq(Runs), q # <<>>, NEW low, NEW high, Rising(q, low, high)
  PROVE  Tail(q) \in Seq(Runs) /\ Rising(Tail(q), low, high)
<1> DEFINE u == Tail(q)
<1>1. Len(q) \in Nat
  BY LenProperties
<1>2. /\ u \in Seq(Runs) /\ Len(u) = Len(q) - 1
      /\ \A i \in 1 .. Len(u) : u[i] = q[i + 1]
  BY HeadTailProperties
<1> HIDE DEF u
<1>3. \A i \in 1 .. Len(u) : i + 1 \in 1 .. Len(q)
  BY <1>1, <1>2
<1>4. \A i, j \in 1 .. Len(u) : i <= j => i + 1 <= j + 1
  BY <1>1, <1>2
<1>5. Rising(u, low, high)
  BY <1>2, <1>3, <1>4 DEF Rising
<1> QED BY <1>2, <1>5 DEF u

\* The front is priced: nothing behind it is below it.
LEMMA RisingFront ==
  ASSUME NEW q \in Seq(Runs), q # <<>>, NEW low \in Nat, NEW high \in Nat,
         Rising(q, low, high)
  PROVE  /\ Head(q) \in Runs /\ Reading(Head(q)) \in Nat
         /\ low <= Reading(Head(q)) /\ Reading(Head(q)) <= high
         /\ Rising(q, Reading(Head(q)), high)
<1>1. Len(q) \in Nat /\ Len(q) > 0 /\ Head(q) = q[1] /\ Head(q) \in Runs
  BY LenProperties, EmptySeq, HeadTailProperties
<1>2. 1 \in 1 .. Len(q) /\ \A i \in 1 .. Len(q) : 1 <= i
  BY <1>1
<1>3. Reading(Head(q)) \in Nat
  BY <1>1, ReadingType
<1> QED BY <1>1, <1>2, <1>3 DEF Rising

-----------------------------------------------------------------------------
(* Costs.                                                                    *)

Earned == [tariff : Tariffs, units : Nat, charged : Nat, last : Nat]
Costs  == Earned \cup {NoCost}

LEMMA NoCostUnearned == NoCost \notin Earned
  BY DEF NoCost, Earned, Absent

\* The cost of the first report.
LEMMA CostStartEarned ==
  ASSUME NEW t \in Tariffs, NEW r \in Runs
  PROVE  /\ CostStart(t, r) \in Earned
         /\ CostStart(t, r).units = 0 /\ CostStart(t, r).last = Reading(r)
<1>1. Reading(r) \in Nat /\ t.fee \in Nat
  BY ReadingType, CostAssumption
<1> HIDE DEF Reading
<1> QED BY <1>1 DEF CostStart, Earned

\* Each later one adds to it.
LEMMA CostAdvanceEarned ==
  ASSUME NEW c \in Earned, NEW t \in Tariffs, NEW r \in Runs
  PROVE  LET d == CostAdvance(c, t, r) IN
         /\ d \in Earned /\ d.charged >= c.charged /\ d.last = Reading(r)
         /\ c.last <= Reading(r) /\ c.units <= c.last => d.units <= d.last
<1> DEFINE R == Reading(r)
           used == IF R > c.last THEN R - c.last ELSE 0
           more == t.price * used
           d == CostAdvance(c, t, r)
<1>1. R \in Nat /\ t.price \in Nat
  BY ReadingType, CostAssumption
<1>2. c.last \in Nat /\ c.units \in Nat /\ c.charged \in Nat
  BY DEF Earned
<1>3. d = [tariff |-> t, units |-> c.units + used, charged |-> c.charged + more,
           last |-> R]
  BY DEF CostAdvance
<1> HIDE DEF R, d
<1>4. used \in Nat
  BY <1>1, <1>2
<1>5. c.last <= R => used = R - c.last
  BY <1>1, <1>2
<1> HIDE DEF used
<1>6. more \in Nat
  <2>1. \A a, b \in Nat : a * b \in Nat
    OBVIOUS
  <2> QED BY <1>1, <1>4, <2>1
<1> HIDE DEF more
<1>7. /\ c.units + used \in Nat /\ c.charged + more \in Nat
      /\ c.charged + more >= c.charged
      /\ c.last <= R /\ c.units <= c.last => c.units + used <= R
  BY <1>1, <1>2, <1>4, <1>5, <1>6
<1>8. /\ d \in Earned /\ d.charged >= c.charged /\ d.last = R
      /\ c.last <= R /\ c.units <= c.last => d.units <= d.last
  BY <1>1, <1>3, <1>7 DEF Earned
<1> QED BY <1>8 DEF d, R

-----------------------------------------------------------------------------
(* The inductive invariant of the session's costs.                           *)

CostTypes ==
    /\ store \in Seq(Installs)
    /\ session \in Runs /\ driver \in Tariffs \cup {NoTariff} /\ cost \in Costs
    /\ meter \in MeterAtBoot .. MaxMeter /\ day \in 0 .. LastDay /\ sessions \in Nat
    /\ reports \in Seq(Runs)
    /\ reporter \in [pc : {"idle", "priced", "sent", "revoke"},
                     report : Runs, cost : Costs]
    /\ reporter.pc \in {"priced", "sent"} => reports # <<>>
    /\ request.kind = "set" => request.scope \in TariffScopes /\ request.t \in Tariffs
    /\ request.kind = "assign" => request.t \in Tariffs

\* A cost and a tariff of its own are those of a session that runs.
CostIsTheSessions ==
    /\ session.id \in Absent .. sessions - 1
    /\ session.id = Absent <=> session = NoSession
    /\ session = NoSession => driver = NoTariff /\ cost = NoCost /\ told = Absent

\* A total on its way to the actor has no less on it than the one it replaces.
PricedKeeps ==
    reporter.pc = "priced" =>
        /\ reporter.cost \in Earned
        /\ cost # NoCost => reporter.cost.charged >= cost.charged

Low  == IF cost = NoCost THEN 0 ELSE cost.last
High == IF session = NoSession THEN meter ELSE Reading(session)

\* As long as only one session has run, the readings not delivered yet rise
\* from the one last billed, and each total is within the reading it is of.
FirstBill ==
    sessions <= 1 =>
        /\ sessions = 0 => reports = <<>>
        /\ Rising(reports, Low, High)
        /\ session # NoSession => Reading(session) <= meter
        /\ cost # NoCost => cost.units <= cost.last /\ cost.last <= High
        /\ reporter.pc = "priced" =>
              /\ reporter.cost.units <= reporter.cost.last
              /\ reporter.cost.last = Reading(Head(reports))

CostInv ==
    /\ CostTypes /\ CostIsTheSessions /\ Unambiguous(store) /\ PricedKeeps
    /\ FirstBill

LEMMA CostConstants ==
    /\ MeterAtBoot \in Nat /\ MaxMeter \in Nat /\ MeterAtBoot <= MaxMeter
    /\ LastDay \in Nat /\ MaxTariffs \in Nat
  BY CostAssumption

LEMMA CostInvInit ==
  ASSUME CostInit
  PROVE  CostInv
<1> USE DEF CostInit
<1>1. <<>> \in Seq(Installs) /\ <<>> \in Seq(Runs) /\ Len(<<>>) = 0
  BY EmptySeq
<1>2. NoSession \in Runs /\ NoCost \in Costs /\ NoCost \notin Earned
  BY NoSessionType, NoCostUnearned DEF Costs
<1>3. reporter \in [pc : {"idle", "priced", "sent", "revoke"},
                    report : Runs, cost : Costs]
      /\ reporter.pc = "idle"
  BY <1>2 DEF ReporterIdle
<1>4. request.kind = "none"
  BY DEF NoRequest
<1>5. CostTypes
  BY <1>1, <1>2, <1>3, <1>4, CostConstants DEF CostTypes
<1>6. CostIsTheSessions
  <2>1. session.id = Absent /\ Absent \in Absent .. sessions - 1
    BY DEF NoSession, Absent
  <2> QED BY <2>1 DEF CostIsTheSessions
<1>7. Unambiguous(store)
  BY <1>1, CostConstants DEF Unambiguous
<1>8. PricedKeeps
  BY <1>3 DEF PricedKeeps
<1>9. FirstBill
  BY <1>1, <1>3 DEF FirstBill, Rising
<1> QED BY <1>5, <1>6, <1>7, <1>8, <1>9 DEF CostInv

\* What does not touch the sessions, their reports and their costs.
billVars == <<session, cost, meter, sessions, reports, reporter>>

LEMMA BillFrame ==
  ASSUME PricedKeeps, FirstBill, UNCHANGED billVars
  PROVE  PricedKeeps' /\ FirstBill'
  BY DEF PricedKeeps, FirstBill, Rising, Reading, Low, High, billVars

LEMMA BeginSessionStep ==
  ASSUME CostInv, BeginSession
  PROVE  CostInv'
<1> USE DEF CostInv
<1>1. /\ session = NoSession /\ sessions' = sessions + 1
      /\ session' = [id |-> sessions, energy |-> Absent, began |-> meter]
      /\ reports' = Append(reports, session')
      /\ driver' = NoTariff /\ cost' = NoCost /\ told' = Absent
      /\ UNCHANGED <<store, meter, day, reporter, request>>
  BY DEF BeginSession, Fresh
<1>2. session' \in Runs /\ session'.id = sessions /\ Reading(session') = 0
      /\ sessions \in Nat /\ meter \in Nat
  BY <1>1, CostConstants DEF CostTypes, Runs, Absent, Reading
<1>3. session' # NoSession
  BY <1>2 DEF NoSession, Absent
<1>4. reports' \in Seq(Runs) /\ reports' # <<>>
  BY <1>1, <1>2, AppendProperties DEF CostTypes
<1>5. CostTypes'
  BY <1>1, <1>2, <1>4 DEF CostTypes, Costs
<1>6. CostIsTheSessions'
  BY <1>1, <1>2, <1>3 DEF CostIsTheSessions, Absent
<1>7. Unambiguous(store)'
  BY <1>1 DEF Unambiguous
<1>8. PricedKeeps'
  BY <1>1 DEF PricedKeeps
<1>9. FirstBill'
  <2> SUFFICES ASSUME sessions' <= 1 PROVE FirstBill'
    BY DEF FirstBill
  <2>1. sessions = 0 /\ reports = <<>>
    BY <1>1, <1>2 DEF FirstBill
  <2>2. reporter.pc # "priced"
    BY <2>1 DEF CostTypes
  <2>3. Rising(reports, 0, 0)
    BY <2>1, EmptySeq DEF Rising
  <2>4. Rising(reports', 0, 0)
    <3>1. reports \in Seq(Runs) /\ 0 \in Nat /\ 0 <= 0
      BY DEF CostTypes
    <3>2. session' \in Runs /\ 0 <= Reading(session') /\ Reading(session') <= 0
      BY <1>2
    <3> QED BY <1>1, <2>3, <3>1, <3>2, RisingAppend
  <2>5. Low' = 0 /\ High' = 0
    BY <1>1, <1>2, <1>3 DEF Low, High
  <2>6. Rising(reports, Low, High)'
    BY <2>4, <2>5 DEF Rising, Reading
  <2>7. sessions' # 0 /\ Reading(session') <= meter'
    BY <1>1, <1>2
  <2>8. reporter'.pc # "priced"
    BY <1>1, <2>2
  <2> QED BY <1>1, <2>6, <2>7, <2>8 DEF FirstBill
<1> QED BY <1>5, <1>6, <1>7, <1>8, <1>9

LEMMA SampleMeterStep ==
  ASSUME CostInv, SampleMeter
  PROVE  CostInv'
<1> USE DEF CostInv
<1>1. /\ session # NoSession /\ meter < MaxMeter /\ meter' = meter + 1
      /\ session' = [session EXCEPT !.energy = meter + 1]
      /\ reports' = Append(reports, session')
      /\ UNCHANGED <<store, driver, cost, told, day, sessions, reporter, request>>
  BY DEF SampleMeter
<1>2. meter \in Nat /\ meter' \in Nat /\ meter' \in MeterAtBoot .. MaxMeter
  BY <1>1, CostConstants DEF CostTypes
<1>3. session' \in Runs /\ session'.id = session.id /\ Reading(session') = meter + 1
  <2>1. session \in [id : Int, energy : Nat \cup {Absent}, began : Nat]
    BY DEF CostTypes, Runs
  <2>2. /\ session' \in Runs /\ session'.id = session.id
        /\ session'.energy = meter + 1
    BY <1>1, <1>2, <2>1 DEF Runs
  <2>3. meter + 1 # Absent
    BY <1>2 DEF Absent
  <2> QED BY <2>2, <2>3 DEF Reading
<1>4. session' # NoSession
  BY <1>1, <1>3 DEF CostIsTheSessions, NoSession
<1>5. reports' \in Seq(Runs) /\ reports' # <<>>
  BY <1>1, <1>3, AppendProperties DEF CostTypes
<1>6. CostTypes'
  BY <1>1, <1>2, <1>3, <1>5 DEF CostTypes
<1>7. CostIsTheSessions'
  BY <1>1, <1>3, <1>4 DEF CostIsTheSessions
<1>8. Unambiguous(store)' /\ PricedKeeps'
  BY <1>1 DEF Unambiguous, PricedKeeps
<1>9. FirstBill'
  <2> SUFFICES ASSUME sessions' <= 1 PROVE FirstBill'
    BY DEF FirstBill
  <2>1. /\ sessions # 0
        /\ sessions <= 1
        /\ Rising(reports, Low, High)
        /\ Reading(session) <= meter /\ High = Reading(session)
        /\ cost # NoCost => cost.units <= cost.last /\ cost.last <= High
    <3>1. sessions # 0
      BY <1>1 DEF CostIsTheSessions, Absent
    <3> QED BY <1>1, <3>1 DEF FirstBill, High
  <2>2. Low \in Nat /\ High \in Nat /\ Low' = Low /\ Low <= High
    BY <1>1, <2>1, ReadingType DEF Low, Costs, Earned, CostTypes
  <2>3. High' = meter + 1
    BY <1>3, <1>4 DEF High
  <2>4. Rising(reports', Low, meter + 1)
    <3>1. Low <= meter + 1 /\ High <= meter + 1
      BY <1>2, <2>1, <2>2
    <3> QED BY <1>1, <1>2, <1>3, <2>1, <2>2, <3>1, RisingAppend DEF CostTypes
  <2>5. Rising(reports, Low, High)'
    BY <2>2, <2>3, <2>4 DEF Rising, Reading
  <2>6. Head(reports') = Head(reports) \/ reporter.pc # "priced"
    BY <1>1, <1>3, AppendProperties, HeadTailProperties DEF CostTypes
  <2>7. reporter'.pc = "priced" =>
              /\ reporter'.cost.units <= reporter'.cost.last
              /\ reporter'.cost.last = Reading(Head(reports'))
    BY <1>1, <2>1, <2>6 DEF FirstBill
  <2>8. cost' # NoCost => cost'.units <= cost'.last /\ cost'.last <= High'
    BY <1>1, <1>2, <2>1, <2>2, <2>3 DEF Costs, Earned, CostTypes
  <2>9. Reading(session') <= meter'
    BY <1>1, <1>2, <1>3
  <2>10. sessions' # 0
    BY <1>1, <2>1
  <2> QED BY <2>5, <2>7, <2>8, <2>9, <2>10 DEF FirstBill, Reading
<1> QED BY <1>6, <1>7, <1>8, <1>9

\* The session ends, on its own or because the CSMS refused its identifier.
LEMMA FinishSessionStep ==
  ASSUME CostInv, FinishSession,
         UNCHANGED <<store, meter, day, sessions, request>>,
         reporter' = reporter \/ (reporter.pc = "revoke" /\ reporter' = ReporterIdle)
  PROVE  CostInv'
<1> USE DEF CostInv
<1>1. /\ session # NoSession /\ session' = NoSession
      /\ reports' = Append(reports, session)
      /\ driver' = NoTariff /\ cost' = NoCost /\ told' = Absent
      /\ UNCHANGED <<store, meter, day, sessions, request>>
  BY DEF FinishSession, Fresh
<1>2. /\ session \in Runs /\ reports \in Seq(Runs)
      /\ meter \in Nat /\ sessions \in Nat
  BY CostConstants DEF CostTypes
<1>3. reports' \in Seq(Runs) /\ reports' # <<>>
  BY <1>1, <1>2, AppendProperties
<1>4. /\ reporter' \in [pc : {"idle", "priced", "sent", "revoke"},
                        report : Runs, cost : Costs]
      /\ reporter'.pc = "priced" => reporter' = reporter
  <2>1. /\ ReporterIdle \in [pc : {"idle", "priced", "sent", "revoke"},
                             report : Runs, cost : Costs]
        /\ ReporterIdle.pc = "idle"
    BY NoSessionType DEF ReporterIdle, Costs
  <2> QED BY <2>1 DEF CostTypes
<1>5. CostTypes'
  BY <1>1, <1>3, <1>4, NoSessionType DEF CostTypes, Costs
<1>6. CostIsTheSessions'
  <2>1. NoSession.id = Absent
    BY DEF NoSession
  <2>2. Absent \in Absent .. sessions - 1
    BY <1>2 DEF Absent
  <2> QED BY <1>1, <2>1, <2>2 DEF CostIsTheSessions
<1>7. Unambiguous(store)'
  BY <1>1 DEF Unambiguous
<1>8. PricedKeeps'
  BY <1>1, <1>4 DEF PricedKeeps
<1>9. FirstBill'
  <2> SUFFICES ASSUME sessions' <= 1 PROVE FirstBill'
    BY DEF FirstBill
  <2>1. /\ sessions # 0
        /\ Rising(reports, Low, High)
        /\ Reading(session) <= meter /\ High = Reading(session)
        /\ cost # NoCost => cost.last <= High
    <3>1. sessions # 0
      BY <1>1 DEF CostIsTheSessions, Absent
    <3> QED BY <1>1, <3>1 DEF FirstBill, High
  <2>2. Low \in Nat /\ High \in Nat /\ Reading(session) \in Nat
    BY <1>2, <2>1, ReadingType DEF Low, Costs, Earned, CostTypes
  <2>3. 0 \in Nat /\ 0 <= Low /\ 0 <= Reading(session) /\ High <= Reading(session)
    BY <2>1, <2>2
  <2>4. Rising(reports', 0, meter)
    BY <1>1, <1>2, <2>1, <2>2, <2>3, RisingAppend
  <2>5. Low' = 0 /\ High' = meter
    BY <1>1 DEF Low, High
  <2>6. Rising(reports, Low, High)'
    BY <2>4, <2>5 DEF Rising, Reading
  <2>7. reporter'.pc = "priced" =>
              /\ reporter'.cost.units <= reporter'.cost.last
              /\ reporter'.cost.last = Reading(Head(reports'))
    <3>1. reporter'.pc = "priced" => reports # <<>>
      BY <1>4 DEF CostTypes
    <3>2. reports # <<>> => Head(reports') = Head(reports)
      BY <1>1, <1>2, AppendProperties, HeadTailProperties
    <3> QED BY <1>1, <1>4, <3>1, <3>2 DEF FirstBill
  <2> QED BY <1>1, <2>1, <2>6, <2>7 DEF FirstBill, Reading
<1> QED BY <1>5, <1>6, <1>7, <1>8, <1>9

\* What is asked of the actor is typed.
LEMMA AskStep ==
  ASSUME CostInv, NEW r, Ask(r),
         r.kind = "set" => r.scope \in TariffScopes /\ r.t \in Tariffs,
         r.kind = "assign" => r.t \in Tariffs
  PROVE  CostInv'
<1> USE DEF CostInv
<1>1. /\ request' = r
      /\ UNCHANGED <<store, session, driver, cost, told, meter, day, sessions,
                     reports, reporter>>
  BY DEF Ask
<1>2. CostTypes'
  BY <1>1 DEF CostTypes
<1>3. CostIsTheSessions' /\ Unambiguous(store)'
  BY <1>1 DEF CostIsTheSessions, Unambiguous
<1>4. PricedKeeps' /\ FirstBill'
  BY <1>1, BillFrame DEF billVars
<1> QED BY <1>2, <1>3, <1>4

LEMMA ApplyRequestStep ==
  ASSUME CostInv, ApplyRequest
  PROVE  CostInv'
<1> USE DEF CostInv
<1>1. /\ request' = NoRequest
      /\ UNCHANGED <<session, cost, meter, day, sessions, reports, reporter>>
  BY DEF ApplyRequest
<1>2. NoRequest.kind = "none"
  BY DEF NoRequest
<1>3. store' \in Seq(Installs) /\ Unambiguous(store')
  <2>1. store \in Seq(Installs) /\ Unambiguous(store)
    BY DEF CostTypes
  <2>2. CASE request.kind = "set" /\ Takes(request.scope, request.t)
    <3>1. store' = SetDefault(request.scope, request.t)
      BY <2>2 DEF ApplyRequest
    <3>2. request.scope \in TariffScopes /\ request.t \in Tariffs
      BY <2>2 DEF CostTypes
    <3> QED BY <2>1, <2>2, <3>1, <3>2, SetDefaultUnambiguous
  <2>3. CASE request.kind = "clear"
    <3> DEFINE gone == {x \in Range(store) : x.t.id \in request.ids}
    <3>1. store' = Retained(gone)
      BY <2>3 DEF ApplyRequest
    <3> HIDE DEF gone
    <3>2. Left(Retained(gone), gone, Len(store))
      BY <2>1, RetainedLeft
    <3> QED BY <2>1, <3>1, <3>2, LeftUnambiguous
  <2>4. CASE /\ request.kind # "clear"
             /\ ~(request.kind = "set" /\ Takes(request.scope, request.t))
    <3>1. store' = store
      BY <2>4 DEF ApplyRequest
    <3> QED BY <2>1, <3>1
  <2> QED BY <2>2, <2>3, <2>4
<1>4. /\ driver' \in Tariffs \cup {NoTariff}
      /\ session = NoSession => driver' = driver /\ told' = told
  BY DEF CostTypes, ApplyRequest
<1>5. CostTypes'
  BY <1>1, <1>2, <1>3, <1>4 DEF CostTypes
<1>6. CostIsTheSessions'
  BY <1>1, <1>4 DEF CostIsTheSessions
<1>7. Unambiguous(store)'
  BY <1>3 DEF Unambiguous
<1>8. PricedKeeps' /\ FirstBill'
  BY <1>1, BillFrame DEF billVars
<1> QED BY <1>5, <1>6, <1>7, <1>8

LEMMA NextDayStep ==
  ASSUME CostInv, NextDay
  PROVE  CostInv'
<1> USE DEF CostInv
<1>1. /\ day < LastDay /\ day' = day + 1
      /\ UNCHANGED <<store, session, driver, cost, told, meter, sessions, reports,
                     reporter, request>>
  BY DEF NextDay
<1>2. day' \in 0 .. LastDay
  BY <1>1, CostConstants DEF CostTypes
<1>3. CostTypes'
  BY <1>1, <1>2 DEF CostTypes
<1>4. CostIsTheSessions' /\ Unambiguous(store)'
  BY <1>1 DEF CostIsTheSessions, Unambiguous
<1>5. PricedKeeps' /\ FirstBill'
  BY <1>1, BillFrame DEF billVars
<1> QED BY <1>3, <1>4, <1>5

\* A tariff that applies is one the CSMS installed.
LEMMA EffectiveTariffType ==
  ASSUME CostTypes
  PROVE  EffectiveTariff \in Tariffs \cup {NoTariff}
<1>1. store \in Seq(Installs) /\ day \in Nat
  BY CostConstants DEF CostTypes
<1>2. /\ EffectiveFor("evse") \in Tariffs \cup {NoTariff}
      /\ EffectiveFor("chargePoint") \in Tariffs \cup {NoTariff}
  BY <1>1, EffectiveForType
<1>3. driver \in Tariffs \cup {NoTariff}
  BY DEF CostTypes
<1> HIDE DEF EffectiveFor
<1>4. CASE driver # NoTariff
  BY <1>3, <1>4 DEF EffectiveTariff
<1>5. CASE driver = NoTariff
  BY <1>2, <1>5 DEF EffectiveTariff
<1> QED BY <1>4, <1>5

LEMMA PriceStep ==
  ASSUME CostInv, Price
  PROVE  CostInv'
<1> USE DEF CostInv
<1> DEFINE r == Head(reports)
           t == EffectiveTariff
           c == IF cost = NoCost THEN CostStart(t, r) ELSE CostAdvance(cost, t, r)
<1>1. /\ reports # <<>>
      /\ UNCHANGED <<store, session, driver, cost, told, meter, day, sessions,
                     reports, request>>
  BY DEF Price
<1>2. reporter' = IF t = NoTariff
                  THEN [ReporterIdle EXCEPT !.pc = "sent", !.report = r]
                  ELSE [ReporterIdle EXCEPT !.pc = "priced", !.report = r, !.cost = c]
  BY DEF Price
<1>3. t \in Tariffs \cup {NoTariff} /\ r \in Runs
  BY <1>1, EffectiveTariffType, HeadTailProperties DEF CostTypes
<1> HIDE DEF t, r
<1>4. ASSUME t # NoTariff
      PROVE  /\ c \in Earned /\ c.last = Reading(r)
             /\ cost = NoCost => c.units <= c.last
             /\ cost # NoCost =>
                   /\ c.charged >= cost.charged
                   /\ cost.last <= Reading(r) /\ cost.units <= cost.last
                         => c.units <= c.last
  <2>1. t \in Tariffs
    BY <1>3, <1>4
  <2>2. CASE cost = NoCost
    <3>1. c = CostStart(t, r)
      BY <2>2
    <3>2. c \in Earned /\ c.units = 0 /\ c.last = Reading(r) /\ Reading(r) \in Nat
      BY <1>3, <2>1, <3>1, CostStartEarned, ReadingType
    <3> HIDE DEF c
    <3>3. c.units <= c.last
      BY <3>2
    <3> QED BY <2>2, <3>2, <3>3
  <2>3. CASE cost # NoCost
    <3>1. c = CostAdvance(cost, t, r) /\ cost \in Earned
      BY <2>3 DEF CostTypes, Costs
    <3> HIDE DEF c
    <3> QED BY <1>3, <2>1, <2>3, <3>1, CostAdvanceEarned
  <2> QED BY <2>2, <2>3
<1> HIDE DEF c
<1>5. /\ reporter' \in [pc : {"idle", "priced", "sent", "revoke"},
                        report : Runs, cost : Costs]
      /\ reporter'.pc = "priced" => t # NoTariff /\ reporter'.cost = c
  <2>1. CASE t = NoTariff
    BY <1>2, <1>3, <2>1 DEF ReporterIdle, Costs
  <2>2. CASE t # NoTariff
    BY <1>2, <1>3, <1>4, <2>2 DEF ReporterIdle, Costs
  <2> QED BY <2>1, <2>2
<1>6. CostTypes'
  BY <1>1, <1>5 DEF CostTypes
<1>7. CostIsTheSessions' /\ Unambiguous(store)'
  BY <1>1 DEF CostIsTheSessions, Unambiguous
<1>8. PricedKeeps'
  BY <1>1, <1>4, <1>5 DEF PricedKeeps
<1>9. FirstBill'
  <2> SUFFICES ASSUME sessions' <= 1 PROVE FirstBill'
    BY DEF FirstBill
  <2>1. /\ sessions = 0 => reports = <<>>
        /\ Rising(reports, Low, High)
        /\ session # NoSession => Reading(session) <= meter
        /\ cost # NoCost => cost.units <= cost.last /\ cost.last <= High
    BY <1>1 DEF FirstBill
  <2>2. Rising(reports, Low, High)' /\ Low' = Low /\ High' = High
    BY <1>1, <2>1 DEF Rising, Reading, Low, High
  <2>3. ASSUME reporter'.pc = "priced"
        PROVE  /\ reporter'.cost.units <= reporter'.cost.last
               /\ reporter'.cost.last = Reading(Head(reports'))
    <3>1. t # NoTariff /\ reporter'.cost = c /\ Head(reports') = r
      BY <1>1, <1>5, <2>3 DEF r
    <3>2. cost # NoCost => cost.last <= Reading(r)
      <4>1. reports \in Seq(Runs) /\ Len(reports) \in Nat /\ Len(reports) # 0
        BY <1>1, LenProperties, EmptySeq DEF CostTypes
      <4>2. 1 \in 1 .. Len(reports) /\ r = reports[1]
        BY <1>1, <4>1, HeadTailProperties DEF r
      <4>3. Low <= Reading(r)
        BY <2>1, <4>2 DEF Rising
      <4> QED BY <4>3 DEF Low
    <3> QED BY <1>4, <2>1, <3>1, <3>2
  <2> QED BY <1>1, <2>1, <2>2, <2>3 DEF FirstBill, Reading
<1> QED BY <1>6, <1>7, <1>8, <1>9

LEMMA RecordCostStep ==
  ASSUME CostInv, RecordCost
  PROVE  CostInv'
<1> USE DEF CostInv
<1>1. /\ reporter.pc = "priced"
      /\ reporter' = [reporter EXCEPT !.pc = "sent"]
      /\ cost' = IF session # NoSession THEN reporter.cost ELSE cost
      /\ UNCHANGED <<store, session, driver, told, meter, day, sessions, reports,
                     request>>
  BY DEF RecordCost
<1>2. /\ reporter' \in [pc : {"idle", "priced", "sent", "revoke"},
                        report : Runs, cost : Costs]
      /\ reporter'.pc = "sent"
  BY <1>1 DEF CostTypes
<1>3. reporter.cost \in Earned /\ reports # <<>>
  BY <1>1 DEF PricedKeeps, CostTypes
<1>4. CostTypes'
  BY <1>1, <1>2, <1>3 DEF CostTypes, Costs
<1>5. CostIsTheSessions'
  BY <1>1 DEF CostIsTheSessions
<1>6. Unambiguous(store)'
  BY <1>1 DEF Unambiguous
<1>7. PricedKeeps'
  BY <1>2 DEF PricedKeeps
<1>8. FirstBill'
  <2> SUFFICES ASSUME sessions' <= 1 PROVE FirstBill'
    BY DEF FirstBill
  <2>1. /\ sessions = 0 => reports = <<>>
        /\ Rising(reports, Low, High)
        /\ session # NoSession => Reading(session) <= meter
        /\ cost # NoCost => cost.units <= cost.last /\ cost.last <= High
        /\ reporter.cost.units <= reporter.cost.last
        /\ reporter.cost.last = Reading(Head(reports))
    BY <1>1 DEF FirstBill
  <2>2. High' = High /\ reporter'.pc # "priced" /\ Reading(session') = Reading(session)
    BY <1>1, <1>2 DEF High, Reading
  <2>3. CASE session = NoSession
    <3>1. cost' = cost
      BY <1>1, <2>3
    <3>2. Rising(reports, Low, High)'
      BY <1>1, <2>1, <2>2, <3>1 DEF Rising, Reading, Low
    <3> QED BY <1>1, <2>1, <2>2, <3>1, <3>2 DEF FirstBill
  <2>4. CASE session # NoSession
    <3>1. cost' = reporter.cost /\ cost' # NoCost
      BY <1>1, <1>3, <2>4, NoCostUnearned
    <3>2. Low \in Nat /\ High \in Nat /\ reports \in Seq(Runs)
      BY <2>4, ReadingType DEF Low, High, Costs, Earned, CostTypes
    <3>3. Reading(Head(reports)) <= High /\ Rising(reports, Reading(Head(reports)), High)
      BY <1>3, <2>1, <3>2, RisingFront
    <3>4. Low' = Reading(Head(reports))
      BY <2>1, <3>1 DEF Low
    <3>5. Rising(reports, Low, High)'
      BY <1>1, <2>2, <3>3, <3>4 DEF Rising, Reading
    <3>6. cost'.units <= cost'.last /\ cost'.last <= High'
      BY <2>1, <2>2, <3>1, <3>3
    <3> QED BY <1>1, <2>1, <2>2, <3>5, <3>6 DEF FirstBill
  <2> QED BY <2>3, <2>4
<1> QED BY <1>4, <1>5, <1>6, <1>7, <1>8

\* The reporter lets go of a report, which then is delivered or not.
LEMMA ReporterStep ==
  ASSUME CostInv,
         UNCHANGED <<store, session, driver, cost, told, meter, day, sessions, request>>,
         \/ SendFails
         \/ \E rejected \in BOOLEAN : Answered(rejected)
         \/ reporter' = ReporterIdle /\ reports' = reports
  PROVE  CostInv'
<1> USE DEF CostInv
<1>1. /\ ReporterIdle \in [pc : {"idle", "priced", "sent", "revoke"},
                           report : Runs, cost : Costs]
      /\ ReporterIdle.pc = "idle"
  BY NoSessionType DEF ReporterIdle, Costs
<1>2. /\ reporter' \in [pc : {"idle", "priced", "sent", "revoke"},
                        report : Runs, cost : Costs]
      /\ reporter'.pc \in {"idle", "revoke"}
  <2>1. CASE reporter' = ReporterIdle
    BY <1>1, <2>1
  <2>2. CASE reporter' = [reporter EXCEPT !.pc = "revoke"]
    BY <2>2 DEF CostTypes
  <2> QED BY <2>1, <2>2 DEF SendFails, Answered
<1>3. reports' = reports \/ (reports # <<>> /\ reports' = Tail(reports))
  BY DEF SendFails, Answered, CostTypes
<1>4. reports' \in Seq(Runs)
  BY <1>3, RisingTail, HeadTailProperties DEF CostTypes
<1>5. CostTypes'
  BY <1>2, <1>4 DEF CostTypes
<1>6. CostIsTheSessions' /\ Unambiguous(store)'
  BY DEF CostIsTheSessions, Unambiguous
<1>7. PricedKeeps'
  BY <1>2 DEF PricedKeeps
<1>8. FirstBill'
  <2> SUFFICES ASSUME sessions' <= 1 PROVE FirstBill'
    BY DEF FirstBill
  <2>1. /\ sessions = 0 => reports = <<>>
        /\ Rising(reports, Low, High)
        /\ session # NoSession => Reading(session) <= meter
        /\ cost # NoCost => cost.units <= cost.last /\ cost.last <= High
    BY DEF FirstBill
  <2>2. Low' = Low /\ High' = High /\ Reading(session') = Reading(session)
    BY DEF Low, High, Reading
  <2>3. Rising(reports', Low, High)
    BY <1>3, <2>1, RisingTail DEF CostTypes
  <2>4. Rising(reports, Low, High)'
    BY <2>2, <2>3 DEF Rising, Reading
  <2>5. sessions' = 0 => reports' = <<>>
    BY <1>3, <2>1
  <2> QED BY <1>2, <2>1, <2>2, <2>4, <2>5 DEF FirstBill
<1> QED BY <1>5, <1>6, <1>7, <1>8

LEMMA CostInvStep ==
  ASSUME CostInv, [CostNext]_costVars
  PROVE  CostInv'
<1>1. CASE BeginSession
  BY <1>1, BeginSessionStep
<1>2. CASE SampleMeter
  BY <1>2, SampleMeterStep
<1>3. CASE EndSession
  <2>1. FinishSession /\ UNCHANGED <<store, meter, day, sessions, request, reporter>>
    BY <1>3 DEF EndSession
  <2> QED BY <2>1, FinishSessionStep
<1>4. CASE NextDay
  BY <1>4, NextDayStep
<1>5. CASE HandleSetDefaultTariff
  <2>1. PICK scope \in TariffScopes, t \in Tariffs :
           Ask([kind |-> "set", scope |-> scope, t |-> t])
    BY <1>5 DEF HandleSetDefaultTariff
  <2> QED BY <2>1, AskStep
<1>6. CASE HandleClearTariffs
  <2>1. PICK ids : Ask([kind |-> "clear", ids |-> ids])
    BY <1>6 DEF HandleClearTariffs
  <2> QED BY <2>1, AskStep
<1>7. CASE HandleChangeTransactionTariff
  <2>1. PICK t \in Tariffs : Ask([kind |-> "assign", t |-> t, for |-> session.id])
    BY <1>7 DEF HandleChangeTransactionTariff
  <2> QED BY <2>1, AskStep
<1>8. CASE HandleCostUpdated
  <2>1. Ask([kind |-> "told", for |-> session.id])
    BY <1>8 DEF HandleCostUpdated
  <2> QED BY <2>1, AskStep
<1>9. CASE ApplyRequest
  BY <1>9, ApplyRequestStep
<1>10. CASE Price
  BY <1>10, PriceStep
<1>11. CASE RecordCost
  BY <1>11, RecordCostStep
<1>12. CASE SendFails
  BY <1>12, ReporterStep DEF SendFails
<1>13. CASE \E rejected \in BOOLEAN : Answered(rejected)
  BY <1>13, ReporterStep DEF Answered
<1>14. CASE Revoke
  <2>1. CASE FinishSession
    BY <1>14, <2>1, FinishSessionStep DEF Revoke
  <2>2. CASE session = NoSession /\ UNCHANGED <<session, reports, driver, cost, told>>
    BY <1>14, <2>2, ReporterStep DEF Revoke
  <2> QED BY <1>14, <2>1, <2>2 DEF Revoke
<1>15. CASE UNCHANGED costVars
  <2>1. CostTypes' /\ CostIsTheSessions' /\ Unambiguous(store)'
    BY <1>15 DEF CostInv, CostTypes, CostIsTheSessions, Unambiguous, costVars
  <2>2. PricedKeeps' /\ FirstBill'
    BY <1>15, BillFrame DEF CostInv, billVars, costVars
  <2> QED BY <2>1, <2>2 DEF CostInv
<1> QED
  BY <1>1, <1>2, <1>3, <1>4, <1>5, <1>6, <1>7, <1>8, <1>9, <1>10, <1>11, <1>12,
     <1>13, <1>14, <1>15 DEF CostNext

-----------------------------------------------------------------------------
(* What the invariant gives.                                                 *)

LEMMA CostInvImplies ==
  ASSUME CostInv
  PROVE  CostTypeOK /\ StoreIsUnambiguous /\ BilledOnce
<1> USE DEF CostInv
<1>1. DOMAIN store = 1 .. Len(store)
  BY LenProperties DEF CostTypes
<1>2. \A i \in DOMAIN store : store[i] \in Installs
  BY <1>1, ElementOfSeq DEF CostTypes
<1>3. cost # NoCost => cost.units \in Nat /\ cost.charged \in Nat /\ cost.last \in Nat
  BY DEF CostTypes, Costs, Earned
<1>4. reporter.pc \in {"idle", "priced", "sent", "revoke"}
  BY DEF CostTypes
<1>5. CostTypeOK
  BY <1>2, <1>3, <1>4 DEF CostTypeOK, CostTypes, CostIsTheSessions, Installs
<1>6. StoreIsUnambiguous
  BY <1>1 DEF Unambiguous, StoreIsUnambiguous
<1>7. BilledOnce
  <2> SUFFICES ASSUME sessions = 1, cost # NoCost PROVE cost.units <= meter
    BY DEF BilledOnce
  <2>1. session # NoSession
    BY DEF CostIsTheSessions
  <2>2. /\ cost.units <= cost.last /\ cost.last <= Reading(session)
        /\ Reading(session) <= meter
    BY <2>1 DEF FirstBill, High
  <2>3. meter \in Nat /\ Reading(session) \in Nat
    BY CostConstants, ReadingType DEF CostTypes
  <2> QED BY <1>3, <2>2, <2>3
<1> QED BY <1>5, <1>6, <1>7

\* A step leaves what the running session was charged or adds to it.
LEMMA EarnedStep ==
  ASSUME CostInv, [CostNext]_costVars,
         session # NoSession, session'.id = session.id, cost # NoCost
  PROVE  cost' # NoCost /\ cost'.charged >= cost.charged
<1> USE DEF CostInv
<1>1. cost.charged \in Nat
  BY DEF CostTypes, Costs, Earned
<1>2. CASE cost' = cost
  BY <1>1, <1>2
<1>3. CASE RecordCost
  BY <1>3, NoCostUnearned DEF RecordCost, PricedKeeps
<1>4. ~FinishSession
  BY DEF FinishSession, CostIsTheSessions, NoSession
<1>5. cost' = cost \/ RecordCost
  BY <1>4 DEF CostNext, BeginSession, SampleMeter, EndSession, NextDay, Ask,
     HandleSetDefaultTariff, HandleClearTariffs, HandleChangeTransactionTariff,
     HandleCostUpdated, ApplyRequest, Price, SendFails, Answered, Revoke, costVars
<1> QED BY <1>2, <1>3, <1>5

-----------------------------------------------------------------------------
(* The inductive invariant of the sweep of time ceilings: nobody it saw is   *)
(* yet to come, and it saw nobody before they began.                         *)

Timings ==
    [id : Int, began : Nat, max : Ceilings \cup {Unset}, elapsed : Int,
     suspended : BOOLEAN]
Sights  == [id : Int, at : Nat]

\* A transaction t, and whom the sweep saw on its connector, f, when b have
\* begun.
SeenInTime(t, f, b, now) ==
    /\ t \in Timings /\ t.id < b /\ t.began <= now
    /\ f \in Sights /\ f.id < b /\ f.at <= now
    /\ f.id = t.id => f.at >= t.began

TimeInv ==
    /\ time \in 0 .. MaxClock /\ begun \in 0 .. MaxTimed
    /\ timed = [c \in TimedConnectors |-> timed[c]]
    /\ firstSeen = [c \in TimedConnectors |-> firstSeen[c]]
    /\ elapsedMsgs \in [TimedConnectors -> Unset .. MaxClock]
    /\ \A c \in TimedConnectors : SeenInTime(timed[c], firstSeen[c], begun, time)

LEMMA VacantUnseen ==
    /\ Vacant \in Timings /\ Vacant.id = Unset /\ Vacant.began = 0
    /\ Unseen \in Sights /\ Unseen.id = Unset /\ Unseen.at = 0
  BY DEF Vacant, Unseen, Timings, Sights, Unset

LEMMA TimeConstants ==
    MaxClock \in Nat /\ MaxTimed \in Nat /\ Unset = -1 /\ Ceilings \subseteq Nat
  BY TimeAssumption DEF Unset

\* Enforce moves the verdict and nothing else.
LEMMA EnforceKeeps ==
  ASSUME NEW t \in Timings
  PROVE  /\ Enforce(t) \in Timings /\ Enforce(t).id = t.id
         /\ Enforce(t).began = t.began
<1> DEFINE v == t.elapsed # Unset /\ t.elapsed >= t.max
<1>1. v \in BOOLEAN
  OBVIOUS
<1>2. Enforce(t) = IF t.max = Unset THEN t ELSE [t EXCEPT !.suspended = v]
  BY DEF Enforce
<1> HIDE DEF v
<1> QED BY <1>1, <1>2 DEF Timings

LEMMA TimeInvInit ==
  ASSUME TimeInit
  PROVE  TimeInv
<1> USE DEF TimeInit
<1>1. \A c \in TimedConnectors : timed[c] = Vacant /\ firstSeen[c] = Unseen
  OBVIOUS
<1>2. SeenInTime(Vacant, Unseen, begun, time)
  <2>1. time = 0 /\ begun = 0 /\ Unset < 0
    BY DEF Unset
  <2> QED BY <2>1, VacantUnseen DEF SeenInTime
<1>3. Unset \in Unset .. MaxClock /\ 0 \in 0 .. MaxClock /\ 0 \in 0 .. MaxTimed
  BY TimeConstants
<1>4. \A c \in TimedConnectors : SeenInTime(timed[c], firstSeen[c], begun, time)
  BY <1>1, <1>2
<1> QED BY <1>3, <1>4 DEF TimeInv

\* One connector's transaction changes, the rest stays.
LEMMA TimedChange ==
  ASSUME TimeInv, NEW c \in TimedConnectors, NEW t,
         timed' = [timed EXCEPT ![c] = t],
         UNCHANGED <<firstSeen, time>>, begun' \in 0 .. MaxTimed, begun <= begun',
         elapsedMsgs' \in [TimedConnectors -> Unset .. MaxClock],
         SeenInTime(t, firstSeen[c], begun', time)
  PROVE  TimeInv'
<1>1. begun \in Nat /\ begun' \in Nat
  BY TimeConstants DEF TimeInv
<1>2. /\ timed'[c] = t
      /\ \A d \in TimedConnectors \ {c} : timed'[d] = timed[d]
      /\ timed' = [d \in TimedConnectors |-> timed'[d]]
  BY DEF TimeInv
<1>3. ASSUME NEW d \in TimedConnectors
      PROVE  SeenInTime(timed'[d], firstSeen'[d], begun', time')
  <2>1. CASE d = c
    BY <1>2, <2>1 DEF SeenInTime
  <2>2. CASE d # c
    <3>1. SeenInTime(timed[d], firstSeen[d], begun, time)
      BY DEF TimeInv
    <3>2. timed[d].id < begun' /\ firstSeen[d].id < begun'
      BY <1>1, <3>1 DEF SeenInTime, Timings, Sights
    <3> QED BY <1>2, <2>2, <3>1, <3>2 DEF SeenInTime
  <2> QED BY <2>1, <2>2
<1> QED BY <1>2, <1>3 DEF TimeInv

LEMMA TimeInvStep ==
  ASSUME TimeInv, [TimeNext]_timeVars
  PROVE  TimeInv'
<1>1. /\ time \in Nat /\ time <= MaxClock /\ begun \in Nat /\ begun <= MaxTimed
      /\ elapsedMsgs \in [TimedConnectors -> Unset .. MaxClock]
  BY TimeConstants DEF TimeInv
<1>2. CASE TimedStart
  <2>1. PICK c \in TimedConnectors :
           timed' = [timed EXCEPT ![c] = [Vacant EXCEPT !.id = begun, !.began = time]]
    BY <1>2 DEF TimedStart
  <2> DEFINE t == [Vacant EXCEPT !.id = begun, !.began = time]
  <2>2. begun' = begun + 1 /\ UNCHANGED <<firstSeen, elapsedMsgs, time>>
        /\ begun' \in 0 .. MaxTimed /\ begun <= begun'
    BY <1>1, <1>2, TimeConstants DEF TimedStart
  <2>3. t \in Timings /\ t.id = begun /\ t.began = time
    <3>1. begun \in Int
      BY <1>1
    <3> QED BY <1>1, <3>1, VacantUnseen DEF Timings
  <2>4. SeenInTime(timed[c], firstSeen[c], begun, time)
    BY DEF TimeInv
  <2>5. firstSeen[c].id \in Int /\ firstSeen[c].id < begun
    BY <2>4 DEF SeenInTime, Sights
  <2> HIDE DEF t
  <2>6. SeenInTime(t, firstSeen[c], begun', time)
    <3>1. /\ t.id < begun' /\ t.began <= time /\ firstSeen[c].id < begun'
          /\ firstSeen[c].id # t.id
      BY <1>1, <2>2, <2>3, <2>5
    <3> QED BY <2>2, <2>3, <2>4, <3>1 DEF SeenInTime
  <2>7. timed' = [timed EXCEPT ![c] = t]
    BY <2>1 DEF t
  <2> QED BY <1>1, <2>2, <2>6, <2>7, TimedChange
<1>3. CASE TimedEnd
  <2>1. PICK c \in TimedConnectors : timed' = [timed EXCEPT ![c] = Vacant]
    BY <1>3 DEF TimedEnd
  <2>2. UNCHANGED <<firstSeen, elapsedMsgs, time, begun>>
        /\ begun' \in 0 .. MaxTimed /\ begun <= begun'
    BY <1>1, <1>3, TimeConstants DEF TimedEnd
  <2>3. SeenInTime(timed[c], firstSeen[c], begun, time) /\ firstSeen[c].at \in Nat
    BY DEF TimeInv, SeenInTime, Sights
  <2>4. Unset < begun /\ 0 <= time /\ firstSeen[c].at >= 0
    BY <1>1, <2>3, TimeConstants
  <2>5. SeenInTime(Vacant, firstSeen[c], begun', time)
    BY <2>2, <2>3, <2>4, VacantUnseen DEF SeenInTime
  <2> QED BY <1>1, <2>1, <2>2, <2>5, TimedChange
<1>4. CASE SetCeiling
  <2>1. PICK c \in TimedConnectors, m \in Ceilings :
           timed' = [timed EXCEPT ![c] = Enforce([@ EXCEPT !.max = m])]
    BY <1>4 DEF SetCeiling
  <2> DEFINE s == [timed[c] EXCEPT !.max = m]
             t == Enforce(s)
  <2>2. UNCHANGED <<firstSeen, elapsedMsgs, time, begun>>
        /\ begun' \in 0 .. MaxTimed /\ begun <= begun'
    BY <1>1, <1>4, TimeConstants DEF SetCeiling
  <2>3. SeenInTime(timed[c], firstSeen[c], begun, time) /\ timed[c] \in Timings
    BY DEF TimeInv, SeenInTime
  <2>4. s \in Timings /\ s.id = timed[c].id /\ s.began = timed[c].began
    BY <2>3 DEF Timings
  <2>5. timed' = [timed EXCEPT ![c] = t]
    BY <2>1 DEF TimeInv
  <2> HIDE DEF s
  <2>6. t \in Timings /\ t.id = timed[c].id /\ t.began = timed[c].began
    BY <2>4, EnforceKeeps
  <2> HIDE DEF t
  <2>7. SeenInTime(t, firstSeen[c], begun', time)
    BY <2>2, <2>3, <2>6 DEF SeenInTime
  <2> QED BY <1>1, <2>2, <2>5, <2>7, TimedChange
<1>5. CASE TimePasses
  <2>1. time' = time + 1 /\ UNCHANGED <<timed, firstSeen, elapsedMsgs, begun>>
        /\ time' \in 0 .. MaxClock
    BY <1>1, <1>5, TimeConstants DEF TimePasses
  <2>2. ASSUME NEW c \in TimedConnectors
        PROVE  SeenInTime(timed'[c], firstSeen'[c], begun', time')
    <3>1. SeenInTime(timed[c], firstSeen[c], begun, time)
      BY DEF TimeInv
    <3>2. timed[c].began \in Nat /\ firstSeen[c].at \in Nat
      BY <3>1 DEF SeenInTime, Timings, Sights
    <3>3. timed[c].began <= time + 1 /\ firstSeen[c].at <= time + 1
      BY <1>1, <3>1, <3>2 DEF SeenInTime
    <3> QED BY <2>1, <3>1, <3>3 DEF SeenInTime
  <2> QED BY <2>1, <2>2 DEF TimeInv
<1>6. CASE SweepTimes
  <2>1. /\ firstSeen' = [c \in TimedConnectors |-> SeenBy(c)]
        /\ elapsedMsgs' = [c \in TimedConnectors |-> Report(c)]
        /\ UNCHANGED <<timed, time, begun>>
    BY <1>6 DEF SweepTimes
  <2>2. ASSUME NEW c \in TimedConnectors
        PROVE  SeenInTime(timed[c], SeenBy(c), begun, time)
    <3>1. SeenInTime(timed[c], firstSeen[c], begun, time)
      BY DEF TimeInv
    <3>2. CASE timed[c] = Vacant
      <4>1. SeenBy(c) = Unseen
        BY <3>2 DEF SeenBy
      <4>2. Unset < begun /\ 0 <= time
        BY <1>1, TimeConstants
      <4> QED BY <3>1, <3>2, <4>1, <4>2, VacantUnseen DEF SeenInTime
    <3>3. CASE timed[c] # Vacant /\ firstSeen[c].id = timed[c].id
      BY <3>1, <3>3 DEF SeenBy
    <3>4. CASE timed[c] # Vacant /\ firstSeen[c].id # timed[c].id
      <4> DEFINE f == [id |-> timed[c].id, at |-> time]
      <4>1. SeenBy(c) = f
        BY <3>4 DEF SeenBy
      <4>2. f \in Sights /\ f.id = timed[c].id /\ f.at = time
        BY <1>1, <3>1 DEF SeenInTime, Timings, Sights
      <4>3. time <= time /\ time >= timed[c].began
        BY <1>1, <3>1 DEF SeenInTime, Timings
      <4> HIDE DEF f
      <4> QED BY <3>1, <4>1, <4>2, <4>3 DEF SeenInTime
    <3> QED BY <3>2, <3>3, <3>4
  <2>3. ASSUME NEW c \in TimedConnectors
        PROVE  Report(c) \in Unset .. MaxClock
    <3>1. SeenBy(c).at \in Nat /\ SeenBy(c).at <= time
      BY <2>2 DEF SeenInTime, Sights
    <3> DEFINE e == time - SeenBy(c).at
    <3>2. e \in Unset .. MaxClock /\ Unset \in Unset .. MaxClock
      BY <1>1, <3>1, TimeConstants
    <3>3. Report(c) = e \/ Report(c) = Unset
      BY DEF Report
    <3> QED BY <3>2, <3>3
  <2>4. \A c \in TimedConnectors : firstSeen'[c] = SeenBy(c)
    BY <2>1
  <2>5. ASSUME NEW c \in TimedConnectors
        PROVE  SeenInTime(timed'[c], firstSeen'[c], begun', time')
    BY <2>1, <2>2, <2>4 DEF SeenInTime
  <2>6. elapsedMsgs' \in [TimedConnectors -> Unset .. MaxClock]
    BY <2>1, <2>3
  <2> QED BY <2>1, <2>4, <2>5, <2>6 DEF TimeInv
<1>7. CASE ApplyElapsed
  <2>1. PICK c \in TimedConnectors :
           /\ elapsedMsgs' = [elapsedMsgs EXCEPT ![c] = Unset]
           /\ timed' = IF timed[c] = Vacant THEN timed
                       ELSE [timed EXCEPT ![c] =
                                Enforce([@ EXCEPT !.elapsed = elapsedMsgs[c]])]
    BY <1>7 DEF ApplyElapsed
  <2>2. UNCHANGED <<firstSeen, time, begun>>
        /\ begun' \in 0 .. MaxTimed /\ begun <= begun'
    BY <1>1, <1>7, TimeConstants DEF ApplyElapsed
  <2>3. elapsedMsgs' \in [TimedConnectors -> Unset .. MaxClock]
        /\ elapsedMsgs[c] \in Int
    BY <1>1, <2>1, TimeConstants
  <2>4. SeenInTime(timed[c], firstSeen[c], begun, time) /\ timed[c] \in Timings
    BY DEF TimeInv, SeenInTime
  <2> DEFINE s == [timed[c] EXCEPT !.elapsed = elapsedMsgs[c]]
             t == IF timed[c] = Vacant THEN timed[c] ELSE Enforce(s)
  <2>5. s \in Timings /\ s.id = timed[c].id /\ s.began = timed[c].began
    BY <2>3, <2>4 DEF Timings
  <2>6. timed' = [timed EXCEPT ![c] = t]
    BY <2>1 DEF TimeInv
  <2> HIDE DEF s
  <2>7. t \in Timings /\ t.id = timed[c].id /\ t.began = timed[c].began
    BY <2>4, <2>5, EnforceKeeps
  <2> HIDE DEF t
  <2>8. SeenInTime(t, firstSeen[c], begun', time)
    BY <2>2, <2>4, <2>7 DEF SeenInTime
  <2> QED BY <2>2, <2>3, <2>6, <2>8, TimedChange
<1>8. CASE UNCHANGED timeVars
  BY <1>8 DEF TimeInv, SeenInTime, timeVars
<1> QED
  BY <1>2, <1>3, <1>4, <1>5, <1>6, <1>7, <1>8 DEF TimeNext, TimeSteps

LEMMA TimeInvImplies ==
  ASSUME TimeInv
  PROVE  TimeTypeOK
<1>1. ASSUME NEW c \in TimedConnectors
      PROVE  /\ timed[c].max \in Ceilings \cup {Unset}
             /\ elapsedMsgs[c] \in Unset .. MaxClock
             /\ firstSeen[c].id = timed[c].id => firstSeen[c].at >= timed[c].began
  BY DEF TimeInv, SeenInTime, Timings
<1> QED BY <1>1 DEF TimeTypeOK, TimeInv

-----------------------------------------------------------------------------
(* The theorems.                                                             *)

LEMMA ChargingInvInit ==
  ASSUME ChargingInit
  PROVE  CostInv /\ TimeInv
  BY CostInvInit, TimeInvInit DEF ChargingInit

LEMMA ChargingInvStep ==
  ASSUME CostInv, TimeInv, [ChargingNext]_chargingVars
  PROVE  CostInv' /\ TimeInv'
<1>1. [CostNext]_costVars
  BY DEF ChargingNext, chargingVars
<1>2. [TimeNext]_timeVars
  BY DEF ChargingNext, chargingVars
<1> QED BY <1>1, <1>2, CostInvStep, TimeInvStep

(* Whatever tariffs the CSMS installs, replaces, clears and assigns, and     *)
(* whenever its requests, the hardware's events and the delivery of reports  *)
(* meet in the actor: the store names one tariff for an id and one per scope *)
(* and day; a cost and a tariff of its own live only on a connector that     *)
(* runs a session; the first session is billed for no energy twice, however  *)
(* often its reports are sent (tariff.rs, deliver_transaction_event); and    *)
(* the sweep of time ceilings never believes it saw a transaction before it  *)
(* began (run_transaction_time_limits).                                      *)
THEOREM FiguresStayTheirOwn == ChargingSpec => []FiguresAreItsOwn
<1>1. ChargingInit => CostInv /\ TimeInv
  BY ChargingInvInit
<1>2. CostInv /\ TimeInv /\ [ChargingNext]_chargingVars => CostInv' /\ TimeInv'
  BY ChargingInvStep
<1>3. CostInv /\ TimeInv => FiguresAreItsOwn
  BY CostInvImplies, TimeInvImplies DEF FiguresAreItsOwn
<1> QED BY <1>1, <1>2, <1>3, PTL DEF ChargingSpec

(* What a session has been charged stays owed while it runs: no step of the  *)
(* CSMS, of the actor or of a delivery, first or repeated, drops the total   *)
(* or lowers it (advance_running_cost).                                      *)
THEOREM EarnedStaysKept == ChargingSpec => EarnedIsKept
<1>1. ChargingInit => CostInv /\ TimeInv
  BY ChargingInvInit
<1>2. CostInv /\ TimeInv /\ [ChargingNext]_chargingVars => CostInv' /\ TimeInv'
  BY ChargingInvStep
<1>3. CostInv /\ [ChargingNext]_chargingVars
        => [(session # NoSession /\ session'.id = session.id /\ cost # NoCost)
              => cost' # NoCost /\ cost'.charged >= cost.charged]_costVars
  <2> SUFFICES ASSUME CostInv, [ChargingNext]_chargingVars,
                      session # NoSession, session'.id = session.id, cost # NoCost
               PROVE  cost' # NoCost /\ cost'.charged >= cost.charged
    OBVIOUS
  <2>1. [CostNext]_costVars
    BY DEF ChargingNext, chargingVars
  <2> QED BY <2>1, EarnedStep
<1> QED BY <1>1, <1>2, <1>3, PTL DEF ChargingSpec, EarnedIsKept

=============================================================================
