------------------------- MODULE ConnectivityProofs -------------------------
(***************************************************************************)
(* Proofs about the station's link to its CSMS: a target and credentials   *)
(* it can come back to (NetworkSwitch), a clock whose corrections do not   *)
(* drift unreported (Provisioning), certificate requests resent no more    *)
(* often than configured (CertificateRenewal), status reports that leave a *)
(* right picture (StatusReporting), and a device model that tells the CSMS *)
(* what is so (DeviceModel).  The theorems are of the composition          *)
(* MCConnectivity, with its fairness and whichever blocks an instance      *)
(* runs.                                                                   *)
(***************************************************************************)
EXTENDS MCConnectivity, FiniteSetTheorems, FunctionTheorems, WellFoundedInduction,
        TLAPS

-----------------------------------------------------------------------------
(* NetworkSwitch.                                                           *)

Targets == [active : Addresses, fallback : Addresses \cup {NoAddress},
            failures : 0 .. 3, tls : TlsConfigs,
            pendingTls : TlsConfigs \cup {"none"}, tlsFailures : Nat,
            credentialFailures : Nat, attempts : Nat]
Dials == [pc : {"idle", "jitter", "connecting"}, address : Addresses,
          tls : TlsConfigs \cup {"none"}, password : Passwords \cup {"none"}]
Pasts == [proven : SUBSET Addresses, confounded : BOOLEAN, writes : Nat]
Held == {s \in Slots : s >= 0}

NetTypes ==
    /\ netProfiles \in [Held -> Elsewhere \cup {NoAddress}]
    /\ IsFiniteSet(OccupiedSlots) /\ Cardinality(OccupiedSlots) <= MaxSlots
    /\ priority \in Seq(Slots \cup {0}) /\ IsInjective(priority)
    /\ target \in Targets
    /\ target.fallback # target.active
    /\ password \in [current : Passwords, previous : Passwords \cup {"none"}]
    /\ dial \in Dials
    /\ link \in Addresses \cup {NoAddress}
    /\ link # NoAddress => dial.pc = "idle"
    /\ network \in [down : BOOLEAN, accepts : Passwords]
    /\ netPast \in Pasts

\* What a dial under way carries is what the target and the password store hold.
DialIsCurrent ==
    /\ dial.pc # "idle" => dial.address = target.active
    /\ dial.pc = "connecting" =>
          /\ dial.tls = IF target.pendingTls # "none" THEN target.pendingTls ELSE target.tls
          /\ dial.address = Origin => dial.password = password.current

\* There is a way back: a fallback is proven, and without one the address is.
WayBack ==
    /\ IF target.fallback = NoAddress THEN target.active \in netPast.proven
       ELSE target.fallback \in netPast.proven
    /\ target.tls = "good"
    /\ network.accepts \in {password.current, password.previous}

NetInv ==
    /\ NetTypes
    /\ ~netPast.confounded => DialIsCurrent /\ WayBack

-----------------------------------------------------------------------------
(* The order of the occupied slots. *)

\* Where positions compare like the elements at them, the rank of an element is
\* how many come before it: ranks number a finite set, each element by its own.
LEMMA RanksAreDistinct ==
  ASSUME NEW S, IsFiniteSet(S), NEW R \in SUBSET (S \X S),
         \A s \in S : <<s, s>> \notin R,
         \A s, t, u \in S : <<s, t>> \in R /\ <<t, u>> \in R => <<s, u>> \in R,
         \A s, t \in S : s # t => <<s, t>> \in R \/ <<t, s>> \in R
  PROVE  [s \in S |-> Cardinality({m \in S : <<m, s>> \in R})]
             \in Bijection(S, 0 .. Cardinality(S) - 1)
<1> DEFINE below(s) == {m \in S : <<m, s>> \in R}
           n == Cardinality(S)
           f == [s \in S |-> Cardinality(below(s))]
<1>1. n \in Nat
  BY FS_CardinalityType
<1>2. ASSUME NEW s \in S
      PROVE  /\ IsFiniteSet(below(s)) /\ Cardinality(below(s)) \in Nat
             /\ Cardinality(below(s)) < n
  <2>1. below(s) \subseteq S /\ s \notin below(s)
    OBVIOUS
  <2>2. IsFiniteSet(below(s)) /\ Cardinality(below(s)) \in Nat
    BY <2>1, FS_Subset, FS_CardinalityType
  <2>3. Cardinality(below(s)) <= n /\ (Cardinality(below(s)) = n => below(s) = S)
    BY <2>1, FS_Subset
  <2> QED BY <1>1, <2>1, <2>2, <2>3
<1>3. ASSUME NEW s \in S, NEW t \in S, <<s, t>> \in R
      PROVE  Cardinality(below(s)) < Cardinality(below(t))
  <2>1. below(s) \subseteq below(t) /\ s \in below(t) /\ s \notin below(s)
    BY <1>3
  <2>2. IsFiniteSet(below(t)) /\ Cardinality(below(t)) \in Nat
        /\ Cardinality(below(s)) \in Nat
    BY <1>2
  <2>3. Cardinality(below(s)) <= Cardinality(below(t))
        /\ (Cardinality(below(s)) = Cardinality(below(t)) => below(s) = below(t))
    BY <2>1, <2>2, FS_Subset
  <2> QED BY <2>1, <2>2, <2>3
<1>4. f \in [S -> 0 .. n - 1]
  <2>1. \A s \in S : Cardinality(below(s)) \in 0 .. n - 1
    <3> SUFFICES ASSUME NEW s \in S PROVE Cardinality(below(s)) \in 0 .. n - 1
      OBVIOUS
    <3> HIDE DEF n
    <3> QED BY <1>1, <1>2
  <2> HIDE DEF below, n
  <2> QED BY <2>1
<1>5. \A s, t \in S : f[s] = f[t] => s = t
  <2>1. \A s \in S : f[s] = Cardinality(below(s)) /\ Cardinality(below(s)) \in Nat
    BY <1>2
  <2>2. ASSUME NEW s \in S, NEW t \in S, f[s] = f[t], s # t PROVE FALSE
    <3>1. Cardinality(below(s)) < Cardinality(below(t))
          \/ Cardinality(below(t)) < Cardinality(below(s))
      BY <1>3, <2>2
    <3> QED BY <2>1, <2>2, <3>1
  <2> QED BY <2>2
<1>6. f \in Injection(S, 0 .. n - 1)
  <2>1. DOMAIN f = S
    OBVIOUS
  <2> HIDE DEF f
  <2> QED BY <1>4, <1>5, <2>1 DEF Injection, IsInjective
<1>7. IsFiniteSet(0 .. n - 1) /\ Cardinality(0 .. n - 1) = n
  <2>1. IsFiniteSet(0 .. n - 1)
        /\ Cardinality(0 .. n - 1) = IF 0 > n - 1 THEN 0 ELSE n - 1 - 0 + 1
    BY <1>1, FS_Interval
  <2> QED BY <1>1, <2>1
<1>8. f \in Surjection(S, 0 .. n - 1)
  BY <1>6, <1>7, FS_Injection
<1> QED BY <1>6, <1>8 DEF Bijection

LEMMA RanksNumber ==
  ASSUME NEW S, IsFiniteSet(S), NEW R \in SUBSET (S \X S),
         \A s \in S : <<s, s>> \notin R,
         \A s, t, u \in S : <<s, t>> \in R /\ <<t, u>> \in R => <<s, u>> \in R,
         \A s, t \in S : s # t => <<s, t>> \in R \/ <<t, s>> \in R
  PROVE  \A i \in 1 .. Cardinality(S) :
            \E s \in S : Cardinality({m \in S : <<m, s>> \in R}) = i - 1
<1> DEFINE n == Cardinality(S)
           f == [s \in S |-> Cardinality({m \in S : <<m, s>> \in R})]
<1>1. n \in Nat
  BY FS_CardinalityType
<1>2. f \in Bijection(S, 0 .. n - 1)
  BY RanksAreDistinct
<1>3. \A s \in S : f[s] = Cardinality({m \in S : <<m, s>> \in R})
  OBVIOUS
<1> SUFFICES ASSUME NEW i \in 1 .. n PROVE \E s \in S : f[s] = i - 1
  BY <1>3
<1> HIDE DEF f
<1>4. i - 1 \in 0 .. n - 1
  BY <1>1
<1> QED BY <1>2, <1>4 DEF Bijection, Surjection

\* The order after a profile was set lists the occupied slots, each once.
LEMMA RefreshedPriority ==
  ASSUME NEW ps \in [Held -> Elsewhere \cup {NoAddress}],
         NEW order \in Seq(Slots \cup {0}), IsInjective(order),
         IsFiniteSet({s \in DOMAIN ps : ps[s] # NoAddress})
  PROVE  /\ RefreshPriority(order, ps) \in Seq(Slots \cup {0})
         /\ IsInjective(RefreshPriority(order, ps))
<1> DEFINE S == {s \in DOMAIN ps : ps[s] # NoAddress}
           R == {p \in S \X S : Precedes(order, p[1], p[2])}
           rank(s) == Cardinality({m \in S : Precedes(order, m, s)})
           n == Cardinality(S)
           f == RefreshPriority(order, ps)
<1>1. S \subseteq Int /\ S \subseteq Slots
  BY NetAssumption DEF Held
<1>2. n \in Nat
  BY FS_CardinalityType
<1>3. \A s, t \in S : <<s, t>> \in R <=> Precedes(order, s, t)
  OBVIOUS
<1>o. Len(order) \in Nat /\ DOMAIN order = 1 .. Len(order)
  OBVIOUS
<1>4. \A s \in S : ~Precedes(order, s, s)
  BY <1>1, <1>o DEF Precedes
<1>5. ASSUME NEW s \in S, NEW t \in S, NEW u \in S,
             Precedes(order, s, t), Precedes(order, t, u)
      PROVE  Precedes(order, s, u)
  <2>1. CASE s < t /\ \A i \in DOMAIN order : order[i] \notin {s, t}
    BY <2>1, <1>1, <1>5 DEF Precedes
  <2>2. ASSUME NEW i \in DOMAIN order, order[i] = s, \A j \in 1 .. i : order[j] # t
        PROVE  Precedes(order, s, u)
    <3>1. CASE t < u /\ \A k \in DOMAIN order : order[k] \notin {t, u}
      BY <2>2, <3>1, <1>o DEF Precedes
    <3>2. ASSUME NEW k \in DOMAIN order, order[k] = t, \A j \in 1 .. k : order[j] # u
          PROVE  Precedes(order, s, u)
      <4>1. i < k
        BY <2>2, <3>2, <1>o
      <4> QED BY <2>2, <3>2, <4>1, <1>o DEF Precedes
    <3> QED BY <1>5, <3>1, <3>2 DEF Precedes
  <2> QED BY <1>5, <2>1, <2>2 DEF Precedes
<1>6. ASSUME NEW s \in S, NEW t \in S, s # t
      PROVE  Precedes(order, s, t) \/ Precedes(order, t, s)
  <2>1. CASE \A i \in DOMAIN order : order[i] \notin {s, t}
    BY <2>1, <1>1, <1>6 DEF Precedes
  <2>2. ASSUME NEW i \in DOMAIN order, order[i] = s
        PROVE  Precedes(order, s, t) \/ Precedes(order, t, s)
    <3>1. CASE \A j \in 1 .. i : order[j] # t
      BY <2>2, <3>1 DEF Precedes
    <3>2. ASSUME NEW j \in 1 .. i, order[j] = t
          PROVE  Precedes(order, t, s)
      <4>1. j \in DOMAIN order /\ j < i
        BY <1>o, <1>6, <2>2, <3>2
      <4>2. \A k \in 1 .. j : order[k] # s
        BY <1>o, <2>2, <4>1 DEF IsInjective
      <4> QED BY <3>2, <4>1, <4>2 DEF Precedes
    <3> QED BY <3>1, <3>2
  <2>3. ASSUME NEW i \in DOMAIN order, order[i] = t
        PROVE  Precedes(order, s, t) \/ Precedes(order, t, s)
    <3>1. CASE \A j \in 1 .. i : order[j] # s
      BY <2>3, <3>1 DEF Precedes
    <3>2. ASSUME NEW j \in 1 .. i, order[j] = s
          PROVE  Precedes(order, s, t)
      <4>1. j \in DOMAIN order /\ j < i
        BY <1>o, <1>6, <2>3, <3>2
      <4>2. \A k \in 1 .. j : order[k] # t
        BY <1>o, <2>3, <4>1 DEF IsInjective
      <4> QED BY <3>2, <4>1, <4>2 DEF Precedes
    <3> QED BY <3>1, <3>2
  <2> QED BY <2>1, <2>2, <2>3
<1>7. \A i \in 1 .. n : \E s \in S : Cardinality({m \in S : <<m, s>> \in R}) = i - 1
  <2>1. \A s \in S : <<s, s>> \notin R
    BY <1>3, <1>4
  <2>2. \A s, t, u \in S : <<s, t>> \in R /\ <<t, u>> \in R => <<s, u>> \in R
    BY <1>3, <1>5
  <2>3. \A s, t \in S : s # t => <<s, t>> \in R \/ <<t, s>> \in R
    BY <1>3, <1>6
  <2>4. R \in SUBSET (S \X S) /\ IsFiniteSet(S)
    OBVIOUS
  <2> HIDE DEF S, R
  <2> QED BY <2>1, <2>2, <2>3, <2>4, RanksNumber DEF n
<1>8. ASSUME NEW s \in S
      PROVE  rank(s) = Cardinality({m \in S : <<m, s>> \in R})
  <2>1. {m \in S : <<m, s>> \in R} = {m \in S : Precedes(order, m, s)}
    BY <1>3
  <2> QED BY <2>1
<1>9. \A i \in 1 .. n : \E s \in S : rank(s) = i - 1
  BY <1>7, <1>8
<1>10. f = [i \in 1 .. n |-> CHOOSE s \in S : rank(s) = i - 1]
  BY DEF RefreshPriority
<1> HIDE DEF f, S, R, n
<1>11. \A i \in 1 .. n : f[i] \in S /\ rank(f[i]) = i - 1
  BY <1>9, <1>10
<1> HIDE DEF rank
<1>12. f \in [1 .. n -> Slots \cup {0}]
  BY <1>1, <1>10, <1>11
<1>13. f \in Seq(Slots \cup {0})
  BY <1>2, <1>12
<1>14. \A i, j \in 1 .. n : f[i] = f[j] => i = j
  BY <1>2, <1>11
<1>15. IsInjective(f)
  BY <1>10, <1>14 DEF IsInjective
<1> QED BY <1>13, <1>15 DEF f

-----------------------------------------------------------------------------
(* The selected profile. *)

\* The least element of a non-empty set of positions.
LEMMA LeastPosition ==
  ASSUME NEW n \in Nat, NEW S \in SUBSET (1 .. n), S # {}
  PROVE  \E i \in S : \A j \in S : i <= j
<1>1. S \subseteq Nat
  OBVIOUS
<1>2. PICK i \in S : \A j \in S : ~(<<j, i>> \in OpToRel(<, Nat))
  BY <1>1, NatLessThanWellFounded, WFMin
<1>3. ASSUME NEW j \in S, ~(i <= j) PROVE FALSE
  <2>1. j \in Nat /\ i \in Nat /\ j < i
    BY <1>1, <1>3
  <2>2. <<j, i>> \in OpToRel(<, Nat)
    BY <2>1 DEF OpToRel
  <2> QED BY <1>2, <2>2
<1> QED BY <1>3

\* The selected address is one a stored profile names.
LEMMA SelectedIsStored ==
  ASSUME NetTypes, SelectedAddress(netProfiles, priority) # NoAddress
  PROVE  SelectedAddress(netProfiles, priority) \in Elsewhere
<1> DEFINE held == {i \in 1 .. Len(priority) :
                       /\ priority[i] \in DOMAIN netProfiles
                       /\ netProfiles[priority[i]] # NoAddress}
           first == CHOOSE i \in held : \A j \in held : i <= j
<1>1. SelectedAddress(netProfiles, priority) =
         IF held = {} THEN NoAddress ELSE netProfiles[priority[first]]
  BY DEF SelectedAddress
<1>2. held # {}
  BY <1>1
<1>3. Len(priority) \in Nat
  BY DEF NetTypes
<1>4. \E i \in held : \A j \in held : i <= j
  BY <1>2, <1>3, LeastPosition
<1>5. first \in held
  BY <1>4
<1>6. netProfiles[priority[first]] \in Elsewhere
  BY <1>5 DEF NetTypes
<1> QED BY <1>1, <1>2, <1>6

-----------------------------------------------------------------------------
(* What a step leaves in the history. *)

LEMMA WriteCounted ==
  ASSUME NetTypes, CountWrite
  PROVE  netPast' \in Pasts /\ netPast'.proven = netPast.proven
         /\ netPast'.confounded = netPast.confounded
BY DEF NetTypes, CountWrite, Pasts

LEMMA ConfoundedOrNot ==
  ASSUME NEW p \in Pasts, NEW b \in BOOLEAN
  PROVE  /\ [p EXCEPT !.confounded = @ \/ b] \in Pasts
         /\ [p EXCEPT !.confounded = @ \/ b].proven = p.proven
         /\ [p EXCEPT !.confounded = @ \/ b].confounded = (p.confounded \/ b)
         /\ [p EXCEPT !.confounded = @ \/ b, !.writes = @ + 1] \in Pasts
         /\ [p EXCEPT !.confounded = @ \/ b, !.writes = @ + 1].proven = p.proven
         /\ [p EXCEPT !.confounded = @ \/ b, !.writes = @ + 1].confounded
               = (p.confounded \/ b)
<1> DEFINE c == p.confounded \/ b
           n == p.writes + 1
<1>1. c \in BOOLEAN /\ n \in Nat
  BY DEF Pasts
<1> HIDE DEF c, n
<1>2. /\ [p EXCEPT !.confounded = c] \in Pasts
      /\ [p EXCEPT !.confounded = c].proven = p.proven
      /\ [p EXCEPT !.confounded = c].confounded = c
      /\ [p EXCEPT !.confounded = c, !.writes = n] \in Pasts
      /\ [p EXCEPT !.confounded = c, !.writes = n].proven = p.proven
      /\ [p EXCEPT !.confounded = c, !.writes = n].confounded = c
  BY <1>1, Zenon DEF Pasts
<1> QED BY <1>2, Zenon DEF c, n

\* A write, or a switch, during a dial makes its outcome tell nothing.
LEMMA MidDialConfounds ==
  ASSUME NetTypes,
         \/ netPast' = [netPast EXCEPT !.confounded = @ \/ MidDial]
         \/ netPast' = [netPast EXCEPT !.confounded = @ \/ MidDial, !.writes = @ + 1]
  PROVE  netPast' \in Pasts /\ netPast'.proven = netPast.proven
         /\ netPast'.confounded = (netPast.confounded \/ MidDial)
<1>1. netPast \in Pasts /\ MidDial \in BOOLEAN
  BY DEF NetTypes, MidDial
<1>2. CASE netPast' = [netPast EXCEPT !.confounded = @ \/ MidDial]
  BY <1>1, <1>2, ConfoundedOrNot, Zenon
<1>3. CASE netPast' = [netPast EXCEPT !.confounded = @ \/ MidDial, !.writes = @ + 1]
  BY <1>1, <1>3, ConfoundedOrNot, Zenon
<1> QED BY <1>2, <1>3

-----------------------------------------------------------------------------
(* The invariant. *)

LEMMA NetInitInv == NetInit => NetInv
<1> SUFFICES ASSUME NetInit PROVE NetInv
  OBVIOUS
<1>1. OccupiedSlots = {}
  BY DEF NetInit, OccupiedSlots
<1>2. IsFiniteSet(OccupiedSlots) /\ Cardinality(OccupiedSlots) <= MaxSlots
  BY <1>1, FS_EmptySet, NetAssumption
<1>3. target.attempts \in Nat
  <2> DEFINE A == Attempts \ {0}
  <2>1. A \subseteq {1, 2, 3} /\ A # {}
    BY NetAssumption
  <2>2. \E n \in A : \A m \in A : n >= m
    <3>1. CASE 3 \in A
      BY <2>1, <3>1
    <3>2. CASE 3 \notin A /\ 2 \in A
      BY <2>1, <3>2
    <3>3. CASE 3 \notin A /\ 2 \notin A
      BY <2>1, <3>3
    <3> QED BY <3>1, <3>2, <3>3
  <2>3. target.attempts = CHOOSE n \in A : \A m \in A : n >= m
    BY DEF NetInit
  <2> QED BY <2>1, <2>2, <2>3
<1>4. target \in Targets
  <2> DEFINE n == target.attempts
  <2>1. target = [active |-> Origin, fallback |-> NoAddress, failures |-> 0,
                  tls |-> "good", pendingTls |-> "none", tlsFailures |-> 0,
                  credentialFailures |-> 0, attempts |-> n]
    BY DEF NetInit
  <2> HIDE DEF n
  <2> QED BY <1>3, <2>1 DEF Addresses, TlsConfigs, Targets, n
<1>5. priority \in Seq(Slots \cup {0}) /\ IsInjective(priority)
  BY DEF NetInit, IsInjective
<1>6. NetTypes
  BY <1>2, <1>4, <1>5, NetAssumption
  DEF NetInit, NetTypes, Held, Addresses, Passwords, TlsConfigs, Dials, Pasts
<1>7. DialIsCurrent /\ WayBack
  BY DEF NetInit, DialIsCurrent, WayBack
<1> QED BY <1>6, <1>7 DEF NetInv

\* DialIsCurrent and WayBack are of these variables only.
LEMMA OthersKeepDial ==
  ASSUME UNCHANGED <<target, password, dial, network>>,
         netPast' .confounded = netPast.confounded, netPast'.proven = netPast.proven,
         ~netPast.confounded => DialIsCurrent /\ WayBack
  PROVE  (~netPast.confounded => DialIsCurrent /\ WayBack)'
  BY DEF DialIsCurrent, WayBack

LEMMA SetProfileKeeps == NetInv /\ SetNetworkProfile => NetInv'
<1> SUFFICES ASSUME NetInv, SetNetworkProfile PROVE NetInv'
  OBVIOUS
<1>0. NetTypes
  BY DEF NetInv
<1>1. PICK at \in Slots, url \in Elsewhere :
         /\ at >= 0
         /\ netProfiles[at] # NoAddress \/ Cardinality(OccupiedSlots) < MaxSlots
         /\ netProfiles' = [netProfiles EXCEPT ![at] = url]
         /\ priority' = RefreshPriority(priority, netProfiles')
         /\ CountWrite
         /\ UNCHANGED <<target, password, dial, link, switcher, network>>
  BY DEF SetNetworkProfile
<1>2. netProfiles' \in [Held -> Elsewhere \cup {NoAddress}] /\ at \in Held
  BY <1>0, <1>1 DEF NetTypes, Held
<1>3. OccupiedSlots' = OccupiedSlots \cup {at}
  BY <1>0, <1>1, <1>2, NetAssumption DEF NetTypes, OccupiedSlots
<1>4. IsFiniteSet(OccupiedSlots') /\ Cardinality(OccupiedSlots') <= MaxSlots
  <2>1. CASE at \in OccupiedSlots
    <3>1. OccupiedSlots' = OccupiedSlots
      BY <2>1, <1>3
    <3>2. IsFiniteSet(OccupiedSlots) /\ Cardinality(OccupiedSlots) <= MaxSlots
      BY <1>0 DEF NetTypes
    <3> QED BY <3>1, <3>2
  <2>2. CASE at \notin OccupiedSlots
    <3>1. Cardinality(OccupiedSlots) < MaxSlots
      BY <2>2, <1>0, <1>1, <1>2 DEF OccupiedSlots, NetTypes
    <3>2. IsFiniteSet(OccupiedSlots) /\ Cardinality(OccupiedSlots) \in Nat
      BY <1>0, FS_CardinalityType DEF NetTypes
    <3>3. IsFiniteSet(OccupiedSlots \cup {at})
          /\ Cardinality(OccupiedSlots \cup {at}) = Cardinality(OccupiedSlots) + 1
      BY <2>2, <3>2, FS_AddElement
    <3> QED BY <3>1, <3>2, <3>3, <1>3, NetAssumption
  <2> QED BY <2>1, <2>2
<1>5. priority' \in Seq(Slots \cup {0}) /\ IsInjective(priority')
  <2>1. {s \in DOMAIN netProfiles' : netProfiles'[s] # NoAddress} = OccupiedSlots'
    BY DEF OccupiedSlots
  <2> QED BY <1>0, <1>1, <1>2, <1>4, <2>1, RefreshedPriority DEF NetTypes
<1>6. /\ netPast' \in Pasts
      /\ netPast'.proven = netPast.proven /\ netPast'.confounded = netPast.confounded
  BY <1>0, <1>1, WriteCounted
<1>7. NetTypes'
  BY <1>0, <1>1, <1>2, <1>4, <1>5, <1>6 DEF NetTypes
<1>8. (~netPast.confounded => DialIsCurrent /\ WayBack)'
  BY <1>1, <1>6, OthersKeepDial DEF NetInv
<1> QED BY <1>7, <1>8 DEF NetInv

LEMMA SwitchKeeps == NetInv /\ SwitchPass => NetInv'
<1> SUFFICES ASSUME NetInv, SwitchPass PROVE NetInv'
  OBVIOUS
<1>0. NetTypes
  BY DEF NetInv
<1> DEFINE to == SelectedAddress(netProfiles, priority)
           kept == IF target.fallback = NoAddress THEN target.active ELSE target.fallback
<1>1. /\ to # NoAddress /\ to # target.active
      /\ target' = [target EXCEPT !.fallback = IF kept = to THEN NoAddress ELSE kept,
                                  !.active = to, !.failures = 0]
      /\ netPast' = [netPast EXCEPT !.confounded = @ \/ MidDial]
      /\ UNCHANGED <<netProfiles, priority, password, dial, link, network>>
  BY DEF SwitchPass, SwitchTo
<1>2. to \in Addresses
  BY <1>0, <1>1, SelectedIsStored DEF Addresses
<1>3. /\ target'.active = to
      /\ target'.fallback = IF kept = to THEN NoAddress ELSE kept
      /\ target'.tls = target.tls
  BY <1>0, <1>1 DEF NetTypes, Targets
<1>4. kept \in Addresses
  BY <1>0 DEF NetTypes, Targets
<1>5. target' \in Targets
  <2> DEFINE fb == IF kept = to THEN NoAddress ELSE kept
  <2>1. fb \in Addresses \cup {NoAddress}
    BY <1>4
  <2>2. target' = [target EXCEPT !.fallback = fb, !.active = to, !.failures = 0]
    BY <1>1
  <2>3. target \in Targets
    BY <1>0 DEF NetTypes
  <2>4. ASSUME NEW t \in Targets, NEW a \in Addresses,
               NEW f \in Addresses \cup {NoAddress}
        PROVE  [t EXCEPT !.fallback = f, !.active = a, !.failures = 0] \in Targets
    <3>1. 0 \in 0 .. 3
      OBVIOUS
    <3> QED BY <3>1, Zenon DEF Targets
  <2> HIDE DEF to, kept, fb
  <2> QED BY <1>2, <2>1, <2>2, <2>3, <2>4
<1>6. target'.fallback # target'.active
  BY <1>1, <1>3
<1>7. /\ netPast' \in Pasts
      /\ netPast'.proven = netPast.proven
      /\ netPast'.confounded = (netPast.confounded \/ MidDial)
  BY <1>0, <1>1, MidDialConfounds
<1>8. NetTypes'
  <2>1. OccupiedSlots' = OccupiedSlots
    BY <1>1 DEF OccupiedSlots
  <2> QED BY <1>0, <1>1, <1>5, <1>6, <1>7, <2>1 DEF NetTypes
<1>9. ASSUME ~netPast'.confounded PROVE DialIsCurrent' /\ WayBack'
  <2>1. ~netPast.confounded /\ dial.pc = "idle" /\ WayBack
    BY <1>7, <1>9 DEF MidDial, NetInv
  <2>2. DialIsCurrent'
    BY <1>1, <2>1 DEF DialIsCurrent
  <2>3. IF target'.fallback = NoAddress THEN target'.active \in netPast'.proven
        ELSE target'.fallback \in netPast'.proven
    <3>1. CASE kept = to
      <4>1. target.fallback # NoAddress /\ to = target.fallback
        BY <1>1, <3>1
      <4> QED BY <1>3, <1>7, <2>1, <3>1, <4>1 DEF WayBack
    <3>2. CASE kept # to
      <4>1. kept \in netPast.proven
        BY <2>1 DEF WayBack
      <4>2. kept # NoAddress
        BY <1>4, NetAssumption DEF Addresses
      <4> QED BY <1>3, <1>7, <3>2, <4>1, <4>2
    <3> QED BY <3>1, <3>2
  <2> QED BY <1>1, <1>3, <2>1, <2>2, <2>3 DEF WayBack
<1> QED BY <1>8, <1>9 DEF NetInv

LEMMA AttemptsKeeps == NetInv /\ SetAttempts => NetInv'
<1> SUFFICES ASSUME NetInv, SetAttempts PROVE NetInv'
  OBVIOUS
<1>0. NetTypes
  BY DEF NetInv
<1>1. PICK n \in Attempts : target' = [target EXCEPT !.attempts = n]
  BY DEF SetAttempts
<1>2. n \in Nat
  BY NetAssumption
<1>3. /\ link # NoAddress
      /\ UNCHANGED <<netProfiles, priority, password, dial, link, switcher, network>>
      /\ netPast' \in Pasts
      /\ netPast'.proven = netPast.proven /\ netPast'.confounded = netPast.confounded
  BY <1>0, WriteCounted DEF SetAttempts
<1>4. /\ target' \in Targets
      /\ target'.active = target.active /\ target'.fallback = target.fallback
      /\ target'.tls = target.tls /\ target'.pendingTls = target.pendingTls
  BY <1>0, <1>1, <1>2 DEF NetTypes, Targets
<1>5. NetTypes'
  <2>1. OccupiedSlots' = OccupiedSlots
    BY <1>3 DEF OccupiedSlots
  <2> QED BY <1>0, <1>3, <1>4, <2>1 DEF NetTypes
<1>6. ASSUME ~netPast'.confounded PROVE DialIsCurrent' /\ WayBack'
  BY <1>3, <1>4, <1>6 DEF NetInv, DialIsCurrent, WayBack
<1> QED BY <1>5, <1>6 DEF NetInv

LEMMA StageKeeps == NetInv /\ StageTls => NetInv'
<1> SUFFICES ASSUME NetInv, StageTls PROVE NetInv'
  OBVIOUS
<1>0. NetTypes
  BY DEF NetInv
<1>1. PICK config \in TlsConfigs :
         target' = [target EXCEPT !.pendingTls = config, !.tlsFailures = 0]
  BY DEF StageTls
<1>3. /\ UNCHANGED <<netProfiles, priority, password, dial, link, switcher, network>>
      /\ netPast' \in Pasts
      /\ netPast'.proven = netPast.proven
      /\ netPast'.confounded = (netPast.confounded \/ MidDial)
  BY <1>0, MidDialConfounds DEF StageTls
<1>4. /\ target' \in Targets
      /\ target'.active = target.active /\ target'.fallback = target.fallback
      /\ target'.tls = target.tls
  BY <1>0, <1>1 DEF NetTypes, Targets
<1>5. NetTypes'
  <2>1. OccupiedSlots' = OccupiedSlots
    BY <1>3 DEF OccupiedSlots
  <2> QED BY <1>0, <1>3, <1>4, <2>1 DEF NetTypes
<1>6. ASSUME ~netPast'.confounded PROVE DialIsCurrent' /\ WayBack'
  <2>1. dial.pc = "idle" /\ WayBack
    BY <1>3, <1>6 DEF NetInv, MidDial
  <2> QED BY <1>3, <1>4, <2>1 DEF DialIsCurrent, WayBack
<1> QED BY <1>5, <1>6 DEF NetInv

LEMMA RotateKeeps == NetInv /\ RotatePassword => NetInv'
<1> SUFFICES ASSUME NetInv, RotatePassword PROVE NetInv'
  OBVIOUS
<1>0. NetTypes
  BY DEF NetInv
<1>1. /\ password.current = "old"
      /\ password' = [current |-> "new", previous |-> password.current]
      /\ network' \in [down : {network.down}, accepts : Passwords]
      /\ UNCHANGED <<netProfiles, priority, target, dial, link, switcher>>
  BY DEF RotatePassword
<1>3. /\ netPast' \in Pasts
      /\ netPast'.proven = netPast.proven
      /\ netPast'.confounded = (netPast.confounded \/ MidDial)
  BY <1>0, MidDialConfounds DEF RotatePassword
<1>4. /\ password' \in [current : Passwords, previous : Passwords \cup {"none"}]
      /\ network' \in [down : BOOLEAN, accepts : Passwords]
      /\ network'.accepts \in {password'.current, password'.previous}
  BY <1>0, <1>1 DEF NetTypes, Passwords
<1>5. NetTypes'
  <2>1. OccupiedSlots' = OccupiedSlots
    BY <1>1 DEF OccupiedSlots
  <2> QED BY <1>0, <1>1, <1>3, <1>4, <2>1 DEF NetTypes
<1>6. ASSUME ~netPast'.confounded PROVE DialIsCurrent' /\ WayBack'
  <2>1. dial.pc = "idle" /\ WayBack
    BY <1>3, <1>6 DEF NetInv, MidDial
  <2> QED BY <1>1, <1>3, <1>4, <2>1 DEF DialIsCurrent, WayBack
<1> QED BY <1>5, <1>6 DEF NetInv

LEMMA SucceededTarget ==
  ASSUME NEW t \in Targets
  PROVE  /\ DialSucceeded(t) \in Targets /\ DialSucceeded(t).active = t.active
         /\ DialSucceeded(t).fallback = NoAddress
         /\ DialSucceeded(t).tls = IF t.pendingTls # "none" THEN t.pendingTls ELSE t.tls
<1> DEFINE c == IF t.pendingTls # "none" THEN t.pendingTls ELSE t.tls
           n == [t EXCEPT !.fallback = NoAddress, !.failures = 0, !.tls = c,
                          !.pendingTls = "none", !.tlsFailures = 0,
                          !.credentialFailures = 0]
<1>1. c \in TlsConfigs /\ 0 \in 0 .. 3 /\ 0 \in Nat
  BY DEF Targets
<1>2. DialSucceeded(t) = n
  BY DEF DialSucceeded
<1> HIDE DEF c
<1>3. n \in Targets /\ n.active = t.active /\ n.fallback = NoAddress /\ n.tls = c
  BY <1>1, Zenon DEF Targets
<1> HIDE DEF n
<1> QED BY <1>2, <1>3 DEF c

\* A dial that succeeds proves the address, and what else it carried.
LEMMA SuccessKeeps == NetInv /\ DialSucceeds => NetInv'
<1> SUFFICES ASSUME NetInv, DialSucceeds PROVE NetInv'
  OBVIOUS
<1>0. NetTypes
  BY DEF NetInv
<1>1. /\ dial.pc = "connecting" /\ CsmsAnswers
      /\ target' = DialSucceeded(target)
      /\ password' = IF dial.address = Origin
                     THEN [password EXCEPT !.previous = "none"] ELSE password
      /\ link' = dial.address
      /\ dial' = [dial EXCEPT !.pc = "idle"]
      /\ netPast' = [netPast EXCEPT !.proven = @ \cup {dial.address}]
      /\ UNCHANGED <<netProfiles, priority, switcher, network>>
  BY DEF DialSucceeds
<1>2. /\ target' \in Targets
      /\ target'.active = target.active /\ target'.fallback = NoAddress
      /\ target'.tls = IF target.pendingTls # "none" THEN target.pendingTls ELSE target.tls
  <2>1. target \in Targets
    BY <1>0 DEF NetTypes
  <2> QED BY <1>1, <2>1, SucceededTarget
<1>3. /\ password' \in [current : Passwords, previous : Passwords \cup {"none"}]
      /\ password'.current = password.current
      /\ dial.address # Origin => password' = password
  BY <1>0, <1>1 DEF NetTypes, Dials, Pasts
<1>4. /\ netPast' \in Pasts
      /\ netPast'.proven = netPast.proven \cup {dial.address}
      /\ netPast'.confounded = netPast.confounded
  BY <1>0, <1>1 DEF NetTypes, Dials, Pasts
<1>5. /\ dial' \in Dials
      /\ dial'.pc = "idle" /\ link' \in Addresses
  BY <1>0, <1>1 DEF NetTypes, Dials, Pasts
<1>6. NetTypes'
  <2>1. OccupiedSlots' = OccupiedSlots
    BY <1>1 DEF OccupiedSlots
  <2>2. target'.fallback # target'.active
    BY <1>2, NetAssumption DEF Addresses, Targets
  <2> QED BY <1>0, <1>1, <1>2, <1>3, <1>4, <1>5, <2>1, <2>2 DEF NetTypes
<1>7. ASSUME ~netPast'.confounded PROVE DialIsCurrent' /\ WayBack'
  <2>1. DialIsCurrent /\ WayBack
    BY <1>4, <1>7 DEF NetInv
  <2>2. /\ dial.address = target.active
        /\ dial.tls = IF target.pendingTls # "none" THEN target.pendingTls ELSE target.tls
        /\ dial.address = Origin => dial.password = password.current
    BY <1>1, <2>1 DEF DialIsCurrent
  <2>3. target'.tls = "good" /\ (dial.address = Origin => network.accepts = password.current)
    BY <1>1, <1>2, <2>2 DEF CsmsAnswers
  <2>4. network'.accepts \in {password'.current, password'.previous}
    BY <1>1, <1>3, <2>1, <2>3 DEF WayBack
  <2> QED BY <1>2, <1>4, <1>5, <2>2, <2>3, <2>4 DEF DialIsCurrent, WayBack
<1> QED BY <1>6, <1>7 DEF NetInv

\* Of a set with a single element at most, two members are the same.
LEMMA AtMostOne ==
  ASSUME NEW S, IsFiniteSet(S), ~(Cardinality(S) > 1), NEW x \in S, NEW y \in S
  PROVE  x = y
<1> SUFFICES ASSUME x # y PROVE FALSE
  OBVIOUS
<1>1. {x, y} \subseteq S
  OBVIOUS
<1>2. IsFiniteSet({x}) /\ Cardinality({x}) = 1
  BY FS_Singleton
<1>3. IsFiniteSet({x} \cup {y}) /\ Cardinality({x} \cup {y}) = Cardinality({x}) + 1
  BY <1>2, FS_AddElement
<1>4. Cardinality({x} \cup {y}) <= Cardinality(S) /\ Cardinality(S) \in Nat
  <2>1. {x} \cup {y} \subseteq S
    OBVIOUS
  <2> QED BY <2>1, FS_Subset, FS_CardinalityType
<1> QED BY <1>2, <1>3, <1>4

\* A dial that fails gives up at most the one change that was unproven.
LEMMA FailureKeeps == NetInv /\ DialFails => NetInv'
<1> SUFFICES ASSUME NetInv, DialFails PROVE NetInv'
  OBVIOUS
<1>0. NetTypes
  BY DEF NetInv
<1> DEFINE atOrigin == dial.address = Origin
           U == Unproven(target, password)
<1>1. /\ dial.pc = "connecting" /\ ~CsmsAnswers
      /\ target' = DialFailed(target, atOrigin)
      /\ password' = IF CredentialGivenUp(target, atOrigin) /\ password.previous # "none"
                     THEN [current |-> password.previous, previous |-> "none"]
                     ELSE password
      /\ dial' = [dial EXCEPT !.pc = "idle"]
      /\ netPast' = [netPast EXCEPT !.confounded = @
            \/ Cardinality(U) > 1
            \/ (network.down /\ U # {})
            \/ dial.address # target.active]
      /\ UNCHANGED <<netProfiles, priority, link, switcher, network>>
  BY DEF DialFails
<1>2. /\ target' \in Targets
      /\ target'.tls = target.tls
      /\ \/ target'.active = target.active /\ target'.fallback = target.fallback
         \/ /\ target.fallback # NoAddress
            /\ target'.active = target.fallback /\ target'.fallback = NoAddress
  <2> DEFINE failures    == AddOneUpTo3(target.failures)
             tlsFailures == IF target.pendingTls # "none" THEN target.tlsFailures + 1
                            ELSE target.tlsFailures
             credentials == IF atOrigin THEN target.credentialFailures + 1
                            ELSE target.credentialFailures
             dropTls     == target.pendingTls # "none" /\ tlsFailures >= target.attempts
             rollback    == failures >= target.attempts /\ target.fallback # NoAddress
             a == IF rollback THEN target.fallback ELSE target.active
             f == IF rollback THEN NoAddress ELSE target.fallback
             n == IF rollback THEN 0 ELSE failures
             p == IF dropTls THEN "none" ELSE target.pendingTls
             t == IF dropTls THEN 0 ELSE tlsFailures
             c == IF credentials >= target.attempts THEN 0 ELSE credentials
  <2>1. target' = [target EXCEPT !.active = a, !.fallback = f, !.failures = n,
                                 !.pendingTls = p, !.tlsFailures = t,
                                 !.credentialFailures = c]
    BY <1>1 DEF DialFailed
  <2>2. failures \in 0 .. 3 /\ tlsFailures \in Nat /\ credentials \in Nat
    BY <1>0 DEF NetTypes, Targets, AddOneUpTo3
  <2>3. /\ a \in Addresses /\ f \in Addresses \cup {NoAddress} /\ n \in 0 .. 3
        /\ p \in TlsConfigs \cup {"none"} /\ t \in Nat /\ c \in Nat
    BY <1>0, <2>2 DEF NetTypes, Targets
  <2>4. \/ a = target.active /\ f = target.fallback
        \/ target.fallback # NoAddress /\ a = target.fallback /\ f = NoAddress
    OBVIOUS
  <2> HIDE DEF a, f, n, p, t, c
  <2> QED BY <1>0, <2>1, <2>3, <2>4 DEF NetTypes, Targets
<1>3. password' \in [current : Passwords, previous : Passwords \cup {"none"}]
  BY <1>0, <1>1 DEF NetTypes, Dials, Pasts
<1>4. /\ netPast' \in Pasts
      /\ netPast'.proven = netPast.proven
      /\ ~netPast'.confounded =>
            /\ ~netPast.confounded /\ ~(Cardinality(U) > 1)
            /\ network.down => U = {}
            /\ dial.address = target.active
  BY <1>0, <1>1 DEF NetTypes, Dials, Pasts
<1>5. /\ dial' \in Dials
      /\ dial'.pc = "idle"
  BY <1>0, <1>1 DEF NetTypes, Dials, Pasts
<1>6. NetTypes'
  <2>1. OccupiedSlots' = OccupiedSlots
    BY <1>1 DEF OccupiedSlots
  <2>2. target'.fallback # target'.active
    BY <1>0, <1>2 DEF NetTypes
  <2> QED BY <1>0, <1>1, <1>2, <1>3, <1>4, <1>5, <2>1, <2>2 DEF NetTypes
<1>7. ASSUME ~netPast'.confounded PROVE DialIsCurrent' /\ WayBack'
  <2>1. DialIsCurrent /\ WayBack
    BY <1>4, <1>7 DEF NetInv
  <2>2. IF target'.fallback = NoAddress THEN target'.active \in netPast'.proven
        ELSE target'.fallback \in netPast'.proven
    BY <1>2, <1>4, <2>1 DEF WayBack
  <2>3. network'.accepts \in {password'.current, password'.previous}
    <3>1. CASE password' = password
      BY <1>1, <2>1, <3>1 DEF WayBack
    <3>2. CASE password' # password
      <4>1. atOrigin /\ password.previous # "none" /\ password'.current = password.previous
        BY <1>1, <3>2 DEF CredentialGivenUp
      <4>2. "password" \in U
        BY <4>1 DEF Unproven
      <4>3. ~network.down
        BY <1>4, <1>7, <4>2
      <4>4. IsFiniteSet(U)
        <5>1. U \subseteq {"address", "tls"} \cup {"password"}
          BY DEF Unproven
        <5>2. IsFiniteSet({"address"} \cup {"tls"} \cup {"password"})
          BY FS_Singleton, FS_AddElement
        <5> QED BY <5>1, <5>2, FS_Subset
      <4>5. "tls" \notin U
        BY <1>4, <1>7, <4>2, <4>4, AtMostOne
      <4>6. target.pendingTls = "none"
        BY <4>5 DEF Unproven
      <4>7. dial.tls = "good" /\ dial.password = password.current
        BY <1>1, <2>1, <4>1, <4>6 DEF DialIsCurrent, WayBack
      <4>8. network.accepts # password.current
        BY <1>1, <4>1, <4>3, <4>7, NetAssumption DEF CsmsAnswers
      <4> QED BY <1>1, <2>1, <4>1, <4>8 DEF WayBack
    <3> QED BY <3>1, <3>2
  <2> QED BY <1>2, <1>5, <2>1, <2>2, <2>3 DEF DialIsCurrent, WayBack
<1> QED BY <1>6, <1>7 DEF NetInv

LEMMA NetStep == NetInv /\ [NetNext]_netVars => NetInv'
<1> SUFFICES ASSUME NetInv, [NetNext]_netVars PROVE NetInv'
  OBVIOUS
<1>0. NetTypes
  BY DEF NetInv
<1>1. ASSUME UNCHANGED <<netProfiles, target, password, dial, link, network>>,
             priority' \in Seq(Slots \cup {0}), IsInjective(priority'),
             netPast' \in Pasts,
             netPast'.proven = netPast.proven, netPast'.confounded = netPast.confounded
      PROVE  NetInv'
  <2>1. OccupiedSlots' = OccupiedSlots
    BY <1>1 DEF OccupiedSlots
  <2>2. NetTypes'
    BY <1>0, <1>1, <2>1 DEF NetTypes
  <2>3. (~netPast.confounded => DialIsCurrent /\ WayBack)'
    BY <1>1, OthersKeepDial DEF NetInv
  <2> QED BY <2>2, <2>3 DEF NetInv
<1>2. CASE SetPriority
  <2>1. PICK order \in Orders : priority' = order
    BY <1>2 DEF SetPriority
  <2>2. order \in Seq(Slots \cup {0}) /\ IsInjective(order)
    <3>1. ASSUME NEW s \in Slots, order = <<s>>
          PROVE  order \in Seq(Slots \cup {0}) /\ IsInjective(order)
      BY <3>1 DEF IsInjective
    <3>2. ASSUME NEW s \in Slots, NEW t \in Slots, s # t, order = <<s, t>>
          PROVE  order \in Seq(Slots \cup {0}) /\ IsInjective(order)
      BY <3>2 DEF IsInjective
    <3> QED BY <2>1, <3>1, <3>2 DEF Orders
  <2>3. CountWrite /\ UNCHANGED <<netProfiles, target, password, dial, link, network>>
    BY <1>2 DEF SetPriority
  <2> QED BY <1>0, <1>1, <2>1, <2>2, <2>3, WriteCounted
\* Only the link and the network's state change.
<1>3. ASSUME UNCHANGED <<netProfiles, priority, target, password, dial>>,
             link' \in {link, NoAddress},
             network' \in [down : BOOLEAN, accepts : {network.accepts}],
             netPast' \in Pasts,
             netPast'.proven = netPast.proven, netPast'.confounded = netPast.confounded
      PROVE  NetInv'
  <2>1. OccupiedSlots' = OccupiedSlots
    BY <1>3 DEF OccupiedSlots
  <2>2. network' \in [down : BOOLEAN, accepts : Passwords]
        /\ network'.accepts = network.accepts
    BY <1>0, <1>3 DEF NetTypes
  <2>3. NetTypes'
    BY <1>0, <1>3, <2>1, <2>2 DEF NetTypes
  <2>4. (~netPast.confounded => DialIsCurrent /\ WayBack)'
    BY <1>3, <2>2 DEF NetInv, DialIsCurrent, WayBack
  <2> QED BY <2>3, <2>4 DEF NetInv
<1>n. network \in [down : BOOLEAN, accepts : {network.accepts}]
  BY <1>0 DEF NetTypes
<1>4. CASE GraceOver
  BY <1>0, <1>3, <1>4, <1>n DEF GraceOver, NetTypes
<1>5. CASE LinkDrops
  BY <1>0, <1>3, <1>5, <1>n DEF LinkDrops, NetTypes
<1>6. CASE Outage
  <2>1. /\ network' = [network EXCEPT !.down = TRUE] /\ link' = NoAddress
        /\ CountWrite /\ UNCHANGED <<netProfiles, priority, target, password, dial>>
    BY <1>6 DEF Outage
  <2>2. network' \in [down : BOOLEAN, accepts : {network.accepts}]
    BY <1>n, <2>1
  <2> QED BY <1>0, <1>3, <2>1, <2>2, WriteCounted
<1>7. CASE Restore
  BY <1>0, <1>3, <1>7 DEF Restore, NetTypes
<1>8. CASE DialBegins
  <2>1. /\ dial' = [pc |-> "jitter", address |-> target.active,
                    tls |-> "none", password |-> "none"]
        /\ link = NoAddress
        /\ UNCHANGED <<netProfiles, priority, target, password, link, switcher, network,
                       netPast>>
    BY <1>8 DEF DialBegins
  <2>2. OccupiedSlots' = OccupiedSlots
    BY <2>1 DEF OccupiedSlots
  <2>3. dial' \in Dials
    BY <1>0, <2>1 DEF NetTypes, Targets, Dials
  <2>4. NetTypes'
    BY <1>0, <2>1, <2>2, <2>3 DEF NetTypes
  <2>5. (~netPast.confounded => DialIsCurrent /\ WayBack)'
    BY <2>1 DEF NetInv, DialIsCurrent, WayBack
  <2> QED BY <2>4, <2>5 DEF NetInv
<1>9. CASE DialConnects
  <2> DEFINE carried == IF target.pendingTls # "none" THEN target.pendingTls
                        ELSE target.tls
             secret == IF dial.address = Origin THEN password.current ELSE "none"
  <2>1. /\ dial' = [dial EXCEPT !.pc = "connecting", !.tls = carried, !.password = secret]
        /\ dial.pc = "jitter"
        /\ UNCHANGED <<netProfiles, priority, target, password, link, network, netPast>>
    BY <1>9 DEF DialConnects
  <2>2. carried \in TlsConfigs /\ secret \in Passwords \cup {"none"}
    BY <1>0 DEF NetTypes, Targets
  <2>3. /\ dial' \in Dials
        /\ dial'.pc = "connecting" /\ dial'.address = dial.address
        /\ dial'.tls = carried /\ dial'.password = secret
    <3> HIDE DEF carried, secret
    <3> QED BY <1>0, <2>1, <2>2 DEF NetTypes, Dials
  <2>4. OccupiedSlots' = OccupiedSlots
    BY <2>1 DEF OccupiedSlots
  <2>5. link = NoAddress
    BY <1>0, <2>1 DEF NetTypes
  <2>6. NetTypes'
    BY <1>0, <2>1, <2>3, <2>4, <2>5 DEF NetTypes
  <2>7. (~netPast.confounded => DialIsCurrent /\ WayBack)'
    BY <2>1, <2>3 DEF NetInv, DialIsCurrent, WayBack
  <2> QED BY <2>6, <2>7 DEF NetInv
<1>10. CASE UNCHANGED netVars
  BY <1>0, <1>1, <1>10 DEF netVars, NetTypes
<1> QED
  BY <1>2, <1>4, <1>5, <1>6, <1>7, <1>8, <1>9, <1>10, SetProfileKeeps, SwitchKeeps,
     AttemptsKeeps, StageKeeps, RotateKeeps, SuccessKeeps, FailureKeeps
  DEF NetNext

LEMMA NetHolds == NetInv => TargetIsRecoverable
<1> SUFFICES ASSUME NetInv PROVE TargetIsRecoverable
  OBVIOUS
<1>1. NetTypes /\ (~netPast.confounded => WayBack)
  BY DEF NetInv
<1>2. NetTypeOK
  BY <1>1 DEF NetTypes, NetTypeOK, Held, Targets, Dials
<1>3. Recoverable
  BY <1>1 DEF Recoverable, WayBack
<1> QED BY <1>2, <1>3 DEF TargetIsRecoverable

-----------------------------------------------------------------------------
(* Provisioning.                                                            *)

Times == [stage : {"none", "answered", "compared"}, time : Int]

ProvTypes ==
    /\ csms \in [up : BOOLEAN, verdict : Verdicts, ahead : Int, drifted : BOOLEAN]
    /\ moves \in [all : Nat, steps : Nat, drift : Nat]
    /\ ticks \in Nat /\ reported \in Nat /\ disturbed \in Nat
    /\ heard \in [Callers -> Times]
    /\ anchor \in [time : Int, at : 0 .. ticks] \cup {NoAnchor}

\* How many reports are allowed so far, and how many comparisons are under way.
Budget == 1 + moves.steps + 2 * disturbed
Unjudged == Cardinality(Uncompared)

One(condition) == IF condition THEN 1 ELSE 0

\* One report is to spare, even if every comparison under way reports.
Spare == reported + Unjudged + 1 <= Budget

\* Nothing is in hand, and the estimate is off by a drift at most.
Attuned ==
    /\ InHand = {} /\ anchor # NoAnchor /\ reported <= Budget
    /\ CsmsTime - LocalEstimate \in IF csms.drifted THEN {0, 1} ELSE {0}

\* One answer is in hand.  It reports what it must, and if the CSMS's clock has
\* moved on since, the next answer will, too.
Alone ==
    \E a \in Callers :
        /\ InHand = {a}
        /\ reported + One(heard[a].stage = "answered" /\ IsStep(heard[a].time))
                    + One(heard[a].time # CsmsTime) <= Budget

\* The answers in hand say what the CSMS still says, and what is known.
Alike ==
    /\ InHand # {} /\ \A a \in InHand : heard[a].time = CsmsTime
    /\ ~IsStep(CsmsTime)
    /\ reported + Unjudged <= Budget

ClockInv == ProvTypes /\ (Spare \/ Attuned \/ Alone \/ Alike)

ProvInv ==
    /\ ClockInv
    /\ regLoop \in [Loops -> [pc : {"off", "sending", "applying", "syncing", "waiting"},
                              retry : FirstRetry .. MaxRetry, verdict : Verdicts]]
    /\ registration \in Verdicts
    /\ heartbeat \in [pc : {"idle", "waiting", "sending", "syncing"},
                      interval : Nat \ {0}]
    /\ hbVariable \in Nat /\ hbFallback \in Nat \ {0}

\* The comparisons under way are finitely many.
LEMMA UnjudgedNumber ==
  /\ IsFiniteSet(Uncompared) /\ Uncompared \subseteq InHand
  /\ Unjudged \in Nat
  /\ InHand = {} => Unjudged = 0
  /\ \A a : InHand = {a} => Unjudged = One(heard[a].stage = "answered")
<1>1. IsFiniteSet(Callers)
  BY ProvAssumption, FS_AddElement DEF Callers
<1>2. Uncompared \subseteq Callers /\ Uncompared \subseteq InHand
  BY DEF Uncompared, InHand
<1>3. IsFiniteSet(Uncompared)
  BY <1>1, <1>2, FS_Subset
<1>4. Unjudged \in Nat
  BY <1>3, FS_CardinalityType DEF Unjudged
<1>5. InHand = {} => Unjudged = 0
  BY <1>2, FS_EmptySet DEF Unjudged
<1>6. ASSUME NEW a, InHand = {a} PROVE Unjudged = One(heard[a].stage = "answered")
  <2>1. CASE heard[a].stage = "answered"
    <3>1. Uncompared = {a}
      BY <1>2, <1>6, <2>1 DEF Uncompared, InHand
    <3> QED BY <2>1, <3>1, FS_Singleton DEF Unjudged, One
  <2>2. CASE heard[a].stage # "answered"
    <3>1. Uncompared = {}
      BY <1>2, <1>6, <2>2 DEF Uncompared
    <3> QED BY <2>2, <3>1, FS_EmptySet DEF Unjudged, One
  <2> QED BY <2>1, <2>2
<1> QED BY <1>2, <1>3, <1>4, <1>5, <1>6

\* What the estimate makes of a time.
LEMMA Estimates ==
  ASSUME ProvTypes, anchor # NoAnchor
  PROVE  /\ LocalEstimate \in Int /\ CsmsTime \in Int
         /\ CsmsTime - LocalEstimate \in {0, 1} => ~IsStep(CsmsTime)
<1>1. anchor \in [time : Int, at : 0 .. ticks] /\ ticks \in Nat /\ csms.ahead \in Int
  BY DEF ProvTypes
<1>2. LocalEstimate \in Int /\ CsmsTime \in Int
  BY <1>1 DEF LocalEstimate, CsmsTime
<1>3. StepThreshold \in Nat /\ StepThreshold > 1
  BY ProvAssumption
<1> QED BY <1>2, <1>3 DEF IsStep

\* Whatever holds of the answers in hand, the budget is kept.
LEMMA WithinBudget ==
  ASSUME ClockInv
  PROVE  /\ reported <= Budget /\ Budget \in Nat
         /\ InHand # {} => reported + Unjudged <= Budget + 1
<1>1. Budget \in Nat /\ reported \in Nat
  BY DEF ClockInv, ProvTypes, Budget
<1>2. Unjudged \in Nat
  BY UnjudgedNumber
<1>3. CASE Alone
  <2>1. PICK a \in Callers :
           /\ InHand = {a}
           /\ reported + One(heard[a].stage = "answered" /\ IsStep(heard[a].time))
                       + One(heard[a].time # CsmsTime) <= Budget
    BY <1>3 DEF Alone
  <2>2. Unjudged \in {0, 1}
    BY <2>1, UnjudgedNumber DEF One
  <2> QED BY <1>1, <2>1, <2>2 DEF One
<1> QED BY <1>1, <1>2, <1>3 DEF ClockInv, Spare, Attuned, Alike

LEMMA ProvInitInv == ProvInit => ProvInv
<1> SUFFICES ASSUME ProvInit PROVE ProvInv
  OBVIOUS
<1>1. ProvTypes
  BY DEF ProvInit, ProvTypes, Verdicts, Times, NoTime
<1>2. InHand = {}
  BY DEF ProvInit, InHand, NoTime
<1>3. Spare
  BY <1>2, UnjudgedNumber DEF Spare, ProvInit, Budget
<1> QED BY <1>1, <1>3, ProvAssumption DEF ProvInit, ProvInv, ClockInv, Verdicts

\* What the clocks' invariant reads.
LEMMA ClockUntouched ==
  ASSUME ClockInv, UNCHANGED <<ticks, clockVars>>, ProvTypes',
         csms'.ahead = csms.ahead, csms'.drifted = csms.drifted,
         moves'.steps = moves.steps
  PROVE  ClockInv'
<1>1. UNCHANGED <<Budget, Uncompared, InHand, CsmsTime, LocalEstimate, heard, reported, anchor>>
  BY DEF clockVars, Budget, Uncompared, InHand, CsmsTime, LocalEstimate
<1>2. UNCHANGED <<Unjudged, \A t \in Int : IsStep(t)>> /\ \A t : IsStep(t)' <=> IsStep(t)
  BY <1>1 DEF Unjudged, IsStep
<1>3. CASE Spare
  BY <1>1, <1>2, <1>3 DEF Spare, ClockInv
<1>4. CASE Attuned
  BY <1>1, <1>4 DEF Attuned, ClockInv
<1>5. CASE Alone
  BY <1>1, <1>2, <1>5 DEF Alone, ClockInv
<1>6. CASE Alike
  BY <1>1, <1>2, <1>6 DEF Alike, ClockInv
<1> QED BY <1>3, <1>4, <1>5, <1>6 DEF ClockInv

\* An answer comes.  Alone, it reports what it must; with another in hand, two
\* more reports are allowed.
LEMMA AnswerKeepsClock ==
  ASSUME NEW a \in Callers, ClockInv, Answered(a), UNCHANGED <<ticks, moves>>
  PROVE  ClockInv'
<1>1. /\ heard' = [heard EXCEPT ![a] = [stage |-> "answered", time |-> CsmsTime]]
      /\ disturbed' = IF InHand = {} THEN disturbed ELSE disturbed + 1
      /\ csms' = [csms EXCEPT !.drifted = FALSE]
      /\ UNCHANGED <<anchor, reported>>
  BY DEF Answered
<1>2. /\ ProvTypes /\ heard \in [Callers -> Times] /\ csms.ahead \in Int /\ ticks \in Nat
      /\ disturbed \in Nat /\ reported \in Nat /\ moves.steps \in Nat
  BY DEF ClockInv, ProvTypes
<1>3. CsmsTime \in Int /\ CsmsTime' = CsmsTime /\ LocalEstimate' = LocalEstimate
      /\ \A t : IsStep(t)' <=> IsStep(t)
  BY <1>1, <1>2 DEF CsmsTime, LocalEstimate, IsStep, ProvTypes
<1>4. ProvTypes'
  <2>1. csms' \in [up : BOOLEAN, verdict : Verdicts, ahead : Int, drifted : BOOLEAN]
    BY <1>1, <1>2 DEF ProvTypes
  <2>2. [stage |-> "answered", time |-> CsmsTime] \in Times
    BY <1>3 DEF Times
  <2>3. heard' \in [Callers -> Times]
    BY <1>1, <1>2, <2>2
  <2>4. disturbed' \in Nat
    BY <1>1, <1>2
  <2> QED BY <1>1, <1>2, <2>1, <2>3, <2>4 DEF ProvTypes
<1>5. /\ InHand' = InHand \cup {a} /\ Uncompared' = Uncompared \cup {a}
      /\ \A b \in Callers : heard'[b] = IF b = a THEN [stage |-> "answered", time |-> CsmsTime]
                                        ELSE heard[b]
  BY <1>1, <1>2 DEF InHand, Uncompared
<1>6. Unjudged' <= Unjudged + 1 /\ Unjudged \in Nat /\ Unjudged' \in Nat
  <2>1. IsFiniteSet(Uncompared) /\ Cardinality(Uncompared) \in Nat
    BY UnjudgedNumber DEF Unjudged
  <2>2. Cardinality(Uncompared \cup {a}) =
           IF a \in Uncompared THEN Cardinality(Uncompared) ELSE Cardinality(Uncompared) + 1
    BY <2>1, FS_AddElement
  <2> QED BY <1>5, <2>1, <2>2 DEF Unjudged
<1>7. Budget \in Nat /\ reported <= Budget
      /\ Budget' = IF InHand = {} THEN Budget ELSE Budget + 2
  BY <1>1, <1>2, WithinBudget DEF Budget
<1>8. CASE InHand = {}
  <2>1. InHand' = {a} /\ heard'[a].time = CsmsTime' /\ Unjudged = 0
    BY <1>3, <1>5, <1>8, UnjudgedNumber
  <2>2. reported + One(IsStep(CsmsTime)) <= Budget
    <3>1. CASE Spare
      BY <1>2, <1>7, <2>1, <3>1 DEF Spare, One
    <3>2. CASE Attuned
      <4>1. ~IsStep(CsmsTime)
        BY <1>2, <3>2, Estimates DEF Attuned
      <4> QED BY <1>2, <1>7, <4>1 DEF One
    <3> QED BY <1>8, <3>1, <3>2 DEF ClockInv, Alone, Alike
  <2>3. Alone'
    BY <1>1, <1>2, <1>3, <1>5, <1>7, <1>8, <2>1, <2>2 DEF Alone, One
  <2> QED BY <1>4, <2>3 DEF ClockInv
<1>9. CASE InHand # {}
  <2>1. ASSUME reported + Unjudged <= Budget PROVE Spare'
    BY <1>1, <1>2, <1>6, <1>7, <1>9, <2>1 DEF Spare
  <2>2. CASE Alike
    BY <1>4, <2>1, <2>2 DEF ClockInv, Alike
  <2>3. CASE Spare
    BY <1>2, <1>4, <1>6, <1>7, <2>1, <2>3 DEF ClockInv, Spare
  <2>4. CASE Alone
    <3>1. PICK b \in Callers :
             /\ InHand = {b}
             /\ reported + One(heard[b].stage = "answered" /\ IsStep(heard[b].time))
                         + One(heard[b].time # CsmsTime) <= Budget
      BY <2>4 DEF Alone
    <3>2. Unjudged = One(heard[b].stage = "answered")
      BY <3>1, UnjudgedNumber
    <3>3. CASE heard[b].stage # "answered" \/ IsStep(heard[b].time) \/ heard[b].time # CsmsTime
      <4>1. reported + Unjudged <= Budget
        BY <1>2, <1>7, <3>1, <3>2, <3>3 DEF One
      <4> QED BY <1>4, <2>1, <4>1 DEF ClockInv
    <3>4. CASE heard[b].stage = "answered" /\ ~IsStep(heard[b].time) /\ heard[b].time = CsmsTime
      <4>1. \A c \in InHand' : heard'[c].time = CsmsTime'
        BY <1>3, <1>5, <3>1, <3>4
      <4>2. reported' + Unjudged' <= Budget'
        BY <1>1, <1>2, <1>6, <1>7, <1>9, <3>2, <3>4 DEF One
      <4>3. InHand' # {} /\ ~IsStep(CsmsTime)'
        BY <1>3, <1>5, <3>4
      <4>4. Alike'
        BY <4>1, <4>2, <4>3 DEF Alike
      <4> QED BY <1>4, <4>4 DEF ClockInv
    <3> QED BY <3>3, <3>4
  <2> QED BY <1>9, <2>2, <2>3, <2>4 DEF ClockInv, Attuned
<1> QED BY <1>8, <1>9

\* A comparison reports a step, once.
LEMMA CompareKeepsClock == ClockInv /\ Compares => ClockInv'
<1> SUFFICES ASSUME ClockInv, Compares PROVE ClockInv'
  OBVIOUS
<1>1. PICK a \in Callers :
         /\ heard[a].stage = "answered"
         /\ heard' = [heard EXCEPT ![a].stage = "compared"]
         /\ reported' = IF IsStep(heard[a].time) THEN reported + 1 ELSE reported
         /\ UNCHANGED <<csms, ticks, anchor, disturbed, moves>>
  BY DEF Compares
<1>2. ProvTypes /\ heard \in [Callers -> Times] /\ reported \in Nat
  BY DEF ClockInv, ProvTypes
<1>3. /\ UNCHANGED <<CsmsTime, LocalEstimate, Budget>>
      /\ \A t : IsStep(t)' <=> IsStep(t)
  BY <1>1 DEF CsmsTime, LocalEstimate, IsStep, Budget
<1>4. ProvTypes'
  BY <1>1, <1>2 DEF ProvTypes, Times
<1>5. /\ InHand' = InHand /\ Uncompared' = Uncompared \ {a} /\ a \in Uncompared /\ a \in InHand
      /\ \A b \in Callers : heard'[b].time = heard[b].time
      /\ heard'[a].stage = "compared"
  BY <1>1, <1>2 DEF InHand, Uncompared, Times
<1>6. Unjudged' = Unjudged - 1 /\ Unjudged \in Nat
  BY <1>5, UnjudgedNumber, FS_RemoveElement DEF Unjudged
<1>7. Budget \in Nat
  BY WithinBudget
<1>8. CASE Spare
  BY <1>1, <1>2, <1>3, <1>4, <1>6, <1>7, <1>8 DEF ClockInv, Spare
<1>9. CASE Alone
  <2>1. /\ InHand = {a}
        /\ reported + One(heard[a].stage = "answered" /\ IsStep(heard[a].time))
                    + One(heard[a].time # CsmsTime) <= Budget
    BY <1>5, <1>9 DEF Alone
  <2>2. reported' + One(heard[a].time # CsmsTime) <= Budget
    BY <1>1, <1>2, <1>7, <2>1 DEF One
  <2>3. reported' \in Nat /\ One(FALSE) = 0 /\ One(heard[a].time # CsmsTime) \in Nat
    BY <1>1, <1>2 DEF One
  <2>4. (heard'[a].stage = "answered") = FALSE
    BY <1>5
  <2>5. One(heard[a].stage = "answered" /\ IsStep(heard[a].time))' = 0
    BY <2>4 DEF One
  <2>6. Alone'
    BY <1>3, <1>5, <2>1, <2>2, <2>3, <2>5 DEF Alone
  <2> QED BY <1>4, <2>6 DEF ClockInv
<1>10. CASE Alike
  <2>1. reported' = reported
    BY <1>1, <1>5, <1>10 DEF Alike
  <2>2. Alike'
    BY <1>2, <1>3, <1>5, <1>6, <1>7, <1>10, <2>1 DEF Alike, InHand
  <2> QED BY <1>4, <2>2 DEF ClockInv
<1> QED BY <1>5, <1>8, <1>9, <1>10 DEF ClockInv, Attuned

\* The anchor moves to what a caller of sync_time was told.
LEMMA AnchorKeepsClock ==
  ASSUME NEW a \in Callers, ClockInv, Anchored(a)
  PROVE  ClockInv'
<1>1. /\ heard[a].stage = "compared" /\ heard' = [heard EXCEPT ![a] = NoTime]
      /\ anchor' = [time |-> heard[a].time, at |-> ticks]
      /\ UNCHANGED <<csms, ticks, reported, disturbed, moves>>
  BY DEF Anchored, MovesAnchor
<1>2. ProvTypes /\ heard \in [Callers -> Times] /\ reported \in Nat /\ ticks \in Nat
      /\ heard[a].time \in Int
  BY DEF ClockInv, ProvTypes, Times
<1>3. /\ UNCHANGED <<CsmsTime, Budget>>
      /\ LocalEstimate' = heard[a].time /\ anchor' # NoAnchor
  BY <1>1, <1>2 DEF CsmsTime, LocalEstimate, Budget, NoAnchor
<1>4. ProvTypes'
  BY <1>1, <1>2 DEF ProvTypes, Times, NoTime
<1>5. /\ InHand' = InHand \ {a} /\ Uncompared' = Uncompared /\ a \in InHand
      /\ \A b \in InHand' : heard'[b] = heard[b]
  BY <1>1, <1>2 DEF InHand, Uncompared, Times, NoTime
<1>6. Unjudged' = Unjudged /\ Unjudged \in Nat
  BY <1>5, UnjudgedNumber DEF Unjudged
<1>7. Budget \in Nat /\ reported <= Budget
  BY WithinBudget
<1>8. CASE Spare
  BY <1>1, <1>3, <1>4, <1>6, <1>8 DEF ClockInv, Spare
<1>9. ASSUME heard[a].time = CsmsTime
      PROVE  /\ ~IsStep(CsmsTime)'
             /\ InHand' = {} => Attuned'
  <2>1. CsmsTime' - LocalEstimate' = 0
    BY <1>2, <1>3, <1>9 DEF ProvTypes
  <2>2. CsmsTime' \in Int /\ LocalEstimate' \in Int /\ StepThreshold \in Nat \ {0, 1}
    BY <1>2, <1>3, <1>9, ProvAssumption
  <2>3. ~IsStep(CsmsTime)'
    BY <1>3, <2>1, <2>2 DEF IsStep
  <2>4. CsmsTime' - LocalEstimate' \in IF csms'.drifted THEN {0, 1} ELSE {0}
    BY <2>1
  <2> QED BY <1>1, <1>3, <1>7, <2>3, <2>4 DEF Attuned
<1>10. CASE Alone
  <2>1. /\ InHand = {a}
        /\ reported + One(heard[a].stage = "answered" /\ IsStep(heard[a].time))
                    + One(heard[a].time # CsmsTime) <= Budget
    BY <1>5, <1>10 DEF Alone
  <2>2. InHand' = {} /\ Unjudged = 0
    BY <1>1, <1>5, <1>6, <2>1, UnjudgedNumber DEF One
  <2>3. CASE heard[a].time # CsmsTime
    <3>1. reported + 1 <= Budget
      BY <1>1, <1>2, <1>7, <2>1, <2>3 DEF One
    <3> QED BY <1>1, <1>2, <1>3, <1>4, <1>6, <1>7, <2>2, <3>1 DEF ClockInv, Spare
  <2>4. CASE heard[a].time = CsmsTime
    BY <1>4, <1>9, <2>2, <2>4 DEF ClockInv
  <2> QED BY <2>3, <2>4
<1>11. CASE Alike
  <2>1. heard[a].time = CsmsTime
    BY <1>5, <1>11 DEF Alike
  <2>2. InHand' # {} => Alike'
    BY <1>1, <1>3, <1>5, <1>6, <1>9, <1>11, <2>1 DEF Alike
  <2> QED BY <1>4, <1>9, <2>1, <2>2 DEF ClockInv
<1> QED BY <1>5, <1>8, <1>10, <1>11 DEF ClockInv, Attuned

\* Time passes.  Between answers the estimate keeps up with the CSMS; while one
\* is in hand two more reports are allowed.
LEMMA TickKeepsClock == ProvInv /\ HeartbeatSent => ClockInv'
<1> SUFFICES ASSUME ProvInv, HeartbeatSent PROVE ClockInv'
  OBVIOUS
<1>1. /\ ticks' = ticks + heartbeat.interval /\ heartbeat.interval \in Nat
      /\ disturbed' = IF InHand = {} THEN disturbed ELSE disturbed + 1
      /\ UNCHANGED <<csms, anchor, heard, reported, moves>>
  BY DEF HeartbeatSent, ProvInv
<1>2. ClockInv /\ ProvTypes /\ ticks \in Nat /\ disturbed \in Nat /\ csms.ahead \in Int
      /\ anchor \in [time : Int, at : 0 .. ticks] \cup {NoAnchor} /\ reported \in Nat
      /\ moves.steps \in Nat
  BY DEF ProvInv, ClockInv, ProvTypes
<1>3. ProvTypes'
  BY <1>1, <1>2 DEF ProvTypes
<1>4. UNCHANGED <<InHand, Uncompared, Unjudged>> /\ Unjudged \in Nat
  BY <1>1, UnjudgedNumber DEF InHand, Uncompared, Unjudged
<1>5. Budget \in Nat /\ Budget' = IF InHand = {} THEN Budget ELSE Budget + 2
  BY <1>1, <1>2 DEF Budget
<1>6. CASE InHand = {}
  <2>1. CASE Spare
    BY <1>1, <1>3, <1>4, <1>5, <1>6, <2>1 DEF Spare, ClockInv
  <2>2. CASE Attuned
    <3>1. anchor \in [time : Int, at : 0 .. ticks]
      BY <1>2, <2>2 DEF Attuned
    <3>2. CsmsTime' - LocalEstimate' = CsmsTime - LocalEstimate
      BY <1>1, <1>2, <3>1 DEF CsmsTime, LocalEstimate
    <3> QED BY <1>1, <1>3, <1>4, <1>5, <1>6, <2>2, <3>2 DEF Attuned, ClockInv
  <2> QED BY <1>2, <1>6, <2>1, <2>2 DEF ClockInv, Alone, Alike
<1>7. CASE InHand # {}
  <2>1. reported + Unjudged <= Budget + 1
    BY <1>2, <1>7, WithinBudget
  <2> QED BY <1>1, <1>2, <1>3, <1>4, <1>5, <1>7, <2>1 DEF Spare, ClockInv
<1> QED BY <1>6, <1>7

\* The CSMS's clock steps: one more report is allowed.
LEMMA StepKeepsClock ==
  ASSUME ClockInv, ProvTypes', UNCHANGED <<ticks, clockVars>>,
         csms'.drifted = csms.drifted, moves'.steps = moves.steps + 1
  PROVE  ClockInv'
<1>1. ProvTypes /\ reported \in Nat /\ moves.steps \in Nat /\ disturbed \in Nat
  BY DEF ClockInv, ProvTypes
<1>2. /\ UNCHANGED <<heard, anchor, reported, disturbed, InHand, Uncompared, Unjudged, LocalEstimate>>
      /\ Unjudged \in Nat
  BY UnjudgedNumber DEF clockVars, InHand, Uncompared, Unjudged, LocalEstimate
<1>3. Budget \in Nat /\ Budget' = Budget + 1
  BY <1>1, <1>2 DEF Budget
<1>4. \A t : IsStep(t)' <=> IsStep(t)
  BY <1>2 DEF IsStep
<1>5. ASSUME reported + Unjudged <= Budget PROVE Spare'
  BY <1>1, <1>2, <1>3, <1>5 DEF Spare
<1>6. CASE Spare \/ Attuned \/ Alike
  <2>1. reported + Unjudged <= Budget
    BY <1>1, <1>2, <1>3, <1>6, UnjudgedNumber DEF Spare, Attuned, Alike
  <2> QED BY <1>5, <2>1 DEF ClockInv
<1>7. CASE Alone
  <2>1. PICK a \in Callers :
           /\ InHand = {a}
           /\ reported + One(heard[a].stage = "answered" /\ IsStep(heard[a].time))
                       + One(heard[a].time # CsmsTime) <= Budget
    BY <1>7 DEF Alone
  <2> DEFINE own == One(heard[a].stage = "answered" /\ IsStep(heard[a].time))
  <2>2. /\ own \in {0, 1} /\ One(heard[a].time # CsmsTime) \in {0, 1}
        /\ One(heard[a].time # CsmsTime') \in {0, 1}
    BY DEF One
  <2>3. reported + own + One(heard[a].time # CsmsTime') <= Budget'
    BY <1>1, <1>3, <2>1, <2>2
  <2>4. own = One(heard[a].stage = "answered" /\ IsStep(heard[a].time))'
    BY <1>2, <1>4 DEF One
  <2> HIDE DEF own
  <2>5. Alone'
    BY <1>2, <2>1, <2>3, <2>4 DEF Alone
  <2> QED BY <2>5 DEF ClockInv
<1> QED BY <1>6, <1>7 DEF ClockInv

\* It drifts, between answers.
LEMMA DriftKeepsClock ==
  ASSUME ClockInv, ProvTypes', UNCHANGED <<ticks, clockVars>>, InHand = {}, ~csms.drifted,
         csms'.ahead = csms.ahead + 1, csms'.drifted = TRUE, moves'.steps = moves.steps
  PROVE  ClockInv'
<1>1. UNCHANGED <<Budget, Uncompared, InHand, Unjudged, LocalEstimate, reported, anchor>>
  BY DEF clockVars, Budget, Uncompared, InHand, Unjudged, LocalEstimate
<1>2. CASE Spare
  BY <1>1, <1>2 DEF Spare, ClockInv
<1>3. CASE Attuned
  <2>1. CsmsTime - LocalEstimate = 0 /\ LocalEstimate \in Int
    BY <1>3, Estimates DEF Attuned, ClockInv
  <2>2. CsmsTime' = CsmsTime + 1 /\ CsmsTime \in Int
    BY DEF CsmsTime, ClockInv, ProvTypes
  <2>3. CsmsTime' - LocalEstimate' = 1
    BY <1>1, <2>1, <2>2
  <2> QED BY <1>1, <1>3, <2>3 DEF Attuned, ClockInv
<1> QED BY <1>2, <1>3 DEF ClockInv, Alone, Alike

LEMMA ProvStep == ProvInv /\ [ProvNext]_provVars => ProvInv'
<1> SUFFICES ASSUME ProvInv, [ProvNext]_provVars PROVE ProvInv'
  OBVIOUS
<1> USE DEF ProvInv
<1>0. /\ FirstRetry \in FirstRetry .. MaxRetry /\ FirstRetry \in Nat \ {0} /\ MaxRetry \in Nat
      /\ StepThreshold \in Nat
  BY ProvAssumption
<1>t. ProvTypes /\ csms.verdict \in Verdicts
  BY DEF ClockInv, ProvTypes
<1>u. ASSUME UNCHANGED <<ticks, clockVars, csms>>, moves'.steps = moves.steps,
             moves' \in [all : Nat, steps : Nat, drift : Nat]
      PROVE  ClockInv'
  <2>1. ProvTypes'
    BY <1>t, <1>u DEF ProvTypes, clockVars
  <2> QED BY <1>u, <2>1, ClockUntouched
<1>v. moves \in [all : Nat, steps : Nat, drift : Nat]
  BY <1>t DEF ProvTypes
<1>w. \A l \in Loops : Concluded(l) \in [pc : {"off", "waiting"},
                                         retry : FirstRetry .. MaxRetry, verdict : Verdicts]
  BY DEF Concluded, Verdicts
<1>1. CASE Reregister
  <2>1. csms' = [csms EXCEPT !.up = TRUE] /\ UNCHANGED <<ticks, clockVars, moves>>
    BY <1>1 DEF Reregister
  <2>2. ProvTypes' /\ csms'.ahead = csms.ahead /\ csms'.drifted = csms.drifted
    BY <1>t, <2>1 DEF ProvTypes, clockVars
  <2>3. ClockInv'
    BY <2>1, <2>2, ClockUntouched
  <2>4. PICK l \in Loops :
           regLoop' = [regLoop EXCEPT ![l] = [@ EXCEPT !.pc = "sending", !.retry = FirstRetry]]
    BY <1>1 DEF Reregister
  <2>5. [regLoop[l] EXCEPT !.pc = "sending", !.retry = FirstRetry]
           \in [pc : {"sending"}, retry : FirstRetry .. MaxRetry, verdict : Verdicts]
    BY <1>0
  <2>6. regLoop' \in [Loops -> [pc : {"off", "sending", "applying", "syncing", "waiting"},
                                retry : FirstRetry .. MaxRetry, verdict : Verdicts]]
    BY <2>4, <2>5
  <2> QED BY <1>1, <2>3, <2>6 DEF Reregister
<1>2. CASE BootAnswered
  <2>1. PICK l \in Loops :
           /\ regLoop' = [regLoop EXCEPT ![l] =
                 [pc |-> "applying", retry |-> FirstRetry, verdict |-> csms.verdict]]
           /\ Answered(l) \/ Unreadable
           /\ UNCHANGED <<registration, heartbeat, hbVariable, hbFallback, ticks, moves>>
    BY <1>2 DEF BootAnswered
  <2>2. ClockInv'
    <3>1. CASE Answered(l)
      BY <2>1, <3>1, AnswerKeepsClock DEF Callers
    <3>2. CASE Unreadable
      BY <1>u, <1>v, <2>1, <3>2 DEF Unreadable
    <3> QED BY <2>1, <3>1, <3>2
  <2> QED BY <1>0, <1>t, <2>1, <2>2
<1>3. CASE BootApplied
  <2>1. ClockInv'
    BY <1>3, <1>u, <1>v DEF BootApplied
  <2> QED BY <1>3, <1>w, <2>1 DEF BootApplied
<1>4. CASE Compares
  <2>1. ClockInv'
    BY <1>4, CompareKeepsClock
  <2> QED BY <1>4, <2>1 DEF Compares
<1>5. CASE BootAnchors
  <2>1. PICK l \in Loops :
           /\ Anchored(l) /\ regLoop' = [regLoop EXCEPT ![l] = Concluded(l)] /\ UNCHANGED heartbeat
    BY <1>5 DEF BootAnchors
  <2>2. ClockInv'
    BY <2>1, AnchorKeepsClock DEF Callers
  <2> QED BY <1>w, <2>1, <2>2 DEF Anchored
<1>6. CASE BootFailed
  <2>1. ClockInv'
    BY <1>6, <1>u, <1>v DEF BootFailed
  <2>2. \A r \in FirstRetry .. MaxRetry : Lesser(2 * r, MaxRetry) \in FirstRetry .. MaxRetry
    BY <1>0 DEF Lesser
  <2>3. PICK l \in Loops :
           regLoop' = [regLoop EXCEPT ![l] = FailedLoop(l)]
    BY <1>6 DEF BootFailed
  <2>4. FailedLoop(l) \in [pc : {"waiting"}, retry : FirstRetry .. MaxRetry, verdict : Verdicts]
    BY <2>2 DEF FailedLoop
  <2>5. regLoop' \in [Loops -> [pc : {"off", "sending", "applying", "syncing", "waiting"},
                                retry : FirstRetry .. MaxRetry, verdict : Verdicts]]
    BY <2>3, <2>4
  <2> QED BY <1>6, <2>1, <2>5 DEF BootFailed
<1>7. CASE BootRetries
  <2>1. ClockInv'
    BY <1>7, <1>u, <1>v DEF BootRetries
  <2> QED BY <1>7, <2>1 DEF BootRetries
<1>8. CASE HeartbeatWaits
  <2>1. ClockInv'
    BY <1>8, <1>u, <1>v DEF HeartbeatWaits
  <2> QED BY <1>8, <2>1 DEF HeartbeatWaits, HeartbeatInterval
<1>9. CASE HeartbeatSent
  BY <1>9, TickKeepsClock DEF HeartbeatSent
<1>10. CASE HeartbeatAnswered
  <2>1. ClockInv'
    <3>1. CASE Answered(Heart)
      BY <1>10, <3>1, AnswerKeepsClock DEF Callers, HeartbeatAnswered
    <3>2. CASE Unreadable
      BY <1>10, <1>u, <1>v, <3>2 DEF Unreadable, HeartbeatAnswered
    <3> QED BY <1>10, <3>1, <3>2 DEF HeartbeatAnswered
  <2> QED BY <1>10, <2>1 DEF HeartbeatAnswered
<1>11. CASE HeartbeatAnchors
  <2>1. ClockInv'
    BY <1>11, AnchorKeepsClock DEF Callers, HeartbeatAnchors
  <2> QED BY <1>11, <2>1 DEF HeartbeatAnchors, Anchored
<1>12. CASE SetHeartbeatInterval
  <2>1. moves' \in [all : Nat, steps : Nat, drift : Nat] /\ moves'.steps = moves.steps
    BY <1>12, <1>v DEF SetHeartbeatInterval
  <2>2. hbVariable' \in Nat
    BY <1>12, ProvAssumption DEF SetHeartbeatInterval
  <2>3. ClockInv'
    BY <1>12, <1>u, <2>1 DEF SetHeartbeatInterval
  <2> QED BY <1>12, <2>2, <2>3 DEF SetHeartbeatInterval
<1>13. CASE CsmsMoves
  <2>1. UNCHANGED <<regLoop, registration, heartbeat, hbVariable, hbFallback, ticks, clockVars>>
    BY <1>13 DEF CsmsMoves
  <2>2. ASSUME csms' \in [up : BOOLEAN, verdict : Verdicts, ahead : Int, drifted : BOOLEAN],
               csms'.ahead = csms.ahead, csms'.drifted = csms.drifted,
               moves' = [moves EXCEPT !.all = @ + 1]
        PROVE  ClockInv'
    <3>1. ProvTypes' /\ moves'.steps = moves.steps
      BY <1>t, <1>v, <2>1, <2>2 DEF ProvTypes, clockVars
    <3> QED BY <2>1, <2>2, <3>1, ClockUntouched
  <2>3. ASSUME NEW v \in Verdicts, csms' = [csms EXCEPT !.verdict = v],
               moves' = [moves EXCEPT !.all = @ + 1]
        PROVE  ClockInv'
    <3>1. /\ csms' \in [up : BOOLEAN, verdict : Verdicts, ahead : Int, drifted : BOOLEAN]
          /\ csms'.ahead = csms.ahead /\ csms'.drifted = csms.drifted
      BY <1>t, <2>3 DEF ProvTypes
    <3> QED BY <2>2, <2>3, <3>1
  <2>4. ASSUME NEW by \in {StepThreshold, -StepThreshold},
               csms' = [csms EXCEPT !.ahead = @ + by],
               moves' = [all |-> moves.all + 1, steps |-> moves.steps + 1,
                         drift |-> moves.drift]
        PROVE  ClockInv'
    <3>1. by \in Int
      BY <1>0
    <3>2. csms' \in [up : BOOLEAN, verdict : Verdicts, ahead : Int, drifted : BOOLEAN]
          /\ csms'.drifted = csms.drifted
      BY <1>t, <2>4, <3>1 DEF ProvTypes
    <3>3. moves' \in [all : Nat, steps : Nat, drift : Nat] /\ moves'.steps = moves.steps + 1
      BY <1>v, <2>4
    <3>4. ProvTypes'
      BY <1>t, <2>1, <3>2, <3>3 DEF ProvTypes, clockVars
    <3> QED BY <2>1, <3>2, <3>3, <3>4, StepKeepsClock
  <2>5. ASSUME csms' = [csms EXCEPT !.up = FALSE], moves' = [moves EXCEPT !.all = @ + 1]
        PROVE  ClockInv'
    <3>1. /\ csms' \in [up : BOOLEAN, verdict : Verdicts, ahead : Int, drifted : BOOLEAN]
          /\ csms'.ahead = csms.ahead /\ csms'.drifted = csms.drifted
      BY <1>t, <2>5 DEF ProvTypes
    <3> QED BY <2>2, <2>5, <3>1
  <2>6. ClockInv'
    BY <1>13, <2>3, <2>4, <2>5 DEF CsmsMoves
  <2> QED BY <2>1, <2>6
<1>14. CASE ClockDrifts
  <2>1. UNCHANGED <<regLoop, registration, heartbeat, hbVariable, hbFallback, ticks, clockVars>>
    BY <1>14 DEF ClockDrifts
  <2>2. /\ csms' \in [up : BOOLEAN, verdict : Verdicts, ahead : Int, drifted : BOOLEAN]
        /\ csms'.ahead = csms.ahead + 1 /\ csms'.drifted = TRUE
        /\ ~csms.drifted /\ InHand = {}
    <3>1. csms' = [up |-> csms.up, verdict |-> csms.verdict, ahead |-> csms.ahead + 1,
                   drifted |-> TRUE]
      BY <1>14, <1>t DEF ClockDrifts, ProvTypes
    <3> QED BY <1>14, <1>t, <3>1 DEF ClockDrifts, ProvTypes
  <2>3. moves' \in [all : Nat, steps : Nat, drift : Nat] /\ moves'.steps = moves.steps
    BY <1>14, <1>v DEF ClockDrifts
  <2>4. ProvTypes'
    BY <1>t, <2>1, <2>2, <2>3 DEF ProvTypes, clockVars
  <2>5. ClockInv'
    BY <2>1, <2>2, <2>3, <2>4, DriftKeepsClock
  <2> QED BY <2>1, <2>5
<1>15. CASE UNCHANGED provVars
  <2>1. ClockInv'
    BY <1>15, <1>u, <1>v DEF provVars, clockVars
  <2> QED BY <1>15, <2>1 DEF provVars
<1> QED
  BY <1>1, <1>2, <1>3, <1>4, <1>5, <1>6, <1>7, <1>8, <1>9, <1>10, <1>11, <1>12, <1>13,
     <1>14, <1>15
  DEF ProvNext, ProvSteps

LEMMA ProvHolds == ProvInv => ProvTypeOK /\ StepsNotDrift
<1> SUFFICES ASSUME ProvInv PROVE ProvTypeOK /\ StepsNotDrift
  OBVIOUS
<1>1. StepsNotDrift
  BY WithinBudget DEF ProvInv, StepsNotDrift, Budget
<1>2. anchor = NoAnchor \/ anchor.at \in 0 .. ticks
  BY DEF ProvInv, ClockInv, ProvTypes
<1> QED BY <1>1, <1>2 DEF ProvInv, ProvTypeOK

-----------------------------------------------------------------------------
(* CertificateRenewal.                                                      *)

\* Powers of two grow: the subsets of a smaller set are fewer.
LEMMA PowersGrow ==
  ASSUME NEW m \in Nat, NEW n \in Nat, m <= n
  PROVE  2^m \in Nat /\ 2^n \in Nat /\ 2^m <= 2^n
<1>1. \A k \in Nat : /\ IsFiniteSet(SUBSET (1 .. k))
                     /\ Cardinality(SUBSET (1 .. k)) = 2^k
                     /\ 2^k \in Nat
  <2> SUFFICES ASSUME NEW k \in Nat
               PROVE  /\ IsFiniteSet(SUBSET (1 .. k))
                      /\ Cardinality(SUBSET (1 .. k)) = 2^k
                      /\ 2^k \in Nat
    OBVIOUS
  <2>1. IsFiniteSet(1 .. k) /\ Cardinality(1 .. k) = k
    <3>1. IsFiniteSet(1 .. k) /\ Cardinality(1 .. k) = IF 1 > k THEN 0 ELSE k - 1 + 1
      BY FS_Interval
    <3> QED BY <3>1
  <2>2. IsFiniteSet(SUBSET (1 .. k)) /\ Cardinality(SUBSET (1 .. k)) = 2^Cardinality(1 .. k)
    BY <2>1, FS_SUBSET
  <2>3. Cardinality(SUBSET (1 .. k)) \in Nat
    BY <2>2, FS_CardinalityType
  <2> QED BY <2>1, <2>2, <2>3
<1>2. SUBSET (1 .. m) \subseteq SUBSET (1 .. n)
  OBVIOUS
<1>3. Cardinality(SUBSET (1 .. m)) <= Cardinality(SUBSET (1 .. n))
  BY <1>1, <1>2, FS_Subset
<1> QED BY <1>1, <1>3

LEMMA ProductGrows ==
  ASSUME NEW w \in Nat, NEW a \in Nat, NEW b \in Nat, a <= b
  PROVE  w * a \in Nat /\ w * b \in Nat /\ w * a <= w * b
  BY SMTT(60)

\* The back-off of a resend is at most that of the last one.
LEMMA BackOffGrows ==
  ASSUME NEW n \in 0 .. RepeatTimes
  PROVE  BackOff(n) \in Nat /\ BackOff(n) <= BackOff(RepeatTimes)
                     /\ BackOff(RepeatTimes) \in Nat
<1>1. n \in Nat /\ RepeatTimes \in Nat /\ n <= RepeatTimes /\ WaitMinimum \in Nat
  BY RenewalAssumption
<1>2. 2^n \in Nat /\ 2^RepeatTimes \in Nat /\ 2^n <= 2^RepeatTimes
  BY <1>1, PowersGrow
<1> DEFINE p == 2^n
           q == 2^RepeatTimes
<1>3. p \in Nat /\ q \in Nat /\ p <= q
  BY <1>2
<1>5. BackOff(n) = WaitMinimum * p /\ BackOff(RepeatTimes) = WaitMinimum * q
  BY DEF BackOff
<1> HIDE DEF p, q
<1>4. WaitMinimum * p \in Nat /\ WaitMinimum * q \in Nat /\ WaitMinimum * p <= WaitMinimum * q
  BY <1>1, <1>3, ProductGrows
<1> QED BY <1>4, <1>5

\* Certificates of the first n requests.
CertificatesOf(n) == [req : 0 .. n, key : 0 .. n, good : BOOLEAN]

\* What an asker holds: at ease, or a request under a key no newer than it.
Asks(s, n) ==
    /\ s \in [pc : {"idle", "asking", "taken", "recording"}, req : 0 .. n, key : 0 .. n]
    /\ s.pc # "idle" => s.req \in 1 .. n /\ s.key \in 1 .. s.req

CertInv ==
    /\ asked \in Nat
    /\ slot \in [key : 0 .. asked, backup : CertificatesOf(asked) \cup {NoBackup}]
    /\ installed \in CertificatesOf(asked)
    /\ pending \in [req : 0 .. asked, waited : 0 .. BackOff(RepeatTimes),
                    resends : 0 .. RepeatTimes]
    /\ askers \in [Askers -> [pc : {"idle", "asking", "taken", "recording"},
                              req : 0 .. asked, key : 0 .. asked]]
    /\ \A a \in Askers : Asks(askers[a], asked)
    /\ \A csr \in csrs : csr.req \in 1 .. asked /\ csr.key \in 1 .. csr.req
    /\ resent = pending.resends

LEMMA CertInitInv == CertInit => CertInv
<1> SUFFICES ASSUME CertInit PROVE CertInv
  OBVIOUS
<1>1. RepeatTimes \in Nat /\ 0 \in 0 .. RepeatTimes /\ BackOff(RepeatTimes) \in Nat
  <2>1. RepeatTimes \in Nat
    BY RenewalAssumption
  <2> QED BY <2>1, BackOffGrows
<1>2. AtEase \in [pc : {"idle", "asking", "taken", "recording"}, req : 0 .. 0, key : 0 .. 0]
  BY DEF AtEase, NoKey
<1>3. Factory \in CertificatesOf(0) /\ NoCsr \in [req : 0 .. 0,
         waited : 0 .. BackOff(RepeatTimes), resends : 0 .. RepeatTimes]
  BY <1>1 DEF Factory, NoKey, NoCsr, CertificatesOf
<1> QED BY <1>1, <1>2, <1>3 DEF CertInit, CertInv, Asks, AtEase, NoKey, NoCsr

LEMMA CertStep == CertInv /\ [CertNext]_certVars => CertInv'
<1> SUFFICES ASSUME CertInv, [CertNext]_certVars PROVE CertInv'
  OBVIOUS
<1> USE DEF CertInv
<1>a. RepeatTimes \in Nat /\ 0 \in 0 .. RepeatTimes /\ BackOff(RepeatTimes) \in Nat
  <2>1. RepeatTimes \in Nat
    BY RenewalAssumption
  <2> QED BY <2>1, BackOffGrows
\* Asking: one request more, under a key of the first of them.
<1>b. ASSUME NEW a \in Askers, Ask(a)
      PROVE  /\ asked' \in Nat /\ asked' = asked + 1
             /\ askers' \in [Askers -> [pc : {"idle", "asking", "taken", "recording"},
                                        req : 0 .. asked', key : 0 .. asked']]
             /\ \A b \in Askers : Asks(askers[b], asked)'
             /\ CertificatesOf(asked) \subseteq CertificatesOf(asked')
  <2>1. asked' = asked + 1 /\ asked' \in Nat
    BY <1>b DEF Ask
  <2> DEFINE new == [pc |-> "asking", req |-> asked + 1,
                     key |-> IF slot.key = NoKey THEN asked + 1 ELSE slot.key]
  <2>2. askers' = [askers EXCEPT ![a] = new]
    BY <1>b DEF Ask
  <2>3. slot.key \in 0 .. asked
    OBVIOUS
  <2>4. Asks(new, asked + 1)
    BY <2>3 DEF Asks, NoKey
  <2>5. \A b \in Askers : Asks(askers[b], asked + 1)
    BY DEF Asks
  <2> HIDE DEF new
  <2>6. \A b \in Askers : Asks(askers'[b], asked + 1)
    BY <2>2, <2>4, <2>5
  <2>7. askers' \in [Askers -> [pc : {"idle", "asking", "taken", "recording"},
                                req : 0 .. asked + 1, key : 0 .. asked + 1]]
    BY <2>2, <2>4, <2>5 DEF Asks
  <2>8. CertificatesOf(asked) \subseteq CertificatesOf(asked + 1)
    BY DEF CertificatesOf
  <2> QED BY <2>1, <2>6, <2>7, <2>8
<1>1. CASE Sweep
  <2>1. Ask("sweep") /\ "sweep" \in Askers
    BY <1>1 DEF Sweep, Askers
  <2>2. slot' \in [key : 0 .. asked', backup : CertificatesOf(asked') \cup {NoBackup}]
    <3>1. slot' = slot \/ slot' = [slot EXCEPT !.backup = installed]
      BY <1>1 DEF Sweep
    <3> QED BY <3>1, <2>1, <1>b
  <2> QED BY <1>1, <1>b, <2>1, <2>2 DEF Sweep
<1>2. CASE RetryTick
  <2>0. "retry" \in Askers
    BY DEF Askers
  <2>1. CASE Expired
    <3>1. /\ Ask("retry")
          /\ pending' = [pending EXCEPT !.waited = 0, !.resends = @ + 1]
          /\ resent' = resent + 1 /\ pending.resends < RepeatTimes
          /\ UNCHANGED <<slot, installed, overdue, csrs, triggered>>
      BY <1>2, <2>1 DEF RetryTick, MayResend
    <3>2. pending' \in [req : 0 .. asked', waited : 0 .. BackOff(RepeatTimes),
                        resends : 0 .. RepeatTimes]
      <4> DEFINE most == BackOff(RepeatTimes)
      <4>1. pending' = [req |-> pending.req, waited |-> 0,
                        resends |-> pending.resends + 1]
        BY <3>1
      <4>2. most \in Nat /\ 0 \in 0 .. most
        BY <1>a
      <4>3. pending.resends + 1 \in 0 .. RepeatTimes /\ pending.req \in 0 .. asked'
        BY <1>a, <1>b, <2>0, <3>1
      <4> QED BY <4>1, <4>2, <4>3
    <3>3. pending'.resends = pending.resends + 1
      BY <3>1
    <3> QED BY <1>b, <2>0, <3>1, <3>2, <3>3
  <2>2. CASE ~Expired
    <3>1. /\ pending' = [pending EXCEPT !.waited = Waited]
          /\ UNCHANGED <<askers, asked, resent, slot, installed, overdue, csrs, triggered>>
      BY <1>2, <2>2 DEF RetryTick
    <3>2. Waited = pending.waited + 1 /\ ~(Waited >= BackOff(pending.resends))
      BY <2>2 DEF Expired, Waited
    <3>3. Waited \in 0 .. BackOff(RepeatTimes)
      BY <3>2, BackOffGrows, <1>a
    <3> QED BY <3>1, <3>3
  <2> QED BY <2>1, <2>2
<1>3. ASSUME NEW a \in Askers, CsmsTakes(a) PROVE CertInv'
  <2>1. askers' = [askers EXCEPT ![a].pc = "taken"] /\ askers[a].pc = "asking"
    BY <1>3 DEF CsmsTakes
  <2>2. \A b \in Askers : Asks(askers'[b], asked)
    BY <2>1 DEF Asks
  <2>3. \A csr \in csrs' : csr.req \in 1 .. asked /\ csr.key \in 1 .. csr.req
    BY <1>3, <2>1 DEF CsmsTakes, Asks
  <2>4. askers' \in [Askers -> [pc : {"idle", "asking", "taken", "recording"},
                                req : 0 .. asked, key : 0 .. asked]]
    BY <2>1
  <2> QED BY <1>3, <2>2, <2>3, <2>4 DEF CsmsTakes
<1>4. ASSUME NEW a \in Askers, AskFails(a) PROVE CertInv'
  <2>1. Asks(AtEase, asked)
    BY DEF Asks, AtEase, NoKey
  <2> QED BY <1>4, <2>1 DEF AskFails, Asks
<1>5. ASSUME NEW a \in Askers, Accepted(a) PROVE CertInv'
  <2>1. /\ askers' = [askers EXCEPT ![a].pc = "recording"] /\ askers[a].pc = "taken"
        /\ pending' = [req |-> askers[a].req, waited |-> 0, resends |-> pending.resends]
    BY <1>5 DEF Accepted, RecordSent
  <2>2. \A b \in Askers : Asks(askers'[b], asked)
    BY <2>1 DEF Asks
  <2>3. askers' \in [Askers -> [pc : {"idle", "asking", "taken", "recording"},
                                req : 0 .. asked, key : 0 .. asked]]
    BY <2>1
  <2> QED BY <1>5, <1>a, <2>1, <2>2, <2>3 DEF Accepted
<1>6. ASSUME NEW a \in Askers, NEW ok \in BOOLEAN, RecordKeyPair(a, ok) PROVE CertInv'
  <2>1. Asks(AtEase, asked)
    BY DEF Asks, AtEase, NoKey
  <2>2. askers[a].key \in 0 .. asked
    OBVIOUS
  <2>3. slot' \in [key : 0 .. asked, backup : CertificatesOf(asked) \cup {NoBackup}]
    BY <1>6, <2>2 DEF RecordKeyPair
  <2> QED BY <1>6, <2>1, <2>3 DEF RecordKeyPair, Asks
<1>7. ASSUME NEW csr \in csrs, CsmsForgets(csr) PROVE CertInv'
  BY <1>7 DEF CsmsForgets
<1>8. ASSUME NEW csr \in csrs, NEW ok \in BOOLEAN, NEW good \in BOOLEAN,
             CertificateSigned(csr, ok, good)
      PROVE  CertInv'
  <2>1. [req |-> csr.req, key |-> csr.key, good |-> good] \in CertificatesOf(asked)
    BY DEF CertificatesOf
  <2>2. installed' \in CertificatesOf(asked)
    BY <1>8, <2>1 DEF CertificateSigned
  <2>3. csrs' \subseteq csrs /\ UNCHANGED <<slot, askers, asked>>
    BY <1>8 DEF CertificateSigned
  <2>4. \/ pending' = NoCsr /\ resent' = 0
        \/ UNCHANGED <<pending, resent>>
    BY <1>8 DEF CertificateSigned
  <2>5. /\ NoCsr \in [req : 0 .. asked, waited : 0 .. BackOff(RepeatTimes),
                      resends : 0 .. RepeatTimes]
        /\ NoCsr.resends = 0
    BY <1>a DEF NoCsr
  <2> QED BY <2>2, <2>3, <2>4, <2>5
<1>9. CASE Restart
  <2> DEFINE most == BackOff(RepeatTimes)
  <2>1. pending' = [req |-> pending.req, waited |-> 0, resends |-> 0] /\ resent' = 0
    BY <1>9 DEF Restart
  <2>2. most \in Nat /\ 0 \in 0 .. most
    BY <1>a
  <2>3. pending' \in [req : 0 .. asked, waited : 0 .. most, resends : 0 .. RepeatTimes]
    BY <2>1, <2>2, <1>a
  <2> QED BY <1>9, <2>1, <2>3 DEF Restart
<1>10. CASE ConfirmRenewal
  BY <1>10 DEF ConfirmRenewal
<1>11. CASE DiscardRenewal
  BY <1>11 DEF DiscardRenewal
<1>12. CASE UNCHANGED certVars
  BY <1>12 DEF certVars
<1> QED
  BY <1>1, <1>2, <1>3, <1>4, <1>5, <1>6, <1>7, <1>8, <1>9, <1>10, <1>11, <1>12
  DEF CertNext, AskerSteps

LEMMA CertHolds == CertInv => CertTypeOK /\ ResendsAreBounded
  BY DEF CertInv, CertTypeOK, ResendsAreBounded, CertificatesOf

-----------------------------------------------------------------------------
(* StatusReporting.                                                         *)

Notices == [socket : Sockets, status : Statuses]

\* Of no entry of the queue is socket s.
Absent(q, s) == \A i \in DOMAIN q : q[i].socket # s

\* The last queued change of each connector is its present status.
Agrees(q, now) ==
    \A i \in DOMAIN q :
        (\A j \in DOMAIN q : j > i => q[j].socket # q[i].socket)
            => q[i].status = now[q[i].socket]

\* No queued change repeats the one before it of the same connector, nor the
\* first of a connector what was last sent of it.
Alternates(q, last) ==
    \A i \in DOMAIN q :
        /\ (\A j \in 1 .. i - 1 : q[j].socket # q[i].socket)
              => q[i].status # last[q[i].socket]
        /\ \A j \in 1 .. i - 1 :
              /\ q[j].socket = q[i].socket
              /\ \A k \in j + 1 .. i - 1 : q[k].socket # q[i].socket
              => q[j].status # q[i].status

StatTypes ==
    /\ socket \in [Sockets -> Statuses]
    /\ backlog \in Seq(Notices) /\ Len(backlog) <= QueueCap
    /\ forwarder \in {"idle", "settling", "sending"}
    /\ forwarder # "idle" => backlog # <<>>
    /\ forwarder = "settling" => Debounced
    /\ lastSent \in [Sockets -> Statuses \cup {"none"}]
    /\ picture \in [Sockets -> Statuses \cup {"none"}]
    /\ sweeps \in [Sweepers -> Seq(Notices)]
    /\ contact \in {"fresh", "stale"}

\* A snapshot still to be reported is not yet out of date.
SweepsAreTrue ==
    \A w \in Sweepers : \A r \in ToSet(sweeps[w]) : r.status = socket[r.socket]

\* Where nothing is queued for a connector, the filter remembers its present
\* status or none, and the CSMS has it, or a sweep brings it or is owed.
NothingForgotten ==
    \A s \in Sockets : Absent(backlog, s) =>
        /\ lastSent[s] \in {"none", socket[s]}
        /\ picture[s] = socket[s] \/ Sweeping(s) \/ ~wasAccepted

\* Under a debounce the filter and the CSMS agree, and no sweep goes round the
\* queue; without one there is nothing to filter.
FilterIsRight ==
    IF Debounced
    THEN /\ \A s \in Sockets : lastSent[s] # "none" => picture[s] = lastSent[s]
         /\ \A s \in Sockets : Sweeping(s) => Absent(backlog, s)
    ELSE Alternates(backlog, lastSent)

StatInv ==
    /\ StatTypes
    /\ Agrees(backlog, socket)
    /\ mishaps = {} => SweepsAreTrue /\ NothingForgotten /\ FilterIsRight

-----------------------------------------------------------------------------
(* The queue. *)

LEMMA TailParts ==
  ASSUME NEW q \in Seq(Notices), q # <<>>
  PROVE  /\ Len(q) \in Nat \ {0} /\ DOMAIN q = 1 .. Len(q)
         /\ Head(q) = q[1] /\ Head(q) \in Notices
         /\ Tail(q) \in Seq(Notices) /\ DOMAIN Tail(q) = 1 .. Len(q) - 1
         /\ Len(Tail(q)) = Len(q) - 1
         /\ \A i \in 1 .. Len(q) - 1 : Tail(q)[i] = q[i + 1]
  OBVIOUS

LEMMA AppendParts ==
  ASSUME NEW q \in Seq(Notices), NEW r \in Notices
  PROVE  LET a == Append(q, r)
             n == Len(q)
         IN  /\ n \in Nat /\ DOMAIN q = 1 .. n
             /\ a \in Seq(Notices) /\ Len(a) = n + 1 /\ DOMAIN a = 1 .. n + 1
             /\ \A i \in 1 .. n : a[i] = q[i]
             /\ a[n + 1] = r
  OBVIOUS

\* What is true of a connector's entries after the front was removed.
LEMMA AbsentTail ==
  ASSUME NEW q \in Seq(Notices), q # <<>>, NEW s
  PROVE  /\ Absent(q, s) => Absent(Tail(q), s)
         /\ Absent(Tail(q), s) /\ s # Head(q).socket => Absent(q, s)
<1>1. ASSUME Absent(q, s) PROVE Absent(Tail(q), s)
  BY <1>1, TailParts DEF Absent
<1>2. ASSUME Absent(Tail(q), s), s # Head(q).socket, NEW i \in DOMAIN q
      PROVE  q[i].socket # s
  <2>1. CASE i = 1
    BY <1>2, <2>1, TailParts
  <2>2. CASE i # 1
    <3>1. i - 1 \in DOMAIN Tail(q) /\ Tail(q)[i - 1] = q[i]
      BY <1>2, <2>2, TailParts
    <3> QED BY <1>2, <3>1 DEF Absent
  <2> QED BY <2>1, <2>2
<1> QED BY <1>1, <1>2 DEF Absent

LEMMA AgreesTail ==
  ASSUME NEW q \in Seq(Notices), q # <<>>, NEW now, Agrees(q, now)
  PROVE  Agrees(Tail(q), now)
<1> SUFFICES ASSUME NEW i \in DOMAIN Tail(q),
                    \A j \in DOMAIN Tail(q) : j > i => Tail(q)[j].socket # Tail(q)[i].socket
             PROVE  Tail(q)[i].status = now[Tail(q)[i].socket]
  BY DEF Agrees
<1>1. i + 1 \in DOMAIN q /\ Tail(q)[i] = q[i + 1] /\ i \in Nat
  BY TailParts
<1>2. ASSUME NEW j \in DOMAIN q, j > i + 1 PROVE q[j].socket # q[i + 1].socket
  <2>1. j - 1 \in DOMAIN Tail(q) /\ j - 1 > i /\ Tail(q)[j - 1] = q[j]
    BY <1>1, <1>2, TailParts
  <2> QED BY <1>1, <2>1
<1> QED BY <1>1, <1>2 DEF Agrees

\* The front tells a connector's present status unless another entry follows.
LEMMA HeadIsPresent ==
  ASSUME NEW q \in Seq(Notices), q # <<>>, NEW now, Agrees(q, now),
         Absent(Tail(q), Head(q).socket)
  PROVE  Head(q).status = now[Head(q).socket]
<1>1. 1 \in DOMAIN q /\ Head(q) = q[1]
  BY TailParts
<1>2. ASSUME NEW j \in DOMAIN q, j > 1 PROVE q[j].socket # q[1].socket
  <2>1. j - 1 \in DOMAIN Tail(q) /\ Tail(q)[j - 1] = q[j]
    BY <1>2, TailParts
  <2> QED BY <1>1, <2>1 DEF Absent
<1> QED BY <1>1, <1>2 DEF Agrees

LEMMA AgreesAppend ==
  ASSUME NEW q \in Seq(Notices), NEW now \in [Sockets -> Statuses], Agrees(q, now),
         NEW s \in Sockets, NEW v \in Statuses
  PROVE  Agrees(Append(q, [socket |-> s, status |-> v]), [now EXCEPT ![s] = v])
<1> DEFINE r == [socket |-> s, status |-> v]
           a == Append(q, r)
           f == [now EXCEPT ![s] = v]
           n == Len(q)
<1>1. r \in Notices /\ r.socket = s /\ r.status = v
  BY DEF Notices
<1>2. /\ n \in Nat /\ DOMAIN q = 1 .. n /\ DOMAIN a = 1 .. n + 1
      /\ \A i \in 1 .. n : a[i] = q[i] /\ q[i] \in Notices
      /\ a[n + 1] = r
  BY <1>1, AppendParts
<1>3. f[s] = v /\ \A t \in Sockets : t # s => f[t] = now[t]
  OBVIOUS
<1> HIDE DEF a, f, r, n
<1> SUFFICES ASSUME NEW i \in 1 .. n + 1,
                    \A j \in 1 .. n + 1 : j > i => a[j].socket # a[i].socket
             PROVE  a[i].status = f[a[i].socket]
  BY <1>2 DEF Agrees, a, f, r
<1>4. CASE i = n + 1
  BY <1>1, <1>2, <1>3, <1>4
<1>5. CASE i # n + 1
  <2>1. i \in 1 .. n /\ n + 1 > i
    BY <1>2, <1>5
  <2>2. q[i].socket # s /\ q[i] \in Notices /\ a[i] = q[i]
    BY <1>1, <1>2, <2>1
  <2>3. \A j \in 1 .. n : j > i => q[j].socket # q[i].socket
    BY <1>2, <2>1
  <2>4. q[i].status = now[q[i].socket]
    BY <1>2, <2>1, <2>3 DEF Agrees
  <2> QED BY <1>3, <2>2, <2>4 DEF Notices
<1> QED BY <1>4, <1>5

LEMMA AlternatesTail ==
  ASSUME NEW q \in Seq(Notices), q # <<>>, NEW last \in [Sockets -> Statuses \cup {"none"}],
         Alternates(q, last)
  PROVE  Alternates(Tail(q), [last EXCEPT ![Head(q).socket] = Head(q).status])
<1> DEFINE h == Head(q)
           t == Tail(q)
           l == [last EXCEPT ![h.socket] = h.status]
           n == Len(q)
<1>1. /\ n \in Nat \ {0} /\ DOMAIN q = 1 .. n /\ h = q[1] /\ h \in Notices
      /\ t \in Seq(Notices) /\ DOMAIN t = 1 .. n - 1
      /\ \A i \in 1 .. n - 1 : t[i] = q[i + 1]
  BY TailParts
<1>2. \A i \in 1 .. n : q[i].socket \in Sockets /\ q[i].status \in Statuses
  <2>1. \A i \in 1 .. n : q[i] \in Notices
    OBVIOUS
  <2> HIDE DEF n
  <2> QED BY <2>1 DEF Notices
<1>3. l[h.socket] = h.status /\ \A s \in Sockets : s # h.socket => l[s] = last[s]
  <2>1. h.socket \in Sockets
    BY <1>1 DEF Notices
  <2> HIDE DEF h
  <2> QED BY <2>1
<1> HIDE DEF h, t, l, n
<1> SUFFICES ASSUME NEW i \in 1 .. n - 1
             PROVE  /\ (\A j \in 1 .. i - 1 : t[j].socket # t[i].socket)
                          => t[i].status # l[t[i].socket]
                    /\ \A j \in 1 .. i - 1 :
                          /\ t[j].socket = t[i].socket
                          /\ \A k \in j + 1 .. i - 1 : t[k].socket # t[i].socket
                          => t[j].status # t[i].status
  BY <1>1 DEF Alternates, h, t, l
<1>i. i \in Nat /\ i >= 1 /\ i + 1 \in 1 .. n /\ t[i] = q[i + 1]
  BY <1>1
<1>4. ASSUME \A j \in 1 .. i - 1 : t[j].socket # t[i].socket
      PROVE  t[i].status # l[t[i].socket]
  <2>1. \A k \in 2 .. i : q[k].socket # q[i + 1].socket
    <3> SUFFICES ASSUME NEW k \in 2 .. i PROVE q[k].socket # q[i + 1].socket
      OBVIOUS
    <3>1. k - 1 \in 1 .. i - 1 /\ k - 1 \in 1 .. n - 1 /\ t[k - 1] = q[k]
      BY <1>1, <1>i
    <3> QED BY <1>4, <1>i, <3>1
  <2>2. CASE q[1].socket = q[i + 1].socket
    <3>1. 1 \in 1 .. (i + 1) - 1 /\ \A k \in 1 + 1 .. (i + 1) - 1 : q[k].socket # q[i + 1].socket
      BY <1>i, <2>1
    <3>2. q[1].status # q[i + 1].status
      BY <1>1, <1>i, <2>2, <3>1 DEF Alternates
    <3> QED BY <1>1, <1>3, <1>i, <2>2, <3>2
  <2>3. CASE q[1].socket # q[i + 1].socket
    <3>1. \A k \in 1 .. (i + 1) - 1 : q[k].socket # q[i + 1].socket
      BY <1>i, <2>1, <2>3
    <3>2. q[i + 1].status # last[q[i + 1].socket]
      BY <1>1, <1>i, <3>1 DEF Alternates
    <3> QED BY <1>1, <1>2, <1>3, <1>i, <2>3, <3>2
  <2> QED BY <2>2, <2>3
<1>5. ASSUME NEW j \in 1 .. i - 1, t[j].socket = t[i].socket,
             \A k \in j + 1 .. i - 1 : t[k].socket # t[i].socket
      PROVE  t[j].status # t[i].status
  <2>1. j + 1 \in 1 .. (i + 1) - 1 /\ j \in 1 .. n - 1 /\ t[j] = q[j + 1]
    BY <1>1, <1>i
  <2>2. \A k \in (j + 1) + 1 .. (i + 1) - 1 : q[k].socket # q[i + 1].socket
    <3> SUFFICES ASSUME NEW k \in (j + 1) + 1 .. (i + 1) - 1
                 PROVE  q[k].socket # q[i + 1].socket
      OBVIOUS
    <3>1. k - 1 \in j + 1 .. i - 1 /\ k - 1 \in 1 .. n - 1 /\ t[k - 1] = q[k]
      BY <1>1, <1>i, <2>1
    <3> QED BY <1>5, <1>i, <3>1
  <2> QED BY <1>1, <1>5, <1>i, <2>1, <2>2 DEF Alternates
<1> QED BY <1>4, <1>5

LEMMA AlternatesAppend ==
  ASSUME NEW q \in Seq(Notices), NEW now \in [Sockets -> Statuses], Agrees(q, now),
         NEW last, Alternates(q, last),
         NEW s \in Sockets, NEW v \in Statuses, v # now[s],
         Absent(q, s) => v # last[s]
  PROVE  Alternates(Append(q, [socket |-> s, status |-> v]), last)
<1> DEFINE r == [socket |-> s, status |-> v]
           a == Append(q, r)
           n == Len(q)
<1>1. r \in Notices /\ r.socket = s /\ r.status = v
  BY DEF Notices
<1>2. /\ n \in Nat /\ DOMAIN q = 1 .. n /\ DOMAIN a = 1 .. n + 1
      /\ \A i \in 1 .. n : a[i] = q[i]
      /\ a[n + 1] = r
  BY <1>1, AppendParts
<1> HIDE DEF a, r, n
<1> SUFFICES ASSUME NEW i \in 1 .. n + 1
             PROVE  /\ (\A j \in 1 .. i - 1 : a[j].socket # a[i].socket)
                          => a[i].status # last[a[i].socket]
                    /\ \A j \in 1 .. i - 1 :
                          /\ a[j].socket = a[i].socket
                          /\ \A k \in j + 1 .. i - 1 : a[k].socket # a[i].socket
                          => a[j].status # a[i].status
  BY <1>2 DEF Alternates, a, r
<1>3. CASE i \in 1 .. n
  <2>1. a[i] = q[i] /\ \A j \in 1 .. i - 1 : a[j] = q[j] /\ j \in 1 .. n
    BY <1>2, <1>3
  <2>2. \A j \in 1 .. i - 1 : \A k \in j + 1 .. i - 1 : a[k] = q[k]
    BY <1>2, <1>3
  <2>3. ASSUME \A j \in 1 .. i - 1 : a[j].socket # a[i].socket
        PROVE  a[i].status # last[a[i].socket]
    <3>1. \A j \in 1 .. i - 1 : q[j].socket # q[i].socket
      BY <2>1, <2>3
    <3> QED BY <1>2, <1>3, <2>1, <3>1 DEF Alternates
  <2>4. ASSUME NEW j \in 1 .. i - 1, a[j].socket = a[i].socket,
               \A k \in j + 1 .. i - 1 : a[k].socket # a[i].socket
        PROVE  a[j].status # a[i].status
    <3>1. q[j].socket = q[i].socket /\ \A k \in j + 1 .. i - 1 : q[k].socket # q[i].socket
      BY <2>1, <2>2, <2>4
    <3>2. q[j].status # q[i].status
      BY <1>2, <1>3, <3>1 DEF Alternates
    <3> QED BY <2>1, <3>2
  <2> QED BY <2>3, <2>4
<1>4. CASE i = n + 1
  <2>1. a[i] = r /\ i - 1 = n
    BY <1>2, <1>4
  <2>2. ASSUME \A j \in 1 .. n : a[j].socket # s PROVE v # last[s]
    BY <1>2, <2>2 DEF Absent
  <2>3. ASSUME NEW j \in 1 .. n, a[j].socket = s, \A k \in j + 1 .. n : a[k].socket # s
        PROVE  a[j].status # v
    <3>1. \A k \in DOMAIN q : k > j => q[k].socket # q[j].socket
      BY <1>2, <2>3
    <3>2. q[j].status = now[q[j].socket]
      BY <1>2, <3>1 DEF Agrees
    <3> QED BY <1>2, <2>3, <3>2
  <2> QED BY <1>1, <1>4, <2>1, <2>2, <2>3
<1> QED BY <1>2, <1>3, <1>4

-----------------------------------------------------------------------------
(* The sweeps. *)

\* An enumeration of a finite set has all of it.
LEMMA EnumerationIsWhole ==
  ASSUME NEW S, IsFiniteSet(S)
  PROVE  SetToSeq(S) \in Seq(S) /\ ToSet(SetToSeq(S)) = S
<1> DEFINE q == SetToSeq(S)
           n == Cardinality(S)
<1>1. n \in Nat /\ ExistsBijection(1 .. n, S) /\ Cardinality(1 .. n) = n
  BY FS_CardinalityType, FS_Interval
<1>2. q \in [1 .. n -> S] /\ IsInjective(q)
  BY <1>1 DEF SetToSeq, ExistsBijection, Bijection, Injection
<1> HIDE DEF q, n
<1>3. q \in Surjection(1 .. n, S)
  <2>1. q \in Injection(1 .. n, S)
    BY <1>2 DEF Injection
  <2> QED BY <1>1, <2>1, FS_Injection DEF n
<1>4. DOMAIN q = 1 .. n /\ q \in Seq(S)
  BY <1>1, <1>2
<1> QED BY <1>3, <1>4 DEF Surjection, ToSet, q

\* The snapshot a sweep takes has every connector's present status, and only it.
LEMMA SnapshotIsWhole ==
  ASSUME NEW now \in [Sockets -> Statuses]
  PROVE  /\ AllConnectorStatuses(now) \in Seq(Notices)
         /\ \A r \in ToSet(AllConnectorStatuses(now)) : r.status = now[r.socket]
         /\ \A s \in Sockets : \E r \in ToSet(AllConnectorStatuses(now)) : r.socket = s
<1> DEFINE S == {[socket |-> s, status |-> now[s]] : s \in Sockets}
           q == SetToSeq(S)
<1>1. S \subseteq Notices
  BY DEF Notices
<1>2. IsFiniteSet(S)
  <2> DEFINE f == [s \in Sockets |-> [socket |-> s, status |-> now[s]]]
  <2>1. f \in Surjection(Sockets, S)
    BY DEF Surjection
  <2> HIDE DEF f, S
  <2> QED BY <2>1, StatusAssumption, FS_Surjection
<1>3. q \in Seq(S) /\ ToSet(q) = S
  <2> HIDE DEF S
  <2> QED BY <1>2, EnumerationIsWhole
<1>4. DOMAIN now = Sockets /\ AllConnectorStatuses(now) = q
  BY DEF AllConnectorStatuses
<1>5. \A r \in S : r.status = now[r.socket]
  OBVIOUS
<1>6. \A s \in Sockets : \E r \in S : r.socket = s
  <2> SUFFICES ASSUME NEW s \in Sockets PROVE \E r \in S : r.socket = s
    OBVIOUS
  <2>1. [socket |-> s, status |-> now[s]] \in S
    OBVIOUS
  <2> HIDE DEF S
  <2> QED BY <2>1
<1> HIDE DEF S, q
<1> QED BY <1>1, <1>3, <1>4, <1>5, <1>6

-----------------------------------------------------------------------------
(* The invariant. *)

Sound == SweepsAreTrue /\ NothingForgotten /\ FilterIsRight

LEMMA StatInitInv == StatusInit => StatInv
<1> SUFFICES ASSUME StatusInit PROVE StatInv
  OBVIOUS
<1>1. StatTypes
  BY StatusAssumption DEF StatusInit, StatTypes, Sweepers, Notices
<1>2. Agrees(backlog, socket) /\ Alternates(backlog, lastSent)
      /\ \A s : Absent(backlog, s)
  BY DEF StatusInit, Agrees, Alternates, Absent
<1>3. SweepsAreTrue
  BY DEF StatusInit, SweepsAreTrue, ToSet
<1>4. NothingForgotten
  BY DEF StatusInit, NothingForgotten
<1>5. FilterIsRight
  BY <1>2 DEF StatusInit, FilterIsRight
<1> QED BY <1>1, <1>2, <1>3, <1>4, <1>5 DEF StatInv

\* Nothing the invariant speaks of changes, but for mishaps and the connection.
LEMMA OthersKeepReports ==
  ASSUME StatInv,
         UNCHANGED <<socket, backlog, lastSent, picture, sweeps, wasAccepted>>,
         contact' \in {"fresh", "stale"}, mishaps' = mishaps,
         forwarder' \in {"idle", "settling", "sending"},
         forwarder' # "idle" => backlog # <<>>,
         forwarder' = "settling" => Debounced
  PROVE  StatInv'
<1>1. StatTypes'
  BY DEF StatInv, StatTypes
<1>2. Agrees(backlog, socket)'
  BY DEF StatInv, Agrees
<1>3. ASSUME mishaps' = {} PROVE Sound'
  <2>1. Sound
    BY <1>3 DEF StatInv, Sound
  <2>2. SweepsAreTrue'
    BY <2>1 DEF Sound, SweepsAreTrue
  <2>3. NothingForgotten'
    BY <2>1 DEF Sound, NothingForgotten, Absent, Sweeping
  <2>4. FilterIsRight'
    BY <2>1 DEF Sound, FilterIsRight, Absent, Sweeping, Alternates
  <2> QED BY <2>2, <2>3, <2>4 DEF Sound
<1> QED BY <1>1, <1>2, <1>3 DEF StatInv, Sound

LEMMA ChangeKeeps == StatInv /\ StatusChanges => StatInv'
<1> SUFFICES ASSUME StatInv, StatusChanges PROVE StatInv'
  OBVIOUS
<1>0. StatTypes /\ Agrees(backlog, socket)
  BY DEF StatInv
<1>1. PICK s \in Sockets, v \in Statuses :
         /\ v # socket[s]
         /\ socket' = [socket EXCEPT ![s] = v]
         /\ backlog' = Append(IF Overflows THEN Tail(backlog) ELSE backlog,
                              [socket |-> s, status |-> v])
         /\ forwarder' = IF Overflows THEN "idle" ELSE forwarder
         /\ mishaps' = mishaps \cup (IF Overflows THEN {"overflow"} ELSE {})
                               \cup (IF Sweeping(s) THEN {"overtaken"} ELSE {})
         /\ UNCHANGED <<lastSent, picture, sweeps, contact, wasAccepted>>
  BY DEF StatusChanges
<1> DEFINE q == IF Overflows THEN Tail(backlog) ELSE backlog
           r == [socket |-> s, status |-> v]
<1>2. backlog \in Seq(Notices) /\ Len(backlog) \in Nat /\ r \in Notices
  BY <1>0 DEF StatTypes, Notices
<1>3. q \in Seq(Notices) /\ Agrees(q, socket) /\ Len(q) + 1 <= QueueCap
  <2>1. CASE Overflows
    <3>1. backlog # <<>> /\ Len(backlog) <= QueueCap
      BY <1>0, <1>2, <2>1, StatusAssumption DEF Overflows, StatTypes
    <3>2. Tail(backlog) \in Seq(Notices) /\ Len(Tail(backlog)) = Len(backlog) - 1
      BY <1>2, <3>1, TailParts
    <3>3. Agrees(Tail(backlog), socket)
      BY <1>0, <1>2, <3>1, AgreesTail
    <3> QED BY <1>2, <2>1, <3>1, <3>2, <3>3, StatusAssumption
  <2>2. CASE ~Overflows
    BY <1>0, <1>2, <2>2, StatusAssumption DEF Overflows
  <2> QED BY <2>1, <2>2
<1>4. /\ backlog' = Append(q, r) /\ backlog' \in Seq(Notices)
      /\ Len(backlog') <= QueueCap /\ backlog' # <<>>
  <2>1. backlog' = Append(q, r)
    BY <1>1
  <2> HIDE DEF q, r
  <2> QED BY <1>2, <1>3, <2>1
<1>5. socket \in [Sockets -> Statuses] /\ socket' \in [Sockets -> Statuses]
      /\ \A t \in Sockets : t # s => socket'[t] = socket[t]
  BY <1>0, <1>1 DEF StatTypes
<1>6. StatTypes'
  BY <1>0, <1>1, <1>4, <1>5 DEF StatTypes
<1>7. Agrees(backlog, socket)'
  <2>1. Agrees(Append(q, r), [socket EXCEPT ![s] = v])
    <3> HIDE DEF q
    <3> QED BY <1>3, <1>5, AgreesAppend
  <2>2. Agrees(backlog', socket')
    BY <1>1, <1>4, <2>1
  <2> QED BY <2>2 DEF Agrees
<1>8. ASSUME mishaps' = {} PROVE Sound'
  <2>1. mishaps = {} /\ ~Overflows /\ ~Sweeping(s)
    BY <1>1, <1>8
  <2>2. Sound /\ q = backlog
    BY <2>1 DEF StatInv, Sound
  <2>3. SweepsAreTrue'
    <3> SUFFICES ASSUME NEW w \in Sweepers, NEW x \in ToSet(sweeps[w])
                 PROVE  x.status = socket'[x.socket]
      BY <1>1 DEF SweepsAreTrue
    <3>1. x \in Notices
      BY <1>0 DEF StatTypes, ToSet
    <3>2. x.socket # s /\ x.status = socket[x.socket]
      BY <2>1, <2>2 DEF Sweeping, Sound, SweepsAreTrue
    <3> QED BY <1>5, <3>1, <3>2 DEF Notices
  <2>4. ASSUME NEW t \in Sockets, Absent(backlog', t) PROVE t # s /\ Absent(backlog, t)
    <3>1. /\ Len(backlog) \in Nat /\ DOMAIN backlog = 1 .. Len(backlog)
          /\ DOMAIN backlog' = 1 .. Len(backlog) + 1
          /\ \A i \in 1 .. Len(backlog) : backlog'[i] = backlog[i]
          /\ backlog'[Len(backlog) + 1] = r
      BY <1>2, <1>4, <2>2, AppendParts
    <3>2. r.socket = s
      OBVIOUS
    <3> HIDE DEF r
    <3> QED BY <2>4, <3>1, <3>2 DEF Absent
  <2>5. NothingForgotten'
    BY <1>1, <1>5, <2>2, <2>4 DEF Sound, NothingForgotten, Sweeping
  <2>6. CASE Debounced
    <3>1. ASSUME NEW t \in Sockets, Sweeping(t) PROVE Absent(backlog', t)
      <4>1. t # s /\ Absent(backlog, t)
        BY <2>1, <2>2, <2>6, <3>1 DEF Sound, FilterIsRight
      <4>2. /\ Len(backlog) \in Nat /\ DOMAIN backlog = 1 .. Len(backlog)
            /\ DOMAIN backlog' = 1 .. Len(backlog) + 1
            /\ \A i \in 1 .. Len(backlog) : backlog'[i] = backlog[i]
            /\ backlog'[Len(backlog) + 1] = r
        BY <1>2, <1>4, <2>2, AppendParts
      <4>3. r.socket = s
        OBVIOUS
      <4> HIDE DEF r
      <4> QED BY <4>1, <4>2, <4>3 DEF Absent
    <3>2. \A t \in Sockets : Sweeping(t)' <=> Sweeping(t)
      BY <1>1 DEF Sweeping
    <3>3. \A t \in Sockets : Sweeping(t)' => Absent(backlog, t)'
      BY <3>1, <3>2 DEF Absent
    <3> QED BY <1>1, <2>2, <2>3, <2>5, <2>6, <3>3 DEF Sound, FilterIsRight
  <2>7. CASE ~Debounced
    <3>1. Alternates(backlog, lastSent)
      BY <2>2, <2>7 DEF Sound, FilterIsRight
    <3>2. Absent(backlog, s) => v # lastSent[s]
      BY <1>1, <2>2, StatusAssumption DEF Sound, NothingForgotten
    <3>3. Alternates(Append(backlog, r), lastSent)
      BY <1>0, <1>1, <1>2, <1>5, <3>1, <3>2, AlternatesAppend
    <3>4. Alternates(backlog, lastSent)'
      BY <1>1, <1>4, <2>2, <3>3 DEF Alternates
    <3> QED BY <2>3, <2>5, <2>7, <3>4 DEF Sound, FilterIsRight
  <2> QED BY <2>6, <2>7
<1> QED BY <1>6, <1>7, <1>8 DEF StatInv, Sound

\* The front leaves the queue: as superseded, as a duplicate, or answered.
LEMMA FrontLeaves ==
  ASSUME StatInv, backlog # <<>>, backlog' = Tail(backlog), forwarder' = "idle",
         UNCHANGED <<socket, sweeps, contact, wasAccepted>>,
         NEW r, r = Head(backlog),
         \/ /\ Debounced /\ r.status # socket[r.socket]
            /\ UNCHANGED <<lastSent, picture>>
         \/ r.status = lastSent[r.socket] /\ UNCHANGED <<lastSent, picture>>
         \/ /\ picture' = [picture EXCEPT ![r.socket] = r.status]
            /\ lastSent' = [lastSent EXCEPT ![r.socket] = r.status],
         mishaps' = {} => mishaps = {}
  PROVE  StatInv'
<1>0. StatTypes /\ Agrees(backlog, socket) /\ backlog \in Seq(Notices)
  BY DEF StatInv, StatTypes
<1>1. /\ backlog' \in Seq(Notices) /\ Len(backlog') <= QueueCap
      /\ r \in Notices /\ r = backlog[1] /\ 1 \in DOMAIN backlog
      /\ r.socket \in Sockets /\ r.status \in Statuses
  <2>1. Tail(backlog) \in Seq(Notices) /\ Len(Tail(backlog)) = Len(backlog) - 1
        /\ Len(backlog) \in Nat \ {0} /\ r \in Notices /\ r = backlog[1]
        /\ DOMAIN backlog = 1 .. Len(backlog)
    BY <1>0, TailParts
  <2> QED BY <1>0, <2>1, StatusAssumption DEF StatTypes, Notices
<1>2. StatTypes'
  BY <1>0, <1>1 DEF StatTypes
<1>3. Agrees(backlog, socket)'
  <2>1. Agrees(Tail(backlog), socket)
    BY <1>0, AgreesTail
  <2> QED BY <2>1 DEF Agrees
<1>4. ASSUME mishaps' = {} PROVE Sound'
  <2>1. Sound
    BY <1>4 DEF StatInv, Sound
  <2>2. SweepsAreTrue'
    BY <2>1 DEF Sound, SweepsAreTrue
  <2>3. ASSUME NEW s \in Sockets, Absent(Tail(backlog), s), s # r.socket
        PROVE  Absent(backlog, s) /\ lastSent'[s] = lastSent[s] /\ picture'[s] = picture[s]
    BY <1>0, <1>1, <2>3, AbsentTail DEF StatTypes
  <2>4. ASSUME Absent(Tail(backlog), r.socket) PROVE r.status = socket[r.socket]
    BY <1>0, <2>4, HeadIsPresent
  <2>d. ASSUME ~Debounced PROVE r.status # lastSent[r.socket]
    <3>1. Alternates(backlog, lastSent)
      BY <2>1, <2>d DEF Sound, FilterIsRight
    <3>2. \A j \in 1 .. 1 - 1 : backlog[j].socket # backlog[1].socket
      OBVIOUS
    <3> QED BY <1>1, <3>1, <3>2 DEF Alternates
  <2>5. ASSUME Absent(Tail(backlog), r.socket)
        PROVE  lastSent'[r.socket] = r.status /\ picture'[r.socket] = r.status
    <3>1. CASE /\ picture' = [picture EXCEPT ![r.socket] = r.status]
               /\ lastSent' = [lastSent EXCEPT ![r.socket] = r.status]
      BY <1>0, <1>1, <3>1 DEF StatTypes
    <3>2. CASE r.status = lastSent[r.socket] /\ UNCHANGED <<lastSent, picture>>
      <4>1. Debounced
        BY <2>d, <3>2
      <4>2. picture[r.socket] = lastSent[r.socket]
        BY <1>1, <2>1, <3>2, <4>1, StatusAssumption DEF Sound, FilterIsRight
      <4> QED BY <3>2, <4>2
    <3> QED BY <2>4, <2>5, <3>1, <3>2
  <2>6. NothingForgotten'
    <3> SUFFICES ASSUME NEW s \in Sockets, Absent(Tail(backlog), s)
                 PROVE  /\ lastSent'[s] \in {"none", socket[s]}
                        /\ picture'[s] = socket[s] \/ Sweeping(s) \/ ~wasAccepted
      BY DEF NothingForgotten, Absent, Sweeping
    <3>1. CASE s = r.socket
      BY <2>4, <2>5, <3>1
    <3>2. CASE s # r.socket
      BY <2>1, <2>3, <3>2 DEF Sound, NothingForgotten
    <3> QED BY <3>1, <3>2
  <2>7. CASE Debounced
    <3>1. \A s \in Sockets : lastSent'[s] # "none" => picture'[s] = lastSent'[s]
      <4>1. \A s \in Sockets : lastSent[s] # "none" => picture[s] = lastSent[s]
        BY <2>1, <2>7 DEF Sound, FilterIsRight
      <4>2. CASE UNCHANGED <<lastSent, picture>>
        BY <4>1, <4>2
      <4>3. CASE /\ picture' = [picture EXCEPT ![r.socket] = r.status]
                 /\ lastSent' = [lastSent EXCEPT ![r.socket] = r.status]
        BY <1>0, <4>1, <4>3 DEF StatTypes
      <4> QED BY <4>2, <4>3
    <3>2. \A s \in Sockets : Sweeping(s) => Absent(Tail(backlog), s)
      BY <1>0, <2>1, <2>7, AbsentTail DEF Sound, FilterIsRight
    <3>3. \A s \in Sockets : Sweeping(s)' => Absent(backlog, s)'
      BY <3>2 DEF Sweeping, Absent
    <3> QED BY <2>2, <2>6, <2>7, <3>1, <3>3 DEF Sound, FilterIsRight
  <2>8. CASE ~Debounced
    <3>1. Alternates(backlog, lastSent)
      BY <2>1, <2>8 DEF Sound, FilterIsRight
    <3>2. lastSent' = [lastSent EXCEPT ![r.socket] = r.status]
      BY <2>8, <2>d
    <3>3. Alternates(Tail(backlog), lastSent')
      BY <1>0, <3>1, <3>2, AlternatesTail DEF StatTypes
    <3>4. Alternates(backlog, lastSent)'
      BY <3>3 DEF Alternates
    <3> QED BY <2>2, <2>6, <2>8, <3>4 DEF Sound, FilterIsRight
  <2> QED BY <2>7, <2>8
<1> QED BY <1>2, <1>3, <1>4 DEF StatInv, Sound

LEMMA TakeKeeps == StatInv /\ TakeFront => StatInv'
<1> SUFFICES ASSUME StatInv, TakeFront PROVE StatInv'
  OBVIOUS
<1>1. /\ backlog # <<>> /\ forwarder = "idle"
      /\ UNCHANGED <<socket, lastSent, picture, sweeps, contact, wasAccepted, mishaps>>
      /\ \/ /\ Debounced /\ ~Settled(NextReport) /\ backlog' = Tail(backlog)
            /\ forwarder' = forwarder
         \/ /\ forwarder' = IF Debounced THEN "settling" ELSE "sending"
            /\ backlog' = backlog
  BY DEF TakeFront
<1>2. CASE /\ backlog' = backlog
           /\ forwarder' = IF Debounced THEN "settling" ELSE "sending"
  BY <1>1, <1>2, OthersKeepReports DEF StatInv, StatTypes
<1>3. CASE Debounced /\ ~Settled(NextReport) /\ backlog' = Tail(backlog)
           /\ forwarder' = forwarder
  <2>1. Head(backlog).status # socket[Head(backlog).socket]
    BY <1>3 DEF Settled, NextReport
  <2> QED BY <1>1, <1>3, <2>1, FrontLeaves
<1> QED BY <1>1, <1>2, <1>3

LEMMA WindowKeeps == StatInv /\ WindowOver => StatInv'
<1> SUFFICES ASSUME StatInv, WindowOver PROVE StatInv'
  OBVIOUS
<1>1. /\ backlog # <<>>
      /\ UNCHANGED <<socket, lastSent, picture, sweeps, contact, wasAccepted, mishaps>>
      /\ \/ forwarder' = "sending" /\ backlog' = backlog
         \/ /\ Debounced /\ ~Settled(NextReport)
            /\ backlog' = Tail(backlog) /\ forwarder' = "idle"
  BY DEF WindowOver, StatInv, StatTypes
<1>2. CASE forwarder' = "sending" /\ backlog' = backlog
  BY <1>1, <1>2, OthersKeepReports DEF StatInv, StatTypes
<1>3. CASE /\ Debounced /\ ~Settled(NextReport)
           /\ backlog' = Tail(backlog) /\ forwarder' = "idle"
  <2>1. Head(backlog).status # socket[Head(backlog).socket]
    BY <1>3 DEF Settled, NextReport
  <2> QED BY <1>1, <1>3, <2>1, FrontLeaves
<1> QED BY <1>1, <1>2, <1>3

LEMMA SendKeeps == StatInv /\ SendFront => StatInv'
<1> SUFFICES ASSUME StatInv, SendFront PROVE StatInv'
  OBVIOUS
<1> DEFINE r == Head(backlog)
           told == [picture EXCEPT ![r.socket] = r.status]
<1>0. StatTypes /\ backlog # <<>> /\ backlog \in Seq(Notices)
  BY DEF SendFront, StatInv, StatTypes
<1>1. /\ forwarder' = "idle"
      /\ UNCHANGED <<socket, sweeps, contact, wasAccepted>>
      /\ mishaps' = IF Debounced /\ ~uplink /\ picture' # picture
                    THEN mishaps \cup {"unanswered"} ELSE mishaps
      /\ \/ /\ r.status = lastSent[r.socket] /\ backlog' = Tail(backlog)
            /\ UNCHANGED <<lastSent, picture>>
         \/ /\ picture' = told /\ backlog' = Tail(backlog)
            /\ lastSent' = [lastSent EXCEPT ![r.socket] = r.status]
         \/ /\ ~uplink /\ picture' \in {picture, told}
            /\ UNCHANGED <<lastSent, backlog>>
  BY DEF SendFront, NextReport, Duplicate, LastSentAfter, Remembers
<1>2. mishaps' = {} => mishaps = {}
  BY <1>1
<1>3. CASE r.status = lastSent[r.socket] /\ backlog' = Tail(backlog)
           /\ UNCHANGED <<lastSent, picture>>
  BY <1>0, <1>1, <1>2, <1>3, FrontLeaves
<1>4. CASE /\ picture' = told /\ backlog' = Tail(backlog)
           /\ lastSent' = [lastSent EXCEPT ![r.socket] = r.status]
  BY <1>0, <1>1, <1>2, <1>4, FrontLeaves
<1>5. CASE ~uplink /\ picture' \in {picture, told} /\ UNCHANGED <<lastSent, backlog>>
  <2>1. r \in Notices /\ r = backlog[1] /\ 1 \in DOMAIN backlog
    BY <1>0, TailParts
  <2>2. picture' \in [Sockets -> Statuses \cup {"none"}]
    BY <1>0, <1>5, <2>1 DEF StatTypes, Notices
  <2>3. StatTypes'
    BY <1>0, <1>1, <1>5, <2>2 DEF StatTypes
  <2>4. Agrees(backlog, socket)'
    BY <1>1, <1>5 DEF StatInv, Agrees
  <2>5. ASSUME mishaps' = {} PROVE Sound'
    <3>1. Sound
      BY <1>2, <2>5 DEF StatInv, Sound
    <3>2. SweepsAreTrue'
      BY <1>1, <3>1 DEF Sound, SweepsAreTrue
    <3>3. ~Absent(backlog, r.socket)
      BY <2>1 DEF Absent
    <3>4. NothingForgotten'
      <4> SUFFICES ASSUME NEW s \in Sockets, Absent(backlog, s)
                   PROVE  /\ lastSent[s] \in {"none", socket[s]}
                          /\ picture'[s] = socket[s] \/ Sweeping(s) \/ ~wasAccepted
        BY <1>1, <1>5 DEF NothingForgotten, Absent, Sweeping
      <4>1. s # r.socket
        BY <3>3
      <4>2. picture'[s] = picture[s]
        BY <1>0, <1>5, <4>1 DEF StatTypes
      <4> QED BY <3>1, <4>2 DEF Sound, NothingForgotten
    <3>5. FilterIsRight'
      <4>1. CASE Debounced
        <5>1. picture' = picture
          BY <1>1, <1>5, <2>5, <4>1
        <5> QED BY <1>1, <1>5, <3>1, <5>1 DEF Sound, FilterIsRight, Sweeping, Absent, Alternates
      <4>2. CASE ~Debounced
        BY <1>1, <1>5, <3>1, <4>2 DEF Sound, FilterIsRight, Alternates
      <4> QED BY <4>1, <4>2
    <3> QED BY <3>2, <3>4, <3>5 DEF Sound
  <2> QED BY <2>3, <2>4, <2>5 DEF StatInv, Sound
<1> QED BY <1>1, <1>3, <1>4, <1>5

\* A sweep takes a snapshot of every connector.
LEMMA StartKeeps ==
  ASSUME StatInv, NEW w \in Sweepers, StartSweep(w), sweeps[w] = <<>>,
         UNCHANGED <<socket, backlog, forwarder, lastSent, picture, contact>>
  PROVE  StatInv'
<1>0. StatTypes /\ Agrees(backlog, socket) /\ socket \in [Sockets -> Statuses]
  BY DEF StatInv, StatTypes
<1> DEFINE q == AllConnectorStatuses(socket)
<1>1. /\ sweeps' = [sweeps EXCEPT ![w] = q]
      /\ mishaps' = mishaps \cup (IF Debounced /\ backlog # <<>> THEN {"bypassed"} ELSE {})
  BY DEF StartSweep
<1>2. /\ q \in Seq(Notices)
      /\ \A r \in ToSet(q) : r.status = socket[r.socket]
      /\ \A s \in Sockets : \E r \in ToSet(q) : r.socket = s
  BY <1>0, SnapshotIsWhole
<1> HIDE DEF q
<1>3. /\ sweeps' \in [Sweepers -> Seq(Notices)]
      /\ sweeps'[w] = q /\ \A x \in Sweepers : x # w => sweeps'[x] = sweeps[x]
  BY <1>0, <1>1, <1>2 DEF StatTypes
<1>4. StatTypes'
  BY <1>0, <1>3 DEF StatTypes
<1>5. Agrees(backlog, socket)'
  BY <1>0 DEF Agrees
<1>6. ASSUME mishaps' = {} PROVE Sound'
  <2>1. Sound /\ (Debounced => backlog = <<>>)
    BY <1>1, <1>6 DEF StatInv, Sound
  <2>2. SweepsAreTrue'
    BY <1>2, <1>3, <2>1 DEF Sound, SweepsAreTrue
  <2>3. \A s \in Sockets : Sweeping(s)'
    BY <1>2, <1>3 DEF Sweeping
  <2>4. NothingForgotten'
    BY <2>1, <2>3 DEF Sound, NothingForgotten, Absent
  <2>5. FilterIsRight'
    BY <2>1 DEF Sound, FilterIsRight, Absent, Alternates
  <2> QED BY <2>2, <2>4, <2>5 DEF Sound
<1> QED BY <1>4, <1>5, <1>6 DEF StatInv, Sound

LEMMA SweepKeeps == StatInv /\ SweepReports => StatInv'
<1> SUFFICES ASSUME StatInv, SweepReports PROVE StatInv'
  OBVIOUS
<1>0. StatTypes /\ Agrees(backlog, socket)
  BY DEF StatInv
<1>1. PICK w \in Sweepers :
         /\ sweeps[w] # <<>>
         /\ IF uplink
            THEN /\ picture' = [picture EXCEPT ![Head(sweeps[w]).socket]
                                                  = Head(sweeps[w]).status]
                 /\ UNCHANGED mishaps
            ELSE mishaps' = mishaps \cup {"failed"} /\ UNCHANGED picture
         /\ sweeps' = [sweeps EXCEPT ![w] = Tail(sweeps[w])]
         /\ UNCHANGED <<socket, backlog, forwarder, lastSent, contact, wasAccepted>>
  BY DEF SweepReports
<1> DEFINE q == sweeps[w]
           r == Head(q)
<1>2. /\ q \in Seq(Notices) /\ Tail(q) \in Seq(Notices)
      /\ r \in Notices /\ r.socket \in Sockets /\ r.status \in Statuses
      /\ r \in ToSet(q)
      /\ \A x \in ToSet(Tail(q)) : x \in ToSet(q)
      /\ \A x \in ToSet(q) : x = r \/ x \in ToSet(Tail(q))
  <2>1. q \in Seq(Notices)
    BY <1>0 DEF StatTypes
  <2> HIDE DEF q
  <2>2. /\ Len(q) \in Nat \ {0} /\ DOMAIN q = 1 .. Len(q) /\ r = q[1] /\ r \in Notices
        /\ Tail(q) \in Seq(Notices) /\ DOMAIN Tail(q) = 1 .. Len(q) - 1
        /\ \A i \in 1 .. Len(q) - 1 : Tail(q)[i] = q[i + 1]
    BY <1>1, <2>1, TailParts DEF q
  <2>3. ASSUME NEW i \in DOMAIN q, i # 1 PROVE q[i] \in ToSet(Tail(q))
    <3>1. i - 1 \in DOMAIN Tail(q) /\ Tail(q)[i - 1] = q[i]
      BY <2>2, <2>3
    <3> QED BY <3>1 DEF ToSet
  <2>4. ASSUME NEW i \in DOMAIN Tail(q) PROVE Tail(q)[i] \in ToSet(q)
    <3>1. i + 1 \in DOMAIN q /\ Tail(q)[i] = q[i + 1]
      BY <2>2
    <3> QED BY <3>1 DEF ToSet
  <2>5. 1 \in DOMAIN q
    BY <2>2
  <2> QED BY <2>1, <2>2, <2>3, <2>4, <2>5 DEF ToSet, Notices
<1>3. /\ sweeps' \in [Sweepers -> Seq(Notices)]
      /\ sweeps'[w] = Tail(q) /\ \A x \in Sweepers : x # w => sweeps'[x] = sweeps[x]
  <2> DEFINE t == Tail(q)
  <2>1. sweeps' = [sweeps EXCEPT ![w] = t] /\ t \in Seq(Notices)
    BY <1>1, <1>2
  <2> HIDE DEF t
  <2>2. sweeps' \in [Sweepers -> Seq(Notices)]
        /\ sweeps'[w] = t /\ \A x \in Sweepers : x # w => sweeps'[x] = sweeps[x]
    BY <1>0, <2>1 DEF StatTypes
  <2> QED BY <2>2 DEF t
<1>4. picture' \in [Sockets -> Statuses \cup {"none"}]
  <2> HIDE DEF r
  <2>1. picture' \in {picture, [picture EXCEPT ![r.socket] = r.status]}
    BY <1>1 DEF r
  <2> QED BY <1>0, <1>2, <2>1 DEF StatTypes
<1>5. StatTypes'
  BY <1>0, <1>1, <1>3, <1>4 DEF StatTypes
<1>6. Agrees(backlog, socket)'
  BY <1>0, <1>1 DEF Agrees
<1>7. ASSUME mishaps' = {} PROVE Sound'
  <2>1. Sound /\ picture' = [picture EXCEPT ![r.socket] = r.status]
    BY <1>1, <1>7 DEF StatInv, Sound
  <2> HIDE DEF q, r
  <2>2. SweepsAreTrue'
    BY <1>1, <1>2, <1>3, <2>1 DEF Sound, SweepsAreTrue, q
  <2>3. ASSUME NEW s \in Sockets, Sweeping(s)' PROVE Sweeping(s)
    BY <1>2, <1>3, <2>3 DEF Sweeping, q
  <2>4. ASSUME NEW s \in Sockets, Sweeping(s), s # r.socket PROVE Sweeping(s)'
    BY <1>2, <1>3, <2>4 DEF Sweeping, q
  <2>5. r.status = socket[r.socket] /\ Sweeping(r.socket)
    BY <1>2, <2>1 DEF Sound, SweepsAreTrue, Sweeping, q
  <2>6. picture'[r.socket] = r.status
        /\ \A s \in Sockets : s # r.socket => picture'[s] = picture[s]
    BY <1>0, <1>2, <2>1 DEF StatTypes
  <2>7. NothingForgotten'
    <3> SUFFICES ASSUME NEW s \in Sockets, Absent(backlog, s)
                 PROVE  /\ lastSent[s] \in {"none", socket[s]}
                        /\ picture'[s] = socket[s] \/ Sweeping(s)' \/ ~wasAccepted
      BY <1>1 DEF NothingForgotten, Absent
    <3>1. CASE s = r.socket
      BY <2>1, <2>5, <2>6, <3>1 DEF Sound, NothingForgotten
    <3>2. CASE s # r.socket
      BY <2>1, <2>4, <2>6, <3>2 DEF Sound, NothingForgotten
    <3> QED BY <3>1, <3>2
  <2>8. CASE Debounced
    <3>1. Absent(backlog, r.socket) /\ lastSent[r.socket] \in {"none", socket[r.socket]}
      BY <1>2, <2>1, <2>5, <2>8 DEF Sound, FilterIsRight, NothingForgotten
    <3>2. \A s \in Sockets : lastSent[s] # "none" => picture'[s] = lastSent[s]
      BY <2>1, <2>5, <2>6, <2>8, <3>1 DEF Sound, FilterIsRight
    <3>3. \A s \in Sockets : Sweeping(s)' => Absent(backlog, s)'
      BY <1>1, <2>1, <2>3, <2>8 DEF Sound, FilterIsRight, Absent
    <3> QED BY <1>1, <2>2, <2>7, <2>8, <3>2, <3>3 DEF Sound, FilterIsRight
  <2>9. CASE ~Debounced
    BY <1>1, <2>1, <2>2, <2>7, <2>9 DEF Sound, FilterIsRight, Alternates
  <2> QED BY <2>8, <2>9
<1> QED BY <1>5, <1>6, <1>7 DEF StatInv, Sound

LEMMA StatStep == StatInv /\ [StatusNext]_statusVars => StatInv'
<1> SUFFICES ASSUME StatInv, [StatusNext]_statusVars PROVE StatInv'
  OBVIOUS
<1>0. StatTypes
  BY DEF StatInv
<1>1. CASE AcceptanceSeen
  <2>1. CASE accepted
    BY <1>1, <2>1, StartKeeps DEF AcceptanceSeen, Sweepers
  <2>2. CASE ~accepted
    <3>1. /\ UNCHANGED <<socket, backlog, forwarder, lastSent, picture, sweeps, contact,
                         mishaps>>
          /\ ~wasAccepted'
      BY <1>1, <2>2 DEF AcceptanceSeen
    <3>2. StatTypes' /\ Agrees(backlog, socket)'
      BY <1>0, <3>1 DEF StatInv, StatTypes, Agrees
    <3>3. ASSUME mishaps' = {} PROVE Sound'
      <4>1. Sound
        BY <3>1, <3>3 DEF StatInv, Sound
      <4>2. SweepsAreTrue'
        BY <3>1, <4>1 DEF Sound, SweepsAreTrue
      <4>3. NothingForgotten'
        BY <3>1, <4>1 DEF Sound, NothingForgotten, Absent
      <4>4. FilterIsRight'
        BY <3>1, <4>1 DEF Sound, FilterIsRight, Absent, Sweeping, Alternates
      <4> QED BY <4>2, <4>3, <4>4 DEF Sound
    <3> QED BY <3>2, <3>3 DEF StatInv, Sound
  <2> QED BY <2>1, <2>2
<1>2. CASE Resynchronises
  <2>1. CASE contact = "stale"
    BY <1>2, <2>1, StartKeeps DEF Resynchronises, Sweepers
  <2>2. CASE contact # "stale"
    BY <1>0, <1>2, <2>2, OthersKeepReports DEF Resynchronises, StatTypes
  <2> QED BY <2>1, <2>2
<1>3. CASE Registers
  <2>1. UNCHANGED <<socket, backlog, forwarder, lastSent, picture, sweeps, wasAccepted,
                    mishaps>> /\ contact' = "fresh"
    BY <1>3 DEF Registers
  <2> QED BY <1>0, <2>1, OthersKeepReports DEF StatTypes
<1>4. CASE ConnectionLost
  BY <1>0, <1>4, OthersKeepReports DEF ConnectionLost, StatTypes
<1>5. CASE OutageGrows
  BY <1>0, <1>5, OthersKeepReports DEF OutageGrows, StatTypes
<1>6. CASE Reconnected
  BY <1>0, <1>6, OthersKeepReports DEF Reconnected, StatTypes
<1>7. CASE UNCHANGED statusVars
  BY <1>0, <1>7, OthersKeepReports DEF statusVars, StatTypes
<1> QED
  BY <1>1, <1>2, <1>3, <1>4, <1>5, <1>6, <1>7, ChangeKeeps, TakeKeeps, WindowKeeps,
     SendKeeps, SweepKeeps
  DEF StatusNext, StatusSteps

LEMMA StatHolds == StatInv => ReportsAreRight
<1> SUFFICES ASSUME StatInv PROVE ReportsAreRight
  OBVIOUS
<1>1. StatusTypeOK
  BY DEF StatInv, StatTypes, StatusTypeOK, Notices
<1>2. ASSUME Quiet, mishaps = {} PROVE picture = socket
  <2>1. NothingForgotten /\ wasAccepted
    BY <1>2 DEF StatInv, Quiet
  <2>2. \A s : Absent(backlog, s) /\ ~Sweeping(s)
    BY <1>2 DEF Quiet, Absent, Sweeping, ToSet
  <2>3. \A s \in Sockets : picture[s] = socket[s]
    BY <2>1, <2>2 DEF NothingForgotten
  <2> QED BY <2>3 DEF StatInv, StatTypes
<1> QED BY <1>1, <1>2 DEF ReportsAreRight, PictureIsRight

-----------------------------------------------------------------------------
(* DeviceModel.                                                             *)

Texts == {"0", "1", "2", "", "Available", "Occupied"} \cup Urls
Mutabilities == {"ReadOnly", "ReadWrite", "WriteOnly"}
Attributes == [value : Texts, mutability : Mutabilities]
SettingKeys == {Key(n) : n \in Settings}
StoredUrls == [MirrorSlots -> Urls \cup {"none"}]

WellFormed(m) ==
    /\ DOMAIN m \subseteq Keys /\ IsFiniteSet(DOMAIN m)
    /\ Cardinality(DOMAIN m) <= MaxVariables
    /\ \A k \in DOMAIN m : m[k] \in Attributes

Full(m) == Cardinality(DOMAIN m) = MaxVariables

\* r is m with nothing lost and nothing but the keys in K written.
Keeps(m, r, K) ==
    /\ WellFormed(r) /\ DOMAIN m \subseteq DOMAIN r
    /\ DOMAIN r \subseteq DOMAIN m \cup K
    /\ \A k \in DOMAIN m : k \notin K => r[k] = m[k]
    /\ Full(m) => Full(r)

LEMMA DmConstants ==
    /\ MaxVariables \in Nat /\ MaxVariables >= 2
    /\ ChunkSize \in Nat /\ ChunkSize > 0
    /\ MirrorSlots \subseteq Nat /\ IsFiniteSet(MirrorSlots)
    /\ Key("AvailabilityState") \in Keys \ SettingKeys
    /\ SettingKeys \subseteq Keys /\ Key("HeartbeatInterval") \in SettingKeys
    /\ \A t \in MirrorSlots : /\ Url(t) \in Keys /\ Secret(t) \in Keys
                              /\ Url(t) \notin SettingKeys /\ Secret(t) \notin SettingKeys
                              /\ Url(t) # Key("AvailabilityState")
                              /\ Secret(t) # Key("AvailabilityState")
    /\ \A t, u \in MirrorSlots : Url(t) # Secret(u) /\ (Url(t) = Url(u) => t = u)
<1> USE DeviceModelAssumption
<1>1. \A n : Key(n).name = n /\ Key(n).slot = 0
  BY DEF Key
<1>2. \A t : Url(t).name = "OcppCsmsUrl" /\ Url(t).slot = t
  BY DEF Url
<1>3. \A t : Secret(t).name = "BasicAuthPassword"
  BY DEF Secret
<1>4. \A n \in Settings : n \notin {"AvailabilityState", "OcppCsmsUrl", "BasicAuthPassword"}
  BY DEF Settings
<1>5. \A k \in SettingKeys :
         k.name \notin {"AvailabilityState", "OcppCsmsUrl", "BasicAuthPassword"}
  BY <1>1, <1>4 DEF SettingKeys
<1>6. Key("AvailabilityState") \in Keys /\ Key("HeartbeatInterval") \in SettingKeys
  BY DEF Key, Keys, Fixed, Settings, SettingKeys
<1>7. SettingKeys \subseteq Keys
  BY DEF Key, Keys, Fixed, Settings, SettingKeys
<1>8. \A t \in MirrorSlots : Url(t) \in Keys /\ Secret(t) \in Keys
  BY DEF Url, Secret, Keys
<1> QED BY <1>1, <1>2, <1>3, <1>5, <1>6, <1>7, <1>8

LEMMA KeepsFull ==
  ASSUME NEW m, NEW r, WellFormed(m), WellFormed(r), DOMAIN m \subseteq DOMAIN r
  PROVE  Full(m) => Full(r)
<1>1. Cardinality(DOMAIN m) <= Cardinality(DOMAIN r)
      /\ Cardinality(DOMAIN r) \in Nat /\ Cardinality(DOMAIN m) \in Nat
  BY FS_Subset, FS_CardinalityType DEF WellFormed
<1> QED BY <1>1, DmConstants DEF Full, WellFormed

\* DeviceModel::register: key is written with value, or does not fit.
Registered(m, r, key, value, mutability) ==
    /\ Keeps(m, r, {key})
    /\ key \in DOMAIN r => r[key] = [value |-> value, mutability |-> mutability]
    /\ key \in DOMAIN r \/ Full(r)
    /\ Fits(m, key) <=> key \in DOMAIN r
    /\ ~Fits(m, key) => r = m

LEMMA RegisterKeeps ==
  ASSUME NEW m, WellFormed(m), NEW key \in Keys, NEW value \in Texts,
         NEW mutability \in Mutabilities, NEW r, r = Register(m, key, value, mutability)
  PROVE  Registered(m, r, key, value, mutability)
<1> USE DEF Registered
<1> DEFINE a == [value |-> value, mutability |-> mutability]
<1>1. a \in Attributes
  BY DEF Attributes
<1>2. Cardinality(DOMAIN m) \in Nat
  BY FS_CardinalityType DEF WellFormed
<1>3. CASE Fits(m, key)
  <2>1. r = [k \in DOMAIN m \cup {key} |-> IF k = key THEN a ELSE m[k]]
    BY <1>3 DEF Register
  <2>2. DOMAIN r = DOMAIN m \cup {key}
    BY <2>1
  <2>3. /\ r[key] = a
        /\ \A k \in DOMAIN m : k # key => r[k] = m[k]
    BY <2>1
  <2>4. /\ IsFiniteSet(DOMAIN r)
        /\ Cardinality(DOMAIN r) = IF key \in DOMAIN m THEN Cardinality(DOMAIN m)
                                   ELSE Cardinality(DOMAIN m) + 1
    BY <2>2, FS_AddElement DEF WellFormed
  <2>5. Cardinality(DOMAIN r) <= MaxVariables
    BY <1>2, <1>3, <2>4, DmConstants DEF Fits, WellFormed
  <2> HIDE DEF a
  <2>6. \A k \in DOMAIN r : r[k] \in Attributes /\ k \in Keys
    BY <1>1, <2>2, <2>3 DEF WellFormed
  <2>7. WellFormed(r)
    BY <2>4, <2>5, <2>6 DEF WellFormed
  <2>8. DOMAIN m \subseteq DOMAIN r
    BY <2>2
  <2>9. Keeps(m, r, {key})
    BY <2>2, <2>3, <2>7, <2>8, KeepsFull DEF Keeps
  <2> QED BY <1>3, <2>2, <2>3, <2>9 DEF a
<1>4. CASE ~Fits(m, key)
  <2>1. r = m
    BY <1>4 DEF Register
  <2>2. key \notin DOMAIN m /\ Full(m)
    BY <1>2, <1>4, DmConstants DEF Fits, WellFormed, Full
  <2> QED BY <1>4, <2>1, <2>2 DEF Keeps
<1> QED BY <1>3, <1>4

\* Register, for one occupied slot.
LEMMA RegisterSlotKeeps ==
  ASSUME NEW m, WellFormed(m), NEW t \in MirrorSlots, NEW url \in Urls
  PROVE  LET r == RegisterSlot(m, t, url) IN
         /\ Keeps(m, r, {Url(t), Secret(t)})
         /\ Url(t) \in DOMAIN r => r[Url(t)].value = url
         /\ Url(t) \in DOMAIN r \/ Full(r)
<1>1. Url(t) \in Keys /\ Secret(t) \in Keys /\ Url(t) # Secret(t)
  BY DmConstants
<1>2. /\ url \in Texts /\ "" \in Texts
      /\ "ReadOnly" \in Mutabilities /\ "WriteOnly" \in Mutabilities
  BY DEF Texts, Mutabilities
<1>3. PICK q : q = Register(m, Url(t), url, "ReadOnly")
  OBVIOUS
<1>4. Registered(m, q, Url(t), url, "ReadOnly")
  BY <1>1, <1>2, <1>3, RegisterKeeps
<1>5. Keeps(m, q, {Url(t)}) /\ WellFormed(q)
  BY <1>4 DEF Registered, Keeps
<1>6. PICK r : r = Register(q, Secret(t), "", "WriteOnly")
  OBVIOUS
<1>7. Keeps(q, r, {Secret(t)})
  <2>1. Registered(q, r, Secret(t), "", "WriteOnly")
    BY <1>1, <1>2, <1>5, <1>6, RegisterKeeps
  <2> QED BY <2>1 DEF Registered
<1>8. RegisterSlot(m, t, url) = r
  BY <1>3, <1>6 DEF RegisterSlot
<1>9. Keeps(m, r, {Url(t), Secret(t)})
  BY <1>5, <1>7 DEF Keeps
<1>10. Url(t) \in DOMAIN r => r[Url(t)].value = url
  <2> SUFFICES ASSUME Url(t) \in DOMAIN r PROVE r[Url(t)].value = url
    OBVIOUS
  <2>1. Url(t) \in DOMAIN q /\ r[Url(t)] = q[Url(t)]
    BY <1>1, <1>7 DEF Keeps
  <2> QED BY <1>4, <2>1 DEF Registered
<1>11. Url(t) \in DOMAIN r \/ Full(r)
  BY <1>4, <1>7 DEF Registered, Keeps
<1> QED BY <1>8, <1>9, <1>10, <1>11

\* DeviceModel::set_attribute_value.
LEMMA SetValueKeeps ==
  ASSUME NEW m, WellFormed(m), NEW key \in Keys, NEW value \in Texts,
         NEW r, r = SetValue(m, key, value)
  PROVE  /\ Keeps(m, r, {key}) /\ DOMAIN r = DOMAIN m
         /\ key \in DOMAIN m => /\ r[key].value = value
                                /\ r[key].mutability = m[key].mutability
         /\ key \notin DOMAIN m => r = m
<1>1. CASE key \in DOMAIN m
  <2>1. r = [m EXCEPT ![key].value = value]
    BY <1>1 DEF SetValue
  <2>2. m[key] \in Attributes
    BY <1>1 DEF WellFormed
  <2>3. /\ [m[key] EXCEPT !.value = value] \in Attributes
        /\ [m[key] EXCEPT !.value = value].value = value
        /\ [m[key] EXCEPT !.value = value].mutability = m[key].mutability
    BY <2>2 DEF Attributes
  <2>4. /\ DOMAIN r = DOMAIN m /\ r[key] = [m[key] EXCEPT !.value = value]
        /\ \A k \in DOMAIN m : k # key => r[k] = m[k]
    BY <1>1, <2>1
  <2>5. WellFormed(r)
    BY <2>3, <2>4 DEF WellFormed
  <2>6. Keeps(m, r, {key})
    BY <2>4, <2>5 DEF Keeps, Full
  <2> QED BY <1>1, <2>3, <2>4, <2>6
<1>2. CASE key \notin DOMAIN m
  <2>1. r = m
    BY <1>2 DEF SetValue
  <2> QED BY <1>2, <2>1 DEF Keeps
<1> QED BY <1>1, <1>2

\* The slots in ascending order are all of them.
LEMMA AscendingIsAll ==
  ASSUME NEW S \in SUBSET Nat, IsFiniteSet(S)
  PROVE  /\ Cardinality(S) \in Nat /\ Ascending(S) \in Seq(S)
         /\ Len(Ascending(S)) = Cardinality(S)
         /\ \A t \in S : \E n \in 1 .. Cardinality(S) : Ascending(S)[n] = t
<1> DEFINE R == {p \in S \X S : p[1] < p[2]}
           c == Cardinality(S)
           rank(t) == Cardinality({u \in S : u < t})
           f == [t \in S |-> Cardinality({u \in S : <<u, t>> \in R})]
           at(n) == CHOOSE t \in S : rank(t) = n - 1
           g == [n \in 1 .. c |-> at(n)]
<1>1. c \in Nat
  BY FS_CardinalityType
<1>2. \A t, u \in S : <<t, u>> \in R <=> t < u
  OBVIOUS
<1>3. f \in Bijection(S, 0 .. c - 1)
  <2>1. \A t \in S : <<t, t>> \notin R
    BY <1>2
  <2>2. \A t, u, v \in S : <<t, u>> \in R /\ <<u, v>> \in R => <<t, v>> \in R
    BY <1>2
  <2>3. \A t, u \in S : t # u => <<t, u>> \in R \/ <<u, t>> \in R
    BY <1>2
  <2>4. R \in SUBSET (S \X S)
    OBVIOUS
  <2> HIDE DEF R
  <2> QED BY <2>1, <2>2, <2>3, <2>4, RanksAreDistinct
<1>4. \A t \in S : f[t] = rank(t)
  <2> SUFFICES ASSUME NEW t \in S PROVE f[t] = rank(t)
    OBVIOUS
  <2>1. {u \in S : <<u, t>> \in R} = {u \in S : u < t}
    BY <1>2
  <2> QED BY <2>1
<1>5. Ascending(S) = g
  BY DEF Ascending
<1> HIDE DEF f, R, at
<1>6. /\ \A t \in S : f[t] \in 0 .. c - 1
      /\ \A t, u \in S : f[t] = f[u] => t = u
      /\ \A k \in 0 .. c - 1 : \E t \in S : f[t] = k
  BY <1>3 DEF Bijection, Injection, IsInjective, Surjection
<1>7. \A n \in 1 .. c : g[n] \in S /\ f[g[n]] = n - 1
  <2> SUFFICES ASSUME NEW n \in 1 .. c PROVE g[n] \in S /\ f[g[n]] = n - 1
    OBVIOUS
  <2>1. n - 1 \in 0 .. c - 1
    BY <1>1
  <2>2. PICK t \in S : rank(t) = n - 1
    BY <1>4, <1>6, <2>1
  <2> HIDE DEF rank
  <2>3. at(n) \in S /\ rank(at(n)) = n - 1
    BY <2>2 DEF at
  <2>4. g[n] \in S /\ rank(g[n]) = n - 1
    BY <2>3
  <2> QED BY <1>4, <2>4
<1>8. g = [n \in 1 .. c |-> g[n]]
  OBVIOUS
<1> HIDE DEF g, c
<1>9. g \in Seq(S) /\ Len(g) = c
  <2>1. g \in [1 .. c -> S]
    BY <1>7, <1>8
  <2> QED BY <1>1, <2>1
<1>10. \A t \in S : \E n \in 1 .. c : g[n] = t
  <2> SUFFICES ASSUME NEW t \in S PROVE \E n \in 1 .. c : g[n] = t
    OBVIOUS
  <2>1. f[t] \in 0 .. c - 1
    BY <1>6
  <2>2. PICK n \in 1 .. c : n - 1 = f[t]
    <3>1. f[t] + 1 \in 1 .. c /\ (f[t] + 1) - 1 = f[t]
      BY <1>1, <2>1
    <3> QED BY <3>1
  <2>3. g[n] \in S /\ f[g[n]] = f[t]
    BY <1>7, <2>2
  <2> QED BY <1>6, <2>3
<1> QED BY <1>1, <1>5, <1>9, <1>10 DEF c

SlotKeys == {Url(t) : t \in MirrorSlots} \cup {Secret(t) : t \in MirrorSlots}

\* What sync_network_configuration_variables has brought in line for slot t.
InLine(r, urls, t) ==
    IF Url(t) \in DOMAIN r THEN r[Url(t)].value = urls[t]
                           ELSE urls[t] = "none" \/ Full(r)

\* No slot's component is there before its profile.
OnlyStored(r, urls) ==
    \A t \in MirrorSlots : Url(t) \in DOMAIN r => urls[t] # "none"

\* The fold of sync_network_configuration_variables over the first n slots.
SlotFold(m, urls, slots, n, f) ==
    f = [k \in 0 .. n |-> IF k = 0 THEN m
                          ELSE RegisterSlot(f[k - 1], slots[k], urls[slots[k]])]

LEMMA SlotFoldExists ==
  ASSUME NEW m, NEW urls, NEW slots, NEW n \in Nat
  PROVE  \E f : SlotFold(m, urls, slots, n, f)
<1> DEFINE Step(x, k) == RegisterSlot(x, slots[k], urls[slots[k]])
           Bad == {k \in Nat : ~\E f : SlotFold(m, urls, slots, k, f)}
<1> SUFFICES Bad = {}
  OBVIOUS
<1> SUFFICES ASSUME Bad # {} PROVE FALSE
  OBVIOUS
<1>1. PICK b \in Bad : \A k \in Bad : ~(<<k, b>> \in OpToRel(<, Nat))
  <2>1. Bad \subseteq Nat
    OBVIOUS
  <2> HIDE DEF Bad
  <2> QED BY <2>1, NatLessThanWellFounded, WFMin
<1>2. CASE b = 0
  <2> DEFINE g == [k \in 0 .. 0 |-> m]
  <2>1. g = [k \in 0 .. 0 |-> IF k = 0 THEN m ELSE Step(g[k - 1], k)]
    OBVIOUS
  <2> QED BY <1>2, <2>1 DEF SlotFold
<1>3. CASE b # 0
  <2> DEFINE n0 == b - 1
  <2>1. n0 \in Nat /\ b = n0 + 1
    BY <1>3
  <2>2. <<n0, b>> \in OpToRel(<, Nat)
    BY <2>1 DEF OpToRel
  <2>3. PICK f : SlotFold(m, urls, slots, n0, f)
    BY <1>1, <2>1, <2>2
  <2> DEFINE g == [k \in 0 .. b |-> IF k = b THEN Step(f[n0], b) ELSE f[k]]
             h == [k \in 0 .. b |-> IF k = 0 THEN m ELSE Step(g[k - 1], k)]
  <2>4. ASSUME NEW k \in 0 .. b PROVE g[k] = h[k]
    <3>1. CASE k = b
      <4>1. k # 0 /\ k - 1 = n0 /\ n0 \in 0 .. b /\ n0 # b
        BY <2>1, <3>1
      <4>2. g[n0] = f[n0]
        BY <4>1
      <4> QED BY <3>1, <4>1, <4>2
    <3>2. CASE k # b
      <4>1. k \in 0 .. n0
        BY <2>1, <3>2
      <4>2. f[k] = IF k = 0 THEN m ELSE Step(f[k - 1], k)
        BY <2>3, <4>1 DEF SlotFold
      <4>3. k # 0 => k - 1 \in 0 .. b /\ k - 1 # b
        BY <2>1, <4>1
      <4>4. k # 0 => g[k - 1] = f[k - 1]
        BY <4>3
      <4> HIDE DEF n0, Step
      <4> QED BY <3>2, <4>2, <4>4
    <3> QED BY <3>1, <3>2
  <2>5. g = h
    BY <2>4
  <2>6. SlotFold(m, urls, slots, b, g)
    BY <2>5 DEF SlotFold
  <2> QED BY <1>1, <2>6
<1> QED BY <1>2, <1>3

LEMMA SlotStep ==
  ASSUME NEW m, NEW r, NEW q, NEW urls \in StoredUrls, NEW t \in MirrorSlots,
         urls[t] # "none", Keeps(m, r, SlotKeys), OnlyStored(r, urls),
         q = RegisterSlot(r, t, urls[t])
  PROVE  /\ Keeps(m, q, SlotKeys) /\ OnlyStored(q, urls) /\ InLine(q, urls, t)
         /\ \A u \in MirrorSlots : InLine(r, urls, u) => InLine(q, urls, u)
<1>1. urls[t] \in Urls /\ WellFormed(r)
  BY DEF StoredUrls, Keeps
<1>2. /\ Keeps(r, q, {Url(t), Secret(t)})
      /\ Url(t) \in DOMAIN q => q[Url(t)].value = urls[t]
      /\ Url(t) \in DOMAIN q \/ Full(q)
  BY <1>1, RegisterSlotKeeps
<1>3. Url(t) \in SlotKeys /\ Secret(t) \in SlotKeys
  BY DEF SlotKeys
<1>4. Keeps(m, q, SlotKeys)
  BY <1>2, <1>3 DEF Keeps
<1>5. InLine(q, urls, t)
  BY <1>2 DEF InLine
<1>6. ASSUME NEW u \in MirrorSlots, u # t
      PROVE  /\ Url(u) \in DOMAIN q <=> Url(u) \in DOMAIN r
             /\ Url(u) \in DOMAIN r => q[Url(u)] = r[Url(u)]
  <2>1. Url(u) # Url(t) /\ Url(u) # Secret(t)
    BY <1>6, DmConstants
  <2> QED BY <1>2, <2>1 DEF Keeps
<1>7. Full(r) => Full(q)
  BY <1>2 DEF Keeps
<1>8. ASSUME NEW u \in MirrorSlots, InLine(r, urls, u) PROVE InLine(q, urls, u)
  BY <1>5, <1>6, <1>7, <1>8 DEF InLine
<1>9. OnlyStored(q, urls)
  BY <1>6 DEF OnlyStored
<1> QED BY <1>4, <1>5, <1>8, <1>9

\* Whatever does not fit, the slots' variables follow the stored profiles.
LEMMA SyncNetworkKeeps ==
  ASSUME NEW m, WellFormed(m), NEW s, s.urls \in StoredUrls, OnlyStored(m, s.urls),
         NEW r, r = SyncNetwork(m, s)
  PROVE  /\ Keeps(m, r, SlotKeys) /\ OnlyStored(r, s.urls)
         /\ \A t \in MirrorSlots : InLine(r, s.urls, t)
<1> DEFINE S == {t \in MirrorSlots : s.urls[t] # "none"}
           slots == Ascending(S)
           n == Len(slots)
           f == CHOOSE g : SlotFold(m, s.urls, slots, n, g)
<1>1. /\ Cardinality(S) \in Nat /\ slots \in Seq(S) /\ n = Cardinality(S)
      /\ \A t \in S : \E k \in 1 .. n : slots[k] = t
  <2>1. S \in SUBSET Nat /\ IsFiniteSet(S)
    BY DmConstants, FS_Subset
  <2> HIDE DEF S
  <2> QED BY <2>1, AscendingIsAll
<1>2. r = f[n]
  BY DEF SyncNetwork, SlotFold
<1> HIDE DEF S, n, slots
<1>3. n \in Nat /\ \A k \in 1 .. n : slots[k] \in S
  BY <1>1 DEF n
<1>4. SlotFold(m, s.urls, slots, n, f)
  BY <1>3, SlotFoldExists
<1> HIDE DEF f
<1> DEFINE Good(k) == /\ Keeps(m, f[k], SlotKeys) /\ OnlyStored(f[k], s.urls)
                      /\ \A i \in 1 .. k : InLine(f[k], s.urls, slots[i])
           Bad == {k \in 0 .. n : ~Good(k)}
<1>5. Bad = {}
  <2> SUFFICES ASSUME Bad # {} PROVE FALSE
    OBVIOUS
  <2>1. PICK b \in Bad : \A k \in Bad : ~(<<k, b>> \in OpToRel(<, Nat))
    <3>1. Bad \subseteq Nat
      BY <1>3
    <3> HIDE DEF Bad
    <3> QED BY <3>1, NatLessThanWellFounded, WFMin
  <2>2. b \in 0 .. n /\ b \in Nat /\ ~Good(b)
    BY <1>3
  <2>3. CASE b = 0
    <3>1. f[0] = m
      BY <1>3, <1>4 DEF SlotFold
    <3>2. Keeps(m, m, SlotKeys)
      BY DEF Keeps
    <3> QED BY <2>2, <2>3, <3>1, <3>2
  <2>4. CASE b # 0
    <3> DEFINE k == b - 1
    <3>1. k \in 0 .. n /\ k \in Nat /\ b = k + 1 /\ b \in 1 .. n
      BY <1>3, <2>2, <2>4
    <3>2. <<k, b>> \in OpToRel(<, Nat)
      BY <3>1, <2>2 DEF OpToRel
    <3>3. Good(k)
      BY <2>1, <3>1, <3>2
    <3>4. f[b] = RegisterSlot(f[k], slots[b], s.urls[slots[b]])
      BY <1>3, <1>4, <2>4, <3>1 DEF SlotFold
    <3>5. slots[b] \in MirrorSlots /\ s.urls[slots[b]] # "none"
      BY <1>3, <3>1 DEF S
    <3> HIDE DEF k
    <3>6. /\ Keeps(m, f[b], SlotKeys) /\ OnlyStored(f[b], s.urls)
          /\ InLine(f[b], s.urls, slots[b])
          /\ \A u \in MirrorSlots : InLine(f[k], s.urls, u) => InLine(f[b], s.urls, u)
      BY <3>3, <3>4, <3>5, SlotStep
    <3>7. ASSUME NEW i \in 1 .. b PROVE InLine(f[b], s.urls, slots[i])
      <4>1. CASE i = b
        BY <3>6, <4>1
      <4>2. CASE i # b
        <5>1. i \in 1 .. k /\ i \in 1 .. n
          BY <1>3, <2>2, <3>1, <4>2
        <5>2. slots[i] \in MirrorSlots
          BY <1>3, <5>1 DEF S
        <5> QED BY <3>3, <3>6, <5>1, <5>2
      <4> QED BY <4>1, <4>2
    <3> QED BY <2>2, <3>6, <3>7
  <2> QED BY <2>3, <2>4
<1>6. n \in 0 .. n
  BY <1>3
<1>7. Good(n)
  BY <1>5, <1>6
<1>8. ASSUME NEW t \in MirrorSlots PROVE InLine(f[n], s.urls, t)
  <2>1. CASE s.urls[t] = "none"
    BY <1>7, <2>1 DEF OnlyStored, InLine
  <2>2. CASE s.urls[t] # "none"
    <3>1. PICK k \in 1 .. n : slots[k] = t
      BY <1>1, <2>2 DEF S
    <3> QED BY <1>7, <3>1
  <2> QED BY <2>1, <2>2
<1> QED BY <1>2, <1>7, <1>8

\* What every applied event ends with.
Synced(m, r, s) ==
    /\ Keeps(m, r, SlotKeys \cup {Key("AvailabilityState")})
    /\ OnlyStored(r, s.urls) /\ \A t \in MirrorSlots : InLine(r, s.urls, t)
    /\ r[Key("AvailabilityState")].value = s.status
    /\ r[Key("AvailabilityState")].mutability = m[Key("AvailabilityState")].mutability

LEMMA SyncKeeps ==
  ASSUME NEW m, WellFormed(m), Key("AvailabilityState") \in DOMAIN m,
         NEW s, s.urls \in StoredUrls, s.status \in {"Available", "Occupied"},
         OnlyStored(m, s.urls), NEW r, r = Sync(m, s)
  PROVE  Synced(m, r, s)
<1> DEFINE a == Key("AvailabilityState")
<1>1. PICK q : q = SyncAvailability(m, s)
  OBVIOUS
<1>2. a \in Keys /\ s.status \in Texts
  BY DmConstants DEF Texts
<1>3. /\ Keeps(m, q, {a}) /\ DOMAIN q = DOMAIN m
      /\ q[a].value = s.status /\ q[a].mutability = m[a].mutability
  <2> HIDE DEF a
  <2>1. q = SetValue(m, a, s.status)
    BY <1>1 DEF SyncAvailability, a
  <2>2. a \in DOMAIN m
    BY DEF a
  <2> QED BY <1>2, <2>1, <2>2, SetValueKeeps
<1>4. /\ \A t \in MirrorSlots : Url(t) # a /\ Secret(t) # a
      /\ a \notin SlotKeys
  BY DmConstants DEF SlotKeys
<1> HIDE DEF a
<1>5. WellFormed(q) /\ OnlyStored(q, s.urls)
  BY <1>3 DEF Keeps, OnlyStored
<1>6. r = SyncNetwork(q, s)
  BY <1>1 DEF Sync
<1>7. /\ Keeps(q, r, SlotKeys) /\ OnlyStored(r, s.urls)
      /\ \A t \in MirrorSlots : InLine(r, s.urls, t)
  BY <1>5, <1>6, SyncNetworkKeeps
<1>8. a \in DOMAIN q
  BY <1>3 DEF a
<1>9. r[a] = q[a]
  BY <1>4, <1>7, <1>8 DEF Keeps
<1>10. Keeps(m, r, SlotKeys \cup {a})
  BY <1>3, <1>7 DEF Keeps
<1> QED BY <1>3, <1>7, <1>9, <1>10 DEF Synced, a

\* How far a quotient rounds down.
LEMMA QuotientBounds ==
  ASSUME NEW a \in Nat, NEW c \in Nat, c > 0
  PROVE  (a \div c) \in Nat /\ c * (a \div c) <= a /\ a < c * (a \div c) + c
  OBVIOUS

\* Numbering places 1 .. len in blocks of c leaves none over.
LEMMA BlocksCover ==
  ASSUME NEW len \in Nat, NEW c \in Nat, c > 0, NEW j \in 1 .. len
  PROVE  \E n \in 1 .. (len + c - 1) \div c :
            /\ (n - 1) * c + 1 <= j
            /\ j <= IF n * c < len THEN n * c ELSE len
<1> DEFINE p == (j - 1) \div c
           q == (len + c - 1) \div c
<1>1. j - 1 \in Nat /\ len + c - 1 \in Nat
  OBVIOUS
<1>2. p \in Nat /\ c * p <= j - 1 /\ j - 1 < c * p + c
  BY <1>1, QuotientBounds
<1>3. q \in Nat /\ len + c - 1 < c * q + c
  BY <1>1, QuotientBounds
<1> HIDE DEF p, q
<1>4. p < q
  <2> SUFFICES ASSUME q <= p PROVE FALSE
    BY <1>2, <1>3
  <2>1. c * q \in Nat /\ c * p \in Nat /\ c * q <= c * p
    BY <1>2, <1>3, ProductGrows
  <2> QED BY <1>2, <1>3, <2>1
<1> DEFINE n == p + 1
<1>5. n \in 1 .. q /\ n - 1 = p
  BY <1>2, <1>3, <1>4
<1>6. (n - 1) * c = c * p /\ n * c = c * p + c /\ c * p \in Nat
  <2>1. p * c = c * p /\ (p + 1) * c = c * p + c /\ c * p \in Nat
    BY <1>2
  <2> QED BY <1>5, <2>1
<1>7. (n - 1) * c + 1 <= j /\ j <= IF n * c < len THEN n * c ELSE len
  BY <1>2, <1>6
<1> HIDE DEF n
<1> QED BY <1>5, <1>7 DEF q

\* chunk_report: the chunks are numbered, the last one says so, and together
\* they hold every entry.
LEMMA ChunksAreWhole ==
  ASSUME NEW e, IsFiniteSet(e), NEW c, c = ChunkReport(e)
  PROVE  /\ Len(c) \in Nat \ {0} /\ DOMAIN c = 1 .. Len(c)
         /\ \A n \in 1 .. Len(c) : c[n].seqNo = n - 1 /\ c[n].tbc = (n < Len(c))
         /\ UNION {c[n].entries : n \in 1 .. Len(c)} = e
<1> DEFINE all == SetToSeq(e)
           len == Len(all)
           size == (len + ChunkSize - 1) \div ChunkSize
           total == IF all = << >> THEN 1 ELSE size
           to(n) == IF n * ChunkSize < len THEN n * ChunkSize ELSE len
           from(n) == (n - 1) * ChunkSize + 1
           part(n) == ToSet(SubSeq(all, from(n), to(n)))
<1>1. all \in Seq(e) /\ ToSet(all) = e
  BY EnumerationIsWhole
<1>2. len \in Nat /\ DOMAIN all = 1 .. len /\ (all = << >> <=> len = 0)
  BY <1>1
<1>3. ChunkSize \in Nat /\ ChunkSize > 0
  BY DmConstants
<1>4. c = [n \in 1 .. total |-> [seqNo |-> n - 1, tbc |-> n < total, entries |-> part(n)]]
  BY DEF ChunkReport
<1> HIDE DEF all, len
<1>5. size \in Nat /\ (len > 0 => size > 0)
  <2>1. len + ChunkSize - 1 \in Nat
    BY <1>2, <1>3
  <2>2. size \in Nat /\ len + ChunkSize - 1 < ChunkSize * size + ChunkSize
    BY <1>3, <2>1, QuotientBounds
  <2> HIDE DEF size
  <2>3. size = 0 => ChunkSize * size = 0
    BY <1>3
  <2> QED BY <1>2, <1>3, <2>2, <2>3
<1>6. total \in Nat \ {0}
  <2> HIDE DEF size
  <2> QED BY <1>2, <1>5
<1> HIDE DEF total, part
<1>7. /\ DOMAIN c = 1 .. total /\ Len(c) = total
      /\ \A n \in 1 .. total : /\ c[n].seqNo = n - 1 /\ c[n].tbc = (n < total)
                               /\ c[n].entries = part(n)
  BY <1>4, <1>6
<1>8. ASSUME NEW n \in 1 .. total PROVE part(n) \subseteq e
  <2>1. /\ from(n) \in Int /\ from(n) >= 1
        /\ to(n) \in Int /\ to(n) <= len
    <3>1. (n - 1) * ChunkSize \in Nat /\ n * ChunkSize \in Nat
      BY <1>3, <1>6
    <3> QED BY <1>2, <3>1
  <2> HIDE DEF from, to
  <2>2. SubSeq(all, from(n), to(n)) \in Seq(e)
    BY <1>1, <1>2, <2>1 DEF len
  <2> QED BY <2>2 DEF part, ToSet
<1>9. ASSUME NEW x \in e PROVE \E n \in 1 .. total : x \in part(n)
  <2>1. PICK j \in 1 .. len : all[j] = x
    BY <1>1, <1>2 DEF ToSet
  <2>2. total = size
    BY <1>2, <2>1 DEF total
  <2>3. PICK n \in 1 .. total : from(n) <= j /\ j <= to(n)
    BY <1>2, <1>3, <2>1, <2>2, BlocksCover
  <2>4. /\ from(n) \in Int /\ from(n) >= 1 /\ to(n) \in Int /\ to(n) <= len
    <3>1. (n - 1) * ChunkSize \in Nat /\ n * ChunkSize \in Nat
      BY <1>3, <1>6
    <3> QED BY <1>2, <3>1
  <2> HIDE DEF from, to
  <2> DEFINE s == SubSeq(all, from(n), to(n))
             i == j - from(n) + 1
  <2>5. i \in 1 .. to(n) - from(n) + 1 /\ from(n) + i - 1 = j
    BY <1>2, <2>1, <2>3, <2>4
  <2>6. DOMAIN s = 1 .. to(n) - from(n) + 1 /\ s[i] = all[j]
    BY <1>1, <1>2, <2>4, <2>5
  <2>7. x \in ToSet(s)
    BY <2>1, <2>5, <2>6 DEF ToSet
  <2> QED BY <2>7 DEF part
<1>10. UNION {c[n].entries : n \in 1 .. total} = e
  BY <1>7, <1>8, <1>9
<1> QED BY <1>6, <1>7, <1>10

\* The letters in the actor's mailbox.
Standings == {"Available", "Occupied"}
BindingEvents ==
    [kind : {"registered"}, key : SettingKeys, mutability : {"ReadWrite", "ReadOnly"}]
    \cup [kind : {"status"}, status : Standings]
CsmsEvents ==
    [kind : {"set"}, key : SettingKeys, value : Values]
    \cup [kind : {"profile"}, slot : MirrorSlots, url : Urls]
Letters == [from : {"binding"}, event : BindingEvents]
           \cup [from : {"csms"}, event : CsmsEvents]
Stations == [status : Standings, urls : StoredUrls]

DmTypes ==
    /\ WellFormed(model) /\ WellFormed(seen) /\ DOMAIN seen \subseteq DOMAIN model
    /\ station \in Stations /\ inbox \in Seq(Letters)
    /\ request \in [pc : {"none", "resolving", "sent", "profile", "answered"},
                    items : Seq(Items), outcomes : Seq({"Unknown", "Rejected", "Accepted"})]
    /\ dmPast \in [asks : Nat, binding : Nat, renewed : SUBSET Keys]

\* What readers see follows the state, and the settings the actor's own model.
Mirrors ==
    /\ Key("AvailabilityState") \in DOMAIN seen
    /\ seen[Key("AvailabilityState")].value = station.status
    /\ seen[Key("AvailabilityState")].mutability = "ReadOnly"
    /\ model[Key("AvailabilityState")].mutability = "ReadOnly"
    /\ OnlyStored(model, station.urls)
    /\ \A t \in MirrorSlots : InLine(seen, station.urls, t)
    /\ \A k \in SettingKeys : k \in DOMAIN seen => seen[k] = model[k]

Pending == request.items[Len(request.outcomes) + 1]

\* A sender has one letter out at most, and the CSMS's is what it asked for.
Asking ==
    /\ \A i, j \in 1 .. Len(inbox) : inbox[i].from = inbox[j].from => i = j
    /\ request.pc \in {"none", "profile"} => Len(request.outcomes) = 0
    /\ request.pc \in {"resolving", "sent"} => Len(request.outcomes) < Len(request.items)
    /\ request.pc = "answered" => Len(request.outcomes) = Len(request.items)
    /\ request.pc = "sent" => Pending.key \in SettingKeys \cap DOMAIN seen
    /\ \A i \in 1 .. Len(inbox) : inbox[i].from = "csms" =>
          \/ /\ request.pc = "sent" /\ inbox[i].event.kind = "set"
             /\ inbox[i].event.key = Pending.key /\ inbox[i].event.value = Pending.value
          \/ request.pc = "profile" /\ inbox[i].event.kind = "profile"

\* An item's value is there, unless its variable was registered anew.
There(item) == item.key \in dmPast.renewed \/ seen[item.key].value = item.value

\* An accepted item is there unless a later one for its variable was accepted,
\* or is on its way.
Readable ==
    /\ \A i \in 1 .. Len(request.outcomes) : request.outcomes[i] = "Accepted" =>
          /\ request.items[i].key \in SettingKeys \cap DOMAIN seen
          /\ \/ There(request.items[i])
             \/ \E j \in i + 1 .. Len(request.outcomes) :
                   request.items[j].key = request.items[i].key
                   /\ request.outcomes[j] = "Accepted"
             \/ request.pc = "sent" /\ Pending.key = request.items[i].key
    /\ request.pc = "sent" /\ ~Waiting("csms") => There(Pending)

\* What the CSMS has of a report are chunks of it.
Reporting ==
    /\ report = [pc |-> report.pc, sent |-> report.sent, received |-> report.received,
                 entries |-> report.entries]
    /\ report.pc \in {"none", "sending", "answered"} /\ report.sent \in Nat
    /\ IsFiniteSet(report.entries)
    /\ report.received \in Seq({ChunkReport(report.entries)[n] :
                                   n \in 1 .. Len(ChunkReport(report.entries))})
    /\ report.pc = "sending" => report.sent < Len(ChunkReport(report.entries))

DmInv == DmTypes /\ Mirrors /\ Asking /\ Readable /\ Reporting

LEMMA EntriesAreFinite ==
  ASSUME NEW m, WellFormed(m), NEW S \in SUBSET DOMAIN m
  PROVE  IsFiniteSet({[key |-> k, value |-> m[k].value] : k \in S})
<1> DEFINE T == {[key |-> k, value |-> m[k].value] : k \in S}
           f == [k \in S |-> [key |-> k, value |-> m[k].value]]
<1>1. IsFiniteSet(S)
  BY FS_Subset DEF WellFormed
<1>2. f \in Surjection(S, T)
  BY DEF Surjection
<1> HIDE DEF f, T
<1>3. IsFiniteSet(T)
  BY <1>1, <1>2, FS_Surjection
<1> QED BY <1>3 DEF T

\* Reports come and go without the rest.
LEMMA ReportsReport ==
  ASSUME Reporting, WellFormed(seen),
         ReportAsked \/ FilteredReportAsked \/ SendChunk \/ ReportOver
  PROVE  Reporting'
<1>1. ASSUME NEW e, IsFiniteSet(e),
             report' = [pc |-> "sending", sent |-> 0, received |-> << >>, entries |-> e]
      PROVE  Reporting'
  <2>1. PICK c : c = ChunkReport(e)
    OBVIOUS
  <2>2. Len(c) \in Nat /\ Len(c) > 0
    BY <1>1, <2>1, ChunksAreWhole
  <2>3. << >> \in Seq({c[n] : n \in 1 .. Len(c)})
    OBVIOUS
  <2> QED BY <1>1, <2>1, <2>2, <2>3 DEF Reporting
<1>2. CASE ReportAsked
  <2>1. PICK base \in {"FullInventory", "ConfigurationInventory", "SummaryInventory"} :
           report' = [pc |-> "sending", sent |-> 0, received |-> <<>>,
                      entries |-> Entries(seen, base)]
    BY <1>2 DEF ReportAsked
  <2>2. Matches(seen, base) \in SUBSET DOMAIN seen
    BY DEF Matches
  <2>3. IsFiniteSet(Entries(seen, base))
    BY <2>2, EntriesAreFinite DEF Entries
  <2> QED BY <1>1, <2>1, <2>3
<1>3. CASE FilteredReportAsked
  <2>1. PICK filter :
           report' = report \/
           report' = [pc |-> "sending", sent |-> 0, received |-> <<>>,
                      entries |-> Filtered(seen, filter)]
    BY <1>3 DEF FilteredReportAsked
  <2>2. IsFiniteSet(Filtered(seen, filter))
    <3>1. {k \in DOMAIN seen : filter = "Enabled" \/ k.name = filter} \in SUBSET DOMAIN seen
      OBVIOUS
    <3> QED BY <3>1, EntriesAreFinite DEF Filtered
  <2>3. CASE report' = report
    BY <2>3 DEF Reporting
  <2> QED BY <1>1, <2>1, <2>2, <2>3
<1>4. CASE SendChunk
  <2> DEFINE c == ChunkReport(report.entries)
             n == report.sent + 1
  <2>1. PICK arrives \in BOOLEAN :
           report' = [report EXCEPT
              !.sent = report.sent + 1,
              !.received = IF arrives THEN Append(report.received, c[n])
                           ELSE report.received,
              !.pc = IF n = Len(c) THEN "answered" ELSE "sending"]
    BY <1>4 DEF SendChunk, NextChunk
  <2>2. /\ report.sent \in Nat /\ report.sent < Len(c)
        /\ report.received \in Seq({c[k] : k \in 1 .. Len(c)})
        /\ IsFiniteSet(report.entries)
    BY <1>4 DEF SendChunk, Reporting
  <2>3. Len(c) \in Nat
    <3>1. PICK d : d = ChunkReport(report.entries)
      OBVIOUS
    <3>2. Len(d) \in Nat
      BY <2>2, <3>1, ChunksAreWhole
    <3> QED BY <3>1, <3>2
  <2> HIDE DEF c
  <2>4. n \in 1 .. Len(c) /\ n \in Nat
    BY <2>2, <2>3
  <2>5. c[n] \in {c[k] : k \in 1 .. Len(c)}
    BY <2>4
  <2>6. Append(report.received, c[n]) \in Seq({c[k] : k \in 1 .. Len(c)})
    BY <2>2, <2>5
  <2>7. /\ report'.sent = n /\ report'.entries = report.entries
        /\ report'.received \in {report.received, Append(report.received, c[n])}
        /\ report'.pc = (IF n = Len(c) THEN "answered" ELSE "sending")
        /\ report' = [pc |-> report'.pc, sent |-> report'.sent,
                      received |-> report'.received, entries |-> report'.entries]
    <3>1. report = [pc |-> report.pc, sent |-> report.sent, received |-> report.received,
                    entries |-> report.entries]
      BY DEF Reporting
    <3> QED BY <2>1, <3>1
  <2>8. report'.pc = "sending" => report'.sent < Len(c)
    BY <2>3, <2>4, <2>7
  <2> QED BY <2>2, <2>4, <2>6, <2>7, <2>8 DEF Reporting, c
<1>5. CASE ReportOver
  <2>1. PICK c : c = ChunkReport({})
    OBVIOUS
  <2>2. << >> \in Seq({c[n] : n \in 1 .. Len(c)}) /\ IsFiniteSet({})
    BY FS_EmptySet
  <2> QED BY <1>5, <2>1, <2>2 DEF Reporting, ReportOver, NoReport
<1> QED BY <1>2, <1>3, <1>4, <1>5

\* A report that looks whole has every chunk, in its place.
LEMMA WholeIsComplete == Reporting => WholeReportsAreComplete
<1> SUFFICES ASSUME Reporting, Whole(report.received)
             PROVE  UNION {report.received[i].entries : i \in DOMAIN report.received}
                      = report.entries
  BY DEF WholeReportsAreComplete
<1> DEFINE e == report.entries
           r == report.received
<1>1. PICK c : c = ChunkReport(e)
  OBVIOUS
<1>2. /\ Len(c) \in Nat \ {0}
      /\ \A n \in 1 .. Len(c) : c[n].seqNo = n - 1 /\ c[n].tbc = (n < Len(c))
      /\ UNION {c[n].entries : n \in 1 .. Len(c)} = e
  BY <1>1, ChunksAreWhole DEF Reporting
<1>3. r \in Seq({c[n] : n \in 1 .. Len(c)})
  BY <1>1 DEF Reporting
<1>4. /\ \A i \in DOMAIN r : r[i].seqNo = i - 1
      /\ r # << >> /\ ~r[Len(r)].tbc
  BY DEF Whole, Last
<1> HIDE DEF e, r
<1>5. Len(r) \in Nat /\ Len(r) > 0 /\ DOMAIN r = 1 .. Len(r)
  BY <1>3, <1>4
<1>6. \A i \in 1 .. Len(r) : i \in 1 .. Len(c) /\ r[i] = c[i]
  <2> SUFFICES ASSUME NEW i \in 1 .. Len(r) PROVE i \in 1 .. Len(c) /\ r[i] = c[i]
    OBVIOUS
  <2>1. PICK n \in 1 .. Len(c) : r[i] = c[n]
    BY <1>3, <1>5
  <2>2. n - 1 = i - 1
    BY <1>2, <1>4, <1>5, <2>1
  <2>3. n = i
    BY <1>2, <1>5, <2>2
  <2> QED BY <2>1, <2>3
<1>7. Len(r) = Len(c)
  <2>1. Len(r) \in 1 .. Len(r)
    BY <1>5
  <2>2. Len(r) \in 1 .. Len(c) /\ ~c[Len(r)].tbc
    BY <1>4, <1>6, <2>1
  <2>3. ~(Len(r) < Len(c))
    BY <1>2, <2>2
  <2> QED BY <1>2, <1>5, <2>2, <2>3
<1>8. UNION {r[i].entries : i \in 1 .. Len(r)} = UNION {c[n].entries : n \in 1 .. Len(c)}
  BY <1>6, <1>7
<1> QED BY <1>2, <1>5, <1>8 DEF e, r

LEMMA DmInitInv == DmInit => DmInv
<1> SUFFICES ASSUME DmInit PROVE DmInv
  OBVIOUS
<1> DEFINE a == Key("AvailabilityState")
           h == Key("HeartbeatInterval")
           up == [value |-> "Available", mutability |-> "ReadOnly"]
           beat == [value |-> "0", mutability |-> "ReadWrite"]
<1>1. /\ model = [k \in {Key(n) : n \in Fixed} |->
                    IF k.name = "AvailabilityState" THEN up ELSE beat]
      /\ seen = model /\ inbox = << >> /\ report = NoReport
      /\ station = [status |-> "Available", urls |-> [s \in MirrorSlots |-> "none"]]
      /\ request = [pc |-> "none", items |-> <<>>, outcomes |-> <<>>]
      /\ dmPast = [asks |-> 0, binding |-> 0, renewed |-> {}]
  BY DEF DmInit
<1>2. {Key(n) : n \in Fixed} = {a, h} /\ a.name = "AvailabilityState"
      /\ h.name # "AvailabilityState"
  BY DEF Fixed, Key
<1>3. a \in Keys /\ h \in Keys /\ a # h /\ a \notin SettingKeys
      /\ \A t \in MirrorSlots : Url(t) # a /\ Url(t) # h
  BY DmConstants
<1> HIDE DEF a, h
<1>4. DOMAIN model = {a, h} /\ model[a] = up /\ model[h] = beat
  BY <1>1, <1>2
<1>5. IsFiniteSet({a, h}) /\ Cardinality({a, h}) <= 2
  <2>1. {a, h} = {a} \cup {h} /\ h \notin {a}
    BY <1>3
  <2>2. IsFiniteSet({a}) /\ Cardinality({a}) = 1
    BY FS_Singleton
  <2>3. IsFiniteSet({a} \cup {h}) /\ Cardinality({a} \cup {h}) = Cardinality({a}) + 1
    BY <2>1, <2>2, FS_AddElement
  <2> QED BY <2>1, <2>2, <2>3
<1>6. up \in Attributes /\ beat \in Attributes
  BY DEF Attributes, Texts, Mutabilities
<1>7. WellFormed(model)
  <2>1. Cardinality({a, h}) <= MaxVariables
    BY <1>5, DmConstants, FS_CardinalityType
  <2> QED BY <1>3, <1>4, <1>5, <1>6, <2>1 DEF WellFormed
<1>8. DmTypes
  <2>1. station \in Stations
    BY <1>1 DEF Stations, Standings, StoredUrls
  <2>2. inbox \in Seq(Letters) /\ request.items \in Seq(Items)
    BY <1>1
  <2> QED BY <1>1, <1>7, <2>1, <2>2 DEF DmTypes
<1>9. Mirrors
  <2>1. seen[a].value = station.status /\ seen[a].mutability = "ReadOnly"
        /\ a \in DOMAIN seen
    BY <1>1, <1>4
  <2>2. \A t \in MirrorSlots : Url(t) \notin DOMAIN model /\ station.urls[t] = "none"
    BY <1>1, <1>3, <1>4
  <2> QED BY <1>1, <2>1, <2>2 DEF Mirrors, OnlyStored, InLine, a
<1>10. Asking /\ Readable
  BY <1>1 DEF Asking, Readable
<1>11. Reporting
  <2>1. PICK c : c = ChunkReport({})
    OBVIOUS
  <2>2. << >> \in Seq({c[n] : n \in 1 .. Len(c)}) /\ IsFiniteSet({})
    BY FS_EmptySet
  <2> QED BY <1>1, <2>1, <2>2 DEF Reporting, NoReport
<1> QED BY <1>8, <1>9, <1>10, <1>11 DEF DmInv

\* What one event does to the actor's model, before it is brought in line.
Effect(ev, m, st, changed) ==
    /\ Keeps(model, m, SettingKeys)
    /\ st \in Stations /\ OnlyStored(m, st.urls)
    /\ ~changed => m = model /\ st = station
    /\ \A k \in SettingKeys \cap DOMAIN model :
          \/ m[k] = model[k]
          \/ ev.kind = "registered" /\ ev.key = k /\ changed
          \/ ev.kind = "set" /\ ev.key = k
    /\ ev.kind = "set" /\ ev.key \in DOMAIN model => m[ev.key].value = ev.value

LEMMA AppliedEffect ==
  ASSUME DmTypes, Mirrors, NEW ev \in BindingEvents \cup CsmsEvents,
         NEW after, after = Applied(ev)
  PROVE  Effect(ev, after.model, after.station, after.changed)
<1>0. /\ WellFormed(model) /\ station \in Stations /\ OnlyStored(model, station.urls)
      /\ station.urls \in StoredUrls /\ station.status \in Standings
      /\ SettingKeys \subseteq Keys
  BY DmConstants DEF DmTypes, Mirrors, Stations
<1>1. CASE ev \in [kind : {"registered"}, key : SettingKeys,
                   mutability : {"ReadWrite", "ReadOnly"}]
  <2>1. /\ ev.kind = "registered" /\ ev.key \in SettingKeys /\ ev.key \in Keys
        /\ ev.mutability \in Mutabilities /\ "0" \in Texts
    BY <1>0, <1>1 DEF Mutabilities, Texts
  <2>2. PICK r : r = Register(model, ev.key, "0", ev.mutability)
    OBVIOUS
  <2>3. Registered(model, r, ev.key, "0", ev.mutability)
    BY <1>0, <2>1, <2>2, RegisterKeeps
  <2>4. after = [model |-> r, station |-> station, changed |-> Fits(model, ev.key)]
    BY <2>1, <2>2 DEF Applied
  <2>5. Keeps(model, r, {ev.key}) /\ (~Fits(model, ev.key) => r = model)
        /\ (ev.key \in DOMAIN model => Fits(model, ev.key))
    BY <2>3 DEF Registered, Fits
  <2>6. Keeps(model, r, SettingKeys)
    BY <2>1, <2>5 DEF Keeps
  <2>7. OnlyStored(r, station.urls)
    BY <1>0, <2>6, DmConstants DEF OnlyStored, Keeps
  <2>8. \A k \in SettingKeys \cap DOMAIN model : k # ev.key => r[k] = model[k]
    BY <2>5 DEF Keeps
  <2>9. Effect(ev, r, station, Fits(model, ev.key))
    BY <1>0, <2>1, <2>5, <2>6, <2>7, <2>8 DEF Effect
  <2> QED BY <2>4, <2>9
<1>2. CASE ev \in [kind : {"set"}, key : SettingKeys, value : Values]
  <2>1. /\ ev.kind = "set" /\ ev.key \in SettingKeys /\ ev.key \in Keys
        /\ ev.value \in Texts
    BY <1>0, <1>2 DEF Values, Texts
  <2>2. PICK r : r = SetValue(model, ev.key, ev.value)
    OBVIOUS
  <2>3. /\ Keeps(model, r, {ev.key})
        /\ ev.key \in DOMAIN model => r[ev.key].value = ev.value
        /\ ev.key \notin DOMAIN model => r = model
    BY <1>0, <2>1, <2>2, SetValueKeeps
  <2>4. after = [model |-> r, station |-> station, changed |-> ev.key \in DOMAIN model]
    BY <2>1, <2>2 DEF Applied
  <2>6. Keeps(model, r, SettingKeys)
    BY <2>1, <2>3 DEF Keeps
  <2>7. OnlyStored(r, station.urls)
    BY <1>0, <2>6, DmConstants DEF OnlyStored, Keeps
  <2>8. \A k \in SettingKeys \cap DOMAIN model : k # ev.key => r[k] = model[k]
    BY <2>3 DEF Keeps
  <2>9. Effect(ev, r, station, ev.key \in DOMAIN model)
    BY <1>0, <2>1, <2>3, <2>6, <2>7, <2>8 DEF Effect
  <2> QED BY <2>4, <2>9
<1>3. Keeps(model, model, SettingKeys)
  BY <1>0 DEF Keeps
<1>4. CASE ev \in [kind : {"profile"}, slot : MirrorSlots, url : Urls]
  <2>1. ev.kind = "profile" /\ ev.slot \in MirrorSlots /\ ev.url \in Urls /\ ev.url # "none"
    BY <1>4 DEF Urls
  <2> DEFINE st == [station EXCEPT !.urls[ev.slot] = ev.url]
  <2>2. after = [model |-> model, station |-> st, changed |-> TRUE]
    BY <2>1 DEF Applied
  <2>3. [station.urls EXCEPT ![ev.slot] = ev.url] \in StoredUrls
    BY <1>0, <2>1 DEF StoredUrls
  <2>4. st \in Stations /\ st.urls = [station.urls EXCEPT ![ev.slot] = ev.url]
    BY <1>0, <2>3 DEF Stations
  <2>5. \A t \in MirrorSlots : station.urls[t] # "none" => st.urls[t] # "none"
    BY <1>0, <2>1, <2>4 DEF StoredUrls
  <2>6. OnlyStored(model, st.urls)
    BY <1>0, <2>5 DEF OnlyStored
  <2> HIDE DEF st
  <2>7. after.model = model /\ after.station = st /\ after.changed
    BY <2>2
  <2>8. Effect(ev, model, st, after.changed)
    BY <1>3, <2>1, <2>4, <2>6, <2>7 DEF Effect
  <2> QED BY <2>7, <2>8
<1>5. CASE ev \in [kind : {"status"}, status : Standings]
  <2>1. ev.kind = "status" /\ ev.status \in Standings
    BY <1>5
  <2> DEFINE st == [station EXCEPT !.status = ev.status]
  <2>2. after = [model |-> model, station |-> st,
                 changed |-> station.status # ev.status]
    BY <2>1 DEF Applied
  <2>3. st \in Stations /\ st.urls = station.urls
        /\ (station.status = ev.status => st = station)
    BY <1>0, <2>1 DEF Stations
  <2> HIDE DEF st
  <2>4. PICK changed \in BOOLEAN : changed = (station.status # ev.status)
    OBVIOUS
  <2>5. Effect(ev, model, st, changed)
    BY <1>0, <1>3, <2>1, <2>3, <2>4 DEF Effect
  <2>6. after.model = model /\ after.station = st /\ after.changed = changed
    BY <2>2, <2>4
  <2> QED BY <2>5, <2>6
<1> QED BY <1>1, <1>2, <1>4, <1>5 DEF BindingEvents, CsmsEvents

LEMMA ActorKeeps ==
  ASSUME DmInv, ActorApplies
  PROVE  DmInv'
<1> DEFINE a == Key("AvailabilityState")
<1>1. PICK ev : ev = Head(inbox).event
  OBVIOUS
<1>2. PICK after : after = Applied(ev)
  OBVIOUS
<1>3. /\ inbox # << >> /\ inbox' = Tail(inbox)
      /\ model' = Sync(after.model, after.station) /\ station' = after.station
      /\ seen' = (IF after.changed THEN model' ELSE seen)
      /\ UNCHANGED <<request, report>>
  BY <1>1, <1>2 DEF ActorApplies
<1>4. dmPast' = [dmPast EXCEPT !.renewed =
                CASE ev.kind = "registered" /\ after.changed -> dmPast.renewed \cup {ev.key}
                  [] ev.kind = "set" -> dmPast.renewed \ {ev.key}
                  [] OTHER -> dmPast.renewed]
  BY <1>1, <1>2 DEF ActorApplies
<1>5. DmTypes /\ Mirrors /\ Asking /\ Readable /\ Reporting
  BY DEF DmInv
<1>6. /\ Len(inbox) \in Nat /\ Len(inbox) > 0
      /\ Tail(inbox) \in Seq(Letters) /\ Len(Tail(inbox)) = Len(inbox) - 1
      /\ \A i \in 1 .. Len(Tail(inbox)) :
            i + 1 \in 1 .. Len(inbox) /\ Tail(inbox)[i] = inbox[i + 1]
      /\ inbox[1] \in Letters /\ ev = inbox[1].event /\ 1 \in 1 .. Len(inbox)
  BY <1>1, <1>3, <1>5 DEF DmTypes
<1>7. ev \in BindingEvents \cup CsmsEvents
  BY <1>6 DEF Letters
<1>8. Effect(ev, after.model, after.station, after.changed)
  BY <1>2, <1>5, <1>7, AppliedEffect
<1>9. PICK m : m = after.model
  OBVIOUS
<1>10. PICK st : st = after.station
  OBVIOUS
<1>11. /\ Keeps(model, m, SettingKeys) /\ WellFormed(m)
       /\ st \in Stations /\ OnlyStored(m, st.urls)
       /\ ~after.changed => m = model /\ st = station
       /\ station' = st /\ model' = Sync(m, st)
  BY <1>3, <1>8, <1>9, <1>10 DEF Effect, Keeps
<1>12. /\ a \in DOMAIN model /\ a \notin SettingKeys /\ a \in DOMAIN m /\ m[a] = model[a]
  BY <1>5, <1>11, DmConstants DEF Mirrors, DmTypes, Keeps
<1>13. Synced(m, model', st)
  <2>1. st.urls \in StoredUrls /\ st.status \in {"Available", "Occupied"}
    BY <1>11 DEF Stations, Standings
  <2>2. PICK r : r = model'
    OBVIOUS
  <2>3. Synced(m, r, st)
    BY <1>11, <1>12, <2>1, <2>2, SyncKeeps
  <2> QED BY <2>2, <2>3
<1>14. /\ WellFormed(model') /\ DOMAIN m \subseteq DOMAIN model'
       /\ \A k \in SettingKeys \cap DOMAIN m : model'[k] = m[k]
       /\ model'[a].value = st.status /\ model'[a].mutability = "ReadOnly"
       /\ OnlyStored(model', st.urls)
       /\ \A t \in MirrorSlots : InLine(model', st.urls, t)
  <2>1. \A k \in SettingKeys : k \notin SlotKeys /\ k # a
    BY DmConstants DEF SlotKeys
  <2> QED BY <1>5, <1>12, <1>13, <2>1 DEF Synced, Keeps, Mirrors
<1>15. DOMAIN model \subseteq DOMAIN m /\ DOMAIN seen \subseteq DOMAIN model
  BY <1>5, <1>11 DEF Keeps, DmTypes
<1>16. dmPast' \in [asks : Nat, binding : Nat, renewed : SUBSET Keys]
  <2>1. \A k : ev.kind = "registered" /\ k = ev.key => k \in Keys
    BY <1>7, DmConstants DEF BindingEvents, CsmsEvents
  <2> QED BY <1>4, <1>5, <2>1 DEF DmTypes
<1>17. DmTypes'
  <2>1. WellFormed(seen') /\ DOMAIN seen' \subseteq DOMAIN model'
    BY <1>3, <1>5, <1>14, <1>15 DEF DmTypes
  <2> QED BY <1>3, <1>5, <1>6, <1>11, <1>14, <1>16, <2>1 DEF DmTypes
\* What readers see of a setting is what the event left of it.
<1>18. \A k \in SettingKeys \cap DOMAIN seen :
          k \in DOMAIN seen' /\ seen'[k] = m[k] /\ seen[k] = model[k]
  BY <1>3, <1>5, <1>11, <1>14, <1>15 DEF Mirrors
<1>19. Mirrors'
  <2>1. CASE after.changed
    <3>1. seen' = model'
      BY <1>3, <2>1
    <3>2. a \in DOMAIN model'
      BY <1>12, <1>14
    <3> QED BY <1>11, <1>14, <3>1, <3>2 DEF Mirrors
  <2>2. CASE ~after.changed
    <3>1. seen' = seen /\ station' = station /\ m = model /\ st = station
      BY <1>3, <1>11, <2>2
    <3>2. \A k \in SettingKeys : k \in DOMAIN seen' => seen'[k] = model'[k]
      BY <1>14, <1>15, <1>18, <3>1
    <3> QED BY <1>5, <1>14, <3>1, <3>2 DEF Mirrors
  <2> QED BY <2>1, <2>2
<1>20. DOMAIN seen \cap SettingKeys \subseteq DOMAIN seen'
  BY <1>18
<1>21. Asking'
  <2>1. \A i, j \in 1 .. Len(inbox') : inbox'[i].from = inbox'[j].from => i = j
    <3> SUFFICES ASSUME NEW i \in 1 .. Len(inbox'), NEW j \in 1 .. Len(inbox'),
                        inbox'[i].from = inbox'[j].from
                 PROVE  i = j
      OBVIOUS
    <3>1. /\ i + 1 \in 1 .. Len(inbox) /\ inbox'[i] = inbox[i + 1]
          /\ j + 1 \in 1 .. Len(inbox) /\ inbox'[j] = inbox[j + 1]
      BY <1>3, <1>6
    <3>2. i + 1 = j + 1
      BY <1>5, <3>1 DEF Asking
    <3> QED BY <1>3, <1>6, <3>2
  <2>2. \A i \in 1 .. Len(inbox') : \E j \in 1 .. Len(inbox) : inbox'[i] = inbox[j]
    BY <1>3, <1>6
  <2>3. Pending' = Pending
    BY <1>3 DEF Pending
  <2> QED BY <1>3, <1>5, <1>20, <2>1, <2>2, <2>3 DEF Asking
<1>22. \A k \in SettingKeys \cap DOMAIN seen : m[k] # model[k] =>
           \/ ev.kind = "registered" /\ ev.key = k /\ k \in dmPast'.renewed
           \/ ev.kind = "set" /\ ev.key = k
  <2> SUFFICES ASSUME NEW k \in SettingKeys \cap DOMAIN seen, m[k] # model[k]
               PROVE  \/ ev.kind = "registered" /\ ev.key = k /\ k \in dmPast'.renewed
                      \/ ev.kind = "set" /\ ev.key = k
    OBVIOUS
  <2>1. \/ ev.kind = "registered" /\ ev.key = k /\ after.changed
        \/ ev.kind = "set" /\ ev.key = k
    BY <1>8, <1>9, <1>15 DEF Effect
  <2> QED BY <1>4, <1>5, <2>1 DEF DmTypes
<1>23. \A k \in dmPast.renewed : k \in dmPast'.renewed \/ (ev.kind = "set" /\ ev.key = k)
  BY <1>4, <1>5 DEF DmTypes
\* An item stays there, but for a write of its variable.
<1>24. ASSUME NEW item, item.key \in SettingKeys \cap DOMAIN seen, There(item)
       PROVE  There(item)' \/ (ev.kind = "set" /\ ev.key = item.key)
  BY <1>18, <1>22, <1>23, <1>24 DEF There
<1>25. ASSUME ev.kind = "set"
       PROVE  /\ request.pc = "sent" /\ Pending.key = ev.key /\ There(Pending)'
  <2>1. inbox[1].from = "csms"
    BY <1>6, <1>25 DEF Letters, BindingEvents, CsmsEvents
  <2>2. request.pc = "sent" /\ ev.key = Pending.key /\ ev.value = Pending.value
    BY <1>5, <1>6, <1>25, <2>1 DEF Asking
  <2>3. ev.key \in SettingKeys \cap DOMAIN seen
    BY <1>5, <2>2 DEF Asking
  <2>4. m[ev.key].value = ev.value
    BY <1>8, <1>9, <1>15, <1>25, <2>3 DEF Effect
  <2>5. Pending' = Pending
    BY <1>3 DEF Pending
  <2> QED BY <1>18, <2>2, <2>3, <2>4, <2>5 DEF There
<1>26. Readable'
  <2>1. ASSUME NEW i \in 1 .. Len(request.outcomes), request.outcomes[i] = "Accepted"
        PROVE  /\ request.items[i].key \in SettingKeys \cap DOMAIN seen'
               /\ \/ There(request.items[i])'
                  \/ \E j \in i + 1 .. Len(request.outcomes) :
                        request.items[j].key = request.items[i].key
                        /\ request.outcomes[j] = "Accepted"
                  \/ request.pc = "sent" /\ Pending.key = request.items[i].key
    <3> DEFINE item == request.items[i]
    <3>1. item.key \in SettingKeys \cap DOMAIN seen
      BY <1>5, <2>1 DEF Readable
    <3>2. CASE There(item)
      <4>1. There(item)' \/ (ev.kind = "set" /\ ev.key = item.key)
        <5>1. PICK x : x = item
          OBVIOUS
        <5>2. There(x)' \/ (ev.kind = "set" /\ ev.key = x.key)
          BY <1>24, <3>1, <3>2, <5>1
        <5> QED BY <1>3, <5>1, <5>2 DEF There
      <4> QED BY <1>20, <1>25, <3>1, <4>1
    <3>3. CASE ~There(item)
      BY <1>5, <1>20, <2>1, <3>1, <3>3 DEF Readable
    <3> QED BY <3>2, <3>3
  <2>2. ASSUME request.pc = "sent", ~Waiting("csms")' PROVE There(Pending)'
    <3>1. CASE ev.kind = "set"
      BY <1>25, <3>1
    <3>2. CASE ev.kind # "set"
      <4>1. ~Waiting("csms")
        <5> SUFFICES ASSUME NEW i \in 1 .. Len(inbox), inbox[i].from = "csms" PROVE FALSE
          BY <1>5 DEF Waiting, DmTypes
        <5>1. inbox[i].event.kind = "set"
          BY <1>5, <2>2 DEF Asking
        <5>2. i # 1
          BY <1>6, <3>2, <5>1
        <5>3. i - 1 \in 1 .. Len(Tail(inbox)) /\ (i - 1) + 1 = i
          BY <1>6, <5>2
        <5>4. Tail(inbox)[i - 1].from = "csms"
          BY <1>6, <5>3
        <5>5. DOMAIN Tail(inbox) = 1 .. Len(Tail(inbox))
          BY <1>6
        <5> QED BY <1>3, <2>2, <5>3, <5>4, <5>5 DEF Waiting
      <4>2. PICK x : x = Pending
        OBVIOUS
      <4>3. There(x) /\ x.key \in SettingKeys \cap DOMAIN seen
        BY <1>5, <2>2, <4>1, <4>2 DEF Readable, Asking
      <4>4. There(x)'
        BY <1>24, <3>2, <4>3
      <4>5. Pending' = x
        BY <1>3, <4>2 DEF Pending
      <4> QED BY <4>4, <4>5 DEF There
    <3> QED BY <3>1, <3>2
  <2>3. Pending' = Pending
    BY <1>3 DEF Pending
  <2> QED BY <1>3, <2>1, <2>2, <2>3 DEF Readable
<1>27. Reporting'
  BY <1>3, <1>5 DEF Reporting
<1> QED BY <1>17, <1>19, <1>21, <1>26, <1>27 DEF DmInv

\* What the other steps leave as it is.
LEMMA ModelFrame ==
  ASSUME DmTypes, Mirrors, UNCHANGED <<model, station, seen>>
  PROVE  Mirrors'
  BY DEF Mirrors

\* A letter posted by a sender that has none in the mailbox.
OneMore(who, ev) ==
    /\ inbox' \in Seq(Letters)
    /\ \A i, j \in 1 .. Len(inbox') : inbox'[i].from = inbox'[j].from => i = j
    /\ \A i \in 1 .. Len(inbox') :
          \/ i \in 1 .. Len(inbox) /\ inbox'[i] = inbox[i]
          \/ inbox'[i].from = who /\ inbox'[i].event = ev
    /\ Waiting(who)' /\ (Waiting("csms") => Waiting("csms")')

LEMMA Posted ==
  ASSUME DmTypes, Asking, NEW who \in {"binding", "csms"}, NEW ev,
         [from |-> who, event |-> ev] \in Letters,
         ~Waiting(who), Post(who, ev)
  PROVE  OneMore(who, ev)
<1> DEFINE x == [from |-> who, event |-> ev]
<1>0. \A i \in 1 .. Len(inbox) : inbox[i].from # who
  BY DEF Waiting, DmTypes
<1>1. inbox' = Append(inbox, x) /\ inbox \in Seq(Letters) /\ Len(inbox) \in Nat
  BY DEF Post, DmTypes
<1>2. x.from = who /\ x.event = ev /\ x \in Letters
  OBVIOUS
<1> HIDE DEF x
<1>3. /\ inbox' \in Seq(Letters) /\ Len(inbox') = Len(inbox) + 1
      /\ inbox'[Len(inbox) + 1] = x
      /\ \A i \in 1 .. Len(inbox) : inbox'[i] = inbox[i]
  BY <1>1, <1>2
<1>4. \A i \in 1 .. Len(inbox') : i \in 1 .. Len(inbox) \/ i = Len(inbox) + 1
  BY <1>1, <1>3
<1>5. ASSUME NEW i \in 1 .. Len(inbox'), NEW j \in 1 .. Len(inbox'),
             inbox'[i].from = inbox'[j].from
      PROVE  i = j
  <2>1. CASE i \in 1 .. Len(inbox) /\ j \in 1 .. Len(inbox)
    BY <1>3, <1>5, <2>1 DEF Asking
  <2>2. CASE i = Len(inbox) + 1 /\ j = Len(inbox) + 1
    BY <2>2
  <2>3. CASE i \in 1 .. Len(inbox) /\ j = Len(inbox) + 1
    BY <1>0, <1>2, <1>3, <1>5, <2>3
  <2>4. CASE i = Len(inbox) + 1 /\ j \in 1 .. Len(inbox)
    BY <1>0, <1>2, <1>3, <1>5, <2>4
  <2> QED BY <1>4, <2>1, <2>2, <2>3, <2>4
<1>6. Waiting("csms") => Waiting("csms")'
  <2> SUFFICES ASSUME NEW i \in 1 .. Len(inbox), inbox[i].from = "csms"
               PROVE  Waiting("csms")'
    BY <1>1 DEF Waiting
  <2>1. i \in DOMAIN inbox' /\ inbox'[i].from = "csms"
    BY <1>1, <1>3
  <2> QED BY <2>1 DEF Waiting
<1>7. \A i \in 1 .. Len(inbox') :
         \/ i \in 1 .. Len(inbox) /\ inbox'[i] = inbox[i]
         \/ inbox'[i].from = who /\ inbox'[i].event = ev
  BY <1>2, <1>3, <1>4
<1>8. Waiting(who)'
  <2>1. Len(inbox) + 1 \in DOMAIN inbox'
    BY <1>1, <1>3
  <2> QED BY <1>2, <1>3, <2>1 DEF Waiting
<1> QED BY <1>3, <1>5, <1>6, <1>7, <1>8 DEF OneMore

LEMMA BindingKeeps ==
  ASSUME DmInv, BindingReports
  PROVE  DmInv'
<1>1. /\ ~Waiting("binding") /\ UNCHANGED <<model, station, seen, request, report>>
      /\ dmPast' = [dmPast EXCEPT !.binding = dmPast.binding + 1]
  BY DEF BindingReports
<1>2. DmTypes /\ Mirrors /\ Asking /\ Readable /\ Reporting
  BY DEF DmInv
<1>3. PICK ev \in BindingEvents : Post("binding", ev)
  <2>1. CASE \E name \in Settings, mutability \in {"ReadWrite", "ReadOnly"} :
               Post("binding", [kind |-> "registered", key |-> Key(name),
                                mutability |-> mutability])
    <3>1. PICK name \in Settings, mutability \in {"ReadWrite", "ReadOnly"} :
             Post("binding", [kind |-> "registered", key |-> Key(name),
                              mutability |-> mutability])
      BY <2>1
    <3>2. Key(name) \in SettingKeys
      BY DEF SettingKeys
    <3>3. [kind |-> "registered", key |-> Key(name), mutability |-> mutability]
              \in BindingEvents
      BY <3>2 DEF BindingEvents
    <3> QED BY <3>1, <3>3
  <2>2. CASE \E status \in {"Available", "Occupied"} :
               Post("binding", [kind |-> "status", status |-> status])
    <3>1. PICK status \in {"Available", "Occupied"} :
             Post("binding", [kind |-> "status", status |-> status])
      BY <2>2
    <3>2. [kind |-> "status", status |-> status] \in BindingEvents
      BY DEF BindingEvents, Standings
    <3> QED BY <3>1, <3>2
  <2> QED BY <2>1, <2>2 DEF BindingReports
<1>4. [from |-> "binding", event |-> ev] \in Letters
  BY DEF Letters
<1>5. OneMore("binding", ev)
  BY <1>1, <1>2, <1>3, <1>4, Posted
<1>6. dmPast' \in [asks : Nat, binding : Nat, renewed : SUBSET Keys]
      /\ dmPast'.renewed = dmPast.renewed
  <2>1. dmPast \in [asks : Nat, binding : Nat, renewed : SUBSET Keys]
    BY <1>2 DEF DmTypes
  <2>2. dmPast.binding + 1 \in Nat
    BY <2>1
  <2> QED BY <1>1, <2>1, <2>2
<1>7. DmTypes'
  BY <1>1, <1>2, <1>5, <1>6 DEF DmTypes, OneMore
<1>8. Pending' = Pending
  BY <1>1 DEF Pending
<1>9. Asking'
  BY <1>1, <1>2, <1>5, <1>8 DEF Asking, OneMore
<1>10. Readable'
  BY <1>1, <1>2, <1>5, <1>6, <1>8 DEF Readable, There, OneMore
<1>11. Reporting'
  BY <1>1, <1>2 DEF Reporting
<1> QED BY <1>1, <1>2, <1>7, <1>9, <1>10, <1>11, ModelFrame DEF DmInv

\* A request begins, or is over: none of its items was answered yet.
Fresh ==
    /\ UNCHANGED <<model, station, seen, report>>
    /\ request' \in [pc : {"none", "resolving", "profile"}, items : Seq(Items),
                     outcomes : Seq({"Unknown", "Rejected", "Accepted"})]
    /\ Len(request'.outcomes) = 0
    /\ request'.pc = "resolving" => Len(request'.items) > 0
    /\ dmPast' \in [asks : Nat, binding : Nat, renewed : SUBSET Keys]
    /\ inbox' \in Seq(Letters)
    /\ \A i, j \in 1 .. Len(inbox') : inbox'[i].from = inbox'[j].from => i = j
    /\ \A i \in 1 .. Len(inbox') : inbox'[i].from = "csms" =>
          request'.pc = "profile" /\ inbox'[i].event.kind = "profile"

LEMMA FreshRequest ==
  ASSUME DmInv, Fresh
  PROVE  DmInv'
<1>1. DmTypes /\ Mirrors /\ Reporting /\ UNCHANGED <<model, station, seen, report>>
  BY DEF DmInv, Fresh
<1>2. DmTypes'
  BY <1>1 DEF DmTypes, Fresh
<1>3. Mirrors'
  BY <1>1, ModelFrame
<1>4. Asking' /\ Readable'
  BY DEF Asking, Readable, Fresh
<1>5. Reporting'
  BY <1>1 DEF Reporting
<1> QED BY <1>2, <1>3, <1>4, <1>5 DEF DmInv

\* Between requests, and once one is answered, the CSMS has no letter out.
LEMMA NoLetters ==
  ASSUME DmTypes, Asking,
         request.pc \in {"none", "resolving", "answered"} \/ ~Waiting("csms")
  PROVE  ~Waiting("csms") /\ \A i \in 1 .. Len(inbox) : inbox[i].from # "csms"
<1>1. DOMAIN inbox = 1 .. Len(inbox)
  BY DEF DmTypes
<1> QED BY <1>1 DEF Waiting, Asking

LEMMA AskedCounts ==
  ASSUME DmTypes, Asked
  PROVE  /\ dmPast' \in [asks : Nat, binding : Nat, renewed : SUBSET Keys]
         /\ dmPast'.renewed = dmPast.renewed
<1>1. dmPast \in [asks : Nat, binding : Nat, renewed : SUBSET Keys]
  BY DEF DmTypes
<1>2. dmPast.asks + 1 \in Nat
  BY <1>1
<1>3. dmPast' = [dmPast EXCEPT !.asks = dmPast.asks + 1]
  BY DEF Asked
<1> QED BY <1>1, <1>2, <1>3

LEMMA SetVariablesKeeps ==
  ASSUME DmInv, SetVariablesAsked
  PROVE  DmInv'
<1>1. /\ request.pc = "none" /\ UNCHANGED <<model, station, seen, inbox, report>>
      /\ DmTypes /\ Asking /\ Asked
  BY DEF DmInv, SetVariablesAsked
<1>2. PICK a \in Items, b \in Items :
         request' = [pc |-> "resolving", items |-> <<a, b>>, outcomes |-> << >>]
  BY DEF SetVariablesAsked
<1>3. <<a, b>> \in Seq(Items) /\ Len(<<a, b>>) = 2
  OBVIOUS
<1>4. \A i \in 1 .. Len(inbox) : inbox[i].from # "csms"
  BY <1>1, NoLetters
<1>5. dmPast' \in [asks : Nat, binding : Nat, renewed : SUBSET Keys]
  BY <1>1, AskedCounts
<1>6. request' \in [pc : {"none", "resolving", "profile"}, items : Seq(Items),
                    outcomes : Seq({"Unknown", "Rejected", "Accepted"})]
  BY <1>2, <1>3
<1>7. Len(request'.outcomes) = 0 /\ Len(request'.items) > 0
  BY <1>2, <1>3
<1>8. /\ inbox' \in Seq(Letters)
      /\ \A i, j \in 1 .. Len(inbox') : inbox'[i].from = inbox'[j].from => i = j
      /\ \A i \in 1 .. Len(inbox') : inbox'[i].from # "csms"
  BY <1>1, <1>4 DEF DmTypes, Asking
<1>9. Fresh
  BY <1>1, <1>5, <1>6, <1>7, <1>8 DEF Fresh
<1> QED BY <1>9, FreshRequest

LEMMA RequestOverKeeps ==
  ASSUME DmInv, RequestOver
  PROVE  DmInv'
<1>1. /\ UNCHANGED <<model, station, seen, inbox, report, dmPast>>
      /\ request' = [pc |-> "none", items |-> << >>, outcomes |-> << >>]
      /\ DmTypes /\ Asking
      /\ request.pc \in {"none", "resolving", "answered"} \/ ~Waiting("csms")
  BY DEF DmInv, RequestOver, Acknowledged
<1>2. \A i \in 1 .. Len(inbox) : inbox[i].from # "csms"
  BY <1>1, NoLetters
<1>3. request' \in [pc : {"none", "resolving", "profile"}, items : Seq(Items),
                    outcomes : Seq({"Unknown", "Rejected", "Accepted"})]
  BY <1>1
<1>4. /\ inbox' \in Seq(Letters)
      /\ \A i, j \in 1 .. Len(inbox') : inbox'[i].from = inbox'[j].from => i = j
      /\ \A i \in 1 .. Len(inbox') : inbox'[i].from # "csms"
      /\ dmPast' \in [asks : Nat, binding : Nat, renewed : SUBSET Keys]
  BY <1>1, <1>2 DEF DmTypes, Asking
<1>5. Fresh
  BY <1>1, <1>3, <1>4 DEF Fresh
<1> QED BY <1>5, FreshRequest

LEMMA ProfileKeeps ==
  ASSUME DmInv, ProfileAsked
  PROVE  DmInv'
<1>1. /\ request.pc = "none" /\ UNCHANGED <<model, station, seen, report>>
      /\ request' = [pc |-> "profile", items |-> << >>, outcomes |-> << >>]
      /\ DmTypes /\ Asking /\ Asked
  BY DEF DmInv, ProfileAsked
<1>2. PICK t \in MirrorSlots, url \in Urls :
         Post("csms", [kind |-> "profile", slot |-> t, url |-> url])
  BY DEF ProfileAsked
<1>3. PICK ev : ev = [kind |-> "profile", slot |-> t, url |-> url]
  OBVIOUS
<1>4. [from |-> "csms", event |-> ev] \in Letters /\ ev.kind = "profile"
  BY <1>3 DEF Letters, CsmsEvents
<1>5. /\ ~Waiting("csms")
      /\ \A i \in 1 .. Len(inbox) : inbox[i].from # "csms"
  BY <1>1, NoLetters
<1>6. OneMore("csms", ev)
  BY <1>1, <1>2, <1>3, <1>4, <1>5, Posted
<1>7. request' \in [pc : {"none", "resolving", "profile"}, items : Seq(Items),
                    outcomes : Seq({"Unknown", "Rejected", "Accepted"})]
  BY <1>1
<1>8. /\ inbox' \in Seq(Letters)
      /\ \A i, j \in 1 .. Len(inbox') : inbox'[i].from = inbox'[j].from => i = j
      /\ \A i \in 1 .. Len(inbox') : inbox'[i].from = "csms" =>
            inbox'[i].event.kind = "profile"
  BY <1>4, <1>5, <1>6 DEF OneMore
<1>9. dmPast' \in [asks : Nat, binding : Nat, renewed : SUBSET Keys]
  BY <1>1, AskedCounts
<1>10. Fresh
  BY <1>1, <1>7, <1>8, <1>9 DEF Fresh
<1> QED BY <1>10, FreshRequest

\* One more item of the request has its outcome.
Advanced(v) ==
    /\ request' \in [pc : {"resolving", "answered"}, items : Seq(Items),
                     outcomes : Seq({"Unknown", "Rejected", "Accepted"})]
    /\ request'.items = request.items
    /\ Len(request'.outcomes) = Len(request.outcomes) + 1
    /\ \A i \in 1 .. Len(request.outcomes) : request'.outcomes[i] = request.outcomes[i]
    /\ request'.outcomes[Len(request.outcomes) + 1] = v
    /\ request'.pc = IF Len(request.outcomes) + 1 = Len(request.items)
                     THEN "answered" ELSE "resolving"

LEMMA ItemAnswered ==
  ASSUME DmTypes, NEW v \in {"Unknown", "Rejected", "Accepted"},
         request' = NextItem(request, v)
  PROVE  Advanced(v)
<1>1. request \in [pc : {"none", "resolving", "sent", "profile", "answered"},
                   items : Seq(Items), outcomes : Seq({"Unknown", "Rejected", "Accepted"})]
  BY DEF DmTypes
<1>2. PICK o : o = Append(request.outcomes, v)
  OBVIOUS
<1>3. /\ o \in Seq({"Unknown", "Rejected", "Accepted"})
      /\ Len(o) = Len(request.outcomes) + 1 /\ o[Len(request.outcomes) + 1] = v
      /\ \A i \in 1 .. Len(request.outcomes) : o[i] = request.outcomes[i]
  BY <1>1, <1>2
<1>4. request' = [request EXCEPT !.outcomes = o,
                     !.pc = IF Len(o) = Len(request.items) THEN "answered"
                            ELSE "resolving"]
  BY <1>2 DEF NextItem
<1>5. /\ request'.outcomes = o /\ request'.items = request.items
      /\ request'.pc = IF Len(o) = Len(request.items) THEN "answered" ELSE "resolving"
      /\ request' \in [pc : {"resolving", "answered"}, items : Seq(Items),
                       outcomes : Seq({"Unknown", "Rejected", "Accepted"})]
  BY <1>1, <1>3, <1>4
<1> QED BY <1>3, <1>5 DEF Advanced

\* What a step of the request leaves: the outcomes so far are still borne out.
LEMMA AdvancedKeeps ==
  ASSUME DmInv, NEW v \in {"Unknown", "Rejected", "Accepted"}, Advanced(v),
         request.pc \in {"resolving", "sent"}, ~Waiting("csms"),
         v = "Accepted" => request.pc = "sent",
         v # "Accepted" => request.pc = "resolving",
         UNCHANGED <<model, station, seen, inbox, report, dmPast>>
  PROVE  DmInv'
<1> DEFINE len == Len(request.outcomes)
<1>1. DmTypes /\ Mirrors /\ Asking /\ Readable /\ Reporting
  BY DEF DmInv
<1>2. /\ len \in Nat /\ Len(request.items) \in Nat /\ len < Len(request.items)
  BY <1>1 DEF DmTypes, Asking
<1>3. /\ request'.pc \in {"resolving", "answered"} /\ request'.items = request.items
      /\ Len(request'.outcomes) = len + 1 /\ request'.outcomes[len + 1] = v
      /\ \A i \in 1 .. len : request'.outcomes[i] = request.outcomes[i]
      /\ request'.pc = IF len + 1 = Len(request.items) THEN "answered" ELSE "resolving"
  BY DEF Advanced
<1>4. DmTypes'
  BY <1>1 DEF DmTypes, Advanced
<1>5. Mirrors' /\ Reporting'
  BY <1>1, ModelFrame DEF Reporting
<1>6. \A i \in 1 .. Len(inbox) : inbox[i].from # "csms"
  BY <1>1, NoLetters
<1>7. Asking'
  BY <1>1, <1>2, <1>3, <1>6 DEF Asking
<1> DEFINE Borne(i) ==
       /\ request'.items[i].key \in SettingKeys \cap DOMAIN seen
       /\ \/ There(request'.items[i])
          \/ \E j \in i + 1 .. len + 1 :
                request'.items[j].key = request'.items[i].key
                /\ request'.outcomes[j] = "Accepted"
<1>8. ASSUME NEW i \in 1 .. len + 1, request'.outcomes[i] = "Accepted"
      PROVE  Borne(i)
  <2>1. CASE i = len + 1
    <3>1. request.pc = "sent"
      BY <1>3, <1>8, <2>1
    <3>2. request'.items[i] = Pending
      BY <1>3, <2>1 DEF Pending
    <3>3. Pending.key \in SettingKeys \cap DOMAIN seen /\ There(Pending)
      BY <1>1, <3>1 DEF Asking, Readable
    <3> QED BY <3>2, <3>3
  <2>2. CASE i \in 1 .. len
    <3>1. request.outcomes[i] = "Accepted"
      BY <1>3, <1>8, <2>2
    <3>2. request.items[i].key \in SettingKeys \cap DOMAIN seen
      BY <1>1, <2>2, <3>1 DEF Readable
    <3>3. \/ There(request.items[i])
          \/ \E j \in i + 1 .. len :
                request.items[j].key = request.items[i].key
                /\ request.outcomes[j] = "Accepted"
          \/ request.pc = "sent" /\ Pending.key = request.items[i].key
      BY <1>1, <2>2, <3>1 DEF Readable
    <3>4. CASE There(request.items[i])
      BY <1>3, <3>2, <3>4
    <3>5. CASE \E j \in i + 1 .. len :
                  request.items[j].key = request.items[i].key
                  /\ request.outcomes[j] = "Accepted"
      <4>1. PICK j \in i + 1 .. len :
               request.items[j].key = request.items[i].key
               /\ request.outcomes[j] = "Accepted"
        BY <3>5
      <4>2. j \in 1 .. len /\ j \in i + 1 .. len + 1
        BY <1>2, <2>2
      <4> QED BY <1>3, <3>2, <4>1, <4>2
    <3>6. CASE request.pc = "sent" /\ Pending.key = request.items[i].key
      <4>1. v = "Accepted" /\ len + 1 \in i + 1 .. len + 1
        BY <1>2, <2>2, <3>6
      <4> QED BY <1>3, <3>2, <3>6, <4>1 DEF Pending
    <3> QED BY <3>3, <3>4, <3>5, <3>6
  <2> QED BY <1>2, <2>1, <2>2
<1>9. ASSUME NEW i \in 1 .. len + 1
      PROVE  There(request'.items[i]) <=> There(request.items[i])'
  BY DEF There
<1>10. Readable'
  BY <1>3, <1>8, <1>9 DEF Readable
<1> QED BY <1>4, <1>5, <1>7, <1>10 DEF DmInv

LEMMA ItemDoneKeeps ==
  ASSUME DmInv, ItemDone
  PROVE  DmInv'
<1>1. /\ request.pc = "sent" /\ ~Waiting("csms") /\ request' = NextItem(request, "Accepted")
      /\ UNCHANGED <<model, station, seen, inbox, report, dmPast>> /\ DmTypes
  BY DEF ItemDone, Acknowledged, DmInv
<1>2. PICK v \in {"Unknown", "Rejected", "Accepted"} : v = "Accepted"
  OBVIOUS
<1>3. Advanced(v)
  BY <1>1, <1>2, ItemAnswered
<1> QED BY <1>1, <1>2, <1>3, AdvancedKeeps

LEMMA ResolveKeeps ==
  ASSUME DmInv, ResolveItem
  PROVE  DmInv'
<1>1. /\ request.pc = "resolving" /\ UNCHANGED <<model, station, seen, report, dmPast>>
      /\ DmTypes /\ Mirrors /\ Asking /\ Readable /\ Reporting
  BY DEF ResolveItem, DmInv
<1>2. PICK v : v = Verdict(seen, Pending)
  OBVIOUS
<1>3. v \in {"Unknown", "Rejected", "Accepted"}
  BY <1>2 DEF Verdict
<1>4. ~Waiting("csms") /\ \A i \in 1 .. Len(inbox) : inbox[i].from # "csms"
  BY <1>1, NoLetters
<1>5. CASE v # "Accepted"
  <2>1. request' = NextItem(request, v) /\ UNCHANGED inbox
    BY <1>2, <1>5 DEF ResolveItem, Pending
  <2>2. Advanced(v)
    BY <1>1, <1>3, <2>1, ItemAnswered
  <2> QED BY <1>1, <1>3, <1>4, <1>5, <2>1, <2>2, AdvancedKeeps
<1>6. CASE v = "Accepted"
  <2>1. PICK item : item = Pending
    OBVIOUS
  <2>2. item \in Items
    BY <1>1, <2>1 DEF Pending, DmTypes, Asking
  <2>3. /\ item.key \in DOMAIN seen /\ seen[item.key].mutability # "ReadOnly"
        /\ item.value # "malformed"
    BY <1>2, <1>6, <2>1 DEF Verdict
  <2>4. item.key # Key("AvailabilityState")
    BY <1>1, <2>3 DEF Mirrors
  <2>5. item.key \in SettingKeys /\ item.value \in Values
    BY <2>2, <2>3, <2>4 DEF Items, SettingKeys
  <2>6. PICK ev : ev = [kind |-> "set", key |-> item.key, value |-> item.value]
    OBVIOUS
  <2>7. /\ [from |-> "csms", event |-> ev] \in Letters
        /\ ev.kind = "set" /\ ev.key = item.key /\ ev.value = item.value
    BY <2>5, <2>6 DEF Letters, CsmsEvents
  <2>8. Post("csms", ev) /\ request' = [request EXCEPT !.pc = "sent"]
    BY <1>2, <1>6, <2>1, <2>6 DEF ResolveItem, Pending
  <2>9. OneMore("csms", ev)
    BY <1>1, <1>4, <2>7, <2>8, Posted
  <2>10. /\ request' \in [pc : {"none", "resolving", "sent", "profile", "answered"},
                          items : Seq(Items),
                          outcomes : Seq({"Unknown", "Rejected", "Accepted"})]
         /\ request'.pc = "sent" /\ request'.items = request.items
         /\ request'.outcomes = request.outcomes
    <3>1. request \in [pc : {"none", "resolving", "sent", "profile", "answered"},
                       items : Seq(Items),
                       outcomes : Seq({"Unknown", "Rejected", "Accepted"})]
      BY <1>1 DEF DmTypes
    <3> QED BY <2>8, <3>1
  <2>11. Pending' = item
    BY <2>1, <2>10 DEF Pending
  <2>12. DmTypes'
    BY <1>1, <2>9, <2>10 DEF DmTypes, OneMore
  <2>13. Mirrors' /\ Reporting'
    BY <1>1, ModelFrame DEF Reporting
  <2>14. \A i \in 1 .. Len(inbox') : inbox'[i].from = "csms" => inbox'[i].event = ev
    BY <1>4, <2>9 DEF OneMore
  <2>15. Asking'
    BY <1>1, <2>3, <2>5, <2>7, <2>9, <2>10, <2>11, <2>14 DEF Asking, OneMore
  <2>16. Waiting("csms")'
    BY <2>9 DEF OneMore
  <2>17. Readable'
    BY <1>1, <2>10, <2>16 DEF Readable, There
  <2> QED BY <2>12, <2>13, <2>15, <2>17 DEF DmInv
<1> QED BY <1>5, <1>6

\* Each step of the device model keeps the invariant.
LEMMA DmStep == DmInv /\ [DmNext]_dmVars => DmInv'
<1> SUFFICES ASSUME DmInv, [DmNext]_dmVars PROVE DmInv'
  OBVIOUS
<1>1. DmTypes /\ Mirrors /\ Asking /\ Readable /\ Reporting
  BY DEF DmInv
<1>2. ASSUME ReportAsked \/ FilteredReportAsked \/ SendChunk \/ ReportOver
      PROVE  DmInv'
  <2>1. /\ UNCHANGED <<model, station, seen, inbox, request>>
        /\ Asked \/ UNCHANGED dmPast
    BY <1>2 DEF ReportAsked, FilteredReportAsked, SendChunk, ReportOver
  <2>2. /\ dmPast' \in [asks : Nat, binding : Nat, renewed : SUBSET Keys]
        /\ dmPast'.renewed = dmPast.renewed
    <3>1. CASE Asked
      BY <1>1, <3>1, AskedCounts
    <3>2. CASE UNCHANGED dmPast
      BY <1>1, <3>2 DEF DmTypes
    <3> QED BY <2>1, <3>1, <3>2
  <2>3. DmTypes' /\ Asking' /\ Pending' = Pending /\ (Waiting("csms"))' = Waiting("csms")
    BY <1>1, <2>1, <2>2 DEF DmTypes, Asking, Pending, Waiting
  <2>4. Readable'
    BY <1>1, <2>1, <2>2, <2>3 DEF Readable, There
  <2>5. Mirrors'
    BY <1>1, <2>1, ModelFrame
  <2>6. Reporting'
    BY <1>1, <1>2, ReportsReport DEF DmTypes
  <2> QED BY <2>3, <2>4, <2>5, <2>6 DEF DmInv
<1>3. CASE UNCHANGED dmVars
  <2>1. UNCHANGED <<model, station, seen, inbox, request, report, dmPast>>
    BY <1>3 DEF dmVars
  <2>2. DmTypes' /\ Mirrors' /\ Asking' /\ Reporting'
    BY <1>1, <2>1, ModelFrame DEF DmTypes, Asking, Pending, Reporting
  <2>3. Readable'
    BY <1>1, <2>1 DEF Readable, There, Pending, Waiting
  <2> QED BY <2>2, <2>3 DEF DmInv
<1> QED
  BY <1>2, <1>3, ActorKeeps, BindingKeeps, SetVariablesKeeps, ResolveKeeps,
     ItemDoneKeeps, ProfileKeeps, RequestOverKeeps DEF DmNext

\* What the invariant says of a reader and of the CSMS.
LEMMA DmHolds == DmInv => ModelIsHonest
<1> SUFFICES ASSUME DmInv PROVE ModelIsHonest
  OBVIOUS
<1>1. DmTypes /\ Mirrors /\ Asking /\ Readable /\ Reporting
  BY DEF DmInv
<1>2. DmTypeOK
  <2>1. DOMAIN inbox = 1 .. Len(inbox)
    BY <1>1 DEF DmTypes
  <2>2. \A k \in DOMAIN model : model[k].mutability \in {"ReadOnly", "ReadWrite", "WriteOnly"}
    BY <1>1 DEF DmTypes, WellFormed, Attributes, Mutabilities
  <2>3. /\ DOMAIN model \subseteq Keys /\ Cardinality(DOMAIN model) <= MaxVariables
        /\ DOMAIN seen \subseteq DOMAIN model
        /\ request.pc \in {"none", "resolving", "sent", "profile", "answered"}
    BY <1>1 DEF DmTypes, WellFormed
  <2> QED BY <1>1, <2>1, <2>2, <2>3 DEF DmTypeOK, Asking, Reporting
<1>3. MirrorsAreCurrent
  BY <1>1 DEF MirrorsAreCurrent, Mirrors, InLine, Full
<1>4. AcceptedIsReadable
  <2> SUFFICES ASSUME request.pc = "answered", NEW i \in DOMAIN request.items,
                      request.outcomes[i] = "Accepted",
                      request.items[i].key \notin dmPast.renewed,
                      ~ \E j \in (i + 1) .. Len(request.items) :
                           /\ request.items[j].key = request.items[i].key
                           /\ request.outcomes[j] = "Accepted"
               PROVE  seen[request.items[i].key].value = request.items[i].value
    BY DEF AcceptedIsReadable
  <2>1. Len(request.outcomes) = Len(request.items)
        /\ DOMAIN request.items = 1 .. Len(request.items)
    BY <1>1 DEF Asking, DmTypes
  <2>2. There(request.items[i])
    BY <1>1, <2>1 DEF Readable
  <2> QED BY <2>2 DEF There
<1>5. WholeReportsAreComplete
  BY <1>1, WholeIsComplete
<1> QED BY <1>2, <1>3, <1>4, <1>5 DEF ModelIsHonest

-----------------------------------------------------------------------------
(* The composition.                                                         *)

\* Whatever the CSMS writes and however the dials end, as long as no outcome
\* bore on more than one unproven change there is a way back: a proven address,
\* a TLS configuration that works and the password the CSMS accepts
\* (network_switch.rs, record_success and record_failure;
\* basic_auth_credential.rs).
THEOREM WayBackIsKept == ConnectivitySpec => []TargetIsRecoverable
<1>1. ConnectivityInit => NetInv
  BY NetInitInv DEF ConnectivityInit
<1>2. NetInv /\ [ConnectivityNext]_connectivityVars => NetInv'
  <2> SUFFICES ASSUME NetInv, [ConnectivityNext]_connectivityVars PROVE NetInv'
    OBVIOUS
  <2>1. [NetNext]_netVars
    BY DEF ConnectivityNext, connectivityVars
  <2> QED BY <2>1, NetStep
<1>3. NetInv => TargetIsRecoverable
  BY NetHolds
<1> QED BY <1>1, <1>2, <1>3, PTL DEF ConnectivitySpec

\* Beyond the first answer a clock correction is reported at most once per step
\* of the CSMS's clock and twice per answer, or passage of time, that meets
\* another answer in hand, and drift below the threshold never adds up to one,
\* however many loops run sync_time at once; a certificate request is resent at most CertSigningRepeatTimes times, no wait
\* over the longest back-off (provisioning.rs, sync_time;
\* certificates.rs, run_sign_certificate_retries).
THEOREM TimersStayBounded == ConnectivitySpec => []TimersAreBounded
<1> DEFINE Inv == ProvInv /\ CertInv
<1>1. ConnectivityInit => Inv
  BY ProvInitInv, CertInitInv DEF ConnectivityInit
<1>2. Inv /\ [ConnectivityNext]_connectivityVars => Inv'
  <2> SUFFICES ASSUME Inv, [ConnectivityNext]_connectivityVars PROVE Inv'
    OBVIOUS
  <2>1. [ProvNext]_provVars /\ [CertNext]_certVars
    BY DEF ConnectivityNext, connectivityVars
  <2> QED BY <2>1, ProvStep, CertStep
<1>3. Inv => TimersAreBounded
  BY ProvHolds, CertHolds DEF TimersAreBounded
<1> HIDE DEF Inv
<1> QED BY <1>1, <1>2, <1>3, PTL DEF ConnectivitySpec

\* Debounce, duplicate filter, retries and sweeps together never leave the CSMS
\* with a wrong picture: with nothing left to send it shows every connector as it
\* is, unless one of the mishaps happened that the code does not repair
\* (availability.rs; builder.rs, status_notifications).
THEOREM ReportsStayRight == ConnectivitySpec => []ReportsAreRight
<1>1. ConnectivityInit => StatInv
  BY StatInitInv DEF ConnectivityInit
<1>2. StatInv /\ [ConnectivityNext]_connectivityVars => StatInv'
  <2> SUFFICES ASSUME StatInv, [ConnectivityNext]_connectivityVars PROVE StatInv'
    OBVIOUS
  <2>1. [StatusNext]_statusVars
    BY DEF ConnectivityNext, connectivityVars
  <2> QED BY <2>1, StatStep
<1>3. StatInv => ReportsAreRight
  BY StatHolds
<1> QED BY <1>1, <1>2, <1>3, PTL DEF ConnectivitySpec

\* What readers see of the mirrored variables is the state they mirror, every
\* accepted item of an answered SetVariables reads back unless something later
\* wrote its variable, and a report that looks whole is the inventory of one
\* moment (device_model.rs, reporting.rs; charge_point_state.rs, the two
\* sync_*_variables).
THEOREM ModelStaysHonest == ConnectivitySpec => []ModelIsHonest
<1>1. ConnectivityInit => DmInv
  BY DmInitInv DEF ConnectivityInit
<1>2. DmInv /\ [ConnectivityNext]_connectivityVars => DmInv'
  <2> SUFFICES ASSUME DmInv, [ConnectivityNext]_connectivityVars PROVE DmInv'
    OBVIOUS
  <2>1. [DmNext]_dmVars
    BY DEF ConnectivityNext, connectivityVars
  <2> QED BY <2>1, DmStep
<1>3. DmInv => ModelIsHonest
  BY DmHolds
<1> QED BY <1>1, <1>2, <1>3, PTL DEF ConnectivitySpec

=============================================================================
