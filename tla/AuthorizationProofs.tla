------------------------- MODULE AuthorizationProofs -------------------------
(***************************************************************************)
(* What holds of the authorization task for every set of identifiers,      *)
(* settings, lists, cache bound and event: the cache repeats the CSMS's    *)
(* last word, an acceptance rests on something when it is decided, and a   *)
(* session runs on an identifier that was accepted before.                 *)
(***************************************************************************)
EXTENDS Authorization, ChargePointStateProofs, SequenceTheorems,
        NaturalsInduction, WellFoundedInduction

-----------------------------------------------------------------------------
(* The cache: what Others, Remember and Lookup return.                      *)

\* f is what the first m steps of Others compute.
Sieves(entries, token, m, f) ==
    f = [n \in 0 .. m |->
            IF n = 0 THEN <<>>
            ELSE IF entries[n].token = token THEN f[n - 1]
            ELSE Append(f[n - 1], entries[n])]

\* Such an f exists: extend the one for all but the last step.
LEMMA SievesExist ==
  ASSUME NEW entries, NEW token, NEW n \in Nat
  PROVE  \E f : Sieves(entries, token, n, f)
<1> DEFINE Bad == {k \in Nat : ~\E f : Sieves(entries, token, k, f)}
           next(f, i) == IF i = 0 THEN <<>>
                         ELSE IF entries[i].token = token THEN f[i - 1]
                         ELSE Append(f[i - 1], entries[i])
<1> SUFFICES ASSUME Bad # {} PROVE FALSE
  OBVIOUS
<1>1. PICK b \in Bad : \A k \in Bad : ~(<<k, b>> \in OpToRel(<, Nat))
  <2>1. Bad \subseteq Nat
    OBVIOUS
  <2> HIDE DEF Bad
  <2> QED BY <2>1, NatLessThanWellFounded, WFMin
<1>2. CASE b = 0
  <2> DEFINE g == [i \in 0 .. 0 |-> <<>>]
             h == [i \in 0 .. 0 |-> next(g, i)]
  <2>1. \A i \in 0 .. 0 : i = 0
    OBVIOUS
  <2>2. \A i \in 0 .. 0 : g[i] = h[i]
    BY <2>1
  <2>3. g = h
    BY <2>2
  <2>4. Sieves(entries, token, 0, g)
    BY <2>3 DEF Sieves
  <2> QED BY <1>2, <2>4
<1>3. CASE b # 0
  <2> DEFINE m == b - 1
  <2>1. m \in Nat /\ b = m + 1
    BY <1>3
  <2>2. <<m, b>> \in OpToRel(<, Nat)
    BY <2>1 DEF OpToRel
  <2>3. PICK f : Sieves(entries, token, m, f)
    BY <1>1, <2>1, <2>2
  <2> HIDE DEF m
  <2> DEFINE g == [i \in 0 .. b |-> next(f, i)]
  <2>4. ASSUME NEW i \in 0 .. m
        PROVE  g[i] = f[i]
    <3>1. f[i] = next(f, i)
      BY <2>3 DEF Sieves
    <3> QED BY <2>1, <3>1
  <2>5. ASSUME NEW i \in 0 .. b
        PROVE  g[i] = next(g, i)
    <3>1. CASE i = 0
      BY <3>1
    <3>2. CASE i # 0
      <4>1. i - 1 \in 0 .. m
        BY <2>1, <3>2
      <4> QED BY <2>4, <3>2, <4>1
    <3> QED BY <3>1, <3>2
  <2>6. Sieves(entries, token, b, g)
    <3> DEFINE h == [i \in 0 .. b |-> next(g, i)]
    <3>1. \A i \in 0 .. b : g[i] = h[i]
      BY <2>5
    <3>2. g = h
      BY <3>1
    <3> QED BY <3>2 DEF Sieves
  <2> QED BY <1>1, <2>6
<1> QED BY <1>2, <1>3

\* What is left of the first m entries: some of them, none of the identifier.
Sieved(s, entries, token, m) ==
    /\ s \in Seq(Entries) /\ Len(s) <= m
    /\ \A i \in 1 .. Len(s) :
          /\ s[i].token # token
          /\ \E k \in 1 .. m : s[i] = entries[k]

\* One more entry.
LEMMA SieveOne ==
  ASSUME NEW entries \in Seq(Entries), NEW token, NEW m \in Nat,
         m + 1 <= Len(entries), NEW s, Sieved(s, entries, token, m)
  PROVE  Sieved(IF entries[m + 1].token = token THEN s
                ELSE Append(s, entries[m + 1]), entries, token, m + 1)
<1> DEFINE x == entries[m + 1]
<1>0. s \in Seq(Entries) /\ Len(s) \in Nat /\ Len(s) <= m
  BY LenProperties DEF Sieved
<1>1. CASE x.token = token
  <2>1. \A k \in 1 .. m : k \in 1 .. m + 1
    OBVIOUS
  <2> QED BY <1>0, <1>1, <2>1 DEF Sieved
<1>2. CASE x.token # token
  <2> DEFINE u == Append(s, x)
  <2>1. Len(entries) \in Nat /\ m + 1 \in 1 .. Len(entries)
    BY LenProperties
  <2>2. x \in Entries
    BY <2>1, ElementOfSeq
  <2>3. /\ u \in Seq(Entries) /\ Len(u) = Len(s) + 1
        /\ \A i \in 1 .. Len(s) : u[i] = s[i]
        /\ u[Len(s) + 1] = x
    BY <1>0, <2>2, AppendProperties
  <2> HIDE DEF u
  <2>4. ASSUME NEW i \in 1 .. Len(u)
        PROVE  u[i].token # token /\ \E k \in 1 .. m + 1 : u[i] = entries[k]
    <3>1. CASE i = Len(s) + 1
      BY <1>2, <2>3, <3>1
    <3>2. CASE i # Len(s) + 1
      <4>1. i \in 1 .. Len(s)
        BY <1>0, <2>3, <3>2
      <4>2. /\ s[i].token # token
            /\ \E k \in 1 .. m : s[i] = entries[k]
        BY <4>1 DEF Sieved
      <4> QED BY <2>3, <4>1, <4>2
    <3> QED BY <3>1, <3>2
  <2>5. Sieved(u, entries, token, m + 1)
    BY <1>0, <2>3, <2>4 DEF Sieved
  <2> QED BY <1>2, <2>5 DEF u
<1> QED BY <1>1, <1>2

\* What Others returns.
LEMMA OthersSieve ==
  ASSUME NEW entries \in Seq(Entries), NEW token
  PROVE  Sieved(Others(entries, token), entries, token, Len(entries))
<1> DEFINE n == Len(entries)
           kept == CHOOSE f : Sieves(entries, token, n, f)
<1>1. n \in Nat
  BY LenProperties
<1>2. Sieves(entries, token, n, kept)
  BY <1>1, SievesExist
<1>3. Others(entries, token) = kept[n]
  BY DEF Others, Sieves
<1> HIDE DEF kept
<1> DEFINE Bad == {k \in 0 .. n : ~Sieved(kept[k], entries, token, k)}
<1>4. Bad = {}
  <2> SUFFICES ASSUME Bad # {} PROVE FALSE
    OBVIOUS
  <2>1. PICK b \in Bad : \A k \in Bad : ~(<<k, b>> \in OpToRel(<, Nat))
    <3>1. Bad \subseteq Nat
      BY <1>1
    <3> HIDE DEF Bad
    <3> QED BY <3>1, NatLessThanWellFounded, WFMin
  <2>2. b \in 0 .. n /\ b \in Nat /\ ~Sieved(kept[b], entries, token, b)
    BY <1>1
  <2>3. kept[b] = IF b = 0 THEN <<>>
                  ELSE IF entries[b].token = token THEN kept[b - 1]
                  ELSE Append(kept[b - 1], entries[b])
    BY <1>2, <2>2 DEF Sieves
  <2>4. CASE b = 0
    <3>1. <<>> \in Seq(Entries) /\ Len(<<>>) = 0
      BY EmptySeq
    <3> QED BY <2>2, <2>3, <2>4, <3>1 DEF Sieved
  <2>5. CASE b # 0
    <3> DEFINE m == b - 1
    <3>1. m \in 0 .. n /\ m \in Nat /\ b = m + 1 /\ b - 1 = m /\ m + 1 <= n
      BY <1>1, <2>2, <2>5
    <3>2. <<m, b>> \in OpToRel(<, Nat)
      BY <2>2, <3>1 DEF OpToRel
    <3>3. Sieved(kept[m], entries, token, m)
      BY <2>1, <3>1, <3>2
    <3> HIDE DEF m
    <3>4. Sieved(IF entries[m + 1].token = token THEN kept[m]
                 ELSE Append(kept[m], entries[m + 1]), entries, token, m + 1)
      BY <3>1, <3>3, SieveOne
    <3> QED BY <2>2, <2>3, <2>5, <3>1, <3>4
  <2> QED BY <2>4, <2>5
<1>5. n \in 0 .. n
  BY <1>1
<1> QED BY <1>3, <1>4, <1>5

\* What Remember returns: the entry it is given and some of the others.
LEMMA RememberKeeps ==
  ASSUME NEW entries \in Seq(Entries), NEW token \in IdTokens,
         NEW status \in Statuses, NEW now \in Option(Nat)
  PROVE  LET r == Remember(entries, token, status, now) IN
         /\ r \in Seq(Entries) /\ Len(r) <= CacheSize
         /\ \A i \in 1 .. Len(r) :
               \/ r[i].token = token /\ r[i].status = status
               \/ r[i].token # token
                  /\ \E k \in 1 .. Len(entries) : r[i] = entries[k]
<1> DEFINE others == Others(entries, token)
           room   == IF Len(others) < CacheSize THEN others
                     ELSE SubSeq(others, Len(others) - CacheSize + 2,
                                 Len(others))
           x == [token |-> token, status |-> status, cachedAt |-> now]
           r == Remember(entries, token, status, now)
           fine(y) == /\ y.token # token
                      /\ \E k \in 1 .. Len(entries) : y = entries[k]
<1>1. r = Append(room, x)
  BY DEF Remember
<1>2. x \in Entries
  BY DEF Entries
<1>3. x.token = token /\ x.status = status
  OBVIOUS
<1>4. others \in Seq(Entries) /\ \A i \in 1 .. Len(others) : fine(others[i])
  BY OthersSieve DEF Sieved
<1> HIDE DEF others, x, fine
<1>5. Len(others) \in Nat /\ CacheSize \in Nat \ {0}
  BY <1>4, LenProperties, AuthAssumption
<1>6. /\ room \in Seq(Entries) /\ Len(room) < CacheSize
      /\ \A i \in 1 .. Len(room) : fine(room[i])
  <2>1. CASE Len(others) < CacheSize
    BY <1>4, <2>1
  <2>2. CASE ~(Len(others) < CacheSize)
    <3> DEFINE m == Len(others) - CacheSize + 2
               n == Len(others)
    <3>1. m \in Int /\ n \in Int /\ m >= 2 /\ n - m + 1 = CacheSize - 1
          /\ n - m + 1 \in Nat
      BY <1>5, <2>2
    <3>2. \A i \in m .. n : i \in 1 .. Len(others)
      BY <1>5, <3>1
    <3>3. \A i \in m .. n : others[i] \in Entries
      BY <1>4, <3>2, ElementOfSeq
    <3>4. room = SubSeq(others, m, n)
      BY <2>2
    <3> HIDE DEF m, n, room
    <3>5. /\ room \in Seq(Entries)
          /\ Len(room) = IF m <= n THEN n - m + 1 ELSE 0
          /\ \A i \in 1 .. n - m + 1 : room[i] = others[m + i - 1]
      BY <3>1, <3>3, <3>4, SubSeqProperties
    <3>6. Len(room) = n - m + 1
      BY <3>1, <3>5
    <3>7. ASSUME NEW i \in 1 .. Len(room)
          PROVE  fine(room[i])
      <4>1. m + i - 1 \in m .. n
        BY <3>1, <3>6
      <4>2. room[i] = others[m + i - 1]
        BY <3>5, <3>6
      <4> QED BY <1>4, <3>2, <4>1, <4>2
    <3>8. Len(room) < CacheSize
      BY <1>5, <3>1, <3>6
    <3> QED BY <3>5, <3>7, <3>8
  <2> QED BY <2>1, <2>2
<1> HIDE DEF room, r
<1>7. /\ r \in Seq(Entries) /\ Len(r) = Len(room) + 1
      /\ \A i \in 1 .. Len(room) : r[i] = room[i]
      /\ r[Len(room) + 1] = x
  BY <1>1, <1>2, <1>6, AppendProperties
<1>8. Len(room) \in Nat
  BY <1>6, LenProperties
<1>9. ASSUME NEW i \in 1 .. Len(r)
      PROVE  (r[i].token = token /\ r[i].status = status) \/ fine(r[i])
  <2>1. CASE i = Len(room) + 1
    BY <1>3, <1>7, <2>1
  <2>2. CASE i # Len(room) + 1
    <3>1. i \in 1 .. Len(room)
      BY <1>7, <1>8, <2>2
    <3> QED BY <1>6, <1>7, <3>1
  <2> QED BY <2>1, <2>2
<1>10. Len(r) <= CacheSize
  BY <1>5, <1>6, <1>7, <1>8
<1> QED BY <1>7, <1>9, <1>10 DEF r, fine

\* What Lookup finds is an entry of the identifier.
LEMMA LookupFinds ==
  ASSUME cache \in Seq(Entries), NEW token, NEW now,
         Lookup(token, now) # None
  PROVE  \E i \in 1 .. Len(cache) :
            cache[i].token = token /\ Lookup(token, now) = cache[i].status
<1> DEFINE found == {i \in 1 .. Len(cache) : cache[i].token = token}
           first == CHOOSE i \in found : \A j \in found : i <= j
<1>1. found # {} /\ Lookup(token, now) = cache[first].status
  BY DEF Lookup
<1>2. \E i \in found : \A j \in found : i <= j
  <2>1. Len(cache) \in Nat
    BY LenProperties
  <2>2. found \subseteq Nat
    BY <2>1
  <2>3. PICK i \in found : \A j \in found : ~(<<j, i>> \in OpToRel(<, Nat))
    <3> HIDE DEF found
    <3> QED BY <1>1, <2>2, NatLessThanWellFounded, WFMin
  <2>4. ASSUME NEW j \in found
        PROVE  i <= j
    <3>1. i \in Nat /\ j \in Nat
      BY <2>2
    <3>2. ~(j < i)
      BY <2>3, <3>1 DEF OpToRel
    <3> QED BY <3>1, <3>2
  <2> QED BY <2>4
<1>3. first \in found
  <2> HIDE DEF found
  <2> QED BY <1>2
<1> HIDE DEF first
<1> QED BY <1>1, <1>3

-----------------------------------------------------------------------------
(* Whose session it is: a transaction and a held start that nobody started   *)
(* remotely carry an identifier of G, the identifiers accepted so far.       *)

Accounted(tx, G) ==
    tx # None /\ tx.token # None /\ tx.remoteStartId = None => tx.token \in G

HeldFor(pending, G) ==
    pending # None /\ pending.remoteStartId = None => pending.token \in G

Granted(s, G) == Accounted(s.tx, G) /\ HeldFor(s.pending, G)

\* An event that names an identifier outside G comes with a remoteStartId.
Vetted(e, G) ==
    /\ e.type = "ChargingAuthorized" => e.token \in G
    /\ e.type = "RemoteStartRequested" =>
          e.remoteStartId # None \/ e.token \in G
    /\ e.type = "RemoteStartPending" => HeldFor(e.pending, G)

\* Accounts are kept when G grows.
LEMMA GrantedGrows ==
  ASSUME NEW s, NEW G, NEW H, G \subseteq H, Granted(s, G)
  PROVE  Granted(s, H)
  BY DEF Granted, Accounted, HeldFor

SameOrigin(a, b) == a.token = b.token /\ a.remoteStartId = b.remoteStartId

\* A transaction's origin decides.
LEMMA SameAccount ==
  ASSUME NEW a, NEW b, NEW G, a # None, SameOrigin(a, b), Accounted(a, G)
  PROVE  Accounted(b, G)
  BY DEF SameOrigin, Accounted

\* advance_transaction opens transactions of the given origin only.
LEMMA AdvanceAccounted ==
  ASSUME NEW tx \in Option(Transactions), NEW n \in Nat, NEW prev, NEW next,
         NEW reason, NEW o \in Origins, NEW p, NEW G, Accounted(tx, G),
         o.token # None /\ o.remoteStartId = None => o.token \in G
  PROVE  Accounted(AdvanceTransaction(tx, n, prev, next, reason, o, p).tx, G)
<1> DEFINE new      == NewTransaction(n, next, o)
           stopping == WithStopReason(tx, prev, next, reason)
           moved    == [tx EXCEPT !.chargingState = ChargingStateFor(next)]
           a        == AdvanceTransaction(tx, n, prev, next, reason, o, p)
<1>1. Accounted(None, G)
  BY DEF Accounted
<1>2. CASE tx = None
  <2>1. new.token = o.token /\ new.remoteStartId = o.remoteStartId
    BY DEF NewTransaction
  <2> HIDE DEF new
  <2>2. Accounted(new, G)
    BY <2>1 DEF Accounted
  <2>3. a.tx = new \/ a.tx = None
    BY <1>2 DEF AdvanceTransaction, Begin, Keep, new
  <2> HIDE DEF a
  <2>4. Accounted(a.tx, G)
    BY <1>1, <2>2, <2>3
  <2> QED BY <2>4 DEF a
<1>3. CASE tx # None
  <2>0. tx \in Transactions
    BY <1>3 DEF Option
  <2>1. SameOrigin(tx, stopping)
    <3>1. SameOrigin(tx, [tx EXCEPT !.stopReason = reason])
      BY <2>0 DEF SameOrigin, Transactions
    <3> QED BY <3>1 DEF WithStopReason, SameOrigin
  <2>2. SameOrigin(tx, Bumped(moved))
    BY <2>0 DEF SameOrigin, Bumped, Transactions
  <2> HIDE DEF stopping, moved
  <2>3. a.tx \in {None, stopping, Bumped(moved)}
    BY <1>3 DEF AdvanceTransaction, Close, Update, Keep, stopping, moved
  <2> HIDE DEF a
  <2>4. Accounted(stopping, G) /\ Accounted(Bumped(moved), G)
    BY <1>3, <2>1, <2>2, SameAccount
  <2>5. Accounted(a.tx, G)
    BY <1>1, <2>3, <2>4
  <2> QED BY <2>5 DEF a
<1> QED BY <1>2, <1>3

\* What an event does to a transaction itself leaves its origin alone.
LEMMA OwnUpdateAccounted ==
  ASSUME NEW s \in Slots, NEW e, NEW p, NEW G, Accounted(s.tx, G)
  PROVE  Accounted(OwnUpdate(s, e, p).tx, G)
<1>0. s.tx \in Option(Transactions)
  BY DEF Slots
<1>1. Accounted(Keep(s.tx).tx, G)
  BY DEF Keep
<1>2. CASE s.tx = None
  <2>1. /\ GrantAllowance(s.tx, p) = s.tx
        /\ SetTransactionLimit(s.tx, e.limit, e.fromCsms, p) = Keep(s.tx)
        /\ ApplyMeterSample(s.tx, e.sample) = Keep(s.tx)
    BY <1>2 DEF GrantAllowance, SetTransactionLimit, ApplyMeterSample
  <2>2. OwnUpdate(s, e, p) = Keep(s.tx)
    BY <1>2, <2>1 DEF OwnUpdate
  <2> QED BY <1>1, <2>2
<1>3. CASE s.tx # None
  <2> DEFINE tx == s.tx
  <2>0. tx \in Transactions
    BY <1>0, <1>3 DEF Option
  <2> HIDE DEF tx
  <2>1. SameOrigin(tx, GrantAllowance(tx, p))
    <3>1. ASSUME NEW x
          PROVE  SameOrigin(tx, [tx EXCEPT !.stopAtEnergy = x])
      BY <2>0 DEF SameOrigin, Transactions
    <3> QED BY <3>1 DEF GrantAllowance, SameOrigin
  <2>2. SameOrigin(tx, SetTransactionLimit(tx, e.limit, e.fromCsms, p).tx)
    <3>1. ASSUME NEW x, NEW y
          PROVE  SameOrigin(tx, Bumped([tx EXCEPT !.csmsLimit = x, !.limit = y]))
      BY <2>0 DEF SameOrigin, Bumped, Transactions
    <3>2. SameOrigin(tx, tx)
      BY DEF SameOrigin
    <3> QED BY <3>1, <3>2 DEF SetTransactionLimit, Keep, Update
  <2>3. SameOrigin(tx, [tx EXCEPT !.elapsed = e.secs])
    BY <2>0 DEF SameOrigin, Transactions
  <2>4. SameOrigin(tx, ApplyMeterSample(tx, e.sample).tx)
    <3>1. ASSUME NEW x, NEW y
          PROVE  SameOrigin(tx, Bumped([tx EXCEPT !.energyStart = x,
                                                  !.lastSample = y]))
      BY <2>0 DEF SameOrigin, Bumped, Transactions
    <3>2. SameOrigin(tx, tx)
      BY DEF SameOrigin
    <3> QED BY <3>1, <3>2 DEF ApplyMeterSample, Keep, Update
  <2>5. SameOrigin(tx, Bumped(tx))
    BY <2>0 DEF SameOrigin, Bumped, Transactions
  <2>6. OwnUpdate(s, e, p).tx \in
          {GrantAllowance(tx, p), [tx EXCEPT !.elapsed = e.secs], Bumped(tx), tx,
           SetTransactionLimit(tx, e.limit, e.fromCsms, p).tx,
           ApplyMeterSample(tx, e.sample).tx}
    BY DEF OwnUpdate, Keep, Update, tx
  <2>7. tx # None /\ Accounted(tx, G)
    BY <1>3 DEF tx
  <2>8. Accounted(GrantAllowance(tx, p), G)
    BY <2>1, <2>7, SameAccount
  <2>9. Accounted([tx EXCEPT !.elapsed = e.secs], G)
    BY <2>3, <2>7, SameAccount
  <2>10. Accounted(Bumped(tx), G)
    BY <2>5, <2>7, SameAccount
  <2>11. Accounted(SetTransactionLimit(tx, e.limit, e.fromCsms, p).tx, G)
    BY <2>2, <2>7, SameAccount
  <2>12. Accounted(ApplyMeterSample(tx, e.sample).tx, G)
    BY <2>4, <2>7, SameAccount
  <2> QED BY <2>6, <2>7, <2>8, <2>9, <2>10, <2>11, <2>12
<1> QED BY <1>2, <1>3

\* One transition.
LEMMA TransitGranted ==
  ASSUME NEW s \in Slots, NEW n \in Nat, NEW e, WellFormed(e),
         NEW p \in ConnectorPolicies, NEW G, Granted(s, G), Vetted(e, G)
  PROVE  Granted(Transit(s, n, e, p).slot, G)
<1> DEFINE next == ConnectorApply(s.state, e, p).next
           step == TransactionStep(s, n, e, next, p)
           u    == Transit(s, n, e, p).slot
           o    == Origin(s, e)
           a    == AdvanceTransaction(s.tx, n, s.state, next,
                                      EventStopReason(e), o, p)
<1>1. u = NextSlot(s, e, next, step)
  BY TransitParts
<1>2. s.tx \in Option(Transactions)
  BY DEF Slots
<1> HIDE DEF next
<1>3. o \in Origins
  BY OriginType
<1>4. o.token # None /\ o.remoteStartId = None => o.token \in G
  <2>1. /\ o.token = IF e.type \in {"ChargingAuthorized", "RemoteStartRequested"}
                       THEN e.token ELSE None
        /\ e.type = "RemoteStartRequested" /\ e.remoteStartId # None =>
              o.remoteStartId = e.remoteStartId
    BY DEF Origin
  <2> HIDE DEF o
  <2> QED BY <2>1 DEF Vetted
<1> HIDE DEF o
<1>5. Accounted(a.tx, G)
  BY <1>2, <1>3, <1>4, AdvanceAccounted DEF Granted
<1>6. Accounted(OwnUpdate(s, e, p).tx, G)
  BY OwnUpdateAccounted DEF Granted
<1>7. Accounted(step.tx, G)
  <2>1. step = OwnUpdate(s, e, p) \/ step = a
    BY DEF TransactionStep, o
  <2> HIDE DEF step, a
  <2> QED BY <1>5, <1>6, <2>1
<1> HIDE DEF step, a
<1>8. HeldFor(NextPending(s, e, next), G)
  <2>1. HeldFor(HeldByEvent(s, e, next), G)
    <3>1. CASE e.type = "ChargingAuthorized" /\ s.state = "Available"
      <4>1. HeldByEvent(s, e, next) = [token |-> e.token, remoteStartId |-> None]
        BY <3>1 DEF HeldByEvent
      <4> QED BY <3>1, <4>1 DEF HeldFor, Vetted
    <3>2. CASE e.type = "RemoteStartRequested" /\ next = "Authorizing"
      <4>1. HeldByEvent(s, e, next) =
              [token |-> e.token, remoteStartId |-> e.remoteStartId]
        BY <3>2 DEF HeldByEvent
      <4> QED BY <3>2, <4>1 DEF HeldFor, Vetted
    <3>3. CASE /\ ~(e.type = "ChargingAuthorized" /\ s.state = "Available")
               /\ ~(e.type = "RemoteStartRequested" /\ next = "Authorizing")
      <4>1. HeldByEvent(s, e, next) = None
        BY <3>3 DEF HeldByEvent
      <4> QED BY <4>1 DEF HeldFor
    <3> QED BY <3>1, <3>2, <3>3
  <2>2. HeldFor(s.pending, G) /\ HeldFor(None, G)
    BY DEF Granted, HeldFor
  <2>3. e.type = "RemoteStartPending" => HeldFor(e.pending, G)
    BY DEF Vetted
  <2> QED BY <2>1, <2>2, <2>3 DEF NextPending
<1> HIDE DEF u
<1>9. u.tx = step.tx /\ u.pending = NextPending(s, e, next)
  BY <1>1 DEF NextSlot
<1>10. Granted(u, G)
  BY <1>7, <1>8, <1>9 DEF Granted
<1> QED BY <1>10 DEF u

\* The two edits of enforce_transaction_limit.
LEMMA EditsGranted ==
  ASSUME NEW m, Fit(m), m.slot.tx # None, NEW G, Granted(m.slot, G),
         NEW kind
  PROVE  /\ Granted(MarkReached(m, kind).slot, G)
         /\ Granted(ClearReached(m).slot, G)
<1> DEFINE tx == m.slot.tx
           b  == Bumped([tx EXCEPT !.limitReached = kind])
           c  == [tx EXCEPT !.limitReached = None]
           r  == MarkReached(m, kind).slot
           q  == ClearReached(m).slot
<1>1. m.slot \in Slots /\ tx \in Transactions
  BY DEF Fit, Outcomes, Slots, Option
<1>2. r.tx = b /\ r.pending = m.slot.pending
  BY <1>1 DEF MarkReached, ReportReached, Update, Outcome, Slots
<1>3. q.tx = c /\ q.pending = m.slot.pending
  BY <1>1 DEF ClearReached, Outcome, Slots
<1> HIDE DEF r, q
<1>4. SameOrigin(tx, b) /\ SameOrigin(tx, c)
  BY <1>1 DEF SameOrigin, Bumped, Transactions
<1>5. tx # None /\ Accounted(tx, G) /\ HeldFor(m.slot.pending, G)
  BY DEF Granted
<1> HIDE DEF tx, b, c
<1>6. Accounted(b, G) /\ Accounted(c, G)
  BY <1>4, <1>5, SameAccount
<1>7. Granted(r, G) /\ Granted(q, G)
  BY <1>2, <1>3, <1>5, <1>6 DEF Granted
<1> QED BY <1>7 DEF r, q

\* request_current_limit.
LEMMA RequestGranted ==
  ASSUME NEW o, Fit(o), NEW a, NEW G, Granted(o.slot, G)
  PROVE  Granted(RequestCurrentLimit(o, a).slot, G)
<1> DEFINE sl == [o.slot EXCEPT !.requested = a]
           r  == RequestCurrentLimit(o, a).slot
<1>1. sl.tx = o.slot.tx /\ sl.pending = o.slot.pending
  BY DEF Fit, Outcomes, Slots
<1>2. r = o.slot \/ r = sl
  BY DEF RequestCurrentLimit, Outcome
<1> HIDE DEF sl, r
<1>3. Granted(r, G)
  BY <1>1, <1>2 DEF Granted
<1> QED BY <1>3 DEF r

\* Suspending at a ceiling, or resuming below it.
LEMMA SuspensionGranted ==
  ASSUME NEW o, Fit(o), o.slot.tx # None, NEW a \in Option(Nat), NEW e,
         e.type \in {"ChargingSuspendedByEvse", "ChargingResumed"},
         WellFormed(e), NEW p \in ConnectorPolicies, NEW G,
         Granted(o.slot, G)
  PROVE  LET m == Followed(RequestCurrentLimit(o, a), e, p) IN
         Fit(m) /\ m.slot.tx # None /\ Granted(m.slot, G)
<1> DEFINE q == RequestCurrentLimit(o, a)
           m == Followed(q, e, p)
<1>1. Fit(m) /\ m.slot.tx # None
  BY SuspensionWeighs DEF SameWeights
<1>2. Fit(q) /\ Granted(q.slot, G)
  BY RequestFit, RequestGranted
<1> HIDE DEF q
<1>3. m.slot = Transit(q.slot, q.nextId, e, p).slot
  BY <1>2, FollowedFit
<1>4. q.slot \in Slots /\ q.nextId \in Nat
  BY <1>2 DEF Fit, Outcomes
<1>5. Vetted(e, G)
  BY DEF Vetted
<1> HIDE DEF m
<1>6. Granted(m.slot, G)
  BY <1>2, <1>3, <1>4, <1>5, TransitGranted
<1> QED BY <1>1, <1>6 DEF m, q

LEMMA EnforceGranted ==
  ASSUME NEW o, Fit(o), NEW p \in ConnectorPolicies, NEW G,
         Granted(o.slot, G)
  PROVE  Granted(EnforceTransactionLimit(o, p).slot, G)
<1> DEFINE tx      == o.slot.tx
           reached == ReachedLimit(tx, o.slot.runningTotal, o.slot.cost)
           e1 == [type |-> "ChargingSuspendedByEvse"]
           e2 == [type |-> "ChargingResumed"]
           m1 == Followed(RequestCurrentLimit(o, 0), e1, p)
           m2 == Followed(RequestCurrentLimit(o, None), e2, p)
           r  == EnforceTransactionLimit(o, p)
<1>1. CASE r = o
  BY <1>1
<1>2. CASE tx # None /\ r = MarkReached(m1, reached)
  <2>1. 0 \in Option(Nat) /\ WellFormed(e1)
    BY DEF Option, WellFormed
  <2>2. e1.type \in {"ChargingSuspendedByEvse", "ChargingResumed"}
    OBVIOUS
  <2> HIDE DEF e1
  <2>3. Fit(m1) /\ m1.slot.tx # None /\ Granted(m1.slot, G)
    BY <1>2, <2>1, <2>2, SuspensionGranted
  <2> HIDE DEF m1, reached, r
  <2>4. Granted(r.slot, G)
    BY <1>2, <2>3, EditsGranted
  <2> QED BY <2>4 DEF r
<1>3. CASE tx # None /\ r = ClearReached(m2)
  <2>1. None \in Option(Nat) /\ WellFormed(e2)
    BY DEF Option, WellFormed
  <2>2. e2.type \in {"ChargingSuspendedByEvse", "ChargingResumed"}
    OBVIOUS
  <2> HIDE DEF e2
  <2>3. Fit(m2) /\ m2.slot.tx # None /\ Granted(m2.slot, G)
    BY <1>3, <2>1, <2>2, SuspensionGranted
  <2> HIDE DEF m2, r
  <2>4. Granted(r.slot, G)
    BY <1>3, <2>3, EditsGranted
  <2> QED BY <2>4 DEF r
<1>4. \/ r = o
      \/ tx # None /\ r = MarkReached(m1, reached)
      \/ tx # None /\ r = ClearReached(m2)
  BY DEF EnforceTransactionLimit, Enforce, SuspendAtLimit, ResumeBelowLimit
<1> QED BY <1>1, <1>2, <1>3, <1>4

\* apply_connector_event as a whole: the one follow-up that names an identifier
\* takes it from the held start.
LEMMA ApplyConnectorEventGranted ==
  ASSUME NEW s \in Slots, NEW n \in Nat, NEW e, WellFormed(e),
         NEW p \in ConnectorPolicies, FaultSafe(s), SlotKept(s),
         NEW G, Granted(s, G), Vetted(e, G)
  PROVE  Granted(ApplyConnectorEvent(s, n, e, p).slot, G)
<1> DEFINE o  == Transit(s, n, e, p)
           pe == Dispatched(s, o.slot.state)
           e1 == [type |-> "ChargingStopped", reason |-> "DeAuthorized"]
           e2 == [type |-> "RemoteStartRequested", token |-> pe.token,
                  remoteStartId |-> pe.remoteStartId]
           r  == ApplyConnectorEvent(s, n, e, p)
<1>1. Fit(o) /\ Granted(o.slot, G)
  BY TransitFit, TransitGranted
<1>2. \/ r = o
      \/ r = Followed(o, e1, p)
      \/ r = EnforceTransactionLimit(o, p)
      \/ pe # None /\ r = Followed(o, e2, p)
  BY DEF ApplyConnectorEvent, FollowUp
<1> HIDE DEF o
<1>3. o.slot \in Slots /\ o.nextId \in Nat
  BY <1>1 DEF Fit, Outcomes
<1>4. CASE r = o
  BY <1>1, <1>4
<1>5. CASE r = Followed(o, e1, p)
  <2>1. WellFormed(e1) /\ Vetted(e1, G)
    BY DEF WellFormed, StopReasons, Vetted
  <2> HIDE DEF e1, r
  <2>2. r.slot = Transit(o.slot, o.nextId, e1, p).slot
    BY <1>1, <1>5, <2>1, FollowedFit
  <2>3. Granted(r.slot, G)
    BY <1>1, <1>3, <2>1, <2>2, TransitGranted
  <2> QED BY <2>3 DEF r
<1>6. CASE r = EnforceTransactionLimit(o, p)
  <2> HIDE DEF r
  <2>1. Granted(r.slot, G)
    BY <1>1, <1>6, EnforceGranted
  <2> QED BY <2>1 DEF r
<1>7. CASE pe # None /\ r = Followed(o, e2, p)
  <2>1. s.pending \in Option(PendingStarts) /\ HeldFor(s.pending, G)
    BY DEF Slots, Granted
  <2>2. pe \in PendingStarts /\ HeldFor(pe, G)
    BY <1>7, <2>1 DEF Dispatched, Option
  <2> HIDE DEF pe
  <2>3. WellFormed(e2)
    BY <2>2 DEF PendingStarts, WellFormed
  <2>4. Vetted(e2, G)
    BY <1>7, <2>2 DEF Vetted, HeldFor
  <2> HIDE DEF e2, r
  <2>5. r.slot = Transit(o.slot, o.nextId, e2, p).slot
    BY <1>1, <1>7, <2>3, FollowedFit
  <2>6. Granted(r.slot, G)
    BY <1>1, <1>3, <2>3, <2>4, <2>5, TransitGranted
  <2> QED BY <2>6 DEF r
<1> QED BY <1>2, <1>4, <1>5, <1>6, <1>7

\* Whatever an event does to a connector: only one addressed to it can name an
\* identifier.
LEMMA DidGranted ==
  ASSUME NEW st, NEW lst, Settled(st, lst), NEW ev, NEW c \in Connectors,
         SlotHeld(st.conn[c]), NEW slot, NEW effects,
         Did(st, ev, c, slot, effects),
         NEW G, Granted(st.conn[c], G),
         ev.type = "Connector" => Vetted(ev.event, G)
  PROVE  Granted(slot, G)
<1> DEFINE s == st.conn[c]
<1>0. /\ s \in Slots /\ FaultSafe(s) /\ st.nextId \in Nat
      /\ st.policy \in ConnectorPolicies /\ SlotKept(s)
  BY DEF Settled, ChargePoints, SlotHeld
<1>1. CASE slot = s
  BY <1>1
<1>2. CASE s.tx # None /\ \E b \in BOOLEAN : slot = [s EXCEPT !.tx.priority = b]
  <2>1. PICK b \in BOOLEAN : slot = [s EXCEPT !.tx.priority = b]
    BY <1>2
  <2> DEFINE t == [s.tx EXCEPT !.priority = b]
  <2>2. s.tx \in Transactions
    BY <1>0, <1>2 DEF Slots, Option
  <2>3. slot.tx = t /\ slot.pending = s.pending
    BY <1>0, <2>1 DEF Slots
  <2>4. SameOrigin(s.tx, t)
    BY <2>2 DEF SameOrigin, Transactions
  <2> HIDE DEF t
  <2> QED BY <1>2, <2>3, <2>4, SameAccount DEF Granted
<1>3. CASE \E e : /\ WellFormed(e) /\ Heard(ev, e)
                  /\ LET r == ApplyConnectorEvent(s, st.nextId, e, st.policy)
                     IN slot = r.slot /\ effects = r.effects
  <2>1. PICK e : /\ WellFormed(e) /\ Heard(ev, e)
                 /\ slot = ApplyConnectorEvent(s, st.nextId, e, st.policy).slot
    BY <1>3
  <2>2. Vetted(e, G)
    BY <2>1 DEF Heard, Vetted
  <2> QED BY <1>0, <2>1, <2>2, ApplyConnectorEventGranted
<1> QED BY <1>1, <1>2, <1>3 DEF Did

-----------------------------------------------------------------------------
(* The inductive invariant: that of the actor, the types, the cache, and      *)
(* what each of the task's await points says of the request in hand.          *)

Tasks == [pc : Places, request : Option(Requests), now : Option(Nat),
          verdict : Option(Statuses)]

TaskInv ==
    /\ auth.pc # "idle" => auth.request \in Requests
    /\ auth.pc \in {"caching", "answering"} => auth.verdict \in Statuses
    /\ auth.pc = "caching" => auth.verdict = csmsSaid[auth.request.token]
    /\ auth.pc = "answering" /\ auth.verdict = "Accepted" =>
          auth.request.token \in granted

AuthInv == HeldInv /\ AuthTypeOK /\ CacheIsCurrent /\ TaskInv

\* With it, every session and every held start is accounted for.
GrantInv == \A c \in Connectors : Granted(cp.conn[c], granted)

\* The environment authorizes nobody itself: a charge start or a held start it
\* asks for is a remote one, told apart by its remoteStartId.
GrantsComeFromTheTask == \A e \in ConnectorEvents : Vetted(e, {})

LEMMA AuthInitInv == AuthInit => AuthInv
<1> SUFFICES ASSUME AuthInit PROVE AuthInv
  OBVIOUS
<1>1. HeldInv
  BY InitHeldInv DEF AuthInit
<1>2. AuthTypeOK
  <2>1. <<>> \in Seq(Requests) /\ <<>> \in Seq(Entries) /\ Len(<<>>) = 0
    BY EmptySeq
  <2>2. cache \in Seq(Entries) /\ Len(cache) <= CacheSize
    BY <2>1, AuthAssumption DEF AuthInit
  <2>3. auth \in Tasks
    BY DEF AuthInit, Idle, Tasks, Places, Option
  <2>4. list \in Lists /\ switches \in AuthSwitches /\ clock \in Option(0..MaxTime)
    BY AuthAssumption DEF AuthInit, Option
  <2>5. csmsSaid \in [IdTokens -> Option(Statuses)]
    BY DEF AuthInit, Option
  <2> QED BY <2>1, <2>2, <2>3, <2>4, <2>5 DEF AuthInit, AuthTypeOK, Tasks
<1>3. CacheIsCurrent
  <2>1. Len(cache) = 0
    BY EmptySeq DEF AuthInit
  <2>2. \A i \in 1 .. Len(cache) : FALSE
    BY <2>1
  <2> QED BY <2>2 DEF CacheIsCurrent
<1>4. TaskInv
  BY DEF TaskInv, AuthInit, Idle
<1> QED BY <1>1, <1>2, <1>3, <1>4 DEF AuthInv

\* The requests an event raises name connectors and identifiers.
LEMMA AskedType ==
  ASSUME HeldInv'
  PROVE  Asked \in Seq(Requests)
<1>1. CASE \A c \in Connectors : out'.conn[c].asks = <<>>
  <2>1. Asked = <<>>
    BY <1>1 DEF Asked
  <2> QED BY <2>1, EmptySeq
<1>2. CASE ~ \A c \in Connectors : out'.conn[c].asks = <<>>
  <2> DEFINE c == CHOOSE c \in Connectors : out'.conn[c].asks # <<>>
             asks == out'.conn[c].asks
             n == Len(asks)
             r(i) == [connector |-> c, token |-> asks[i].token,
                      contract |-> asks[i].contract]
             f == [i \in 1 .. n |-> r(i)]
  <2>1. c \in Connectors
    BY <1>2
  <2>2. Asked = f
    BY <1>2 DEF Asked
  <2> HIDE DEF c
  <2>3. out'.conn \in [Connectors -> Effects]
    BY DEF HeldInv, IInv, TypeOK
  <2>4. asks \in Seq(AuthorizationRequests)
    BY <2>1, <2>3 DEF Effects
  <2> HIDE DEF asks
  <2>5. n \in Nat
    BY <2>4, LenProperties
  <2>6. ASSUME NEW i \in 1 .. n
        PROVE  r(i) \in Requests
    <3>1. asks[i] \in AuthorizationRequests
      BY <2>4, ElementOfSeq
    <3> QED BY <2>1, <3>1 DEF AuthorizationRequests, Requests
  <2> HIDE DEF n, r
  <2>7. f \in [1 .. n -> Requests]
    BY <2>6
  <2>8. f \in Seq(Requests)
    BY <2>5, <2>7, SeqDef
  <2> QED BY <2>2, <2>8
<1> QED BY <1>1, <1>2

\* Raising requests keeps the queue and its history typed.
LEMMA RaiseTypes ==
  ASSUME AuthTypeOK, HeldInv', Raise
  PROVE  requests' \in Seq(Requests) /\ asked' \in Nat
<1>1. requests \in Seq(Requests) /\ asked \in Nat
  BY DEF AuthTypeOK
<1>2. Asked \in Seq(Requests) /\ Len(Asked) \in Nat
  BY AskedType, LenProperties
<1>3. requests \o Asked \in Seq(Requests)
  BY <1>1, <1>2, ConcatProperties
<1> QED BY <1>1, <1>2, <1>3 DEF Raise

\* As long as no answer is on its way into it, a cache nobody touches stays
\* current, wherever the task goes.
LEMMA CacheStays ==
  ASSUME CacheIsCurrent, auth.pc # "caching" \/ auth' = auth,
         UNCHANGED <<cache, csmsSaid>>
  PROVE  CacheIsCurrent'
  BY DEF CacheIsCurrent

\* A decision moves the task to its answer and records an acceptance.
LEMMA DecideMoves ==
  ASSUME AuthTypeOK, auth.request \in Requests, NEW v \in Statuses, Decide(v)
  PROVE  /\ auth' \in Tasks /\ TaskInv'
         /\ granted \subseteq granted' /\ granted' \subseteq IdTokens
         /\ auth'.pc = "answering" /\ auth'.verdict = v
         /\ auth'.request = auth.request
<1>1. auth \in Tasks /\ granted \subseteq IdTokens
  BY DEF AuthTypeOK, Tasks
<1>2. auth' = [auth EXCEPT !.pc = "answering", !.verdict = v]
  BY DEF Decide
<1>3. /\ auth' \in Tasks /\ auth'.pc = "answering" /\ auth'.verdict = v
      /\ auth'.request = auth.request
  BY <1>1, <1>2 DEF Tasks, Places, Option
<1>4. auth.request.token \in IdTokens
  BY DEF Requests
<1>5. /\ granted \subseteq granted' /\ granted' \subseteq IdTokens
      /\ v = "Accepted" => auth.request.token \in granted'
  BY <1>1, <1>4 DEF Decide
<1>6. TaskInv'
  BY <1>3, <1>5 DEF TaskInv
<1> QED BY <1>3, <1>5, <1>6

\* What the list, the cache or the caller says.
LEMMA LocalDecisionFacts ==
  ASSUME AuthTypeOK, CacheIsCurrent, auth.pc # "caching",
         NEW token \in IdTokens, NEW now, NEW unknown \in Statuses
  PROVE  LET v == LocalDecision(token, now, unknown) IN
         /\ v \in Statuses
         /\ v = "Accepted" =>
               \/ list[token] = "Accepted"
               \/ csmsSaid[token] = "Accepted"
               \/ unknown = "Accepted"
<1> DEFINE v == LocalDecision(token, now, unknown)
           hit == Lookup(token, now)
<1>1. list[token] \in Option(Statuses) /\ cache \in Seq(Entries)
  BY DEF AuthTypeOK, Lists
<1>2. CASE list[token] # None
  BY <1>1, <1>2 DEF LocalDecision, Option
<1>3. CASE list[token] = None /\ v = "Rejected"
  BY <1>3 DEF Statuses
<1>4. CASE list[token] = None /\ hit # None /\ v = hit
  <2>1. PICK i \in 1 .. Len(cache) :
           cache[i].token = token /\ hit = cache[i].status
    BY <1>1, <1>4, LookupFinds
  <2>2. cache[i] \in Entries
    BY <1>1, ElementOfSeq
  <2>3. cache[i].status = csmsSaid[cache[i].token]
    BY DEF CacheIsCurrent
  <2> HIDE DEF v, hit
  <2>4. v \in Statuses /\ v = csmsSaid[token]
    BY <1>4, <2>1, <2>2, <2>3 DEF Entries
  <2> QED BY <2>4 DEF v
<1>5. CASE v = unknown
  BY <1>5
<1>6. \/ list[token] # None
      \/ list[token] = None /\ v = "Rejected"
      \/ list[token] = None /\ hit # None /\ v = hit
      \/ v = unknown
  BY DEF LocalDecision
<1> QED BY <1>2, <1>3, <1>4, <1>5, <1>6

-----------------------------------------------------------------------------
(* Every step.                                                               *)

\* What is shown of each.
Grounds ==
    auth.pc # "answering" /\ auth'.pc = "answering"
        /\ auth'.verdict = "Accepted" => Grounded(auth'.request)

Advances == AuthInv' /\ granted \subseteq granted' /\ Grounds

\* A step of the task that ends in a decision; the cache may have taken in the
\* CSMS's answer.
LEMMA DecisionAdvances ==
  ASSUME AuthInv, UNCHANGED <<vars, requests, list, switches, clock, asked,
                              csmsSaid>>,
         auth.request \in Requests, NEW v \in Statuses, Decide(v),
         v = "Accepted" => Grounded(auth.request),
         cache' \in Seq(Entries), Len(cache') <= CacheSize, CacheIsCurrent'
  PROVE  Advances
<1>1. HeldInv' /\ AuthTypeOK
  BY StutterHeldInv DEF AuthInv
<1>2. /\ auth' \in Tasks /\ TaskInv'
      /\ granted \subseteq granted' /\ granted' \subseteq IdTokens
      /\ auth'.verdict = v /\ auth'.request = auth.request
  BY <1>1, DecideMoves
<1>3. AuthTypeOK'
  BY <1>1, <1>2 DEF AuthTypeOK, Tasks
<1> QED BY <1>1, <1>2, <1>3 DEF AuthInv, Advances, Grounds

\* A step of the task that only moves it on.
LEMMA MoveAdvances ==
  ASSUME AuthInv, UNCHANGED <<vars, stationVars, asked, granted>>,
         requests' \in Seq(Requests), auth' \in Tasks,
         csmsSaid' \in [IdTokens -> Option(Statuses)],
         auth'.pc # "answering", TaskInv', CacheIsCurrent'
  PROVE  Advances
<1>1. HeldInv' /\ AuthTypeOK
  BY StutterHeldInv DEF AuthInv
<1>2. AuthTypeOK'
  BY <1>1 DEF AuthTypeOK, Tasks, stationVars
<1> QED BY <1>1, <1>2 DEF AuthInv, Advances, Grounds

LEMMA ReceiveAdvances ==
  ASSUME AuthInv, Receive
  PROVE  Advances
<1>1. /\ auth.pc = "idle" /\ requests # <<>> /\ requests' = Tail(requests)
      /\ auth' = [Idle EXCEPT !.pc = "received", !.request = Head(requests),
                              !.now = clock]
      /\ UNCHANGED <<vars, stationVars, asked, csmsSaid, granted>>
  BY DEF Receive, history
<1>2. requests \in Seq(Requests) /\ clock \in Option(Nat)
  <2>1. clock \in Option(0..MaxTime)
    BY DEF AuthInv, AuthTypeOK
  <2>2. 0..MaxTime \subseteq Nat
    BY AuthAssumption
  <2> QED BY <2>1, <2>2 DEF AuthInv, AuthTypeOK, Option
<1>3. Head(requests) \in Requests /\ requests' \in Seq(Requests)
  BY <1>1, <1>2, HeadTailProperties
<1>4. auth' \in Tasks /\ auth'.pc = "received" /\ auth'.request \in Requests
  BY <1>1, <1>2, <1>3 DEF Idle, Tasks, Places, Option
<1>5. TaskInv'
  BY <1>4 DEF TaskInv
<1>6. CacheIsCurrent'
  BY <1>1, CacheStays DEF AuthInv, stationVars
<1>7. csmsSaid' \in [IdTokens -> Option(Statuses)]
  BY <1>1 DEF AuthInv, AuthTypeOK
<1> QED BY <1>1, <1>3, <1>4, <1>5, <1>6, <1>7, MoveAdvances

LEMMA DecideLocallyAdvances ==
  ASSUME AuthInv, DecideLocally
  PROVE  Advances
<1> DEFINE t == auth.request.token
           v == IF auth.request.contract THEN "Rejected"
                ELSE LocalOnlyDecision(t, auth.now)
<1>1. /\ auth.pc = "received" /\ Decide(v)
      /\ UNCHANGED <<vars, requests, stationVars, asked, csmsSaid>>
  BY DEF DecideLocally
<1>2. /\ AuthTypeOK /\ CacheIsCurrent
      /\ auth.request \in Requests /\ t \in IdTokens
  BY <1>1 DEF AuthInv, TaskInv, Requests
<1>3. v \in Statuses /\ (v = "Accepted" => Grounded(auth.request))
  <2>1. "Rejected" \in Statuses /\ "Rejected" # "Accepted"
    BY DEF Statuses
  <2>2. CASE auth.request.contract
    BY <2>1, <2>2
  <2>3. CASE ~auth.request.contract
    <3>1. v = LocalDecision(t, auth.now, "Rejected")
      BY <2>3 DEF LocalOnlyDecision
    <3> HIDE DEF v
    <3> QED BY <1>1, <1>2, <2>1, <2>3, <3>1, LocalDecisionFacts DEF Grounded
  <2> QED BY <2>2, <2>3
<1> HIDE DEF v
<1>4. CacheIsCurrent'
  BY <1>1, <1>2, CacheStays DEF stationVars
<1>5. cache' \in Seq(Entries) /\ Len(cache') <= CacheSize
  BY <1>1, <1>2 DEF AuthTypeOK, stationVars
<1> QED BY <1>1, <1>2, <1>3, <1>4, <1>5, DecisionAdvances DEF stationVars

LEMMA AskAdvances ==
  ASSUME AuthInv, Ask
  PROVE  Advances
<1>1. /\ auth.pc = "received" /\ auth' = [auth EXCEPT !.pc = "asking"]
      /\ UNCHANGED <<vars, requests, stationVars, asked, csmsSaid, granted>>
  BY DEF Ask, history
<1>2. /\ auth \in Tasks /\ requests \in Seq(Requests)
      /\ csmsSaid \in [IdTokens -> Option(Statuses)]
      /\ auth.request \in Requests /\ CacheIsCurrent
  BY <1>1 DEF AuthInv, AuthTypeOK, Tasks, TaskInv
<1>3. /\ auth' \in Tasks /\ auth'.pc = "asking"
      /\ auth'.request = auth.request
  BY <1>1, <1>2 DEF Tasks, Places
<1>4. TaskInv'
  BY <1>2, <1>3 DEF TaskInv
<1>5. CacheIsCurrent'
  BY <1>1, <1>2, CacheStays DEF stationVars
<1> QED BY <1>1, <1>2, <1>3, <1>4, <1>5, MoveAdvances

LEMMA CsmsAnswersAdvances ==
  ASSUME AuthInv, CsmsAnswers
  PROVE  Advances
<1> DEFINE t == auth.request.token
<1>1. PICK v \in Statuses :
         /\ auth' = [auth EXCEPT !.pc = "caching", !.verdict = v]
         /\ csmsSaid' = [csmsSaid EXCEPT ![t] = v]
  <2>1. PICK status \in Statuses, certificate \in Option(Statuses) :
           LET verdict == IF ContractAccepted(status, certificate)
                            THEN "Accepted" ELSE "Rejected"
           IN /\ auth' = [auth EXCEPT !.pc = "caching", !.verdict = verdict]
              /\ csmsSaid' = [csmsSaid EXCEPT ![auth.request.token] = verdict]
    BY DEF CsmsAnswers
  <2> DEFINE verdict == IF ContractAccepted(status, certificate)
                          THEN "Accepted" ELSE "Rejected"
  <2>2. verdict \in Statuses
    BY DEF Statuses
  <2> QED BY <2>1, <2>2
<1>2. /\ auth.pc = "asking"
      /\ UNCHANGED <<vars, requests, stationVars, asked, granted>>
  BY DEF CsmsAnswers
<1>3. /\ auth \in Tasks /\ requests \in Seq(Requests) /\ cache \in Seq(Entries)
      /\ csmsSaid \in [IdTokens -> Option(Statuses)]
      /\ auth.request \in Requests /\ t \in IdTokens /\ CacheIsCurrent
  BY <1>2 DEF AuthInv, AuthTypeOK, Tasks, TaskInv, Requests
<1>4. /\ auth' \in Tasks /\ auth'.pc = "caching" /\ auth'.verdict = v
      /\ auth'.request = auth.request
  BY <1>1, <1>3 DEF Tasks, Places, Option
<1>5. csmsSaid' \in [IdTokens -> Option(Statuses)]
  BY <1>1, <1>3 DEF Option
<1>6. csmsSaid'[t] = v
  BY <1>1, <1>3
<1>7. TaskInv'
  BY <1>3, <1>4, <1>6 DEF TaskInv
<1>8. CacheIsCurrent'
  <2>1. cache' = cache
    BY <1>2 DEF stationVars
  <2>2. csmsSaid' = [csmsSaid EXCEPT ![t] = v]
    BY <1>1
  <2> HIDE DEF t
  <2>3. ASSUME NEW i \in 1 .. Len(cache)
        PROVE  \/ cache[i].status = csmsSaid'[cache[i].token]
               \/ t = cache[i].token
    <3> DEFINE u == cache[i].token
    <3>1. cache[i] \in Entries
      BY <1>3, ElementOfSeq
    <3>2. u \in IdTokens
      BY <3>1 DEF Entries
    <3>3. cache[i].status = csmsSaid[u]
      BY <1>2, <1>3 DEF CacheIsCurrent
    <3> HIDE DEF u
    <3>4. u # t => csmsSaid'[u] = csmsSaid[u]
      BY <1>3, <2>2, <3>2
    <3>5. cache[i].status = csmsSaid'[u] \/ t = u
      BY <3>3, <3>4
    <3> QED BY <3>5 DEF u
  <2>4. ASSUME NEW i \in 1 .. Len(cache')
        PROVE  \/ cache'[i].status = csmsSaid'[cache'[i].token]
               \/ auth'.pc = "caching" /\ t = cache'[i].token
    BY <1>4, <2>1, <2>3
  <2> QED BY <1>4, <2>4 DEF CacheIsCurrent, t
<1> QED BY <1>2, <1>3, <1>4, <1>5, <1>7, <1>8, MoveAdvances

LEMMA CsmsUnreachableAdvances ==
  ASSUME AuthInv, CsmsUnreachable
  PROVE  Advances
<1> DEFINE t == auth.request.token
           unknown == IF switches.unknownIdOffline THEN "Accepted"
                      ELSE "Rejected"
           v == IF auth.request.contract THEN "Rejected"
                ELSE OfflineDecision(t, auth.now)
<1>1. /\ auth.pc = "asking" /\ Decide(v)
      /\ UNCHANGED <<vars, requests, stationVars, asked, csmsSaid>>
  BY DEF CsmsUnreachable
<1>2. /\ AuthTypeOK /\ CacheIsCurrent
      /\ auth.request \in Requests /\ t \in IdTokens
  BY <1>1 DEF AuthInv, TaskInv, Requests
<1>3. v \in Statuses /\ (v = "Accepted" => Grounded(auth.request))
  <2>1. /\ "Rejected" \in Statuses /\ "Rejected" # "Accepted"
        /\ unknown \in Statuses
        /\ unknown = "Accepted" => switches.unknownIdOffline
    BY DEF Statuses
  <2>2. CASE v = "Rejected"
    BY <2>1, <2>2
  <2>3. CASE ~auth.request.contract /\ v = LocalDecision(t, auth.now, unknown)
    <3> HIDE DEF v, unknown
    <3> QED BY <1>1, <1>2, <2>1, <2>3, LocalDecisionFacts DEF Grounded
  <2>4. \/ v = "Rejected"
        \/ ~auth.request.contract /\ v = LocalDecision(t, auth.now, unknown)
    BY DEF OfflineDecision
  <2> QED BY <2>2, <2>3, <2>4
<1> HIDE DEF v
<1>4. CacheIsCurrent'
  BY <1>1, <1>2, CacheStays DEF stationVars
<1>5. cache' \in Seq(Entries) /\ Len(cache') <= CacheSize
  BY <1>1, <1>2 DEF AuthTypeOK, stationVars
<1> QED BY <1>1, <1>2, <1>3, <1>4, <1>5, DecisionAdvances DEF stationVars

LEMMA CacheDecisionAdvances ==
  ASSUME AuthInv, CacheDecision
  PROVE  Advances
<1> DEFINE t == auth.request.token
           v == auth.verdict
<1>1. /\ auth.pc = "caching" /\ Decide(v)
      /\ cache' = Remember(cache, t, v, auth.now)
      /\ UNCHANGED <<vars, requests, list, switches, clock, asked, csmsSaid>>
  BY DEF CacheDecision
<1>2. /\ AuthTypeOK /\ CacheIsCurrent /\ v \in Statuses
      /\ auth.request \in Requests /\ t \in IdTokens
      /\ v = csmsSaid[t] /\ auth.now \in Option(Nat)
      /\ cache \in Seq(Entries)
  BY <1>1 DEF AuthInv, AuthTypeOK, TaskInv, Requests
<1>3. /\ cache' \in Seq(Entries) /\ Len(cache') <= CacheSize
      /\ \A i \in 1 .. Len(cache') :
            \/ cache'[i].token = t /\ cache'[i].status = v
            \/ cache'[i].token # t
               /\ \E k \in 1 .. Len(cache) : cache'[i] = cache[k]
  BY <1>1, <1>2, RememberKeeps
<1>4. CacheIsCurrent'
  <2>1. \A k \in 1 .. Len(cache) :
           cache[k].status = csmsSaid[cache[k].token] \/ cache[k].token = t
    BY <1>2 DEF CacheIsCurrent
  <2>2. csmsSaid' = csmsSaid
    BY <1>1
  <2> HIDE DEF t, v
  <2>3. ASSUME NEW i \in 1 .. Len(cache')
        PROVE  cache'[i].status = csmsSaid'[cache'[i].token]
    BY <1>2, <1>3, <2>1, <2>2
  <2> QED BY <2>3 DEF CacheIsCurrent
<1>5. v = "Accepted" => Grounded(auth.request)
  BY <1>2 DEF Grounded
<1> HIDE DEF v
<1> QED BY <1>1, <1>2, <1>3, <1>4, <1>5, DecisionAdvances

\* The verdict goes to the connector as an event like any other.
LEMMA AnswerSends ==
  ASSUME AuthInv, Answer
  PROVE  \E e : /\ Sendable(e) /\ Step(e) /\ e.type = "Connector"
                /\ Vetted(e.event, granted)
<1> DEFINE v == VerdictEvent(auth.request, auth.verdict)
           e == [type |-> "Connector", connector |-> auth.request.connector,
                 event |-> v]
<1>1. auth.pc = "answering" /\ Step(e)
  BY DEF Answer
<1>2. auth.request \in Requests
  BY <1>1 DEF AuthInv, TaskInv
<1>3. auth.request.connector \in Connectors /\ auth.request.token \in IdTokens
  BY <1>2 DEF Requests
<1>4. CASE auth.verdict = "Accepted"
  <2>1. v = [type |-> "ChargingAuthorized", token |-> auth.request.token]
    BY <1>4 DEF VerdictEvent
  <2>2. auth.request.token \in granted
    BY <1>1, <1>4 DEF AuthInv, TaskInv
  <2> HIDE DEF v
  <2>3. WellFormed(v)
    BY <1>3, <2>1 DEF WellFormed
  <2>4. Vetted(v, granted)
    BY <2>1, <2>2 DEF Vetted
  <2> QED BY <1>1, <1>3, <2>3, <2>4 DEF Sendable
<1>5. CASE auth.verdict # "Accepted"
  <2>1. v = [type |-> "AuthorizationDenied"]
    BY <1>5 DEF VerdictEvent
  <2> HIDE DEF v
  <2>2. WellFormed(v)
    BY <2>1 DEF WellFormed
  <2>3. Vetted(v, granted)
    BY <2>1 DEF Vetted
  <2> QED BY <1>1, <1>3, <2>2, <2>3 DEF Sendable
<1> QED BY <1>4, <1>5

\* An event of the actor's, whoever sent it.
LEMMA EventAdvances ==
  ASSUME AuthInv, HeldInv', Raise, auth' = auth \/ auth' = Idle,
         auth' = auth \/ auth.pc # "caching",
         UNCHANGED <<stationVars, csmsSaid, granted>>
  PROVE  Advances
<1>1. AuthTypeOK /\ CacheIsCurrent /\ TaskInv
  BY DEF AuthInv
<1>2. requests' \in Seq(Requests) /\ asked' \in Nat
  BY <1>1, RaiseTypes
<1>3. auth' \in Tasks
  BY <1>1 DEF AuthTypeOK, Tasks, Idle, Places, Option
<1>4. AuthTypeOK'
  BY <1>1, <1>2, <1>3 DEF AuthTypeOK, Tasks, stationVars
<1>5. CacheIsCurrent'
  BY <1>1, CacheStays DEF stationVars
<1>6. TaskInv'
  BY <1>1 DEF TaskInv, Idle
<1>7. Grounds
  BY DEF Grounds, Idle
<1> QED BY <1>4, <1>5, <1>6, <1>7 DEF AuthInv, Advances

LEMMA ActorEventAdvances ==
  ASSUME AuthInv, ActorEvent
  PROVE  Advances
<1>1. Next /\ Raise /\ auth' = auth
      /\ UNCHANGED <<stationVars, csmsSaid, granted>>
  BY DEF ActorEvent
<1>2. HeldInv'
  BY <1>1, NextHeldInv DEF AuthInv
<1> QED BY <1>1, <1>2, EventAdvances

LEMMA AnswerAdvances ==
  ASSUME AuthInv, Answer
  PROVE  Advances
<1>1. Raise /\ auth' = Idle /\ auth.pc # "caching"
      /\ UNCHANGED <<stationVars, csmsSaid, granted>>
  BY DEF Answer
<1>2. HeldInv'
  BY AnswerSends, StepHeldInv DEF AuthInv
<1> QED BY <1>1, <1>2, EventAdvances

\* A step of the CSMS, the operator or the clock: the entries that stay in the
\* cache were in it.
LEMMA SurroundingsAdvance ==
  ASSUME AuthInv, UNCHANGED <<vars, taskVars, history>>,
         cache' \in Seq(Entries), Len(cache') <= CacheSize,
         \A i \in 1 .. Len(cache') :
            \E k \in 1 .. Len(cache) : cache'[i] = cache[k],
         list' \in Lists, switches' \in AuthSwitches,
         clock' \in Option(0 .. MaxTime)
  PROVE  Advances
<1>1. HeldInv' /\ AuthTypeOK /\ CacheIsCurrent /\ TaskInv
  BY StutterHeldInv DEF AuthInv
<1>2. /\ auth' = auth /\ requests' = requests /\ asked' = asked
      /\ csmsSaid' = csmsSaid /\ granted' = granted
  BY DEF taskVars, history
<1>3. AuthTypeOK'
  BY <1>1, <1>2 DEF AuthTypeOK
<1>4. CacheIsCurrent'
  BY <1>1, <1>2 DEF CacheIsCurrent
<1>5. TaskInv'
  BY <1>1, <1>2 DEF TaskInv
<1> QED BY <1>1, <1>2, <1>3, <1>4, <1>5 DEF AuthInv, Advances, Grounds

LEMMA EnvironmentAdvances ==
  ASSUME AuthInv,
         \/ ClearCache
         \/ \E token \in IdTokens : EraseCustomer(token)
         \/ InstallList \/ SetSwitches \/ Tick
         \/ UNCHANGED authVars
  PROVE  Advances
<1>1. /\ cache \in Seq(Entries) /\ Len(cache) <= CacheSize /\ list \in Lists
      /\ switches \in AuthSwitches /\ clock \in Option(0 .. MaxTime)
  BY DEF AuthInv, AuthTypeOK
<1>2. CASE ClearCache
  <2>1. /\ cache' = <<>> /\ list' = list /\ switches' = switches
        /\ clock' = clock /\ UNCHANGED <<vars, taskVars, history>>
    BY <1>2 DEF ClearCache
  <2>2. cache' \in Seq(Entries) /\ Len(cache') = 0
    BY <2>1, EmptySeq
  <2>3. Len(cache') <= CacheSize /\ \A i \in 1 .. Len(cache') : FALSE
    BY <2>2, AuthAssumption
  <2> QED BY <1>1, <2>1, <2>2, <2>3, SurroundingsAdvance
<1>3. CASE \E token \in IdTokens : EraseCustomer(token)
  <2>1. PICK token \in IdTokens : EraseCustomer(token)
    BY <1>3
  <2>2. /\ cache' = Others(cache, token)
        /\ list' = [list EXCEPT ![token] = None]
        /\ switches' = switches /\ clock' = clock
        /\ UNCHANGED <<vars, taskVars, history>>
    BY <2>1 DEF EraseCustomer
  <2>3. Sieved(cache', cache, token, Len(cache))
    BY <1>1, <2>2, OthersSieve
  <2>4. Len(cache) \in Nat /\ CacheSize \in Nat
    BY <1>1, LenProperties, AuthAssumption
  <2>5. /\ cache' \in Seq(Entries) /\ Len(cache') <= Len(cache)
        /\ \A i \in 1 .. Len(cache') :
              \E k \in 1 .. Len(cache) : cache'[i] = cache[k]
    BY <2>3 DEF Sieved
  <2>6. Len(cache') <= CacheSize
    <3>1. Len(cache') \in Nat
      BY <2>5, LenProperties
    <3> QED BY <1>1, <2>4, <2>5, <3>1
  <2>7. list' \in Lists
    BY <1>1, <2>2 DEF Lists, Option
  <2> QED BY <1>1, <2>2, <2>5, <2>6, <2>7, SurroundingsAdvance
<1>4. CASE InstallList \/ SetSwitches \/ Tick \/ UNCHANGED authVars
  <2>1. cache' = cache /\ UNCHANGED <<vars, taskVars, history>>
    BY <1>4 DEF InstallList, SetSwitches, Tick, authVars, stationVars
  <2>2. list' \in Lists
    BY <1>1, <1>4, AuthAssumption
       DEF InstallList, SetSwitches, Tick, authVars, stationVars
  <2>3. switches' \in AuthSwitches
    BY <1>1, <1>4, AuthAssumption
       DEF InstallList, SetSwitches, Tick, authVars, stationVars
  <2>4. clock' \in Option(0 .. MaxTime)
    <3>1. CASE Tick
      <4>1. clock = None \/ clock \in 0 .. MaxTime
        BY <1>1 DEF Option
      <4>2. clock' \in 0 .. MaxTime
        BY <3>1, <4>1, AuthAssumption DEF Tick
      <4> QED BY <4>2 DEF Option
    <3>2. CASE ~Tick
      BY <1>1, <1>4, <3>2 DEF InstallList, SetSwitches, authVars, stationVars
    <3> QED BY <3>1, <3>2
  <2>5. \A i \in 1 .. Len(cache') :
           \E k \in 1 .. Len(cache) : cache'[i] = cache[k]
    BY <2>1
  <2> QED BY <1>1, <2>1, <2>2, <2>3, <2>4, <2>5, SurroundingsAdvance
<1> QED BY <1>2, <1>3, <1>4

LEMMA StepAdvances ==
  ASSUME AuthInv, [AuthNext]_authVars
  PROVE  Advances
<1>1. CASE Task
  BY <1>1, ReceiveAdvances, DecideLocallyAdvances, AskAdvances,
     CsmsAnswersAdvances, CsmsUnreachableAdvances, CacheDecisionAdvances,
     AnswerAdvances DEF Task
<1>2. CASE ActorEvent
  BY <1>2, ActorEventAdvances
<1>3. CASE ~Task /\ ~ActorEvent
  BY <1>3, EnvironmentAdvances DEF AuthNext
<1> QED BY <1>1, <1>2, <1>3

-----------------------------------------------------------------------------
(* Every session's identifier.                                               *)

LEMMA InitGranted == AuthInit => GrantInv
<1> SUFFICES ASSUME AuthInit PROVE GrantInv
  OBVIOUS
<1>1. PICK p : cp = NewChargePoint(p)
  BY DEF AuthInit, Init
<1>2. ASSUME NEW c \in Connectors
      PROVE  Granted(cp.conn[c], granted)
  <2>1. cp.conn[c] = NewSlot
    BY <1>1 DEF NewChargePoint
  <2> QED BY <2>1 DEF NewSlot, Granted, Accounted, HeldFor
<1> QED BY <1>2 DEF GrantInv

\* An event of the actor's that names only accepted identifiers.
LEMMA EventGranted ==
  ASSUME HeldInv, GrantInv, granted' = granted, NEW e, Sendable(e), Step(e),
         e.type = "Connector" => Vetted(e.event, granted)
  PROVE  GrantInv'
<1>1. \A c \in Connectors : Did(cp, e, c, cp'.conn[c], out'.conn[c])
  BY StepHeldInv
<1>2. Settled(cp, last)
  BY IInvSettled DEF HeldInv
<1>3. ASSUME NEW c \in Connectors
      PROVE  Granted(cp'.conn[c], granted)
  <2>1. SlotHeld(cp.conn[c]) /\ Granted(cp.conn[c], granted)
    BY DEF HeldInv, GrantInv
  <2> QED BY <1>1, <1>2, <2>1, DidGranted
<1> QED BY <1>3 DEF GrantInv

LEMMA StepGranted ==
  ASSUME GrantsComeFromTheTask, AuthInv, GrantInv, [AuthNext]_authVars
  PROVE  GrantInv'
<1>0. HeldInv /\ granted \subseteq granted'
  BY StepAdvances DEF Advances, AuthInv
<1>1. CASE ActorEvent
  <2>1. Next /\ granted' = granted
    BY <1>1 DEF ActorEvent
  <2>2. PICK e : /\ Sendable(e) /\ Step(e)
                 /\ e.type = "Connector" => e.event \in ConnectorEvents
    BY <2>1, NextSends
  <2>3. e.type = "Connector" => Vetted(e.event, granted)
    BY <2>2 DEF GrantsComeFromTheTask, Vetted, HeldFor
  <2> QED BY <1>0, <2>1, <2>2, <2>3, EventGranted
<1>2. CASE Answer
  <2>1. granted' = granted
    BY <1>2 DEF Answer
  <2> QED BY <1>0, <1>2, <2>1, AnswerSends, EventGranted
<1>3. CASE cp' = cp
  BY <1>0, <1>3, GrantedGrows DEF GrantInv
<1>4. ActorEvent \/ Answer \/ cp' = cp
  BY DEF AuthNext, Task, Receive, DecideLocally, Ask, CsmsAnswers,
         CsmsUnreachable, CacheDecision, ClearCache, EraseCustomer,
         InstallList, SetSwitches, Tick, authVars, vars
<1> QED BY <1>1, <1>2, <1>3, <1>4

-----------------------------------------------------------------------------
(* The theorems.                                                             *)

\* Types, the cache and the task's await points, whatever happens between two
\* of its steps (run_authorization_requests).
THEOREM AuthInvariance == AuthSpec => []AuthInv
<1>1. AuthInv /\ [AuthNext]_authVars => AuthInv'
  BY StepAdvances DEF Advances
<1> QED BY AuthInitInv, <1>1, PTL DEF AuthSpec

\* "'We don't know' is not 'yes'": whatever the settings, the list and the cache
\* are when a decision is taken, an acceptance rests on the CSMS's last word,
\* on the local list or on the operator's leave, and a contract's on the CSMS
\* alone (decide, decide_contract).
THEOREM AcceptancesStayGrounded == AuthSpec => AcceptancesAreGrounded
<1>1. AuthInv /\ [AuthNext]_authVars =>
        [auth.pc # "answering" /\ auth'.pc = "answering"
           /\ auth'.verdict = "Accepted" => Grounded(auth'.request)]_authVars
  BY StepAdvances DEF Advances, Grounds
<1> QED BY AuthInvariance, <1>1, PTL DEF AuthSpec, AcceptancesAreGrounded

\* The cache repeats the CSMS's last word, and a session nobody started remotely
\* runs on an identifier that some decision accepted before, however stale the
\* request was, wherever the connector has moved on to and however long the
\* accepted card was held for its cable (E03).
THEOREM GrantsStayCurrent ==
  ASSUME GrantsComeFromTheTask
  PROVE  AuthSpec => []GrantsAreCurrent
<1>1. AuthInit => AuthInv /\ GrantInv
  BY AuthInitInv, InitGranted
<1>2. AuthInv /\ GrantInv /\ [AuthNext]_authVars => (AuthInv /\ GrantInv)'
  BY StepAdvances, StepGranted DEF Advances
<1>3. AuthInv /\ GrantInv => GrantsAreCurrent
  BY DEF AuthInv, GrantInv, Granted, Accounted, GrantsAreCurrent,
         EnergyWasGranted
<1> QED BY <1>1, <1>2, <1>3, PTL DEF AuthSpec

=============================================================================
