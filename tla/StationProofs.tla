---------------------------- MODULE StationProofs ----------------------------
(***************************************************************************)
(* Theorems about Station, for every topology, every set of requests and   *)
(* any number of failures, requests and moves of the driver: no event is   *)
(* refused, handlers do what they answered for, power is only on where the *)
(* state owns it, and with one failure at most only on a locked socket.    *)
(***************************************************************************)
EXTENDS Station, ChargePointStateProofs, SequenceTheorems, FiniteSetTheorems,
        WellFoundedInduction, TLAPS

-----------------------------------------------------------------------------
(* Flattening a sequence of sequences. *)

\* f is what the first m steps of FlattenSeq compute.
Flattens(seqs, m, f) ==
    f = [i \in 1 .. m |-> IF i = 1 THEN seqs[i] ELSE f[i - 1] \o seqs[i]]

\* Such an f exists: extend the one for all but the last step.
LEMMA FlattensExists ==
  ASSUME NEW seqs, NEW n \in Nat
  PROVE  \E f : Flattens(seqs, n, f)
<1> DEFINE Bad == {k \in Nat : ~\E f : Flattens(seqs, k, f)}
<1> SUFFICES ASSUME Bad # {} PROVE FALSE
  OBVIOUS
<1>1. PICK b \in Bad : \A k \in Bad : ~(<<k, b>> \in OpToRel(<, Nat))
  <2>1. Bad \subseteq Nat
    OBVIOUS
  <2> HIDE DEF Bad
  <2> QED BY <2>1, NatLessThanWellFounded, WFMin
<1>2. CASE b = 0
  <2> DEFINE g == [i \in 1 .. 0 |-> <<>>]
  <2>1. Flattens(seqs, 0, g)
    BY DEF Flattens
  <2> QED BY <1>2, <2>1
<1>3. CASE b # 0
  <2> DEFINE m == b - 1
  <2>1. m \in Nat /\ b = m + 1
    BY <1>3
  <2>2. <<m, b>> \in OpToRel(<, Nat)
    BY <2>1 DEF OpToRel
  <2>3. PICK f : Flattens(seqs, m, f)
    BY <1>1, <2>1, <2>2
  <2> HIDE DEF m
  <2> DEFINE g == [i \in 1 .. b |-> IF i = 1 THEN seqs[i] ELSE f[i - 1] \o seqs[i]]
  <2>4. ASSUME NEW i \in 1 .. m
        PROVE  g[i] = f[i]
    <3>1. f[i] = IF i = 1 THEN seqs[i] ELSE f[i - 1] \o seqs[i]
      BY <2>3 DEF Flattens
    <3> QED BY <2>1, <3>1
  <2>5. ASSUME NEW i \in 1 .. b
        PROVE  g[i] = IF i = 1 THEN seqs[i] ELSE g[i - 1] \o seqs[i]
    <3>1. CASE i = 1
      BY <3>1
    <3>2. CASE i # 1
      <4>1. i - 1 \in 1 .. m
        BY <2>1, <3>2
      <4> QED BY <2>4, <3>2, <4>1
    <3> QED BY <3>1, <3>2
  <2>6. Flattens(seqs, b, g)
    <3> DEFINE h == [i \in 1 .. b |-> IF i = 1 THEN seqs[i] ELSE g[i - 1] \o seqs[i]]
    <3>1. \A i \in 1 .. b : g[i] = h[i]
      BY <2>5
    <3>2. g = h
      BY <3>1
    <3> QED BY <3>2 DEF Flattens
  <2> QED BY <1>1, <2>6
<1> QED BY <1>2, <1>3

\* No element of a sequence, or of a sequence of sequences, is there twice.
Distinct(s) == \A i, j \in 1 .. Len(s) : s[i] = s[j] => i = j

AllDistinct(seqs, m) ==
    \A k, l \in 1 .. m :
        \A i \in 1 .. Len(seqs[k]), j \in 1 .. Len(seqs[l]) :
            seqs[k][i] = seqs[l][j] => k = l /\ i = j

\* What a flattened sequence holds: the elements of its parts and no others, and
\* none twice if they are distinct.
Holds(s, seqs, m, S) ==
    /\ s \in Seq(S)
    /\ \A i \in 1 .. Len(s) :
          \E k \in 1 .. m : \E j \in 1 .. Len(seqs[k]) : seqs[k][j] = s[i]
    /\ \A k \in 1 .. m : \A j \in 1 .. Len(seqs[k]) :
          \E i \in 1 .. Len(s) : s[i] = seqs[k][j]
    /\ AllDistinct(seqs, m) => Distinct(s)

\* One more part.
LEMMA HoldsMore ==
  ASSUME NEW S, NEW seqs, NEW m \in Nat, NEW s, Holds(s, seqs, m, S),
         seqs[m + 1] \in Seq(S)
  PROVE  Holds(s \o seqs[m + 1], seqs, m + 1, S)
<1> DEFINE t == seqs[m + 1]
           u == s \o t
<1>1. s \in Seq(S) /\ t \in Seq(S)
  BY DEF Holds
<1>2. /\ u \in Seq(S) /\ Len(u) = Len(s) + Len(t)
      /\ \A i \in 1 .. Len(s) + Len(t) :
            u[i] = IF i <= Len(s) THEN s[i] ELSE t[i - Len(s)]
  BY <1>1, ConcatProperties
<1>3. Len(s) \in Nat /\ Len(t) \in Nat
  BY <1>1, LenProperties
<1> HIDE DEF u
<1>4. ASSUME NEW i \in 1 .. Len(u)
      PROVE  \E k \in 1 .. m + 1 : \E j \in 1 .. Len(seqs[k]) :
                seqs[k][j] = u[i]
  <2>1. CASE i <= Len(s)
    <3>1. i \in 1 .. Len(s) /\ u[i] = s[i]
      BY <1>2, <1>3, <2>1
    <3>2. PICK k \in 1 .. m : \E j \in 1 .. Len(seqs[k]) : seqs[k][j] = s[i]
      BY <3>1 DEF Holds
    <3> QED BY <3>1, <3>2
  <2>2. CASE i > Len(s)
    <3>1. i - Len(s) \in 1 .. Len(t) /\ u[i] = t[i - Len(s)]
      BY <1>2, <1>3, <2>2
    <3>2. m + 1 \in 1 .. m + 1
      OBVIOUS
    <3> QED BY <3>1, <3>2
  <2> QED BY <1>2, <1>3, <2>1, <2>2
<1>5. ASSUME NEW k \in 1 .. m + 1, NEW j \in 1 .. Len(seqs[k])
      PROVE  \E i \in 1 .. Len(u) : u[i] = seqs[k][j]
  <2>1. CASE k \in 1 .. m
    <3>1. PICK i \in 1 .. Len(s) : s[i] = seqs[k][j]
      BY <2>1 DEF Holds
    <3>2. i \in 1 .. Len(u) /\ u[i] = s[i]
      BY <1>2, <1>3
    <3> QED BY <3>1, <3>2
  <2>2. CASE k = m + 1
    <3>1. j \in 1 .. Len(t)
      BY <2>2
    <3>2. Len(s) + j \in 1 .. Len(u) /\ u[Len(s) + j] = t[j]
      BY <1>2, <1>3, <3>1
    <3> QED BY <2>2, <3>2
  <2> QED BY <2>1, <2>2
<1>6. ASSUME AllDistinct(seqs, m + 1)
      PROVE  Distinct(u)
  <2>1. AllDistinct(seqs, m)
    <3>1. \A k \in 1 .. m : k \in 1 .. m + 1
      OBVIOUS
    <3> QED BY <1>6, <3>1 DEF AllDistinct
  <2>2. Distinct(s)
    BY <2>1 DEF Holds
  <2>3. m + 1 \in 1 .. m + 1 /\ \A k \in 1 .. m : k \in 1 .. m + 1 /\ k # m + 1
    OBVIOUS
  <2>4. Distinct(t)
    BY <1>6, <2>3 DEF AllDistinct, Distinct
  <2>5. ASSUME NEW i \in 1 .. Len(s), NEW j \in 1 .. Len(t), s[i] = t[j]
        PROVE  FALSE
    <3>1. PICK k \in 1 .. m : \E l \in 1 .. Len(seqs[k]) : seqs[k][l] = s[i]
      BY DEF Holds
    <3>2. PICK l \in 1 .. Len(seqs[k]) : seqs[k][l] = s[i]
      BY <3>1
    <3>3. k = m + 1
      BY <1>6, <2>3, <2>5, <3>2 DEF AllDistinct
    <3> QED BY <2>3, <3>3
  <2> SUFFICES ASSUME NEW i \in 1 .. Len(u), NEW j \in 1 .. Len(u), u[i] = u[j]
               PROVE  i = j
    BY DEF Distinct
  <2>6. \A k \in 1 .. Len(u) :
           \/ k \in 1 .. Len(s) /\ u[k] = s[k]
           \/ k - Len(s) \in 1 .. Len(t) /\ u[k] = t[k - Len(s)]
    <3> SUFFICES ASSUME NEW k \in 1 .. Len(u)
                 PROVE  \/ k \in 1 .. Len(s) /\ u[k] = s[k]
                        \/ k - Len(s) \in 1 .. Len(t) /\ u[k] = t[k - Len(s)]
      OBVIOUS
    <3>1. CASE k <= Len(s)
      BY <1>2, <1>3, <3>1
    <3>2. CASE k > Len(s)
      BY <1>2, <1>3, <3>2
    <3> QED BY <1>2, <1>3, <3>1, <3>2
  <2>7. CASE i \in 1 .. Len(s) /\ u[i] = s[i]
    <3>1. j \in 1 .. Len(s) /\ u[j] = s[j]
      BY <2>5, <2>6, <2>7
    <3> QED BY <2>2, <2>7, <3>1 DEF Distinct
  <2>8. CASE i - Len(s) \in 1 .. Len(t) /\ u[i] = t[i - Len(s)]
    <3>1. j - Len(s) \in 1 .. Len(t) /\ u[j] = t[j - Len(s)]
      BY <2>5, <2>6, <2>8
    <3>2. i - Len(s) = j - Len(s)
      BY <2>4, <2>8, <3>1 DEF Distinct
    <3> QED BY <1>2, <1>3, <3>2
  <2> QED BY <2>6, <2>7, <2>8
<1>7. Holds(u, seqs, m + 1, S)
  BY <1>2, <1>4, <1>5, <1>6 DEF Holds
<1> QED BY <1>7 DEF u

\* A flattened sequence holds the elements of its parts, and nothing else.
LEMMA FlattenHolds ==
  ASSUME NEW S, NEW seqs \in Seq(Seq(S))
  PROVE  Holds(FlattenSeq(seqs), seqs, Len(seqs), S)
<1> DEFINE n == Len(seqs)
           flat == CHOOSE f : Flattens(seqs, n, f)
<1>1. n \in Nat /\ \A i \in 1 .. n : seqs[i] \in Seq(S)
  BY LenProperties, ElementOfSeq
<1>2. CASE n = 0
  <2>1. seqs = <<>>
    BY <1>2, EmptySeq
  <2>2. FlattenSeq(seqs) = <<>>
    BY <1>2, <2>1 DEF FlattenSeq
  <2>3. <<>> \in Seq(S) /\ Len(<<>>) = 0
    BY EmptySeq
  <2> QED BY <1>2, <2>2, <2>3 DEF Holds, Distinct
<1>3. CASE n # 0
  <2>1. Flattens(seqs, n, flat)
    BY <1>1, FlattensExists
  <2>2. FlattenSeq(seqs) = flat[n]
    BY <1>3 DEF FlattenSeq, Flattens
  <2> HIDE DEF flat
  <2> DEFINE Bad == {k \in 1 .. n : ~Holds(flat[k], seqs, k, S)}
  <2>3. Bad = {}
    <3> SUFFICES ASSUME Bad # {} PROVE FALSE
      OBVIOUS
    <3>1. PICK b \in Bad : \A k \in Bad : ~(<<k, b>> \in OpToRel(<, Nat))
      <4>1. Bad \subseteq Nat
        BY <1>1
      <4> HIDE DEF Bad
      <4> QED BY <4>1, NatLessThanWellFounded, WFMin
    <3>2. b \in 1 .. n /\ b \in Nat /\ ~Holds(flat[b], seqs, b, S)
      BY <1>1
    <3>3. flat[b] = IF b = 1 THEN seqs[b] ELSE flat[b - 1] \o seqs[b]
      BY <2>1, <3>2 DEF Flattens
    <3>4. CASE b = 1
      <4>1. AllDistinct(seqs, 1) => Distinct(seqs[1])
        BY DEF AllDistinct, Distinct
      <4> QED BY <1>1, <3>2, <3>3, <3>4, <4>1 DEF Holds
    <3>5. CASE b # 1
      <4> DEFINE m == b - 1
      <4>1. m \in 1 .. n /\ m \in Nat /\ b = m + 1 /\ b - 1 = m
        BY <1>1, <3>2, <3>5
      <4>2. <<m, b>> \in OpToRel(<, Nat)
        BY <3>2, <4>1 DEF OpToRel
      <4>3. Holds(flat[m], seqs, m, S)
        BY <3>1, <4>1, <4>2
      <4> HIDE DEF m
      <4>4. flat[b] = flat[m] \o seqs[m + 1]
        BY <3>3, <3>5, <4>1
      <4>5. seqs[m + 1] \in Seq(S)
        BY <1>1, <3>2, <4>1
      <4>6. Holds(flat[m] \o seqs[m + 1], seqs, m + 1, S)
        BY <4>1, <4>3, <4>5, HoldsMore
      <4> QED BY <3>2, <4>1, <4>4, <4>6
    <3> QED BY <3>4, <3>5
  <2>4. n \in 1 .. n
    BY <1>1, <1>3
  <2> QED BY <2>2, <2>3, <2>4
<1> QED BY <1>2, <1>3

\* SetToSeq lists a finite set.
LEMMA SetToSeqLists ==
  ASSUME NEW S, IsFiniteSet(S)
  PROVE  /\ Cardinality(S) \in Nat
         /\ \A i \in 1 .. Cardinality(S) : SetToSeq(S)[i] \in S
         /\ \A c \in S : \E i \in 1 .. Cardinality(S) : SetToSeq(S)[i] = c
         /\ \A i, j \in 1 .. Cardinality(S) : SetToSeq(S)[i] = SetToSeq(S)[j] => i = j
<1> DEFINE n == Cardinality(S)
           f == SetToSeq(S)
<1>1. n \in Nat /\ ExistsBijection(1 .. n, S)
  BY FS_CardinalityType
<1>2. \E g \in [1 .. n -> S] : IsInjective(g)
  BY <1>1 DEF ExistsBijection, Bijection, Injection
<1>3. f \in [1 .. n -> S] /\ IsInjective(f)
  BY <1>2 DEF SetToSeq
<1> HIDE DEF f
<1>4. f \in Injection(1 .. n, S)
  BY <1>3 DEF Injection
<1>5. Cardinality(1 .. n) = n
  BY <1>1, FS_Interval
<1> HIDE DEF n
<1>6. f \in Surjection(1 .. n, S)
  BY <1>4, <1>5, FS_Injection DEF n
<1>7. \A c \in S : \E i \in 1 .. n : f[i] = c
  BY <1>6 DEF Surjection
<1>8. \A i, j \in 1 .. n : f[i] = f[j] => i = j
  BY <1>3 DEF IsInjective
<1> QED BY <1>1, <1>3, <1>7, <1>8 DEF f, n

-----------------------------------------------------------------------------
(* What travels: events in the mailbox, commands to the executor.           *)

ConnCommands == [connector : Connectors, type : ConnectorCommands]
Reboots      == [evse : Evses, type : {"Reboot"}]
Commands     == ConnCommands \cup Reboots

\* The effects of an event that commands nothing but lock and contactor.
Plain(o) ==
    /\ \A c \in Connectors :
          /\ o.conn[c].commands \in Seq(HardwareCommands)
          /\ \A j \in 1 .. Len(o.conn[c].commands) :
                o.conn[c].commands[j].type \in ConnectorCommands
    /\ o.reboots \in SUBSET Evses

\* CommandsOf says of every connector what its effects say, and tells the
\* EVSEs to reboot.
LEMMA CommandsOfLists ==
  ASSUME NEW o, Plain(o)
  PROVE  /\ CommandsOf(o) \in Seq(Commands)
         /\ \A i \in 1 .. Len(CommandsOf(o)) :
               \/ CommandsOf(o)[i] \in Reboots /\ o.reboots # {}
               \/ \E c \in Connectors : \E j \in 1 .. Len(o.conn[c].commands) :
                     CommandsOf(o)[i] =
                       [connector |-> c, type |-> o.conn[c].commands[j].type]
         /\ \A c \in Connectors : \A j \in 1 .. Len(o.conn[c].commands) :
               \E i \in 1 .. Len(CommandsOf(o)) :
                  CommandsOf(o)[i] =
                    [connector |-> c, type |-> o.conn[c].commands[j].type]
         /\ (\A c \in Connectors : Len(o.conn[c].commands) <= 1) =>
               \A i, j \in 1 .. Len(CommandsOf(o)) :
                  CommandsOf(o)[i] \in ConnCommands
                    /\ CommandsOf(o)[j] = CommandsOf(o)[i] => i = j
<1> DEFINE n  == Cardinality(Connectors)
           cs == SetToSeq(Connectors)
           part(c) == [j \in 1 .. Len(o.conn[c].commands) |->
                         [connector |-> c, type |-> o.conn[c].commands[j].type]]
           parts == [i \in 1 .. n |-> part(cs[i])]
           flat  == FlattenSeq(parts)
           r  == Cardinality(o.reboots)
           rs == SetToSeq(o.reboots)
           tail == [i \in 1 .. r |-> [evse |-> rs[i], type |-> "Reboot"]]
           q  == CommandsOf(o)
<1>1. /\ n \in Nat
      /\ \A i \in 1 .. n : cs[i] \in Connectors
      /\ \A c \in Connectors : \E i \in 1 .. n : cs[i] = c
      /\ \A i, j \in 1 .. n : cs[i] = cs[j] => i = j
  BY TopologyIsFinite, SetToSeqLists
<1>2. IsFiniteSet(o.reboots)
  BY TopologyIsFinite, FS_Subset DEF Plain
<1>3. r \in Nat /\ \A i \in 1 .. r : rs[i] \in o.reboots
  BY <1>2, SetToSeqLists
<1>4. q = flat \o tail
  BY DEF CommandsOf
<1> HIDE DEF n, cs, r, rs, q
<1>5. ASSUME NEW c \in Connectors
      PROVE  /\ Len(o.conn[c].commands) \in Nat
             /\ part(c) \in Seq(ConnCommands)
             /\ Len(part(c)) = Len(o.conn[c].commands)
             /\ \A j \in 1 .. Len(o.conn[c].commands) : part(c)[j] =
                   [connector |-> c, type |-> o.conn[c].commands[j].type]
  <2>1. Len(o.conn[c].commands) \in Nat
    BY LenProperties DEF Plain
  <2>2. \A j \in 1 .. Len(o.conn[c].commands) :
           [connector |-> c, type |-> o.conn[c].commands[j].type]
             \in ConnCommands
    BY DEF Plain, ConnCommands
  <2> QED BY <2>1, <2>2
<1> HIDE DEF part
<1>6. parts \in Seq(Seq(ConnCommands)) /\ Len(parts) = n
      /\ \A i \in 1 .. n : parts[i] = part(cs[i])
  BY <1>1, <1>5
<1> HIDE DEF parts
<1>7. Holds(flat, parts, n, ConnCommands)
  BY <1>6, FlattenHolds
<1> HIDE DEF flat
<1>8. tail \in Seq(Reboots) /\ Len(tail) = r
  <2>1. \A i \in 1 .. r : [evse |-> rs[i], type |-> "Reboot"] \in Reboots
    BY <1>3 DEF Plain, Reboots
  <2> QED BY <1>3, <2>1
<1> HIDE DEF tail
<1>9. /\ flat \in Seq(Commands) /\ tail \in Seq(Commands)
      /\ Len(flat) \in Nat
  BY <1>7, <1>8, LenProperties DEF Holds, Commands
<1>10. /\ q \in Seq(Commands) /\ Len(q) = Len(flat) + r
       /\ \A i \in 1 .. Len(flat) + r :
             q[i] = IF i <= Len(flat) THEN flat[i] ELSE tail[i - Len(flat)]
  BY <1>4, <1>8, <1>9, ConcatProperties
<1>11. ASSUME NEW i \in 1 .. Len(q)
       PROVE  \/ q[i] \in Reboots /\ o.reboots # {}
              \/ \E c \in Connectors : \E j \in 1 .. Len(o.conn[c].commands) :
                    q[i] = [connector |-> c,
                            type |-> o.conn[c].commands[j].type]
  <2>1. CASE i <= Len(flat)
    <3>1. i \in 1 .. Len(flat) /\ q[i] = flat[i]
      BY <1>3, <1>9, <1>10, <2>1
    <3>2. PICK k \in 1 .. n : \E j \in 1 .. Len(parts[k]) :
             parts[k][j] = flat[i]
      BY <1>7, <3>1 DEF Holds
    <3>3. parts[k] = part(cs[k]) /\ cs[k] \in Connectors
      BY <1>1, <1>6
    <3>4. PICK j \in 1 .. Len(part(cs[k])) : part(cs[k])[j] = flat[i]
      BY <3>2, <3>3
    <3> QED BY <1>5, <3>1, <3>3, <3>4
  <2>2. CASE i > Len(flat)
    <3>1. i - Len(flat) \in 1 .. r /\ q[i] = tail[i - Len(flat)]
      BY <1>3, <1>9, <1>10, <2>2
    <3>2. q[i] \in Reboots
      BY <1>8, <3>1, ElementOfSeq
    <3>3. rs[i - Len(flat)] \in o.reboots
      BY <1>3, <3>1
    <3> QED BY <3>2, <3>3
  <2> QED BY <1>3, <1>9, <1>10, <2>1, <2>2
<1>12. ASSUME NEW c \in Connectors, NEW j \in 1 .. Len(o.conn[c].commands)
       PROVE  \E i \in 1 .. Len(q) : q[i] =
                 [connector |-> c, type |-> o.conn[c].commands[j].type]
  <2>1. PICK k \in 1 .. n : cs[k] = c
    BY <1>1
  <2>2. parts[k] = part(c) /\ j \in 1 .. Len(part(c))
    BY <1>5, <1>6, <2>1
  <2>3. PICK i \in 1 .. Len(flat) : flat[i] = parts[k][j]
    BY <1>7, <2>2 DEF Holds
  <2>4. i \in 1 .. Len(q) /\ q[i] = flat[i]
    BY <1>3, <1>9, <1>10
  <2> QED BY <1>5, <2>2, <2>3, <2>4
<1>13. ASSUME \A c \in Connectors : Len(o.conn[c].commands) <= 1,
              NEW i \in 1 .. Len(q), NEW j \in 1 .. Len(q),
              q[i] \in ConnCommands, q[j] = q[i]
       PROVE  i = j
  <2>1. AllDistinct(parts, n)
    <3> SUFFICES ASSUME NEW k \in 1 .. n, NEW l \in 1 .. n,
                        NEW a \in 1 .. Len(parts[k]), NEW b \in 1 .. Len(parts[l]),
                        parts[k][a] = parts[l][b]
                 PROVE  k = l /\ a = b
      BY DEF AllDistinct
    <3>1. /\ parts[k] = part(cs[k]) /\ parts[l] = part(cs[l])
          /\ cs[k] \in Connectors /\ cs[l] \in Connectors
      BY <1>1, <1>6
    <3>2. /\ Len(parts[k]) = Len(o.conn[cs[k]].commands)
          /\ Len(parts[l]) = Len(o.conn[cs[l]].commands)
          /\ Len(parts[k]) \in Nat /\ Len(parts[l]) \in Nat
      BY <1>5, <3>1
    <3>3. a = 1 /\ b = 1
      <4>1. Len(parts[k]) <= 1 /\ Len(parts[l]) <= 1
        BY <1>13, <3>1, <3>2
      <4> QED BY <3>2, <4>1
    <3>4. /\ part(cs[k])[a].connector = cs[k]
          /\ part(cs[l])[b].connector = cs[l]
      <4>1. a \in 1 .. Len(o.conn[cs[k]].commands)
        BY <3>2
      <4>2. b \in 1 .. Len(o.conn[cs[l]].commands)
        BY <3>2
      <4>3. part(cs[k])[a] =
              [connector |-> cs[k], type |-> o.conn[cs[k]].commands[a].type]
        BY <1>5, <3>1, <4>1
      <4>4. part(cs[l])[b] =
              [connector |-> cs[l], type |-> o.conn[cs[l]].commands[b].type]
        BY <1>5, <3>1, <4>2
      <4> QED BY <4>3, <4>4
    <3>5. cs[k] = cs[l]
      BY <3>1, <3>4
    <3> QED BY <1>1, <3>3, <3>5
  <2>2. Distinct(flat)
    BY <1>7, <2>1 DEF Holds
  <2>3. \A k \in 1 .. Len(q) : q[k] \in ConnCommands =>
           k \in 1 .. Len(flat) /\ q[k] = flat[k]
    <3> SUFFICES ASSUME NEW k \in 1 .. Len(q), q[k] \in ConnCommands
                 PROVE  k \in 1 .. Len(flat) /\ q[k] = flat[k]
      OBVIOUS
    <3>1. CASE k <= Len(flat)
      BY <1>3, <1>9, <1>10, <3>1
    <3>2. CASE k > Len(flat)
      <4>1. k - Len(flat) \in 1 .. r /\ q[k] = tail[k - Len(flat)]
        BY <1>3, <1>9, <1>10, <3>2
      <4>2. q[k] \in Reboots
        BY <1>8, <4>1, ElementOfSeq
      <4> QED BY <4>2 DEF Reboots, ConnCommands, ConnectorCommands
    <3> QED BY <1>3, <1>9, <1>10, <3>1, <3>2
  <2> QED BY <1>13, <2>2, <2>3 DEF Distinct
<1> QED BY <1>10, <1>11, <1>12, <1>13 DEF q

\* What each task sends.
DriverReports ==
    [type : {"CableConnected", "CableDisconnected", "FaultDetected",
             "FaultCleared"}]
    \cup [type : {"ChargingStopped"}, reason : {"Local"}]

Confirmations ==
    [type : {"LockConfirmed", "UnlockConfirmed", "ContactorClosed",
             "ContactorOpened", "LockFailed", "FaultDetected"}]

Orders ==
    [type : {"RemoteUnlockRequested", "ReservationCancelled"}]
    \cup [type : {"ChargingStopped"}, reason : {"Remote"}]
    \cup [type : {"RemoteStartRequested"}, token : IdTokens,
          remoteStartId : {None}]
    \cup [type : {"RemoteStartPending"}, pending : PendingStarts]
    \cup [type : {"Reserved"}, reservation : Reservations]

Settings == [type : {"SetAvailable", "SetUnavailable"}]

ToConnector(cs, es) == [type : {"Connector"}, connector : cs, event : es]

StationOrders ==
    Settings
    \cup [type : {"EvseStatusSet"}, evse : Evses,
          status : {"Available", "Unavailable"}]
    \cup [type : {"ResetRequested"}, target : Option(Evses),
          kind : {"Immediate", "OnIdle"}]

Mails ==
    [from : {"driver"}, event : ToConnector(Driven, DriverReports)]
    \cup [from : {"executor"},
          event : ToConnector(Connectors, Confirmations)
                  \cup [type : {"EvseFaultDetected"}, evse : Evses]]
    \cup [from : {"csms"},
          event : ToConnector(Connectors, Orders \cup Settings)
                  \cup StationOrders]
    \cup [from : {"holds"},
          event : ToConnector(Connectors, [type : {"RemoteStartPendingCleared"}])]
    \cup [from : {"expiry"},
          event : ToConnector(Connectors, [type : {"ReservationExpired"}])]

\* The connector events among them, with the reset a request turns into.
Seen ==
    DriverReports \cup Confirmations \cup Orders \cup Settings
    \cup [type : {"RemoteStartPendingCleared", "ReservationExpired",
                  "ResetRequested"}]

\* Whether connector c sees anything of event e, and what.
Sees(e, c) ==
    \/ e.type = "Connector" /\ e.connector = c
    \/ /\ e.type = "ResetRequested" /\ e.kind = "Immediate"
       /\ c \in TargetConnectors(e.target)
    \/ e.type = "EvseFaultDetected" /\ c \in TargetConnectors(e.evse)

SeenOf(e) ==
    IF e.type = "Connector" THEN e.event
    ELSE IF e.type = "ResetRequested" THEN Bare("ResetRequested")
    ELSE Bare("FaultDetected")

\* Every event a connector can see is one it knows.
LEMMA SeenIsWellFormed ==
  ASSUME NEW e \in Seen
  PROVE  WellFormed(e)
  BY DEF Seen, DriverReports, Confirmations, Orders, Settings, WellFormed,
         StopReasons, Option

\* Every mail carries an event of the charge point's, from a task.
LEMMA MailIsSendable ==
  ASSUME NEW m \in Mails
  PROVE  /\ Sendable(m.event)
         /\ m.from \in Tasks
<1>1. m.from \in Tasks
  BY DEF Mails, Tasks
<1>2. CASE m.event.type = "Connector"
  <2>1. m.event.connector \in Connectors /\ m.event.event \in Seen
    BY <1>2, StationBounds DEF Mails, ToConnector, StationOrders, Settings, Seen
  <2> QED BY <1>1, <1>2, <2>1, SeenIsWellFormed DEF Sendable
<1>3. CASE m.event.type # "Connector"
  <2>1. m.event \in StationOrders \cup [type : {"EvseFaultDetected"}, evse : Evses]
    BY <1>3 DEF Mails, ToConnector
  <2> QED BY <1>1, <2>1 DEF Sendable, WellFormedStation, StationOrders, Settings
<1> QED BY <1>2, <1>3

-----------------------------------------------------------------------------
(* What an event does to one connector, as far as power is concerned.       *)

\* The states in which the contactor may be closed, or is about to be.
Owning == {"Starting"} \cup Powered

\* Those of a connector no driver turns up at.
Deserted == {"Available", "Reserved", "Unavailable", "Faulted", "FaultedSafe"}

SettingTypes == {"SetAvailable", "SetUnavailable"}

\* The states in which the plug is held, and those that wait for it to be free.
Latched == {"Locked", "Authorizing", "StoppingLocked"} \cup Owning
Freeing == {"Finishing", "Unlocking"}

FaultTypes == {"FaultDetected", "LockFailed"}

\* The same, of the latch: a plug is held only once its lock is confirmed; it is
\* released on the way to being free, and while it is only that or a fault comes
\* of it; a fault is met with one opening, a stop with another, and only its
\* confirmation ends either.
Course(st, t, next, x) ==
    t \notin SettingTypes =>
        /\ x = "CloseContactor" \/ next \in Latched =>
              st \in Latched \/ (st = "Connected" /\ t = "LockConfirmed")
        /\ x = "Unlock" => next \in Freeing /\ st \notin Freeing \cup {"Faulted"}
        /\ next \in Freeing => x = "Unlock" \/ next = st
        /\ st \in Freeing /\ next # st => t \in FaultTypes \cup {"UnlockConfirmed"}
        /\ t \in FaultTypes => next = "Faulted" /\ x = "OpenContactor"
        /\ next = "Faulted" => st = "Faulted" \/ t \in FaultTypes
        /\ next = "FaultedSafe" => st \in {"Faulted", "FaultedSafe"}
        /\ st = "Faulted" /\ next # st => t = "ContactorOpened"
        /\ x = "OpenContactor" =>
              t \in FaultTypes \/ (st \notin Settling /\ next \in Settling)
        /\ next \in Settling => next = st \/ x = "OpenContactor"
        /\ st \in Settling /\ next # st => t \in FaultTypes \cup {"ContactorOpened"}

\* From state st an event of type t leads to next and commands x.  Outside
\* changes of availability, power that is no longer owned is cut; the contactor
\* is closed only into a state that owns it and the plug released only from one
\* that does not; a fault opens, and only its confirmation ends it.
Arc(st, t, next, x) ==
    /\ x \in ConnectorCommands \cup {None}
    /\ t \notin SettingTypes /\ st \in Owning /\ next \notin Owning =>
          x = "OpenContactor"
    /\ x = "CloseContactor" => next \in Owning
    /\ x = "Unlock" => st \notin Owning
    /\ t = "FaultDetected" => next = "Faulted" /\ x = "OpenContactor"
    /\ t \notin SettingTypes /\ st = "Faulted" /\ next # "Faulted" =>
          t = "ContactorOpened"
    /\ st \in Deserted /\ t \notin {"CableConnected", "FaultCleared"} =>
          next \in Deserted /\ x \in {None, "OpenContactor"}
    /\ Course(st, t, next, x)

\* What a connector does not see is an arc too.
LEMMA NothingIsAnArc ==
  ASSUME NEW st
  PROVE  Arc(st, "None", st, None)
<1>1. None \notin ConnectorCommands
  BY SlotAssumption
<1>2. Course(st, "None", st, None)
  BY <1>1 DEF Course, ConnectorCommands, FaultTypes
<1> QED BY <1>1, <1>2 DEF Arc, ConnectorCommands, SettingTypes

\* The connector's transition function makes arcs only.
LEMMA ApplyArc ==
  ASSUME NEW st \in ConnectorStates, NEW e, NEW p
  PROVE  /\ Arc(st, e.type, ConnectorApply(st, e, p).next,
                ConnectorApply(st, e, p).command)
         /\ ConnectorApply(st, e, p).next \in ConnectorStates
<1> DEFINE m == ConnectorApply(st, e, p)
           t == e.type
<1>0. /\ m.next \in ConnectorStates
      /\ m.command \in ConnectorCommands \cup {None}
  BY ConnectorApplyType DEF Option
<1>1. t \notin SettingTypes /\ st \in Owning /\ m.next \notin Owning =>
         m.command = "OpenContactor"
  BY DEF ConnectorApply, SupervisoryStep, SessionStep, Go, Owning, SettingTypes,
         SupervisoryEvents, Powered, Suspended, Settling
<1>2. m.command = "CloseContactor" => m.next \in Owning
  BY SlotAssumption
     DEF ConnectorApply, SupervisoryStep, SessionStep, Go, Owning,
         ConnectorCommands
<1>3. m.command = "Unlock" => st \notin Owning
  BY SlotAssumption
     DEF ConnectorApply, SupervisoryStep, SessionStep, Go, Owning, Powered,
         Suspended, ConnectorCommands
<1>4. t = "FaultDetected" => m.next = "Faulted" /\ m.command = "OpenContactor"
  BY DEF ConnectorApply, SupervisoryStep, SupervisoryEvents, Go
<1>5. t \notin SettingTypes /\ st = "Faulted" /\ m.next # "Faulted" =>
         t = "ContactorOpened"
  BY DEF ConnectorApply, SupervisoryStep, SessionStep, Go, SettingTypes,
         SupervisoryEvents, Powered, Suspended, Settling
<1>6. st \in Deserted /\ t \notin {"CableConnected", "FaultCleared"} =>
         m.next \in Deserted
  BY DEF ConnectorApply, SupervisoryStep, SessionStep, Go, Deserted,
         SupervisoryEvents, Powered, Suspended, Settling
<1>7. st \in Deserted /\ t \notin {"CableConnected", "FaultCleared"} =>
         m.command \in {None, "OpenContactor"}
  BY DEF ConnectorApply, SupervisoryStep, SessionStep, Go, Deserted,
         SupervisoryEvents, Powered, Suspended, Settling
<1>9. ASSUME t \notin SettingTypes
      PROVE  Course(st, t, m.next, m.command)
  <2>1. m.command = "CloseContactor" \/ m.next \in Latched =>
           st \in Latched \/ (st = "Connected" /\ t = "LockConfirmed")
    BY <1>9, SlotAssumption
       DEF ConnectorApply, SupervisoryStep, SessionStep, SupervisoryEvents, Go,
           Latched, Owning, Powered, Suspended, ConnectorCommands
  <2>2. m.command = "Unlock" =>
           m.next \in Freeing /\ st \notin Freeing \cup {"Faulted"}
    BY <1>9, SlotAssumption
       DEF ConnectorApply, SupervisoryStep, SessionStep, SupervisoryEvents, Go,
           Freeing, Powered, Suspended, ConnectorCommands
  <2>3. m.next \in Freeing => m.command = "Unlock" \/ m.next = st
    BY <1>9, SlotAssumption
       DEF ConnectorApply, SupervisoryStep, SessionStep, SupervisoryEvents, Go,
           Freeing, Powered, Suspended, ConnectorCommands
  <2>4. st \in Freeing /\ m.next # st => t \in FaultTypes \cup {"UnlockConfirmed"}
    BY <1>9
       DEF ConnectorApply, SupervisoryStep, SessionStep, SupervisoryEvents, Go,
           Freeing, Powered, Suspended, FaultTypes, SettingTypes
  <2>5. t \in FaultTypes => m.next = "Faulted" /\ m.command = "OpenContactor"
    BY DEF ConnectorApply, SupervisoryStep, SupervisoryEvents, Go, FaultTypes
  <2>6. m.next = "Faulted" => st = "Faulted" \/ t \in FaultTypes
    BY DEF ConnectorApply, SupervisoryStep, SessionStep, SupervisoryEvents, Go,
           FaultTypes
  <2>7. m.next = "FaultedSafe" => st \in {"Faulted", "FaultedSafe"}
    BY DEF ConnectorApply, SupervisoryStep, SessionStep, SupervisoryEvents, Go
  <2>8. st = "Faulted" /\ m.next # st => t = "ContactorOpened"
    BY <1>5, <1>9
  <2>9. m.command = "OpenContactor" =>
           t \in FaultTypes \/ (st \notin Settling /\ m.next \in Settling)
    BY SlotAssumption
       DEF ConnectorApply, SupervisoryStep, SessionStep, SupervisoryEvents, Go,
           Settling, Powered, Suspended, FaultTypes, ConnectorCommands
  <2>10. m.next \in Settling => m.next = st \/ m.command = "OpenContactor"
    BY DEF ConnectorApply, SupervisoryStep, SessionStep, SupervisoryEvents, Go,
           Settling, Powered, Suspended
  <2>11. st \in Settling /\ m.next # st =>
            t \in FaultTypes \cup {"ContactorOpened"}
    BY <1>9
       DEF ConnectorApply, SupervisoryStep, SessionStep, SupervisoryEvents, Go,
           Settling, Powered, Suspended, FaultTypes, SettingTypes
  <2> HIDE DEF m, t
  <2> QED BY <2>1, <2>2, <2>3, <2>4, <2>5, <2>6, <2>7, <2>8, <2>9, <2>10, <2>11
             DEF Course
<1> HIDE DEF m
<1>10. Course(st, t, m.next, m.command)
  BY <1>9 DEF Course
<1>8. Arc(st, t, m.next, m.command)
  BY <1>0, <1>1, <1>2, <1>3, <1>4, <1>5, <1>6, <1>7, <1>10 DEF Arc
<1> QED BY <1>0, <1>8 DEF m

\* What a transition commands: at most one thing, never a current limit.
LEMMA TransitCommands ==
  ASSUME NEW s, NEW n, NEW e, e.type # "CurrentLimitComputed", NEW p
  PROVE  LET m == ConnectorApply(s.state, e, p)
             o == Transit(s, n, e, p)
         IN /\ o.slot.state = m.next
            /\ o.effects.commands = If(m.command # None, Command(m.command))
            /\ o.slot.tx = TransactionStep(s, n, e, m.next, p).tx
<1> DEFINE m == ConnectorApply(s.state, e, p)
           o == Transit(s, n, e, p)
           x == If(m.command # None, Command(m.command))
<1>1. ~LimitMoves(s, e)
  BY DEF LimitMoves
<1>2. /\ o.slot.state = m.next
      /\ o.effects.commands = x \o If(LimitMoves(s, e), SetCurrentLimit(e.limit))
      /\ o.slot.tx = TransactionStep(s, n, e, m.next, p).tx
  BY DEF Transit, MoveTo, Settle, Outcome, NextSlot
<1>3. x \o <<>> = x
  <2>1. x = <<>> \/ x = <<Command(m.command)>>
    BY DEF If
  <2> HIDE DEF x
  <2> QED BY <2>1
<1>4. If(LimitMoves(s, e), SetCurrentLimit(e.limit)) = <<>>
  BY <1>1 DEF If
<1> QED BY <1>2, <1>3, <1>4

SeenTypes ==
    {"CableConnected", "CableDisconnected", "FaultDetected", "FaultCleared",
     "ChargingStopped", "LockConfirmed", "UnlockConfirmed", "ContactorClosed",
     "ContactorOpened", "LockFailed", "RemoteUnlockRequested",
     "ReservationCancelled", "RemoteStartRequested", "RemoteStartPending",
     "Reserved", "RemoteStartPendingCleared", "ReservationExpired",
     "ResetRequested"} \cup SettingTypes

\* Every event a connector can see is of one of the types below.
LEMMA SeenHasType ==
  ASSUME NEW e \in Seen
  PROVE  e.type \in SeenTypes
  BY DEF Seen, DriverReports, Confirmations, Orders, Settings, SeenTypes,
         SettingTypes

\* The events of this module move no figure a ceiling is weighed against.
LEMMA NothingWeighed ==
  ASSUME NEW s, NEW e, e.type \in SeenTypes
  PROVE  /\ ~MovesAFigure(s, e)
         /\ e.type \notin {"MeterValueSampled", "CurrentLimitComputed",
                           "AuthorizationRevoked", "TransactionLimitSet",
                           "TransactionElapsed"}
  BY DEF SeenTypes, SettingTypes, MovesAFigure, Records

\* A whole event: the transition, or the latching of a cable with the start that
\* was held for it.
LEMMA EventArc ==
  ASSUME NEW s, s.state \in ConnectorStates, NEW n, NEW e,
         e.type \in SeenTypes, NEW p
  PROVE  LET r == ApplyConnectorEvent(s, n, e, p) IN
         /\ r.slot.state \in ConnectorStates
         /\ \E x : /\ Arc(s.state, e.type, r.slot.state, x)
                  /\ r.effects.commands = If(x # None, Command(x))
<1> DEFINE m  == ConnectorApply(s.state, e, p)
           o  == Transit(s, n, e, p)
           pe == Dispatched(s, o.slot.state)
           e2 == [type |-> "RemoteStartRequested", token |-> pe.token,
                  remoteStartId |-> pe.remoteStartId]
           m2 == ConnectorApply(o.slot.state, e2, p)
           o2 == Transit(o.slot, o.nextId, e2, p)
           r  == ApplyConnectorEvent(s, n, e, p)
           ok(q) == /\ q.slot.state \in ConnectorStates
                    /\ \E x : /\ Arc(s.state, e.type, q.slot.state, x)
                             /\ q.effects.commands = If(x # None, Command(x))
<1>1. Arc(s.state, e.type, m.next, m.command) /\ m.next \in ConnectorStates
  BY ApplyArc
<1>2. /\ o.slot.state = m.next
      /\ o.effects.commands = If(m.command # None, Command(m.command))
  BY TransitCommands, NothingWeighed
<1>3. ok(o)
  BY <1>1, <1>2
<1>4. CASE pe = None
  <2>1. r = o
    BY <1>4, NothingWeighed DEF ApplyConnectorEvent, FollowUp
  <2> HIDE DEF r, o
  <2>2. ok(r)
    BY <1>3, <2>1
  <2> QED BY <2>2 DEF r
<1>5. CASE pe # None
  <2>1. r = After(o, o2)
    BY <1>5, NothingWeighed DEF ApplyConnectorEvent, FollowUp, Followed
  <2>2. s.state = "Connected" /\ m.next = "Locked"
    BY <1>2, <1>5 DEF Dispatched, Latches
  <2>3. m.command = None
    BY <2>2, SlotAssumption
       DEF ConnectorApply, SupervisoryStep, SessionStep, Go
  <2>4. e.type = "LockConfirmed"
    BY <2>2 DEF ConnectorApply, SupervisoryStep, SessionStep, Go
  <2>5. /\ o2.slot.state = m2.next
        /\ o2.effects.commands = If(m2.command # None, Command(m2.command))
    BY TransitCommands
  <2>6. \/ m2.next = "Authorizing" /\ m2.command = None
        \/ m2.next = "Starting" /\ m2.command = "CloseContactor"
    BY <1>2, <2>2 DEF ConnectorApply, SupervisoryEvents, SessionStep, Go
  <2>7. o.effects.commands = <<>>
    BY <1>2, <2>3 DEF If
  <2>8. /\ r.slot = o2.slot
        /\ r.effects.commands = o.effects.commands \o o2.effects.commands
    <3> HIDE DEF r, o, o2
    <3> QED BY <2>1 DEF After, Outcome, Then
  <2> HIDE DEF r, o, o2, m, m2
  <2>9. <<>> \o If(m2.command # None, Command(m2.command))
          = If(m2.command # None, Command(m2.command))
    <3> DEFINE x == If(m2.command # None, Command(m2.command))
    <3>1. x = <<>> \/ x = <<Command(m2.command)>>
      BY DEF If
    <3> HIDE DEF x
    <3>2. <<>> \o x = x
      BY <3>1
    <3> QED BY <3>2 DEF x
  <2>10. r.effects.commands = If(m2.command # None, Command(m2.command))
    BY <2>5, <2>7, <2>8, <2>9
  <2>11. Arc(s.state, e.type, m2.next, m2.command)
    BY <2>2, <2>4, <2>6, SlotAssumption
       DEF Arc, Course, SettingTypes, Owning, Powered, Suspended, Deserted,
           ConnectorCommands, Latched, Freeing, FaultTypes, Settling
  <2>12. m2.next \in ConnectorStates
    BY <2>6 DEF ConnectorStates
  <2>13. ok(r)
    BY <2>5, <2>8, <2>10, <2>11, <2>12
  <2> QED BY <2>13 DEF r
<1> QED BY <1>4, <1>5

-----------------------------------------------------------------------------
(* What an event of the mailbox does to each connector. *)

\* A connector that sees nothing of an event stays as it is; one that does is
\* moved by apply_connector_event.
Sent(st, e, c, slot, effects) ==
    /\ ~Sees(e, c) => slot = st.conn[c] /\ effects = NoEffects
    /\ Sees(e, c) =>
          LET q == ApplyConnectorEvent(st.conn[c], st.nextId, SeenOf(e),
                                       st.policy)
          IN slot = q.slot /\ effects = q.effects

\* An event applied to a scope is sent to each connector of the scope.
LEMMA CascadeSends ==
  ASSUME NEW st, NEW s2 \in ChargePoints, s2.conn = st.conn,
         s2.nextId = st.nextId, s2.policy = st.policy, NEW scope, NEW e,
         NEW c \in Connectors, Sees(e, c) <=> c \in scope
  PROVE  Sent(st, e, c, Cascade(s2, scope, SeenOf(e)).cp.conn[c],
              Cascade(s2, scope, SeenOf(e)).out.conn[c])
<1> DEFINE o(d) == ApplyConnectorEvent(s2.conn[d], s2.nextId, SeenOf(e), s2.policy)
           r == Cascade(s2, scope, SeenOf(e))
<1>1. /\ r.cp.conn[c] = IF c \in scope THEN o(c).slot ELSE s2.conn[c]
      /\ r.out.conn[c] = IF c \in scope THEN o(c).effects ELSE NoEffects
  BY DEF Cascade, WriteAll, Result, ChargePoints
<1>2. o(c) = ApplyConnectorEvent(st.conn[c], st.nextId, SeenOf(e), st.policy)
  OBVIOUS
<1> HIDE DEF o, r
<1>3. Sent(st, e, c, r.cp.conn[c], r.out.conn[c])
  BY <1>1, <1>2 DEF Sent
<1> QED BY <1>3 DEF r

\* An event addressed to one connector.
LEMMA OnConnectorSends ==
  ASSUME NEW st \in ChargePoints, NEW e, e.type = "Connector",
         e.connector \in Connectors, NEW c \in Connectors
  PROVE  Sent(st, e, c, OnConnector(st, e.connector, e.event).cp.conn[c],
              OnConnector(st, e.connector, e.event).out.conn[c])
<1> DEFINE k == e.connector
           o == ApplyConnectorEvent(st.conn[k], st.nextId, e.event, st.policy)
           r == OnConnector(st, k, e.event)
<1>1. /\ r.cp.conn = [st.conn EXCEPT ![k] = o.slot]
      /\ r.out.conn = [Quiet EXCEPT ![k] = o.effects]
  BY DEF OnConnector, WriteBack, Result, ChargePoints
<1>2. st.conn \in [Connectors -> Slots]
  BY DEF ChargePoints
<1>3. /\ r.cp.conn[c] = IF c = k THEN o.slot ELSE st.conn[c]
      /\ r.out.conn[c] = IF c = k THEN o.effects ELSE NoEffects
  BY <1>1, <1>2 DEF Quiet
<1>4. /\ Sees(e, c) <=> c = k
      /\ SeenOf(e) = e.event
  BY DEF Sees, SeenOf
<1>5. c = k => o = ApplyConnectorEvent(st.conn[c], st.nextId, e.event, st.policy)
  OBVIOUS
<1> HIDE DEF o, r
<1>6. Sent(st, e, c, r.cp.conn[c], r.out.conn[c])
  BY <1>3, <1>4, <1>5 DEF Sent
<1> QED BY <1>6 DEF r

\* A state whose slots were not touched.
LEMMA QuietSends ==
  ASSUME NEW st, NEW s2, s2.conn = st.conn, NEW c \in Connectors, NEW e,
         ~Sees(e, c)
  PROVE  Sent(st, e, c, Result(s2, Quiet).cp.conn[c],
              Result(s2, Quiet).out.conn[c])
  BY DEF Sent, Result, Quiet

\* The tail of apply touches no connector, and reboots only what was asked for.
LEMMA CheckPendingResetTells ==
  ASSUME NEW r \in Results
  PROVE  LET q == CheckPendingReset(r) IN
         /\ q.cp.conn = r.cp.conn /\ q.out.conn = r.out.conn
         /\ q.cp.pendingReset # None => r.cp.pendingReset # None
         /\ q.out.reboots # {} =>
               r.cp.pendingReset # None \/ r.out.reboots # {}
<1> DEFINE reset == r.cp.pendingReset
           q == CheckPendingReset(r)
<1>0. r.cp \in ChargePoints /\ r.out \in Outs
  BY DEF Results
<1>1. CASE reset = None \/ ~PendingResetReady(r.cp, reset)
  BY <1>1 DEF CheckPendingReset
<1>2. CASE ~(reset = None \/ ~PendingResetReady(r.cp, reset))
  <2> DEFINE c2 == [r.cp EXCEPT !.pendingReset = None]
             o2 == [r.out EXCEPT !.reboots = TargetEvses(reset.target)]
  <2>1. q = [cp |-> c2, out |-> o2]
    BY <1>0, <1>2 DEF CheckPendingReset, Results
  <2>2. c2.conn = r.cp.conn /\ o2.conn = r.out.conn
    BY <1>0 DEF ChargePoints, Outs
  <2> HIDE DEF c2, o2, q
  <2>3. q.cp.conn = r.cp.conn /\ q.out.conn = r.out.conn
    BY <2>1, <2>2
  <2>4. r.cp.pendingReset # None
    BY <1>2
  <2> QED BY <2>3, <2>4 DEF q
<1> QED BY <1>1, <1>2

\* apply on an event of the mailbox.
LEMMA ApplySends ==
  ASSUME NEW st, NEW lst, Settled(st, lst), NEW m \in Mails
  PROVE  LET r == Apply(st, m.event) IN
         /\ \A c \in Connectors :
               Sent(st, m.event, c, r.cp.conn[c], r.out.conn[c])
         /\ r.cp.pendingReset # None \/ r.out.reboots # {} =>
               st.pendingReset # None \/ m.event.type = "ResetRequested"
<1> DEFINE e == m.event
           r == Dispatch(st, e)
           ok(x) == /\ \A c \in Connectors :
                          Sent(st, e, c, x.cp.conn[c], x.out.conn[c])
                    /\ x.cp.pendingReset # None \/ x.out.reboots # {} =>
                          st.pendingReset # None \/ e.type = "ResetRequested"
<1>0. st \in ChargePoints
  BY DEF Settled
<1>1. SUFFICES ok(r)
  <2>1. r \in Results
    BY DispatchSound, MailIsSendable DEF Sound
  <2> HIDE DEF r, e
  <2>2. ok(r) => ok(CheckPendingReset(r))
    BY <2>1, CheckPendingResetTells
  <2> QED BY <2>2 DEF Apply, r, e
<1>2. CASE e.type = "Connector"
  <2>1. r = OnConnector(st, e.connector, e.event)
    BY <1>2 DEF Dispatch
  <2>2. e.connector \in Connectors
    BY <1>2, StationBounds DEF Mails, ToConnector, StationOrders, Settings
  <2> DEFINE o == ApplyConnectorEvent(st.conn[e.connector], st.nextId, e.event,
                                     st.policy)
  <2>3. r = Result([st EXCEPT !.conn[e.connector] = o.slot,
                              !.nextId = o.nextId],
                   [Quiet EXCEPT ![e.connector] = o.effects])
    BY <2>1 DEF OnConnector, WriteBack
  <2> HIDE DEF r, e, o
  <2>4. r.cp.pendingReset = st.pendingReset /\ r.out.reboots = {}
    BY <1>0, <2>3 DEF Result, ChargePoints
  <2> QED BY <1>0, <1>2, <2>1, <2>2, <2>4, OnConnectorSends
<1>3. CASE e.type = "ResetRequested"
  <2> DEFINE pr == [target |-> e.target, kind |-> e.kind]
             s2 == [st EXCEPT !.pendingReset = pr]
             sc == TargetConnectors(e.target)
  <2>1. r = IF e.kind = "Immediate" THEN Cascade(s2, sc, SeenOf(e))
            ELSE Result(s2, Quiet)
    BY <1>3 DEF Dispatch, ApplyReset, SeenOf, Bare
  <2>2. pr \in Option(PendingResets)
    BY <1>3 DEF Mails, ToConnector, StationOrders, Settings, Option,
                PendingResets
  <2>3. e.kind = "Immediate" => \A c \in Connectors : Sees(e, c) <=> c \in sc
    BY <1>3 DEF Sees
  <2>4. e.kind # "Immediate" => \A c \in Connectors : ~Sees(e, c)
    BY <1>3 DEF Sees
  <2> HIDE DEF r, e, pr, sc
  <2>5. /\ s2 \in ChargePoints /\ s2.conn = st.conn
        /\ s2.nextId = st.nextId /\ s2.policy = st.policy
    BY <1>0, <2>2 DEF ChargePoints
  <2> HIDE DEF s2
  <2>6. CASE e.kind = "Immediate"
    BY <1>3, <2>1, <2>3, <2>5, <2>6, CascadeSends
  <2>7. CASE e.kind # "Immediate"
    BY <1>3, <2>1, <2>4, <2>5, <2>7, QuietSends
  <2> QED BY <2>6, <2>7
<1>4. CASE e.type = "EvseFaultDetected"
  <2> DEFINE sc == TargetConnectors(e.evse)
             ev == [v \in Evses |->
                      IF v \notin TargetEvses(e.evse) THEN st.evse[v]
                      ELSE "Faulted"]
             s2 == [st EXCEPT !.evse = ev]
  <2>1. r = Cascade(s2, sc, SeenOf(e))
    BY <1>4 DEF Dispatch, CascadeFault, SeenOf, Bare
  <2>2. ev \in [Evses -> EvseStatuses]
    BY <1>0 DEF EvseStatuses, ChargePoints
  <2>3. \A c \in Connectors : Sees(e, c) <=> c \in sc
    BY <1>4 DEF Sees
  <2> HIDE DEF r, e, ev, sc
  <2>4. /\ s2 \in ChargePoints /\ s2.conn = st.conn
        /\ s2.nextId = st.nextId /\ s2.policy = st.policy
        /\ s2.pendingReset = st.pendingReset
    BY <1>0, <2>2 DEF ChargePoints
  <2> HIDE DEF s2
  <2>5. r.cp.pendingReset = s2.pendingReset /\ r.out.reboots = {}
    BY <2>1, <2>4 DEF Cascade, WriteAll, Result, ChargePoints
  <2> QED BY <2>1, <2>3, <2>4, <2>5, CascadeSends
<1>5. CASE e.type \in {"SetAvailable", "SetUnavailable", "EvseStatusSet"}
  <2>1. \E s2 : /\ r = Result(s2, Quiet)
                /\ s2.conn = st.conn /\ s2.pendingReset = st.pendingReset
    <3>1. CASE e.type = "SetAvailable"
      <4> DEFINE s2 == [st EXCEPT !.lifecycle = "Available"]
      <4>1. r = Result(s2, Quiet)
        BY <3>1 DEF Dispatch, SetLifecycle
      <4>2. s2.conn = st.conn /\ s2.pendingReset = st.pendingReset
        BY <1>0 DEF ChargePoints
      <4> QED BY <4>1, <4>2
    <3>2. CASE e.type = "SetUnavailable"
      <4> DEFINE s2 == [st EXCEPT !.lifecycle = "Unavailable"]
      <4>1. r = Result(s2, Quiet)
        BY <3>2 DEF Dispatch, SetLifecycle
      <4>2. s2.conn = st.conn /\ s2.pendingReset = st.pendingReset
        BY <1>0 DEF ChargePoints
      <4> QED BY <4>1, <4>2
    <3>3. CASE e.type = "EvseStatusSet"
      <4> DEFINE s2 == [st EXCEPT !.evse[e.evse] = e.status]
      <4>1. r = Result(s2, Quiet)
        BY <3>3 DEF Dispatch
      <4>2. s2.conn = st.conn /\ s2.pendingReset = st.pendingReset
        BY <1>0 DEF ChargePoints
      <4> QED BY <4>1, <4>2
    <3> QED BY <1>5, <3>1, <3>2, <3>3
  <2>2. \A c \in Connectors : ~Sees(e, c)
    BY <1>5 DEF Sees
  <2> HIDE DEF r, e
  <2>3. PICK s2 : /\ r = Result(s2, Quiet)
                  /\ s2.conn = st.conn /\ s2.pendingReset = st.pendingReset
    BY <2>1
  <2>4. r.cp.pendingReset = s2.pendingReset /\ r.out.reboots = {}
    BY <2>3 DEF Result
  <2> QED BY <2>2, <2>3, <2>4, QuietSends
<1>6. e.type \in {"Connector", "ResetRequested", "EvseFaultDetected",
                  "SetAvailable", "SetUnavailable", "EvseStatusSet"}
  BY DEF Mails, ToConnector, StationOrders, Settings
<1> QED BY <1>2, <1>3, <1>4, <1>5, <1>6

\* What command x to connector c looks like among the commands q: it is there
\* once, and no other is.
Tells(q, c, x) ==
    /\ \A i \in 1 .. Len(q) :
          q[i] \in ConnCommands /\ q[i].connector = c => q[i].type = x
    /\ x # None => \E i \in 1 .. Len(q) : q[i] = [connector |-> c, type |-> x]
    /\ \A i, j \in 1 .. Len(q) :
          /\ q[i] \in ConnCommands /\ q[i].connector = c
          /\ q[j] \in ConnCommands /\ q[j].connector = c
          => i = j

\* How connector c fares under an event: nothing if it does not see it, else one
\* arc and the command of that arc.
Fares(e, c, st, next, q) ==
    \E x : /\ Tells(q, c, x)
           /\ IF Sees(e, c) THEN Arc(st, SeenOf(e).type, next, x)
              ELSE next = st /\ x = None

\* What a connector sees of a mail is of one of the types above.
LEMMA SightsAreSeen ==
  ASSUME NEW m \in Mails, NEW c, Sees(m.event, c)
  PROVE  SeenOf(m.event).type \in SeenTypes
<1>1. CASE m.event.type = "Connector"
  <2>1. m.event.event \in Seen
    BY <1>1, StationBounds DEF Mails, ToConnector, StationOrders, Settings, Seen
  <2> QED BY <1>1, <2>1, SeenHasType DEF SeenOf
<1>2. CASE m.event.type # "Connector"
  BY <1>2 DEF SeenOf, Bare, SeenTypes
<1> QED BY <1>1, <1>2

\* What one mail does to a connector, and to the commands queued for it.
LEMMA ApplyFares ==
  ASSUME NEW st, NEW lst, Settled(st, lst), NEW m \in Mails
  PROVE  LET r == Apply(st, m.event) IN
         /\ r.cp \in ChargePoints
         /\ CommandsOf(r.out) \in Seq(Commands)
         /\ \A i \in 1 .. Len(CommandsOf(r.out)) :
               CommandsOf(r.out)[i] \in Reboots => r.out.reboots # {}
         /\ \A c \in Connectors :
               Fares(m.event, c, st.conn[c].state, r.cp.conn[c].state,
                     CommandsOf(r.out))
<1> DEFINE e == m.event
           r == Apply(st, e)
           q == CommandsOf(r.out)
<1>1. r \in Results
  BY ApplySound, MailIsSendable DEF Sound
<1>2. \A c \in Connectors : Sent(st, e, c, r.cp.conn[c], r.out.conn[c])
  BY ApplySends
<1>3. st \in ChargePoints
  BY DEF Settled
<1>4. \A c \in Connectors : Sees(e, c) => SeenOf(e).type \in SeenTypes
  BY SightsAreSeen
<1> HIDE DEF r, e
<1>5. ASSUME NEW c \in Connectors
      PROVE  \E x : /\ r.out.conn[c].commands = If(x # None, Command(x))
                    /\ x \in ConnectorCommands \cup {None}
                    /\ IF Sees(e, c)
                         THEN Arc(st.conn[c].state, SeenOf(e).type,
                                  r.cp.conn[c].state, x)
                         ELSE r.cp.conn[c].state = st.conn[c].state /\ x = None
  <2>1. CASE ~Sees(e, c)
    <3>1. r.cp.conn[c] = st.conn[c] /\ r.out.conn[c] = NoEffects
      BY <1>2, <2>1 DEF Sent
    <3>2. NoEffects.commands = <<>>
      BY DEF NoEffects
    <3> QED BY <2>1, <3>1, <3>2 DEF If
  <2>2. CASE Sees(e, c)
    <3> DEFINE v == ApplyConnectorEvent(st.conn[c], st.nextId, SeenOf(e),
                                        st.policy)
    <3>1. r.cp.conn[c] = v.slot /\ r.out.conn[c] = v.effects
      BY <1>2, <2>2 DEF Sent
    <3>2. st.conn[c].state \in ConnectorStates
      BY <1>3 DEF ChargePoints, Slots
    <3>3. \E x : /\ Arc(st.conn[c].state, SeenOf(e).type, v.slot.state, x)
                 /\ v.effects.commands = If(x # None, Command(x))
      BY <1>4, <2>2, <3>2, EventArc
    <3> HIDE DEF v
    <3>4. PICK x : /\ Arc(st.conn[c].state, SeenOf(e).type, v.slot.state, x)
                   /\ v.effects.commands = If(x # None, Command(x))
      BY <3>3
    <3>5. x \in ConnectorCommands \cup {None}
      BY <3>4 DEF Arc
    <3> QED BY <2>2, <3>1, <3>4, <3>5
  <2> QED BY <2>1, <2>2
<1>6. Plain(r.out)
  <2>1. \A c \in Connectors : r.out.conn[c].commands \in Seq(HardwareCommands)
    BY <1>1 DEF Results, Outs, Effects
  <2>2. r.out.reboots \in SUBSET Evses
    BY <1>1 DEF Results, Outs
  <2>3. ASSUME NEW c \in Connectors,
               NEW j \in 1 .. Len(r.out.conn[c].commands)
        PROVE  r.out.conn[c].commands[j].type \in ConnectorCommands
    <3>1. PICK x : /\ r.out.conn[c].commands = If(x # None, Command(x))
                   /\ x \in ConnectorCommands \cup {None}
      BY <1>5
    <3>2. x # None /\ r.out.conn[c].commands = <<Command(x)>>
      BY <2>3, <3>1 DEF If
    <3> QED BY <2>3, <3>1, <3>2 DEF Command
  <2> QED BY <2>1, <2>2, <2>3 DEF Plain
<1>7. /\ q \in Seq(Commands)
      /\ \A i \in 1 .. Len(q) :
            \/ q[i] \in Reboots /\ r.out.reboots # {}
            \/ \E c \in Connectors : \E j \in 1 .. Len(r.out.conn[c].commands) :
                  q[i] = [connector |-> c, type |-> r.out.conn[c].commands[j].type]
      /\ \A c \in Connectors : \A j \in 1 .. Len(r.out.conn[c].commands) :
            \E i \in 1 .. Len(q) :
               q[i] = [connector |-> c, type |-> r.out.conn[c].commands[j].type]
      /\ \A i, j \in 1 .. Len(q) : q[i] \in ConnCommands /\ q[j] = q[i] => i = j
  <2> DEFINE o == r.out
  <2>1. Plain(o)
    BY <1>6
  <2> HIDE DEF o
  <2>2. /\ CommandsOf(o) \in Seq(Commands)
        /\ \A i \in 1 .. Len(CommandsOf(o)) :
              \/ CommandsOf(o)[i] \in Reboots /\ o.reboots # {}
              \/ \E c \in Connectors : \E j \in 1 .. Len(o.conn[c].commands) :
                    CommandsOf(o)[i] =
                      [connector |-> c, type |-> o.conn[c].commands[j].type]
        /\ \A c \in Connectors : \A j \in 1 .. Len(o.conn[c].commands) :
              \E i \in 1 .. Len(CommandsOf(o)) :
                 CommandsOf(o)[i] =
                   [connector |-> c, type |-> o.conn[c].commands[j].type]
        /\ (\A c \in Connectors : Len(o.conn[c].commands) <= 1) =>
              \A i, j \in 1 .. Len(CommandsOf(o)) :
                 CommandsOf(o)[i] \in ConnCommands
                   /\ CommandsOf(o)[j] = CommandsOf(o)[i] => i = j
    BY <2>1, CommandsOfLists
  <2>3. \A c \in Connectors : Len(r.out.conn[c].commands) <= 1
    <3> SUFFICES ASSUME NEW c \in Connectors PROVE Len(r.out.conn[c].commands) <= 1
      OBVIOUS
    <3> DEFINE z == r.out.conn[c].commands
    <3>1. PICK x : z = If(x # None, Command(x))
      BY <1>5
    <3> HIDE DEF z
    <3>2. z = <<>> \/ z = <<Command(x)>>
      BY <3>1 DEF If
    <3>3. \A y : Len(<<>>) <= 1 /\ Len(<<y>>) <= 1
      OBVIOUS
    <3>4. Len(z) <= 1
      BY <3>2, <3>3, Zenon
    <3> QED BY <3>4 DEF z
  <2> QED BY <2>2, <2>3 DEF o
<1> HIDE DEF q
<1>8. ASSUME NEW x \in ConnCommands PROVE x \notin Reboots
  BY <1>8 DEF ConnCommands, Reboots, ConnectorCommands
<1>9. ASSUME NEW c, NEW t PROVE [connector |-> c, type |-> t] \notin Reboots
  BY DEF Reboots
<1>10. ASSUME NEW c \in Connectors
       PROVE  Fares(e, c, st.conn[c].state, r.cp.conn[c].state, q)
  <2>1. PICK x : /\ r.out.conn[c].commands = If(x # None, Command(x))
                 /\ IF Sees(e, c)
                      THEN Arc(st.conn[c].state, SeenOf(e).type,
                               r.cp.conn[c].state, x)
                      ELSE r.cp.conn[c].state = st.conn[c].state /\ x = None
    BY <1>5
  <2>2. \A j \in 1 .. Len(r.out.conn[c].commands) :
           x # None /\ r.out.conn[c].commands[j] = Command(x)
    BY <2>1 DEF If
  <2>3. ASSUME NEW i \in 1 .. Len(q), q[i] \in ConnCommands, q[i].connector = c
        PROVE  q[i].type = x
    <3>1. PICK d \in Connectors : \E j \in 1 .. Len(r.out.conn[d].commands) :
             q[i] = [connector |-> d, type |-> r.out.conn[d].commands[j].type]
      BY <1>7, <1>8, <2>3
    <3>2. d = c
      BY <2>3, <3>1
    <3> QED BY <2>2, <3>1, <3>2 DEF Command
  <2>4. ASSUME x # None
        PROVE  \E i \in 1 .. Len(q) : q[i] = [connector |-> c, type |-> x]
    <3>1. 1 \in 1 .. Len(r.out.conn[c].commands)
      BY <2>1, <2>4 DEF If
    <3>2. r.out.conn[c].commands[1].type = x
      BY <2>2, <3>1 DEF Command
    <3> QED BY <1>7, <3>1, <3>2
  <2>5. ASSUME NEW i \in 1 .. Len(q), NEW j \in 1 .. Len(q),
               q[i] \in ConnCommands, q[i].connector = c,
               q[j] \in ConnCommands, q[j].connector = c
        PROVE  i = j
    <3>1. q[i].type = x /\ q[j].type = x
      BY <2>3, <2>5
    <3>2. q[j] = q[i]
      BY <2>5, <3>1 DEF ConnCommands
    <3> QED BY <1>7, <2>5, <3>2
  <2>6. Tells(q, c, x)
    BY <2>3, <2>4, <2>5 DEF Tells
  <2> QED BY <2>1, <2>6 DEF Fares
<1>11. \A i \in 1 .. Len(q) : q[i] \in Reboots => r.out.reboots # {}
  <2> TAKE i \in 1 .. Len(q)
  <2> HAVE q[i] \in Reboots
  <2>1. ASSUME r.out.reboots = {} PROVE FALSE
    <3>1. PICK c \in Connectors : \E j \in 1 .. Len(r.out.conn[c].commands) :
             q[i] = [connector |-> c, type |-> r.out.conn[c].commands[j].type]
      BY <1>7, <2>1
    <3>2. PICK j \in 1 .. Len(r.out.conn[c].commands) :
             q[i] = [connector |-> c, type |-> r.out.conn[c].commands[j].type]
      BY <3>1
    <3> QED BY <1>9, <3>2
  <2> QED BY <2>1
<1>12. r.cp \in ChargePoints
  BY <1>1 DEF Results
<1> QED BY <1>7, <1>10, <1>11, <1>12 DEF e, r, q

-----------------------------------------------------------------------------
(* What every state of the station keeps, whatever is in the mailbox.       *)

\* No task has two events in the mailbox.
Mailbox ==
    /\ mail \in Seq(Mails)
    /\ \A i, j \in 1 .. Len(mail) : mail[i].from = mail[j].from => i = j

\* A reboot is under way only once the recorder has stored a reason for it.
ReasonFirst ==
    bootReason = None =>
        /\ up
        /\ cp.pendingReset = None
        /\ \A i \in 1 .. Len(commands) : commands[i] \notin Reboots
        /\ \A i \in 1 .. Len(mail) : mail[i].event.type # "ResetRequested"
        /\ call # None => call.pc # "recorded"

\* A request that has not sent its event yet has none in the mailbox.
CallOK ==
    /\ call \in Option(Calls)
    /\ call # None /\ call.pc = "recorded" => call.request.op = "Reset"
    /\ call # None /\ call.request.op = "Stop" => call.connector \in Connectors
    /\ call = None \/ call.pc = "recorded" => Idle("csms")

Phys == [closed : BOOLEAN, locked : BOOLEAN, cable : BOOLEAN]

TasksOK ==
    /\ phys \in [Connectors -> Phys]
    /\ seen \subseteq Connectors
    /\ left \in [holds : SUBSET Connectors, expiry : SUBSET Connectors]
    /\ bootReason \in Option({"RemoteReset", "ScheduledReset"})
    /\ up \in BOOLEAN /\ refused = FALSE
    /\ spent \in [failures : 0 .. MaxFailures, calls : 0 .. MaxCalls,
                  moves : 0 .. MaxMoves]

SInv ==
    /\ \E lst : Settled(cp, lst)
    /\ Mailbox
    /\ commands \in Seq(Commands)
    /\ CallOK
    /\ TasksOK
    /\ ReasonFirst

\* One place per task is enough.
LEMMA OneEach ==
  ASSUME NEW s \in Seq(Mails),
         \A i, j \in 1 .. Len(s) : s[i].from = s[j].from => i = j
  PROVE  Len(s) \in Nat /\ Len(s) <= 5
<1> DEFINE n == Len(s)
           rank(t) == IF t = "csms" THEN 1 ELSE IF t = "driver" THEN 2
                      ELSE IF t = "executor" THEN 3
                      ELSE IF t = "holds" THEN 4 ELSE 5
           f == [i \in 1 .. n |-> rank(s[i].from)]
<1>1. n \in Nat /\ \A i \in 1 .. n : s[i] \in Mails
  BY LenProperties, ElementOfSeq
<1>2. \A i \in 1 .. n : s[i].from \in Tasks
  BY <1>1, MailIsSendable
<1>3. \A t \in Tasks : rank(t) \in 1 .. 5
  OBVIOUS
<1>4. \A t, u \in Tasks : rank(t) = rank(u) => t = u
  BY DEF Tasks
<1> HIDE DEF rank
<1>5. f \in [1 .. n -> 1 .. 5] /\ IsInjective(f)
  BY <1>2, <1>3, <1>4 DEF IsInjective
<1> HIDE DEF n, f
<1>6. f \in Injection(1 .. n, 1 .. 5)
  BY <1>5 DEF Injection
<1>7. ASSUME NEW k \in Nat
      PROVE  IsFiniteSet(1 .. k) /\ Cardinality(1 .. k) = k
  <2>1. 1 \in Int /\ k \in Int
    OBVIOUS
  <2>2. /\ IsFiniteSet(1 .. k)
        /\ Cardinality(1 .. k) = IF 1 > k THEN 0 ELSE k - 1 + 1
    BY <2>1, FS_Interval
  <2> QED BY <2>2
<1>8. Cardinality(1 .. n) <= Cardinality(1 .. 5)
  BY <1>6, <1>7, FS_Injection
<1>9. Cardinality(1 .. n) = n /\ Cardinality(1 .. 5) = 5
  BY <1>1, <1>7
<1>10. n <= 5
  BY <1>1, <1>8, <1>9
<1> QED BY <1>1, <1>10 DEF n

\* An event sent by an idle task lands at the end of the mailbox.
LEMMA SendLands ==
  ASSUME Capacity >= 5, Mailbox, NEW task \in Tasks, NEW e,
         [from |-> task, event |-> e] \in Mails, Idle(task), Send(task, e)
  PROVE  /\ refused' = refused
         /\ mail' \in Seq(Mails) /\ Len(mail') = Len(mail) + 1
         /\ Len(mail) \in Nat
         /\ \A i \in 1 .. Len(mail) : mail'[i] = mail[i]
         /\ mail'[Len(mail) + 1] = [from |-> task, event |-> e]
         /\ Mailbox'
<1> DEFINE m == [from |-> task, event |-> e]
           s == Append(mail, m)
<1>1. mail \in Seq(Mails) /\ Len(mail) \in Nat
  BY LenProperties DEF Mailbox
<1>2. /\ s \in Seq(Mails) /\ Len(s) = Len(mail) + 1
      /\ \A i \in 1 .. Len(mail) : s[i] = mail[i]
      /\ s[Len(mail) + 1] = m
  BY <1>1, AppendProperties
<1> HIDE DEF s
<1>3. ASSUME NEW i \in 1 .. Len(s), NEW j \in 1 .. Len(s),
             s[i].from = s[j].from
      PROVE  i = j
  <2>1. ASSUME NEW k \in 1 .. Len(s)
        PROVE  \/ k \in 1 .. Len(mail) /\ s[k].from # task
               \/ k = Len(mail) + 1 /\ s[k].from = task
    BY <1>1, <1>2 DEF Idle
  <2> QED BY <1>2, <1>3, <2>1 DEF Mailbox
<1>4. Len(s) <= 5
  BY <1>2, <1>3, OneEach
<1>5. mail' = s /\ refused' = refused
  <2>1. ~(Len(mail) >= Capacity)
    BY <1>1, <1>2, <1>4, StationBounds
  <2> QED BY <2>1 DEF Send, s
<1>6. Mailbox'
  BY <1>2, <1>3, <1>5 DEF Mailbox
<1> QED BY <1>1, <1>2, <1>5, <1>6

\* Once its head has been taken the mailbox is its tail.
LEMMA TakeHead ==
  ASSUME Mailbox, mail # <<>>, mail' = Tail(mail)
  PROVE  /\ Head(mail) = mail[1] /\ mail[1] \in Mails
         /\ Len(mail) \in Nat \ {0} /\ Len(mail') = Len(mail) - 1
         /\ \A i \in 1 .. Len(mail') : i + 1 \in 1 .. Len(mail)
                                      /\ mail'[i] = mail[i + 1]
         /\ Mailbox'
<1>1. /\ mail' \in Seq(Mails) /\ Len(mail') = Len(mail) - 1
      /\ \A i \in 1 .. Len(mail') : mail'[i] = mail[i + 1]
      /\ Head(mail) \in Mails
  BY HeadTailProperties DEF Mailbox
<1>2. Len(mail) \in Nat \ {0} /\ Head(mail) = mail[1]
  BY EmptySeq DEF Mailbox
<1>3. \A i \in 1 .. Len(mail') : i + 1 \in 1 .. Len(mail)
  BY <1>1, <1>2
<1>4. Mailbox'
  <2>1. \A i, j \in 1 .. Len(mail') :
           mail'[i].from = mail'[j].from => i = j
    <3> TAKE i, j \in 1 .. Len(mail')
    <3> HAVE mail'[i].from = mail'[j].from
    <3>1. i + 1 = j + 1
      BY <1>1, <1>3 DEF Mailbox
    <3> QED BY <1>1, <1>2, <3>1
  <2> QED BY <1>1, <2>1 DEF Mailbox
<1> QED BY <1>1, <1>2, <1>3, <1>4

\* The same of the commands.
LEMMA TakeCommand ==
  ASSUME commands \in Seq(Commands), commands # <<>>,
         commands' = Tail(commands)
  PROVE  /\ Head(commands) = commands[1] /\ commands[1] \in Commands
         /\ Len(commands) \in Nat \ {0}
         /\ commands' \in Seq(Commands) /\ Len(commands') = Len(commands) - 1
         /\ \A i \in 1 .. Len(commands') : i + 1 \in 1 .. Len(commands)
                                         /\ commands'[i] = commands[i + 1]
<1>1. /\ commands' \in Seq(Commands) /\ Len(commands') = Len(commands) - 1
      /\ \A i \in 1 .. Len(commands') : commands'[i] = commands[i + 1]
      /\ Head(commands) \in Commands
  BY HeadTailProperties
<1>2. Len(commands) \in Nat \ {0} /\ Head(commands) = commands[1]
  BY EmptySeq
<1> QED BY <1>1, <1>2

\* The first of some connectors is one of them.
LEMMA FirstIsOne ==
  ASSUME NEW S, S \subseteq Connectors, S # {}
  PROVE  First(S) \in S
<1>1. S \subseteq Nat
  BY TopologyIsFinite
<1>2. PICK b \in S : \A k \in S : ~(<<k, b>> \in OpToRel(<, Nat))
  BY <1>1, NatLessThanWellFounded, WFMin
<1>3. \A k \in S : b <= k
  <2> TAKE k \in S
  <2>1. k \in Nat /\ b \in Nat
    BY <1>1, <1>2
  <2>2. ASSUME k < b PROVE FALSE
    <3>1. <<k, b>> \in OpToRel(<, Nat)
      BY <2>1, <2>2 DEF OpToRel
    <3> QED BY <1>2, <3>1
  <2> QED BY <2>1, <2>2
<1> QED BY <1>3 DEF First

\* A station that has not started satisfies it.
LEMMA InitSInv == StationInit => SInv
<1> SUFFICES ASSUME StationInit PROVE SInv
  OBVIOUS
<1>1. PICK p \in Policies :
         cp = [NewChargePoint(p) EXCEPT !.lifecycle = "Available",
                                       !.registration = "Accepted"]
  BY DEF StationInit
<1>2. NewSlot \in Slots /\ NewSlot.tx = None /\ NewSlot.state = "Available"
  BY DEF NewSlot, Slots, ConnectorStates, Option
<1>3. NewChargePoint(p) \in ChargePoints
      /\ NewChargePoint(p).conn = [c \in Connectors |-> NewSlot]
      /\ NewChargePoint(p).pendingReset = None
  BY <1>2, PolicyAssumption
     DEF NewChargePoint, ChargePoints, LifecycleStates, EvseStatuses, Option
<1> DEFINE fresh == NewChargePoint(p)
<1> HIDE DEF fresh
<1>4. cp = [fresh EXCEPT !.lifecycle = "Available", !.registration = "Accepted"]
  BY <1>1 DEF fresh
<1>5. fresh \in ChargePoints /\ fresh.conn = [c \in Connectors |-> NewSlot]
      /\ fresh.pendingReset = None
  BY <1>3 DEF fresh
<1>6. "Available" \in LifecycleStates /\ "Accepted" \in Option(Registrations)
  BY DEF LifecycleStates, Registrations, Option
<1>7. /\ cp \in ChargePoints /\ cp.pendingReset = None
      /\ cp.conn = [c \in Connectors |-> NewSlot]
  BY <1>4, <1>5, <1>6 DEF ChargePoints
<1>8. Settled(cp, [c \in Connectors |-> None])
  <2>1. [c \in Connectors |-> None] \in [Connectors -> Option(Reports)]
    BY DEF Option
  <2>2. \A c \in Connectors : FaultSafe(cp.conn[c])
                             /\ Agrees(cp.conn[c].tx, None)
    BY <1>2, <1>7 DEF FaultSafe, Agrees
  <2> QED BY <1>7, <2>1, <2>2 DEF Settled
<1>9. mail = <<>> /\ commands = <<>> /\ call = None
  BY DEF StationInit
<1>10. mail \in Seq(Mails) /\ commands \in Seq(Commands) /\ Len(mail) = 0
       /\ Len(commands) = 0
  BY <1>9, EmptySeq
<1>11. Mailbox
  BY <1>10 DEF Mailbox
<1>12. CallOK
  BY <1>9, <1>10 DEF CallOK, Option, Idle
<1>13. TasksOK
  <2>1. phys \in [Connectors -> Phys]
    <3>1. [closed |-> FALSE, locked |-> FALSE, cable |-> FALSE] \in Phys
      BY DEF Phys
    <3> QED BY <3>1 DEF StationInit
  <2>2. left \in [holds : SUBSET Connectors, expiry : SUBSET Connectors]
        /\ seen \subseteq Connectors
    BY DEF StationInit
  <2>3. spent \in [failures : 0 .. MaxFailures, calls : 0 .. MaxCalls,
                   moves : 0 .. MaxMoves]
    <3>1. spent = [failures |-> 0, calls |-> 0, moves |-> 0]
      BY DEF StationInit
    <3>2. 0 \in 0 .. MaxFailures /\ 0 \in 0 .. MaxCalls /\ 0 \in 0 .. MaxMoves
      BY StationBounds
    <3> QED BY <3>1, <3>2
  <2>4. up \in BOOLEAN /\ refused = FALSE
        /\ bootReason \in Option({"RemoteReset", "ScheduledReset"})
    BY DEF StationInit, Option
  <2> QED BY <2>1, <2>2, <2>3, <2>4 DEF TasksOK
<1>14. ReasonFirst
  <2>1. up
    BY DEF StationInit
  <2> QED BY <1>7, <1>10, <2>1, <1>9 DEF ReasonFirst
<1> QED BY <1>8, <1>10, <1>11, <1>12, <1>13, <1>14 DEF SInv

\* An event sent by another task than the CSMS's.
LEMMA SendKeeps ==
  ASSUME SInv, Capacity >= 5, NEW task \in Tasks \ {"csms"}, NEW e,
         e.type # "ResetRequested", [from |-> task, event |-> e] \in Mails,
         Idle(task), Send(task, e), cp' = cp, call' = call
  PROVE  /\ \E lst : Settled(cp', lst)
         /\ Mailbox' /\ CallOK' /\ refused' = FALSE
         /\ (\A i \in 1 .. Len(mail) : mail[i].event.type # "ResetRequested")
              => \A i \in 1 .. Len(mail') :
                    mail'[i].event.type # "ResetRequested"
<1>1. /\ refused' = refused /\ Len(mail') = Len(mail) + 1
      /\ Len(mail) \in Nat
      /\ \A i \in 1 .. Len(mail) : mail'[i] = mail[i]
      /\ mail'[Len(mail) + 1] = [from |-> task, event |-> e]
      /\ Mailbox'
  BY SendLands DEF SInv
<1>2. \A i \in 1 .. Len(mail') : i \in 1 .. Len(mail) \/ i = Len(mail) + 1
  BY <1>1
<1>3. Idle("csms") => Idle("csms")'
  BY <1>1, <1>2 DEF Idle
<1>4. CallOK'
  BY <1>3 DEF SInv, CallOK
<1>5. \E lst : Settled(cp', lst)
  BY DEF SInv
<1>6. refused' = FALSE
  BY <1>1 DEF SInv, TasksOK
<1> QED BY <1>1, <1>2, <1>4, <1>5, <1>6

\* The actor's turn.
LEMMA TurnKeepsS ==
  ASSUME SInv, Turn
  PROVE  SInv'
<1> DEFINE m == mail[1]
           r == Apply(cp, m.event)
           q == CommandsOf(r.out)
<1>1. /\ Head(mail) = m /\ m \in Mails
      /\ Len(mail') = Len(mail) - 1
      /\ \A i \in 1 .. Len(mail') : i + 1 \in 1 .. Len(mail)
                                   /\ mail'[i] = mail[i + 1]
      /\ Len(mail) \in Nat \ {0}
      /\ Mailbox'
  BY TakeHead DEF SInv, Turn
<1>2. PICK lst : Settled(cp, lst)
  BY DEF SInv
<1>3. cp' = r.cp /\ commands' = commands \o q
  BY <1>1 DEF Turn
<1>4. Sound(cp, lst, r)
  BY <1>1, <1>2, ApplySound, MailIsSendable
<1>5. /\ q \in Seq(Commands)
      /\ \A i \in 1 .. Len(q) : q[i] \in Reboots => r.out.reboots # {}
  BY <1>1, <1>2, ApplyFares
<1>6. r.cp.pendingReset # None \/ r.out.reboots # {} =>
         cp.pendingReset # None \/ m.event.type = "ResetRequested"
  BY <1>1, <1>2, ApplySends
<1> HIDE DEF r, q, m
<1>7. \E l : Settled(cp', l)
  <2> DEFINE l == [c \in Connectors |-> LastOf(lst[c], r.out.conn[c].reports)]
  <2>1. r.cp \in ChargePoints
        /\ \A c \in Connectors : r.out.conn[c].reports \in Seq(Reports)
    BY <1>4 DEF Sound, Results, Outs, Effects
  <2>2. l \in [Connectors -> Option(Reports)]
    BY <1>2, <2>1, LastOfType DEF Settled
  <2>3. \A c \in Connectors : FaultSafe(r.cp.conn[c])
                             /\ Agrees(r.cp.conn[c].tx, l[c])
    BY <1>4 DEF Sound
  <2> HIDE DEF l
  <2>4. Settled(cp', l)
    BY <1>3, <2>1, <2>2, <2>3 DEF Settled
  <2> QED BY <2>4
<1>8. /\ commands' \in Seq(Commands)
      /\ Len(commands') = Len(commands) + Len(q)
      /\ \A i \in 1 .. Len(commands) + Len(q) : commands'[i] =
            IF i <= Len(commands) THEN commands[i] ELSE q[i - Len(commands)]
      /\ Len(commands) \in Nat /\ Len(q) \in Nat
  BY <1>3, <1>5, ConcatProperties, LenProperties DEF SInv
<1>9. call' = call /\ UNCHANGED <<phys, seen, left, bootReason, up, refused, spent>>
  BY DEF Turn
<1>10. CallOK'
  <2>1. Idle("csms") => Idle("csms")'
    BY <1>1 DEF Idle
  <2> QED BY <1>9, <2>1 DEF SInv, CallOK
<1>11. TasksOK'
  BY <1>9 DEF SInv, TasksOK
<1>12. ReasonFirst'
  <2> SUFFICES ASSUME bootReason = None
               PROVE  /\ up /\ cp'.pendingReset = None
                      /\ \A i \in 1 .. Len(commands') : commands'[i] \notin Reboots
                      /\ \A i \in 1 .. Len(mail') :
                            mail'[i].event.type # "ResetRequested"
                      /\ call # None => call.pc # "recorded"
    BY <1>9 DEF ReasonFirst
  <2>1. /\ up /\ cp.pendingReset = None
        /\ \A i \in 1 .. Len(commands) : commands[i] \notin Reboots
        /\ \A i \in 1 .. Len(mail) : mail[i].event.type # "ResetRequested"
        /\ call # None => call.pc # "recorded"
    BY DEF SInv, ReasonFirst
  <2>2. m.event.type # "ResetRequested"
    BY <1>1, <2>1 DEF m
  <2>3. r.cp.pendingReset = None /\ r.out.reboots = {}
    BY <1>6, <2>1, <2>2
  <2>4. ASSUME NEW i \in 1 .. Len(commands') PROVE commands'[i] \notin Reboots
    <3>1. CASE i <= Len(commands)
      BY <1>8, <2>1, <3>1
    <3>2. CASE i > Len(commands)
      <4>1. i - Len(commands) \in 1 .. Len(q)
            /\ commands'[i] = q[i - Len(commands)]
        BY <1>8, <3>2
      <4> QED BY <1>5, <2>3, <4>1
    <3> QED BY <1>8, <3>1, <3>2
  <2>5. \A i \in 1 .. Len(mail') : mail'[i].event.type # "ResetRequested"
    BY <1>1, <2>1
  <2> QED BY <1>3, <2>1, <2>3, <2>4, <2>5
<1> QED BY <1>1, <1>7, <1>8, <1>10, <1>11, <1>12 DEF SInv

\* The executor: what a command reports can be sent, and only a reboot that was
\* asked for ends the process.
LEMMA ExecuteSends ==
  ASSUME SInv, Capacity >= 5, Execute
  PROVE  /\ commands # <<>> /\ Idle("executor") /\ up
         /\ \E failed \in BOOLEAN :
               /\ spent' = IF failed THEN [spent EXCEPT !.failures = @ + 1]
                           ELSE spent
               /\ failed => spent.failures < MaxFailures
               /\ \/ /\ commands[1] \in Reboots
                     /\ up' = failed /\ phys' = phys
                     /\ IF failed
                          THEN Send("executor", [type |-> "EvseFaultDetected",
                                                 evse |-> commands[1].evse])
                          ELSE mail' = mail /\ refused' = refused
                  \/ /\ commands[1] \in ConnCommands
                     /\ ExecuteOnConnector(commands[1], failed)
<1>1. commands # <<>> /\ Idle("executor") /\ up
  BY DEF Execute, ExecutorReady
<1>2. Head(commands) = commands[1] /\ commands[1] \in Commands
  BY <1>1, TakeCommand DEF SInv, Execute
<1>3. commands[1] \in Reboots <=> commands[1].type = "Reboot"
  BY <1>2 DEF Commands, Reboots, ConnCommands, ConnectorCommands
<1>4. commands[1] \in Reboots \/ commands[1] \in ConnCommands
  BY <1>2 DEF Commands
<1>5. commands[1] \in ConnCommands => commands[1].type # "Reboot"
  BY DEF ConnCommands, ConnectorCommands
<1> QED BY <1>1, <1>2, <1>3, <1>4, <1>5 DEF Execute, ExecuteReboot

\* What the executor reports of a command is a mail.
LEMMA ConfirmationsAreMails ==
  ASSUME NEW command \in ConnCommands, NEW failed \in BOOLEAN
  PROVE  [from |-> "executor",
          event |-> OnC(command.connector, ConnectorOutcome(command, failed))]
           \in Mails
<1>1. command.connector \in Connectors /\ command.type \in ConnectorCommands
  BY DEF ConnCommands
<1>2. ConnectorOutcome(command, failed) \in Confirmations
  BY <1>1 DEF ConnectorOutcome, Confirmation, Confirmations, Bare,
              ConnectorCommands
<1> HIDE DEF Confirmations
<1>3. OnC(command.connector, ConnectorOutcome(command, failed))
        \in ToConnector(Connectors, Confirmations)
  BY <1>1, <1>2 DEF OnC, ToConnector
<1> QED BY <1>3 DEF Mails

\* So is the fault of an EVSE that could not be rebooted.
LEMMA RebootFaultsAreMails ==
  ASSUME NEW v \in Evses
  PROVE  [from |-> "executor", event |-> [type |-> "EvseFaultDetected", evse |-> v]]
           \in Mails
  BY DEF Mails

\* The executor's step keeps the invariant.
LEMMA ExecuteKeepsS ==
  ASSUME SInv, Capacity >= 5, Execute
  PROVE  SInv'
<1>1. /\ commands # <<>> /\ Idle("executor") /\ up
      /\ commands' = Tail(commands)
      /\ cp' = cp /\ UNCHANGED <<call, seen, bootReason, left>>
  BY ExecuteSends DEF Execute, vars
<1>2. /\ commands[1] \in Commands /\ commands' \in Seq(Commands)
      /\ Len(commands) \in Nat \ {0}
      /\ \A i \in 1 .. Len(commands') : i + 1 \in 1 .. Len(commands)
                                      /\ commands'[i] = commands[i + 1]
  BY <1>1, TakeCommand DEF SInv
<1>3. PICK failed \in BOOLEAN :
         /\ spent' = IF failed THEN [spent EXCEPT !.failures = @ + 1] ELSE spent
         /\ failed => spent.failures < MaxFailures
         /\ \/ /\ commands[1] \in Reboots
               /\ up' = failed /\ phys' = phys
               /\ IF failed
                    THEN Send("executor", [type |-> "EvseFaultDetected",
                                           evse |-> commands[1].evse])
                    ELSE mail' = mail /\ refused' = refused
            \/ /\ commands[1] \in ConnCommands
               /\ ExecuteOnConnector(commands[1], failed)
  BY ExecuteSends
<1>4. spent' \in [failures : 0 .. MaxFailures, calls : 0 .. MaxCalls,
                  moves : 0 .. MaxMoves]
  BY <1>3, StationBounds DEF SInv, TasksOK
<1>5. /\ Mailbox' /\ CallOK' /\ refused' = FALSE /\ up' \in BOOLEAN
      /\ \E lst : Settled(cp', lst)
      /\ phys' \in [Connectors -> Phys]
      /\ bootReason = None =>
            up' /\ \A i \in 1 .. Len(mail') :
                      mail'[i].event.type # "ResetRequested"
  <2>0. bootReason = None => up /\ \A i \in 1 .. Len(mail) :
                                      mail[i].event.type # "ResetRequested"
    BY DEF SInv, ReasonFirst
  <2>1. CASE commands[1] \in Reboots /\ failed
    <3> DEFINE e == [type |-> "EvseFaultDetected", evse |-> commands[1].evse]
    <3>1. /\ up' = TRUE /\ phys' = phys /\ Send("executor", e)
      BY <1>3, <2>1 DEF ConnCommands, Reboots, ConnectorCommands
    <3>2. e.type # "ResetRequested" /\ [from |-> "executor", event |-> e] \in Mails
      BY <2>1, RebootFaultsAreMails DEF Reboots
    <3> HIDE DEF e
    <3>3. "executor" \in Tasks \ {"csms"}
      BY DEF Tasks
    <3>4. /\ Mailbox' /\ CallOK' /\ refused' = FALSE
          /\ \E lst : Settled(cp', lst)
          /\ (\A i \in 1 .. Len(mail) : mail[i].event.type # "ResetRequested")
              => \A i \in 1 .. Len(mail') :
                    mail'[i].event.type # "ResetRequested"
      BY <1>1, <3>1, <3>2, <3>3, SendKeeps
    <3> QED BY <2>0, <3>1, <3>4 DEF SInv, TasksOK
  <2>2. CASE commands[1] \in Reboots /\ ~failed
    <3>1. /\ up' = FALSE /\ phys' = phys /\ mail' = mail /\ refused' = refused
      BY <1>3, <2>2 DEF ConnCommands, Reboots, ConnectorCommands
    <3>2. bootReason # None
      BY <1>2, <2>2 DEF SInv, ReasonFirst
    <3>3. Mailbox' /\ CallOK'
      BY <1>1, <3>1 DEF SInv, Mailbox, CallOK, Idle
    <3> QED BY <1>1, <3>1, <3>2, <3>3 DEF SInv, TasksOK
  <2>3. CASE commands[1] \in ConnCommands
    <3> DEFINE k == commands[1]
               e == OnC(k.connector, ConnectorOutcome(k, failed))
    <3>1. /\ up' = up /\ Send("executor", e)
          /\ phys' = IF failed THEN phys
                     ELSE [phys EXCEPT ![k.connector] = Moved(@, k.type)]
      BY <1>3, <2>3 DEF ConnCommands, Reboots, ConnectorCommands, ExecuteOnConnector
    <3>2. e.type # "ResetRequested" /\ [from |-> "executor", event |-> e] \in Mails
      BY <2>3, ConfirmationsAreMails DEF OnC
    <3> HIDE DEF e
    <3>3. "executor" \in Tasks \ {"csms"}
      BY DEF Tasks
    <3>4. /\ Mailbox' /\ CallOK' /\ refused' = FALSE
          /\ \E lst : Settled(cp', lst)
          /\ (\A i \in 1 .. Len(mail) : mail[i].event.type # "ResetRequested")
              => \A i \in 1 .. Len(mail') :
                    mail'[i].event.type # "ResetRequested"
      BY <1>1, <3>1, <3>2, <3>3, SendKeeps
    <3>5. phys' \in [Connectors -> Phys]
      <4>1. phys \in [Connectors -> Phys]
        BY DEF SInv, TasksOK
      <4>2. \A p \in Phys : Moved(p, k.type) \in Phys
        BY <2>3 DEF Moved, Phys, ConnCommands, ConnectorCommands
      <4> QED BY <3>1, <4>1, <4>2
    <3> QED BY <1>1, <2>0, <3>1, <3>4, <3>5
  <2> QED BY <1>2, <2>1, <2>2, <2>3 DEF Commands
<1>6. TasksOK'
  BY <1>1, <1>4, <1>5 DEF SInv, TasksOK
<1>7. ReasonFirst'
  BY <1>1, <1>2, <1>5 DEF SInv, ReasonFirst
<1> QED BY <1>2, <1>5, <1>6, <1>7 DEF SInv

\* A task that reports on one connector.
LEMMA ReportKeepsS ==
  ASSUME SInv, Capacity >= 5, NEW task \in Tasks \ {"csms"},
         NEW c \in Connectors, NEW e,
         [from |-> task, event |-> OnC(c, e)] \in Mails, Idle(task),
         Send(task, OnC(c, e)), TasksOK',
         UNCHANGED <<cp, call, bootReason, up, commands>>
  PROVE  SInv'
<1>1. OnC(c, e).type # "ResetRequested"
  BY DEF OnC
<1>2. /\ Mailbox' /\ CallOK' /\ \E lst : Settled(cp', lst)
      /\ (\A i \in 1 .. Len(mail) : mail[i].event.type # "ResetRequested")
              => \A i \in 1 .. Len(mail') :
                    mail'[i].event.type # "ResetRequested"
  BY <1>1, SendKeeps
<1>3. ReasonFirst'
  BY <1>2 DEF SInv, ReasonFirst
<1> QED BY <1>2, <1>3 DEF SInv

\* The refusal flag stays down when an idle task sends.
LEMMA SendIsAccepted ==
  ASSUME SInv, Capacity >= 5, NEW task \in Tasks, NEW e,
         [from |-> task, event |-> e] \in Mails, Idle(task), Send(task, e)
  PROVE  refused' = FALSE
  BY SendLands DEF SInv, TasksOK

\* The driver and the hardware binding.
LEMMA DriverSendsOne ==
  ASSUME SInv, Driver
  PROVE  \E c \in Driven, e \in DriverReports :
            /\ Send("driver", OnC(c, e)) /\ Idle("driver")
            /\ UNCHANGED <<vars, commands, call, seen, bootReason, left, up>>
            /\ phys' \in [Connectors -> Phys]
            /\ \A d \in Connectors : /\ phys'[d].closed = phys[d].closed
                                    /\ phys'[d].locked = phys[d].locked
            /\ spent' \in [failures : 0 .. MaxFailures, calls : 0 .. MaxCalls,
                           moves : 0 .. MaxMoves]
            /\ \/ spent'.failures = spent.failures /\ e.type # "FaultDetected"
               \/ spent'.failures = spent.failures + 1
<1>0. /\ [spent EXCEPT !.moves = @ + 1].failures = spent.failures
      /\ [spent EXCEPT !.failures = @ + 1].failures = spent.failures + 1
  BY DEF SInv, TasksOK
<1>1. PICK c \in Driven : Plug(c) \/ Unplug(c) \/ PressStop(c) \/ ReportFault(c)
                          \/ ClearFault(c)
  BY DEF Driver
<1>2. c \in Connectors
  BY StationBounds
<1>3. phys \in [Connectors -> Phys]
  BY DEF SInv, TasksOK
<1>4. /\ [spent EXCEPT !.moves = @ + 1]
           \in [failures : 0 .. MaxFailures, calls : 0 .. MaxCalls,
                moves : 0 .. MaxMoves] \/ ~(spent.moves < MaxMoves)
      /\ [spent EXCEPT !.failures = @ + 1]
           \in [failures : 0 .. MaxFailures, calls : 0 .. MaxCalls,
                moves : 0 .. MaxMoves] \/ ~(spent.failures < MaxFailures)
  BY StationBounds DEF SInv, TasksOK
<1>5. ASSUME NEW b \in BOOLEAN, phys' = [phys EXCEPT ![c].cable = b]
      PROVE  /\ phys' \in [Connectors -> Phys]
             /\ \A d \in Connectors : /\ phys'[d].closed = phys[d].closed
                                     /\ phys'[d].locked = phys[d].locked
  <2>1. phys[c] \in Phys /\ [phys[c] EXCEPT !.cable = b] \in Phys
    BY <1>2, <1>3 DEF Phys
  <2>2. /\ [phys[c] EXCEPT !.cable = b].closed = phys[c].closed
        /\ [phys[c] EXCEPT !.cable = b].locked = phys[c].locked
    BY <2>1 DEF Phys
  <2>3. \A d \in Connectors : phys'[d] = IF d = c THEN [phys[c] EXCEPT !.cable = b]
                                        ELSE phys[d]
    BY <1>3, <1>5
  <2>4. phys' \in [Connectors -> Phys]
    BY <1>3, <1>5, <2>1
  <2> QED BY <2>2, <2>3, <2>4
<1>6. Bare("CableConnected") \in DriverReports
      /\ Bare("CableDisconnected") \in DriverReports
      /\ Bare("FaultDetected") \in DriverReports
      /\ Bare("FaultCleared") \in DriverReports
      /\ [type |-> "ChargingStopped", reason |-> "Local"] \in DriverReports
  BY DEF DriverReports, Bare
<1>7. CASE Plug(c)
  <2>1. phys' = [phys EXCEPT ![c].cable = TRUE]
        /\ DriverSends(c, Bare("CableConnected"))
    BY <1>7 DEF Plug
  <2> QED BY <1>0, <1>4, <1>5, <1>6, <2>1 DEF DriverSends, Bare
<1>8. CASE Unplug(c)
  <2>1. phys' = [phys EXCEPT ![c].cable = FALSE]
        /\ DriverSends(c, Bare("CableDisconnected"))
    BY <1>8 DEF Unplug
  <2> QED BY <1>0, <1>4, <1>5, <1>6, <2>1 DEF DriverSends, Bare
<1>9. CASE PressStop(c)
  <2>1. phys' = phys
        /\ DriverSends(c, [type |-> "ChargingStopped", reason |-> "Local"])
    BY <1>9 DEF PressStop
  <2> QED BY <1>0, <1>3, <1>4, <1>6, <2>1 DEF DriverSends, Bare
<1>10. CASE ClearFault(c)
  <2>1. phys' = phys /\ DriverSends(c, Bare("FaultCleared"))
    BY <1>10 DEF ClearFault
  <2> QED BY <1>0, <1>3, <1>4, <1>6, <2>1 DEF DriverSends, Bare
<1>11. CASE ReportFault(c)
  BY <1>0, <1>3, <1>4, <1>6, <1>11 DEF ReportFault, Bare
<1> QED BY <1>1, <1>7, <1>8, <1>9, <1>10, <1>11

\* So does whatever the driver does.
LEMMA DriverKeepsS ==
  ASSUME SInv, Capacity >= 5, Driver
  PROVE  SInv'
<1>1. PICK c \in Driven, e \in DriverReports :
            /\ Send("driver", OnC(c, e)) /\ Idle("driver")
            /\ UNCHANGED <<vars, commands, call, seen, bootReason, left, up>>
            /\ phys' \in [Connectors -> Phys]
            /\ spent' \in [failures : 0 .. MaxFailures, calls : 0 .. MaxCalls,
                           moves : 0 .. MaxMoves]
  BY DriverSendsOne
<1>2. [from |-> "driver", event |-> OnC(c, e)] \in Mails
  BY DEF Mails, ToConnector, OnC
<1>3. "driver" \in Tasks \ {"csms"} /\ c \in Connectors
  BY StationBounds DEF Tasks
<1>4. refused' = FALSE
  BY <1>1, <1>2, <1>3, SendIsAccepted
<1>5. TasksOK'
  BY <1>1, <1>4 DEF SInv, TasksOK
<1>6. UNCHANGED <<cp, call, bootReason, up, commands>>
  BY <1>1 DEF vars
<1> QED BY <1>1, <1>2, <1>3, <1>5, <1>6, ReportKeepsS

\* The two sweeps: each sends one event about one connector, or none.
LEMMA HoldsKeepS ==
  ASSUME SInv, Capacity >= 5, SweepHolds \/ SweepNextHold
  PROVE  /\ SInv'
         /\ UNCHANGED <<vars, commands, phys, call, bootReason, up, spent>>
         /\ \/ mail' = mail
            \/ \E c \in Connectors :
                  Idle("holds") /\ Send("holds",
                                        OnC(c, Bare("RemoteStartPendingCleared")))
<1> DEFINE e == Bare("RemoteStartPendingCleared")
<1>1. UNCHANGED <<vars, commands, phys, call, bootReason, up, spent>>
      /\ Idle("holds")
  BY DEF SweepHolds, SweepNextHold
<1>2. HeldAwaitingCable \subseteq Connectors
      /\ left.holds \subseteq Connectors
  BY DEF HeldAwaitingCable, SInv, TasksOK
<1>3. ASSUME NEW due, due \subseteq Connectors, due # {}
      PROVE  First(due) \in Connectors
  BY <1>3, FirstIsOne
<1>4. ASSUME NEW c \in Connectors
      PROVE  [from |-> "holds", event |-> OnC(c, e)] \in Mails
  BY DEF Mails, ToConnector, OnC, Bare
<1>5. "holds" \in Tasks \ {"csms"}
  BY DEF Tasks
<1>6. ASSUME NEW c \in Connectors, Send("holds", OnC(c, e)),
             seen' \subseteq Connectors,
             left' \in [holds : SUBSET Connectors, expiry : SUBSET Connectors]
      PROVE  SInv'
  <2>1. refused' = FALSE
    BY <1>1, <1>4, <1>5, <1>6, SendIsAccepted
  <2>2. TasksOK'
    BY <1>1, <1>6, <2>1 DEF SInv, TasksOK
  <2>3. UNCHANGED <<cp, call, bootReason, up, commands>>
    BY <1>1 DEF vars
  <2> HIDE DEF e
  <2> QED BY <1>1, <1>4, <1>5, <1>6, <2>2, <2>3, ReportKeepsS
<1>7. CASE SweepHolds
  <2>1. PICK due \in DueHolds :
          /\ seen' = HeldAwaitingCable \ due
          /\ IF due = {}
               THEN UNCHANGED <<mail, refused, left>>
               ELSE /\ ReleaseHold(First(due))
                    /\ left' = [left EXCEPT !.holds = due \ {First(due)}]
    BY <1>7 DEF SweepHolds
  <2>2. due \subseteq Connectors
    BY <1>2 DEF DueHolds
  <2>3. CASE due = {}
    <3>1. mail' = mail /\ refused' = refused /\ left' = left
      BY <2>1, <2>3
    <3>2. TasksOK'
      BY <1>1, <1>2, <2>1, <3>1 DEF SInv, TasksOK
    <3>3. Mailbox' /\ CallOK' /\ ReasonFirst'
      BY <1>1, <3>1 DEF SInv, Mailbox, CallOK, Idle, ReasonFirst, vars
    <3>4. \E lst : Settled(cp', lst)
      BY <1>1 DEF SInv, vars
    <3>5. commands' \in Seq(Commands)
      BY <1>1 DEF SInv
    <3>6. SInv'
      BY <3>2, <3>3, <3>4, <3>5 DEF SInv
    <3> QED BY <1>1, <3>1, <3>6
  <2>4. CASE due # {}
    <3>1. /\ First(due) \in Connectors
          /\ Send("holds", OnC(First(due), e))
          /\ left' = [left EXCEPT !.holds = due \ {First(due)}]
          /\ seen' \subseteq Connectors
      BY <1>2, <1>3, <2>1, <2>2, <2>4 DEF ReleaseHold
    <3>2. left' \in [holds : SUBSET Connectors, expiry : SUBSET Connectors]
      BY <2>2, <3>1 DEF SInv, TasksOK
    <3> QED BY <1>1, <1>6, <3>1, <3>2
  <2> QED BY <2>3, <2>4
<1>8. CASE SweepNextHold
  <2> DEFINE c == First(left.holds)
  <2>1. /\ c \in Connectors /\ Send("holds", OnC(c, e))
        /\ left' = [left EXCEPT !.holds = @ \ {First(@)}]
        /\ seen' = seen
    BY <1>2, <1>3, <1>8 DEF SweepNextHold, ReleaseHold
  <2> HIDE DEF c
  <2>2. /\ left' \in [holds : SUBSET Connectors, expiry : SUBSET Connectors]
        /\ seen' \subseteq Connectors
    BY <2>1 DEF SInv, TasksOK
  <2> QED BY <1>1, <1>6, <2>1, <2>2
<1> QED BY <1>7, <1>8

\* The expiry sweep keeps the invariant and sends at most one event.
LEMMA ExpiryKeepsS ==
  ASSUME SInv, Capacity >= 5, SweepReservations \/ SweepNextReservation
  PROVE  /\ SInv'
         /\ UNCHANGED <<vars, commands, phys, call, seen, bootReason, up, spent>>
         /\ \E c \in Connectors :
                  Idle("expiry") /\ Send("expiry",
                                         OnC(c, Bare("ReservationExpired")))
<1> DEFINE e == Bare("ReservationExpired")
<1>1. UNCHANGED <<vars, commands, phys, call, seen, bootReason, up, spent>>
      /\ Idle("expiry")
  BY DEF SweepReservations, SweepNextReservation
<1>2. Reserved \subseteq Connectors /\ left.expiry \subseteq Connectors
  BY DEF Reserved, SInv, TasksOK
<1>3. ASSUME NEW due, due \subseteq Connectors, due # {}
      PROVE  First(due) \in Connectors
  BY <1>3, FirstIsOne
<1>4. ASSUME NEW c \in Connectors
      PROVE  [from |-> "expiry", event |-> OnC(c, e)] \in Mails
  BY DEF Mails, ToConnector, OnC, Bare
<1>5. "expiry" \in Tasks \ {"csms"}
  BY DEF Tasks
<1>6. ASSUME NEW c \in Connectors, Send("expiry", OnC(c, e)),
             left' \in [holds : SUBSET Connectors, expiry : SUBSET Connectors]
      PROVE  SInv'
  <2>1. refused' = FALSE
    BY <1>1, <1>4, <1>5, <1>6, SendIsAccepted
  <2>2. TasksOK'
    BY <1>1, <1>6, <2>1 DEF SInv, TasksOK
  <2>3. UNCHANGED <<cp, call, bootReason, up, commands>>
    BY <1>1 DEF vars
  <2> HIDE DEF e
  <2> QED BY <1>1, <1>4, <1>5, <1>6, <2>2, <2>3, ReportKeepsS
<1>7. \E due : /\ due \subseteq Connectors /\ due # {}
               /\ Send("expiry", OnC(First(due), e))
               /\ left' = [left EXCEPT !.expiry = due \ {First(due)}]
  <2>1. CASE SweepReservations
    <3>1. PICK due \in (SUBSET Reserved) \ {{}} :
             /\ ExpireOn(First(due))
             /\ left' = [left EXCEPT !.expiry = due \ {First(due)}]
      BY <2>1 DEF SweepReservations
    <3>2. due \subseteq Connectors /\ due # {}
      BY <1>2
    <3> QED BY <3>1, <3>2 DEF ExpireOn
  <2>2. CASE SweepNextReservation
    BY <1>2, <2>2 DEF SweepNextReservation, ExpireOn
  <2> QED BY <2>1, <2>2
<1>8. PICK due : /\ due \subseteq Connectors /\ due # {}
                 /\ Send("expiry", OnC(First(due), e))
                 /\ left' = [left EXCEPT !.expiry = due \ {First(due)}]
  BY <1>7
<1>9. left' \in [holds : SUBSET Connectors, expiry : SUBSET Connectors]
  BY <1>8 DEF SInv, TasksOK
<1> QED BY <1>1, <1>3, <1>6, <1>8, <1>9

\* What a handler that forwards an event decided, on the state it was shown.
Decided(q, c, e) ==
    /\ [from |-> "csms", event |-> e] \in Mails
    /\ e.type # "ResetRequested"
    /\ c \in Option(Connectors)
    /\ q.op = "Stop" =>
          /\ c \in Connectors /\ cp.conn[c].state = "Charging"
          /\ cp.conn[c].tx # None /\ cp.conn[c].tx.id = q.id
    /\ e.type = "Connector" /\ e.event.type \in SettingTypes =>
          q.op = "Availability" /\ q.connector = e.connector
          /\ q.connector # None

\* An order to a connector is a mail of the CSMS's.
LEMMA OrdersAreMails ==
  ASSUME NEW c \in Connectors, NEW e \in Orders \cup Settings
  PROVE  [from |-> "csms", event |-> OnC(c, e)] \in Mails
<1>1. OnC(c, e) \in ToConnector(Connectors, Orders \cup Settings)
  BY DEF OnC, ToConnector
<1> QED BY <1>1 DEF Mails

\* Every request but a reset, when it is taken, sends what was decided.
LEMMA HandleForwards ==
  ASSUME SInv, NEW q \in Requests, Handle(q), q.op # "Reset"
  PROVE  \E c, e : Forward(q, c, e) /\ Decided(q, c, e)
<1>1. WellFormedRequest(q)
  BY RequestAssumption
<1>2. None \notin Connectors
  BY TopologyIsFinite, NoneAssumption
<1>3. ASSUME NEW S, S \subseteq Connectors, S # {}
      PROVE  First(S) \in S
  BY <1>3, FirstIsOne
<1> DEFINE unset(e) == e.type \notin SettingTypes
<1>4. ASSUME NEW c \in Connectors, NEW e \in Orders, q.op # "Stop"
      PROVE  Decided(q, c, OnC(c, e))
  <2>1. [from |-> "csms", event |-> OnC(c, e)] \in Mails
    BY OrdersAreMails
  <2>2. e.type \notin SettingTypes
    BY DEF Orders, SettingTypes
  <2>3. OnC(c, e).type = "Connector" /\ OnC(c, e).event = e
    BY DEF OnC
  <2> HIDE DEF Mails, Orders
  <2> QED BY <1>4, <2>1, <2>2, <2>3 DEF Decided, Option
<1>5. CASE q.op = "Unlock"
  <2>1. Forward(q, q.connector, OnC(q.connector, Bare("RemoteUnlockRequested")))
    BY <1>5 DEF Handle, HandleUnlock
  <2>2. q.connector \in Connectors /\ Bare("RemoteUnlockRequested") \in Orders
    BY <1>1, <1>5 DEF WellFormedRequest, Bare, Orders
  <2> QED BY <1>4, <1>5, <2>1, <2>2
<1>6. CASE q.op = "Start"
  <2> DEFINE c == FindStartTarget(q.evse, q.token)
             e1 == [type |-> "RemoteStartRequested", token |-> q.token,
                    remoteStartId |-> None]
             e2 == [type |-> "RemoteStartPending",
                    pending |-> [token |-> q.token, remoteStartId |-> None]]
             e == IF cp.conn[c].state = "Locked" THEN e1 ELSE e2
  <2>1. c # None /\ Forward(q, c, OnC(c, e))
    BY <1>6 DEF Handle, HandleStart
  <2>2. c \in Connectors \cup {None}
    <3> DEFINE able(state) == {d \in TargetConnectors(q.evse) :
                 CanStartHere(d, q.token) /\ cp.conn[d].state = state}
    <3>1. \A state : able(state) \subseteq Connectors
      BY DEF TargetConnectors
    <3>2. c = IF able("Locked") # {} THEN First(able("Locked"))
              ELSE IF able("Reserved") # {} THEN First(able("Reserved"))
              ELSE IF able("Available") # {} THEN First(able("Available"))
              ELSE None
      BY DEF FindStartTarget
    <3> HIDE DEF able, c
    <3> QED BY <1>3, <3>1, <3>2
  <2>3. e \in Orders
    <3>1. q.token \in IdTokens
      BY <1>1, <1>6 DEF WellFormedRequest
    <3>2. e1 \in Orders
      BY <3>1 DEF Orders
    <3>3. [token |-> q.token, remoteStartId |-> None] \in PendingStarts
      BY <3>1 DEF PendingStarts, Option
    <3>4. e2 \in Orders
      BY <3>3 DEF Orders
    <3> QED BY <3>2, <3>4
  <2> HIDE DEF c, e
  <2> QED BY <1>4, <1>6, <2>1, <2>2, <2>3
<1>7. CASE q.op = "Stop"
  <2> DEFINE c == FindTransaction(q.id)
             e == [type |-> "ChargingStopped", reason |-> "Remote"]
  <2>1. /\ c # None /\ Forward(q, c, OnC(c, e))
        /\ cp.conn[c].state = "Charging"
    BY <1>7 DEF Handle, HandleStop
  <2>2. c \in Connectors /\ cp.conn[c].tx # None /\ cp.conn[c].tx.id = q.id
    <3> DEFINE running == {d \in Connectors :
                 cp.conn[d].tx # None /\ cp.conn[d].tx.id = q.id}
    <3>1. running \subseteq Connectors
      OBVIOUS
    <3>2. c = IF running = {} THEN None ELSE First(running)
      BY DEF FindTransaction
    <3> HIDE DEF c
    <3>3. running # {} /\ c = First(running)
      BY <2>1, <3>2
    <3>4. c \in running
      BY <1>3, <3>1, <3>3
    <3> QED BY <3>4
  <2>3. e \in Orders /\ e.type \notin SettingTypes
    BY DEF Orders, SettingTypes
  <2>4. [from |-> "csms", event |-> OnC(c, e)] \in Mails
    BY <2>2, <2>3, OrdersAreMails
  <2>5. OnC(c, e).type = "Connector" /\ OnC(c, e).event = e
    BY DEF OnC
  <2> HIDE DEF c, e
  <2>6. Decided(q, c, OnC(c, e))
    BY <2>1, <2>2, <2>3, <2>4, <2>5 DEF Decided, Option
  <2> QED BY <2>1, <2>6
<1>8. CASE q.op = "Reserve"
  <2> DEFINE c == FindFree(q.evse)
             e == [type |-> "Reserved", reservation |-> q.reservation]
  <2>1. c # None /\ Forward(q, c, OnC(c, e))
    BY <1>8 DEF Handle, HandleReserve
  <2>2. c \in Connectors
    <3> DEFINE free == {d \in TargetConnectors(q.evse) :
                          cp.conn[d].state = "Available"}
    <3>1. free \subseteq Connectors
      BY DEF TargetConnectors
    <3>2. c = IF free = {} THEN None ELSE First(free)
      BY DEF FindFree
    <3> HIDE DEF c, free
    <3> QED BY <1>3, <2>1, <3>1, <3>2
  <2>3. e \in Orders
    BY <1>1, <1>8 DEF WellFormedRequest, Orders
  <2> HIDE DEF c, e
  <2> QED BY <1>4, <1>8, <2>1, <2>2, <2>3
<1>9. CASE q.op = "Cancel"
  <2> DEFINE c == FindReservation(q.id)
  <2>1. c # None /\ Forward(q, c, OnC(c, Bare("ReservationCancelled")))
    BY <1>9 DEF Handle, HandleCancel
  <2>2. c \in Connectors
    <3> DEFINE held == {d \in Connectors : cp.conn[d].reservation # None
                          /\ cp.conn[d].reservation.id = q.id}
    <3>1. held \subseteq Connectors
      OBVIOUS
    <3>2. c = IF held = {} THEN None ELSE First(held)
      BY DEF FindReservation
    <3> HIDE DEF c, held
    <3> QED BY <1>3, <2>1, <3>1, <3>2
  <2>3. Bare("ReservationCancelled") \in Orders
    BY DEF Bare, Orders
  <2> HIDE DEF c
  <2> QED BY <1>4, <1>9, <2>1, <2>2, <2>3
<1>10. CASE q.op = "Availability"
  <2> DEFINE s == Bare(IF q.available THEN "SetAvailable" ELSE "SetUnavailable")
             e == IF q.connector # None
                    THEN OnC(q.connector, s)
                    ELSE IF q.evse # None
                    THEN [type |-> "EvseStatusSet", evse |-> q.evse,
                          status |-> IF q.available THEN "Available"
                                     ELSE "Unavailable"]
                    ELSE s
  <2>1. Forward(q, None, e)
    BY <1>10 DEF Handle, HandleAvailability
  <2>2. q.connector \in Option(Connectors) /\ q.evse \in Option(Evses)
    BY <1>1, <1>10 DEF WellFormedRequest
  <2>3. s \in Settings
    BY DEF Settings, Bare
  <2>4. /\ [from |-> "csms", event |-> e] \in Mails
        /\ e.type # "ResetRequested"
        /\ e.type = "Connector" => q.connector # None /\ e.connector = q.connector
    <3>1. CASE q.connector # None
      <4>1. q.connector \in Connectors
        BY <2>2, <3>1 DEF Option
      <4>2. [from |-> "csms", event |-> OnC(q.connector, s)] \in Mails
        BY <2>3, <4>1, OrdersAreMails
      <4> HIDE DEF s
      <4> QED BY <3>1, <4>2 DEF OnC
    <3>2. CASE q.connector = None /\ q.evse # None
      <4>1. q.evse \in Evses
        BY <2>2, <3>2 DEF Option
      <4>2. e \in StationOrders
        BY <3>2, <4>1 DEF StationOrders
      <4> QED BY <3>2, <4>2 DEF Mails
    <3>3. CASE q.connector = None /\ q.evse = None
      <4>1. e = s
        BY <3>3
      <4>2. e \in StationOrders /\ e.type \in SettingTypes
        BY <2>3, <4>1 DEF StationOrders, Settings, SettingTypes
      <4> HIDE DEF e
      <4> QED BY <4>2 DEF Mails, SettingTypes
    <3> QED BY <3>1, <3>2, <3>3
  <2> HIDE DEF e, s
  <2>5. Decided(q, None, e)
    BY <1>10, <2>4 DEF Decided, Option
  <2> QED BY <2>1, <2>5
<1> QED BY <1>1, <1>5, <1>6, <1>7, <1>8, <1>9, <1>10 DEF WellFormedRequest

\* What the handlers leave alone, and what they may do to the rest.
LEMMA HandleSends ==
  ASSUME SInv, NEW q \in Requests, Handle(q)
  PROVE  /\ UNCHANGED <<vars, commands, phys, seen, left, up>>
         /\ call = None /\ Idle("csms")
         /\ spent' \in [failures : 0 .. MaxFailures, calls : 0 .. MaxCalls,
                        moves : 0 .. MaxMoves]
<1>1. /\ spent' = [spent EXCEPT !.calls = @ + 1] /\ spent.calls < MaxCalls
  BY DEF Handle
<1> QED BY <1>1, StationBounds DEF Handle, SInv, CallOK, TasksOK

\* Taking a request keeps the invariant.
LEMMA RequestKeepsS ==
  ASSUME SInv, Capacity >= 5, Request
  PROVE  SInv'
<1>1. PICK q \in Requests : Handle(q)
  BY DEF Request
<1>2. /\ UNCHANGED <<vars, commands, phys, seen, left, up>>
      /\ call = None /\ Idle("csms")
      /\ spent' \in [failures : 0 .. MaxFailures, calls : 0 .. MaxCalls,
                     moves : 0 .. MaxMoves]
  BY <1>1, HandleSends
<1>3. WellFormedRequest(q)
  BY RequestAssumption
<1>4. \E lst : Settled(cp', lst)
  BY <1>2 DEF SInv, vars
<1>5. "csms" \in Tasks
  BY DEF Tasks
<1>6. None \notin Calls
  BY CallAssumption
<1>7. CASE q.op = "Reset"
  <2>1. /\ bootReason' = BootReasonOf(q.kind)
        /\ call' = [request |-> q, pc |-> "recorded", connector |-> None]
        /\ UNCHANGED <<mail, refused>>
    BY <1>1, <1>7 DEF Handle, HandleReset, Opens
  <2>2. /\ bootReason' \in Option({"RemoteReset", "ScheduledReset"})
        /\ bootReason' # None
    BY <2>1, ReasonAssumption DEF BootReasonOf, Option
  <2>3. Mailbox' /\ commands' \in Seq(Commands)
    BY <1>2, <2>1 DEF SInv, Mailbox
  <2>4. call' \in Calls
    BY <2>1 DEF Calls, Option
  <2>5. CallOK'
    BY <1>2, <1>7, <2>1, <2>4 DEF CallOK, Option, Idle
  <2>6. TasksOK'
    BY <1>2, <2>1, <2>2 DEF SInv, TasksOK
  <2>7. ReasonFirst'
    BY <2>2 DEF ReasonFirst
  <2> QED BY <1>4, <2>3, <2>5, <2>6, <2>7 DEF SInv
<1>8. CASE q.op # "Reset"
  <2>1. PICK c, e : Forward(q, c, e) /\ Decided(q, c, e)
    BY <1>1, <1>8, HandleForwards
  <2>2. /\ Send("csms", e) /\ bootReason' = bootReason
        /\ call' = [request |-> q, pc |-> "sent", connector |-> c]
        /\ [from |-> "csms", event |-> e] \in Mails /\ e.type # "ResetRequested"
        /\ c \in Option(Connectors) /\ (q.op = "Stop" => c \in Connectors)
    BY <2>1 DEF Forward, Opens, Decided
  <2>3. /\ refused' = refused /\ Len(mail') = Len(mail) + 1
        /\ Len(mail) \in Nat
        /\ \A i \in 1 .. Len(mail) : mail'[i] = mail[i]
        /\ mail'[Len(mail) + 1] = [from |-> "csms", event |-> e]
        /\ Mailbox'
    BY <1>2, <1>5, <2>2, SendLands DEF SInv
  <2>4. call' \in Calls
    BY <2>2 DEF Calls
  <2>5. CallOK'
    BY <1>6, <2>2, <2>4 DEF CallOK, Option
  <2>6. TasksOK'
    BY <1>2, <2>2, <2>3 DEF SInv, TasksOK
  <2>7. ReasonFirst'
    <3>1. call'.pc # "recorded"
      BY <2>2
    <3>2. \A i \in 1 .. Len(mail') : i \in 1 .. Len(mail) \/ i = Len(mail) + 1
      BY <2>3
    <3>3. (\A i \in 1 .. Len(mail) : mail[i].event.type # "ResetRequested")
            => \A i \in 1 .. Len(mail') :
                  mail'[i].event.type # "ResetRequested"
      BY <2>2, <2>3, <3>2
    <3> QED BY <1>2, <2>2, <3>1, <3>3 DEF SInv, ReasonFirst, vars
  <2>8. commands' \in Seq(Commands)
    BY <1>2 DEF SInv
  <2> QED BY <1>4, <2>3, <2>5, <2>6, <2>7, <2>8 DEF SInv
<1> QED BY <1>7, <1>8

\* So does sending the reset whose reason is on storage.
LEMMA RequestResetKeepsS ==
  ASSUME SInv, Capacity >= 5, RequestReset
  PROVE  /\ SInv'
         /\ call.request.op = "Reset" /\ call'.request.op = "Reset"
         /\ UNCHANGED <<vars, commands, phys>>
         /\ Idle("csms")
         /\ \E e \in StationOrders : Send("csms", e)
<1> DEFINE e == [type |-> "ResetRequested", target |-> call.request.target,
                 kind |-> call.request.kind]
<1>1. /\ call # None /\ call.pc = "recorded"
      /\ Send("csms", e) /\ call' = [call EXCEPT !.pc = "sent"]
      /\ UNCHANGED <<vars, commands, phys, seen, bootReason, left, up, spent>>
  BY DEF RequestReset
<1>2. /\ call \in Calls /\ call.request \in Requests
      /\ call.request.op = "Reset" /\ Idle("csms")
  BY <1>1 DEF SInv, CallOK, Option, Calls
<1>3. e \in StationOrders
  BY <1>2, RequestAssumption DEF WellFormedRequest, StationOrders
<1>4. [from |-> "csms", event |-> e] \in Mails
  BY <1>3 DEF Mails
<1>5. "csms" \in Tasks
  BY DEF Tasks
<1> HIDE DEF e
<1>6. refused' = refused /\ Mailbox'
  BY <1>1, <1>2, <1>4, <1>5, SendLands DEF SInv
<1>7. /\ call' \in Calls /\ call'.request = call.request /\ call'.pc = "sent"
      /\ call'.connector = call.connector
  BY <1>1, <1>2 DEF Calls
<1>8. CallOK'
  BY <1>2, <1>7, CallAssumption DEF CallOK, Option
<1>9. bootReason # None
  BY <1>1 DEF SInv, ReasonFirst
<1>10. ReasonFirst'
  BY <1>1, <1>9 DEF ReasonFirst
<1>11. TasksOK'
  BY <1>1, <1>6 DEF SInv, TasksOK
<1>12. (\E lst : Settled(cp', lst)) /\ commands' \in Seq(Commands)
  BY <1>1 DEF SInv, vars
<1>13. SInv'
  BY <1>6, <1>8, <1>10, <1>11, <1>12 DEF SInv
<1> QED BY <1>1, <1>2, <1>3, <1>7, <1>13

\* So does answering a request.
LEMMA AnswerKeepsS ==
  ASSUME SInv, Answer
  PROVE  SInv'
<1>1. /\ call' = None /\ Idle("csms")
      /\ UNCHANGED <<vars, mail, commands, phys, seen, bootReason, left, up,
                     refused, spent>>
  BY DEF Answer
<1>2. CallOK'
  BY <1>1 DEF CallOK, Option, Idle
<1>3. Mailbox' /\ TasksOK' /\ commands' \in Seq(Commands)
      /\ \E lst : Settled(cp', lst)
  BY <1>1 DEF SInv, Mailbox, TasksOK, vars
<1>4. ReasonFirst'
  BY <1>1 DEF SInv, ReasonFirst, vars
<1> QED BY <1>2, <1>3, <1>4 DEF SInv

\* So does every step.
LEMMA StepKeepsS ==
  ASSUME SInv, Capacity >= 5, [StationNext]_allVars
  PROVE  SInv'
<1>1. CASE UNCHANGED allVars
  <2>1. UNCHANGED <<cp, mail, commands, phys, call, seen, bootReason, left, up,
                    refused, spent>>
    BY <1>1 DEF allVars, vars, stationVars
  <2>2. Mailbox' /\ TasksOK' /\ CallOK' /\ ReasonFirst'
    BY <2>1 DEF SInv, Mailbox, TasksOK, CallOK, ReasonFirst, Idle
  <2> QED BY <2>1, <2>2 DEF SInv
<1>2. CASE StationNext
  BY <1>2, TurnKeepsS, ExecuteKeepsS, DriverKeepsS, RequestKeepsS,
     RequestResetKeepsS, AnswerKeepsS, HoldsKeepS, ExpiryKeepsS DEF StationNext
<1> QED BY <1>1, <1>2

\* What the invariant says of a state.
LEMMA SInvShows ==
  ASSUME SInv
  PROVE  StationTypeOK /\ NothingRefused /\ RebootHasItsReason
<1>1. /\ mail \in Seq(Mails)
      /\ \A i, j \in 1 .. Len(mail) : mail[i].from = mail[j].from => i = j
      /\ \A i \in 1 .. Len(mail) : mail[i] \in Mails
      /\ \A i \in 1 .. Len(commands) : commands[i] \in Commands
  BY ElementOfSeq DEF SInv, Mailbox
<1>2. \A i \in 1 .. Len(mail) : mail[i].from \in Tasks
  BY <1>1, MailIsSendable
<1>3. \A x \in Commands : x.type \in ConnectorCommands \cup {"Reboot"}
  BY DEF Commands, ConnCommands, Reboots
<1>4. call # None =>
          call.request \in Requests /\ call.pc \in {"recorded", "sent"}
  BY DEF SInv, CallOK, Option, Calls
<1>5. /\ seen \subseteq Connectors
      /\ left.holds \subseteq Connectors /\ left.expiry \subseteq Connectors
      /\ bootReason \in Option({"RemoteReset", "ScheduledReset"})
      /\ up \in BOOLEAN /\ refused = FALSE
      /\ spent \in [failures : 0 .. MaxFailures, calls : 0 .. MaxCalls,
                    moves : 0 .. MaxMoves]
      /\ phys \in [Connectors -> Phys]
  BY DEF SInv, TasksOK
<1>6. StationTypeOK
  BY <1>1, <1>2, <1>3, <1>4, <1>5 DEF StationTypeOK, Phys
<1>7. RebootHasItsReason
  BY DEF SInv, ReasonFirst, RebootHasItsReason
<1> QED BY <1>5, <1>6, <1>7 DEF NothingRefused

-----------------------------------------------------------------------------
(* A stop and the transaction it names.                                     *)

\* An event of the given task is ahead of the k-th.
Before(k, task) == \E j \in 1 .. k - 1 : mail[j].from = task

\* The states a connector that was charging can be in when a stop decided then
\* is applied: how far it has come on its way down is bounded by the events of
\* the driver (d) and of the executor (x) that are still ahead of the stop.  None
\* of these states begins a transaction while those events are applied.
Kept(state, d, x) ==
    \/ state \in Powered
    \/ state \in {"Stopping", "StoppingLocked", "Faulted"} /\ ~(d /\ x)
    \/ state \in {"Finishing", "Locked", "FaultedSafe"} /\ ~d /\ ~x

StopInv ==
    \A k \in 1 .. Len(mail) :
        mail[k].from = "csms" /\ call # None /\ call.request.op = "Stop" =>
            LET slot == cp.conn[call.connector] IN
            /\ Kept(slot.state, Before(k, "driver"), Before(k, "executor"))
            /\ slot.tx # None => slot.tx.id = call.request.id

DriverTypes   == {"CableConnected", "CableDisconnected", "FaultDetected",
                  "FaultCleared", "ChargingStopped"}
ExecutorTypes == {"LockConfirmed", "UnlockConfirmed", "ContactorClosed",
                  "ContactorOpened", "LockFailed", "FaultDetected"}
SweepTypes    == {"RemoteStartPendingCleared", "ReservationExpired"}

TypesOf(task) ==
    IF task = "driver" THEN DriverTypes
    ELSE IF task = "executor" THEN ExecutorTypes
    ELSE SweepTypes

\* What a connector sees of a task's mail is of the task's types.
LEMMA TypesOfMails ==
  ASSUME NEW m \in Mails, m.from # "csms", NEW c, Sees(m.event, c)
  PROVE  SeenOf(m.event).type \in TypesOf(m.from)
<1>1. CASE m.from = "driver"
  BY <1>1 DEF Mails, ToConnector, SeenOf, TypesOf, DriverTypes, DriverReports
<1>2. CASE m.from = "executor"
  BY <1>2 DEF Mails, ToConnector, SeenOf, TypesOf, ExecutorTypes, Confirmations,
              Bare
<1>3. CASE m.from \in {"holds", "expiry"}
  BY <1>3 DEF Mails, ToConnector, SeenOf, TypesOf, SweepTypes
<1> QED BY <1>1, <1>2, <1>3, MailIsSendable DEF Tasks

\* One event ahead of the stop: the state stays within Kept, and begins nothing.
LEMMA KeptArc ==
  ASSUME NEW state \in ConnectorStates, NEW d \in BOOLEAN, NEW x \in BOOLEAN,
         Kept(state, d, x), NEW task, NEW e, e.type \in TypesOf(task), NEW p,
         task = "driver" => d, task = "executor" => x
  PROVE  LET next == ConnectorApply(state, e, p).next IN
         /\ Kept(next, d /\ task # "driver", x /\ task # "executor")
         /\ ~StartsTransaction(state, next, p)
<1> DEFINE next == ConnectorApply(state, e, p).next
<1>1. CASE task = "driver"
  <2>1. Kept(next, FALSE, x)
    BY <1>1 DEF Kept, ConnectorApply, SupervisoryStep, SessionStep, Go, TypesOf,
                DriverTypes, SupervisoryEvents, Powered, Suspended, Settling
  <2>2. ~StartsTransaction(state, next, p)
    BY <1>1 DEF Kept, StartsTransaction, Powered, Suspended
  <2> QED BY <1>1, <2>1, <2>2
<1>2. CASE task = "executor"
  <2>1. Kept(next, d, FALSE)
    BY <1>2 DEF Kept, ConnectorApply, SupervisoryStep, SessionStep, Go, TypesOf,
                ExecutorTypes, SupervisoryEvents, Powered, Suspended, Settling
  <2>2. ~StartsTransaction(state, next, p)
    BY <1>2 DEF Kept, StartsTransaction, Powered, Suspended
  <2> QED BY <1>2, <2>1, <2>2
<1>3. CASE task \notin {"driver", "executor"}
  <2>1. next = state
    BY <1>3 DEF Kept, ConnectorApply, SupervisoryStep, SessionStep, Go, TypesOf,
                SweepTypes, SupervisoryEvents, Powered, Suspended, Settling
  <2>2. ~StartsTransaction(state, next, p)
    BY <2>1 DEF Kept, StartsTransaction, Powered, Suspended
  <2> QED BY <1>3, <2>1, <2>2
<1> QED BY <1>1, <1>2, <1>3

\* With fewer events ahead of the stop, the state may have come further.
LEMMA KeptLess ==
  ASSUME NEW state, NEW d \in BOOLEAN, NEW x \in BOOLEAN, NEW d2 \in BOOLEAN,
         NEW x2 \in BOOLEAN, Kept(state, d, x), d2 => d, x2 => x
  PROVE  Kept(state, d2, x2)
  BY DEF Kept

\* A step that begins no transaction keeps the identity of the one there is.
LEMMA AdvanceKeepsId ==
  ASSUME NEW tx \in Option(Transactions), NEW n, NEW prev, NEW next, NEW reason,
         NEW origin, NEW p, ~StartsTransaction(prev, next, p)
  PROVE  LET t == AdvanceTransaction(tx, n, prev, next, reason, origin, p).tx
         IN t # None => tx # None /\ t.id = tx.id
<1>1. CASE tx = None
  BY <1>1 DEF AdvanceTransaction, Keep
<1>2. CASE tx # None
  <2>1. tx \in Transactions
    BY <1>2 DEF Option
  <2> DEFINE stopping == WithStopReason(tx, prev, next, reason)
             moved == [tx EXCEPT !.chargingState = ChargingStateFor(next)]
  <2>2. stopping.id = tx.id
    BY <2>1 DEF WithStopReason, Transactions
  <2>3. Bumped(moved).id = tx.id
    BY <2>1 DEF Bumped, Transactions
  <2> HIDE DEF stopping
  <2>4. AdvanceTransaction(tx, n, prev, next, reason, origin, p).tx
          \in {None, Bumped(moved), stopping}
    BY <1>2 DEF AdvanceTransaction, stopping, Close, Update, Keep
  <2> HIDE DEF moved
  <2> QED BY <1>2, <2>2, <2>3, <2>4
<1> QED BY <1>1, <1>2

\* What is ahead of the stop, before and after the given task's event is applied.
OneLess(d, x, task, d2, x2) ==
    /\ {d, x, d2, x2} \subseteq BOOLEAN
    /\ task = "driver" => d
    /\ task = "executor" => x
    /\ d2 => d /\ task # "driver"
    /\ x2 => x /\ task # "executor"

\* One event of another task than the CSMS's, applied to a connector a stop is
\* on its way to.
LEMMA KeptBySight ==
  ASSUME NEW st \in ChargePoints, NEW m \in Mails, m.from # "csms",
         NEW c \in Connectors, NEW d, NEW x, Kept(st.conn[c].state, d, x),
         NEW d2, NEW x2, OneLess(d, x, m.from, d2, x2),
         NEW slot, NEW effects, Sent(st, m.event, c, slot, effects)
  PROVE  /\ Kept(slot.state, d2, x2)
         /\ slot.tx # None =>
               st.conn[c].tx # None /\ slot.tx.id = st.conn[c].tx.id
<1> DEFINE s == st.conn[c]
           e == SeenOf(m.event)
<1>0. s \in Slots
  BY DEF ChargePoints
<1>1. CASE ~Sees(m.event, c)
  <2>1. slot = s
    BY <1>1 DEF Sent
  <2> QED BY <2>1, KeptLess DEF OneLess
<1>2. CASE Sees(m.event, c)
  <2> DEFINE p == st.policy
             mv == ConnectorApply(s.state, e, p)
             o == Transit(s, st.nextId, e, p)
  <2>1. slot = ApplyConnectorEvent(s, st.nextId, e, p).slot
    BY <1>2 DEF Sent
  <2>2. e.type \in SeenTypes /\ e.type \in TypesOf(m.from)
    BY <1>2, SightsAreSeen, TypesOfMails
  <2>3. s.state \in ConnectorStates /\ s.tx \in Option(Transactions)
    BY <1>0 DEF Slots
  <2>4. s.state # "Connected"
    BY DEF Kept, Powered, Suspended
  <2> HIDE DEF e, s
  <2>5. ApplyConnectorEvent(s, st.nextId, e, p) = o
    BY <2>2, <2>4, NothingWeighed
       DEF ApplyConnectorEvent, FollowUp, Dispatched, Latches
  <2>6. e.type # "CurrentLimitComputed"
    BY <2>2, NothingWeighed
  <2>7. /\ o.slot.state = mv.next
        /\ o.slot.tx = TransactionStep(s, st.nextId, e, mv.next, p).tx
    BY <2>6, TransitCommands
  <2>8. Kept(s.state, d, x)
    BY DEF s
  <2>9. /\ Kept(mv.next, d /\ m.from # "driver", x /\ m.from # "executor")
        /\ ~StartsTransaction(s.state, mv.next, p)
    BY <2>2, <2>3, <2>8, KeptArc DEF OneLess
  <2>13. Kept(mv.next, d2, x2)
    BY <2>9 DEF Kept, OneLess
  <2> HIDE DEF mv, o
  <2> DEFINE t == AdvanceTransaction(s.tx, st.nextId, s.state, mv.next,
                                     EventStopReason(e), Origin(s, e), p).tx
  <2>10. TransactionStep(s, st.nextId, e, mv.next, p).tx = t
    BY <2>2, NothingWeighed DEF TransactionStep
  <2>11. t # None => s.tx # None /\ t.id = s.tx.id
    BY <2>3, <2>9, AdvanceKeepsId
  <2> HIDE DEF t
  <2>12. slot.state = mv.next /\ slot.tx = t
    BY <2>1, <2>5, <2>7, <2>10
  <2> QED BY <2>9, <2>11, <2>12, <2>13 DEF s
<1> QED BY <1>1, <1>2

\* Applying an event keeps what is known of a stop on its way.
LEMMA TurnKeepsStop ==
  ASSUME SInv, StopInv, Turn
  PROVE  StopInv'
<1> DEFINE m == mail[1]
           r == Apply(cp, m.event)
<1>1. /\ Head(mail) = m /\ m \in Mails
      /\ Len(mail') = Len(mail) - 1
      /\ \A i \in 1 .. Len(mail') : i + 1 \in 1 .. Len(mail)
                                   /\ mail'[i] = mail[i + 1]
      /\ Len(mail) \in Nat \ {0}
  BY TakeHead DEF SInv, Turn
<1>2. PICK lst : Settled(cp, lst)
  BY DEF SInv
<1>3. cp' = r.cp /\ call' = call
  BY <1>1 DEF Turn
<1>4. cp \in ChargePoints
  BY <1>2 DEF Settled
<1>5. \A c \in Connectors : Sent(cp, m.event, c, r.cp.conn[c], r.out.conn[c])
  BY <1>1, <1>2, ApplySends
<1> HIDE DEF r
<1>6. SUFFICES ASSUME NEW k \in 1 .. Len(mail'), mail'[k].from = "csms",
                      call # None, call.request.op = "Stop"
               PROVE  LET slot == cp'.conn[call.connector] IN
                      /\ Kept(slot.state, Before(k, "driver")',
                              Before(k, "executor")')
                      /\ slot.tx # None => slot.tx.id = call.request.id
  BY <1>3 DEF StopInv
<1> DEFINE c == call.connector
           d == Before(k + 1, "driver")
           x == Before(k + 1, "executor")
<1>7. c \in Connectors
  BY <1>6 DEF SInv, CallOK
<1>8. /\ k + 1 \in 1 .. Len(mail) /\ mail[k + 1].from = "csms"
      /\ 1 \in 1 .. Len(mail) /\ k \in Nat /\ k >= 1
  BY <1>1, <1>6
<1>9. /\ Kept(cp.conn[c].state, d, x)
      /\ cp.conn[c].tx # None => cp.conn[c].tx.id = call.request.id
  BY <1>6, <1>8 DEF StopInv
<1>10. m.from # "csms"
  <2>1. \A i, j \in 1 .. Len(mail) : mail[i].from = mail[j].from => i = j
    BY DEF SInv, Mailbox
  <2>2. mail[1].from # mail[k + 1].from
    BY <1>8, <2>1
  <2> QED BY <1>8, <2>2
<1>11. ASSUME NEW task
       PROVE  /\ m.from = task => Before(k + 1, task) /\ ~Before(k, task)'
              /\ Before(k, task)' => Before(k + 1, task)
  <2>1. ASSUME m.from = task PROVE Before(k + 1, task)
    <3>1. 1 \in 1 .. (k + 1) - 1
      BY <1>8
    <3> QED BY <2>1, <3>1 DEF Before
  <2>2. ASSUME NEW j \in 1 .. k - 1, mail'[j].from = task
        PROVE  j + 1 \in 1 .. (k + 1) - 1 /\ mail[j + 1].from = task
               /\ j + 1 \in 1 .. Len(mail) /\ j + 1 # 1
    BY <1>1, <1>6, <1>8, <2>2
  <2>3. Before(k, task)' => Before(k + 1, task)
    BY <2>2 DEF Before
  <2>4. ASSUME m.from = task, Before(k, task)' PROVE FALSE
    <3>1. PICK j \in 1 .. k - 1 : mail'[j].from = task
      BY <2>4 DEF Before
    <3>2. mail[j + 1].from = mail[1].from /\ j + 1 \in 1 .. Len(mail)
          /\ j + 1 # 1
      BY <2>2, <2>4, <3>1
    <3> QED BY <1>8, <3>2 DEF SInv, Mailbox
  <2> QED BY <2>1, <2>3, <2>4
<1>12. d \in BOOLEAN /\ x \in BOOLEAN
  BY DEF Before
<1> DEFINE d2 == Before(k, "driver")'
           x2 == Before(k, "executor")'
<1>13. d2 \in BOOLEAN /\ x2 \in BOOLEAN
  BY DEF Before
<1>14. OneLess(d, x, m.from, d2, x2)
  BY <1>11, <1>12, <1>13 DEF OneLess
<1> HIDE DEF d, x, d2, x2, m
<1> DEFINE slot == cp'.conn[c]
<1>15. Sent(cp, m.event, c, slot, r.out.conn[c])
  BY <1>3, <1>5, <1>7
<1>17. c \in Connectors /\ cp \in ChargePoints /\ m \in Mails /\ m.from # "csms"
  BY <1>1, <1>4, <1>7, <1>10
<1> HIDE DEF slot, c
<1> DEFINE effects == r.out.conn[c]
<1> HIDE DEF effects
<1>18. Sent(cp, m.event, c, slot, effects)
  BY <1>15 DEF effects
<1>16. /\ Kept(slot.state, d2, x2)
       /\ slot.tx # None => cp.conn[c].tx # None /\ slot.tx.id = cp.conn[c].tx.id
  BY <1>9, <1>14, <1>17, <1>18, KeptBySight
<1> QED BY <1>9, <1>16 DEF slot, d2, x2, c

\* The mailbox grows by at most one event, of another task than the CSMS's.
Grows ==
    \/ mail' = mail
    \/ /\ Len(mail) \in Nat /\ Len(mail') = Len(mail) + 1
       /\ \A i \in 1 .. Len(mail) : mail'[i] = mail[i]
       /\ mail'[Len(mail) + 1].from # "csms"

\* So does an event that joins the mailbox behind it.
LEMMA GrowingKeepsStop ==
  ASSUME StopInv, cp' = cp, call' = call, Grows
  PROVE  StopInv'
<1>1. CASE mail' = mail
  <2>1. ASSUME NEW k, NEW task PROVE Before(k, task)' = Before(k, task)
    BY <1>1 DEF Before
  <2> SUFFICES ASSUME NEW k \in 1 .. Len(mail'), mail'[k].from = "csms",
                      call # None, call.request.op = "Stop"
               PROVE  LET slot == cp.conn[call.connector] IN
                      /\ Kept(slot.state, Before(k, "driver")',
                              Before(k, "executor")')
                      /\ slot.tx # None => slot.tx.id = call.request.id
    BY DEF StopInv
  <2>2. k \in 1 .. Len(mail) /\ mail[k].from = "csms"
    BY <1>1
  <2> QED BY <2>1, <2>2 DEF StopInv
<1>2. CASE mail' # mail
  <2>1. /\ Len(mail) \in Nat /\ Len(mail') = Len(mail) + 1
        /\ \A i \in 1 .. Len(mail) : mail'[i] = mail[i]
        /\ mail'[Len(mail) + 1].from # "csms"
    BY <1>2 DEF Grows
  <2> SUFFICES ASSUME NEW k \in 1 .. Len(mail'), mail'[k].from = "csms",
                      call # None, call.request.op = "Stop"
               PROVE  LET slot == cp.conn[call.connector] IN
                      /\ Kept(slot.state, Before(k, "driver")',
                              Before(k, "executor")')
                      /\ slot.tx # None => slot.tx.id = call.request.id
    BY DEF StopInv
  <2>2. k \in 1 .. Len(mail) /\ mail[k].from = "csms"
    BY <2>1
  <2>3. ASSUME NEW task PROVE Before(k, task)' = Before(k, task)
    <3>1. \A j \in 1 .. k - 1 : mail'[j] = mail[j]
      BY <2>1, <2>2
    <3> QED BY <3>1 DEF Before
  <2> QED BY <2>2, <2>3 DEF StopInv
<1> QED BY <1>1, <1>2

\* A send of another task lets it grow.
LEMMA SendGrows ==
  ASSUME SInv, Capacity >= 5, NEW task \in Tasks \ {"csms"}, NEW e,
         [from |-> task, event |-> e] \in Mails, Idle(task), Send(task, e)
  PROVE  Grows
<1>1. /\ Len(mail') = Len(mail) + 1 /\ Len(mail) \in Nat
      /\ \A i \in 1 .. Len(mail) : mail'[i] = mail[i]
      /\ mail'[Len(mail) + 1] = [from |-> task, event |-> e]
  BY SendLands DEF SInv
<1>2. mail'[Len(mail) + 1].from # "csms"
  BY <1>1
<1> QED BY <1>1, <1>2 DEF Grows

\* So does every step.
LEMMA StepKeepsStop ==
  ASSUME SInv, Capacity >= 5, StopInv, [StationNext]_allVars
  PROVE  StopInv'
<1>0. {"driver", "executor", "holds", "expiry"} \subseteq Tasks \ {"csms"}
  BY DEF Tasks
<1>1. CASE UNCHANGED allVars
  <2>1. cp' = cp /\ call' = call /\ Grows
    BY <1>1 DEF allVars, vars, stationVars, Grows
  <2> QED BY <2>1, GrowingKeepsStop
<1>2. CASE Turn
  BY <1>2, TurnKeepsStop
<1>3. CASE Execute
  <2>1. cp' = cp /\ call' = call
    BY <1>3 DEF Execute, vars
  <2>2. Grows
    <3>1. PICK failed \in BOOLEAN :
             \/ /\ commands[1] \in Reboots
                /\ IF failed
                     THEN Send("executor", [type |-> "EvseFaultDetected",
                                            evse |-> commands[1].evse])
                     ELSE mail' = mail
             \/ /\ commands[1] \in ConnCommands
                /\ ExecuteOnConnector(commands[1], failed)
      BY <1>3, ExecuteSends
    <3>2. Idle("executor")
      BY <1>3, ExecuteSends
    <3>3. CASE commands[1] \in Reboots /\ failed
      <4>1. commands[1] \notin ConnCommands /\ commands[1].evse \in Evses
        BY <3>3 DEF ConnCommands, Reboots, ConnectorCommands
      <4> QED BY <1>0, <3>1, <3>2, <3>3, <4>1, RebootFaultsAreMails, SendGrows
    <3>4. CASE commands[1] \in Reboots /\ ~failed
      <4>1. commands[1] \notin ConnCommands
        BY <3>4 DEF ConnCommands, Reboots, ConnectorCommands
      <4> QED BY <3>1, <3>4, <4>1 DEF Grows
    <3>5. CASE commands[1] \in ConnCommands
      <4>1. commands[1] \notin Reboots
        BY <3>5 DEF ConnCommands, Reboots, ConnectorCommands
      <4>2. Send("executor", OnC(commands[1].connector,
                                 ConnectorOutcome(commands[1], failed)))
        BY <3>1, <4>1 DEF ExecuteOnConnector
      <4> QED BY <1>0, <3>2, <3>5, <4>2, ConfirmationsAreMails, SendGrows
    <3> QED BY <3>1, <3>3, <3>4, <3>5
  <2> QED BY <2>1, <2>2, GrowingKeepsStop
<1>4. CASE Driver
  <2>1. PICK c \in Driven, e \in DriverReports :
            /\ Send("driver", OnC(c, e)) /\ Idle("driver")
            /\ UNCHANGED <<vars, call>>
    BY <1>4, DriverSendsOne
  <2>2. [from |-> "driver", event |-> OnC(c, e)] \in Mails
    BY DEF Mails, ToConnector, OnC
  <2>3. Grows
    BY <1>0, <2>1, <2>2, SendGrows
  <2>4. cp' = cp /\ call' = call
    BY <2>1 DEF vars
  <2> QED BY <2>3, <2>4, GrowingKeepsStop
<1>5. CASE SweepHolds \/ SweepNextHold
  <2>1. /\ UNCHANGED <<vars, call>>
        /\ \/ mail' = mail
           \/ \E c \in Connectors : Idle("holds") /\
                 Send("holds", OnC(c, Bare("RemoteStartPendingCleared")))
    BY <1>5, HoldsKeepS
  <2>2. \A c \in Connectors :
           [from |-> "holds", event |-> OnC(c, Bare("RemoteStartPendingCleared"))]
             \in Mails
    BY DEF Mails, ToConnector, OnC, Bare
  <2>3. Grows
    BY <1>0, <2>1, <2>2, SendGrows DEF Grows
  <2>4. cp' = cp /\ call' = call
    BY <2>1 DEF vars
  <2> QED BY <2>3, <2>4, GrowingKeepsStop
<1>6. CASE SweepReservations \/ SweepNextReservation
  <2>1. /\ UNCHANGED <<vars, call>>
        /\ \E c \in Connectors : Idle("expiry") /\
                 Send("expiry", OnC(c, Bare("ReservationExpired")))
    BY <1>6, ExpiryKeepsS
  <2>2. \A c \in Connectors :
           [from |-> "expiry", event |-> OnC(c, Bare("ReservationExpired"))]
             \in Mails
    BY DEF Mails, ToConnector, OnC, Bare
  <2>3. Grows
    BY <1>0, <2>1, <2>2, SendGrows
  <2>4. cp' = cp /\ call' = call
    BY <2>1 DEF vars
  <2> QED BY <2>3, <2>4, GrowingKeepsStop
<1>7. CASE Request
  <2>1. PICK q \in Requests : Handle(q)
    BY <1>7 DEF Request
  <2>2. /\ cp' = cp /\ call = None /\ Idle("csms")
    BY <2>1, HandleSends DEF vars
  <2>3. CASE q.op = "Reset"
    <3>1. call'.request.op = "Reset"
      BY <2>1, <2>3 DEF Handle, HandleReset, Opens
    <3> QED BY <3>1 DEF StopInv
  <2>4. CASE q.op # "Reset"
    <3>1. PICK c, e : Forward(q, c, e) /\ Decided(q, c, e)
      BY <2>1, <2>4, HandleForwards
    <3>2. /\ Send("csms", e) /\ [from |-> "csms", event |-> e] \in Mails
          /\ call' = [request |-> q, pc |-> "sent", connector |-> c]
      BY <3>1 DEF Forward, Opens, Decided
    <3>3. /\ Len(mail') = Len(mail) + 1 /\ Len(mail) \in Nat
          /\ \A i \in 1 .. Len(mail) : mail'[i] = mail[i]
      BY <2>2, <3>2, SendLands DEF SInv, Tasks
    <3>4. ASSUME q.op = "Stop"
          PROVE  /\ cp.conn[c].state \in Powered
                 /\ cp.conn[c].tx.id = q.id
      BY <3>1, <3>4 DEF Decided, Powered
    <3> QED BY <2>2, <3>2, <3>4 DEF StopInv, Kept
  <2> QED BY <2>3, <2>4
<1>8. CASE RequestReset
  <2>1. call'.request.op = "Reset"
    BY <1>8, RequestResetKeepsS
  <2> QED BY <2>1 DEF StopInv
<1>9. CASE Answer
  <2>1. call' = None
    BY <1>9 DEF Answer
  <2> QED BY <2>1 DEF StopInv
<1> QED BY <1>1, <1>2, <1>3, <1>4, <1>5, <1>6, <1>7, <1>8, <1>9
        DEF StationNext

\* It is enough for a stop to end the transaction it names.
LEMMA StopInvShows ==
  ASSUME StopInv
  PROVE  StopsWhatItNames
<1> SUFFICES ASSUME call # None, call.request.op = "Stop", ~Idle("csms"),
                    cp.conn[call.connector].tx # None
             PROVE  cp.conn[call.connector].tx.id = call.request.id
  BY DEF StopsWhatItNames
<1>1. PICK k \in 1 .. Len(mail) : mail[k].from = "csms"
  BY DEF Idle
<1> QED BY <1>1 DEF StopInv

\* Handlers do what they answered for: with one place in the mailbox per task no
\* event is ever refused, a stop ends the transaction it names and no other, and
\* no reboot the CSMS asked for is under way before its reason is on storage
\* (sync.rs, remote_control.rs, reset.rs).
THEOREM HandlersFaithful ==
  ASSUME Capacity >= 5
  PROVE  StationSpec => []HandlersAreFaithful
<1>1. StationInit => SInv /\ StopInv
  <2>1. StationInit => StopInv
    <3>1. StationInit => call = None
      BY DEF StationInit
    <3> QED BY <3>1 DEF StopInv
  <2> QED BY <2>1, InitSInv
<1>2. SInv /\ StopInv /\ [StationNext]_allVars => (SInv /\ StopInv)'
  BY StepKeepsS, StepKeepsStop
<1>3. SInv /\ StopInv => HandlersAreFaithful
  BY SInvShows, StopInvShows DEF HandlersAreFaithful
<1> QED BY <1>1, <1>2, <1>3, PTL DEF StationSpec

-----------------------------------------------------------------------------
(* Power: what a connector's contactor, its state and the commands queued   *)
(* for it owe each other.                                                   *)

\* The i-th command of a queue is one of the given kind, for the given connector.
IsFor(q, i, c, type) == q[i].type = type /\ q[i].connector = c

\* A contactor to be closed belongs to a session, or is to be opened again.
CloseIsOwed(c, st, q) ==
    \A i \in 1 .. Len(q) :
        IsFor(q, i, c, "CloseContactor") =>
            \/ st \in Owning
            \/ \E j \in i + 1 .. Len(q) : IsFor(q, j, c, "OpenContactor")

\* Between a contactor's closing and an unlocking there is its opening.
UnlockFollowsOpen(c, q) ==
    \A i, k \in 1 .. Len(q) :
        i < k /\ IsFor(q, i, c, "CloseContactor") /\ IsFor(q, k, c, "Unlock") =>
            \E j \in i + 1 .. k - 1 : IsFor(q, j, c, "OpenContactor")

\* ClosedContactorIsOwned, of one connector.
IsOwned(c, st, q, closed, reported) ==
    closed => \/ st \in Owning
              \/ \E i \in 1 .. Len(q) : IsFor(q, i, c, "OpenContactor")
              \/ reported

\* LatchHeldUnderLoad, of one connector.
IsLatched(c, st, q, closed, reported) ==
    \A i \in 1 .. Len(q) :
        closed /\ IsFor(q, i, c, "Unlock") =>
            \/ \E j \in 1 .. i - 1 : IsFor(q, j, c, "OpenContactor")
            \/ reported
            \/ st = "Faulted"

Guarded(c, st, q, closed, reported) ==
    /\ CloseIsOwed(c, st, q)
    /\ UnlockFollowsOpen(c, q)
    /\ IsOwned(c, st, q, closed, reported)
    /\ IsLatched(c, st, q, closed, reported)

\* A connector no driver turns up at begins no session.
Calm(c, st, q, closed) ==
    /\ st \in Deserted
    /\ ~closed
    /\ \A i \in 1 .. Len(q) :
          q[i] \in ConnCommands /\ q[i].connector = c => q[i].type = "OpenContactor"

\* A contactor's opening is confirmed while it is open, and no availability
\* change is on its way to a connector in use.
MailIsApart ==
    \A i \in 1 .. Len(mail) : mail[i].event.type = "Connector" =>
        LET c == mail[i].event.connector
            type == mail[i].event.event.type
        IN /\ type \in SettingTypes => c \notin Driven
           /\ type = "ContactorOpened" => ~phys[c].closed

PowerOf(c, st, q, closed, reported) ==
    IF c \in Driven THEN Guarded(c, st, q, closed, reported)
    ELSE Calm(c, st, q, closed)

PowerInv ==
    /\ MailIsApart
    /\ \A c \in Connectors :
          PowerOf(c, cp.conn[c].state, commands, phys[c].closed, FaultReported(c))

-----------------------------------------------------------------------------
(* What a step does to one connector's commands.                            *)

\* One command at most is added at the end.
Extends(q2, q, c, x) ==
    /\ Len(q) \in Nat /\ Len(q2) \in Nat /\ Len(q2) >= Len(q)
    /\ \A i \in 1 .. Len(q) : q2[i] = q[i]
    /\ \A i \in Len(q) + 1 .. Len(q2), type \in ConnectorCommands :
          IsFor(q2, i, c, type) => type = x
    /\ x # None => \E i \in Len(q) + 1 .. Len(q2) : IsFor(q2, i, c, x)
    /\ \A i, j \in Len(q) + 1 .. Len(q2), type \in ConnectorCommands :
          IsFor(q2, i, c, type) /\ IsFor(q2, j, c, type) => i = j

\* The commands the actor broadcasts go to the end of the queue.
LEMMA BroadcastExtends ==
  ASSUME NEW q \in Seq(Commands), NEW more \in Seq(Commands), NEW c, NEW x,
         Tells(more, c, x)
  PROVE  Extends(q \o more, q, c, x)
<1> DEFINE q2 == q \o more
<1>1. /\ Len(q) \in Nat /\ Len(more) \in Nat /\ q2 \in Seq(Commands)
      /\ Len(q2) = Len(q) + Len(more)
      /\ \A i \in 1 .. Len(q) : q2[i] = q[i]
      /\ \A i \in Len(q) + 1 .. Len(q2) : q2[i] = more[i - Len(q)]
  BY ConcatProperties, LenProperties
<1> HIDE DEF q2
<1>2. \A i \in Len(q) + 1 .. Len(q2) : i - Len(q) \in 1 .. Len(more)
  BY <1>1
<1>3. ASSUME NEW i \in Len(q) + 1 .. Len(q2), NEW type \in ConnectorCommands,
             IsFor(q2, i, c, type)
      PROVE  type = x
  <2> DEFINE j == i - Len(q)
  <2>1. j \in 1 .. Len(more) /\ more[j].type = type /\ more[j].connector = c
    BY <1>1, <1>2, <1>3 DEF IsFor
  <2> HIDE DEF j
  <2>2. more[j] \in Commands
    BY <2>1, ElementOfSeq
  <2>3. more[j] \in ConnCommands
    BY <2>1, <2>2 DEF Commands, Reboots, ConnectorCommands
  <2> QED BY <2>1, <2>3 DEF Tells
<1>4. ASSUME x # None
      PROVE  \E i \in Len(q) + 1 .. Len(q2) : IsFor(q2, i, c, x)
  <2>1. PICK j \in 1 .. Len(more) : more[j] = [connector |-> c, type |-> x]
    BY <1>4 DEF Tells
  <2>2. Len(q) + j \in Len(q) + 1 .. Len(q2) /\ (Len(q) + j) - Len(q) = j
    BY <1>1
  <2>3. q2[Len(q) + j] = [connector |-> c, type |-> x]
    BY <1>1, <2>1, <2>2
  <2> QED BY <2>2, <2>3 DEF IsFor
<1>5. Len(q2) >= Len(q) /\ Len(q2) \in Nat
  BY <1>1
<1>7. ASSUME NEW i \in Len(q) + 1 .. Len(q2), NEW j \in Len(q) + 1 .. Len(q2),
             NEW type \in ConnectorCommands,
             IsFor(q2, i, c, type), IsFor(q2, j, c, type)
      PROVE  i = j
  <2>1. \A k \in Len(q) + 1 .. Len(q2) : IsFor(q2, k, c, type) =>
           /\ k - Len(q) \in 1 .. Len(more)
           /\ more[k - Len(q)] \in ConnCommands /\ more[k - Len(q)].connector = c
    <3> SUFFICES ASSUME NEW k \in Len(q) + 1 .. Len(q2), IsFor(q2, k, c, type)
                 PROVE  /\ k - Len(q) \in 1 .. Len(more)
                        /\ more[k - Len(q)] \in ConnCommands
                        /\ more[k - Len(q)].connector = c
      OBVIOUS
    <3>1. /\ k - Len(q) \in 1 .. Len(more)
          /\ more[k - Len(q)].type = type /\ more[k - Len(q)].connector = c
      BY <1>1, <1>2 DEF IsFor
    <3>2. more[k - Len(q)] \in Commands
      BY <3>1, ElementOfSeq
    <3> QED BY <3>1, <3>2 DEF Commands, Reboots, ConnectorCommands
  <2>2. i - Len(q) = j - Len(q)
    BY <1>7, <2>1 DEF Tells
  <2> QED BY <1>1, <2>2
<1>6. Extends(q2, q, c, x)
  BY <1>1, <1>3, <1>4, <1>5, <1>7 DEF Extends
<1> QED BY <1>6 DEF q2

\* The actor applies one event to a connector in use.
LEMMA TurnGuards ==
  ASSUME NEW c, NEW st, NEW next, NEW t, NEW x, Arc(st, t, next, x),
         t \notin SettingTypes, NEW q, NEW q2, Extends(q2, q, c, x),
         NEW closed, NEW reported, NEW reported2,
         Guarded(c, st, q, closed, reported),
         t = "FaultDetected" \/ (reported => reported2),
         closed => t # "ContactorOpened"
  PROVE  Guarded(c, next, q2, closed, reported2)
<1>1. /\ Len(q) \in Nat /\ Len(q2) \in Nat /\ Len(q2) >= Len(q)
      /\ \A i \in 1 .. Len(q) : q2[i] = q[i]
  BY DEF Extends
<1>2. \A type : \A i \in 1 .. Len(q) : IsFor(q2, i, c, type) <=> IsFor(q, i, c, type)
  BY <1>1 DEF IsFor
<1>3. \A i \in Len(q) + 1 .. Len(q2), type \in ConnectorCommands :
          IsFor(q2, i, c, type) => type = x
  BY DEF Extends
<1>4. ASSUME x = "OpenContactor"
      PROVE  \E i \in Len(q) + 1 .. Len(q2) : IsFor(q2, i, c, "OpenContactor")
  BY <1>4, SlotAssumption DEF Extends, ConnectorCommands
<1>5. {"Lock", "Unlock", "CloseContactor", "OpenContactor"} = ConnectorCommands
  BY DEF ConnectorCommands
<1>6. CloseIsOwed(c, next, q2)
  <2> SUFFICES ASSUME NEW i \in 1 .. Len(q2), IsFor(q2, i, c, "CloseContactor"),
                      next \notin Owning
               PROVE  \E j \in i + 1 .. Len(q2) : IsFor(q2, j, c, "OpenContactor")
    BY DEF CloseIsOwed
  <2>1. i \in 1 .. Len(q) /\ IsFor(q, i, c, "CloseContactor")
    <3>1. CASE i \in 1 .. Len(q)
      BY <1>2, <3>1
    <3>2. CASE i \in Len(q) + 1 .. Len(q2)
      <4>1. x = "CloseContactor"
        BY <1>3, <1>5, <3>2
      <4> QED BY <4>1 DEF Arc
    <3> QED BY <1>1, <3>1, <3>2
  <2>2. CASE st \in Owning
    <3>1. x = "OpenContactor"
      BY <2>2 DEF Arc
    <3>2. PICK j \in Len(q) + 1 .. Len(q2) : IsFor(q2, j, c, "OpenContactor")
      BY <1>4, <3>1
    <3>3. j \in i + 1 .. Len(q2)
      BY <1>1, <2>1
    <3> QED BY <3>2, <3>3
  <2>3. CASE st \notin Owning
    <3>1. PICK j \in i + 1 .. Len(q) : IsFor(q, j, c, "OpenContactor")
      BY <2>1, <2>3 DEF Guarded, CloseIsOwed
    <3>2. j \in 1 .. Len(q) /\ j \in i + 1 .. Len(q2)
      BY <1>1, <2>1
    <3> QED BY <1>2, <3>1, <3>2
  <2> QED BY <2>2, <2>3
<1>7. UnlockFollowsOpen(c, q2)
  <2> SUFFICES ASSUME NEW i \in 1 .. Len(q2), NEW k \in 1 .. Len(q2), i < k,
                      IsFor(q2, i, c, "CloseContactor"),
                      IsFor(q2, k, c, "Unlock")
               PROVE  \E j \in i + 1 .. k - 1 : IsFor(q2, j, c, "OpenContactor")
    BY DEF UnlockFollowsOpen
  <2>1. CASE k \in 1 .. Len(q)
    <3>1. i \in 1 .. Len(q)
      BY <1>1, <2>1
    <3>2. PICK j \in i + 1 .. k - 1 : IsFor(q, j, c, "OpenContactor")
      BY <1>2, <2>1, <3>1 DEF Guarded, UnlockFollowsOpen
    <3>3. j \in 1 .. Len(q)
      BY <1>1, <2>1, <3>1
    <3> QED BY <1>2, <3>2, <3>3
  <2>2. CASE k \in Len(q) + 1 .. Len(q2)
    <3>1. x = "Unlock"
      BY <1>3, <1>5, <2>2
    <3>2. st \notin Owning
      BY <3>1 DEF Arc
    <3>3. i \in 1 .. Len(q)
      <4>1. ~(i \in Len(q) + 1 .. Len(q2))
        BY <1>3, <1>5, <3>1
      <4> QED BY <1>1, <4>1
    <3>4. PICK j \in i + 1 .. Len(q) : IsFor(q, j, c, "OpenContactor")
      BY <1>2, <3>2, <3>3 DEF Guarded, CloseIsOwed
    <3>5. j \in 1 .. Len(q) /\ j \in i + 1 .. k - 1
      BY <1>1, <2>2, <3>3
    <3> QED BY <1>2, <3>4, <3>5
  <2> QED BY <1>1, <2>1, <2>2
<1>8. ASSUME reported, ~reported2
      PROVE  next = "Faulted" /\ x = "OpenContactor"
  BY <1>8 DEF Arc
<1>9. IsOwned(c, next, q2, closed, reported2)
  <2> SUFFICES ASSUME closed, next \notin Owning, ~reported2
               PROVE  \E j \in 1 .. Len(q2) : IsFor(q2, j, c, "OpenContactor")
    BY DEF IsOwned
  <2>1. CASE x = "OpenContactor"
    <3>1. PICK j \in Len(q) + 1 .. Len(q2) : IsFor(q2, j, c, "OpenContactor")
      BY <1>4, <2>1
    <3>2. j \in 1 .. Len(q2)
      BY <1>1
    <3> QED BY <3>1, <3>2
  <2>2. CASE x # "OpenContactor"
    <3>1. st \notin Owning /\ ~reported
      BY <1>8, <2>2 DEF Arc
    <3>2. PICK j \in 1 .. Len(q) : IsFor(q, j, c, "OpenContactor")
      BY <3>1 DEF Guarded, IsOwned
    <3>3. j \in 1 .. Len(q2)
      BY <1>1
    <3> QED BY <1>2, <3>2, <3>3
  <2> QED BY <2>1, <2>2
<1>10. IsLatched(c, next, q2, closed, reported2)
  <2> SUFFICES ASSUME NEW i \in 1 .. Len(q2), closed, IsFor(q2, i, c, "Unlock"),
                      ~reported2, next # "Faulted"
               PROVE  \E j \in 1 .. i - 1 : IsFor(q2, j, c, "OpenContactor")
    BY DEF IsLatched
  <2>1. ~reported /\ st # "Faulted"
    BY <1>8 DEF Arc
  <2>2. CASE i \in 1 .. Len(q)
    <3>1. PICK j \in 1 .. i - 1 : IsFor(q, j, c, "OpenContactor")
      BY <1>2, <2>1, <2>2 DEF Guarded, IsLatched
    <3>2. j \in 1 .. Len(q)
      BY <1>1, <2>2
    <3> QED BY <1>2, <3>1, <3>2
  <2>3. CASE i \in Len(q) + 1 .. Len(q2)
    <3>1. x = "Unlock"
      BY <1>3, <1>5, <2>3
    <3>2. st \notin Owning
      BY <3>1 DEF Arc
    <3>3. PICK j \in 1 .. Len(q) : IsFor(q, j, c, "OpenContactor")
      BY <2>1, <3>2 DEF Guarded, IsOwned
    <3>4. j \in 1 .. i - 1
      BY <1>1, <2>3
    <3> QED BY <1>2, <3>3, <3>4
  <2> QED BY <1>1, <2>2, <2>3
<1> QED BY <1>6, <1>7, <1>9, <1>10 DEF Guarded

\* The head of a queue was taken.
Taken(q2, q) ==
    /\ Len(q) \in Nat \ {0} /\ Len(q2) = Len(q) - 1
    /\ \A i \in 1 .. Len(q2) : i + 1 \in 1 .. Len(q) /\ q2[i] = q[i + 1]

\* A command of a queue whose head was taken, in the queue and in the rest of it.
LEMMA TakenMoves ==
  ASSUME NEW q, NEW q2, Taken(q2, q), NEW c, NEW type
  PROVE  /\ \A i \in 1 .. Len(q2) :
               i + 1 \in 1 .. Len(q)
               /\ (IsFor(q2, i, c, type) <=> IsFor(q, i + 1, c, type))
         /\ \A i \in 2 .. Len(q) :
               i - 1 \in 1 .. Len(q2)
               /\ (IsFor(q, i, c, type) <=> IsFor(q2, i - 1, c, type))
<1>1. \A i \in 2 .. Len(q) : i - 1 \in 1 .. Len(q2) /\ (i - 1) + 1 = i
  BY DEF Taken
<1> QED BY <1>1 DEF Taken, IsFor

\* What the commands that remain owe each other, whichever was taken.
LEMMA RestIsOwed ==
  ASSUME NEW c, NEW st, NEW q, NEW q2, Taken(q2, q), CloseIsOwed(c, st, q),
         UnlockFollowsOpen(c, q)
  PROVE  CloseIsOwed(c, st, q2) /\ UnlockFollowsOpen(c, q2)
<1>1. CloseIsOwed(c, st, q2)
  <2> SUFFICES ASSUME NEW i \in 1 .. Len(q2), IsFor(q2, i, c, "CloseContactor"),
                      st \notin Owning
               PROVE  \E j \in i + 1 .. Len(q2) : IsFor(q2, j, c, "OpenContactor")
    BY DEF CloseIsOwed
  <2>1. i + 1 \in 1 .. Len(q) /\ IsFor(q, i + 1, c, "CloseContactor")
    BY TakenMoves
  <2>2. PICK j \in (i + 1) + 1 .. Len(q) : IsFor(q, j, c, "OpenContactor")
    BY <2>1 DEF CloseIsOwed
  <2>3. j \in 2 .. Len(q) /\ j - 1 \in i + 1 .. Len(q2)
    BY <2>1 DEF Taken
  <2>4. IsFor(q2, j - 1, c, "OpenContactor")
    BY <2>2, <2>3, TakenMoves
  <2> QED BY <2>3, <2>4
<1>2. UnlockFollowsOpen(c, q2)
  <2> SUFFICES ASSUME NEW i \in 1 .. Len(q2), NEW k \in 1 .. Len(q2), i < k,
                      IsFor(q2, i, c, "CloseContactor"),
                      IsFor(q2, k, c, "Unlock")
               PROVE  \E j \in i + 1 .. k - 1 : IsFor(q2, j, c, "OpenContactor")
    BY DEF UnlockFollowsOpen
  <2>1. /\ i + 1 \in 1 .. Len(q) /\ IsFor(q, i + 1, c, "CloseContactor")
        /\ k + 1 \in 1 .. Len(q) /\ IsFor(q, k + 1, c, "Unlock")
        /\ i + 1 < k + 1
    BY TakenMoves
  <2>2. PICK j \in (i + 1) + 1 .. (k + 1) - 1 : IsFor(q, j, c, "OpenContactor")
    BY <2>1 DEF UnlockFollowsOpen
  <2>3. j \in 2 .. Len(q) /\ j - 1 \in i + 1 .. k - 1
    BY <2>1 DEF Taken
  <2>4. IsFor(q2, j - 1, c, "OpenContactor")
    BY <2>2, <2>3, TakenMoves
  <2> QED BY <2>3, <2>4
<1> QED BY <1>1, <1>2

\* The executor does nothing to this contactor, or fails to close it.
LEMMA SkipGuards ==
  ASSUME NEW c, NEW st, NEW q, NEW q2, Taken(q2, q), NEW closed, NEW reported,
         NEW reported2, Guarded(c, st, q, closed, reported),
         reported => reported2,
         closed /\ IsFor(q, 1, c, "OpenContactor") => reported2
  PROVE  Guarded(c, st, q2, closed, reported2)
<1>1. CloseIsOwed(c, st, q2) /\ UnlockFollowsOpen(c, q2)
  BY RestIsOwed DEF Guarded
<1>2. IsOwned(c, st, q2, closed, reported2)
  <2> SUFFICES ASSUME closed, st \notin Owning, ~reported2
               PROVE  \E j \in 1 .. Len(q2) : IsFor(q2, j, c, "OpenContactor")
    BY DEF IsOwned
  <2>1. PICK j \in 1 .. Len(q) : IsFor(q, j, c, "OpenContactor")
    BY DEF Guarded, IsOwned
  <2>2. j \in 2 .. Len(q)
    <3>1. j # 1
      BY <2>1
    <3> QED BY <3>1 DEF Taken
  <2> QED BY <2>1, <2>2, TakenMoves
<1>3. IsLatched(c, st, q2, closed, reported2)
  <2> SUFFICES ASSUME NEW i \in 1 .. Len(q2), closed, IsFor(q2, i, c, "Unlock"),
                      ~reported2, st # "Faulted"
               PROVE  \E j \in 1 .. i - 1 : IsFor(q2, j, c, "OpenContactor")
    BY DEF IsLatched
  <2>1. i + 1 \in 1 .. Len(q) /\ IsFor(q, i + 1, c, "Unlock")
    BY TakenMoves
  <2>2. PICK j \in 1 .. (i + 1) - 1 : IsFor(q, j, c, "OpenContactor")
    BY <2>1 DEF Guarded, IsLatched
  <2>3. j # 1
    BY <2>2
  <2>4. j \in 2 .. Len(q) /\ j - 1 \in 1 .. i - 1
    BY <2>1, <2>3 DEF Taken
  <2>5. IsFor(q2, j - 1, c, "OpenContactor")
    BY <2>2, <2>4, TakenMoves
  <2> QED BY <2>4, <2>5
<1> QED BY <1>1, <1>2, <1>3 DEF Guarded

\* The executor opens the contactor.
LEMMA OpenGuards ==
  ASSUME NEW c, NEW st, NEW q, NEW q2, Taken(q2, q), NEW closed, NEW reported,
         NEW closed2, NEW reported2, Guarded(c, st, q, closed, reported),
         ~closed2
  PROVE  Guarded(c, st, q2, closed2, reported2)
<1>1. CloseIsOwed(c, st, q2) /\ UnlockFollowsOpen(c, q2)
  BY RestIsOwed DEF Guarded
<1> QED BY <1>1 DEF Guarded, IsOwned, IsLatched

\* The executor closes it.
LEMMA CloseGuards ==
  ASSUME NEW c, NEW st, NEW q, NEW q2, Taken(q2, q), NEW closed, NEW reported,
         NEW closed2, NEW reported2, Guarded(c, st, q, closed, reported),
         IsFor(q, 1, c, "CloseContactor")
  PROVE  Guarded(c, st, q2, closed2, reported2)
<1>1. CloseIsOwed(c, st, q2) /\ UnlockFollowsOpen(c, q2)
  BY RestIsOwed DEF Guarded
<1>2. 1 \in 1 .. Len(q) /\ 1 + 1 = 2
  BY DEF Taken
<1>3. st \in Owning \/ \E j \in 1 .. Len(q2) : IsFor(q2, j, c, "OpenContactor")
  <2>1. st \in Owning \/ \E j \in 2 .. Len(q) : IsFor(q, j, c, "OpenContactor")
    BY <1>2 DEF Guarded, CloseIsOwed
  <2> QED BY <2>1, TakenMoves
<1>4. IsLatched(c, st, q2, closed2, reported2)
  <2> SUFFICES ASSUME NEW i \in 1 .. Len(q2), IsFor(q2, i, c, "Unlock")
               PROVE  \E j \in 1 .. i - 1 : IsFor(q2, j, c, "OpenContactor")
    BY DEF IsLatched
  <2>1. i + 1 \in 1 .. Len(q) /\ IsFor(q, i + 1, c, "Unlock") /\ 1 < i + 1
    BY TakenMoves
  <2>2. PICK j \in 2 .. (i + 1) - 1 : IsFor(q, j, c, "OpenContactor")
    BY <1>2, <2>1 DEF Guarded, UnlockFollowsOpen
  <2>3. j \in 2 .. Len(q) /\ j - 1 \in 1 .. i - 1
    BY <2>1 DEF Taken
  <2>4. IsFor(q2, j - 1, c, "OpenContactor")
    BY <2>2, <2>3, TakenMoves
  <2> QED BY <2>3, <2>4
<1> QED BY <1>1, <1>3, <1>4 DEF Guarded, IsOwned

\* Cables and cleared faults are reported where a driver turns up.
LEMMA DriversAreDriven ==
  ASSUME NEW m \in Mails, NEW c, Sees(m.event, c),
         SeenOf(m.event).type \in {"CableConnected", "FaultCleared"}
  PROVE  c \in Driven
<1>1. CASE m.from = "driver"
  BY <1>1 DEF Mails, ToConnector, SeenOf, Sees
<1>2. CASE m.from # "driver"
  BY <1>2 DEF Mails, ToConnector, SeenOf, Sees, Bare, Confirmations, Orders,
              Settings, StationOrders
<1> QED BY <1>1, <1>2

\* Only the executor confirms an opening.
LEMMA OpeningsAreTheExecutors ==
  ASSUME NEW m \in Mails, m.event.type = "Connector",
         m.event.event.type = "ContactorOpened"
  PROVE  m.from = "executor"
BY DEF Mails, ToConnector, DriverReports, Orders, Settings, StationOrders

\* What MailIsApart says of an event a connector sees.
LEMMA SeenApart ==
  ASSUME NEW m \in Mails, NEW c, Sees(m.event, c),
         SeenOf(m.event).type \in SettingTypes \cup {"ContactorOpened"}
  PROVE  /\ m.event.type = "Connector" /\ m.event.connector = c
         /\ SeenOf(m.event) = m.event.event
BY DEF Sees, SeenOf, Bare, SettingTypes

\* One event, as a connector no driver turns up at takes it.
LEMMA TurnCalms ==
  ASSUME NEW c \in Connectors, NEW st, NEW next, NEW t, NEW x, Arc(st, t, next, x),
         t \notin {"CableConnected", "FaultCleared"}, NEW q \in Seq(Commands),
         NEW more \in Seq(Commands), Tells(more, c, x), NEW closed,
         Calm(c, st, q, closed)
  PROVE  Calm(c, next, q \o more, closed)
<1> DEFINE q2 == q \o more
<1>1. next \in Deserted /\ x \in {None, "OpenContactor"}
  BY DEF Arc, Calm
<1>2. ASSUME NEW i \in 1 .. Len(q2), q2[i] \in ConnCommands, q2[i].connector = c
      PROVE  q2[i].type = "OpenContactor"
  <2>1. /\ Len(q) \in Nat /\ Len(more) \in Nat
        /\ Len(q2) = Len(q) + Len(more)
        /\ \A j \in 1 .. Len(q) : q2[j] = q[j]
        /\ \A j \in Len(q) + 1 .. Len(q2) : q2[j] = more[j - Len(q)]
    BY ConcatProperties, LenProperties
  <2> HIDE DEF q2
  <2>2. CASE i \in 1 .. Len(q)
    BY <1>2, <2>1, <2>2 DEF Calm
  <2>3. CASE i \in Len(q) + 1 .. Len(q2)
    <3>1. i - Len(q) \in 1 .. Len(more) /\ q2[i] = more[i - Len(q)]
      BY <2>1, <2>3
    <3>2. q2[i].type = x
      BY <1>2, <3>1 DEF Tells
    <3>3. q2[i].type \in ConnectorCommands
      BY <1>2 DEF ConnCommands
    <3> QED BY <1>1, <3>2, <3>3, SlotAssumption
  <2> QED BY <2>1, <2>2, <2>3
<1> HIDE DEF q2
<1>3. Calm(c, next, q2, closed)
  BY <1>1, <1>2 DEF Calm
<1> QED BY <1>3 DEF q2

\* Applying an event keeps power guarded.
LEMMA TurnKeepsPower ==
  ASSUME SInv, PowerInv, Turn
  PROVE  PowerInv'
<1> DEFINE m == mail[1]
           r == Apply(cp, m.event)
           more == CommandsOf(r.out)
<1>1. /\ Head(mail) = m /\ m \in Mails
      /\ \A i \in 1 .. Len(mail') : i + 1 \in 1 .. Len(mail)
                                   /\ mail'[i] = mail[i + 1]
      /\ Len(mail) \in Nat \ {0} /\ Len(mail') = Len(mail) - 1
  BY TakeHead DEF SInv, Turn
<1>2. PICK lst : Settled(cp, lst)
  BY DEF SInv
<1>3. cp' = r.cp /\ phys' = phys /\ commands' = commands \o more
  BY <1>1 DEF Turn
<1>4. /\ more \in Seq(Commands)
      /\ \A c \in Connectors :
            Fares(m.event, c, cp.conn[c].state, r.cp.conn[c].state, more)
  BY <1>1, <1>2, ApplyFares
<1> HIDE DEF r, more
<1>5. MailIsApart'
  <2>1. \A i \in 1 .. Len(mail') : \E j \in 1 .. Len(mail) : mail'[i] = mail[j]
    BY <1>1
  <2>2. MailIsApart
    BY DEF PowerInv
  <2> QED BY <1>3, <2>1, <2>2 DEF MailIsApart
<1>6. ASSUME NEW c \in Connectors
      PROVE  PowerOf(c, cp'.conn[c].state, commands', phys'[c].closed,
                     FaultReported(c)')
  <2> DEFINE st == cp.conn[c].state
             next == r.cp.conn[c].state
             t == IF Sees(m.event, c) THEN SeenOf(m.event).type ELSE "None"
             closed == phys[c].closed
             rep == FaultReported(c)
             rep2 == FaultReported(c)'
  <2>1. PICK x : /\ Tells(more, c, x)
                 /\ IF Sees(m.event, c)
                      THEN Arc(st, SeenOf(m.event).type, next, x)
                      ELSE next = st /\ x = None
    BY <1>4 DEF Fares
  <2>2. Arc(st, t, next, x)
    <3>1. CASE Sees(m.event, c)
      BY <2>1, <3>1
    <3>2. CASE ~Sees(m.event, c)
      <4>1. next = st /\ x = None /\ t = "None"
        BY <2>1, <3>2
      <4> HIDE DEF t, next, st
      <4>2. Arc(st, "None", st, None)
        BY NothingIsAnArc
      <4> QED BY <4>1, <4>2
    <3> QED BY <3>1, <3>2
  <2>3. t \in SettingTypes \cup {"ContactorOpened"} =>
           m.event.type = "Connector" /\ m.event.connector = c
           /\ m.event.event.type = t
    BY <1>1, SeenApart DEF SettingTypes
  <2>4. 1 \in 1 .. Len(mail)
    BY <1>1
  <2>5. /\ c \in Driven => t \notin SettingTypes
        /\ closed => t # "ContactorOpened"
    BY <2>3, <2>4 DEF PowerInv, MailIsApart
  <2>6. t = "FaultDetected" \/ (rep => rep2)
    <3> SUFFICES ASSUME rep, t # "FaultDetected" PROVE rep2
      OBVIOUS
    <3>1. PICK i \in 1 .. Len(mail) : mail[i].event = OnC(c, Bare("FaultDetected"))
      BY DEF FaultReported
    <3>2. i # 1
      BY <3>1 DEF Sees, SeenOf, OnC, Bare
    <3>3. i - 1 \in 1 .. Len(mail') /\ (i - 1) + 1 = i
      BY <1>1, <3>2
    <3>4. mail'[i - 1] = mail[i]
      BY <1>1, <3>3
    <3> QED BY <3>1, <3>3, <3>4 DEF FaultReported
  <2>7. PowerOf(c, st, commands, closed, rep)
    BY DEF PowerInv
  <2>8. commands \in Seq(Commands)
    BY DEF SInv
  <2>9. cp'.conn[c].state = next /\ phys'[c].closed = closed
    BY <1>3
  <2>10. c \in Driven \/ t \notin {"CableConnected", "FaultCleared"}
    BY <1>1, DriversAreDriven
  <2> HIDE DEF st, next, t, closed, rep, rep2
  <2>11. CASE c \in Driven
    <3>1. Guarded(c, st, commands, closed, rep)
      BY <2>7, <2>11 DEF PowerOf
    <3>2. Extends(commands \o more, commands, c, x)
      BY <1>4, <2>1, <2>8, BroadcastExtends
    <3>3. Guarded(c, next, commands \o more, closed, rep2)
      BY <2>2, <2>5, <2>6, <2>11, <3>1, <3>2, TurnGuards
    <3> QED BY <1>3, <2>9, <2>11, <3>3 DEF PowerOf, rep2
  <2>12. CASE c \notin Driven
    <3>1. Calm(c, st, commands, closed)
      BY <2>7, <2>12 DEF PowerOf
    <3>2. Calm(c, next, commands \o more, closed)
      BY <1>4, <2>1, <2>2, <2>8, <2>10, <2>12, <3>1, TurnCalms
    <3> QED BY <1>3, <2>9, <2>12, <3>2 DEF PowerOf
  <2> QED BY <2>11, <2>12
<1> QED BY <1>5, <1>6 DEF PowerInv

\* A fault that is reported besides changes nothing for the worse.
LEMMA ReportedToo ==
  ASSUME NEW c, NEW st, NEW q, NEW closed, NEW reported, NEW reported2,
         PowerOf(c, st, q, closed, reported), reported => reported2
  PROVE  PowerOf(c, st, q, closed, reported2)
BY DEF PowerOf, Guarded, IsOwned, IsLatched

\* The mailbox keeps its events, in front of at most one that is new.
MailGrows(new) ==
    \/ mail' = mail
    \/ /\ Len(mail) \in Nat /\ Len(mail') = Len(mail) + 1
       /\ \A i \in 1 .. Len(mail) : mail'[i] = mail[i]
       /\ mail'[Len(mail) + 1].event = new

\* An event sent by an idle task is the last in the mailbox.
LEMMA SendMakesMailGrow ==
  ASSUME SInv, Capacity >= 5, NEW task \in Tasks, NEW e,
         [from |-> task, event |-> e] \in Mails, Idle(task), Send(task, e)
  PROVE  MailGrows(e) /\ mail'[Len(mail) + 1].event = e
         /\ Len(mail) + 1 \in 1 .. Len(mail')
<1>1. /\ Len(mail') = Len(mail) + 1 /\ Len(mail) \in Nat
      /\ \A i \in 1 .. Len(mail) : mail'[i] = mail[i]
      /\ mail'[Len(mail) + 1] = [from |-> task, event |-> e]
  BY SendLands DEF SInv
<1>2. mail'[Len(mail) + 1].event = e /\ Len(mail) + 1 \in 1 .. Len(mail')
  BY <1>1
<1> QED BY <1>1, <1>2 DEF MailGrows

\* What is in a mailbox that grows.
LEMMA GrownMail ==
  ASSUME NEW new, MailGrows(new)
  PROVE  /\ \A i \in 1 .. Len(mail') :
               mail'[i].event = new \/ \E j \in 1 .. Len(mail) : mail'[i] = mail[j]
         /\ \A c : FaultReported(c) => FaultReported(c)'
<1>1. CASE mail' = mail
  BY <1>1 DEF FaultReported
<1>2. CASE mail' # mail
  <2>1. /\ Len(mail) \in Nat /\ Len(mail') = Len(mail) + 1
        /\ \A i \in 1 .. Len(mail) : mail'[i] = mail[i]
        /\ mail'[Len(mail) + 1].event = new
    BY <1>2 DEF MailGrows
  <2>2. \A i \in 1 .. Len(mail') : i \in 1 .. Len(mail) \/ i = Len(mail) + 1
    BY <2>1
  <2>3. \A i \in 1 .. Len(mail) : i \in 1 .. Len(mail')
    BY <2>1
  <2>4. ASSUME NEW c, FaultReported(c) PROVE FaultReported(c)'
    <3>1. PICK i \in 1 .. Len(mail) : mail[i].event = OnC(c, Bare("FaultDetected"))
      BY <2>4 DEF FaultReported
    <3>2. mail'[i] = mail[i] /\ i \in 1 .. Len(mail')
      BY <2>1, <2>3
    <3> QED BY <3>1, <3>2 DEF FaultReported
  <2> QED BY <2>1, <2>2, <2>4
<1> QED BY <1>1, <1>2

\* A step of another task than the actor and the executor.
LEMMA GrowingKeepsPower ==
  ASSUME PowerInv, cp' = cp, commands' = commands,
         \A c \in Connectors : phys'[c].closed = phys[c].closed,
         \A i \in 1 .. Len(mail) : mail[i] \in Mails,
         NEW new, MailGrows(new),
         new.type = "Connector" =>
            /\ new.event.type \in SettingTypes => new.connector \notin Driven
            /\ new.event.type # "ContactorOpened"
  PROVE  PowerInv'
<1>1. MailIsApart'
  <2> SUFFICES ASSUME NEW i \in 1 .. Len(mail'), mail'[i].event.type = "Connector"
               PROVE  LET c == mail'[i].event.connector
                          type == mail'[i].event.event.type
                      IN /\ type \in SettingTypes => c \notin Driven
                         /\ type = "ContactorOpened" => ~phys'[c].closed
    BY DEF MailIsApart
  <2>1. CASE mail'[i].event = new
    BY <2>1
  <2>2. CASE mail'[i].event # new
    <3>1. PICK j \in 1 .. Len(mail) : mail'[i] = mail[j]
      BY <2>2, GrownMail
    <3>2. mail[j].event.connector \in Connectors
      BY <3>1, StationBounds DEF Mails, ToConnector, StationOrders, Settings
    <3> QED BY <3>1, <3>2 DEF PowerInv, MailIsApart
  <2> QED BY <2>1, <2>2
<1>2. ASSUME NEW c \in Connectors
      PROVE  PowerOf(c, cp'.conn[c].state, commands', phys'[c].closed,
                     FaultReported(c)')
  <2> DEFINE rep == FaultReported(c)
             rep2 == FaultReported(c)'
  <2>1. PowerOf(c, cp.conn[c].state, commands, phys[c].closed, rep)
    BY DEF PowerInv
  <2>2. rep => rep2
    BY GrownMail
  <2> HIDE DEF rep, rep2
  <2>3. PowerOf(c, cp.conn[c].state, commands, phys[c].closed, rep2)
    BY <2>1, <2>2, ReportedToo
  <2>4. PowerOf(c, cp'.conn[c].state, commands', phys'[c].closed, rep2)
    BY <2>3
  <2> QED BY <2>4 DEF rep2
<1> QED BY <1>1, <1>2 DEF PowerInv

\* The command at the head of the queue, one for the connector, has been tried.
Tried(c, q, q2, p, p2, reported, reported2, failed) ==
    /\ Taken(q2, q) /\ q[1] \in ConnCommands /\ q[1].connector = c
    /\ p \in Phys /\ p2 = IF failed THEN p ELSE Moved(p, q[1].type)
    /\ reported => reported2
    /\ failed /\ q[1].type = "OpenContactor" => reported2

\* It leaves the connector guarded.
LEMMA CommandGuards ==
  ASSUME NEW c, NEW st, NEW q, NEW q2, NEW p, NEW p2, NEW reported,
         NEW reported2, NEW failed,
         Tried(c, q, q2, p, p2, reported, reported2, failed),
         PowerOf(c, st, q, p.closed, reported)
  PROVE  PowerOf(c, st, q2, p2.closed, reported2)
<1>0. /\ Taken(q2, q) /\ q[1] \in ConnCommands /\ q[1].connector = c
      /\ p \in Phys /\ p2 = IF failed THEN p ELSE Moved(p, q[1].type)
      /\ reported => reported2
      /\ failed /\ q[1].type = "OpenContactor" => reported2
  BY DEF Tried
<1>1. q[1].type \in {"Lock", "Unlock", "CloseContactor", "OpenContactor"}
  BY <1>0 DEF ConnCommands, ConnectorCommands
<1>2. /\ failed \/ q[1].type \in {"Lock", "Unlock"} => p2.closed = p.closed
      /\ ~failed /\ q[1].type = "OpenContactor" => ~p2.closed
  BY <1>0, <1>1 DEF Moved, Phys
<1>3. CASE c \in Driven
  <2>1. Guarded(c, st, q, p.closed, reported)
    BY <1>3 DEF PowerOf
  <2>2. CASE failed \/ q[1].type \in {"Lock", "Unlock"}
    <3>1. p.closed /\ IsFor(q, 1, c, "OpenContactor") => reported2
      BY <1>0, <2>2 DEF IsFor
    <3>2. Guarded(c, st, q2, p.closed, reported2)
      BY <1>0, <2>1, <3>1, SkipGuards
    <3> QED BY <1>2, <1>3, <2>2, <3>2 DEF PowerOf
  <2>3. CASE ~failed /\ q[1].type = "OpenContactor"
    <3>1. Guarded(c, st, q2, p2.closed, reported2)
      BY <1>0, <1>2, <2>1, <2>3, OpenGuards
    <3> QED BY <1>3, <3>1 DEF PowerOf
  <2>4. CASE q[1].type = "CloseContactor"
    <3>1. IsFor(q, 1, c, "CloseContactor")
      BY <1>0, <2>4 DEF IsFor
    <3>2. Guarded(c, st, q2, p2.closed, reported2)
      BY <1>0, <2>1, <3>1, CloseGuards
    <3> QED BY <1>3, <3>2 DEF PowerOf
  <2> QED BY <1>1, <2>2, <2>3, <2>4
<1>4. CASE c \notin Driven
  <2>1. Calm(c, st, q, p.closed)
    BY <1>4 DEF PowerOf
  <2>2. q[1].type = "OpenContactor"
    BY <1>0, <2>1 DEF Calm, Taken
  <2>3. ~p2.closed
    BY <1>2, <2>1, <2>2 DEF Calm
  <2>4. Calm(c, st, q2, p2.closed)
    BY <1>0, <2>1, <2>3 DEF Calm, Taken
  <2> QED BY <1>4, <2>4 DEF PowerOf
<1> QED BY <1>3, <1>4

\* The same command, as another connector takes it.
LEMMA OthersCommandGuards ==
  ASSUME NEW c, NEW st, NEW q, NEW q2, Taken(q2, q), NEW closed,
         NEW reported, NEW reported2, PowerOf(c, st, q, closed, reported),
         reported => reported2, ~IsFor(q, 1, c, "OpenContactor")
  PROVE  PowerOf(c, st, q2, closed, reported2)
<1>1. CASE c \in Driven
  <2>1. Guarded(c, st, q, closed, reported)
    BY <1>1 DEF PowerOf
  <2>2. Guarded(c, st, q2, closed, reported2)
    BY <2>1, SkipGuards
  <2> QED BY <1>1, <2>2 DEF PowerOf
<1>2. CASE c \notin Driven
  <2>1. Calm(c, st, q2, closed)
    BY <1>2 DEF PowerOf, Calm, Taken
  <2> QED BY <1>2, <2>1 DEF PowerOf
<1> QED BY <1>1, <1>2

\* The executor's report, when a command for a connector has been tried.
LEMMA OutcomeTypes ==
  ASSUME NEW command \in ConnCommands, NEW failed \in BOOLEAN
  PROVE  LET type == ConnectorOutcome(command, failed).type IN
         /\ type \notin SettingTypes
         /\ type = "ContactorOpened" => ~failed /\ command.type = "OpenContactor"
         /\ failed /\ command.type = "OpenContactor" =>
               ConnectorOutcome(command, failed) = Bare("FaultDetected")
BY DEF ConnectorOutcome, Confirmation, Bare, SettingTypes, ConnCommands,
       ConnectorCommands

\* The mailbox of an idle executor holds none of its confirmations.
LEMMA ExecutorsMail ==
  ASSUME SInv, PowerInv, Idle("executor"), NEW new, MailGrows(new),
         new.type = "Connector" =>
            /\ new.event.type \notin SettingTypes
            /\ new.event.type = "ContactorOpened" => ~phys'[new.connector].closed
  PROVE  MailIsApart'
<1> SUFFICES ASSUME NEW i \in 1 .. Len(mail'), mail'[i].event.type = "Connector"
             PROVE  LET c == mail'[i].event.connector
                        type == mail'[i].event.event.type
                    IN /\ type \in SettingTypes => c \notin Driven
                       /\ type = "ContactorOpened" => ~phys'[c].closed
  BY DEF MailIsApart
<1>1. CASE mail'[i].event = new
  BY <1>1
<1>2. CASE mail'[i].event # new
  <2>1. PICK j \in 1 .. Len(mail) : mail'[i] = mail[j]
    BY <1>2, GrownMail
  <2>2. mail[j] \in Mails /\ mail[j].from # "executor"
    BY ElementOfSeq DEF SInv, Mailbox, Idle
  <2>3. mail[j].event.event.type # "ContactorOpened"
    BY <2>1, <2>2, OpeningsAreTheExecutors
  <2> QED BY <2>1, <2>3 DEF PowerInv, MailIsApart
<1> QED BY <1>1, <1>2

\* So does executing a command, whether it fails or not.
LEMMA ExecuteKeepsPower ==
  ASSUME SInv, Capacity >= 5, PowerInv, Execute
  PROVE  PowerInv'
<1>1. PICK failed \in BOOLEAN :
         \/ /\ commands[1] \in Reboots
            /\ phys' = phys
            /\ IF failed
                 THEN Send("executor", [type |-> "EvseFaultDetected",
                                        evse |-> commands[1].evse])
                 ELSE mail' = mail
         \/ /\ commands[1] \in ConnCommands
            /\ ExecuteOnConnector(commands[1], failed)
  BY ExecuteSends
<1>2. Idle("executor") /\ "executor" \in Tasks
  BY ExecuteSends DEF Tasks
<1>3. Taken(commands', commands) /\ commands[1] \in Commands
  <2>1. commands # <<>> /\ commands' = Tail(commands)
    BY ExecuteSends DEF Execute
  <2> QED BY <2>1, TakeCommand DEF SInv, Taken
<1>4. cp' = cp
  BY DEF Execute, vars
<1>5. commands[1] \in Reboots => commands[1] \notin ConnCommands
  BY DEF ConnCommands, Reboots, ConnectorCommands
<1>6. phys \in [Connectors -> Phys]
  BY DEF SInv, TasksOK
<1>7. \A c \in Connectors :
         PowerOf(c, cp.conn[c].state, commands, phys[c].closed, FaultReported(c))
  BY DEF PowerInv
<1>8. CASE commands[1] \in Reboots
  <2> DEFINE new == [type |-> "EvseFaultDetected", evse |-> commands[1].evse]
  <2>1. MailGrows(new)
    <3>1. CASE failed
      <4>1. Send("executor", new)
        BY <1>1, <1>5, <1>8, <3>1
      <4>2. [from |-> "executor", event |-> new] \in Mails
        BY <1>8, RebootFaultsAreMails DEF Reboots
      <4> HIDE DEF new
      <4> QED BY <1>2, <4>1, <4>2, SendMakesMailGrow
    <3>2. CASE ~failed
      BY <1>1, <1>5, <1>8, <3>2 DEF MailGrows
    <3> QED BY <3>1, <3>2
  <2>2. new.type # "Connector" /\ phys' = phys
    BY <1>1, <1>5, <1>8
  <2> HIDE DEF new
  <2>3. MailIsApart'
    BY <1>2, <2>1, <2>2, ExecutorsMail
  <2>4. ASSUME NEW c \in Connectors
        PROVE  PowerOf(c, cp'.conn[c].state, commands', phys'[c].closed,
                       FaultReported(c)')
    <3> DEFINE rep == FaultReported(c)
               rep2 == FaultReported(c)'
               st == cp.conn[c].state
               closed == phys[c].closed
    <3>1. PowerOf(c, st, commands, closed, rep) /\ (rep => rep2)
      BY <1>7, <2>1, GrownMail
    <3>2. ~IsFor(commands, 1, c, "OpenContactor")
      BY <1>8 DEF IsFor, Reboots
    <3>3. cp'.conn[c].state = st /\ phys'[c].closed = closed
      BY <1>4, <2>2
    <3> HIDE DEF rep, rep2, st, closed
    <3>4. PowerOf(c, st, commands', closed, rep2)
      BY <1>3, <3>1, <3>2, OthersCommandGuards
    <3> QED BY <3>3, <3>4 DEF rep2
  <2> QED BY <2>3, <2>4 DEF PowerInv
<1>9. CASE commands[1] \in ConnCommands
  <2> DEFINE d == commands[1].connector
             new == OnC(d, ConnectorOutcome(commands[1], failed))
  <2>1. /\ Send("executor", new)
        /\ phys' = IF failed THEN phys
                   ELSE [phys EXCEPT ![d] = Moved(@, commands[1].type)]
    BY <1>1, <1>5, <1>9 DEF ExecuteOnConnector
  <2>2. d \in Connectors /\ [from |-> "executor", event |-> new] \in Mails
    BY <1>9, ConfirmationsAreMails DEF ConnCommands
  <2>3. /\ new.type = "Connector" /\ new.connector = d
        /\ new.event = ConnectorOutcome(commands[1], failed)
    BY DEF OnC
  <2>4. phys'[d] = IF failed THEN phys[d] ELSE Moved(phys[d], commands[1].type)
    BY <1>6, <2>1, <2>2
  <2>5. \A c \in Connectors : c # d => phys'[c] = phys[c]
    BY <1>6, <2>1, <2>2
  <2> HIDE DEF new
  <2>6. /\ MailGrows(new) /\ mail'[Len(mail) + 1].event = new
        /\ Len(mail) + 1 \in 1 .. Len(mail')
    BY <1>2, <2>1, <2>2, SendMakesMailGrow
  <2>7. /\ new.event.type \notin SettingTypes
        /\ new.event.type = "ContactorOpened" =>
              ~failed /\ commands[1].type = "OpenContactor"
        /\ failed /\ commands[1].type = "OpenContactor" =>
              new.event = Bare("FaultDetected")
    BY <1>9, <2>3, OutcomeTypes
  <2>8. new.event.type = "ContactorOpened" => ~phys'[d].closed
    <3>1. phys[d] \in Phys
      BY <1>6, <2>2
    <3> QED BY <2>4, <2>7, <3>1 DEF Moved, Phys
  <2>9. MailIsApart'
    BY <1>2, <2>3, <2>6, <2>7, <2>8, ExecutorsMail
  <2>10. ASSUME NEW c, c = d, failed, commands[1].type = "OpenContactor"
         PROVE  FaultReported(c)'
    <3>1. new = OnC(c, Bare("FaultDetected"))
      BY <2>7, <2>10 DEF new, OnC
    <3> QED BY <2>6, <3>1 DEF FaultReported
  <2>11. ASSUME NEW c \in Connectors
         PROVE  PowerOf(c, cp'.conn[c].state, commands', phys'[c].closed,
                        FaultReported(c)')
    <3> DEFINE rep == FaultReported(c)
               rep2 == FaultReported(c)'
               st == cp.conn[c].state
               p == phys[c]
    <3>1. PowerOf(c, st, commands, p.closed, rep) /\ (rep => rep2) /\ p \in Phys
      BY <1>6, <1>7, <2>6, GrownMail
    <3>2. cp'.conn[c].state = st
      BY <1>4
    <3>3. CASE c = d
      <4>1. phys'[c] = IF failed THEN p ELSE Moved(p, commands[1].type)
        BY <2>4, <3>3
      <4>2. failed /\ commands[1].type = "OpenContactor" => rep2
        BY <2>10, <3>3
      <4>3. commands[1].connector = c
        BY <3>3
      <4> DEFINE p2 == phys'[c]
      <4>4. p2 = IF failed THEN p ELSE Moved(p, commands[1].type)
        BY <4>1
      <4> HIDE DEF rep, rep2, st, p, p2, d
      <4>6. Tried(c, commands, commands', p, p2, rep, rep2, failed)
        BY <1>3, <1>9, <3>1, <4>2, <4>3, <4>4 DEF Tried
      <4>5. PowerOf(c, st, commands', p2.closed, rep2)
        BY <3>1, <4>6, CommandGuards
      <4> QED BY <3>2, <4>5 DEF rep2, p2
    <3>4. CASE c # d
      <4>1. ~IsFor(commands, 1, c, "OpenContactor")
        BY <3>4 DEF IsFor
      <4>2. phys'[c].closed = p.closed
        BY <2>5, <3>4
      <4> DEFINE closed == p.closed
      <4>3. PowerOf(c, st, commands, closed, rep) /\ phys'[c].closed = closed
        BY <3>1, <4>2
      <4> HIDE DEF rep, rep2, st, closed
      <4>4. PowerOf(c, st, commands', closed, rep2)
        BY <1>3, <3>1, <4>1, <4>3, OthersCommandGuards
      <4> QED BY <3>2, <4>3, <4>4 DEF rep2
    <3> QED BY <3>3, <3>4
  <2> QED BY <2>9, <2>11 DEF PowerInv
<1> QED BY <1>3, <1>8, <1>9 DEF Commands

\* Availability changes of a single connector are for connectors not in use.  One
\* "takes effect immediately regardless of an active transaction"
\* (availability.rs), and what it leaves behind is no connector's to open.
AvailabilityIsApart ==
    \A q \in Requests :
        q.op = "Availability" /\ q.connector # None => q.connector \notin Driven

\* An idle station's power is guarded.
LEMMA InitPower == StationInit => PowerInv
<1> SUFFICES ASSUME StationInit PROVE PowerInv
  OBVIOUS
<1>1. /\ mail = <<>> /\ commands = <<>>
      /\ \A c \in Connectors : ~phys[c].closed
      /\ \A c \in Connectors : cp.conn[c].state = "Available"
  <2>1. PICK p \in Policies : cp = [NewChargePoint(p) EXCEPT
                                     !.lifecycle = "Available",
                                     !.registration = "Accepted"]
    BY DEF StationInit
  <2>2. cp.conn = [c \in Connectors |-> NewSlot]
    BY <2>1 DEF NewChargePoint
  <2>3. \A c \in Connectors : cp.conn[c].state = "Available"
    BY <2>2 DEF NewSlot
  <2> QED BY <2>3 DEF StationInit
<1>2. Len(mail) = 0 /\ Len(commands) = 0
  BY <1>1
<1>3. MailIsApart
  BY <1>2 DEF MailIsApart
<1>4. ASSUME NEW c \in Connectors
      PROVE  PowerOf(c, cp.conn[c].state, commands, phys[c].closed, FaultReported(c))
  <2> DEFINE st == cp.conn[c].state
             closed == phys[c].closed
  <2>1. st = "Available" /\ ~closed
    BY <1>1
  <2> HIDE DEF st, closed
  <2> QED BY <1>2, <2>1 DEF PowerOf, Calm, Guarded, CloseIsOwed, IsOwned,
             UnlockFollowsOpen, IsLatched, Deserted, st, closed
<1> QED BY <1>3, <1>4 DEF PowerInv

\* Every step keeps it guarded.
LEMMA StepKeepsPower ==
  ASSUME SInv, Capacity >= 5, AvailabilityIsApart, PowerInv,
         [StationNext]_allVars
  PROVE  PowerInv'
<1>0. /\ {"driver", "executor", "holds", "expiry", "csms"} \subseteq Tasks
      /\ \A i \in 1 .. Len(mail) : mail[i] \in Mails
  BY ElementOfSeq DEF Tasks, SInv, Mailbox
<1>1. ASSUME UNCHANGED <<vars, commands, phys>>, NEW task \in Tasks, NEW e,
             [from |-> task, event |-> e] \in Mails,
             mail' = mail \/ (Idle(task) /\ Send(task, e)),
             e.type = "Connector" =>
                /\ e.event.type \in SettingTypes => e.connector \notin Driven
                /\ e.event.type # "ContactorOpened"
      PROVE  PowerInv'
  <2>1. MailGrows(e)
    BY <1>1, SendMakesMailGrow DEF MailGrows
  <2>2. /\ cp' = cp /\ commands' = commands
        /\ \A c \in Connectors : phys'[c].closed = phys[c].closed
    BY <1>1 DEF vars
  <2> QED BY <1>0, <1>1, <2>1, <2>2, GrowingKeepsPower
<1>2. CASE UNCHANGED allVars \/ Answer
  <2>1. /\ cp' = cp /\ commands' = commands /\ mail' = mail
        /\ \A c \in Connectors : phys'[c].closed = phys[c].closed
    BY <1>2 DEF allVars, vars, stationVars, Answer
  <2>2. MailGrows(Bare("None")) /\ Bare("None").type # "Connector"
    BY <2>1 DEF MailGrows, Bare
  <2> QED BY <1>0, <2>1, <2>2, GrowingKeepsPower
<1>3. CASE Turn
  BY <1>3, TurnKeepsPower
<1>4. CASE Execute
  BY <1>4, ExecuteKeepsPower
<1>5. CASE Driver
  <2>1. PICK c \in Driven, e \in DriverReports :
            /\ Send("driver", OnC(c, e)) /\ Idle("driver")
            /\ UNCHANGED <<vars, commands>>
            /\ \A d \in Connectors : phys'[d].closed = phys[d].closed
    BY <1>5, DriverSendsOne
  <2>2. [from |-> "driver", event |-> OnC(c, e)] \in Mails
    BY DEF Mails, ToConnector, OnC
  <2>3. OnC(c, e).event = e /\ e.type \notin SettingTypes \cup {"ContactorOpened"}
    BY DEF OnC, DriverReports, SettingTypes
  <2>4. MailGrows(OnC(c, e))
    BY <1>0, <2>1, <2>2, SendMakesMailGrow
  <2>5. cp' = cp /\ commands' = commands
    BY <2>1 DEF vars
  <2> QED BY <1>0, <2>1, <2>3, <2>4, <2>5, GrowingKeepsPower
<1>6. CASE SweepHolds \/ SweepNextHold
  <2> DEFINE e(c) == OnC(c, Bare("RemoteStartPendingCleared"))
  <2>1. /\ UNCHANGED <<vars, commands, phys>>
        /\ \/ mail' = mail
           \/ \E c \in Connectors : Idle("holds") /\ Send("holds", e(c))
    BY <1>6, HoldsKeepS
  <2>2. \A c \in Connectors :
           /\ [from |-> "holds", event |-> e(c)] \in Mails
           /\ e(c).event.type \notin SettingTypes \cup {"ContactorOpened"}
    BY DEF Mails, ToConnector, OnC, Bare, SettingTypes
  <2> HIDE DEF e
  <2>3. CASE mail' = mail
    <3>1. MailGrows(Bare("None")) /\ Bare("None").type # "Connector"
      BY <2>3 DEF MailGrows, Bare
    <3>2. cp' = cp /\ commands' = commands
          /\ \A c \in Connectors : phys'[c].closed = phys[c].closed
      BY <2>1 DEF vars
    <3> QED BY <1>0, <3>1, <3>2, GrowingKeepsPower
  <2>4. CASE mail' # mail
    <3>1. PICK c \in Connectors : Idle("holds") /\ Send("holds", e(c))
      BY <2>1, <2>4
    <3> QED BY <1>0, <1>1, <2>1, <2>2, <3>1
  <2> QED BY <2>3, <2>4
<1>7. CASE SweepReservations \/ SweepNextReservation
  <2> DEFINE e(c) == OnC(c, Bare("ReservationExpired"))
  <2>1. /\ UNCHANGED <<vars, commands, phys>>
        /\ \E c \in Connectors : Idle("expiry") /\ Send("expiry", e(c))
    BY <1>7, ExpiryKeepsS
  <2>2. \A c \in Connectors :
           /\ [from |-> "expiry", event |-> e(c)] \in Mails
           /\ e(c).event.type \notin SettingTypes \cup {"ContactorOpened"}
    BY DEF Mails, ToConnector, OnC, Bare, SettingTypes
  <2> HIDE DEF e
  <2>3. PICK c \in Connectors : Idle("expiry") /\ Send("expiry", e(c))
    BY <2>1
  <2> QED BY <1>0, <1>1, <2>1, <2>2, <2>3
<1>8. CASE Request
  <2>1. PICK q \in Requests : Handle(q)
    BY <1>8 DEF Request
  <2>2. UNCHANGED <<vars, commands, phys>> /\ Idle("csms")
    BY <2>1, HandleSends
  <2>3. CASE q.op = "Reset"
    <3>1. mail' = mail
      BY <2>1, <2>3 DEF Handle, HandleReset
    <3>2. MailGrows(Bare("None")) /\ Bare("None").type # "Connector"
      BY <3>1 DEF MailGrows, Bare
    <3>3. cp' = cp /\ commands' = commands
          /\ \A c \in Connectors : phys'[c].closed = phys[c].closed
      BY <2>2 DEF vars
    <3> QED BY <1>0, <3>2, <3>3, GrowingKeepsPower
  <2>4. CASE q.op # "Reset"
    <3>1. PICK c, e : Forward(q, c, e) /\ Decided(q, c, e)
      BY <2>1, <2>4, HandleForwards
    <3>2. Send("csms", e) /\ [from |-> "csms", event |-> e] \in Mails
      BY <3>1 DEF Forward, Decided
    <3>3. e.type = "Connector" =>
             (e.event.type \in SettingTypes => e.connector \notin Driven)
      BY <3>1 DEF Decided, AvailabilityIsApart
    <3>4. e.type = "Connector" => e.event.type # "ContactorOpened"
      <4>1. [from |-> "csms", event |-> e].event = e
            /\ [from |-> "csms", event |-> e].from # "executor"
        OBVIOUS
      <4> QED BY <3>2, <4>1, OpeningsAreTheExecutors
    <3> QED BY <1>0, <1>1, <2>2, <3>2, <3>3, <3>4
  <2> QED BY <2>3, <2>4
<1>9. CASE RequestReset
  <2>1. UNCHANGED <<vars, commands, phys>> /\ Idle("csms")
    BY <1>9, RequestResetKeepsS
  <2>2. PICK e \in StationOrders : Send("csms", e)
    BY <1>9, RequestResetKeepsS
  <2>3. e.type # "Connector" /\ [from |-> "csms", event |-> e] \in Mails
    BY DEF StationOrders, Settings, Mails
  <2> QED BY <1>0, <1>1, <2>1, <2>2, <2>3
<1> QED BY <1>2, <1>3, <1>4, <1>5, <1>6, <1>7, <1>8, <1>9 DEF StationNext

\* Seen for each connector, it is what the property says.
LEMMA PowerInvShows ==
  ASSUME PowerInv
  PROVE  PowerIsGuarded
<1>1. ASSUME NEW c \in Connectors, phys[c].closed
      PROVE  Guarded(c, cp.conn[c].state, commands, phys[c].closed,
                     FaultReported(c))
  BY <1>1 DEF PowerInv, PowerOf, Calm
<1>2. ClosedContactorIsOwned
  <2> SUFFICES ASSUME NEW c \in Connectors, phys[c].closed
               PROVE  \/ cp.conn[c].state \in {"Starting"} \cup Powered
                      \/ Ahead(c, "OpenContactor")
                      \/ FaultReported(c)
    BY DEF ClosedContactorIsOwned
  <2> QED BY <1>1 DEF Guarded, IsOwned, IsFor, Owning, Ahead
<1>3. LatchHeldUnderLoad
  <2> SUFFICES ASSUME NEW c \in Connectors, NEW i \in 1 .. Len(commands),
                      phys[c].closed, commands[i].type = "Unlock",
                      commands[i].connector = c
               PROVE  \/ \E j \in 1 .. (i - 1) :
                            /\ commands[j].type = "OpenContactor"
                            /\ commands[j].connector = c
                      \/ FaultReported(c)
                      \/ cp.conn[c].state = "Faulted"
    BY DEF LatchHeldUnderLoad
  <2> QED BY <1>1 DEF Guarded, IsLatched, IsFor
<1> QED BY <1>2, <1>3 DEF PowerIsGuarded

\* Power is guarded on any station: a contactor that is closed belongs to a
\* session or is about to be opened, and no unlock is queued for it ahead of the
\* command that opens it, whatever the driver, the CSMS, the sweeps and the
\* hardware's failures interleave (command_executor.rs, connector_state.rs).
THEOREM PowerGuarded ==
  ASSUME Capacity >= 5, AvailabilityIsApart
  PROVE  StationSpec => []PowerIsGuarded
<1>1. StationInit => SInv /\ PowerInv
  BY InitSInv, InitPower
<1>2. SInv /\ PowerInv /\ [StationNext]_allVars => (SInv /\ PowerInv)'
  BY StepKeepsS, StepKeepsPower
<1>3. SInv /\ PowerInv => PowerIsGuarded
  BY PowerInvShows
<1> QED BY <1>1, <1>2, <1>3, PTL DEF StationSpec

-----------------------------------------------------------------------------
(* The latch: what a connector's lock, its state and its commands owe each  *)
(* other while the hardware has failed at most once.                        *)

Never(q, c, type) == \A i \in 1 .. Len(q) : ~IsFor(q, i, c, type)

\* The command is queued once at most, and not again once it is confirmed.
Once(q, c, type, told) ==
    /\ told => Never(q, c, type)
    /\ \A i, j \in 1 .. Len(q) :
          IsFor(q, i, c, type) /\ IsFor(q, j, c, type) => i = j

Precedes(q, c, type, k) == \E i \in 1 .. k - 1 : IsFor(q, i, c, type)

\* locks, unlocks and opens say that the confirmation is in the mailbox, spare
\* that no fault has yet reached the connector: the hardware has not failed, or
\* the fault is still in the mailbox.
LatchOf(c, st, q, closed, locked, locks, unlocks, opens, spare) ==
    /\ locks => locked
    /\ opens => ~closed
    /\ st \in Latched => locked
    /\ st \notin Freeing \cup {"Faulted"} => ~unlocks /\ Never(q, c, "Unlock")
    /\ st \in Freeing => Once(q, c, "Unlock", unlocks)
    /\ st = "Faulted" /\ opens => Never(q, c, "Unlock")
    /\ st = "Faulted" => \A i \in 1 .. Len(q) : IsFor(q, i, c, "Unlock") =>
          ~Precedes(q, c, "OpenContactor", i)
    /\ spare => st \notin {"Faulted", "FaultedSafe"}
    /\ spare /\ st \in Settling => Once(q, c, "OpenContactor", opens)
    /\ spare /\ st \notin Settling => ~opens /\ Never(q, c, "OpenContactor")
    /\ closed => st \in Owning \cup Settling \/ ~Never(q, c, "OpenContactor")
    /\ closed => \A i \in 1 .. Len(q) : IsFor(q, i, c, "Unlock") =>
          Precedes(q, c, "OpenContactor", i)
    /\ closed => locked
    /\ \A i \in 1 .. Len(q) : IsFor(q, i, c, "CloseContactor") =>
          locked /\ ~Precedes(q, c, "Unlock", i)

\* Connector c is to see an event of one of the types in the mailbox.
SeesAt(i, c, types) ==
    Sees(mail[i].event, c) /\ SeenOf(mail[i].event).type \in types

Told(c, types) == \E i \in 1 .. Len(mail) : SeesAt(i, c, types)

Spare(c) == spent.failures = 0 \/ Told(c, FaultTypes)

\* Every fault on its way to a connector is a failure that was counted.
FaultsCounted(c) ==
    \A i, j \in 1 .. Len(mail) :
        SeesAt(i, c, FaultTypes) /\ SeesAt(j, c, FaultTypes) =>
            i = j /\ spent.failures # 0

Latch(c) ==
    LatchOf(c, cp.conn[c].state, commands, phys[c].closed, phys[c].locked,
            Told(c, {"LockConfirmed"}), Told(c, {"UnlockConfirmed"}),
            Told(c, {"ContactorOpened"}), Spare(c))

LatchInv ==
    spent.failures <= 1 => \A c \in Driven : FaultsCounted(c) /\ Latch(c)

\* Less in the mailbox changes nothing for the worse.
LEMMA LatchWeakens ==
  ASSUME NEW c, NEW st, NEW q, NEW closed, NEW locked, NEW locks, NEW unlocks,
         NEW opens, NEW spare, NEW locks2, NEW unlocks2, NEW opens2, NEW spare2,
         LatchOf(c, st, q, closed, locked, locks, unlocks, opens, spare),
         locks2 => locks, unlocks2 => unlocks, opens2 => opens, spare2 => spare
  PROVE  LatchOf(c, st, q, closed, locked, locks2, unlocks2, opens2, spare2)
BY DEF LatchOf, Once

\* What is in a queue one command was added to at the end.
LEMMA ExtendedQueue ==
  ASSUME NEW q, NEW q2, NEW c, NEW x, Extends(q2, q, c, x)
  PROVE  /\ \A type \in ConnectorCommands, i \in 1 .. Len(q2) :
               IsFor(q2, i, c, type) =>
                  \/ i \in 1 .. Len(q) /\ IsFor(q, i, c, type)
                  \/ i \in Len(q) + 1 .. Len(q2) /\ type = x
         /\ \A type \in ConnectorCommands :
               type # x => (Never(q2, c, type) <=> Never(q, c, type))
         /\ \A type \in ConnectorCommands :
               type = x => ~Never(q2, c, type)
         /\ \A type \in ConnectorCommands : \A told, told2 :
               /\ type # x \/ Never(q, c, type)
               /\ Once(q, c, type, told)
               /\ type = x => ~told2
               /\ told2 => told
               => Once(q2, c, type, told2)
         /\ \A type : \A k \in 1 .. Len(q) :
               (Precedes(q2, c, type, k) <=> Precedes(q, c, type, k))
         /\ \A type : \A k \in Len(q) + 1 .. Len(q2) :
               ~Never(q, c, type) => Precedes(q2, c, type, k)
<1>0. /\ Len(q) \in Nat /\ Len(q2) \in Nat /\ Len(q2) >= Len(q)
      /\ \A i \in 1 .. Len(q) : q2[i] = q[i]
  BY DEF Extends
<1>1. \A type : \A i \in 1 .. Len(q) :
         i \in 1 .. Len(q2) /\ (IsFor(q2, i, c, type) <=> IsFor(q, i, c, type))
  BY <1>0 DEF IsFor
<1>2. \A type \in ConnectorCommands, i \in 1 .. Len(q2) :
         IsFor(q2, i, c, type) =>
            \/ i \in 1 .. Len(q) /\ IsFor(q, i, c, type)
            \/ i \in Len(q) + 1 .. Len(q2) /\ type = x
  <2> TAKE type \in ConnectorCommands, i \in 1 .. Len(q2)
  <2> HAVE IsFor(q2, i, c, type)
  <2>1. CASE i \in 1 .. Len(q)
    BY <1>1, <2>1
  <2>2. CASE i \in Len(q) + 1 .. Len(q2)
    BY <2>2 DEF Extends
  <2> QED BY <1>0, <2>1, <2>2
<1>3. ASSUME NEW type \in ConnectorCommands, type # x
      PROVE  Never(q2, c, type) <=> Never(q, c, type)
  BY <1>1, <1>2, <1>3 DEF Never
<1>4. ASSUME NEW type \in ConnectorCommands, type = x
      PROVE  ~Never(q2, c, type)
  <2>1. PICK i \in Len(q) + 1 .. Len(q2) : IsFor(q2, i, c, x)
    BY <1>4, SlotAssumption DEF Extends
  <2>2. i \in 1 .. Len(q2)
    BY <1>0
  <2> QED BY <1>4, <2>1, <2>2 DEF Never
<1>5. ASSUME NEW type \in ConnectorCommands, NEW told, NEW told2,
             type # x \/ Never(q, c, type), Once(q, c, type, told),
             type = x => ~told2, told2 => told
      PROVE  Once(q2, c, type, told2)
  <2>1. told2 => Never(q2, c, type)
    BY <1>3, <1>5 DEF Once
  <2>2. ASSUME NEW i \in 1 .. Len(q2), NEW j \in 1 .. Len(q2),
               IsFor(q2, i, c, type), IsFor(q2, j, c, type)
        PROVE  i = j
    <3>1. CASE type # x
      <4>1. /\ i \in 1 .. Len(q) /\ IsFor(q, i, c, type)
            /\ j \in 1 .. Len(q) /\ IsFor(q, j, c, type)
        BY <1>2, <2>2, <3>1
      <4> QED BY <1>5, <4>1 DEF Once
    <3>2. CASE type = x
      <4>1. Never(q, c, type)
        BY <1>5, <3>2
      <4>2. i \in Len(q) + 1 .. Len(q2) /\ j \in Len(q) + 1 .. Len(q2)
        BY <1>2, <2>2, <4>1 DEF Never
      <4> QED BY <2>2, <4>2 DEF Extends
    <3> QED BY <3>1, <3>2
  <2> QED BY <2>1, <2>2 DEF Once
<1>6. ASSUME NEW type, NEW k \in 1 .. Len(q)
      PROVE  Precedes(q2, c, type, k) <=> Precedes(q, c, type, k)
  <2>1. \A i \in 1 .. k - 1 : i \in 1 .. Len(q)
    BY <1>0
  <2> QED BY <1>1, <2>1 DEF Precedes
<1>7. ASSUME NEW type, NEW k \in Len(q) + 1 .. Len(q2), ~Never(q, c, type)
      PROVE  Precedes(q2, c, type, k)
  <2>1. PICK i \in 1 .. Len(q) : IsFor(q, i, c, type)
    BY <1>7 DEF Never
  <2>2. i \in 1 .. k - 1
    BY <1>0
  <2> QED BY <1>1, <2>1, <2>2 DEF Precedes
<1> QED BY <1>2, <1>3, <1>4, <1>5, <1>6, <1>7

\* The actor applies one event to a connector.
LEMMA TurnLatches ==
  ASSUME NEW c, NEW st, NEW next, NEW t, NEW x, Arc(st, t, next, x),
         t \notin SettingTypes, NEW q, NEW q2, Extends(q2, q, c, x),
         NEW closed, NEW locked,
         NEW locks, NEW unlocks, NEW opens, NEW spare,
         NEW locks2, NEW unlocks2, NEW opens2, NEW spare2,
         LatchOf(c, st, q, closed, locked, locks, unlocks, opens, spare),
         locks2 => locks, unlocks2 => unlocks, opens2 => opens, spare2 => spare,
         t = "LockConfirmed" => locks,
         t = "UnlockConfirmed" => unlocks /\ ~unlocks2,
         t = "ContactorOpened" => opens /\ ~opens2 /\ ~unlocks2,
         t \in FaultTypes => spare /\ ~spare2
  PROVE  LatchOf(c, next, q2, closed, locked, locks2, unlocks2, opens2, spare2)
<1>1. /\ x = "CloseContactor" \/ next \in Latched =>
            st \in Latched \/ (st = "Connected" /\ t = "LockConfirmed")
      /\ x = "Unlock" => next \in Freeing /\ st \notin Freeing \cup {"Faulted"}
      /\ next \in Freeing => x = "Unlock" \/ next = st
      /\ st \in Freeing /\ next # st => t \in FaultTypes \cup {"UnlockConfirmed"}
      /\ t \in FaultTypes => next = "Faulted" /\ x = "OpenContactor"
      /\ next = "Faulted" => st = "Faulted" \/ t \in FaultTypes
      /\ next = "FaultedSafe" => st \in {"Faulted", "FaultedSafe"}
      /\ st = "Faulted" /\ next # st => t = "ContactorOpened"
      /\ x = "OpenContactor" =>
            t \in FaultTypes \/ (st \notin Settling /\ next \in Settling)
      /\ next \in Settling => next = st \/ x = "OpenContactor"
      /\ st \in Settling /\ next # st => t \in FaultTypes \cup {"ContactorOpened"}
      /\ st \in Owning /\ next \notin Owning => x = "OpenContactor"
      /\ x = "Unlock" => st \notin Owning
  BY DEF Arc, Course
<1>2. /\ locks => locked
      /\ opens => ~closed
      /\ st \in Latched => locked
      /\ st \notin Freeing \cup {"Faulted"} => ~unlocks /\ Never(q, c, "Unlock")
      /\ st \in Freeing => Once(q, c, "Unlock", unlocks)
      /\ st = "Faulted" /\ opens => Never(q, c, "Unlock")
      /\ st = "Faulted" => \A i \in 1 .. Len(q) : IsFor(q, i, c, "Unlock") =>
            ~Precedes(q, c, "OpenContactor", i)
      /\ spare => st \notin {"Faulted", "FaultedSafe"}
      /\ spare /\ st \in Settling => Once(q, c, "OpenContactor", opens)
      /\ spare /\ st \notin Settling => ~opens /\ Never(q, c, "OpenContactor")
      /\ closed => st \in Owning \cup Settling \/ ~Never(q, c, "OpenContactor")
      /\ closed => \A i \in 1 .. Len(q) : IsFor(q, i, c, "Unlock") =>
            Precedes(q, c, "OpenContactor", i)
      /\ closed => locked
      /\ \A i \in 1 .. Len(q) : IsFor(q, i, c, "CloseContactor") =>
            locked /\ ~Precedes(q, c, "Unlock", i)
  BY DEF LatchOf
<1>3. /\ \A type \in ConnectorCommands, i \in 1 .. Len(q2) :
            IsFor(q2, i, c, type) =>
               \/ i \in 1 .. Len(q) /\ IsFor(q, i, c, type)
               \/ i \in Len(q) + 1 .. Len(q2) /\ type = x
      /\ \A type \in ConnectorCommands :
            type # x => (Never(q2, c, type) <=> Never(q, c, type))
      /\ \A type \in ConnectorCommands : type = x => ~Never(q2, c, type)
      /\ \A type : \A k \in 1 .. Len(q) :
            (Precedes(q2, c, type, k) <=> Precedes(q, c, type, k))
      /\ \A type : \A k \in Len(q) + 1 .. Len(q2) :
            ~Never(q, c, type) => Precedes(q2, c, type, k)
  BY ExtendedQueue
<1>4. ASSUME NEW type \in ConnectorCommands, NEW told, NEW told2,
             type # x \/ Never(q, c, type), Once(q, c, type, told),
             type = x => ~told2, told2 => told
      PROVE  Once(q2, c, type, told2)
  BY <1>4, ExtendedQueue
<1>5. ASSUME NEW type, NEW told, Never(q, c, type), ~told
      PROVE  Once(q, c, type, told)
  BY <1>5 DEF Once, Never
<1>6. /\ "Unlock" \in ConnectorCommands /\ "OpenContactor" \in ConnectorCommands
      /\ "CloseContactor" \in ConnectorCommands
  BY DEF ConnectorCommands
<1>7. /\ Latched \cap (Freeing \cup {"Faulted", "FaultedSafe"}) = {}
      /\ Freeing \cap Settling = {} /\ Owning \cap Freeing = {}
      /\ "Faulted" \notin Freeing \cup Settling \cup Owning \cup Latched
      /\ Owning \subseteq Latched /\ Owning \cap Settling = {}
      /\ "Connected" \notin Freeing \cup {"Faulted"}
      /\ "UnlockConfirmed" \notin FaultTypes /\ "ContactorOpened" \notin FaultTypes
  BY DEF Latched, Freeing, Settling, Owning, Powered, Suspended, FaultTypes
<1>8. next \in Latched => locked
  BY <1>1, <1>2
<1>9. next \notin Freeing \cup {"Faulted"} => ~unlocks2 /\ Never(q2, c, "Unlock")
  <2> SUFFICES ASSUME next \notin Freeing \cup {"Faulted"}
               PROVE  ~unlocks2 /\ Never(q, c, "Unlock")
    BY <1>1, <1>3, <1>6
  <2>1. CASE st \notin Freeing \cup {"Faulted"}
    BY <1>2, <2>1
  <2>2. CASE st \in Freeing
    <3>1. t = "UnlockConfirmed"
      BY <1>1, <2>2
    <3> QED BY <1>2, <2>2, <3>1 DEF Once
  <2>3. CASE st = "Faulted"
    <3>1. t = "ContactorOpened"
      BY <1>1, <2>3
    <3> QED BY <1>2, <2>3, <3>1
  <2> QED BY <2>1, <2>2, <2>3
<1>10. next \in Freeing => Once(q2, c, "Unlock", unlocks2)
  <2> SUFFICES ASSUME next \in Freeing PROVE Once(q2, c, "Unlock", unlocks2)
    OBVIOUS
  <2>1. CASE x = "Unlock"
    <3>1. Never(q, c, "Unlock") /\ ~unlocks /\ ~unlocks2
      BY <1>1, <1>2, <2>1
    <3> QED BY <1>4, <1>5, <1>6, <3>1
  <2>2. CASE x # "Unlock"
    <3>1. Once(q, c, "Unlock", unlocks)
      BY <1>1, <1>2, <2>2
    <3> QED BY <1>4, <1>6, <2>2, <3>1
  <2> QED BY <2>1, <2>2
<1>11. next = "Faulted" /\ opens2 => Never(q2, c, "Unlock")
  <2> SUFFICES ASSUME next = "Faulted", opens2 PROVE Never(q, c, "Unlock")
    BY <1>1, <1>3, <1>6, <1>7
  <2>1. CASE st = "Faulted"
    BY <1>2, <2>1
  <2>2. CASE st # "Faulted"
    <3>1. spare /\ opens
      BY <1>1, <2>2
    <3>2. st \in Settling
      BY <1>2, <3>1
    <3> QED BY <1>2, <1>7, <3>2
  <2> QED BY <2>1, <2>2
<1>12. ASSUME next = "Faulted", NEW k \in 1 .. Len(q2), IsFor(q2, k, c, "Unlock")
       PROVE  ~Precedes(q2, c, "OpenContactor", k)
  <2>1. k \in 1 .. Len(q) /\ IsFor(q, k, c, "Unlock")
    BY <1>1, <1>3, <1>6, <1>7, <1>12
  <2>2. CASE st = "Faulted"
    BY <1>2, <1>3, <2>1, <2>2
  <2>3. CASE st # "Faulted"
    <3>1. spare
      BY <1>1, <1>12, <2>3
    <3>2. ~Never(q, c, "Unlock")
      BY <2>1 DEF Never
    <3>3. Never(q, c, "OpenContactor")
      BY <1>2, <1>7, <3>1, <3>2
    <3>4. ~Precedes(q, c, "OpenContactor", k)
      <4>1. \A i \in 1 .. k - 1 : i \in 1 .. Len(q)
        BY <2>1 DEF Extends
      <4> QED BY <3>3, <4>1 DEF Never, Precedes
    <3> QED BY <1>3, <2>1, <3>4
  <2> QED BY <2>2, <2>3
<1>13. spare2 => next \notin {"Faulted", "FaultedSafe"}
  BY <1>1, <1>2
<1>14. spare2 /\ next \in Settling => Once(q2, c, "OpenContactor", opens2)
  <2> SUFFICES ASSUME spare2, next \in Settling
               PROVE  Once(q2, c, "OpenContactor", opens2)
    OBVIOUS
  <2>1. CASE x = "OpenContactor"
    <3>1. Never(q, c, "OpenContactor") /\ ~opens /\ ~opens2
      BY <1>1, <1>2, <2>1
    <3> QED BY <1>4, <1>5, <1>6, <3>1
  <2>2. CASE x # "OpenContactor"
    <3>1. Once(q, c, "OpenContactor", opens)
      BY <1>1, <1>2, <2>2
    <3> QED BY <1>4, <1>6, <2>2, <3>1
  <2> QED BY <2>1, <2>2
<1>15. spare2 /\ next \notin Settling => ~opens2 /\ Never(q2, c, "OpenContactor")
  <2> SUFFICES ASSUME spare2, next \notin Settling
               PROVE  ~opens2 /\ Never(q, c, "OpenContactor")
    BY <1>1, <1>3, <1>6
  <2>1. CASE st \notin Settling
    BY <1>2, <2>1
  <2>2. CASE st \in Settling
    <3>1. t = "ContactorOpened" /\ Once(q, c, "OpenContactor", opens)
      BY <1>1, <1>2, <2>2
    <3> QED BY <3>1 DEF Once
  <2> QED BY <2>1, <2>2
<1>16. closed => next \in Owning \cup Settling \/ ~Never(q2, c, "OpenContactor")
  BY <1>1, <1>2, <1>3, <1>6
<1>17. ASSUME closed, NEW k \in 1 .. Len(q2), IsFor(q2, k, c, "Unlock")
       PROVE  Precedes(q2, c, "OpenContactor", k)
  <2>1. CASE k \in 1 .. Len(q) /\ IsFor(q, k, c, "Unlock")
    BY <1>2, <1>3, <1>17, <2>1
  <2>2. CASE k \in Len(q) + 1 .. Len(q2) /\ x = "Unlock"
    <3>1. st \notin Owning \cup Settling
      BY <1>1, <1>2, <1>7, <1>17, <2>2
    <3>2. ~Never(q, c, "OpenContactor")
      BY <1>2, <1>17, <3>1
    <3> QED BY <1>3, <2>2, <3>2
  <2> QED BY <1>3, <1>6, <1>17, <2>1, <2>2
<1>18. ASSUME NEW k \in 1 .. Len(q2), IsFor(q2, k, c, "CloseContactor")
       PROVE  locked /\ ~Precedes(q2, c, "Unlock", k)
  <2>1. CASE k \in 1 .. Len(q) /\ IsFor(q, k, c, "CloseContactor")
    BY <1>2, <1>3, <2>1
  <2>2. CASE k \in Len(q) + 1 .. Len(q2) /\ x = "CloseContactor"
    <3>1. st \notin Freeing \cup {"Faulted"} /\ locked
      BY <1>1, <1>2, <1>7, <2>2
    <3>2. Never(q2, c, "Unlock")
      BY <1>2, <1>3, <1>6, <2>2, <3>1
    <3>3. \A i \in 1 .. k - 1 : i \in 1 .. Len(q2)
      BY DEF Extends
    <3> QED BY <3>1, <3>2, <3>3 DEF Never, Precedes
  <2> QED BY <1>3, <1>6, <1>18, <2>1, <2>2
<1> QED BY <1>2, <1>8, <1>9, <1>10, <1>11, <1>12, <1>13, <1>14, <1>15, <1>16,
           <1>17, <1>18 DEF LatchOf

\* What is in a queue whose head was taken.
LEMMA TakenQueue ==
  ASSUME NEW q, NEW q2, Taken(q2, q), NEW c, NEW type
  PROVE  /\ 1 \in 1 .. Len(q) /\ ~Precedes(q, c, type, 1)
         /\ \A k \in 1 .. Len(q2) :
               k + 1 \in 1 .. Len(q)
               /\ (IsFor(q2, k, c, type) <=> IsFor(q, k + 1, c, type))
         /\ Never(q, c, type) => Never(q2, c, type)
         /\ ~IsFor(q, 1, c, type) /\ ~Never(q, c, type) => ~Never(q2, c, type)
         /\ \A told, told2 : Once(q, c, type, told) /\ (told2 => told) =>
               Once(q2, c, type, told2)
         /\ \A told, told2 : Once(q, c, type, told) /\ IsFor(q, 1, c, type) =>
               Never(q2, c, type) /\ Once(q2, c, type, told2)
         /\ \A k \in 1 .. Len(q2) :
               /\ Precedes(q2, c, type, k) => Precedes(q, c, type, k + 1)
               /\ IsFor(q, 1, c, type) => Precedes(q, c, type, k + 1)
               /\ Precedes(q, c, type, k + 1) /\ ~IsFor(q, 1, c, type) =>
                     Precedes(q2, c, type, k)
<1>1. /\ 1 \in 1 .. Len(q) /\ Len(q) \in Nat /\ Len(q2) = Len(q) - 1
      /\ \A k \in 1 .. Len(q2) :
            k + 1 \in 1 .. Len(q)
            /\ (IsFor(q2, k, c, type) <=> IsFor(q, k + 1, c, type))
      /\ \A k \in 2 .. Len(q) :
            k - 1 \in 1 .. Len(q2)
            /\ (IsFor(q, k, c, type) <=> IsFor(q2, k - 1, c, type))
  BY TakenMoves DEF Taken
<1>2. ~Precedes(q, c, type, 1)
  BY DEF Precedes
<1>3. Never(q, c, type) => Never(q2, c, type)
  BY <1>1 DEF Never
<1>4. ASSUME ~IsFor(q, 1, c, type), ~Never(q, c, type)
      PROVE  ~Never(q2, c, type)
  <2>1. PICK k \in 1 .. Len(q) : IsFor(q, k, c, type)
    BY <1>4 DEF Never
  <2>2. k \in 2 .. Len(q)
    <3>1. k # 1
      BY <1>4, <2>1
    <3> QED BY <1>1, <3>1
  <2> QED BY <1>1, <2>1, <2>2 DEF Never
<1>5. ASSUME NEW told, Once(q, c, type, told)
      PROVE  \A i, j \in 1 .. Len(q2) :
                IsFor(q2, i, c, type) /\ IsFor(q2, j, c, type) => i = j
  <2> TAKE i, j \in 1 .. Len(q2)
  <2> HAVE IsFor(q2, i, c, type) /\ IsFor(q2, j, c, type)
  <2>1. i + 1 = j + 1
    BY <1>1, <1>5 DEF Once
  <2> QED BY <1>1, <2>1
<1>6. ASSUME NEW told, NEW told2, Once(q, c, type, told), told2 => told
      PROVE  Once(q2, c, type, told2)
  BY <1>3, <1>5, <1>6 DEF Once
<1>7. ASSUME NEW told, NEW told2, Once(q, c, type, told), IsFor(q, 1, c, type)
      PROVE  Never(q2, c, type) /\ Once(q2, c, type, told2)
  <2>1. Never(q2, c, type)
    <3> SUFFICES ASSUME NEW k \in 1 .. Len(q2), IsFor(q2, k, c, type) PROVE FALSE
      BY DEF Never
    <3>1. k + 1 = 1
      BY <1>1, <1>7 DEF Once
    <3> QED BY <1>1, <3>1
  <2> QED BY <1>5, <1>7, <2>1 DEF Once
<1>8. ASSUME NEW k \in 1 .. Len(q2), Precedes(q2, c, type, k)
      PROVE  Precedes(q, c, type, k + 1)
  <2>1. PICK i \in 1 .. k - 1 : IsFor(q2, i, c, type)
    BY <1>8 DEF Precedes
  <2>2. i \in 1 .. Len(q2) /\ i + 1 \in 1 .. (k + 1) - 1
    BY <1>1
  <2> QED BY <1>1, <2>1, <2>2 DEF Precedes
<1>9. ASSUME NEW k \in 1 .. Len(q2), IsFor(q, 1, c, type)
      PROVE  Precedes(q, c, type, k + 1)
  <2>1. 1 \in 1 .. (k + 1) - 1
    BY <1>1
  <2> QED BY <1>9, <2>1 DEF Precedes
<1>10. ASSUME NEW k \in 1 .. Len(q2), Precedes(q, c, type, k + 1),
              ~IsFor(q, 1, c, type)
       PROVE  Precedes(q2, c, type, k)
  <2>1. PICK i \in 1 .. (k + 1) - 1 : IsFor(q, i, c, type)
    BY <1>10 DEF Precedes
  <2>2. i # 1
    BY <1>10, <2>1
  <2>3. i \in 2 .. Len(q) /\ i - 1 \in 1 .. k - 1
    BY <1>1, <2>2
  <2> QED BY <1>1, <2>1, <2>3 DEF Precedes
<1> QED BY <1>1, <1>2, <1>3, <1>4, <1>6, <1>7, <1>8, <1>9, <1>10

\* The executor takes a command of another connector.
LEMMA OthersCommandLatches ==
  ASSUME NEW c, NEW st, NEW q, NEW q2, Taken(q2, q), NEW closed, NEW locked,
         NEW locks, NEW unlocks, NEW opens, NEW spare,
         NEW locks2, NEW unlocks2, NEW opens2, NEW spare2,
         LatchOf(c, st, q, closed, locked, locks, unlocks, opens, spare),
         locks2 => locks, unlocks2 => unlocks, opens2 => opens, spare2 => spare,
         \A type \in ConnectorCommands : ~IsFor(q, 1, c, type)
  PROVE  LatchOf(c, st, q2, closed, locked, locks2, unlocks2, opens2, spare2)
<1>1. /\ "Unlock" \in ConnectorCommands /\ "OpenContactor" \in ConnectorCommands
      /\ "CloseContactor" \in ConnectorCommands
  BY DEF ConnectorCommands
<1>2. /\ ~IsFor(q, 1, c, "OpenContactor") /\ ~IsFor(q, 1, c, "Unlock")
      /\ ~IsFor(q, 1, c, "CloseContactor")
  BY <1>1
<1>3. \A type : Never(q, c, type) => Never(q2, c, type)
  BY TakenQueue
<1>4. ~Never(q, c, "OpenContactor") => ~Never(q2, c, "OpenContactor")
  BY <1>2, TakenQueue
<1>5. \A type : \A told, told2 : Once(q, c, type, told) /\ (told2 => told) =>
               Once(q2, c, type, told2)
  BY TakenQueue
<1>6. \A type : \A k \in 1 .. Len(q2) :
         /\ k + 1 \in 1 .. Len(q)
         /\ IsFor(q2, k, c, type) => IsFor(q, k + 1, c, type)
         /\ Precedes(q2, c, type, k) => Precedes(q, c, type, k + 1)
  BY TakenQueue
<1>7. \A k \in 1 .. Len(q2) :
         Precedes(q, c, "OpenContactor", k + 1) =>
            Precedes(q2, c, "OpenContactor", k)
  BY <1>2, TakenQueue
<1> QED BY <1>3, <1>4, <1>5, <1>6, <1>7 DEF LatchOf

\* It takes one of this connector's and fails: the first fault, so no other one
\* has moved the connector yet.
LEMMA FailureLatches ==
  ASSUME NEW c, NEW st, NEW q, NEW q2, Taken(q2, q), NEW closed, NEW locked,
         NEW locks, NEW unlocks, NEW opens, NEW spare,
         LatchOf(c, st, q, closed, locked, locks, unlocks, opens, spare),
         spare
  PROVE  LatchOf(c, st, q2, closed, locked, FALSE, FALSE, FALSE, TRUE)
<1>1. \A type : Never(q, c, type) => Never(q2, c, type)
  BY TakenQueue
<1>2. \A type : \A told : Once(q, c, type, told) => Once(q2, c, type, FALSE)
  BY TakenQueue
<1>3. \A type : \A k \in 1 .. Len(q2) :
         /\ k + 1 \in 1 .. Len(q)
         /\ IsFor(q2, k, c, type) => IsFor(q, k + 1, c, type)
         /\ Precedes(q2, c, type, k) => Precedes(q, c, type, k + 1)
  BY TakenQueue
<1>4. /\ Freeing \cap Settling = {} /\ "Faulted" \notin Settling
  BY DEF Freeing, Settling
<1>5. st # "Faulted"
  BY DEF LatchOf
<1>6. closed => st \in Owning \cup Settling
  BY DEF LatchOf
<1>7. ASSUME closed, NEW k \in 1 .. Len(q2), IsFor(q2, k, c, "Unlock")
      PROVE  FALSE
  <2>1. k + 1 \in 1 .. Len(q) /\ IsFor(q, k + 1, c, "Unlock")
    BY <1>3, <1>7
  <2>2. Precedes(q, c, "OpenContactor", k + 1) /\ ~Never(q, c, "Unlock")
    BY <1>7, <2>1 DEF LatchOf, Never
  <2>3. st \notin Settling
    BY <1>4, <2>2 DEF LatchOf
  <2>4. Never(q, c, "OpenContactor")
    BY <2>3 DEF LatchOf
  <2>5. \A i \in 1 .. (k + 1) - 1 : i \in 1 .. Len(q)
    BY <2>1 DEF Taken
  <2> QED BY <2>2, <2>4, <2>5 DEF Never, Precedes
<1>8. spare /\ st \in Settling => Once(q2, c, "OpenContactor", FALSE)
  BY <1>2 DEF LatchOf
<1>9. spare /\ st \notin Settling => Never(q2, c, "OpenContactor")
  BY <1>1 DEF LatchOf
<1>10. st \in Freeing => Once(q2, c, "Unlock", FALSE)
  BY <1>2 DEF LatchOf
<1>11. st \notin Freeing \cup {"Faulted"} => Never(q2, c, "Unlock")
  BY <1>1 DEF LatchOf
<1>12. \A k \in 1 .. Len(q2) : IsFor(q2, k, c, "CloseContactor") =>
          locked /\ ~Precedes(q2, c, "Unlock", k)
  BY <1>3 DEF LatchOf
<1>13. /\ st \in Latched => locked
       /\ closed => locked
       /\ st \notin {"Faulted", "FaultedSafe"}
  BY DEF LatchOf
<1> QED BY <1>5, <1>6, <1>7, <1>8, <1>9, <1>10, <1>11, <1>12, <1>13 DEF LatchOf

\* It takes one of this connector's and succeeds.
LEMMA SuccessLatches ==
  ASSUME NEW c, NEW st, NEW q, NEW q2, Taken(q2, q), NEW closed, NEW locked,
         NEW locks, NEW unlocks, NEW opens, NEW spare, NEW closed2, NEW locked2,
         NEW locks2, NEW unlocks2, NEW opens2, NEW spare2,
         LatchOf(c, st, q, closed, locked, locks, unlocks, opens, spare),
         NEW type \in ConnectorCommands, IsFor(q, 1, c, type),
         CloseIsOwed(c, st, q), UnlockFollowsOpen(c, q),
         closed2 <=> type = "CloseContactor" \/ (closed /\ type # "OpenContactor"),
         locked2 <=> type = "Lock" \/ (locked /\ type # "Unlock"),
         locks2 => type = "Lock", unlocks2 => type = "Unlock",
         opens2 => type = "OpenContactor", spare2 => spare
  PROVE  LatchOf(c, st, q2, closed2, locked2, locks2, unlocks2, opens2, spare2)
<1>1. \A other : other # type => ~IsFor(q, 1, c, other)
  BY DEF IsFor
<1>2. /\ 1 \in 1 .. Len(q) /\ ~Precedes(q, c, "OpenContactor", 1)
      /\ ~Never(q, c, type)
  BY TakenQueue DEF Never
<1>3. \A other : \A k \in 1 .. Len(q2) :
         /\ k + 1 \in 1 .. Len(q)
         /\ IsFor(q2, k, c, other) => IsFor(q, k + 1, c, other)
         /\ Precedes(q2, c, other, k) => Precedes(q, c, other, k + 1)
         /\ other = type => Precedes(q, c, other, k + 1)
         /\ Precedes(q, c, other, k + 1) /\ other # type =>
               Precedes(q2, c, other, k)
  BY <1>1, TakenQueue
<1>4. \A other : /\ Never(q, c, other) => Never(q2, c, other)
                 /\ other # type /\ ~Never(q, c, other) => ~Never(q2, c, other)
  BY <1>1, TakenQueue
<1>5. ASSUME NEW told, NEW told2, NEW other, Once(q, c, other, told),
             told2 => other = type
      PROVE  Once(q2, c, other, told2)
  <2>1. CASE other = type
    BY <1>5, <2>1, TakenQueue
  <2>2. CASE other # type
    BY <1>5, <2>2, TakenQueue
  <2> QED BY <2>1, <2>2
<1>6. /\ locks => locked
      /\ opens => ~closed
      /\ st \in Latched => locked
      /\ st \notin Freeing \cup {"Faulted"} => ~unlocks /\ Never(q, c, "Unlock")
      /\ st \in Freeing => Once(q, c, "Unlock", unlocks)
      /\ st = "Faulted" /\ opens => Never(q, c, "Unlock")
      /\ st = "Faulted" => \A i \in 1 .. Len(q) : IsFor(q, i, c, "Unlock") =>
            ~Precedes(q, c, "OpenContactor", i)
      /\ spare => st \notin {"Faulted", "FaultedSafe"}
      /\ spare /\ st \in Settling => Once(q, c, "OpenContactor", opens)
      /\ spare /\ st \notin Settling => ~opens /\ Never(q, c, "OpenContactor")
      /\ closed => st \in Owning \cup Settling \/ ~Never(q, c, "OpenContactor")
      /\ closed => \A i \in 1 .. Len(q) : IsFor(q, i, c, "Unlock") =>
            Precedes(q, c, "OpenContactor", i)
      /\ closed => locked
      /\ \A i \in 1 .. Len(q) : IsFor(q, i, c, "CloseContactor") =>
            locked /\ ~Precedes(q, c, "Unlock", i)
  BY DEF LatchOf
<1>7. Latched \cap (Freeing \cup {"Faulted"}) = {}
  BY DEF Latched, Freeing, Owning, Powered, Suspended
<1>8. type = "Unlock" => ~closed /\ st \in Freeing \cup {"Faulted"}
  BY <1>2, <1>6
<1>9. type = "CloseContactor" => locked
  BY <1>2, <1>6
<1>10. st \in Latched => locked2
  BY <1>6, <1>7, <1>8
<1>11. st \notin Freeing \cup {"Faulted"} => ~unlocks2 /\ Never(q2, c, "Unlock")
  BY <1>4, <1>6, <1>8
<1>12. st \in Freeing => Once(q2, c, "Unlock", unlocks2)
  BY <1>5, <1>6
<1>13. st = "Faulted" /\ opens2 => Never(q2, c, "Unlock")
  <2> SUFFICES ASSUME st = "Faulted", opens2, NEW k \in 1 .. Len(q2),
                      IsFor(q2, k, c, "Unlock")
               PROVE  FALSE
    BY DEF Never
  <2> QED BY <1>3, <1>6
<1>14. st = "Faulted" => \A k \in 1 .. Len(q2) : IsFor(q2, k, c, "Unlock") =>
          ~Precedes(q2, c, "OpenContactor", k)
  BY <1>3, <1>6
<1>15. spare2 /\ st \in Settling => Once(q2, c, "OpenContactor", opens2)
  BY <1>5, <1>6
<1>16. spare2 /\ st \notin Settling => ~opens2 /\ Never(q2, c, "OpenContactor")
  BY <1>2, <1>4, <1>6
<1>17. closed2 => st \in Owning \cup Settling \/ ~Never(q2, c, "OpenContactor")
  <2>1. CASE type = "CloseContactor"
    <3>1. st \in Owning \/ \E j \in 1 + 1 .. Len(q) : IsFor(q, j, c, "OpenContactor")
      BY <1>2, <2>1 DEF CloseIsOwed
    <3>2. ASSUME NEW j \in 1 + 1 .. Len(q), IsFor(q, j, c, "OpenContactor")
          PROVE  ~Never(q, c, "OpenContactor")
      <4>1. j \in 1 .. Len(q)
        BY DEF Taken
      <4> QED BY <3>2, <4>1 DEF Never
    <3> QED BY <1>4, <2>1, <3>1, <3>2
  <2>2. CASE type # "CloseContactor"
    BY <1>4, <1>6, <2>2
  <2> QED BY <2>1, <2>2
<1>18. ASSUME closed2, NEW k \in 1 .. Len(q2), IsFor(q2, k, c, "Unlock")
       PROVE  Precedes(q2, c, "OpenContactor", k)
  <2>1. k + 1 \in 1 .. Len(q) /\ IsFor(q, k + 1, c, "Unlock")
    BY <1>3, <1>18
  <2>2. Precedes(q, c, "OpenContactor", k + 1) /\ type # "OpenContactor"
    <3>1. CASE type = "CloseContactor"
      <4>1. 1 < k + 1
        BY DEF Taken
      <4>2. PICK j \in 1 + 1 .. (k + 1) - 1 : IsFor(q, j, c, "OpenContactor")
        BY <1>2, <2>1, <3>1, <4>1 DEF UnlockFollowsOpen
      <4>3. j \in 1 .. (k + 1) - 1
        BY DEF Taken
      <4> QED BY <3>1, <4>2, <4>3 DEF Precedes
    <3>2. CASE type # "CloseContactor"
      BY <1>6, <1>18, <2>1, <3>2
    <3> QED BY <3>1, <3>2
  <2> QED BY <1>3, <2>2
<1>19. ASSUME NEW k \in 1 .. Len(q2), IsFor(q2, k, c, "CloseContactor")
       PROVE  locked2 /\ ~Precedes(q2, c, "Unlock", k)
  <2>1. locked /\ ~Precedes(q, c, "Unlock", k + 1)
    BY <1>3, <1>6, <1>19
  <2> QED BY <1>3, <2>1
<1>20. /\ locks2 => locked2
       /\ opens2 => ~closed2
       /\ closed2 => locked2
       /\ spare2 => st \notin {"Faulted", "FaultedSafe"}
  BY <1>6, <1>8, <1>9
<1> QED BY <1>10, <1>11, <1>12, <1>13, <1>14, <1>15, <1>16, <1>17, <1>18, <1>19,
           <1>20 DEF LatchOf

ExecutorNews == {"LockConfirmed", "UnlockConfirmed", "ContactorOpened"}

\* Only the executor confirms what was commanded.
LEMMA NewsAreTheExecutors ==
  ASSUME NEW m \in Mails, NEW c, Sees(m.event, c),
         SeenOf(m.event).type \in ExecutorNews
  PROVE  m.from = "executor"
<1>1. m.event.type = "Connector" /\ SeenOf(m.event) = m.event.event
  BY DEF Sees, SeenOf, Bare, ExecutorNews
<1> QED BY <1>1 DEF ExecutorNews, Mails, ToConnector, DriverReports, Orders,
               Settings, StationOrders

\* Only it and the binding report a fault.
LEMMA FaultsAreTheHardwares ==
  ASSUME NEW m \in Mails, NEW c, Sees(m.event, c),
         SeenOf(m.event).type \in FaultTypes
  PROVE  m.from \in {"executor", "driver"}
<1>1. CASE m.event.type = "Connector"
  BY <1>1 DEF SeenOf, FaultTypes, Mails, ToConnector, Orders, Settings,
              StationOrders
<1>2. CASE m.event.type # "Connector"
  <2>1. m.event.type = "EvseFaultDetected"
    BY <1>2 DEF Sees, SeenOf, Bare, FaultTypes
  <2> QED BY <2>1 DEF Mails, ToConnector, StationOrders, Settings
<1> QED BY <1>1, <1>2

\* What is told once the head of the mailbox was taken.
LEMMA TurnTells ==
  ASSUME SInv, Turn, NEW c
  PROVE  /\ \A types : Told(c, types)' => Told(c, types)
         /\ \A types : SeesAt(1, c, types) => Told(c, types)
         /\ SeesAt(1, c, ExecutorNews) =>
               \A types \in SUBSET ExecutorNews : ~Told(c, types)'
         /\ FaultsCounted(c) /\ SeesAt(1, c, FaultTypes) =>
               ~Told(c, FaultTypes)' /\ spent.failures # 0
         /\ FaultsCounted(c) => FaultsCounted(c)'
<1>1. /\ Len(mail) \in Nat \ {0} /\ Len(mail') = Len(mail) - 1
      /\ \A i \in 1 .. Len(mail') : i + 1 \in 1 .. Len(mail)
                                   /\ mail'[i] = mail[i + 1]
  BY TakeHead DEF SInv, Turn
<1>2. \A i \in 1 .. Len(mail) : mail[i] \in Mails
  BY ElementOfSeq DEF SInv, Mailbox
<1>3. \A i, j \in 1 .. Len(mail) : mail[i].from = mail[j].from => i = j
  BY DEF SInv, Mailbox
<1>4. spent' = spent /\ 1 \in 1 .. Len(mail)
  BY <1>1 DEF Turn
<1>5. \A types : \A i \in 1 .. Len(mail') : SeesAt(i, c, types)' =>
         SeesAt(i + 1, c, types)
  BY <1>1 DEF SeesAt
<1>6. \A types : Told(c, types)' => Told(c, types)
  BY <1>1, <1>5 DEF Told
<1>7. \A types : SeesAt(1, c, types) => Told(c, types)
  BY <1>4 DEF Told
<1>8. ASSUME SeesAt(1, c, ExecutorNews), NEW types \in SUBSET ExecutorNews,
             Told(c, types)'
      PROVE  FALSE
  <2>1. PICK i \in 1 .. Len(mail') : SeesAt(i, c, types)'
    BY <1>8 DEF Told
  <2>2. i + 1 \in 1 .. Len(mail) /\ SeesAt(i + 1, c, ExecutorNews)
    BY <1>1, <1>5, <2>1 DEF SeesAt
  <2>3. mail[i + 1].from = "executor" /\ mail[1].from = "executor"
    BY <1>2, <1>4, <1>8, <2>2, NewsAreTheExecutors DEF SeesAt
  <2>4. i + 1 = 1
    BY <1>3, <1>4, <2>2, <2>3
  <2> QED BY <1>1, <2>4
<1>9. ASSUME FaultsCounted(c), SeesAt(1, c, FaultTypes)
      PROVE  ~Told(c, FaultTypes)' /\ spent.failures # 0
  <2>1. spent.failures # 0
    BY <1>4, <1>9 DEF FaultsCounted
  <2>2. ASSUME Told(c, FaultTypes)' PROVE FALSE
    <3>1. PICK i \in 1 .. Len(mail') : SeesAt(i, c, FaultTypes)'
      BY <2>2 DEF Told
    <3>2. i + 1 \in 1 .. Len(mail) /\ SeesAt(i + 1, c, FaultTypes)
      BY <1>1, <1>5, <3>1
    <3>3. i + 1 = 1
      BY <1>4, <1>9, <3>2 DEF FaultsCounted
    <3> QED BY <1>1, <3>3
  <2> QED BY <2>1, <2>2
<1>10. ASSUME FaultsCounted(c)
       PROVE  FaultsCounted(c)'
  <2> SUFFICES ASSUME NEW i \in 1 .. Len(mail'), NEW j \in 1 .. Len(mail'),
                      SeesAt(i, c, FaultTypes)', SeesAt(j, c, FaultTypes)'
               PROVE  i = j /\ spent'.failures # 0
    BY DEF FaultsCounted
  <2>1. /\ i + 1 \in 1 .. Len(mail) /\ SeesAt(i + 1, c, FaultTypes)
        /\ j + 1 \in 1 .. Len(mail) /\ SeesAt(j + 1, c, FaultTypes)
    BY <1>1, <1>5
  <2>2. i + 1 = j + 1 /\ spent.failures # 0
    BY <1>10, <2>1 DEF FaultsCounted
  <2> QED BY <1>1, <1>4, <2>2
<1> QED BY <1>6, <1>7, <1>8, <1>9, <1>10

\* What is told once the mailbox has grown.
LEMMA GrowthTells ==
  ASSUME NEW new, MailGrows(new), NEW c
  PROVE  /\ \A types : Told(c, types)' =>
               Told(c, types) \/ (Sees(new, c) /\ SeenOf(new).type \in types)
         /\ \A types : Told(c, types) => Told(c, types)'
         /\ ~(Sees(new, c) /\ SeenOf(new).type \in FaultTypes)
            /\ spent'.failures = spent.failures /\ FaultsCounted(c) =>
               FaultsCounted(c)'
         /\ spent.failures = 0 /\ spent'.failures # 0 /\ FaultsCounted(c) =>
               FaultsCounted(c)'
<1>1. CASE mail' = mail
  BY <1>1 DEF Told, SeesAt, FaultsCounted
<1>2. CASE mail' # mail
  <2>1. /\ Len(mail) \in Nat /\ Len(mail') = Len(mail) + 1
        /\ \A i \in 1 .. Len(mail) : mail'[i] = mail[i]
        /\ mail'[Len(mail) + 1].event = new
    BY <1>2 DEF MailGrows
  <2>2. \A i \in 1 .. Len(mail') : i \in 1 .. Len(mail) \/ i = Len(mail) + 1
    BY <2>1
  <2>3. \A i \in 1 .. Len(mail) : i \in 1 .. Len(mail')
    BY <2>1
  <2>4. \A types : \A i \in 1 .. Len(mail) :
           SeesAt(i, c, types)' <=> SeesAt(i, c, types)
    <3> SUFFICES ASSUME NEW types, NEW i \in 1 .. Len(mail)
                 PROVE  SeesAt(i, c, types)' <=> SeesAt(i, c, types)
      OBVIOUS
    <3>1. mail'[i].event = mail[i].event
      BY <2>1
    <3> QED BY <3>1 DEF SeesAt
  <2>5. ASSUME NEW types, Told(c, types)'
        PROVE  Told(c, types) \/ (Sees(new, c) /\ SeenOf(new).type \in types)
    <3>1. PICK i \in 1 .. Len(mail') : SeesAt(i, c, types)'
      BY <2>5 DEF Told
    <3>2. CASE i \in 1 .. Len(mail)
      BY <2>4, <3>1, <3>2 DEF Told
    <3>3. CASE i = Len(mail) + 1
      <4>1. mail'[i].event = new
        BY <2>1, <3>3
      <4> QED BY <3>1, <4>1 DEF SeesAt
    <3> QED BY <2>2, <3>2, <3>3
  <2>6. ASSUME NEW types, Told(c, types) PROVE Told(c, types)'
    <3>1. PICK i \in 1 .. Len(mail) : SeesAt(i, c, types)
      BY <2>6 DEF Told
    <3> QED BY <2>3, <2>4, <3>1 DEF Told
  <2>7. ASSUME ~(Sees(new, c) /\ SeenOf(new).type \in FaultTypes),
               spent'.failures = spent.failures, FaultsCounted(c)
        PROVE  FaultsCounted(c)'
    <3> SUFFICES ASSUME NEW i \in 1 .. Len(mail'), NEW j \in 1 .. Len(mail'),
                        SeesAt(i, c, FaultTypes)', SeesAt(j, c, FaultTypes)'
                 PROVE  i = j /\ spent'.failures # 0
      BY DEF FaultsCounted
    <3>1. i # Len(mail) + 1 /\ j # Len(mail) + 1
      BY <2>1, <2>7 DEF SeesAt
    <3>2. /\ i \in 1 .. Len(mail) /\ SeesAt(i, c, FaultTypes)
          /\ j \in 1 .. Len(mail) /\ SeesAt(j, c, FaultTypes)
      BY <2>2, <2>4, <3>1
    <3> QED BY <2>7, <3>2 DEF FaultsCounted
  <2>8. ASSUME spent.failures = 0, spent'.failures # 0, FaultsCounted(c)
        PROVE  FaultsCounted(c)'
    <3> SUFFICES ASSUME NEW i \in 1 .. Len(mail'), NEW j \in 1 .. Len(mail'),
                        SeesAt(i, c, FaultTypes)', SeesAt(j, c, FaultTypes)'
                 PROVE  i = j /\ spent'.failures # 0
      BY DEF FaultsCounted
    <3>1. ~(i \in 1 .. Len(mail)) /\ ~(j \in 1 .. Len(mail))
      BY <2>4, <2>8 DEF FaultsCounted
    <3> QED BY <2>2, <2>8, <3>1
  <2> QED BY <2>5, <2>6, <2>7, <2>8
<1> QED BY <1>1, <1>2

\* Applying an event keeps the latch.
LEMMA TurnKeepsLatch ==
  ASSUME SInv, PowerInv, LatchInv, Turn
  PROVE  LatchInv'
<1> SUFFICES ASSUME spent'.failures <= 1, NEW c \in Driven
             PROVE  FaultsCounted(c)' /\ Latch(c)'
  BY DEF LatchInv, Turn
<1> DEFINE m == mail[1]
           r == Apply(cp, m.event)
           more == CommandsOf(r.out)
<1>1. Head(mail) = m /\ m \in Mails /\ 1 \in 1 .. Len(mail)
  <2>1. Len(mail) \in Nat \ {0} /\ Head(mail) = m /\ m \in Mails
    BY TakeHead DEF SInv, Turn
  <2> QED BY <2>1
<1>2. PICK lst : Settled(cp, lst)
  BY DEF SInv
<1>3. /\ cp' = r.cp /\ phys' = phys /\ commands' = commands \o more
      /\ spent' = spent
  BY <1>1 DEF Turn
<1>4. c \in Connectors
  BY StationBounds
<1>5. /\ more \in Seq(Commands)
      /\ Fares(m.event, c, cp.conn[c].state, r.cp.conn[c].state, more)
  BY <1>1, <1>2, <1>4, ApplyFares
<1> HIDE DEF r, more
<1>6. FaultsCounted(c) /\ Latch(c)
  BY <1>3 DEF LatchInv
<1> DEFINE st == cp.conn[c].state
           next == r.cp.conn[c].state
           t == IF Sees(m.event, c) THEN SeenOf(m.event).type ELSE "None"
           closed == phys[c].closed
           locked == phys[c].locked
           locks == Told(c, {"LockConfirmed"})
           unlocks == Told(c, {"UnlockConfirmed"})
           opens == Told(c, {"ContactorOpened"})
           spare == Spare(c)
           locks2 == Told(c, {"LockConfirmed"})'
           unlocks2 == Told(c, {"UnlockConfirmed"})'
           opens2 == Told(c, {"ContactorOpened"})'
           spare2 == Spare(c)'
<1>7. PICK x : Tells(more, c, x) /\ Arc(st, t, next, x)
  <2>1. PICK x : /\ Tells(more, c, x)
                 /\ IF Sees(m.event, c)
                      THEN Arc(st, SeenOf(m.event).type, next, x)
                      ELSE next = st /\ x = None
    BY <1>5 DEF Fares
  <2>2. CASE Sees(m.event, c)
    BY <2>1, <2>2
  <2>3. CASE ~Sees(m.event, c)
    <3>1. next = st /\ x = None /\ t = "None"
      BY <2>1, <2>3
    <3> HIDE DEF t, next, st
    <3>2. Arc(st, "None", st, None)
      BY NothingIsAnArc
    <3> QED BY <2>1, <3>1, <3>2
  <2> QED BY <2>2, <2>3
<1>8. t \notin SettingTypes
  <2>1. t \in SettingTypes =>
           m.event.type = "Connector" /\ m.event.connector = c
           /\ m.event.event.type = t
    BY <1>1, SeenApart DEF SettingTypes
  <2> QED BY <1>1, <2>1 DEF PowerInv, MailIsApart
<1>9. \A types : t \in types /\ "None" \notin types => SeesAt(1, c, types)
  BY DEF SeesAt
<1>10. /\ \A types : Told(c, types)' => Told(c, types)
       /\ \A types : SeesAt(1, c, types) => Told(c, types)
       /\ SeesAt(1, c, ExecutorNews) =>
             \A types \in SUBSET ExecutorNews : ~Told(c, types)'
       /\ SeesAt(1, c, FaultTypes) =>
             ~Told(c, FaultTypes)' /\ spent.failures # 0
       /\ FaultsCounted(c)'
  BY <1>6, TurnTells
<1>11. /\ locks2 => locks
       /\ unlocks2 => unlocks
       /\ opens2 => opens
       /\ spare2 => spare
  BY <1>3, <1>10 DEF Spare
<1>12. /\ t = "LockConfirmed" => locks
       /\ t = "UnlockConfirmed" => unlocks
       /\ t = "ContactorOpened" => opens
  BY <1>9, <1>10
<1>13. t \in {"UnlockConfirmed", "ContactorOpened"} => ~unlocks2 /\ ~opens2
  <2>1. {"UnlockConfirmed"} \in SUBSET ExecutorNews
        /\ {"ContactorOpened"} \in SUBSET ExecutorNews
    BY DEF ExecutorNews
  <2>2. t \in {"UnlockConfirmed", "ContactorOpened"} => SeesAt(1, c, ExecutorNews)
    BY <1>9 DEF ExecutorNews
  <2> QED BY <1>10, <2>1, <2>2
<1>14. t \in FaultTypes => spare /\ ~spare2
  <2>1. "None" \notin FaultTypes
    BY DEF FaultTypes
  <2> QED BY <1>3, <1>9, <1>10, <2>1 DEF Spare
<1>15. LatchOf(c, st, commands, closed, locked, locks, unlocks, opens, spare)
  BY <1>6 DEF Latch
<1>16. /\ cp'.conn[c].state = next /\ phys'[c].closed = closed
       /\ phys'[c].locked = locked
  BY <1>3
<1>17. commands \in Seq(Commands)
  BY DEF SInv
<1>18. Extends(commands \o more, commands, c, x)
  BY <1>5, <1>7, <1>17, BroadcastExtends
<1> DEFINE q2 == commands \o more
<1> HIDE DEF st, next, t, closed, locked, locks, unlocks, opens, spare, locks2,
             unlocks2, opens2, spare2, q2
<1>19. LatchOf(c, next, q2, closed, locked, locks2, unlocks2, opens2, spare2)
  <2>1. Extends(q2, commands, c, x) /\ Arc(st, t, next, x)
    BY <1>7, <1>18 DEF q2
  <2>2. /\ t = "UnlockConfirmed" => unlocks /\ ~unlocks2
        /\ t = "ContactorOpened" => opens /\ ~opens2 /\ ~unlocks2
    BY <1>12, <1>13
  <2> QED BY <1>8, <1>11, <1>12, <1>14, <1>15, <2>1, <2>2, TurnLatches
<1>20. Latch(c)'
  BY <1>3, <1>16, <1>19
     DEF Latch, locks2, unlocks2, opens2, spare2, q2
<1> QED BY <1>10, <1>20

\* A step of another task than the actor and the executor.
LEMMA GrowingKeepsLatch ==
  ASSUME LatchInv, cp' = cp, commands' = commands,
         \A c \in Connectors : /\ phys'[c].closed = phys[c].closed
                               /\ phys'[c].locked = phys[c].locked,
         NEW new, MailGrows(new), spent.failures \in Nat,
         \A c \in Driven : Sees(new, c) => SeenOf(new).type \notin ExecutorNews,
         \/ /\ spent'.failures = spent.failures
            /\ \A c \in Driven : Sees(new, c) => SeenOf(new).type \notin FaultTypes
         \/ spent'.failures = spent.failures + 1
  PROVE  LatchInv'
<1> SUFFICES ASSUME spent'.failures <= 1, NEW c \in Driven
             PROVE  FaultsCounted(c)' /\ Latch(c)'
  BY DEF LatchInv
<1>1. spent.failures <= 1
  OBVIOUS
<1>2. FaultsCounted(c) /\ Latch(c) /\ c \in Connectors
  BY <1>1, StationBounds DEF LatchInv
<1>3. \/ spent'.failures = spent.failures
      \/ spent.failures = 0 /\ spent'.failures # 0
  OBVIOUS
<1>4. FaultsCounted(c)'
  <2>1. CASE spent'.failures = spent.failures
    <3>1. ~(Sees(new, c) /\ SeenOf(new).type \in FaultTypes)
      BY <2>1
    <3> QED BY <1>2, <2>1, <3>1, GrowthTells
  <2>2. CASE spent.failures = 0 /\ spent'.failures # 0
    BY <1>2, <2>2, GrowthTells
  <2> QED BY <1>3, <2>1, <2>2
<1>5. Spare(c)' => Spare(c)
  <2>1. CASE spent'.failures = spent.failures
    <3>1. ~(Sees(new, c) /\ SeenOf(new).type \in FaultTypes)
      BY <2>1
    <3>2. Told(c, FaultTypes)' => Told(c, FaultTypes)
      BY <3>1, GrowthTells
    <3> QED BY <2>1, <3>2 DEF Spare
  <2>2. CASE spent.failures = 0
    BY <2>2 DEF Spare
  <2> QED BY <1>3, <2>1, <2>2
<1>6. \A types \in SUBSET ExecutorNews : Told(c, types)' => Told(c, types)
  BY GrowthTells
<1>7. /\ {"LockConfirmed"} \in SUBSET ExecutorNews
      /\ {"UnlockConfirmed"} \in SUBSET ExecutorNews
      /\ {"ContactorOpened"} \in SUBSET ExecutorNews
  BY DEF ExecutorNews
<1> DEFINE st == cp.conn[c].state
           closed == phys[c].closed
           locked == phys[c].locked
           locks == Told(c, {"LockConfirmed"})
           unlocks == Told(c, {"UnlockConfirmed"})
           opens == Told(c, {"ContactorOpened"})
           spare == Spare(c)
           locks2 == Told(c, {"LockConfirmed"})'
           unlocks2 == Told(c, {"UnlockConfirmed"})'
           opens2 == Told(c, {"ContactorOpened"})'
           spare2 == Spare(c)'
<1>8. /\ LatchOf(c, st, commands, closed, locked, locks, unlocks, opens, spare)
      /\ locks2 => locks
      /\ unlocks2 => unlocks
      /\ opens2 => opens
      /\ spare2 => spare
  BY <1>2, <1>5, <1>6, <1>7 DEF Latch
<1>9. /\ cp'.conn[c].state = st /\ phys'[c].closed = closed
      /\ phys'[c].locked = locked
  BY <1>2
<1> HIDE DEF st, closed, locked, locks, unlocks, opens, spare, locks2, unlocks2,
             opens2, spare2
<1>10. LatchOf(c, st, commands, closed, locked, locks2, unlocks2, opens2, spare2)
  BY <1>8, LatchWeakens
<1>11. Latch(c)'
  BY <1>9, <1>10 DEF Latch, locks2, unlocks2, opens2, spare2
<1> QED BY <1>4, <1>11

\* What the executor reports of a command.
LEMMA OutcomeNews ==
  ASSUME NEW command \in ConnCommands, NEW failed \in BOOLEAN
  PROVE  LET type == ConnectorOutcome(command, failed).type IN
         /\ failed => type \in FaultTypes \ ExecutorNews
         /\ ~failed => /\ type \notin FaultTypes
                       /\ type = "LockConfirmed" => command.type = "Lock"
                       /\ type = "UnlockConfirmed" => command.type = "Unlock"
                       /\ type = "ContactorOpened" => command.type = "OpenContactor"
BY DEF ConnectorOutcome, Confirmation, Bare, FaultTypes, ExecutorNews,
       ConnCommands, ConnectorCommands

\* What a command that succeeds moves.
LEMMA MovedParts ==
  ASSUME NEW p \in Phys, NEW type \in ConnectorCommands
  PROVE  /\ Moved(p, type).closed <=>
               type = "CloseContactor" \/ (p.closed /\ type # "OpenContactor")
         /\ Moved(p, type).locked <=>
               type = "Lock" \/ (p.locked /\ type # "Unlock")
<1>1. CASE type = "Lock"
  BY <1>1 DEF Moved, Phys
<1>2. CASE type = "Unlock"
  BY <1>2 DEF Moved, Phys
<1>3. CASE type = "CloseContactor"
  BY <1>3 DEF Moved, Phys
<1>4. CASE type = "OpenContactor"
  BY <1>4 DEF Moved, Phys
<1> QED BY <1>1, <1>2, <1>3, <1>4 DEF ConnectorCommands

\* An idle executor has confirmed nothing that is still in the mailbox.
LEMMA IdleTellsNothing ==
  ASSUME SInv, Idle("executor"), NEW c, NEW types \in SUBSET ExecutorNews
  PROVE  ~Told(c, types)
<1> SUFFICES ASSUME NEW i \in 1 .. Len(mail), SeesAt(i, c, types) PROVE FALSE
  BY DEF Told
<1>1. mail[i] \in Mails /\ mail[i].from # "executor"
  BY ElementOfSeq DEF SInv, Mailbox, Idle
<1>2. Sees(mail[i].event, c) /\ SeenOf(mail[i].event).type \in ExecutorNews
  BY DEF SeesAt
<1> QED BY <1>1, <1>2, NewsAreTheExecutors

\* So does executing a command, whether it fails or not.
LEMMA ExecuteKeepsLatch ==
  ASSUME SInv, Capacity >= 5, PowerInv, LatchInv, Execute
  PROVE  LatchInv'
<1> SUFFICES ASSUME spent'.failures <= 1, NEW c \in Driven
             PROVE  FaultsCounted(c)' /\ Latch(c)'
  BY DEF LatchInv
<1>1. PICK failed \in BOOLEAN :
         /\ spent' = IF failed THEN [spent EXCEPT !.failures = @ + 1] ELSE spent
         /\ \/ /\ commands[1] \in Reboots
               /\ phys' = phys
               /\ IF failed
                    THEN Send("executor", [type |-> "EvseFaultDetected",
                                           evse |-> commands[1].evse])
                    ELSE mail' = mail
            \/ /\ commands[1] \in ConnCommands
               /\ ExecuteOnConnector(commands[1], failed)
  BY ExecuteSends
<1>2. Idle("executor") /\ "executor" \in Tasks
  BY ExecuteSends DEF Tasks
<1>3. Taken(commands', commands) /\ commands[1] \in Commands
  <2>1. commands # <<>> /\ commands' = Tail(commands)
    BY ExecuteSends DEF Execute
  <2> QED BY <2>1, TakeCommand DEF SInv, Taken
<1>4. cp' = cp /\ c \in Connectors
  BY StationBounds DEF Execute, vars
<1>5. commands[1] \in Reboots => commands[1] \notin ConnCommands
  BY DEF ConnCommands, Reboots, ConnectorCommands
<1>6. phys \in [Connectors -> Phys]
  BY DEF SInv, TasksOK
<1>7. /\ spent.failures \in Nat
      /\ failed => spent'.failures = spent.failures + 1
      /\ ~failed => spent'.failures = spent.failures
  <2>1. spent \in [failures : 0 .. MaxFailures, calls : 0 .. MaxCalls,
                   moves : 0 .. MaxMoves]
    BY DEF SInv, TasksOK
  <2> QED BY <1>1, <2>1, StationBounds
<1>8. failed => spent.failures = 0 /\ spent'.failures # 0
  BY <1>7
<1>9. FaultsCounted(c) /\ Latch(c)
  BY <1>7 DEF LatchInv
<1>10. /\ {"LockConfirmed"} \in SUBSET ExecutorNews
       /\ {"UnlockConfirmed"} \in SUBSET ExecutorNews
       /\ {"ContactorOpened"} \in SUBSET ExecutorNews
  BY DEF ExecutorNews
<1>11. \A types \in SUBSET ExecutorNews : ~Told(c, types)
  BY <1>2, IdleTellsNothing
<1>12. ASSUME NEW new, MailGrows(new),
              ~failed => ~(Sees(new, c) /\ SeenOf(new).type \in FaultTypes)
       PROVE  /\ FaultsCounted(c)'
              /\ Spare(c)' => Spare(c)
              /\ \A types \in SUBSET ExecutorNews : Told(c, types)' =>
                    Sees(new, c) /\ SeenOf(new).type \in types
  <2>1. FaultsCounted(c)'
    BY <1>7, <1>8, <1>9, <1>12, GrowthTells
  <2>2. CASE failed
    BY <1>8, <1>11, <1>12, <2>1, <2>2, GrowthTells DEF Spare
  <2>3. CASE ~failed
    <3>1. Told(c, FaultTypes)' => Told(c, FaultTypes)
      BY <1>12, <2>3, GrowthTells
    <3> QED BY <1>7, <1>11, <1>12, <2>1, <2>3, <3>1, GrowthTells DEF Spare
  <2> QED BY <2>2, <2>3
<1> DEFINE st == cp.conn[c].state
           closed == phys[c].closed
           locked == phys[c].locked
           locks == Told(c, {"LockConfirmed"})
           unlocks == Told(c, {"UnlockConfirmed"})
           opens == Told(c, {"ContactorOpened"})
           spare == Spare(c)
           closed2 == phys'[c].closed
           locked2 == phys'[c].locked
           locks2 == Told(c, {"LockConfirmed"})'
           unlocks2 == Told(c, {"UnlockConfirmed"})'
           opens2 == Told(c, {"ContactorOpened"})'
           spare2 == Spare(c)'
           moved == LatchOf(c, st, commands', closed2, locked2, locks2,
                            unlocks2, opens2, spare2)
<1>13. LatchOf(c, st, commands, closed, locked, locks, unlocks, opens, spare)
  BY <1>9 DEF Latch
<1>14. moved => Latch(c)'
  BY <1>4 DEF Latch
<1>15. ASSUME phys'[c] = phys[c], ~locks2, ~unlocks2, ~opens2, spare2 => spare,
              \A type \in ConnectorCommands : ~IsFor(commands, 1, c, type)
       PROVE  moved
  <2>1. closed2 = closed /\ locked2 = locked
    BY <1>15
  <2> HIDE DEF st, closed, locked, locks, unlocks, opens, spare, closed2, locked2,
               locks2, unlocks2, opens2, spare2
  <2>2. LatchOf(c, st, commands', closed, locked, locks2, unlocks2, opens2, spare2)
    BY <1>3, <1>13, <1>15, OthersCommandLatches
  <2> QED BY <2>1, <2>2
<1>16. CASE commands[1] \in Reboots
  <2>1. PICK new : /\ MailGrows(new)
                   /\ Sees(new, c) => SeenOf(new).type = "FaultDetected" /\ failed
    <3>1. CASE failed
      <4> DEFINE new == [type |-> "EvseFaultDetected", evse |-> commands[1].evse]
      <4>1. Send("executor", new)
        BY <1>1, <1>5, <1>16, <3>1
      <4>2. [from |-> "executor", event |-> new] \in Mails
        BY <1>16, RebootFaultsAreMails DEF Reboots
      <4>3. SeenOf(new).type = "FaultDetected"
        BY DEF SeenOf, Bare
      <4> HIDE DEF new
      <4>4. MailGrows(new)
        BY <1>2, <4>1, <4>2, SendMakesMailGrow
      <4> QED BY <3>1, <4>3, <4>4
    <3>2. CASE ~failed
      <4>1. MailGrows(Bare("None"))
        BY <1>1, <1>5, <1>16, <3>2 DEF MailGrows
      <4>2. ~Sees(Bare("None"), c)
        BY DEF Sees, Bare
      <4> QED BY <4>1, <4>2
    <3> QED BY <3>1, <3>2
  <2>2. /\ FaultsCounted(c)'
        /\ spare2 => spare
        /\ \A types \in SUBSET ExecutorNews : Told(c, types)' =>
              Sees(new, c) /\ SeenOf(new).type \in types
    BY <1>12, <2>1
  <2>3. ~locks2 /\ ~unlocks2 /\ ~opens2
    BY <1>10, <2>1, <2>2
  <2>4. \A type \in ConnectorCommands : ~IsFor(commands, 1, c, type)
    BY <1>16 DEF IsFor, Reboots, ConnectorCommands
  <2>5. phys'[c] = phys[c]
    BY <1>1, <1>5, <1>16
  <2> HIDE DEF locks2, unlocks2, opens2, spare2, spare, moved
  <2>6. moved
    BY <1>15, <2>2, <2>3, <2>4, <2>5
  <2> QED BY <1>14, <2>2, <2>6
<1>17. CASE commands[1] \in ConnCommands
  <2> DEFINE d == commands[1].connector
             type == commands[1].type
             new == OnC(d, ConnectorOutcome(commands[1], failed))
  <2>1. /\ Send("executor", new)
        /\ phys' = IF failed THEN phys
                   ELSE [phys EXCEPT ![d] = Moved(@, type)]
    BY <1>1, <1>5, <1>17 DEF ExecuteOnConnector
  <2>2. /\ d \in Connectors /\ [from |-> "executor", event |-> new] \in Mails
        /\ type \in ConnectorCommands
    BY <1>17, ConfirmationsAreMails DEF ConnCommands
  <2>3. /\ Sees(new, c) <=> c = d
        /\ SeenOf(new) = ConnectorOutcome(commands[1], failed)
    BY DEF OnC, Sees, SeenOf
  <2>4. /\ failed => SeenOf(new).type \in FaultTypes \ ExecutorNews
        /\ ~failed =>
              /\ SeenOf(new).type \notin FaultTypes
              /\ SeenOf(new).type = "LockConfirmed" => type = "Lock"
              /\ SeenOf(new).type = "UnlockConfirmed" => type = "Unlock"
              /\ SeenOf(new).type = "ContactorOpened" => type = "OpenContactor"
    BY <1>17, <2>3, OutcomeNews
  <2> HIDE DEF new
  <2>5. MailGrows(new)
    BY <1>2, <2>1, <2>2, SendMakesMailGrow
  <2>6. /\ FaultsCounted(c)'
        /\ spare2 => spare
        /\ \A types \in SUBSET ExecutorNews : Told(c, types)' =>
              Sees(new, c) /\ SeenOf(new).type \in types
    BY <1>12, <2>4, <2>5
  <2>7. CASE c # d
    <3>1. phys'[c] = phys[c]
      BY <1>6, <2>1, <2>2, <2>7
    <3>2. \A any \in ConnectorCommands : ~IsFor(commands, 1, c, any)
      BY <2>7 DEF IsFor
    <3>3. ~locks2 /\ ~unlocks2 /\ ~opens2
      BY <1>10, <2>3, <2>6, <2>7
    <3> HIDE DEF locks2, unlocks2, opens2, spare2, spare, moved
    <3>4. moved
      BY <1>15, <2>6, <3>1, <3>2, <3>3
    <3> QED BY <1>14, <2>6, <3>4
  <2>8. CASE c = d /\ failed
    <3>1. closed2 = closed /\ locked2 = locked
      BY <2>1, <2>8
    <3>2. spare
      BY <1>8, <2>8 DEF Spare
    <3>3. ~locks2 /\ ~unlocks2 /\ ~opens2
      BY <1>10, <2>4, <2>6, <2>8
    <3> HIDE DEF st, closed, locked, locks, unlocks, opens, spare, closed2,
                 locked2, locks2, unlocks2, opens2, spare2
    <3>4. LatchOf(c, st, commands', closed, locked, FALSE, FALSE, FALSE, TRUE)
      BY <1>3, <1>13, <3>2, FailureLatches
    <3>5. LatchOf(c, st, commands', closed, locked, locks2, unlocks2, opens2, spare2)
      BY <3>3, <3>4, LatchWeakens
    <3>6. moved
      BY <3>1, <3>5
    <3> QED BY <1>14, <2>6, <3>6
  <2>9. CASE c = d /\ ~failed
    <3>1. phys'[c] = Moved(phys[c], type) /\ phys[c] \in Phys
      BY <1>6, <2>1, <2>2, <2>9
    <3>2. /\ closed2 <=> type = "CloseContactor" \/ (closed /\ type # "OpenContactor")
          /\ locked2 <=> type = "Lock" \/ (locked /\ type # "Unlock")
      BY <2>2, <3>1, MovedParts
    <3>3. /\ locks2 => type = "Lock"
          /\ unlocks2 => type = "Unlock"
          /\ opens2 => type = "OpenContactor"
      BY <1>10, <2>4, <2>6, <2>9
    <3>4. IsFor(commands, 1, c, type)
      BY <2>9 DEF IsFor
    <3>5. CloseIsOwed(c, st, commands) /\ UnlockFollowsOpen(c, commands)
      BY <1>4 DEF PowerInv, PowerOf, Guarded
    <3> HIDE DEF st, closed, locked, locks, unlocks, opens, spare, closed2,
                 locked2, locks2, unlocks2, opens2, spare2, type, d
    <3>6. LatchOf(c, st, commands', closed2, locked2, locks2, unlocks2, opens2,
                  spare2)
      BY <1>3, <1>13, <2>2, <2>6, <3>2, <3>3, <3>4, <3>5, SuccessLatches
    <3> QED BY <1>14, <2>6, <3>6
  <2> QED BY <2>7, <2>8, <2>9
<1> QED BY <1>3, <1>16, <1>17 DEF Commands

\* A station that has not started keeps it.
LEMMA InitLatch == StationInit => LatchInv
<1> SUFFICES ASSUME StationInit, NEW c \in Driven
             PROVE  FaultsCounted(c) /\ Latch(c)
  BY DEF LatchInv
<1>1. c \in Connectors
  BY StationBounds
<1>2. mail = <<>> /\ commands = <<>> /\ ~phys[c].closed
  BY <1>1 DEF StationInit
<1>3. cp.conn[c].state = "Available"
  <2>1. PICK p \in Policies : cp = [NewChargePoint(p) EXCEPT
                                     !.lifecycle = "Available",
                                     !.registration = "Accepted"]
    BY DEF StationInit
  <2>2. cp.conn = [d \in Connectors |-> NewSlot]
    BY <2>1 DEF NewChargePoint
  <2> QED BY <1>1, <2>2 DEF NewSlot
<1>4. Len(mail) = 0 /\ Len(commands) = 0
  BY <1>2
<1>5. \A types : ~Told(c, types)
  BY <1>4 DEF Told
<1>6. FaultsCounted(c)
  BY <1>4 DEF FaultsCounted
<1> DEFINE st == cp.conn[c].state
           closed == phys[c].closed
           locked == phys[c].locked
           locks == Told(c, {"LockConfirmed"})
           unlocks == Told(c, {"UnlockConfirmed"})
           opens == Told(c, {"ContactorOpened"})
           spare == Spare(c)
<1>7. /\ st = "Available" /\ ~closed /\ ~locks /\ ~unlocks /\ ~opens
  BY <1>2, <1>3, <1>5
<1> HIDE DEF st, closed, locked, locks, unlocks, opens, spare
<1>8. \A type : Never(commands, c, type)
  BY <1>4 DEF Never
<1>9. "Available" \notin Latched \cup Freeing \cup Settling \cup {"Faulted", "FaultedSafe"}
  BY DEF Latched, Freeing, Settling, Owning, Powered, Suspended
<1>10. LatchOf(c, st, commands, closed, locked, locks, unlocks, opens, spare)
  BY <1>4, <1>7, <1>8, <1>9 DEF LatchOf
<1> QED BY <1>6, <1>10
           DEF Latch, st, closed, locked, locks, unlocks, opens, spare

\* Every step keeps it.
LEMMA StepKeepsLatch ==
  ASSUME SInv, Capacity >= 5, AvailabilityIsApart, PowerInv, LatchInv,
         [StationNext]_allVars
  PROVE  LatchInv'
<1>0. /\ {"driver", "executor", "holds", "expiry", "csms"} \subseteq Tasks
      /\ spent.failures \in Nat
  <2>1. spent \in [failures : 0 .. MaxFailures, calls : 0 .. MaxCalls,
                   moves : 0 .. MaxMoves]
    BY DEF SInv, TasksOK
  <2> QED BY <2>1, StationBounds DEF Tasks
<1>1. ASSUME UNCHANGED <<vars, commands, phys>>, mail' = mail,
             spent'.failures = spent.failures
      PROVE  LatchInv'
  <2>1. MailGrows(Bare("None")) /\ \A c : ~Sees(Bare("None"), c)
    BY <1>1 DEF MailGrows, Bare, Sees
  <2>2. /\ cp' = cp /\ commands' = commands
        /\ \A c \in Connectors : /\ phys'[c].closed = phys[c].closed
                                 /\ phys'[c].locked = phys[c].locked
    BY <1>1 DEF vars
  <2> QED BY <1>0, <1>1, <2>1, <2>2, GrowingKeepsLatch
<1>2. ASSUME UNCHANGED <<vars, commands, phys>>,
             NEW task \in {"holds", "expiry", "csms"}, NEW e,
             [from |-> task, event |-> e] \in Mails, Idle(task), Send(task, e),
             spent'.failures = spent.failures
      PROVE  LatchInv'
  <2> DEFINE m == [from |-> task, event |-> e]
  <2>1. m \in Mails /\ m.event = e /\ m.from \notin {"executor", "driver"}
    BY <1>2
  <2>2. \A c : Sees(e, c) => SeenOf(e).type \notin ExecutorNews \cup FaultTypes
    BY <2>1, NewsAreTheExecutors, FaultsAreTheHardwares
  <2>3. MailGrows(e)
    BY <1>0, <1>2, SendMakesMailGrow
  <2>4. /\ cp' = cp /\ commands' = commands
        /\ \A c \in Connectors : /\ phys'[c].closed = phys[c].closed
                                 /\ phys'[c].locked = phys[c].locked
    BY <1>2 DEF vars
  <2> QED BY <1>0, <1>2, <2>2, <2>3, <2>4, GrowingKeepsLatch
<1>3. CASE UNCHANGED allVars \/ Answer
  <2>1. UNCHANGED <<vars, commands, phys>> /\ mail' = mail /\ spent' = spent
    BY <1>3 DEF allVars, vars, stationVars, Answer
  <2> QED BY <1>1, <2>1
<1>4. CASE Turn
  BY <1>4, TurnKeepsLatch
<1>5. CASE Execute
  BY <1>5, ExecuteKeepsLatch
<1>6. CASE Driver
  <2>1. PICK d \in Driven, e \in DriverReports :
            /\ Send("driver", OnC(d, e)) /\ Idle("driver")
            /\ UNCHANGED <<vars, commands>>
            /\ \A c \in Connectors : /\ phys'[c].closed = phys[c].closed
                                    /\ phys'[c].locked = phys[c].locked
            /\ \/ spent'.failures = spent.failures /\ e.type # "FaultDetected"
               \/ spent'.failures = spent.failures + 1
    BY <1>6, DriverSendsOne
  <2>2. [from |-> "driver", event |-> OnC(d, e)] \in Mails
    BY DEF Mails, ToConnector, OnC
  <2>3. SeenOf(OnC(d, e)) = e /\ e.type \notin ExecutorNews \cup {"LockFailed"}
    BY DEF OnC, SeenOf, DriverReports, ExecutorNews
  <2>4. MailGrows(OnC(d, e))
    BY <1>0, <2>1, <2>2, SendMakesMailGrow
  <2>5. cp' = cp /\ commands' = commands
    BY <2>1 DEF vars
  <2>6. \/ spent'.failures = spent.failures /\ e.type \notin FaultTypes
        \/ spent'.failures = spent.failures + 1
    BY <2>1, <2>3 DEF FaultTypes
  <2> QED BY <1>0, <2>1, <2>3, <2>4, <2>5, <2>6, GrowingKeepsLatch
<1>7. CASE SweepHolds \/ SweepNextHold
  <2> DEFINE e(c) == OnC(c, Bare("RemoteStartPendingCleared"))
  <2>1. /\ UNCHANGED <<vars, commands, phys>> /\ spent' = spent
        /\ \/ mail' = mail
           \/ \E c \in Connectors : Idle("holds") /\ Send("holds", e(c))
    BY <1>7, HoldsKeepS
  <2>2. \A c \in Connectors : [from |-> "holds", event |-> e(c)] \in Mails
    BY DEF Mails, ToConnector, OnC, Bare
  <2> HIDE DEF e
  <2>3. CASE mail' = mail
    BY <1>1, <2>1, <2>3
  <2>4. CASE mail' # mail
    <3>1. PICK c \in Connectors : Idle("holds") /\ Send("holds", e(c))
      BY <2>1, <2>4
    <3> QED BY <1>2, <2>1, <2>2, <3>1
  <2> QED BY <2>3, <2>4
<1>8. CASE SweepReservations \/ SweepNextReservation
  <2> DEFINE e(c) == OnC(c, Bare("ReservationExpired"))
  <2>1. /\ UNCHANGED <<vars, commands, phys>> /\ spent' = spent
        /\ \E c \in Connectors : Idle("expiry") /\ Send("expiry", e(c))
    BY <1>8, ExpiryKeepsS
  <2>2. \A c \in Connectors : [from |-> "expiry", event |-> e(c)] \in Mails
    BY DEF Mails, ToConnector, OnC, Bare
  <2> HIDE DEF e
  <2>3. PICK c \in Connectors : Idle("expiry") /\ Send("expiry", e(c))
    BY <2>1
  <2> QED BY <1>2, <2>1, <2>2, <2>3
<1>9. CASE Request
  <2>1. PICK q \in Requests : Handle(q)
    BY <1>9 DEF Request
  <2>2. UNCHANGED <<vars, commands, phys>> /\ Idle("csms")
    BY <2>1, HandleSends
  <2>3. spent'.failures = spent.failures
    <3>1. spent' = [spent EXCEPT !.calls = @ + 1]
      BY <2>1 DEF Handle
    <3> QED BY <3>1 DEF SInv, TasksOK
  <2>4. CASE q.op = "Reset"
    <3>1. mail' = mail
      BY <2>1, <2>4 DEF Handle, HandleReset
    <3> QED BY <1>1, <2>2, <2>3, <3>1
  <2>5. CASE q.op # "Reset"
    <3>1. PICK c, e : Forward(q, c, e) /\ Decided(q, c, e)
      BY <2>1, <2>5, HandleForwards
    <3>2. Send("csms", e) /\ [from |-> "csms", event |-> e] \in Mails
      BY <3>1 DEF Forward, Decided
    <3> QED BY <1>2, <2>2, <2>3, <3>2
  <2> QED BY <2>4, <2>5
<1>10. CASE RequestReset
  <2>1. UNCHANGED <<vars, commands, phys>> /\ Idle("csms") /\ spent' = spent
    BY <1>10, RequestResetKeepsS DEF RequestReset
  <2>2. PICK e \in StationOrders : Send("csms", e)
    BY <1>10, RequestResetKeepsS
  <2>3. [from |-> "csms", event |-> e] \in Mails
    BY DEF StationOrders, Settings, Mails
  <2> QED BY <1>2, <2>1, <2>2, <2>3
<1> QED BY <1>3, <1>4, <1>5, <1>6, <1>7, <1>8, <1>9, <1>10 DEF StationNext

\* While the hardware has failed at most once, a contactor is closed only on a
\* locked socket: a confirmation is acted on once, a lock is released once and
\* only after the contactor is open, and the one fault the connector may meet
\* finds nothing queued that the faulted state would misread (connector.rs,
\* command_executor.rs, connector_state.rs).
THEOREM OneFaultIsSafe ==
  ASSUME Capacity >= 5, AvailabilityIsApart
  PROVE  StationSpec => []SingleFaultIsSafe
<1>1. StationInit => SInv /\ PowerInv /\ LatchInv
  BY InitSInv, InitPower, InitLatch
<1>2. SInv /\ PowerInv /\ LatchInv /\ [StationNext]_allVars =>
         (SInv /\ PowerInv /\ LatchInv)'
  BY StepKeepsS, StepKeepsPower, StepKeepsLatch
<1>3. SInv /\ PowerInv /\ LatchInv => SingleFaultIsSafe
  <2> SUFFICES ASSUME PowerInv, LatchInv, spent.failures <= 1,
                      NEW c \in Connectors, phys[c].closed
               PROVE  phys[c].locked
    BY DEF SingleFaultIsSafe, EnergisedIsLocked
  <2>1. c \in Driven
    BY DEF PowerInv, PowerOf, Calm
  <2> QED BY <2>1 DEF LatchInv, Latch, LatchOf
<1> QED BY <1>1, <1>2, <1>3, PTL DEF StationSpec

==============================================================================
