--------------------------- MODULE NounsTokenProofs ---------------------------
(***************************************************************************)
(* Proofs about NounsToken for every set of accounts, every number of      *)
(* nouns and every number of blocks.                                       *)
(***************************************************************************)
EXTENDS NounsToken, NaturalOrder, FiniteSetTheorems, SequenceTheorems, TLAPS

CheckpointMap == [Accounts -> Seq(Checkpoint)]

\* What _writeCheckpoint does: it sets the votes of one account and leaves
\* the checkpoints of the others alone.
LEMMA WriteCheckpointEffect ==
    ASSUME blockNumber \in Nat, NEW cps \in CheckpointMap, NEW rep \in Accounts,
           NEW v \in Nat
    PROVE  LET new == writeCheckpoint(cps, rep, v)
           IN  /\ new \in CheckpointMap
               /\ VotesIn(new, rep) = v
               /\ \A a \in Accounts \ {rep} : new[a] = cps[a]
<1> DEFINE s == cps[rep]
           n == Len(s)
           cp == [fromBlock |-> blockNumber, votes |-> v]
           new == writeCheckpoint(cps, rep, v)
<1>1. s \in Seq(Checkpoint) /\ cp \in Checkpoint /\ n \in Nat
  BY DEF CheckpointMap, Checkpoint
<1>2. CASE s # <<>> /\ s[n].fromBlock = blockNumber
  <2>1. new = [cps EXCEPT ![rep] = [s EXCEPT ![n] = cp]]
    BY <1>2 DEF writeCheckpoint
  <2>2. n \in 1 .. Len(s)
    BY SMTT(60), <1>1, <1>2, EmptySeq
  <2>3. /\ [s EXCEPT ![n] = cp] \in Seq(Checkpoint)
        /\ Len([s EXCEPT ![n] = cp]) = n
        /\ [s EXCEPT ![n] = cp][n] = cp
    BY SMTT(60), <1>1, <2>2, ExceptSeq
  <2>4. [s EXCEPT ![n] = cp] # <<>>
    BY SMTT(60), <2>2, <2>3, <1>1
  <2>5. QED
    BY SMTT(60), <1>1, <2>1, <2>3, <2>4 DEF CheckpointMap, VotesIn
<1>3. CASE ~(s # <<>> /\ s[n].fromBlock = blockNumber)
  <2>1. new = [cps EXCEPT ![rep] = Append(s, cp)]
    BY ZenonT(60), <1>3 DEF writeCheckpoint
  <2>2. /\ Append(s, cp) \in Seq(Checkpoint)
        /\ Append(s, cp) # <<>>
        /\ Append(s, cp)[Len(Append(s, cp))] = cp
    BY <1>1, AppendProperties
  <2>3. QED
    BY SMTT(60), <1>1, <2>1, <2>2 DEF CheckpointMap, VotesIn
<1>4. QED
  BY <1>2, <1>3

LEMMA VotesType ==
    ASSUME NEW cps \in CheckpointMap, NEW a \in Accounts
    PROVE  VotesIn(cps, a) \in Nat
<1>1. CASE cps[a] = <<>>
  BY <1>1 DEF VotesIn
<1>2. CASE cps[a] # <<>>
  <2>1. cps[a] \in Seq(Checkpoint)
    BY DEF CheckpointMap
  <2>2. Len(cps[a]) \in 1 .. Len(cps[a])
    BY <1>2, <2>1, EmptySeq
  <2>3. cps[a][Len(cps[a])] \in Checkpoint
    BY <2>1, <2>2, ElementOfSeq
  <2>4. QED
    BY <1>2, <2>3 DEF VotesIn, Checkpoint
<1>3. QED
  BY <1>1, <1>2

LEMMA SameCheckpointsSameVotes ==
    ASSUME NEW c, NEW d, NEW a, c[a] = d[a]
    PROVE  VotesIn(c, a) = VotesIn(d, a)
BY DEF VotesIn

\* What _moveDelegates does: amount votes leave the source and reach the
\* destination, address(0) standing for nobody.
Moved(old, new, src, dst, amount) ==
    \A a \in Accounts :
        VotesIn(new, a) = IF src = dst THEN VotesIn(old, a)
                          ELSE IF a = src THEN VotesIn(old, a) - amount
                          ELSE IF a = dst THEN VotesIn(old, a) + amount
                          ELSE VotesIn(old, a)

LEMMA MoveDelegatesEffect ==
    ASSUME blockNumber \in Nat, NEW cps \in CheckpointMap, NEW src \in Address,
           NEW dst \in Address, NEW amount \in Nat, CanMove(cps, src, dst, amount)
    PROVE  LET new == moveDelegates(cps, src, dst, amount)
           IN  new \in CheckpointMap /\ Moved(cps, new, src, dst, amount)
<1> DEFINE new == moveDelegates(cps, src, dst, amount)
<1>1. CASE src = dst \/ amount = 0
  <2>1. new = cps
    BY <1>1 DEF moveDelegates
  <2>2. \A a \in Accounts : VotesIn(cps, a) \in Nat
    BY VotesType
  <2>3. QED
    BY SMTT(60), <1>1, <2>1, <2>2 DEF Moved
<1>2. CASE src # dst /\ amount # 0
  <2> DEFINE taken == IF src = ZERO THEN cps
                      ELSE writeCheckpoint(cps, src, VotesIn(cps, src) - amount)
  <2>1. new = IF dst = ZERO THEN taken
              ELSE writeCheckpoint(taken, dst, VotesIn(taken, dst) + amount)
    BY <1>2 DEF moveDelegates
  <2>2. /\ taken \in CheckpointMap
        /\ \A a \in Accounts :
              VotesIn(taken, a) = IF a = src THEN VotesIn(cps, a) - amount
                                  ELSE VotesIn(cps, a)
    <3>1. CASE src = ZERO
      BY SMTT(60), <3>1, TokenConstants
    <3>2. CASE src # ZERO
      <4>1. src \in Accounts /\ VotesIn(cps, src) - amount \in Nat
        BY SMTT(60), <1>2, <3>2, VotesType DEF CanMove, Address
      <4>2. /\ taken \in CheckpointMap
            /\ VotesIn(taken, src) = VotesIn(cps, src) - amount
            /\ \A a \in Accounts \ {src} : taken[a] = cps[a]
        BY ZenonT(60), <3>2, <4>1, WriteCheckpointEffect
      <4>3. QED
        BY <4>2, SameCheckpointsSameVotes
    <3>3. QED
      BY <3>1, <3>2
  <2> HIDE DEF taken
  <2>3. CASE dst = ZERO
    BY <1>2, <2>1, <2>2, <2>3, TokenConstants DEF Moved
  <2>4. CASE dst # ZERO
    <3>1. dst \in Accounts /\ VotesIn(taken, dst) + amount \in Nat
      BY <2>2, <2>4, VotesType DEF Address
    <3> DEFINE given == writeCheckpoint(taken, dst, VotesIn(taken, dst) + amount)
    <3>a. /\ given \in CheckpointMap
          /\ VotesIn(given, dst) = VotesIn(taken, dst) + amount
          /\ \A a \in Accounts \ {dst} : given[a] = taken[a]
      BY ZenonT(60), <2>2, <3>1, WriteCheckpointEffect
    <3>2. /\ new \in CheckpointMap
          /\ VotesIn(new, dst) = VotesIn(taken, dst) + amount
          /\ \A a \in Accounts \ {dst} : new[a] = taken[a]
      BY <2>1, <2>4, <3>a
    <3>3. \A a \in Accounts \ {dst} : VotesIn(new, a) = VotesIn(taken, a)
      BY <3>2, SameCheckpointsSameVotes
    <3>4. QED
      BY <1>2, <2>2, <3>2, <3>3 DEF Moved
  <2>5. QED
    BY <2>3, <2>4
<1>3. QED
  BY <1>1, <1>2

------------------------------------------------------------------------------
(* Counting                                                                *)

Fibre(f, S, a) == {x \in S : f[x] = a}

\* g is f with the points of B moved from value c to value e.
MovesBlock(f, g, S, B, c, e) ==
    /\ \A x \in B : f[x] = c /\ g[x] = e
    /\ \A x \in S \ B : g[x] = f[x]

\* Moving k units from c to e changes the count of value a from x to y.
Shift(x, y, a, c, e, k) ==
    /\ x \in Nat /\ y \in Nat
    /\ y = IF c = e THEN x
           ELSE IF a = c THEN x - k
           ELSE IF a = e THEN x + k
           ELSE x

\* When a block B of points moves from value c to value e, the number of
\* points with each value changes by the size of B at c and at e only.
LEMMA FibreMove ==
    ASSUME NEW S, IsFiniteSet(S), NEW B \in SUBSET S, NEW f, NEW g, NEW c, NEW e,
           MovesBlock(f, g, S, B, c, e), NEW a
    PROVE  Shift(Cardinality(Fibre(f, S, a)), Cardinality(Fibre(g, S, a)), a, c, e,
                 Cardinality(B))
<1>1. /\ IsFiniteSet(Fibre(f, S, a)) /\ IsFiniteSet(Fibre(g, S, a)) /\ IsFiniteSet(B)
  BY FS_Subset DEF Fibre
<1>2. /\ Cardinality(Fibre(f, S, a)) \in Nat /\ Cardinality(Fibre(g, S, a)) \in Nat
      /\ Cardinality(B) \in Nat
  BY <1>1, FS_CardinalityType
<1>3. CASE c = e
  <2>1. Fibre(g, S, a) = Fibre(f, S, a)
    BY <1>3 DEF Fibre, MovesBlock
  <2>2. QED
    BY <1>2, <1>3, <2>1 DEF Shift
<1>4. CASE c # e /\ a = c
  <2>1. Fibre(g, S, a) = Fibre(f, S, a) \ B /\ B = Fibre(f, S, a) \cap B
    BY <1>4 DEF Fibre, MovesBlock
  <2>2. Cardinality(Fibre(f, S, a) \ B) =
            Cardinality(Fibre(f, S, a)) - Cardinality(Fibre(f, S, a) \cap B)
    BY SMTT(60), <1>1, FS_Difference
  <2>3. QED
    BY SMTT(60), <1>2, <1>4, <2>1, <2>2 DEF Shift
<1>5. CASE c # e /\ a = e
  <2>1. Fibre(g, S, a) = Fibre(f, S, a) \cup B /\ Fibre(f, S, a) \cap B = {}
    BY <1>5 DEF Fibre, MovesBlock
  <2>2. Cardinality(Fibre(f, S, a) \cup B) =
            Cardinality(Fibre(f, S, a)) + Cardinality(B)
                - Cardinality(Fibre(f, S, a) \cap B)
    BY <1>1, FS_Union
  <2>3. Cardinality(Fibre(f, S, a) \cap B) = 0
    BY SMTT(60), <2>1, FS_EmptySet
  <2>4. QED
    BY SMTT(60), <1>2, <1>5, <2>1, <2>2, <2>3 DEF Shift
<1>6. CASE c # e /\ a # c /\ a # e
  <2>1. Fibre(g, S, a) = Fibre(f, S, a)
    BY <1>6 DEF Fibre, MovesBlock
  <2>2. QED
    BY SMTT(60), <1>2, <1>6, <2>1 DEF Shift
<1>7. QED
  BY <1>3, <1>4, <1>5, <1>6

HoldersOf(o, a) == Fibre(o, NounIds, a)
VotersOf(o, d, a) == Fibre([id \in NounIds |-> DelegateOf(d, o[id])], NounIds, a)

LEMMA NounsFinite == IsFiniteSet(NounIds)
BY SMTT(60), FS_Interval, TokenConstants DEF NounIds

\* One noun changes hands: mint, burn and transfer.
LEMMA OneNounMoves ==
    ASSUME NEW o \in [NounIds -> Address], NEW d \in [Accounts -> Address],
           NEW id \in NounIds, NEW to \in Address
    PROVE  LET o2 == [o EXCEPT ![id] = to]
           IN  \A a : /\ Shift(Cardinality(HoldersOf(o, a)), Cardinality(HoldersOf(o2, a)),
                              a, o[id], to, 1)
                      /\ Shift(Cardinality(VotersOf(o, d, a)), Cardinality(VotersOf(o2, d, a)),
                              a, DelegateOf(d, o[id]), DelegateOf(d, to), 1)
<1> DEFINE o2 == [o EXCEPT ![id] = to]
           f == [i \in NounIds |-> DelegateOf(d, o[i])]
           g == [i \in NounIds |-> DelegateOf(d, o2[i])]
<1>1. {id} \in SUBSET NounIds /\ Cardinality({id}) = 1
  BY ZenonT(60), FS_Singleton
<1>2. MovesBlock(o, o2, NounIds, {id}, o[id], to)
  BY DEF MovesBlock
<1>3. MovesBlock(f, g, NounIds, {id}, DelegateOf(d, o[id]), DelegateOf(d, to))
  BY DEF MovesBlock
<1> HIDE DEF o2, f, g
<1>4. \A a : Shift(Cardinality(Fibre(o, NounIds, a)), Cardinality(Fibre(o2, NounIds, a)),
                   a, o[id], to, 1)
  BY SMTT(60), <1>1, <1>2, FibreMove, NounsFinite
<1>5. \A a : Shift(Cardinality(Fibre(f, NounIds, a)), Cardinality(Fibre(g, NounIds, a)),
                   a, DelegateOf(d, o[id]), DelegateOf(d, to), 1)
  BY SMTT(60), <1>1, <1>3, FibreMove, NounsFinite
<1>6. QED
  BY ZenonT(60), <1>4, <1>5 DEF o2, f, g, HoldersOf, VotersOf

\* An account changes its delegate: all its nouns change voter.
LEMMA DelegateMoves ==
    ASSUME NEW o \in [NounIds -> Address], NEW d \in [Accounts -> Address],
           NEW who \in Accounts, NEW to \in Address
    PROVE  LET d2 == [d EXCEPT ![who] = to]
           IN  /\ Cardinality(HoldersOf(o, who)) \in Nat
               /\ \A a : Shift(Cardinality(VotersOf(o, d, a)), Cardinality(VotersOf(o, d2, a)),
                               a, DelegateOf(d, who), DelegateOf(d2, who),
                               Cardinality(HoldersOf(o, who)))
<1> DEFINE d2 == [d EXCEPT ![who] = to]
           f == [i \in NounIds |-> DelegateOf(d, o[i])]
           g == [i \in NounIds |-> DelegateOf(d2, o[i])]
           B == Fibre(o, NounIds, who)
           src == DelegateOf(d, who)
           dst == DelegateOf(d2, who)
<1>1. B \in SUBSET NounIds /\ Cardinality(B) \in Nat
  BY NounsFinite, FS_Subset, FS_CardinalityType DEF Fibre
<1>2. MovesBlock(f, g, NounIds, B, src, dst)
  <2>1. \A x \in B : f[x] = src /\ g[x] = dst
    BY DEF Fibre
  <2>2. \A x \in NounIds \ B : g[x] = f[x]
    BY DEF Fibre, DelegateOf, Address
  <2>3. QED
    BY ZenonT(60), <2>1, <2>2 DEF MovesBlock
<1> HIDE DEF d2, f, g, B, src, dst
<1>3. \A a : Shift(Cardinality(Fibre(f, NounIds, a)), Cardinality(Fibre(g, NounIds, a)),
                   a, src, dst, Cardinality(B))
  BY <1>1, <1>2, FibreMove, NounsFinite
<1>4. QED
  BY ZenonT(60), <1>1, <1>3 DEF d2, f, g, B, src, dst, HoldersOf, VotersOf

------------------------------------------------------------------------------
(* The past and the order of the checkpoints                               *)

\* A write in block n keeps the checkpoints in order and what they say of
\* every block before n.
KeepsPast(old, new, n) ==
    /\ Ordered(old, n) => Ordered(new, n)
    /\ \A b \in Int : b < n => PriorVotes(new, b) = PriorVotes(old, b)

LEMMA KeepsPastTransitive ==
    ASSUME NEW r, NEW s, NEW t, NEW n, KeepsPast(r, s, n), KeepsPast(s, t, n)
    PROVE  KeepsPast(r, t, n)
BY DEF KeepsPast

LEMMA KeepsPastReflexive == ASSUME NEW s, NEW n PROVE KeepsPast(s, s, n)
BY DEF KeepsPast

LEMMA SamePrefixSamePast ==
    ASSUME NEW s, Len(s) \in Nat, NEW t, NEW b, UpTo(s, b) = UpTo(t, b),
           \A i \in UpTo(s, b) : t[i] = s[i]
    PROVE  PriorVotes(t, b) = PriorVotes(s, b)
<1> DEFINE U == UpTo(s, b)
<1>1. U \in SUBSET (1 .. Len(s))
  BY DEF UpTo
<1> HIDE DEF U
<1>2. U # {} => Latest(U) \in U
  BY ZenonT(60), <1>1, GreatestElement DEF Latest
<1>3. QED
  BY <1>2 DEF PriorVotes, U

LEMMA WriteCheckpointKeepsPast ==
    ASSUME blockNumber \in Nat, NEW cps \in CheckpointMap, NEW rep \in Accounts,
           NEW v \in Nat, NEW a \in Accounts
    PROVE  KeepsPast(cps[a], writeCheckpoint(cps, rep, v)[a], blockNumber)
<1> DEFINE s == cps[rep]
           n == Len(s)
           cp == [fromBlock |-> blockNumber, votes |-> v]
           new == writeCheckpoint(cps, rep, v)
<1>1. s \in Seq(Checkpoint) /\ cp \in Checkpoint /\ n \in Nat
  BY DEF CheckpointMap, Checkpoint
<1>2. CASE a # rep
  <2>1. new[a] = cps[a]
    BY <1>2 DEF writeCheckpoint, CheckpointMap
  <2>2. QED
    BY <2>1, KeepsPastReflexive
<1>3. CASE a = rep /\ s # <<>> /\ s[n].fromBlock = blockNumber
  <2> DEFINE t == [s EXCEPT ![n] = cp]
  <2>1. new[a] = t
    BY <1>3 DEF writeCheckpoint, CheckpointMap
  <2>2. n \in 1 .. Len(s)
    BY <1>1, <1>3, EmptySeq
  <2>3. Len(t) = n /\ t[n] = cp /\ \A i \in 1 .. n : i # n => t[i] = s[i]
    BY SMTT(60), <1>1, <2>2, ExceptSeq
  <2>4. \A i \in 1 .. n : t[i].fromBlock = s[i].fromBlock
    BY SMTT(60), <2>3, <1>3
  <2> HIDE DEF t
  <2>5. Ordered(s, blockNumber) => Ordered(t, blockNumber)
    BY SMTT(60), <2>3, <2>4 DEF Ordered
  <2>6. ASSUME NEW b \in Int, b < blockNumber PROVE PriorVotes(t, b) = PriorVotes(s, b)
    <3>1. UpTo(s, b) = UpTo(t, b)
      BY SMTT(60), <2>3, <2>4 DEF UpTo
    <3>2. \A i \in UpTo(s, b) : t[i] = s[i]
      BY SMTT(60), <2>3, <2>6, <1>3 DEF UpTo
    <3>3. QED
      BY SMTT(60), <3>1, <3>2, SamePrefixSamePast
  <2>7. QED
    BY <1>3, <2>1, <2>5, <2>6 DEF KeepsPast
<1>4. CASE a = rep /\ ~(s # <<>> /\ s[n].fromBlock = blockNumber)
  <2> DEFINE t == Append(s, cp)
  <2>1. new[a] = t
    BY SMTT(60), <1>4 DEF writeCheckpoint, CheckpointMap
  <2>2. Len(t) = n + 1 /\ t[n + 1] = cp /\ \A i \in 1 .. n : t[i] = s[i]
    BY SMTT(60), <1>1, AppendProperties
  <2>3. \A i \in 1 .. n : s[i].fromBlock \in Nat
    <3>1. \A i \in 1 .. n : s[i] \in Checkpoint
      BY SMTT(60), <1>1, ElementOfSeq
    <3>2. QED
      BY SMTT(60), <3>1 DEF Checkpoint
  <2> HIDE DEF t
  <2>4. ASSUME Ordered(s, blockNumber) PROVE Ordered(t, blockNumber)
    <3>1. \A i \in 1 .. n : s[i].fromBlock < blockNumber
      <4>1. SUFFICES ASSUME NEW i \in 1 .. n PROVE s[i].fromBlock < blockNumber
        OBVIOUS
      <4>2. n \in 1 .. n /\ s # <<>>
        BY SMTT(60), <1>1
      <4>3. s[n].fromBlock < blockNumber
        BY SMTT(60), <4>2, <2>3, <2>4, <1>4 DEF Ordered
      <4>4. QED
        BY SMTT(60), <4>2, <4>3, <2>3, <2>4, <1>1 DEF Ordered
    <3>2. \A i \in 1 .. Len(t) : t[i].fromBlock <= blockNumber
      BY SMTT(60), <2>2, <2>3, <3>1, <1>1
    <3>3. \A i, j \in 1 .. Len(t) : i < j => t[i].fromBlock < t[j].fromBlock
      <4>1. SUFFICES ASSUME NEW i \in 1 .. Len(t), NEW j \in 1 .. Len(t), i < j
                     PROVE  t[i].fromBlock < t[j].fromBlock
        OBVIOUS
      <4>2. i \in 1 .. n /\ t[i] = s[i]
        BY SMTT(60), <4>1, <2>2, <1>1
      <4>3. CASE j = n + 1
        BY SMTT(60), <4>2, <4>3, <2>2, <3>1
      <4>4. CASE j # n + 1
        <5>1. j \in 1 .. n /\ t[j] = s[j]
          BY SMTT(60), <4>1, <4>4, <2>2, <1>1
        <5>2. s[i].fromBlock < s[j].fromBlock
          BY SMTT(60), <4>1, <4>2, <5>1, <2>4 DEF Ordered
        <5>3. QED
          BY SMTT(60), <4>2, <5>1, <5>2
      <4>5. QED
        BY <4>3, <4>4
    <3>4. QED
      BY SMTT(60), <3>2, <3>3 DEF Ordered
  <2>5. ASSUME NEW b \in Int, b < blockNumber PROVE PriorVotes(t, b) = PriorVotes(s, b)
    <3>1. UpTo(s, b) = UpTo(t, b)
      BY SMTT(60), <2>2, <2>3, <2>5, <1>1 DEF UpTo
    <3>2. \A i \in UpTo(s, b) : t[i] = s[i]
      BY <2>2 DEF UpTo
    <3>3. QED
      BY <3>1, <3>2, SamePrefixSamePast
  <2>6. QED
    BY SMTT(60), <1>4, <2>1, <2>4, <2>5 DEF KeepsPast
<1>5. QED
  BY <1>2, <1>3, <1>4

LEMMA MoveDelegatesKeepsPast ==
    ASSUME blockNumber \in Nat, NEW cps \in CheckpointMap, NEW src \in Address,
           NEW dst \in Address, NEW amount \in Nat, CanMove(cps, src, dst, amount),
           NEW a \in Accounts
    PROVE  KeepsPast(cps[a], moveDelegates(cps, src, dst, amount)[a], blockNumber)
<1> DEFINE new == moveDelegates(cps, src, dst, amount)
<1>1. CASE src = dst \/ amount = 0
  BY SMTT(60), <1>1, KeepsPastReflexive DEF moveDelegates
<1>2. CASE src # dst /\ amount # 0
  <2> DEFINE taken == IF src = ZERO THEN cps
                      ELSE writeCheckpoint(cps, src, VotesIn(cps, src) - amount)
             given == writeCheckpoint(taken, dst, VotesIn(taken, dst) + amount)
  <2>1. new = IF dst = ZERO THEN taken ELSE given
    BY SMTT(60), <1>2 DEF moveDelegates
  <2>2. taken \in CheckpointMap /\ KeepsPast(cps[a], taken[a], blockNumber)
    <3>1. CASE src = ZERO
      BY SMTT(60), <3>1, KeepsPastReflexive
    <3>2. CASE src # ZERO
      <4>1. src \in Accounts /\ VotesIn(cps, src) - amount \in Nat
        BY <1>2, <3>2, VotesType DEF CanMove, Address
      <4>2. QED
        BY ZenonT(60), <3>2, <4>1, WriteCheckpointEffect, WriteCheckpointKeepsPast
    <3>3. QED
      BY SMTT(60), <3>1, <3>2
  <2> HIDE DEF taken
  <2>3. CASE dst = ZERO
    BY <2>1, <2>2, <2>3
  <2>4. CASE dst # ZERO
    <3>1. dst \in Accounts /\ VotesIn(taken, dst) + amount \in Nat
      BY <2>2, <2>4, VotesType DEF Address
    <3>2. KeepsPast(taken[a], given[a], blockNumber)
      BY SMTT(60), <2>2, <3>1, WriteCheckpointKeepsPast
    <3>3. QED
      BY <2>1, <2>2, <2>4, <3>2, KeepsPastTransitive
  <2>5. QED
    BY SMTT(60), <2>3, <2>4
<1>3. QED
  BY <1>1, <1>2

------------------------------------------------------------------------------
(* The inductive invariant, on given values of the variables               *)

SamePast(old, new, n) ==
    \A a \in Accounts : \A b \in Int :
        b < n => PriorVotes(new[a], b) = PriorVotes(old[a], b)

Consistent(o, bal, d, c, n) ==
    /\ o \in [NounIds -> Address]
    /\ bal \in [Accounts -> Nat]
    /\ d \in [Accounts -> Address]
    /\ c \in CheckpointMap
    /\ \A a \in Accounts : bal[a] = Cardinality(HoldersOf(o, a))
    /\ \A a \in Accounts : VotesIn(c, a) <= Cardinality(VotersOf(o, d, a))
    /\ RejectsZeroBySig =>
           \A a \in Accounts : VotesIn(c, a) = Cardinality(VotersOf(o, d, a))
    /\ \A a \in Accounts : Ordered(c[a], n)

LEMMA DelegateOfType ==
    ASSUME NEW d \in [Accounts -> Address], NEW a \in Address
    PROVE  DelegateOf(d, a) \in Address /\ (DelegateOf(d, a) = ZERO <=> a = ZERO)
BY SMTT(60), TokenConstants DEF DelegateOf, Address

LEMMA MoveKeepsOrder ==
    ASSUME blockNumber \in Nat, NEW c \in CheckpointMap, NEW src \in Address,
           NEW dst \in Address, NEW amount \in Nat, CanMove(c, src, dst, amount),
           \A a \in Accounts : Ordered(c[a], blockNumber)
    PROVE  LET new == moveDelegates(c, src, dst, amount)
           IN  /\ \A a \in Accounts : Ordered(new[a], blockNumber)
               /\ SamePast(c, new, blockNumber)
<1> DEFINE new == moveDelegates(c, src, dst, amount)
<1>1. \A a \in Accounts : KeepsPast(c[a], new[a], blockNumber)
  BY SMTT(60), MoveDelegatesKeepsPast
<1> HIDE DEF new
<1>2. QED
  BY SMTT(60), <1>1 DEF new, KeepsPast, SamePast

\* The balances after noun id went from its owner in o to the address to
BalancesMoved(o, id, to, old, new) ==
    /\ new \in [Accounts -> Int]
    /\ \A a \in Accounts :
           new[a] = IF o[id] = to THEN old[a]
                    ELSE IF a = o[id] THEN old[a] - 1
                    ELSE IF a = to THEN old[a] + 1
                    ELSE old[a]

\* A mint, a burn or a transfer of one noun keeps the invariant.
LEMMA NounMoves ==
    ASSUME blockNumber \in Nat, NEW o, NEW bal, NEW d, NEW c,
           Consistent(o, bal, d, c, blockNumber),
           NEW id \in NounIds, NEW to \in Address, NEW bal2,
           BalancesMoved(o, id, to, bal, bal2),
           CanMove(c, DelegateOf(d, o[id]), DelegateOf(d, to), 1)
    PROVE  LET c2 == moveDelegates(c, DelegateOf(d, o[id]), DelegateOf(d, to), 1)
           IN  /\ Consistent([o EXCEPT ![id] = to], bal2, d, c2, blockNumber)
               /\ SamePast(c, c2, blockNumber)
<1> DEFINE src == DelegateOf(d, o[id])
           dst == DelegateOf(d, to)
           o2 == [o EXCEPT ![id] = to]
           c2 == moveDelegates(c, src, dst, 1)
<1>1. /\ o \in [NounIds -> Address] /\ d \in [Accounts -> Address]
      /\ c \in CheckpointMap /\ bal \in [Accounts -> Nat]
  BY DEF Consistent
<1>2. src \in Address /\ dst \in Address
  BY SMTT(60), <1>1, DelegateOfType
<1>3. CanMove(c, src, dst, 1)
  OBVIOUS
<1> HIDE DEF src, dst
<1>4. c2 \in CheckpointMap /\ Moved(c, c2, src, dst, 1)
  BY SMTT(60), <1>1, <1>2, <1>3, MoveDelegatesEffect
<1>5. SamePast(c, c2, blockNumber) /\ \A a \in Accounts : Ordered(c2[a], blockNumber)
  BY SMTT(60), <1>1, <1>2, <1>3, MoveKeepsOrder DEF Consistent
<1> HIDE DEF c2
<1>6. \A a \in Accounts : VotesIn(c, a) \in Nat /\ VotesIn(c2, a) \in Nat
  BY SMTT(60), <1>1, <1>4, VotesType
<1>7. \A a : /\ Shift(Cardinality(HoldersOf(o, a)), Cardinality(HoldersOf(o2, a)),
                      a, o[id], to, 1)
             /\ Shift(Cardinality(VotersOf(o, d, a)), Cardinality(VotersOf(o2, d, a)),
                      a, src, dst, 1)
  BY ZenonT(60), <1>1, OneNounMoves DEF src, dst
<1>8. o2 \in [NounIds -> Address]
  BY <1>1
<1> HIDE DEF o2
<1>9. bal2 \in [Accounts -> Nat] /\ \A a \in Accounts : bal2[a] = Cardinality(HoldersOf(o2, a))
  <2>1. \A a \in Accounts : bal2[a] = Cardinality(HoldersOf(o2, a))
    BY <1>7 DEF Consistent, BalancesMoved, Shift
  <2>2. \A a \in Accounts : bal2[a] \in Nat
    BY <2>1, <1>7 DEF Shift
  <2>3. QED
    BY <2>1, <2>2 DEF BalancesMoved
<1>10. \A a \in Accounts : VotesIn(c2, a) <= Cardinality(VotersOf(o2, d, a))
  BY SMTT(60), <1>4, <1>6, <1>7 DEF Consistent, Moved, Shift
<1>11. RejectsZeroBySig =>
          \A a \in Accounts : VotesIn(c2, a) = Cardinality(VotersOf(o2, d, a))
  BY SMTT(60), <1>4, <1>6, <1>7 DEF Consistent, Moved, Shift
<1>12. Consistent(o2, bal2, d, c2, blockNumber)
  BY SMTT(60), <1>1, <1>4, <1>5, <1>8, <1>9, <1>10, <1>11 DEF Consistent
<1>13. QED
  BY SMTT(60), <1>5, <1>12 DEF c2, o2, src, dst

\* A new delegate for one account keeps the invariant; only where a signed
\* delegation may name address(0) do votes get lost.
LEMMA DelegationMoves ==
    ASSUME blockNumber \in Nat, NEW o, NEW bal, NEW d, NEW c,
           Consistent(o, bal, d, c, blockNumber),
           NEW who \in Accounts, NEW to \in Address, RejectsZeroBySig => to # ZERO,
           CanMove(c, DelegateOf(d, who), to, bal[who])
    PROVE  LET c2 == moveDelegates(c, DelegateOf(d, who), to, bal[who])
           IN  /\ Consistent(o, bal, [d EXCEPT ![who] = to], c2, blockNumber)
               /\ SamePast(c, c2, blockNumber)
<1> DEFINE src == DelegateOf(d, who)
           d2 == [d EXCEPT ![who] = to]
           dst == DelegateOf(d2, who)
           c2 == moveDelegates(c, src, to, bal[who])
           n == Cardinality(HoldersOf(o, who))
<1>1. /\ o \in [NounIds -> Address] /\ d \in [Accounts -> Address]
      /\ c \in CheckpointMap /\ bal \in [Accounts -> Nat]
      /\ bal[who] = n
  BY SMTT(60) DEF Consistent
<1>2. src \in Address /\ src # ZERO /\ d2 \in [Accounts -> Address]
  BY SMTT(60), <1>1, DelegateOfType, TokenConstants DEF Address
<1>3. dst = IF to = ZERO THEN who ELSE to
  BY SMTT(60), <1>1, TokenConstants DEF DelegateOf
<1>4. CanMove(c, src, to, bal[who])
  BY SMTT(60)
<1> HIDE DEF src
<1>5. c2 \in CheckpointMap /\ Moved(c, c2, src, to, bal[who])
  BY SMTT(60), <1>1, <1>2, <1>4, MoveDelegatesEffect
<1>6. SamePast(c, c2, blockNumber) /\ \A a \in Accounts : Ordered(c2[a], blockNumber)
  BY SMTT(60), <1>1, <1>2, <1>4, MoveKeepsOrder DEF Consistent
<1> HIDE DEF c2
<1>7. \A a \in Accounts : VotesIn(c, a) \in Nat /\ VotesIn(c2, a) \in Nat
  BY SMTT(60), <1>1, <1>5, VotesType
<1>8. n \in Nat /\ \A a : Shift(Cardinality(VotersOf(o, d, a)),
                                  Cardinality(VotersOf(o, d2, a)), a, src, dst, n)
  BY ZenonT(60), <1>1, DelegateMoves DEF src
<1> HIDE DEF d2, dst, n
<1> DEFINE before(a) == Cardinality(VotersOf(o, d, a))
           after(a) == Cardinality(VotersOf(o, d2, a))
<1>a. \A a \in Accounts : /\ VotesIn(c, a) <= before(a)
                          /\ RejectsZeroBySig => VotesIn(c, a) = before(a)
  BY DEF Consistent
<1>b. \A a \in Accounts : Shift(VotesIn(c, a), VotesIn(c2, a), a, src, to, n)
  BY <1>1, <1>5, <1>7 DEF Moved, Shift
<1>c. \A a \in Accounts : Shift(before(a), after(a), a, src, dst, n)
  BY <1>8
<1> HIDE DEF before, after
<1>9. \A a \in Accounts : VotesIn(c2, a) <= after(a)
  <2> SUFFICES ASSUME NEW a \in Accounts PROVE VotesIn(c2, a) <= after(a)
    OBVIOUS
  <2>1. CASE to # ZERO
    BY SMTT(60), <2>1, <1>3, <1>7, <1>8, <1>a, <1>b, <1>c DEF Shift
  <2>2. CASE to = ZERO
    BY SMTT(60), <2>2, <1>2, <1>3, <1>7, <1>8, <1>a, <1>b, <1>c, TokenConstants DEF Shift
  <2>3. QED
    BY <2>1, <2>2
<1>10. RejectsZeroBySig => \A a \in Accounts : VotesIn(c2, a) = after(a)
  BY SMTT(60), <1>3, <1>7, <1>8, <1>a, <1>b, <1>c DEF Shift
<1>11. Consistent(o, bal, d2, c2, blockNumber)
  BY SMTT(60), <1>1, <1>2, <1>5, <1>6, <1>9, <1>10 DEF Consistent, after
<1>12. QED
  BY SMTT(60), <1>6, <1>11 DEF c2, d2, src

------------------------------------------------------------------------------
(* Every step keeps the invariant and the past                             *)

OtherTypes ==
    /\ tokenApprovals \in [NounIds -> Address]
    /\ operatorApprovals \in [Accounts -> [Accounts -> BOOLEAN]]
    /\ nonces \in [Accounts -> Nat]
    /\ currentNounId \in Nat
    /\ minter \in Address /\ noundersDAO \in Address
    /\ isMinterLocked \in BOOLEAN
    /\ blockNumber \in Nat

Inv == OtherTypes /\ Consistent(owners, balances, delegatee, checkpoints, blockNumber)

\* A step stays in its block and keeps the past, or ends the block.
PastFixed ==
    \/ blockNumber' = blockNumber /\ SamePast(checkpoints, checkpoints', blockNumber)
    \/ blockNumber' = blockNumber + 1 /\ checkpoints' = checkpoints

LEMMA SamePastReflexive == ASSUME NEW c, NEW n PROVE SamePast(c, c, n)
BY SMTT(60) DEF SamePast

LEMMA OrderedLater ==
    ASSUME NEW c \in CheckpointMap, NEW a \in Accounts, NEW n \in Nat, Ordered(c[a], n)
    PROVE  Ordered(c[a], n + 1)
<1>1. c[a] \in Seq(Checkpoint)
  BY DEF CheckpointMap
<1>2. \A i \in 1 .. Len(c[a]) : c[a][i] \in Checkpoint
  BY SMTT(60), <1>1, ElementOfSeq
<1>3. QED
  BY <1>2 DEF Ordered, Checkpoint

LEMMA InitInv == Init => Inv
<1> SUFFICES ASSUME Init PROVE Inv
  BY SMTT(60)
<1>1. OtherTypes
  BY ZenonT(60), TokenConstants DEF Init, OtherTypes, Address, NounIds
<1>2. \A a \in Accounts : HoldersOf(owners, a) = {} /\ VotersOf(owners, delegatee, a) = {}
  BY TokenConstants DEF Init, HoldersOf, VotersOf, Fibre, DelegateOf
<1>3. \A a \in Accounts : VotesIn(checkpoints, a) = 0
  BY DEF Init, VotesIn
<1>4. checkpoints \in CheckpointMap /\ \A a \in Accounts : Ordered(checkpoints[a], blockNumber)
  BY DEF Init, CheckpointMap, Ordered
<1>5. Cardinality({}) = 0
  BY FS_EmptySet
<1>6. Consistent(owners, balances, delegatee, checkpoints, blockNumber)
  <2>1. \A a \in Accounts : /\ Cardinality(HoldersOf(owners, a)) = 0
                            /\ Cardinality(VotersOf(owners, delegatee, a)) = 0
    BY <1>2, <1>5
  <2>2. /\ owners \in [NounIds -> Address] /\ balances \in [Accounts -> Nat]
        /\ delegatee \in [Accounts -> Address]
        /\ \A a \in Accounts : balances[a] = 0
    BY SMTT(60) DEF Init, Address
  <2>3. QED
    BY <1>3, <1>4, <2>1, <2>2 DEF Consistent
<1>7. QED
  BY SMTT(60), <1>1, <1>6 DEF Inv

LEMMA DelegateStep ==
    ASSUME Inv, NEW a \in Accounts, NEW to \in Address, SetDelegate(a, to),
           RejectsZeroBySig => to # ZERO, UNCHANGED <<owners, balances, blockNumber>>
    PROVE  Consistent(owners, balances, delegatee, checkpoints, blockNumber)' /\ PastFixed
<1> DEFINE c2 == moveDelegates(checkpoints, DelegateOf(delegatee, a), to, balances[a])
           d2 == [delegatee EXCEPT ![a] = to]
<1>1. /\ CanMove(checkpoints, DelegateOf(delegatee, a), to, balances[a])
      /\ delegatee' = d2 /\ checkpoints' = c2
  BY SMTT(60) DEF SetDelegate, delegates
<1>2. Consistent(owners, balances, d2, c2, blockNumber) /\ SamePast(checkpoints, c2, blockNumber)
  BY ZenonT(60), <1>1, DelegationMoves DEF Inv, OtherTypes
<1> HIDE DEF c2, d2
<1>3. QED
  BY SMTT(60), <1>1, <1>2 DEF PastFixed

LEMMA TransferStep ==
    ASSUME Inv, NEW a \in Accounts, NEW to \in Accounts, NEW id \in NounIds,
           TransferFrom(a, to, id)
    PROVE  Inv' /\ PastFixed
<1> DEFINE from == owners[id]
           c2 == moveDelegates(checkpoints, DelegateOf(delegatee, from),
                               DelegateOf(delegatee, to), 1)
           o2 == [owners EXCEPT ![id] = to]
           b2 == [[balances EXCEPT ![from] = @ - 1] EXCEPT ![to] = @ + 1]
<1>1. /\ CanMove(checkpoints, DelegateOf(delegatee, from), DelegateOf(delegatee, to), 1)
      /\ owners' = o2 /\ balances' = b2 /\ checkpoints' = c2
      /\ UNCHANGED <<delegatee, blockNumber>>
  BY DEF TransferFrom, delegates
<1>2. from \in Accounts /\ to \in Address
  BY DEF TransferFrom, isApprovedOrOwner, exists, Inv, Consistent, Address
<1>3. BalancesMoved(owners, id, to, balances, b2)
  BY SMTT(60), <1>2 DEF BalancesMoved, Inv, Consistent
<1> HIDE DEF b2
<1>4. Consistent(o2, b2, delegatee, c2, blockNumber) /\ SamePast(checkpoints, c2, blockNumber)
  BY ZenonT(60), <1>1, <1>2, <1>3, NounMoves DEF Inv, OtherTypes
<1> HIDE DEF c2, o2
<1>5. OtherTypes'
  BY DEF TransferFrom, Inv, OtherTypes, roles, Address
<1>6. QED
  BY <1>1, <1>4, <1>5 DEF Inv, PastFixed

LEMMA BurnStep ==
    ASSUME Inv, NEW id \in NounIds, Burn(id)
    PROVE  Inv' /\ PastFixed
<1> DEFINE from == owners[id]
           c2 == moveDelegates(checkpoints, DelegateOf(delegatee, from),
                               DelegateOf(delegatee, ZERO), 1)
           o2 == [owners EXCEPT ![id] = ZERO]
           b2 == [balances EXCEPT ![from] = @ - 1]
<1>1. /\ CanMove(checkpoints, DelegateOf(delegatee, from), DelegateOf(delegatee, ZERO), 1)
      /\ owners' = o2 /\ balances' = b2 /\ checkpoints' = c2
      /\ UNCHANGED <<delegatee, blockNumber>>
  BY ZenonT(60) DEF Burn, delegates, DelegateOf
<1>2. from \in Accounts /\ ZERO \in Address /\ ZERO \notin Accounts
  BY ZenonT(60), TokenConstants DEF Burn, exists, Inv, Consistent, Address
<1>3. BalancesMoved(owners, id, ZERO, balances, b2)
  BY SMTT(60), <1>2 DEF BalancesMoved, Inv, Consistent
<1> HIDE DEF b2
<1>4. Consistent(o2, b2, delegatee, c2, blockNumber) /\ SamePast(checkpoints, c2, blockNumber)
  BY ZenonT(60), <1>1, <1>2, <1>3, NounMoves DEF Inv, OtherTypes
<1> HIDE DEF c2, o2
<1>5. OtherTypes'
  BY <1>2 DEF Burn, Inv, OtherTypes, roles
<1>6. QED
  BY <1>1, <1>4, <1>5 DEF Inv, PastFixed

\* One mint, on given values of the variables
LEMMA OneMint ==
    ASSUME blockNumber \in Nat, NEW o, NEW bal, NEW c,
           Consistent(o, bal, delegatee, c, blockNumber),
           NEW id \in NounIds, o[id] = ZERO, NEW to \in Accounts
    PROVE  /\ Consistent([o EXCEPT ![id] = to], [bal EXCEPT ![to] = @ + 1], delegatee,
                         MintVote(c, to), blockNumber)
           /\ SamePast(c, MintVote(c, to), blockNumber)
<1> DEFINE b2 == [bal EXCEPT ![to] = @ + 1]
           c2 == moveDelegates(c, DelegateOf(delegatee, o[id]), DelegateOf(delegatee, to), 1)
<1>1. MintVote(c, to) = c2 /\ to \in Address /\ to # ZERO
  BY TokenConstants DEF MintVote, delegates, DelegateOf, Address
<1>2. BalancesMoved(o, id, to, bal, b2)
  BY SMTT(60), <1>1, TokenConstants DEF BalancesMoved, Consistent
<1>3. CanMove(c, DelegateOf(delegatee, o[id]), DelegateOf(delegatee, to), 1)
  BY SMTT(60) DEF CanMove, DelegateOf
<1> HIDE DEF b2
<1>4. Consistent([o EXCEPT ![id] = to], b2, delegatee, c2, blockNumber) /\ SamePast(c, c2, blockNumber)
  BY SMTT(60), <1>1, <1>2, <1>3, NounMoves
<1>5. QED
  BY <1>1, <1>4 DEF b2

LEMMA MintStep ==
    ASSUME Inv, MintNoun \/ MintWithReward
    PROVE  Inv' /\ PastFixed
<1>1. OtherTypes'
  <2>1. /\ currentNounId' = currentNounId + 1 \/ currentNounId' = currentNounId + 2
        /\ UNCHANGED <<tokenApprovals, operatorApprovals, nonces, minter, noundersDAO,
                       isMinterLocked, blockNumber>>
    BY ZenonT(60) DEF MintNoun, MintWithReward
  <2>2. QED
    BY SMTT(60), <2>1 DEF Inv, OtherTypes
<1>2. blockNumber \in Nat /\ Consistent(owners, balances, delegatee, checkpoints, blockNumber)
  BY DEF Inv, OtherTypes
<1>3. CASE MintNoun
  <2> DEFINE id == currentNounId
             o2 == [owners EXCEPT ![id] = minter]
             b2 == [balances EXCEPT ![minter] = @ + 1]
             c2 == MintVote(checkpoints, minter)
  <2>1. id \in NounIds /\ owners[id] = ZERO /\ minter \in Accounts
    BY <1>3 DEF MintNoun, exists, NounIds, Inv, OtherTypes, Address
  <2>2. Consistent(o2, b2, delegatee, c2, blockNumber) /\ SamePast(checkpoints, c2, blockNumber)
    BY SMTT(60), <1>2, <2>1, OneMint
  <2>3. owners' = o2 /\ balances' = b2 /\ checkpoints' = c2 /\ UNCHANGED <<delegatee, blockNumber>>
    BY SMTT(60), <1>3 DEF MintNoun
  <2> HIDE DEF o2, b2, c2
  <2>4. QED
    BY <1>1, <2>2, <2>3 DEF Inv, PastFixed
<1>4. CASE MintWithReward
  <2> DEFINE id == currentNounId
             o1 == [owners EXCEPT ![id] = noundersDAO]
             b1 == [balances EXCEPT ![noundersDAO] = @ + 1]
             c1 == MintVote(checkpoints, noundersDAO)
             o2 == [o1 EXCEPT ![id + 1] = minter]
             b2 == [b1 EXCEPT ![minter] = @ + 1]
             c2 == MintVote(c1, minter)
  <2>1. /\ id \in NounIds /\ id + 1 \in NounIds /\ owners[id] = ZERO
        /\ o1[id + 1] = ZERO /\ minter \in Accounts /\ noundersDAO \in Accounts
    BY SMTT(60), <1>4, TokenConstants
       DEF MintWithReward, exists, NounIds, Inv, OtherTypes, Consistent, Address
  <2>2. Consistent(o1, b1, delegatee, c1, blockNumber) /\ SamePast(checkpoints, c1, blockNumber)
    BY SMTT(60), <1>2, <2>1, OneMint
  <2>3. owners' = o2 /\ balances' = b2 /\ checkpoints' = c2 /\ UNCHANGED <<delegatee, blockNumber>>
    BY SMTT(60), <1>4 DEF MintWithReward
  <2> HIDE DEF o1, b1, c1, id
  <2>4. Consistent(o2, b2, delegatee, c2, blockNumber) /\ SamePast(c1, c2, blockNumber)
    BY SMTT(60), <1>2, <2>1, <2>2, OneMint
  <2> HIDE DEF o2, b2, c2
  <2>5. SamePast(checkpoints, c2, blockNumber)
    BY SMTT(60), <2>2, <2>4 DEF SamePast
  <2>6. QED
    BY SMTT(60), <1>1, <2>3, <2>4, <2>5 DEF Inv, PastFixed
<1>5. QED
  BY SMTT(60), <1>3, <1>4

LEMMA StepInv == Inv /\ [Next]_vars => Inv' /\ PastFixed
<1> SUFFICES ASSUME Inv, [Next]_vars PROVE Inv' /\ PastFixed
  BY SMTT(60)
<1> USE TokenConstants
<1>1. ASSUME UNCHANGED <<owners, balances, delegatee, checkpoints, blockNumber>>, OtherTypes'
      PROVE  Inv' /\ PastFixed
  BY SMTT(60), <1>1, SamePastReflexive DEF Inv, PastFixed
<1>2. ASSUME NEW a \in Accounts, NEW to \in Address, Delegate(a, to) PROVE Inv' /\ PastFixed
  <2> DEFINE t == IF to = ZERO THEN a ELSE to
  <2>1. t \in Address /\ t # ZERO /\ SetDelegate(a, t)
    BY SMTT(60), <1>2 DEF Delegate, Address
  <2>2. UNCHANGED <<owners, balances, blockNumber>> /\ OtherTypes'
    BY SMTT(60), <1>2 DEF Delegate, ownership, roles, Inv, OtherTypes
  <2> HIDE DEF t
  <2>3. QED
    BY SMTT(60), <2>1, <2>2, DelegateStep DEF Inv
<1>3. ASSUME NEW a \in Accounts, NEW to \in Address, DelegateBySig(a, to) PROVE Inv' /\ PastFixed
  <2>1. UNCHANGED <<owners, balances, blockNumber>> /\ OtherTypes'
    BY SMTT(60), <1>3 DEF DelegateBySig, ownership, roles, Inv, OtherTypes
  <2>2. QED
    BY SMTT(60), <1>3, <2>1, DelegateStep DEF Inv, DelegateBySig
<1>4. ASSUME NEW a \in Accounts, NEW to \in Spenders \cup {ZERO}, NEW id \in NounIds,
             Approve(a, to, id)
      PROVE  Inv' /\ PastFixed
  BY SMTT(60), <1>1, <1>4 DEF Approve, votingVars, roles, Inv, OtherTypes, Address
<1>5. ASSUME NEW a \in Accounts, NEW op \in Spenders, NEW ok \in BOOLEAN,
             SetApprovalForAll(a, op, ok)
      PROVE  Inv' /\ PastFixed
  BY SMTT(60), <1>1, <1>5 DEF SetApprovalForAll, ownership, votingVars, roles, Inv, OtherTypes
<1>6. ASSUME NEW a \in Accounts, NEW to \in Accounts, NEW id \in NounIds, TransferFrom(a, to, id)
      PROVE  Inv' /\ PastFixed
  BY SMTT(60), <1>6, TransferStep
<1>7. ASSUME MintNoun \/ MintWithReward PROVE Inv' /\ PastFixed
  BY SMTT(60), <1>7, MintStep
<1>8. ASSUME NEW id \in NounIds, Burn(id) PROVE Inv' /\ PastFixed
  BY SMTT(60), <1>8, BurnStep
<1>9. ASSUME NEW to \in NoundersChoices, SetNoundersDAO(to) PROVE Inv' /\ PastFixed
  BY SMTT(60), <1>1, <1>9 DEF SetNoundersDAO, ownership, votingVars, Inv, OtherTypes
<1>10. ASSUME NEW to \in MinterChoices, SetMinter(to) PROVE Inv' /\ PastFixed
  BY SMTT(60), <1>1, <1>10 DEF SetMinter, ownership, votingVars, Inv, OtherTypes
<1>11. CASE LockMinter
  BY SMTT(60), <1>1, <1>11 DEF LockMinter, ownership, votingVars, Inv, OtherTypes
<1>12. CASE NextBlock
  <2>1. /\ blockNumber' = blockNumber + 1 /\ OtherTypes'
        /\ UNCHANGED <<owners, balances, delegatee, checkpoints>>
    BY SMTT(60), <1>12 DEF NextBlock, ownership, votingVars, roles, Inv, OtherTypes
  <2>2. \A a \in Accounts : Ordered(checkpoints[a], blockNumber + 1)
    BY SMTT(60), OrderedLater DEF Inv, OtherTypes, Consistent
  <2>3. QED
    BY SMTT(60), <2>1, <2>2 DEF Inv, PastFixed, Consistent
<1>13. CASE UNCHANGED vars
  BY SMTT(60), <1>1, <1>13 DEF vars, ownership, votingVars, roles, Inv, OtherTypes
<1>14. QED
  BY SMTT(60), <1>2, <1>3, <1>4, <1>5, <1>6, <1>7, <1>8, <1>9, <1>10, <1>11, <1>12, <1>13 DEF Next

------------------------------------------------------------------------------
(* The theorems                                                            *)

LEMMA InvAlways == Spec => []Inv
<1>1. Inv /\ [Next]_vars => Inv'
  BY SMTT(60), StepInv
<1>2. QED
  BY InitInv, <1>1, PTL DEF Spec

LEMMA InvImplies ==
    Inv => /\ TypeOK /\ BalancesCountHoldings /\ NoVoteFromNothing
           /\ VotesMatchDelegations /\ CheckpointsOrdered
<1> SUFFICES ASSUME Inv
             PROVE  /\ TypeOK /\ BalancesCountHoldings /\ NoVoteFromNothing
                    /\ VotesMatchDelegations /\ CheckpointsOrdered
  BY SMTT(60)
<1>1. TypeOK
  BY DEF Inv, OtherTypes, Consistent, TypeOK, CheckpointMap
<1>2. \A a \in Accounts : Held(a) = HoldersOf(owners, a)
  BY SMTT(60) DEF Held, HoldersOf, Fibre
<1>3. \A a \in Accounts : DelegatedTo(a) = VotersOf(owners, delegatee, a)
  <2>1. \A id \in NounIds : owners[id] = ZERO => DelegateOf(delegatee, owners[id]) = ZERO
    BY DEF DelegateOf
  <2>2. QED
    BY SMTT(60), <2>1, TokenConstants DEF DelegatedTo, VotersOf, Fibre, delegates
<1>4. QED
  BY SMTT(60), <1>1, <1>2, <1>3 DEF Inv, Consistent, BalancesCountHoldings, NoVoteFromNothing,
     VotesMatchDelegations, CheckpointsOrdered, getCurrentVotes

\* The variables of the token keep their types, whatever the calls.
THEOREM TokenTypes == Spec => []TypeOK
BY InvAlways, InvImplies, PTL

\* _balances always counts the nouns an account owns.
THEOREM BalancesAreCounts == Spec => []BalancesCountHoldings
BY InvAlways, InvImplies, PTL

\* Votes are never counted twice, even where a signed delegation may name
\* address(0).
THEOREM NoVoteIsInvented == Spec => []NoVoteFromNothing
BY InvAlways, InvImplies, PTL

\* With the fork token's require in delegateBySig, every noun gives exactly
\* one vote.
THEOREM OneNounOneVote == Spec => []VotesMatchDelegations
BY InvAlways, InvImplies, PTL

\* The checkpoints of an account are always in increasing block order.
THEOREM CheckpointsAreOrdered == Spec => []CheckpointsOrdered
BY InvAlways, InvImplies, PTL

\* When a block ends, the last checkpoint is what the search finds for it.
LEMMA PriorIsCurrent ==
    ASSUME NEW c \in CheckpointMap, NEW a \in Accounts, NEW n \in Nat, Ordered(c[a], n)
    PROVE  PriorVotes(c[a], n) = VotesIn(c, a)
<1> DEFINE s == c[a]
           U == UpTo(s, n)
<1>1. s \in Seq(Checkpoint) /\ Len(s) \in Nat
  BY SMTT(60) DEF CheckpointMap
<1>2. U = 1 .. Len(s)
  BY SMTT(60) DEF UpTo, Ordered
<1>3. CASE s = <<>>
  BY SMTT(60), <1>2, <1>3 DEF PriorVotes, VotesIn
<1>4. CASE s # <<>>
  <2>1. Len(s) \in U /\ U # {}
    BY SMTT(60), <1>1, <1>2, <1>4, EmptySeq
  <2>2. Latest(U) = Len(s)
    <3>1. \A i \in U : (\A j \in U : j <= i) <=> i = Len(s)
      BY SMTT(60), <1>1, <1>2, <2>1
    <3> HIDE DEF U
    <3>2. QED
      BY SMTT(60), <2>1, <3>1 DEF Latest
  <2>3. QED
    BY SMTT(60), <2>1, <2>2, <1>4 DEF PriorVotes, VotesIn
<1>5. QED
  BY SMTT(60), <1>3, <1>4

\* The checkpoints implement the snapshots: nothing a later call does changes
\* the votes an account had at the end of a block.
THEOREM SnapshotsAreFixed == Spec => ImplementsSnapshots
<1> DEFINE votesNow == [a \in Accounts |-> getCurrentVotes(a)]
           past == [b \in FirstBlock .. (blockNumber - 1) |->
                       [a \in Accounts |-> PriorVotes(checkpoints[a], b)]]
<1> USE TokenConstants
<1>1. Init => Snapshot!Init
  <2> SUFFICES ASSUME Init PROVE Snapshot!Init
    BY SMTT(60)
  <2>1. blockNumber = FirstBlock /\ \A a \in Accounts : getCurrentVotes(a) = 0
    BY SMTT(60) DEF Init, getCurrentVotes, VotesIn
  <2>2. FirstBlock .. (FirstBlock - 1) = {}
    BY SMTT(60)
  <2>3. QED
    BY SMTT(60), <2>1, <2>2 DEF Snapshot!Init, Snapshot!Finished
<1>2. ASSUME Inv, Inv', PastFixed PROVE [Snapshot!Next]_(Snapshot!snapshotVars)
  <2>1. CASE blockNumber' = blockNumber /\ SamePast(checkpoints, checkpoints', blockNumber)
    <3>1. votesNow' \in [Accounts -> Nat]
      BY SMTT(60), <1>2, VotesType DEF Inv, Consistent, getCurrentVotes
    <3>2. past' = past
      BY SMTT(60), <1>2, <2>1 DEF SamePast, Inv, OtherTypes
    <3>3. Snapshot!ChangeVotes
      BY SMTT(60), <2>1, <3>1, <3>2 DEF Snapshot!ChangeVotes
    <3>4. QED
      BY SMTT(60), <3>3 DEF Snapshot!Next
  <2>2. CASE blockNumber' = blockNumber + 1 /\ checkpoints' = checkpoints
    <3>1. \A a \in Accounts : PriorVotes(checkpoints[a], blockNumber) = getCurrentVotes(a)
      BY SMTT(60), <1>2, PriorIsCurrent DEF Inv, OtherTypes, Consistent, getCurrentVotes
    <3>2. votesNow' = votesNow
      BY SMTT(60), <2>2 DEF getCurrentVotes
    <3>3. past' = [b \in FirstBlock .. (blockNumber + 1 - 1) |->
                      IF b = blockNumber THEN votesNow ELSE past[b]]
      BY SMTT(60), <1>2, <2>2, <3>1 DEF Inv, OtherTypes
    <3>4. Snapshot!FinishBlock
      BY SMTT(60), <2>2, <3>2, <3>3 DEF Snapshot!FinishBlock, Snapshot!Finished
    <3>5. QED
      BY SMTT(60), <3>4 DEF Snapshot!Next
  <2>3. QED
    BY SMTT(60), <1>2, <2>1, <2>2 DEF PastFixed
<1>3. QED
  BY <1>1, <1>2, StepInv, InvAlways, PTL DEF Spec, ImplementsSnapshots, Snapshot!Spec

==============================================================================
