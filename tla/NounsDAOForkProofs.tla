-------------------------- MODULE NounsDAOForkProofs --------------------------
(***************************************************************************)
(* The fork mechanism for any number of nouns, holders and forks.          *)
(***************************************************************************)
EXTENDS NounsDAOFork, NaturalOrder, FiniteSetTheorems, TLAPS

(* The inductive invariant.                                                *)

\* The auctions count on, and hold what they have not settled.
HouseInv ==
    /\ currentNounId = auction.nounId + 1
    /\ ~auction.settled => owners[auction.nounId] = HOUSE
    /\ \A id \in NounIds : id >= currentNounId => owners[id] = ZERO

\* Only minted nouns are recorded, and none for a fork to come.
RecordsInv ==
    \A f \in 0 .. MaxForks :
        /\ f > forkId => EscrowedFor(f) = {}
        /\ \A id \in EscrowedFor(f) : id < currentNounId

\* The noun is the DAO's, or the DAO has given it out.
Gone(id) ==
    \/ owners[id] \in {TIMELOCK, ESCROW, ZERO} /\ id \notin EscrowedFor(forkId)
    \/ id \in released

\* What was escrowed for an executed fork, or has joined one, is gone,
\* whether its twin is claimed or not.
SidesInv ==
    \A f \in 1 .. Len(forks) :
        \A id \in EscrowedFor(f - 1) \cup forks[f].joined :
            id < currentNounId /\ Gone(id)

\* While holders may join a fork, the nouns escrowed for it stay in the escrow.
PeriodInv ==
    isForkPeriodActive =>
        forkId >= 1 /\ \A id \in EscrowedFor(forkId - 1) : owners[id] = ESCROW

\* The ids of a fork: those escrowed are not above the start of its auctions,
\* those auctioned not below, and no noun is both escrowed and joined.
ForkInv(k, escrowed) ==
    /\ k.claimed \subseteq escrowed
    /\ k.remainingTokensToClaim = Cardinality(escrowed \ k.claimed)
    /\ k.joined \cap escrowed = {}
    /\ k.startNounId <= k.currentNounId
    /\ \A id \in escrowed : id <= k.startNounId
    /\ \A id \in k.auctioned : k.startNounId <= id
    /\ \A id \in k.auctioned \cup k.joined : id < k.currentNounId

ForksInv == \A f \in 1 .. Len(forks) : ForkInv(forks[f], EscrowedFor(f - 1))

Inv ==
    /\ TypeOK /\ HouseInv /\ RecordsInv /\ EscrowKeepsItsRecords
    /\ SidesInv /\ PeriodInv /\ ForksInv

------------------------------------------------------------------------------
(* Counting                                                                *)

LEMMA NounsCount ==
    ASSUME NEW S \in SUBSET NounIds
    PROVE  IsFiniteSet(S) /\ Cardinality(S) \in Nat
<1>1. IsFiniteSet(NounIds)
  BY FS_Interval, ForkConstants DEF NounIds
<1>2. QED
  BY <1>1, FS_Subset, FS_CardinalityType

LEMMA DisjointCount ==
    ASSUME NEW S \in SUBSET NounIds, NEW T \in SUBSET NounIds, S \cap T = {}
    PROVE  Cardinality(S \cup T) = Cardinality(S) + Cardinality(T)
<1>1. IsFiniteSet(S) /\ IsFiniteSet(T) /\ Cardinality(S) \in Nat /\ Cardinality(T) \in Nat
  BY NounsCount
<1>2. Cardinality(S \cup T) = Cardinality(S) + Cardinality(T) - Cardinality(S \cap T)
  BY <1>1, FS_Union
<1>3. Cardinality(S \cap T) = 0
  BY FS_EmptySet
<1>4. QED
  BY <1>1, <1>2, <1>3

LEMMA DifferenceCount ==
    ASSUME NEW S \in SUBSET NounIds, NEW T \in SUBSET S
    PROVE  /\ Cardinality(S \ T) = Cardinality(S) - Cardinality(T)
           /\ Cardinality(T) <= Cardinality(S)
<1>1. Cardinality(S) \in Nat /\ Cardinality(T) \in Nat /\ Cardinality(S \ T) \in Nat
  BY NounsCount
<1>2. (S \ T) \cap T = {} /\ (S \ T) \cup T = S
  OBVIOUS
<1>3. Cardinality(S) = Cardinality(S \ T) + Cardinality(T)
  BY <1>2, DisjointCount
<1>4. QED
  BY <1>1, <1>3

LEMMA MaxIsGreatest ==
    ASSUME NEW S \in SUBSET NounIds, S # {}
    PROVE  Max(S) \in S /\ \A id \in S : id <= Max(S)
<1> DEFINE T == {u \in 1 .. MaxNounId + 1 : u - 1 \in S}
<1>1. MaxNounId \in Nat /\ \A id \in S : id \in Nat /\ id + 1 \in T
  BY ForkConstants DEF NounIds
<1>2. T # {} /\ T \in SUBSET (1 .. MaxNounId + 1) /\ MaxNounId + 1 \in Nat
  BY <1>1
<1>a. \A u \in T : u \in Nat /\ u - 1 \in S
  BY <1>1
<1> HIDE DEF T
<1>3. PICK t \in T : \A u \in T : u <= t
  BY ZenonT(60), <1>2, GreatestElement
<1>4. t - 1 \in S /\ \A id \in S : t - 1 >= id
  <2>1. \A id \in S : id \in Nat /\ id + 1 <= t
    BY <1>1, <1>3
  <2>2. t \in Nat /\ t - 1 \in S
    BY <1>3, <1>a
  <2>3. QED
    BY <2>1, <2>2
<1>5. \E x \in S : \A y \in S : x >= y
  BY <1>4
<1>6. Max(S) \in S /\ \A y \in S : Max(S) >= y
  BY <1>5 DEF Max
<1>7. QED
  BY <1>1, <1>6

\* A share is not more than the whole, nor than its exact value.
LEMMA ShareOfTreasury ==
    ASSUME NEW t \in Nat, NEW n \in Nat, NEW s \in Nat, n <= s, s # 0
    PROVE  /\ ProRata(t, n, s) \in Nat /\ ProRata(t, n, s) <= t
           /\ ProRata(t, n, s) * s <= t * n
<1> DEFINE p == t * n
           q == p \div s
<1>1. p \in Nat
  OBVIOUS
<1> HIDE DEF p
<1>2. q \in Nat /\ q * s <= p
  BY <1>1
<1> HIDE DEF q
<1>3. p <= t * s
  BY DEF p
<1>4. q <= t
  <2> SUFFICES ASSUME q >= t + 1 PROVE FALSE
    BY <1>2
  <2>1. q * s >= (t + 1) * s
    BY <1>2
  <2>2. (t + 1) * s = t * s + s
    OBVIOUS
  <2>3. t * s \in Nat /\ q * s \in Nat
    BY <1>2
  <2>4. QED
    BY <1>1, <1>2, <1>3, <2>1, <2>2, <2>3
<1>5. QED
  BY <1>2, <1>4 DEF ProRata, p, q

\* The types of a fork
LEMMA ForkTypes ==
    ASSUME TypeOK, NEW f \in 1 .. Len(forks)
    PROVE  /\ forks[f] \in ForkDAO
           /\ f - 1 \in 0 .. MaxForks /\ f - 1 < forkId /\ f \in Nat
           /\ forks[f].startNounId \in NounIds /\ forks[f].currentNounId \in Nat
           /\ forks[f].remainingTokensToClaim \in Nat
           /\ forks[f].claimed \in SUBSET NounIds /\ forks[f].joined \in SUBSET NounIds
           /\ forks[f].auctioned \in SUBSET NounIds /\ forks[f].held \in SUBSET NounIds
<1>1. forks[f] \in ForkDAO
  BY DEF TypeOK
<1>2. f - 1 \in 0 .. MaxForks /\ f - 1 < forkId /\ f \in Nat
  BY ForkConstants DEF TypeOK
<1>3. QED
  BY SMTT(60), <1>1, <1>2 DEF ForkDAO

------------------------------------------------------------------------------
(* The supply                                                              *)

Circulating == {id \in NounIds : owners[id] \in Accounts \cup {HOUSE}}

\* With the escrow's records in order, the supply is the nouns in circulation
\* and those in the open escrow, and no noun is both.
LEMMA SupplyCounts ==
    ASSUME TypeOK, EscrowKeepsItsRecords
    PROVE  /\ adjustedTotalSupply = Cardinality(Circulating) + numTokensInEscrow
           /\ SupplyIsNotTheDAOs
<1> DEFINE T == HeldBy(owners, TIMELOCK)
           E == HeldBy(owners, ESCROW)
           R == EscrowedFor(forkId)
<1>1. /\ Circulating \in SUBSET NounIds /\ T \in SUBSET NounIds /\ E \in SUBSET NounIds
      /\ R \in SUBSET NounIds
  BY DEF Circulating, HeldBy, EscrowedFor
<1>2. /\ Existing(owners) = Circulating \cup (T \cup E)
      /\ T \cap E = {} /\ Circulating \cap (T \cup E) = {} /\ Circulating \cap R = {}
  BY ForkConstants DEF Existing, Circulating, HeldBy, TypeOK, Holders, EscrowKeepsItsRecords
<1>3. T \cup E \in SUBSET NounIds
  BY <1>1
<1> HIDE DEF T, E, R
<1>4. /\ Cardinality(Circulating) \in Nat /\ Cardinality(T) \in Nat /\ Cardinality(E) \in Nat
      /\ Cardinality(R) \in Nat
  BY <1>1, NounsCount
<1>5. Cardinality(Existing(owners)) =
          Cardinality(Circulating) + (Cardinality(T) + Cardinality(E))
  <2>1. Cardinality(T \cup E) = Cardinality(T) + Cardinality(E)
    BY <1>1, <1>2, DisjointCount
  <2>2. Cardinality(Circulating \cup (T \cup E)) =
            Cardinality(Circulating) + Cardinality(T \cup E)
    BY SMTT(60), <1>1, <1>2, <1>3, DisjointCount
  <2>3. QED
    BY <1>2, <2>1, <2>2
<1>6. Cardinality(Circulating \cup R) = Cardinality(Circulating) + Cardinality(R)
  BY <1>1, <1>2, DisjointCount
<1>7. numTokensInEscrow = Cardinality(R)
  BY DEF R, EscrowKeepsItsRecords
<1>8. adjustedTotalSupply = Cardinality(Circulating) + numTokensInEscrow
  BY <1>4, <1>5, <1>7 DEF adjustedTotalSupply, numTokensOwnedByDAO, T, E
<1>9. QED
  BY <1>6, <1>7, <1>8 DEF SupplyIsNotTheDAOs, Circulating, R

------------------------------------------------------------------------------
(* Every step keeps the invariant                                          *)

LEMMA InitInv == Init => Inv
<1> SUFFICES ASSUME Init PROVE Inv
  OBVIOUS
<1> USE ForkConstants
<1>1. \A f \in 0 .. MaxForks : EscrowedFor(f) = {}
  BY DEF Init, EscrowedFor, NounIds
<1>2. forkId = 0 /\ forkId \in 0 .. MaxForks /\ Len(forks) = 0 /\ ~isForkPeriodActive
  BY DEF Init, isForkPeriodActive
<1>3. TypeOK
  <2>1. owners \in [NounIds -> Holders \cup {ZERO}]
    BY DEF Init, Holders, NounIds
  <2>2. forks \in Seq(ForkDAO)
    BY DEF Init
  <2>3. auction \in [nounId : NounIds, settled : BOOLEAN]
    BY DEF Init, NounIds
  <2>4. escrowedTokensByForkId \in [0 .. MaxForks -> [NounIds -> Accounts \cup {ZERO}]]
    BY DEF Init
  <2>5. currentNounId \in Nat
    <3>1. Len(FirstOwners) \in Nat
      OBVIOUS
    <3>2. QED
      BY <3>1 DEF Init
  <2>6. /\ treasury \in Nat /\ numTokensInEscrow \in Nat /\ forkEndTimestamp \in Nat
        /\ released \subseteq NounIds /\ transfers \in Nat /\ now \in Nat
    BY DEF Init
  <2>7. paused \in BOOLEAN
    BY ZenonT(60) DEF Init
  <2>8. QED
    BY SMTT(60), <1>2, <2>1, <2>2, <2>3, <2>4, <2>5, <2>6, <2>7 DEF TypeOK
<1>4. HouseInv
  BY DEF Init, HouseInv, NounIds
<1>5. EscrowKeepsItsRecords
  BY SMTT(60), <1>1, <1>2, FS_EmptySet DEF Init, EscrowKeepsItsRecords
<1>6. RecordsInv /\ SidesInv /\ PeriodInv /\ ForksInv
  BY <1>1, <1>2 DEF RecordsInv, SidesInv, PeriodInv, ForksInv
<1>7. QED
  BY <1>3, <1>4, <1>5, <1>6 DEF Inv

\* Which steps of nouns, with the escrow's records and the forks unchanged,
\* keep all but the types and the house: none of a noun in the open escrow,
\* none out of the escrow during a fork period, and none by which a noun of
\* the DAO gets a holder unnoticed.
LEMMA OwnersMove ==
    ASSUME Inv, UNCHANGED <<forkId, escrowedTokensByForkId, numTokensInEscrow,
                            forkEndTimestamp, forks, now>>,
           currentNounId' \in Nat, currentNounId <= currentNounId',
           released \subseteq released',
           \A id \in NounIds : owners'[id] # owners[id] =>
               /\ id \notin EscrowedFor(forkId)
               /\ owners[id] = ESCROW => ~isForkPeriodActive
               /\ \/ owners'[id] \in {TIMELOCK, ESCROW, ZERO}
                  \/ id \in released'
                  \/ owners[id] \in Accounts \cup {HOUSE}
                  \/ id >= currentNounId
    PROVE  RecordsInv' /\ EscrowKeepsItsRecords' /\ SidesInv' /\ PeriodInv' /\ ForksInv'
<1> USE ForkConstants
<1>1. /\ \A f : EscrowedFor(f)' = EscrowedFor(f)
      /\ forkId' = forkId /\ forks' = forks
      /\ isForkPeriodActive' = isForkPeriodActive
  BY DEF EscrowedFor, isForkPeriodActive
<1>2. \A f : EscrowedFor(f) \in SUBSET NounIds
  BY DEF EscrowedFor
<1>3. \A id \in NounIds : id \in Int
  BY DEF NounIds
<1>4. currentNounId \in Int
  BY SMTT(60) DEF Inv, TypeOK
<1>5. RecordsInv'
  BY SMTT(60), <1>1, <1>2, <1>3, <1>4 DEF Inv, RecordsInv
<1>6. EscrowKeepsItsRecords'
  BY SMTT(60), <1>1, <1>2 DEF Inv, EscrowKeepsItsRecords
<1>7. PeriodInv'
  BY SMTT(60), <1>1, <1>2 DEF Inv, PeriodInv
<1>8. ForksInv'
  BY SMTT(60), <1>1 DEF Inv, ForksInv
<1>9. SidesInv'
  <2> SUFFICES ASSUME NEW f \in 1 .. Len(forks),
                      NEW id \in EscrowedFor(f - 1) \cup forks[f].joined
               PROVE  id < currentNounId' /\ Gone(id)'
    BY SMTT(60), <1>1 DEF SidesInv
  <2>1. id < currentNounId /\ Gone(id)
    BY SMTT(60) DEF Inv, SidesInv
  <2>2. id \in NounIds
    BY SMTT(60), <1>2, ForkTypes DEF Inv
  <2>3. id < currentNounId'
    BY SMTT(60), <1>3, <1>4, <2>1, <2>2
  <2>4. ASSUME owners'[id] # owners[id] PROVE Gone(id)'
    <3>1. id \notin EscrowedFor(forkId)'
      BY SMTT(60), <1>1, <2>2, <2>4
    <3>2. ~(id >= currentNounId)
      BY SMTT(60), <1>3, <1>4, <2>1, <2>2
    <3>3. owners[id] \in Accounts \cup {HOUSE} => id \in released
      BY <2>1 DEF Gone
    <3>4. owners'[id] \in {TIMELOCK, ESCROW, ZERO} \/ id \in released'
      BY SMTT(60), <2>2, <2>4, <3>2, <3>3
    <3>5. QED
      BY SMTT(60), <3>1, <3>4 DEF Gone
  <2>5. owners'[id] = owners[id] => Gone(id)'
    BY <1>1, <2>1 DEF Gone
  <2>6. QED
    BY SMTT(60), <2>3, <2>4, <2>5
<1>10. QED
  BY <1>5, <1>6, <1>7, <1>8, <1>9

LEMMA TransferStep ==
    ASSUME Inv, NEW from \in Accounts \cup {TIMELOCK},
           NEW to \in Accounts \cup {TIMELOCK, ESCROW}, NEW id \in NounIds,
           Transfer(from, to, id)
    PROVE  Inv'
<1> USE ForkConstants
<1>1. /\ owners[id] = from /\ owners' = [owners EXCEPT ![id] = to]
      /\ released' = IF from = TIMELOCK THEN released \cup {id} ELSE released
      /\ transfers' = transfers + 1
      /\ UNCHANGED <<currentNounId, auction, paused, treasury, forkId, escrowedTokensByForkId,
                     numTokensInEscrow, forkEndTimestamp, forks, now>>
  BY SMTT(60) DEF Transfer, house, escrow
<1>2. TypeOK'
  BY SMTT(60), <1>1 DEF Inv, TypeOK, Holders
<1>3. \A i \in NounIds : owners'[i] # owners[i] => i = id /\ owners[i] = from
  BY SMTT(60), <1>1 DEF Inv, TypeOK
<1>4. HouseInv'
  BY SMTT(60), <1>1, <1>3 DEF Inv, HouseInv, TypeOK
<1>5. id \notin EscrowedFor(forkId)
  BY SMTT(60), <1>1 DEF Inv, EscrowKeepsItsRecords
<1>6. currentNounId' \in Nat /\ currentNounId <= currentNounId'
  BY SMTT(60), <1>1 DEF Inv, TypeOK
<1>7. RecordsInv' /\ EscrowKeepsItsRecords' /\ SidesInv' /\ PeriodInv' /\ ForksInv'
  BY SMTT(60), <1>1, <1>3, <1>5, <1>6, OwnersMove
<1>8. QED
  BY SMTT(60), <1>2, <1>4, <1>7 DEF Inv

\* The next auction, after a settlement that gave the noun of the last one
\* to w, or after none
LEMMA CreateStep ==
    ASSUME Inv, NEW o \in [NounIds -> Holders \cup {ZERO}], CreateAuction(o),
           paused' \in BOOLEAN,
           \A id \in NounIds : o[id] # owners[id] => owners[id] = HOUSE /\ id < currentNounId
    PROVE  Inv'
<1> USE ForkConstants
<1>1. /\ currentNounId \in NounIds
      /\ owners' = [o EXCEPT ![currentNounId] = HOUSE]
      /\ auction' = [nounId |-> currentNounId, settled |-> FALSE]
      /\ currentNounId' = currentNounId + 1
      /\ UNCHANGED <<treasury, forkId, escrowedTokensByForkId, numTokensInEscrow,
                     forkEndTimestamp, forks, released, transfers, now>>
  BY SMTT(60) DEF CreateAuction, escrow, Inv, TypeOK, NounIds
<1>2. TypeOK'
  BY SMTT(60), <1>1 DEF Inv, TypeOK, Holders
<1>3. \A id \in NounIds : owners'[id] # owners[id] =>
          id = currentNounId \/ (owners[id] = HOUSE /\ id < currentNounId)
  BY SMTT(60), <1>1
<1>4. currentNounId' \in Nat /\ currentNounId <= currentNounId'
  BY SMTT(60), <1>1 DEF Inv, TypeOK
<1>5. HouseInv'
  <2>1. auction'.nounId = currentNounId /\ owners'[auction'.nounId] = HOUSE
    BY SMTT(60), <1>1
  <2>2. ASSUME NEW id \in NounIds, id >= currentNounId + 1 PROVE owners'[id] = ZERO
    <3>1. owners[id] = ZERO /\ id # currentNounId /\ ~(id < currentNounId)
      BY SMTT(60), <2>2 DEF Inv, HouseInv, TypeOK, NounIds
    <3>2. QED
      BY SMTT(60), <1>3, <3>1
  <2>3. QED
    BY SMTT(60), <1>1, <2>1, <2>2 DEF HouseInv
<1>6. \A id \in EscrowedFor(forkId) :
          id \in NounIds /\ owners[id] = ESCROW /\ id < currentNounId
  BY SMTT(60) DEF Inv, EscrowKeepsItsRecords, RecordsInv, EscrowedFor, TypeOK
<1>7. owners[currentNounId] = ZERO
  BY SMTT(60), <1>1 DEF Inv, HouseInv, NounIds
<1>8. \A id \in NounIds : owners'[id] # owners[id] =>
          /\ id \notin EscrowedFor(forkId) /\ owners[id] # ESCROW
          /\ owners[id] \in Accounts \cup {HOUSE} \/ id >= currentNounId
  BY SMTT(60), <1>1, <1>3, <1>6, <1>7 DEF NounIds
<1>9. RecordsInv' /\ EscrowKeepsItsRecords' /\ SidesInv' /\ PeriodInv' /\ ForksInv'
  BY SMTT(60), <1>1, <1>4, <1>8, OwnersMove
<1>10. QED
  BY SMTT(60), <1>2, <1>5, <1>9 DEF Inv

\* What a settlement does to the owners
LEMMA SoldEffect ==
    ASSUME Inv, NEW w \in Accounts \cup {ZERO}, ~auction.settled
    PROVE  /\ Sold(w) \in [NounIds -> Holders \cup {ZERO}]
           /\ \A id \in NounIds : Sold(w)[id] # owners[id] =>
                  owners[id] = HOUSE /\ id = auction.nounId /\ id < currentNounId
<1>1. /\ auction.nounId \in NounIds /\ owners[auction.nounId] = HOUSE
      /\ auction.nounId < currentNounId /\ owners \in [NounIds -> Holders \cup {ZERO}]
  BY DEF Inv, TypeOK, HouseInv, NounIds
<1>2. QED
  BY SMTT(60), <1>1 DEF Sold, Holders

LEMMA SettleStep ==
    ASSUME Inv, NEW w \in Accounts \cup {ZERO}, SettleAuction(w)
    PROVE  Inv'
<1> USE ForkConstants
<1>1. /\ owners' = Sold(w) /\ auction' = [auction EXCEPT !.settled = TRUE] /\ ~auction.settled
      /\ UNCHANGED <<currentNounId, paused, treasury, forkId, escrowedTokensByForkId,
                     numTokensInEscrow, forkEndTimestamp, forks, released, transfers, now>>
  BY DEF SettleAuction, escrow
<1>2. auction'.settled /\ auction'.nounId = auction.nounId
      /\ auction' \in [nounId : NounIds, settled : BOOLEAN]
  BY ZenonT(60), <1>1 DEF Inv, TypeOK
<1>3. TypeOK'
  BY SMTT(60), <1>1, <1>2, SoldEffect DEF Inv, TypeOK
<1>4. \A id \in NounIds : owners'[id] # owners[id] =>
          owners[id] = HOUSE /\ id < currentNounId
  BY SMTT(60), <1>1, SoldEffect
<1>5. HouseInv'
  BY ZenonT(60), <1>1, <1>2, <1>4 DEF Inv, HouseInv, TypeOK, NounIds
<1>6. \A id \in EscrowedFor(forkId) : owners[id] = ESCROW
  BY DEF Inv, EscrowKeepsItsRecords
<1>7. currentNounId' \in Nat /\ currentNounId <= currentNounId'
  BY SMTT(60), <1>1 DEF Inv, TypeOK
<1>8. RecordsInv' /\ EscrowKeepsItsRecords' /\ SidesInv' /\ PeriodInv' /\ ForksInv'
  BY SMTT(60), <1>1, <1>4, <1>6, <1>7, OwnersMove
<1>9. QED
  BY SMTT(60), <1>3, <1>5, <1>8 DEF Inv

LEMMA SettleAndCreateStep ==
    ASSUME Inv, NEW w \in Accounts \cup {ZERO}, SettleCurrentAndCreateNewAuction(w)
    PROVE  Inv'
<1>1. ~auction.settled /\ CreateAuction(Sold(w)) /\ paused' = paused
  BY DEF SettleCurrentAndCreateNewAuction
<1>2. paused' \in BOOLEAN
  BY <1>1 DEF Inv, TypeOK
<1>3. QED
  BY SMTT(60), <1>1, <1>2, SoldEffect, CreateStep

LEMMA PauseStep == ASSUME Inv, Pause PROVE Inv'
<1>1. /\ paused' = TRUE
      /\ UNCHANGED <<owners, currentNounId, auction, treasury, forkId, escrowedTokensByForkId,
                     numTokensInEscrow, forkEndTimestamp, forks, released, transfers, now>>
  BY SMTT(60) DEF Pause, escrow
<1>2. TypeOK' /\ HouseInv'
  BY SMTT(60), <1>1 DEF Inv, TypeOK, HouseInv
<1>3. currentNounId' \in Nat /\ currentNounId <= currentNounId'
  BY SMTT(60), <1>1 DEF Inv, TypeOK
<1>4. RecordsInv' /\ EscrowKeepsItsRecords' /\ SidesInv' /\ PeriodInv' /\ ForksInv'
  BY SMTT(60), <1>1, <1>3, OwnersMove
<1>5. QED
  BY <1>2, <1>4 DEF Inv

LEMMA UnpauseStep == ASSUME Inv, Unpause PROVE Inv'
<1>1. CASE auction.settled /\ CreateAuction(owners)
  BY ZenonT(60), <1>1, CreateStep DEF Unpause, Inv, TypeOK
<1>2. CASE UNCHANGED <<owners, currentNounId, auction, treasury, escrow, forkEndTimestamp,
                       forks, released, transfers, now>>
  <2>1. /\ paused' = FALSE
        /\ UNCHANGED <<owners, currentNounId, auction, treasury, forkId, escrowedTokensByForkId,
                       numTokensInEscrow, forkEndTimestamp, forks, released, transfers, now>>
    BY <1>2 DEF Unpause, escrow
  <2>2. TypeOK' /\ HouseInv'
    BY ZenonT(60), <2>1 DEF Inv, TypeOK, HouseInv
  <2>3. currentNounId' \in Nat /\ currentNounId <= currentNounId'
    BY <2>1 DEF Inv, TypeOK
  <2>4. RecordsInv' /\ EscrowKeepsItsRecords' /\ SidesInv' /\ PeriodInv' /\ ForksInv'
    BY <2>1, <2>3, OwnersMove
  <2>5. QED
    BY <2>2, <2>4 DEF Inv
<1>3. QED
  BY SMTT(60), <1>1, <1>2 DEF Unpause

LEMMA WithdrawDAOStep ==
    ASSUME Inv, NEW ids \in Lists, NEW to \in Accounts \cup {TIMELOCK},
           WithdrawDAONounsFromEscrow(ids, to)
    PROVE  Inv'
<1> USE ForkConstants
<1>1. /\ ~isForkPeriodActive /\ owners' = Give(owners, ids, to) /\ ids \subseteq NounIds
      /\ \A id \in ids : currentOwnerOf(id) = ZERO /\ owners[id] = ESCROW
      /\ released' = IF to = TIMELOCK THEN released ELSE released \cup ids
      /\ UNCHANGED <<currentNounId, auction, paused, treasury, forkId, escrowedTokensByForkId,
                     numTokensInEscrow, forkEndTimestamp, forks, transfers, now>>
  BY SMTT(60) DEF WithdrawDAONounsFromEscrow, house, escrow, Lists
<1>2. TypeOK'
  BY SMTT(60), <1>1 DEF Inv, TypeOK, Holders, Give
<1>3. \A id \in NounIds : owners'[id] # owners[id] =>
          id \in ids /\ owners[id] = ESCROW /\ owners'[id] = to /\ id \notin EscrowedFor(forkId)
  BY SMTT(60), <1>1 DEF Give, EscrowedFor, currentOwnerOf
<1>4. HouseInv'
  BY SMTT(60), <1>1, <1>3 DEF Inv, HouseInv, TypeOK
<1>5. currentNounId' \in Nat /\ currentNounId <= currentNounId'
  BY SMTT(60), <1>1 DEF Inv, TypeOK
<1>6. RecordsInv' /\ EscrowKeepsItsRecords' /\ SidesInv' /\ PeriodInv' /\ ForksInv'
  BY SMTT(60), <1>1, <1>3, <1>5, OwnersMove
<1>7. QED
  BY SMTT(60), <1>2, <1>4, <1>6 DEF Inv

LEMMA TickStep == ASSUME Inv, Tick PROVE Inv'
<1>1. /\ now' = now + 1
      /\ UNCHANGED <<owners, currentNounId, auction, paused, treasury, forkId,
                     escrowedTokensByForkId, numTokensInEscrow, forkEndTimestamp, forks,
                     released, transfers>>
  BY SMTT(60) DEF Tick, house, escrow
<1>2. TypeOK' /\ HouseInv'
  BY <1>1 DEF Inv, TypeOK, HouseInv
<1>3. \A f : EscrowedFor(f)' = EscrowedFor(f)
  BY SMTT(60), <1>1 DEF EscrowedFor
<1>4. RecordsInv' /\ EscrowKeepsItsRecords' /\ ForksInv'
  BY SMTT(60), <1>1, <1>3 DEF Inv, RecordsInv, EscrowKeepsItsRecords, ForksInv
<1>5. SidesInv'
  BY SMTT(60), <1>1, <1>3 DEF Inv, SidesInv, Gone
<1>6. isForkPeriodActive' => isForkPeriodActive
  BY SMTT(60), <1>1 DEF Inv, TypeOK, isForkPeriodActive
<1>7. PeriodInv'
  BY SMTT(60), <1>1, <1>3, <1>6 DEF Inv, PeriodInv
<1>8. QED
  BY SMTT(60), <1>2, <1>4, <1>5, <1>7 DEF Inv

\* A step of a fork concerns that fork only.
LEMMA InForkStep ==
    ASSUME Inv, InFork, NEW f \in 1 .. Len(forks), NEW k \in ForkDAO,
           forks' = [forks EXCEPT ![f] = k],
           k.joined = forks[f].joined, ForkInv(k, EscrowedFor(f - 1))
    PROVE  Inv'
<1>1. UNCHANGED <<owners, currentNounId, auction, paused, treasury, forkId,
                  escrowedTokensByForkId, numTokensInEscrow, forkEndTimestamp, released,
                  transfers, now>>
  BY SMTT(60) DEF InFork, house, escrow
<1>2. /\ forks' \in Seq(ForkDAO) /\ Len(forks') = Len(forks)
      /\ \A g \in 1 .. Len(forks) : forks'[g] = IF g = f THEN k ELSE forks[g]
  BY SMTT(60) DEF Inv, TypeOK
<1>3. TypeOK' /\ HouseInv'
  BY SMTT(60), <1>1, <1>2 DEF Inv, TypeOK, HouseInv
<1>4. \A g : EscrowedFor(g)' = EscrowedFor(g)
  BY SMTT(60), <1>1 DEF EscrowedFor
<1>5. RecordsInv' /\ EscrowKeepsItsRecords'
  BY SMTT(60), <1>1, <1>4 DEF Inv, RecordsInv, EscrowKeepsItsRecords
<1>6. SidesInv'
  BY SMTT(60), <1>1, <1>2, <1>4 DEF Inv, SidesInv, Gone
<1>7. PeriodInv'
  BY SMTT(60), <1>1, <1>4 DEF Inv, PeriodInv, isForkPeriodActive
<1>8. ForksInv'
  BY <1>2, <1>4 DEF Inv, ForksInv
<1>9. QED
  BY SMTT(60), <1>3, <1>5, <1>6, <1>7, <1>8 DEF Inv

\* The fields a claim and a mint change
WithClaims(old, n, S) == [old EXCEPT !.remainingTokensToClaim = n, !.claimed = S]
WithMint(old, n, S, h) == [old EXCEPT !.currentNounId = n, !.auctioned = S, !.held = h]

LEMMA ClaimedFields ==
    ASSUME NEW old \in ForkDAO, NEW n \in Nat, NEW S \in SUBSET NounIds
    PROVE  LET k == WithClaims(old, n, S)
           IN  /\ k \in ForkDAO /\ k.claimed = S /\ k.joined = old.joined
               /\ k.remainingTokensToClaim = n
               /\ k.startNounId = old.startNounId /\ k.currentNounId = old.currentNounId
               /\ k.auctioned = old.auctioned
  BY ZenonT(60) DEF ForkDAO, WithClaims

LEMMA MintedFields ==
    ASSUME NEW old \in ForkDAO, NEW n \in Nat, NEW S \in SUBSET NounIds,
           NEW h \in SUBSET NounIds
    PROVE  LET k == WithMint(old, n, S, h)
           IN  /\ k \in ForkDAO /\ k.claimed = old.claimed /\ k.joined = old.joined
               /\ k.remainingTokensToClaim = old.remainingTokensToClaim
               /\ k.startNounId = old.startNounId /\ k.currentNounId = n
               /\ k.auctioned = S
  BY ZenonT(60) DEF ForkDAO, WithMint

LEMMA ClaimStep ==
    ASSUME Inv, NEW sender \in Accounts, NEW f \in 1 .. Len(forks), NEW ids \in Lists,
           ClaimFromEscrow(sender, f, ids)
    PROVE  Inv'
<1> USE ForkConstants
<1> DEFINE old == forks[f]
           R == EscrowedFor(f - 1)
           left == old.remainingTokensToClaim - Cardinality(ids)
           claims == old.claimed \cup ids
           k == WithClaims(old, left, claims)
<1>1. /\ \A id \in ids : escrowedTokensByForkId[f - 1][id] = sender
      /\ ids \cap ForkTokens(f) = {}
      /\ Cardinality(ids) <= old.remainingTokensToClaim
      /\ forks' = [forks EXCEPT ![f] = k]
      /\ InFork
  BY ZenonT(60) DEF ClaimFromEscrow, WithClaims
<1>2. ids \subseteq R /\ ids \in SUBSET NounIds /\ R \in SUBSET NounIds
  BY <1>1 DEF EscrowedFor, Lists
<1>3. /\ old \in ForkDAO /\ old.remainingTokensToClaim \in Nat
      /\ old.claimed \in SUBSET NounIds /\ old.joined \in SUBSET NounIds
  BY SMTT(60), ForkTypes DEF Inv
<1>4. Cardinality(ids) \in Nat
  BY SMTT(60), <1>2, NounsCount
<1>5. /\ k \in ForkDAO /\ k.claimed = old.claimed \cup ids /\ k.joined = old.joined
      /\ k.remainingTokensToClaim = old.remainingTokensToClaim - Cardinality(ids)
      /\ k.startNounId = old.startNounId /\ k.currentNounId = old.currentNounId
      /\ k.auctioned = old.auctioned
  <2>1. /\ old.remainingTokensToClaim - Cardinality(ids) \in Nat
        /\ old.claimed \cup ids \in SUBSET NounIds
    BY <1>1, <1>2, <1>3, <1>4
  <2> HIDE DEF old, left, claims
  <2>2. /\ k \in ForkDAO /\ k.claimed = claims /\ k.joined = old.joined
        /\ k.remainingTokensToClaim = left
        /\ k.startNounId = old.startNounId /\ k.currentNounId = old.currentNounId
        /\ k.auctioned = old.auctioned
    BY SMTT(60), <1>3, <2>1, ClaimedFields DEF left, claims
  <2>3. QED
    BY ZenonT(60), <2>2 DEF left, claims
<1>6. ForkInv(old, R)
  BY SMTT(60) DEF Inv, ForksInv
<1>7. Cardinality(R \ k.claimed) = Cardinality(R \ old.claimed) - Cardinality(ids)
  <2>1. ids \in SUBSET (R \ old.claimed) /\ R \ old.claimed \in SUBSET NounIds
    BY <1>1, <1>2 DEF ForkTokens
  <2>2. R \ (old.claimed \cup ids) = (R \ old.claimed) \ ids
    OBVIOUS
  <2>3. QED
    BY ZenonT(60), <1>5, <2>1, <2>2, DifferenceCount
<1> HIDE DEF k, old, R
<1>8. ForkInv(k, R)
  BY <1>2, <1>5, <1>6, <1>7 DEF ForkInv
<1>9. QED
  BY ZenonT(60), <1>1, <1>5, <1>8, InForkStep DEF old, R

LEMMA ForkMintStep ==
    ASSUME Inv, NEW f \in 1 .. Len(forks), ForkMint(f)
    PROVE  Inv'
<1> DEFINE old == forks[f]
           id == old.currentNounId
           R == EscrowedFor(f - 1)
           minted == old.auctioned \cup {id}
           k == WithMint(old, id + 1, minted, {id})
<1>1. id \in NounIds /\ forks' = [forks EXCEPT ![f] = k] /\ InFork
  BY ZenonT(60) DEF ForkMint, WithMint
<1>2. /\ old \in ForkDAO /\ id \in Nat /\ old.auctioned \in SUBSET NounIds
      /\ old.joined \in SUBSET NounIds /\ old.startNounId \in NounIds
  BY ForkTypes DEF Inv
<1>3. /\ k \in ForkDAO /\ k.currentNounId = id + 1 /\ k.auctioned = minted
      /\ k.joined = old.joined /\ k.claimed = old.claimed /\ k.startNounId = old.startNounId
      /\ k.remainingTokensToClaim = old.remainingTokensToClaim
  <2>1. id + 1 \in Nat /\ minted \in SUBSET NounIds /\ {id} \in SUBSET NounIds
    BY SMTT(60), <1>1, <1>2
  <2> HIDE DEF old, id, minted
  <2>2. QED
    BY SMTT(60), <1>2, <2>1, MintedFields
<1>4. ForkInv(old, R)
  BY DEF Inv, ForksInv
<1>5. \A i \in NounIds : i \in Int
  BY SMTT(60) DEF NounIds
<1> HIDE DEF k
<1>6. ForkInv(k, R)
  BY SMTT(60), <1>1, <1>2, <1>3, <1>4, <1>5 DEF ForkInv
<1>7. QED
  BY ZenonT(60), <1>1, <1>3, <1>6, InForkStep

LEMMA ForkSellStep ==
    ASSUME Inv, NEW f \in 1 .. Len(forks), ForkSell(f) \/ ForkBurn(f)
    PROVE  Inv'
<1> DEFINE old == forks[f]
           R == EscrowedFor(f - 1)
           k1 == [old EXCEPT !.held = {}]
           k2 == [old EXCEPT !.held = {}, !.auctioned = @ \ old.held]
<1>1. InFork /\ (forks' = [forks EXCEPT ![f] = k1] \/ forks' = [forks EXCEPT ![f] = k2])
  BY SMTT(60) DEF ForkSell, ForkBurn
<1>2. old \in ForkDAO /\ old.auctioned \in SUBSET NounIds
  BY ForkTypes DEF Inv
<1>3. /\ k1 \in ForkDAO /\ k1.currentNounId = old.currentNounId /\ k1.auctioned = old.auctioned
      /\ k1.joined = old.joined /\ k1.claimed = old.claimed /\ k1.startNounId = old.startNounId
      /\ k1.remainingTokensToClaim = old.remainingTokensToClaim
  BY SMTT(60), <1>2 DEF ForkDAO
<1>4. /\ k2 \in ForkDAO /\ k2.currentNounId = old.currentNounId
      /\ k2.auctioned \subseteq old.auctioned
      /\ k2.joined = old.joined /\ k2.claimed = old.claimed /\ k2.startNounId = old.startNounId
      /\ k2.remainingTokensToClaim = old.remainingTokensToClaim
  BY ZenonT(60), <1>2 DEF ForkDAO
<1>5. ForkInv(old, R)
  BY DEF Inv, ForksInv
<1> HIDE DEF k1, k2
<1>6. ForkInv(k1, R) /\ ForkInv(k2, R)
  BY <1>3, <1>4, <1>5 DEF ForkInv
<1>7. QED
  BY SMTT(60), <1>1, <1>3, <1>4, <1>6, InForkStep

\* Writing records of the open fork leaves those of all others alone.
LEMMA RecordEffect ==
    ASSUME TypeOK, NEW ids \in SUBSET NounIds, NEW a \in Accounts \cup {ZERO},
           escrowedTokensByForkId' = Record(ids, a), forkId' = forkId
    PROVE  /\ escrowedTokensByForkId' \in [0 .. MaxForks -> [NounIds -> Accounts \cup {ZERO}]]
           /\ \A g \in 0 .. MaxForks : g # forkId => EscrowedFor(g)' = EscrowedFor(g)
           /\ EscrowedFor(forkId)' = IF a = ZERO THEN EscrowedFor(forkId) \ ids
                                     ELSE EscrowedFor(forkId) \cup ids
<1>1. forkId \in 0 .. MaxForks
  BY DEF TypeOK
<1>2. \A g \in 0 .. MaxForks : g # forkId =>
          escrowedTokensByForkId'[g] = escrowedTokensByForkId[g]
  BY DEF Record, TypeOK
<1>3. escrowedTokensByForkId'[forkId] = Give(escrowedTokensByForkId[forkId], ids, a)
  BY SMTT(60), <1>1 DEF Record, TypeOK
<1>4. EscrowedFor(forkId)' = IF a = ZERO THEN EscrowedFor(forkId) \ ids
                             ELSE EscrowedFor(forkId) \cup ids
  BY SMTT(60), <1>3 DEF EscrowedFor, Give
<1>5. \A g \in 0 .. MaxForks : g # forkId => EscrowedFor(g)' = EscrowedFor(g)
  BY SMTT(60), <1>2 DEF EscrowedFor
<1>6. escrowedTokensByForkId' \in [0 .. MaxForks -> [NounIds -> Accounts \cup {ZERO}]]
  BY SMTT(60), <1>1 DEF Record, TypeOK, Give
<1>7. QED
  BY <1>4, <1>5, <1>6

LEMMA EscrowStep ==
    ASSUME Inv, NEW sender \in Accounts, NEW ids \in Lists, EscrowToFork(sender, ids)
    PROVE  Inv'
<1> USE ForkConstants
<1> DEFINE R == EscrowedFor(forkId)
<1>1. /\ ~isForkPeriodActive /\ ids \subseteq HeldBy(owners, sender) /\ ids \in SUBSET NounIds
      /\ owners' = Give(owners, ids, ESCROW)
      /\ escrowedTokensByForkId' = Record(ids, sender)
      /\ numTokensInEscrow' = numTokensInEscrow + Cardinality(ids)
      /\ UNCHANGED <<currentNounId, auction, paused, treasury, forkId, forkEndTimestamp, forks,
                     released, transfers, now>>
  BY SMTT(60) DEF EscrowToFork, house, Lists
<1>2. /\ escrowedTokensByForkId' \in [0 .. MaxForks -> [NounIds -> Accounts \cup {ZERO}]]
      /\ \A g \in 0 .. MaxForks : g # forkId => EscrowedFor(g)' = EscrowedFor(g)
      /\ EscrowedFor(forkId)' = R \cup ids
  <2>1. sender \in Accounts \cup {ZERO} /\ sender # ZERO /\ TypeOK /\ forkId' = forkId
    BY SMTT(60), <1>1 DEF Inv
  <2> HIDE DEF R
  <2>2. /\ escrowedTokensByForkId' \in [0 .. MaxForks -> [NounIds -> Accounts \cup {ZERO}]]
        /\ \A g \in 0 .. MaxForks : g # forkId => EscrowedFor(g)' = EscrowedFor(g)
        /\ EscrowedFor(forkId)' = IF sender = ZERO THEN EscrowedFor(forkId) \ ids
                                  ELSE EscrowedFor(forkId) \cup ids
    BY ZenonT(60), <1>1, <2>1, RecordEffect
  <2>3. QED
    BY SMTT(60), <2>1, <2>2 DEF R
<1>3. \A id \in NounIds : IF id \in ids THEN owners[id] = sender /\ owners'[id] = ESCROW
                          ELSE owners'[id] = owners[id]
  BY <1>1 DEF HeldBy, Give
<1>4. R \cap ids = {} /\ R \in SUBSET NounIds
  BY <1>1, <1>3 DEF Inv, EscrowKeepsItsRecords, EscrowedFor
<1>5. numTokensInEscrow' = Cardinality(R \cup ids) /\ numTokensInEscrow' \in Nat
  BY SMTT(60), <1>1, <1>4, DisjointCount, NounsCount DEF Inv, EscrowKeepsItsRecords
<1>6. owners' \in [NounIds -> Holders \cup {ZERO}]
  BY SMTT(60), <1>1 DEF Inv, TypeOK, Give, Holders
<1>7. TypeOK'
  BY SMTT(60), <1>1, <1>2, <1>5, <1>6 DEF Inv, TypeOK
<1>8. HouseInv'
  BY SMTT(60), <1>1, <1>3 DEF Inv, HouseInv, TypeOK
<1>9. \A id \in ids : id < currentNounId
  BY SMTT(60), <1>1, <1>3 DEF Inv, HouseInv, TypeOK, NounIds
<1>10. RecordsInv'
  <2> SUFFICES ASSUME NEW f \in 0 .. MaxForks
               PROVE  /\ f > forkId => EscrowedFor(f)' = {}
                      /\ \A id \in EscrowedFor(f)' : id < currentNounId
    BY SMTT(60), <1>1 DEF RecordsInv
  <2>1. CASE f = forkId
    <3>1. EscrowedFor(f)' = EscrowedFor(forkId) \cup ids
      BY SMTT(60), <1>1, <1>2, <2>1 DEF EscrowedFor
    <3>2. \A id \in EscrowedFor(forkId) : id < currentNounId
      BY SMTT(60), <2>1 DEF Inv, RecordsInv
    <3>3. QED
      BY SMTT(60), <1>9, <2>1, <3>1, <3>2
  <2>2. CASE f # forkId
    BY SMTT(60), <1>2, <2>2 DEF Inv, RecordsInv
  <2>3. QED
    BY <2>1, <2>2
<1>11. EscrowKeepsItsRecords'
  BY SMTT(60), <1>1, <1>2, <1>3, <1>4, <1>5 DEF Inv, EscrowKeepsItsRecords
<1>12. \A f \in 1 .. Len(forks) : f - 1 \in 0 .. MaxForks /\ f - 1 # forkId
  BY SMTT(60), ForkTypes DEF Inv, TypeOK
<1>13. ForksInv'
  BY SMTT(60), <1>1, <1>2, <1>12 DEF Inv, ForksInv
<1>14. SidesInv'
  <2> SUFFICES ASSUME NEW f \in 1 .. Len(forks),
                      NEW id \in EscrowedFor(f - 1) \cup forks[f].joined
               PROVE  id < currentNounId /\ Gone(id)'
    BY ZenonT(60), <1>1, <1>2, <1>12 DEF SidesInv
  <2>1. id < currentNounId /\ Gone(id) /\ id \in NounIds
    BY SMTT(60), ForkTypes DEF Inv, SidesInv, EscrowedFor
  <2>2. id \in ids => id \in released
    BY SMTT(60), <1>3, <2>1 DEF Gone
  <2>3. Gone(id)'
    BY SMTT(60), <1>1, <1>2, <1>3, <2>1, <2>2 DEF Gone
  <2>4. QED
    BY SMTT(60), <2>1, <2>3
<1>15. PeriodInv'
  BY SMTT(60), <1>1 DEF PeriodInv, isForkPeriodActive
<1>16. QED
  BY SMTT(60), <1>7, <1>8, <1>10, <1>11, <1>13, <1>14, <1>15 DEF Inv

LEMMA WithdrawStep ==
    ASSUME Inv, NEW sender \in Accounts, NEW ids \in Lists, WithdrawFromForkEscrow(sender, ids)
    PROVE  Inv'
<1> USE ForkConstants
<1> DEFINE R == EscrowedFor(forkId)
<1>1. /\ ~isForkPeriodActive /\ ids \in SUBSET NounIds
      /\ \A id \in ids : currentOwnerOf(id) = sender /\ owners[id] = ESCROW
      /\ owners' = Give(owners, ids, sender)
      /\ escrowedTokensByForkId' = Record(ids, ZERO)
      /\ numTokensInEscrow' = numTokensInEscrow - Cardinality(ids)
      /\ UNCHANGED <<currentNounId, auction, paused, treasury, forkId, forkEndTimestamp, forks,
                     released, transfers, now>>
  BY SMTT(60) DEF WithdrawFromForkEscrow, house, Lists
<1>2. /\ escrowedTokensByForkId' \in [0 .. MaxForks -> [NounIds -> Accounts \cup {ZERO}]]
      /\ \A g \in 0 .. MaxForks : g # forkId => EscrowedFor(g)' = EscrowedFor(g)
      /\ EscrowedFor(forkId)' = R \ ids
  BY ZenonT(60), <1>1, RecordEffect DEF Inv
<1>3. \A id \in NounIds : IF id \in ids THEN owners[id] = ESCROW /\ owners'[id] = sender
                          ELSE owners'[id] = owners[id]
  BY <1>1 DEF Give
<1>4. ids \in SUBSET R /\ R \in SUBSET NounIds
  BY <1>1 DEF EscrowedFor, currentOwnerOf
<1>5. numTokensInEscrow' = Cardinality(R \ ids) /\ numTokensInEscrow' \in Nat
  <2>1. numTokensInEscrow = Cardinality(R)
    BY SMTT(60) DEF Inv, EscrowKeepsItsRecords
  <2>2. Cardinality(R \ ids) = Cardinality(R) - Cardinality(ids)
    BY SMTT(60), <1>4, DifferenceCount
  <2>3. Cardinality(R \ ids) \in Nat
    BY SMTT(60), <1>4, NounsCount
  <2>4. QED
    BY SMTT(60), <1>1, <2>1, <2>2, <2>3
<1>6. owners' \in [NounIds -> Holders \cup {ZERO}]
  BY SMTT(60), <1>1 DEF Inv, TypeOK, Give, Holders
<1>7. TypeOK'
  BY SMTT(60), <1>1, <1>2, <1>5, <1>6 DEF Inv, TypeOK
<1>8. HouseInv'
  BY SMTT(60), <1>1, <1>3 DEF Inv, HouseInv, TypeOK
<1>10. RecordsInv'
  <2> SUFFICES ASSUME NEW f \in 0 .. MaxForks
               PROVE  /\ f > forkId => EscrowedFor(f)' = {}
                      /\ \A id \in EscrowedFor(f)' : id < currentNounId
    BY SMTT(60), <1>1 DEF RecordsInv
  <2>1. CASE f = forkId
    <3>1. EscrowedFor(f)' = EscrowedFor(forkId) \ ids
      BY SMTT(60), <1>1, <1>2, <2>1 DEF EscrowedFor
    <3>2. \A id \in EscrowedFor(forkId) : id < currentNounId
      BY <2>1 DEF Inv, RecordsInv
    <3>3. QED
      BY SMTT(60), <2>1, <3>1, <3>2
  <2>2. CASE f # forkId
    BY SMTT(60), <1>2, <2>2 DEF Inv, RecordsInv
  <2>3. QED
    BY <2>1, <2>2
<1>11. EscrowKeepsItsRecords'
  BY SMTT(60), <1>1, <1>2, <1>3, <1>4, <1>5 DEF Inv, EscrowKeepsItsRecords
<1>12. \A f \in 1 .. Len(forks) : f - 1 \in 0 .. MaxForks /\ f - 1 # forkId
  BY ForkTypes DEF Inv, TypeOK
<1>13. ForksInv'
  BY SMTT(60), <1>1, <1>2, <1>12 DEF Inv, ForksInv
<1>14. SidesInv'
  <2> SUFFICES ASSUME NEW f \in 1 .. Len(forks),
                      NEW id \in EscrowedFor(f - 1) \cup forks[f].joined
               PROVE  id < currentNounId /\ Gone(id)'
    BY SMTT(60), <1>1, <1>2, <1>12 DEF SidesInv
  <2>1. id < currentNounId /\ Gone(id) /\ id \in NounIds
    BY ForkTypes DEF Inv, SidesInv, EscrowedFor
  <2>2. id \in ids => id \in released
    BY SMTT(60), <1>4, <2>1 DEF Gone
  <2>3. Gone(id)'
    BY SMTT(60), <1>1, <1>2, <1>3, <2>1, <2>2 DEF Gone
  <2>4. QED
    BY <2>1, <2>3
<1>15. PeriodInv'
  BY SMTT(60), <1>1 DEF PeriodInv, isForkPeriodActive
<1>16. QED
  BY <1>7, <1>8, <1>10, <1>11, <1>13, <1>14, <1>15 DEF Inv

\* A fork gets its share of the treasury, and not more.
LEMMA ExecuteShare ==
    ASSUME Inv, ExecuteFork
    PROVE  LET sent == ProRata(treasury, numTokensInEscrow, adjustedTotalSupply)
           IN  /\ sent \in Nat /\ sent <= treasury /\ treasury' = treasury - sent
               /\ sent * adjustedTotalSupply <= treasury * numTokensInEscrow
<1>1. /\ numTokensInEscrow > forkThreshold
      /\ treasury' = treasury - ProRata(treasury, numTokensInEscrow, adjustedTotalSupply)
  BY SMTT(60) DEF ExecuteFork
<1>2. numTokensInEscrow \in Nat /\ treasury \in Nat
  BY DEF Inv, TypeOK
<1>3. Cardinality(Circulating) \in Nat
  BY NounsCount DEF Circulating
<1>4. adjustedTotalSupply = Cardinality(Circulating) + numTokensInEscrow
  BY SupplyCounts DEF Inv
<1>5. adjustedTotalSupply \in Nat /\ numTokensInEscrow <= adjustedTotalSupply
  BY SMTT(60), <1>2, <1>3, <1>4
<1>6. adjustedTotalSupply # 0
  <2>1. adjustedTotalSupply * ThresholdBPS \in Nat
    BY SMTT(60), <1>5, ForkConstants
  <2>2. forkThreshold >= 0
    BY <2>1 DEF forkThreshold
  <2>3. forkThreshold \in Int
    BY SMTT(60), <2>1 DEF forkThreshold
  <2>4. QED
    BY SMTT(60), <1>1, <1>2, <1>5, <2>2, <2>3
<1>7. QED
  BY SMTT(60), <1>1, <1>2, <1>5, <1>6, ShareOfTreasury

LEMMA ExecuteStep ==
    ASSUME Inv, ExecuteFork
    PROVE  Inv'
<1> USE ForkConstants
<1> DEFINE R == EscrowedFor(forkId)
           k == DeployForkDAO
<1>1. /\ ~isForkPeriodActive /\ forkId < MaxForks
      /\ forks' = Append(forks, k)
      /\ numTokensInEscrow' = 0 /\ forkId' = forkId + 1
      /\ forkEndTimestamp' = now + ForkPeriod
      /\ UNCHANGED <<owners, currentNounId, auction, paused, escrowedTokensByForkId, released,
                     transfers, now>>
  BY SMTT(60) DEF ExecuteFork, house
<1>2. treasury' \in Nat
  BY SMTT(60), ExecuteShare DEF Inv, TypeOK
<1>3. /\ k \in ForkDAO /\ k.claimed = {} /\ k.joined = {} /\ k.auctioned = {}
      /\ k.remainingTokensToClaim = numTokensInEscrow
      /\ k.startNounId = auction.nounId /\ k.currentNounId = auction.nounId
  <2>1. /\ auction.nounId \in NounIds /\ auction.nounId \in Nat /\ numTokensInEscrow \in Nat
        /\ now + ForkPeriod \in Nat /\ now + GovernanceDelay \in Nat
    BY SMTT(60) DEF Inv, TypeOK, NounIds
  <2>2. QED
    BY ZenonT(60), <2>1 DEF DeployForkDAO, ForkDAO
<1> HIDE DEF k
<1>4. /\ forks' \in Seq(ForkDAO) /\ Len(forks') = Len(forks) + 1 /\ Len(forks) \in Nat
      /\ forks'[Len(forks) + 1] = k
      /\ \A f \in 1 .. Len(forks) : forks'[f] = forks[f]
  BY SMTT(60), <1>1, <1>3 DEF Inv, TypeOK
<1>5. forkId = Len(forks) /\ forkId \in Nat /\ forkId' \in 0 .. MaxForks /\ forkId' = Len(forks')
  BY SMTT(60), <1>1, <1>4 DEF Inv, TypeOK
<1>6. TypeOK'
  BY SMTT(60), <1>1, <1>2, <1>4, <1>5 DEF Inv, TypeOK
<1>7. HouseInv'
  BY SMTT(60), <1>1 DEF Inv, HouseInv
<1>8. \A f : EscrowedFor(f)' = EscrowedFor(f)
  BY SMTT(60), <1>1 DEF EscrowedFor
<1>9. EscrowedFor(forkId + 1) = {} /\ EscrowedFor(forkId)' = {}
  BY SMTT(60), <1>1, <1>5, <1>8 DEF Inv, RecordsInv, EscrowedFor
<1>10. RecordsInv'
  BY SMTT(60), <1>1, <1>5, <1>8 DEF Inv, RecordsInv
<1>11. EscrowKeepsItsRecords'
  BY ZenonT(60), <1>1, <1>9, FS_EmptySet DEF EscrowKeepsItsRecords
<1>12. \A id \in R : owners[id] = ESCROW /\ id < currentNounId
  BY <1>5 DEF Inv, EscrowKeepsItsRecords, RecordsInv, TypeOK
<1>13. ASSUME NEW f \in 1 .. Len(forks) + 1 PROVE f \in 1 .. Len(forks) \/ f = Len(forks) + 1
  BY <1>4
<1>14. SidesInv'
  <2> SUFFICES ASSUME NEW f \in 1 .. Len(forks) + 1,
                      NEW id \in EscrowedFor(f - 1) \cup forks'[f].joined
               PROVE  id < currentNounId /\ Gone(id)'
    BY SMTT(60), <1>1, <1>4, <1>8 DEF SidesInv
  <2>1. CASE f \in 1 .. Len(forks)
    <3>1. id < currentNounId /\ Gone(id)
      BY SMTT(60), <1>4, <2>1 DEF Inv, SidesInv
    <3>2. QED
      BY SMTT(60), <1>1, <1>9, <3>1 DEF Gone
  <2>2. CASE f = Len(forks) + 1
    <3>1. id \in R
      BY SMTT(60), <1>3, <1>4, <1>5, <2>2
    <3>2. QED
      BY SMTT(60), <1>1, <1>9, <1>12, <3>1 DEF Gone
  <2>3. QED
    BY <1>13, <2>1, <2>2
<1>15. PeriodInv'
  <2>1. forkId' - 1 = forkId /\ forkId' >= 1
    BY SMTT(60), <1>1, <1>5
  <2>2. EscrowedFor(forkId - 1)' = EscrowedFor(forkId)
    BY SMTT(60), <1>1, <2>1 DEF EscrowedFor
  <2>3. QED
    BY SMTT(60), <1>1, <1>12, <2>1, <2>2 DEF PeriodInv
<1>16. ForksInv'
  <2> SUFFICES ASSUME NEW f \in 1 .. Len(forks) + 1
               PROVE  ForkInv(forks'[f], EscrowedFor(f - 1))
    BY SMTT(60), <1>4, <1>8 DEF ForksInv
  <2>1. CASE f \in 1 .. Len(forks)
    BY SMTT(60), <1>4, <2>1 DEF Inv, ForksInv
  <2>2. CASE f = Len(forks) + 1
    <3>1. f - 1 = forkId /\ forks'[f] = k
      BY SMTT(60), <1>4, <1>5, <2>2
    <3>2. R \ {} = R /\ numTokensInEscrow = Cardinality(R)
      BY SMTT(60) DEF Inv, EscrowKeepsItsRecords
    <3>3. \A id \in R : id <= auction.nounId
      BY SMTT(60), <1>12 DEF Inv, HouseInv, TypeOK, NounIds, EscrowedFor
    <3>4. auction.nounId \in Nat
      BY SMTT(60) DEF Inv, TypeOK, NounIds
    <3>5. ForkInv(k, R)
      BY SMTT(60), <1>3, <3>2, <3>3, <3>4 DEF ForkInv
    <3>6. QED
      BY SMTT(60), <3>1, <3>5
  <2>3. QED
    BY SMTT(60), <1>13, <2>1, <2>2
<1>17. QED
  BY SMTT(60), <1>6, <1>7, <1>10, <1>11, <1>14, <1>15, <1>16 DEF Inv

\* What joining changes in the fork's token.
WithJoin(old, n, S) == [old EXCEPT !.currentNounId = n, !.joined = S]

LEMMA JoinedFields ==
    ASSUME NEW old \in ForkDAO, NEW n \in Nat, NEW S \in SUBSET NounIds
    PROVE  LET k == WithJoin(old, n, S)
           IN  /\ k \in ForkDAO /\ k.claimed = old.claimed /\ k.joined = S
               /\ k.remainingTokensToClaim = old.remainingTokensToClaim
               /\ k.startNounId = old.startNounId /\ k.currentNounId = n
               /\ k.auctioned = old.auctioned
  BY ZenonT(60) DEF ForkDAO, WithJoin

\* The counter of a fork moves past the ids that join.
LEMMA LiftedPast ==
    ASSUME NEW ids \in Lists, NEW c \in Nat
    PROVE  Lifted(c, ids) \in Nat /\ c <= Lifted(c, ids) /\ \A id \in ids : id < Lifted(c, ids)
<1>1. ids \in SUBSET NounIds /\ ids # {}
  BY DEF Lists
<1>2. Max(ids) \in ids /\ \A id \in ids : id <= Max(ids)
  BY <1>1, MaxIsGreatest
<1>3. \A id \in ids : id \in Nat
  BY <1>1 DEF NounIds
<1>4. QED
  BY <1>2, <1>3 DEF Lifted

\* Holders who join get their share of the treasury, and not more.
LEMMA JoinShare ==
    ASSUME Inv, NEW sender \in Accounts, NEW ids \in Lists, JoinFork(sender, ids)
    PROVE  LET sent == ProRata(treasury, Cardinality(ids), adjustedTotalSupply)
           IN  /\ sent \in Nat /\ sent <= treasury /\ treasury' = treasury - sent
               /\ sent * adjustedTotalSupply <= treasury * Cardinality(ids)
<1>1. /\ ids \subseteq HeldBy(owners, sender)
      /\ treasury' = treasury - ProRata(treasury, Cardinality(ids), adjustedTotalSupply)
  BY DEF JoinFork
<1>2. numTokensInEscrow \in Nat /\ treasury \in Nat
  BY DEF Inv, TypeOK
<1>3. ids \in SUBSET Circulating /\ Circulating \in SUBSET NounIds /\ ids # {}
  BY SMTT(60), <1>1 DEF Circulating, HeldBy, Lists
<1>4. /\ Cardinality(Circulating) \in Nat /\ Cardinality(ids) \in Nat
      /\ Cardinality(ids) <= Cardinality(Circulating) /\ IsFiniteSet(ids)
  BY ZenonT(60), <1>3, NounsCount, DifferenceCount
<1>5. Cardinality(ids) # 0
  BY <1>3, <1>4, FS_EmptySet
<1>6. adjustedTotalSupply = Cardinality(Circulating) + numTokensInEscrow
  BY SupplyCounts DEF Inv
<1>7. /\ adjustedTotalSupply \in Nat /\ Cardinality(ids) <= adjustedTotalSupply
      /\ adjustedTotalSupply # 0
  BY <1>2, <1>4, <1>5, <1>6
<1>8. QED
  BY <1>1, <1>2, <1>4, <1>7, ShareOfTreasury

LEMMA JoinStep ==
    ASSUME Inv, NEW sender \in Accounts, NEW ids \in Lists, JoinFork(sender, ids)
    PROVE  Inv'
<1> USE ForkConstants
<1> DEFINE f == Len(forks)
           old == forks[f]
           R == EscrowedFor(f - 1)
           n == Lifted(old.currentNounId, ids)
           S == old.joined \cup ids
           k == WithJoin(old, n, S)
<1>1. /\ isForkPeriodActive
      /\ ids \subseteq HeldBy(owners, sender)
      /\ owners' = Give(owners, ids, TIMELOCK)
      /\ forks' = [forks EXCEPT ![f] = k]
      /\ UNCHANGED <<currentNounId, auction, paused, forkId, escrowedTokensByForkId,
                     numTokensInEscrow, forkEndTimestamp, released, transfers, now>>
  BY ZenonT(60) DEF JoinFork, WithJoin, house, escrow
<1>2. treasury' \in Nat
  BY JoinShare DEF Inv, TypeOK
<1>3. forkId = f /\ f \in 1 .. Len(forks) /\ f \in Nat /\ f >= 1
  <2>1. forkId \in Nat /\ forkId = Len(forks)
    BY SMTT(60) DEF Inv, TypeOK
  <2>2. forkId >= 1
    BY ZenonT(60), <1>1 DEF Inv, PeriodInv
  <2>3. QED
    BY SMTT(60), <2>1, <2>2
<1>4. \A id \in R : owners[id] = ESCROW
  BY <1>1, <1>3 DEF Inv, PeriodInv
<1>5. /\ ids \in SUBSET NounIds
      /\ \A id \in ids : owners[id] \in Accounts
      /\ \A id \in NounIds : owners'[id] = IF id \in ids THEN TIMELOCK ELSE owners[id]
  BY <1>1 DEF HeldBy, Give, Lists
<1>6. ids \cap R = {} /\ ids \cap EscrowedFor(forkId) = {}
  BY <1>4, <1>5 DEF Inv, EscrowKeepsItsRecords
<1>7. /\ old \in ForkDAO /\ old.joined \in SUBSET NounIds /\ old.currentNounId \in Nat
      /\ old.auctioned \in SUBSET NounIds /\ old.startNounId \in Nat
  <2>1. old \in ForkDAO
    BY SMTT(60), <1>3 DEF Inv, TypeOK
  <2> HIDE DEF old
  <2>2. QED
    BY SMTT(60), <2>1 DEF ForkDAO, NounIds
<1>8. n \in Nat /\ old.currentNounId <= n /\ \A id \in ids : id < n
  BY ZenonT(60), <1>7, LiftedPast
<1>9. /\ k \in ForkDAO /\ k.claimed = old.claimed /\ k.joined = S
      /\ k.remainingTokensToClaim = old.remainingTokensToClaim
      /\ k.startNounId = old.startNounId /\ k.currentNounId = n
      /\ k.auctioned = old.auctioned
  <2>1. S \in SUBSET NounIds
    BY <1>5, <1>7
  <2> HIDE DEF old, n, S
  <2>2. QED
    BY <1>7, <1>8, <2>1, JoinedFields
<1>10. ForkInv(old, R)
  BY SMTT(60), <1>3 DEF Inv, ForksInv
<1> HIDE DEF k, n
<1>11. ForkInv(k, R)
  <2>1. S \cap R = {}
    BY SMTT(60), <1>6, <1>10 DEF ForkInv
  <2>2. \A id \in old.auctioned \cup S : id < n
    <3>1. \A id \in old.auctioned \cup old.joined : id \in Nat /\ id < old.currentNounId
      BY SMTT(60), <1>7, <1>10 DEF ForkInv, NounIds
    <3>2. QED
      BY SMTT(60), <1>7, <1>8, <3>1
  <2>3. old.startNounId <= n
    BY SMTT(60), <1>7, <1>8, <1>10 DEF ForkInv
  <2> HIDE DEF S, R
  <2>4. QED
    BY SMTT(60), <1>9, <1>10, <2>1, <2>2, <2>3 DEF ForkInv
<1>12. /\ forks' \in Seq(ForkDAO) /\ Len(forks') = Len(forks)
       /\ \A g \in 1 .. Len(forks) : forks'[g] = IF g = f THEN k ELSE forks[g]
  BY SMTT(60), <1>1, <1>3, <1>9 DEF Inv, TypeOK
<1>13. owners' \in [NounIds -> Holders \cup {ZERO}]
  BY SMTT(60), <1>1 DEF Inv, TypeOK, Give, Holders
<1>14. TypeOK'
  BY SMTT(60), <1>1, <1>2, <1>12, <1>13 DEF Inv, TypeOK
<1>15. \A id \in ids : id < currentNounId
  BY SMTT(60), <1>5 DEF Inv, HouseInv, TypeOK, NounIds
<1>16. HouseInv'
  <2>1. auction.nounId \in NounIds /\ \A id \in NounIds : id \in Int
    BY SMTT(60) DEF Inv, TypeOK, NounIds
  <2>2. ~auction.settled => auction.nounId \notin ids
    BY SMTT(60), <1>5 DEF Inv, HouseInv
  <2>3. \A id \in NounIds : id >= currentNounId => id \notin ids
    BY SMTT(60), <1>15, <2>1 DEF Inv, TypeOK
  <2>4. HouseInv /\ currentNounId' = currentNounId /\ auction' = auction
    BY Zenon, <1>1 DEF Inv
  <2>5. ~auction'.settled => owners'[auction'.nounId] = HOUSE
    BY SMTT(60), <1>5, <2>1, <2>2, <2>4 DEF HouseInv
  <2>6. \A id \in NounIds : id >= currentNounId' => owners'[id] = ZERO
    BY SMTT(60), <1>5, <2>3, <2>4 DEF HouseInv
  <2>7. QED
    BY SMTT(60), <2>4, <2>5, <2>6 DEF HouseInv, NounIds
<1>17. \A g : EscrowedFor(g)' = EscrowedFor(g)
  BY SMTT(60), <1>1 DEF EscrowedFor
<1>18. RecordsInv'
  BY SMTT(60), <1>1, <1>17 DEF Inv, RecordsInv
<1>19. EscrowKeepsItsRecords'
  BY ZenonT(60), <1>1, <1>5, <1>6, <1>17 DEF Inv, EscrowKeepsItsRecords, EscrowedFor
<1>20. PeriodInv'
  <2>1. \A id \in R : owners'[id] = ESCROW
    BY SMTT(60), <1>4, <1>5, <1>6 DEF EscrowedFor
  <2>2. EscrowedFor(forkId - 1)' = R
    BY SMTT(60), <1>1, <1>3, <1>17 DEF EscrowedFor
  <2>3. QED
    BY SMTT(60), <1>1, <1>3, <2>1, <2>2 DEF PeriodInv
<1>21. ForksInv'
  BY SMTT(60), <1>11, <1>12, <1>17 DEF Inv, ForksInv
<1>22. SidesInv'
  <2> SUFFICES ASSUME NEW g \in 1 .. Len(forks),
                      NEW id \in EscrowedFor(g - 1) \cup forks'[g].joined
               PROVE  id < currentNounId /\ Gone(id)'
    BY ZenonT(60), <1>1, <1>12, <1>17 DEF SidesInv
  <2>1. CASE id \in ids
    <3>1. owners'[id] = TIMELOCK /\ id \notin EscrowedFor(forkId)'
      BY SMTT(60), <1>1, <1>5, <1>6, <2>1 DEF EscrowedFor
    <3>2. QED
      BY SMTT(60), <1>15, <2>1, <3>1 DEF Gone
  <2>2. CASE id \notin ids
    <3>1. id \in EscrowedFor(g - 1) \cup forks[g].joined
      BY SMTT(60), <1>9, <1>12, <2>2
    <3>2. id < currentNounId /\ Gone(id)
      BY SMTT(60), <3>1 DEF Inv, SidesInv
    <3>3. id \in NounIds
      BY SMTT(60), <3>1, ForkTypes DEF Inv, EscrowedFor
    <3>4. owners'[id] = owners[id] /\ EscrowedFor(forkId)' = EscrowedFor(forkId)
      BY ZenonT(60), <1>1, <1>5, <2>2, <3>3 DEF EscrowedFor
    <3>5. QED
      BY SMTT(60), <1>1, <3>2, <3>4 DEF Gone
  <2>3. QED
    BY SMTT(60), <2>1, <2>2
<1>23. QED
  BY <1>14, <1>16, <1>18, <1>19, <1>20, <1>21, <1>22 DEF Inv

------------------------------------------------------------------------------
(* The theorems                                                            *)

LEMMA StutterStep == ASSUME Inv, UNCHANGED vars PROVE Inv'
<1>1. UNCHANGED <<owners, currentNounId, auction, paused, treasury, forkId,
                  escrowedTokensByForkId, numTokensInEscrow, forkEndTimestamp, forks,
                  released, transfers, now>>
  BY SMTT(60) DEF vars, house, escrow
<1>2. TypeOK' /\ HouseInv'
  BY SMTT(60), <1>1 DEF Inv, TypeOK, HouseInv
<1>3. RecordsInv' /\ EscrowKeepsItsRecords' /\ SidesInv' /\ PeriodInv' /\ ForksInv'
  BY SMTT(60), <1>1, OwnersMove DEF Inv, TypeOK
<1>4. QED
  BY SMTT(60), <1>2, <1>3 DEF Inv

LEMMA NextStep == ASSUME Inv, [Next]_vars PROVE Inv'
<1>1. CASE Token
  BY SMTT(60), <1>1, TransferStep, SettleAndCreateStep, SettleStep, PauseStep, UnpauseStep DEF Token
<1>2. CASE Leaving
  BY SMTT(60), <1>2, EscrowStep, WithdrawStep, JoinStep, ExecuteStep, WithdrawDAOStep DEF Leaving
<1>3. CASE Fork
  BY SMTT(60), <1>3, ClaimStep, ForkMintStep, ForkSellStep DEF Fork
<1>4. CASE Tick
  BY SMTT(60), <1>4, TickStep
<1>5. CASE UNCHANGED vars
  BY <1>5, StutterStep
<1>6. QED
  BY SMTT(60), <1>1, <1>2, <1>3, <1>4, <1>5 DEF Next

\* The inductive invariant holds of the fork mechanism.
THEOREM ForkInvariant == Spec => []Inv
<1>1. Init => Inv
  BY SMTT(60), InitInv
<1>2. Inv /\ [Next]_vars => Inv'
  BY NextStep
<1>3. QED
  BY <1>1, <1>2, PTL DEF Spec

\* Every variable of the token, the auction, the escrow and the forks keeps
\* its type: treasury and counters never go below zero.
THEOREM ForkTypesHold == Spec => []TypeOK
<1>1. Inv => TypeOK
  BY SMTT(60) DEF Inv
<1>2. QED
  BY <1>1, ForkInvariant, PTL

\* NounsDAOForkEscrow counts the nouns recorded for the open fork, and has
\* them all.
THEOREM EscrowIsCounted == Spec => []EscrowKeepsItsRecords
<1>1. Inv => EscrowKeepsItsRecords
  BY SMTT(60) DEF Inv
<1>2. QED
  BY <1>1, ForkInvariant, PTL

\* adjustedTotalSupply counts the nouns of holders, of the auction house and
\* of the open escrow, each once.
THEOREM SupplyIsRight == Spec => []SupplyIsNotTheDAOs
<1>1. Inv => SupplyIsNotTheDAOs
  BY SupplyCounts DEF Inv
<1>2. QED
  BY <1>1, ForkInvariant, PTL

\* Where a fork's token has a twin of a noun, claimed from the escrow or
\* joined, the DAO has the original or gave it out.
THEOREM OneSideOnly == Spec => []OneNounOneSide
<1>1. ASSUME Inv PROVE OneNounOneSide
  BY ZenonT(60), <1>1 DEF Inv, SidesInv, ForksInv, ForkInv, Gone, OneNounOneSide
<1>2. QED
  BY <1>1, ForkInvariant, PTL

\* Whoever escrowed a noun for an executed fork can claim its twin with
\* claimFromEscrow, the noun the fork's auctions start with excepted.
THEOREM ClaimsAreOpen == Spec => []ClaimsStayOpen
<1>1. ASSUME Inv PROVE ClaimsStayOpen
  <2> SUFFICES ASSUME NEW f \in 1 .. Len(forks),
                      NEW id \in EscrowedFor(f - 1) \ forks[f].claimed, id \in ForkTokens(f)
               PROVE  id = forks[f].startNounId
    BY SMTT(60), <1>1 DEF Inv, ForksInv, ForkInv, ClaimsStayOpen
  <2> DEFINE k == forks[f]
  <2>1. ForkInv(k, EscrowedFor(f - 1))
    BY SMTT(60), <1>1 DEF Inv, ForksInv
  <2>2. id \in k.auctioned
    BY SMTT(60), <2>1 DEF ForkInv, ForkTokens
  <2>3. k \in ForkDAO
    BY SMTT(60), <1>1 DEF Inv, TypeOK
  <2> HIDE DEF k
  <2>4. k.startNounId \in Nat /\ id \in Nat
    BY SMTT(60), <2>3 DEF ForkDAO, NounIds, EscrowedFor
  <2>5. id <= k.startNounId /\ k.startNounId <= id
    BY SMTT(60), <2>1, <2>2 DEF ForkInv
  <2>6. QED
    BY <2>4, <2>5 DEF k
<1>2. QED
  BY <1>1, ForkInvariant, PTL

\* The next noun of a fork's token is not taken by a joining holder or an
\* earlier auction (claimDuringForkPeriod lifts the counter).
THEOREM LaterNounsFree == Spec => []LaterNounsAreFree
<1>1. ASSUME Inv PROVE LaterNounsAreFree
  <2> SUFFICES ASSUME NEW f \in 1 .. Len(forks), forks[f].currentNounId \in ForkTokens(f)
               PROVE  /\ forks[f].currentNounId = forks[f].startNounId
                      /\ forks[f].currentNounId \in forks[f].claimed
    BY SMTT(60) DEF LaterNounsAreFree
  <2> DEFINE k == forks[f]
  <2>1. ForkInv(k, EscrowedFor(f - 1)) /\ k \in ForkDAO
    BY SMTT(60), <1>1 DEF Inv, ForksInv, TypeOK
  <2>2. k.currentNounId \in k.claimed \cup k.joined \cup k.auctioned
    BY SMTT(60) DEF ForkTokens
  <2> HIDE DEF k
  <2>3. k.startNounId \in Nat /\ k.currentNounId \in Nat
    BY SMTT(60), <2>1 DEF ForkDAO, NounIds
  <2>4. k.currentNounId \notin k.auctioned \cup k.joined
    BY SMTT(60), <2>1, <2>3 DEF ForkInv
  <2>5. k.currentNounId \in k.claimed /\ k.currentNounId <= k.startNounId
    BY SMTT(60), <2>1, <2>2, <2>4 DEF ForkInv
  <2>6. k.startNounId <= k.currentNounId
    BY SMTT(60), <2>1 DEF ForkInv
  <2>7. QED
    BY SMTT(60), <2>3, <2>5, <2>6 DEF k
<1>2. QED
  BY <1>1, ForkInvariant, PTL

\* If a share of t for n of s is paid, what is left per noun is not less.
LEMMA WhatIsLeft ==
    ASSUME NEW t \in Nat, NEW q \in Nat, NEW s \in Nat, NEW n \in Nat, q * s <= t * n
    PROVE  (t - q) * s >= t * (s - n)
<1>1. (t - q) * s = t * s - q * s /\ t * (s - n) = t * s - t * n
  OBVIOUS
<1>2. t * s \in Nat /\ q * s \in Nat /\ t * n \in Nat
  BY SMTT(60)
<1>3. QED
  BY SMTT(60), <1>1, <1>2

\* The supply in the next state, counted as in this one.
SupplyCounted == adjustedTotalSupply = Cardinality(Circulating) + numTokensInEscrow

NotDiluted ==
    treasury' < treasury => treasury' * adjustedTotalSupply >= treasury * adjustedTotalSupply'

LEMMA ExecuteKeepsShares ==
    ASSUME Inv, SupplyCounted, SupplyCounted', ExecuteFork
    PROVE  NotDiluted
<1> DEFINE sent == ProRata(treasury, numTokensInEscrow, adjustedTotalSupply)
           s == adjustedTotalSupply
           n == numTokensInEscrow
<1>1. numTokensInEscrow' = 0 /\ owners' = owners
  BY SMTT(60) DEF ExecuteFork
<1>2. Circulating' = Circulating /\ Cardinality(Circulating) \in Nat /\ n \in Nat
      /\ treasury \in Nat
  BY SMTT(60), <1>1, NounsCount DEF Circulating, Inv, TypeOK
<1>3. s = Cardinality(Circulating) + n /\ s' = Cardinality(Circulating)
  BY SMTT(60), <1>1, <1>2 DEF SupplyCounted
<1>4. sent \in Nat /\ treasury' = treasury - sent /\ sent * s <= treasury * n
  BY SMTT(60), ExecuteShare
<1> HIDE DEF sent, s, n
<1>5. s \in Nat /\ s' = s - n
  BY SMTT(60), <1>2, <1>3
<1>6. (treasury - sent) * s >= treasury * (s - n)
  BY SMTT(60), <1>2, <1>4, <1>5, WhatIsLeft
<1>7. QED
  BY SMTT(60), <1>4, <1>5, <1>6 DEF NotDiluted, s

LEMMA JoinKeepsShares ==
    ASSUME Inv, SupplyCounted, SupplyCounted', NEW sender \in Accounts, NEW ids \in Lists,
           JoinFork(sender, ids)
    PROVE  NotDiluted
<1> DEFINE sent == ProRata(treasury, Cardinality(ids), adjustedTotalSupply)
           s == adjustedTotalSupply
           n == Cardinality(ids)
<1>1. /\ numTokensInEscrow' = numTokensInEscrow
      /\ owners' = Give(owners, ids, TIMELOCK)
      /\ ids \subseteq HeldBy(owners, sender)
  BY SMTT(60) DEF JoinFork, escrow
<1>2. Circulating' = Circulating \ ids /\ ids \in SUBSET Circulating
  BY SMTT(60), <1>1, ForkConstants DEF Circulating, Give, HeldBy
<1>3. Circulating \in SUBSET NounIds
  BY SMTT(60) DEF Circulating
<1>4. /\ Cardinality(Circulating') = Cardinality(Circulating) - n
      /\ Cardinality(Circulating) \in Nat /\ n \in Nat
  <2>1. Cardinality(Circulating \ ids) = Cardinality(Circulating) - Cardinality(ids)
    BY SMTT(60), <1>2, <1>3, DifferenceCount
  <2>2. Cardinality(Circulating) \in Nat /\ Cardinality(ids) \in Nat
    BY SMTT(60), <1>2, <1>3, NounsCount
  <2>3. QED
    BY SMTT(60), <1>2, <2>1, <2>2
<1>5. numTokensInEscrow \in Nat /\ treasury \in Nat
  BY SMTT(60) DEF Inv, TypeOK
<1>6. /\ s = Cardinality(Circulating) + numTokensInEscrow
      /\ s' = Cardinality(Circulating') + numTokensInEscrow
  BY SMTT(60), <1>1 DEF SupplyCounted
<1>7. sent \in Nat /\ treasury' = treasury - sent /\ sent * s <= treasury * n
  BY SMTT(60), JoinShare
<1> HIDE DEF sent, s, n
<1>8. s \in Nat /\ s' = s - n
  BY SMTT(60), <1>4, <1>5, <1>6
<1>9. (treasury - sent) * s >= treasury * (s - n)
  BY SMTT(60), <1>4, <1>5, <1>7, <1>8, WhatIsLeft
<1>10. QED
  BY SMTT(60), <1>7, <1>8, <1>9 DEF NotDiluted, s

\* No other step pays out of the treasury.
LEMMA OthersPayNothing ==
    ASSUME Inv, [Next]_vars, ~ExecuteFork,
           \A sender \in Accounts, ids \in Lists : ~JoinFork(sender, ids)
    PROVE  treasury' = treasury
<1>1. CASE Token
  BY SMTT(60), <1>1
     DEF Token, Transfer, SettleCurrentAndCreateNewAuction, SettleAuction, Pause, Unpause,
              CreateAuction
<1>2. CASE Leaving
  BY SMTT(60), <1>2 DEF Leaving, EscrowToFork, WithdrawFromForkEscrow, WithdrawDAONounsFromEscrow
<1>3. CASE Fork
  BY ZenonT(60), <1>3 DEF Fork, ClaimFromEscrow, ForkMint, ForkSell, ForkBurn, InFork
<1>4. CASE Tick \/ UNCHANGED vars
  BY <1>4 DEF Tick, vars
<1>5. QED
  BY SMTT(60), <1>1, <1>2, <1>3, <1>4 DEF Next

\* What executeFork and joinFork pay out never lowers the treasury per noun
\* of those who stay.
THEOREM SharesHold == Spec => SharesAreNotDiluted
<1>1. Inv => SupplyCounted
  BY SupplyCounts DEF Inv, SupplyCounted
<1>2. ASSUME Inv, SupplyCounted, SupplyCounted', [Next]_vars PROVE [NotDiluted]_vars
  <2>1. CASE ExecuteFork
    BY <1>2, <2>1, ExecuteKeepsShares
  <2>2. CASE \E sender \in Accounts, ids \in Lists : JoinFork(sender, ids)
    BY <1>2, <2>2, JoinKeepsShares
  <2>3. ASSUME ~ExecuteFork, ~\E sender \in Accounts, ids \in Lists : JoinFork(sender, ids)
        PROVE  NotDiluted
    <3>1. treasury' = treasury /\ treasury \in Nat
      BY <1>2, <2>3, OthersPayNothing DEF Inv, TypeOK
    <3>2. QED
      BY <3>1 DEF NotDiluted
  <2>4. QED
    BY <2>1, <2>2, <2>3
<1>3. Spec => [][NotDiluted]_vars
  BY <1>1, <1>2, ForkInvariant, PTL DEF Spec
<1>4. QED
  BY <1>3 DEF SharesAreNotDiluted, NotDiluted

===============================================================================
