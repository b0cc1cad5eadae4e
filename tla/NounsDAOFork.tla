----------------------------- MODULE NounsDAOFork -----------------------------
(***************************************************************************)
(* Leaving the DAO.  Holders put nouns into the escrow; past a threshold   *)
(* anyone executes the fork: a new DAO is deployed, gets its share of the  *)
(* treasury, and the escrowed nouns become the old DAO's.  For a period    *)
(* the other holders may join.  In the new DAO the leavers claim tokens    *)
(* with the ids of their old ones.                                         *)
(*                                                                         *)
(* Sources: governance/fork/NounsDAOV3Fork.sol, NounsDAOForkEscrow.sol,    *)
(* ForkDAODeployer.sol, newdao/token/NounsTokenFork.sol and                *)
(* checkGovernanceActive of newdao/governance/NounsDAOLogicV1Fork.sol.     *)
(*                                                                         *)
(* A list of token ids is a set: a repeated id fails at the second         *)
(* transfer or mint, which reverts the call.  The treasury is its ETH;     *)
(* every ERC20 token is split by the same formula.  The treasury itself    *)
(* does not escrow or join, and holders have approved the DAO.  Of a token *)
(* of a fork only its existence matters here, not who holds it.            *)
(***************************************************************************)
EXTENDS Integers, Sequences, FiniteSetsExt

CONSTANTS
    Accounts,       \* the holders of nouns
    TIMELOCK,       \* the treasury of the DAO
    ESCROW, HOUSE,  \* the fork escrow and the auction house
    ZERO,           \* address(0)
    MaxNounId,      \* bound: the nouns are 0 .. MaxNounId
    FirstOwners,    \* the nouns dealt out before the first step, and to whom
    Treasury0,      \* the ETH of the treasury at the start
    ThresholdBPS,   \* ds.forkThresholdBPS
    ForkPeriod,     \* ds.forkPeriod
    GovernanceDelay,\* delayedGovernanceMaxDuration of the deployer
    MaxForks,       \* bound: the number of forks
    MaxTransfers,   \* bound: the number of transfers by hand
    MaxTime         \* bound: the last block.timestamp

NounIds == 0 .. MaxNounId
Holders == Accounts \cup {TIMELOCK, ESCROW, HOUSE}

ASSUME ForkConstants ==
    /\ {TIMELOCK, ESCROW, HOUSE, ZERO} \cap Accounts = {}
    /\ TIMELOCK \notin {ESCROW, HOUSE, ZERO} /\ ESCROW \notin {HOUSE, ZERO} /\ HOUSE # ZERO
    /\ MaxNounId \in Nat /\ MaxForks \in Nat /\ MaxTransfers \in Nat /\ MaxTime \in Nat
    /\ FirstOwners \in Seq(Accounts) /\ Len(FirstOwners) <= MaxNounId
    /\ Treasury0 \in Nat /\ ThresholdBPS \in Nat
    /\ ForkPeriod \in Nat /\ GovernanceDelay \in Nat

VARIABLES
    owners,         \* the owner of each noun, ZERO when there is none
    currentNounId,  \* the next noun the auction house mints
    auction,        \* its nounId, and whether it is settled
    paused,         \* is the auction house paused?
    treasury,       \* the ETH of the timelock
    forkId, escrowedTokensByForkId, numTokensInEscrow,  \* the escrow
    forkEndTimestamp,
    forks,          \* the new DAOs, in the order of their deployment
    released,       \* history: the nouns the DAO has given out again
    transfers,      \* the number of transfers by hand so far
    now             \* block.timestamp

escrow == <<forkId, escrowedTokensByForkId, numTokensInEscrow>>
house == <<currentNounId, auction, paused>>
vars == <<owners, house, treasury, escrow, forkEndTimestamp, forks, released, transfers, now>>

Existing(o) == {id \in NounIds : o[id] # ZERO}
HeldBy(o, a) == {id \in NounIds : o[id] = a}
Give(o, ids, a) == [id \in NounIds |-> IF id \in ids THEN a ELSE o[id]]

------------------------------------------------------------------------------
(* The escrow and the supply                                               *)

\* The account that escrowed the noun for the open fork, or the DAO (ZERO)
currentOwnerOf(id) == escrowedTokensByForkId[forkId][id]

numTokensOwnedByDAO == Cardinality(HeldBy(owners, ESCROW)) - numTokensInEscrow

adjustedTotalSupply ==
    Cardinality(Existing(owners)) - Cardinality(HeldBy(owners, TIMELOCK))
      - numTokensOwnedByDAO

forkThreshold == (adjustedTotalSupply * ThresholdBPS) \div 10000

isForkPeriodActive == forkEndTimestamp > now

\* Mutant: the share is rounded up.
ProRataRoundedUp(eth, tokenCount, supply) == (eth * tokenCount + supply - 1) \div supply

\* What sendProRataTreasury sends
ProRata(eth, tokenCount, supply) == (eth * tokenCount) \div supply

------------------------------------------------------------------------------
(* A fork DAO                                                              *)

\* deployForkDAO with the initializers it calls.  The tokens of the fork are
\* those claimed by the leavers, those minted for holders who joined, and
\* those auctioned, of which its auction house may hold one.
DeployForkDAO ==
    [startNounId |-> auction.nounId, currentNounId |-> auction.nounId,
     remainingTokensToClaim |-> numTokensInEscrow,
     forkingPeriodEndTimestamp |-> now + ForkPeriod,
     delayedGovernanceExpirationTimestamp |-> now + GovernanceDelay,
     claimed |-> {}, joined |-> {}, auctioned |-> {}, held |-> {}]

ForkTokens(f) == forks[f].claimed \cup forks[f].joined \cup forks[f].auctioned

\* checkGovernanceActive
GovernanceActive(f) ==
    /\ now >= forks[f].forkingPeriodEndTimestamp
    /\ \/ now >= forks[f].delayedGovernanceExpirationTimestamp
       \/ forks[f].remainingTokensToClaim = 0

------------------------------------------------------------------------------
Init ==
    /\ owners = [id \in NounIds |->
                   IF id < Len(FirstOwners) THEN FirstOwners[id + 1]
                   ELSE IF id = Len(FirstOwners) THEN HOUSE ELSE ZERO]
    /\ currentNounId = Len(FirstOwners) + 1
    /\ auction = [nounId |-> Len(FirstOwners), settled |-> FALSE]
    /\ paused = FALSE
    /\ treasury = Treasury0
    /\ forkId = 0
    /\ escrowedTokensByForkId =
         [f \in 0 .. MaxForks |-> [id \in NounIds |-> ZERO]]
    /\ numTokensInEscrow = 0
    /\ forkEndTimestamp = 0
    /\ forks = <<>>
    /\ released = {}
    /\ transfers = 0
    /\ now = 1

Tick ==
    /\ now < MaxTime
    /\ now' = now + 1
    /\ UNCHANGED <<owners, house, treasury, escrow, forkEndTimestamp, forks, released, transfers>>

------------------------------------------------------------------------------
(* The token and the auction house, as far as a fork depends on them.      *)

\* transferFrom: also to the escrow, which then holds a noun it has no record
\* of.  The DAO's own nouns move by a proposal, and no proposal is executed
\* while a fork period is active.
Transfer(from, to, id) ==
    /\ owners[id] = from /\ from # to
    /\ from = TIMELOCK => ~isForkPeriodActive
    /\ owners' = [owners EXCEPT ![id] = to]
    /\ released' = IF from = TIMELOCK THEN released \cup {id} ELSE released
    /\ transfers < MaxTransfers /\ transfers' = transfers + 1
    /\ UNCHANGED <<house, treasury, escrow, forkEndTimestamp, forks, now>>

\* The noun goes to the winner w, or is burnt where there is none (ZERO).
Sold(w) == [owners EXCEPT ![auction.nounId] = w]

CreateAuction(o) ==
    /\ currentNounId <= MaxNounId
    /\ owners' = [o EXCEPT ![currentNounId] = HOUSE]
    /\ auction' = [nounId |-> currentNounId, settled |-> FALSE]
    /\ currentNounId' = currentNounId + 1
    /\ UNCHANGED <<treasury, escrow, forkEndTimestamp, forks, released, transfers, now>>

SettleCurrentAndCreateNewAuction(w) ==
    ~paused /\ ~auction.settled /\ CreateAuction(Sold(w)) /\ UNCHANGED paused

SettleAuction(w) ==
    /\ paused /\ ~auction.settled
    /\ owners' = Sold(w)
    /\ auction' = [auction EXCEPT !.settled = TRUE]
    /\ UNCHANGED <<currentNounId, paused, treasury, escrow, forkEndTimestamp, forks, released,
                   transfers, now>>

\* The timelock owns the auction house: it pauses and unpauses by proposals.
Pause ==
    /\ ~paused /\ ~isForkPeriodActive
    /\ paused' = TRUE
    /\ UNCHANGED <<owners, currentNounId, auction, treasury, escrow, forkEndTimestamp, forks,
                   released, transfers, now>>

Unpause ==
    /\ paused /\ ~isForkPeriodActive
    /\ paused' = FALSE
    /\ \/ auction.settled /\ CreateAuction(owners)
       \/ /\ ~auction.settled
          /\ UNCHANGED <<owners, currentNounId, auction, treasury, escrow, forkEndTimestamp,
                         forks, released, transfers, now>>

------------------------------------------------------------------------------
(* Escrow, fork, join                                                      *)

Record(ids, a) ==
    [escrowedTokensByForkId EXCEPT ![forkId] = Give(@, ids, a)]

\* safeTransferFrom by the DAO with the escrow's onERC721Received
EscrowToFork(sender, ids) ==
    /\ ~isForkPeriodActive
    /\ ids \subseteq HeldBy(owners, sender)
    /\ owners' = Give(owners, ids, ESCROW)
    /\ escrowedTokensByForkId' = Record(ids, sender)
    /\ numTokensInEscrow' = numTokensInEscrow + Cardinality(ids)
    /\ UNCHANGED <<house, treasury, forkId, forkEndTimestamp, forks, released, transfers, now>>

\* Mutant: the record of the escrower stays.
WithdrawFromForkEscrowRecorded(sender, ids) ==
    /\ ~isForkPeriodActive
    /\ \A id \in ids : currentOwnerOf(id) = sender /\ owners[id] = ESCROW
    /\ owners' = Give(owners, ids, sender)
    /\ numTokensInEscrow' = numTokensInEscrow - Cardinality(ids)
    /\ UNCHANGED <<house, treasury, forkId, escrowedTokensByForkId, forkEndTimestamp, forks,
                   released, transfers, now>>

\* returnTokensToOwner
WithdrawFromForkEscrow(sender, ids) ==
    /\ ~isForkPeriodActive
    /\ \A id \in ids : currentOwnerOf(id) = sender /\ owners[id] = ESCROW
    /\ owners' = Give(owners, ids, sender)
    /\ escrowedTokensByForkId' = Record(ids, ZERO)
    /\ numTokensInEscrow' = numTokensInEscrow - Cardinality(ids)
    /\ UNCHANGED <<house, treasury, forkId, forkEndTimestamp, forks, released, transfers, now>>

\* Mutant: closing the escrow leaves the count alone.
ExecuteForkKeepsCount ==
    LET sent == ProRata(treasury, numTokensInEscrow, adjustedTotalSupply)
    IN  /\ ~isForkPeriodActive
        /\ numTokensInEscrow > forkThreshold
        /\ forkId < MaxForks
        /\ forks' = Append(forks, DeployForkDAO)
        /\ treasury' = treasury - sent
        /\ forkId' = forkId + 1
        /\ forkEndTimestamp' = now + ForkPeriod
        /\ UNCHANGED <<owners, house, escrowedTokensByForkId, numTokensInEscrow, released,
                       transfers, now>>

\* The treasury pays before the escrow closes, and so by the supply that
\* counts the escrowed nouns.
ExecuteFork ==
    LET sent == ProRata(treasury, numTokensInEscrow, adjustedTotalSupply)
    IN  /\ ~isForkPeriodActive
        /\ numTokensInEscrow > forkThreshold
        /\ forkId < MaxForks
        /\ forks' = Append(forks, DeployForkDAO)
        /\ treasury' = treasury - sent
        /\ numTokensInEscrow' = 0
        /\ forkId' = forkId + 1
        /\ forkEndTimestamp' = now + ForkPeriod
        /\ UNCHANGED <<owners, house, escrowedTokensByForkId, released, transfers, now>>

\* claimDuringForkPeriod lifts the counter past the ids it mints.
\* Mutant: it does not.
LiftedNever(counter, ids) == counter

Lifted(counter, ids) == IF Max(ids) >= counter THEN Max(ids) + 1 ELSE counter

\* Mutant: the nouns stay with the holder.
JoinForkKeepingNouns(sender, ids) ==
    LET f == Len(forks)
        sent == ProRata(treasury, Cardinality(ids), adjustedTotalSupply)
    IN  /\ isForkPeriodActive
        /\ ids \subseteq HeldBy(owners, sender)
        /\ ids \cap ForkTokens(f) = {}
        /\ now < forks[f].forkingPeriodEndTimestamp
        /\ treasury' = treasury - sent
        /\ forks' = [forks EXCEPT ![f].currentNounId = Lifted(@, ids),
                                  ![f].joined = @ \cup ids]
        /\ UNCHANGED <<owners, house, escrow, forkEndTimestamp, released, transfers, now>>

JoinFork(sender, ids) ==
    LET f == Len(forks)
        sent == ProRata(treasury, Cardinality(ids), adjustedTotalSupply)
    IN  /\ isForkPeriodActive
        /\ ids \subseteq HeldBy(owners, sender)
        /\ ids \cap ForkTokens(f) = {}
        /\ now < forks[f].forkingPeriodEndTimestamp
        /\ treasury' = treasury - sent
        /\ owners' = Give(owners, ids, TIMELOCK)
        /\ forks' = [forks EXCEPT ![f].currentNounId = Lifted(@, ids),
                                  ![f].joined = @ \cup ids]
        /\ UNCHANGED <<house, escrow, forkEndTimestamp, released, transfers, now>>

\* withdrawDAONounsFromEscrowToTreasury, and ...IncreasingTotalSupply for
\* other receivers, by a proposal
WithdrawDAONounsFromEscrow(ids, to) ==
    /\ ~isForkPeriodActive
    /\ \A id \in ids : currentOwnerOf(id) = ZERO /\ owners[id] = ESCROW
    /\ owners' = Give(owners, ids, to)
    /\ released' = IF to = TIMELOCK THEN released ELSE released \cup ids
    /\ UNCHANGED <<house, treasury, escrow, forkEndTimestamp, forks, transfers, now>>

------------------------------------------------------------------------------
(* In the fork DAO                                                         *)

InFork == UNCHANGED <<owners, house, treasury, escrow, forkEndTimestamp, released, transfers, now>>

\* Mutant: a list of nouns counts as one.
ClaimFromEscrowCountingOne(sender, f, ids) ==
    /\ \A id \in ids : escrowedTokensByForkId[f - 1][id] = sender
    /\ ids \cap ForkTokens(f) = {}
    /\ Cardinality(ids) <= forks[f].remainingTokensToClaim
    /\ forks' = [forks EXCEPT ![f].remainingTokensToClaim = @ - 1,
                              ![f].claimed = @ \cup ids]
    /\ InFork

\* The subtraction reverts below zero.
ClaimFromEscrow(sender, f, ids) ==
    /\ \A id \in ids : escrowedTokensByForkId[f - 1][id] = sender
    /\ ids \cap ForkTokens(f) = {}
    /\ Cardinality(ids) <= forks[f].remainingTokensToClaim
    /\ forks' = [forks EXCEPT ![f].remainingTokensToClaim = @ - Cardinality(ids),
                              ![f].claimed = @ \cup ids]
    /\ InFork

\* mint, by the auction house of the fork; it waits for a proposal to unpause
\* it, and so for the governance to be active.
ForkMint(f) ==
    LET id == forks[f].currentNounId
    IN  /\ GovernanceActive(f)
        /\ id \in NounIds \ ForkTokens(f)
        /\ forks[f].held = {}
        /\ forks' = [forks EXCEPT ![f].currentNounId = id + 1,
                                  ![f].auctioned = @ \cup {id}, ![f].held = {id}]
        /\ InFork

\* The auction house sells the noun it holds, or burns it.
ForkSell(f) ==
    /\ forks[f].held # {}
    /\ forks' = [forks EXCEPT ![f].held = {}]
    /\ InFork

ForkBurn(f) ==
    /\ forks[f].held # {}
    /\ forks' = [forks EXCEPT ![f].held = {}, ![f].auctioned = @ \ forks[f].held]
    /\ InFork

------------------------------------------------------------------------------
Lists == (SUBSET NounIds) \ {{}}

Token ==
    \/ \E from \in Accounts \cup {TIMELOCK}, to \in Accounts \cup {TIMELOCK, ESCROW},
          id \in NounIds : Transfer(from, to, id)
    \/ \E w \in Accounts \cup {ZERO} :
           SettleCurrentAndCreateNewAuction(w) \/ SettleAuction(w)
    \/ Pause \/ Unpause

Leaving ==
    \/ \E a \in Accounts, ids \in Lists :
           EscrowToFork(a, ids) \/ WithdrawFromForkEscrow(a, ids) \/ JoinFork(a, ids)
    \/ ExecuteFork
    \/ \E ids \in Lists, to \in Accounts \cup {TIMELOCK} : WithdrawDAONounsFromEscrow(ids, to)

Fork ==
    \E f \in 1 .. Len(forks) :
        \/ \E a \in Accounts, ids \in Lists : ClaimFromEscrow(a, f, ids)
        \/ ForkMint(f) \/ ForkSell(f) \/ ForkBurn(f)

Next == Token \/ Leaving \/ Fork \/ Tick

Spec == Init /\ [][Next]_vars

------------------------------------------------------------------------------
(* Properties                                                              *)

ForkDAO ==
    [startNounId : NounIds, currentNounId : Nat, remainingTokensToClaim : Nat,
     forkingPeriodEndTimestamp : Nat, delayedGovernanceExpirationTimestamp : Nat,
     claimed : SUBSET NounIds, joined : SUBSET NounIds,
     auctioned : SUBSET NounIds, held : SUBSET NounIds]

TypeOK ==
    /\ owners \in [NounIds -> Holders \cup {ZERO}]
    /\ currentNounId \in Nat
    /\ auction \in [nounId : NounIds, settled : BOOLEAN] /\ paused \in BOOLEAN
    /\ treasury \in Nat
    /\ forkId \in 0 .. MaxForks /\ forkId = Len(forks)
    /\ escrowedTokensByForkId \in
         [0 .. MaxForks -> [NounIds -> Accounts \cup {ZERO}]]
    /\ numTokensInEscrow \in Nat
    /\ forkEndTimestamp \in Nat
    /\ forks \in Seq(ForkDAO)
    /\ released \subseteq NounIds
    /\ transfers \in Nat /\ now \in Nat

\* The nouns escrowed for a fork, by its id
EscrowedFor(f) == {id \in NounIds : escrowedTokensByForkId[f][id] # ZERO}

\* The escrow's counter, on which threshold, shares and supply rest, is the
\* number of the nouns recorded for the open fork, and the escrow has them
\* all: whoever escrowed a noun can take it back, and the subtractions in
\* numTokensOwnedByDAO and adjustedTotalSupply never underflow.
EscrowKeepsItsRecords ==
    /\ numTokensInEscrow = Cardinality(EscrowedFor(forkId))
    /\ \A id \in EscrowedFor(forkId) : owners[id] = ESCROW

\* The adjusted supply counts the nouns that are not the DAO's: those of
\* holders and of the auction house, and those that can still be taken back
\* from the escrow; not those sent to the escrow by mistake.
SupplyIsNotTheDAOs ==
    adjustedTotalSupply =
        Cardinality({id \in NounIds : owners[id] \in Accounts \cup {HOUSE}}
                      \cup EscrowedFor(forkId))

\* A noun is on one side only: where a fork has minted its twin, the original
\* is the DAO's, unless the DAO gave it out again.
OneNounOneSide ==
    \A f \in 1 .. Len(forks) :
        \A id \in forks[f].claimed \cup forks[f].joined :
            \/ owners[id] \in {TIMELOCK, ESCROW, ZERO} /\ id \notin EscrowedFor(forkId)
            \/ id \in released

\* Everyone who escrowed a noun for an executed fork can claim its twin
\* once: what remains to be claimed is what is recorded and not claimed, and
\* neither a joining holder nor the auctions of the fork take such an id, the
\* noun the fork's auctions start with excepted (see NextNounIsFree).
ClaimsStayOpen ==
    \A f \in 1 .. Len(forks) :
        LET open == EscrowedFor(f - 1) \ forks[f].claimed IN
        /\ forks[f].claimed \subseteq EscrowedFor(f - 1)
        /\ forks[f].remainingTokensToClaim = Cardinality(open)
        /\ open \cap ForkTokens(f) \subseteq {forks[f].startNounId}

\* "If we don't increment currentNounId, unpausing the fork auction house
\* would revert Since it would attempt to mint a noun with an ID that already
\* exists" (NounsTokenFork.sol:184-185): the next noun of a fork is not taken.
NextNounIsFree ==
    \A f \in 1 .. Len(forks) :
        forks[f].currentNounId \notin ForkTokens(f)

\* The same, unless the noun the auctions start with was claimed: neither
\* joining holders nor the auctions themselves ever block the next mint.
LaterNounsAreFree ==
    \A f \in 1 .. Len(forks) :
        forks[f].currentNounId \in ForkTokens(f) =>
            forks[f].currentNounId \in {forks[f].startNounId} \cap forks[f].claimed

\* Nobody who stays pays for those who leave: what the treasury pays out for
\* a fork or for joining holders never lowers what is left per noun.
SharesAreNotDiluted ==
    [][treasury' < treasury =>
         treasury' * adjustedTotalSupply >= treasury * adjustedTotalSupply']_vars

==============================================================================
