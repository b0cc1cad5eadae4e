------------------------------ MODULE NounsDAOV3 ------------------------------
(***************************************************************************)
(* The governor: proposals, alone or with the signatures of others, their  *)
(* updates, voting with its objection period, queueing, execution on one   *)
(* of two timelocks, cancelling and vetoing.                               *)
(*                                                                         *)
(* Sources: NounsDAOV3Proposals.sol, NounsDAOV3Votes.sol and               *)
(* NounsDAOV3DynamicQuorum.sol behind NounsDAOLogicV3.sol; the settings    *)
(* and the roles are in NounsDAOAdmin.                                     *)
(*                                                                         *)
(* The token is seen through SnapshotVotes: the votes of an account at a   *)
(* finished block never change, hence a table of them.  One clock stands   *)
(* for block.number and block.timestamp.  The transactions of a proposal   *)
(* are a sequence of calls; the description is not stored by the code.     *)
(***************************************************************************)
EXTENDS NounsDAOAdmin, SequencesExt

CONSTANTS
    Proposers, Signers, Voters,     \* who takes part, sets of Accounts
    Contents,       \* the transactions that are proposed: sequences of calls
    VoteTables,     \* possible votes of each account at each block
    Supplies,       \* possible values of adjustedTotalSupply
    Expiries,       \* expiration times of signatures
    Delay, GRACE_PERIOD,            \* of each timelock
    MaxProposals, MaxTime, MaxCancelled
                    \* bounds: proposals, clock, cancelled signatures

Calls == UNION {ToSet(txs) : txs \in Contents}

\* A signature names the proposal it is for: 0 for a new one.
Sigs == [signer : Signers, proposer : Proposers, txs : Contents,
         proposalId : 0 .. MaxProposals, expiry : Expiries]

ASSUME GovernorConstants ==
    /\ Proposers \cup Signers \cup Voters \subseteq Accounts
    /\ Contents \subseteq Seq(Calls) \ {<<>>}
    /\ VoteTables \subseteq [Accounts -> [0 .. MaxTime -> Nat]]
    /\ Supplies \subseteq Nat /\ Expiries \subseteq Nat
    /\ Delay \in [Timelocks -> Nat \ {0}] /\ GRACE_PERIOD \in [Timelocks -> Nat]
    /\ MaxProposals \in Nat /\ MaxTime \in Nat \ {0} /\ MaxCancelled \in Nat

VARIABLES
    votesAt,            \* the token: votesAt[a][b], chosen at the start
    proposals,          \* sequence of proposals; the id is the index
    latestProposalIds,
    cancelledSigs,
    queuedTransactions, \* of each timelock: set of <<call, eta>>
    performed,          \* history, of each timelock: <<call, eta, timestamp>>
    forkEndTimestamp

daoVars == <<proposals, proposalCount, latestProposalIds, cancelledSigs>>
lockVars == <<queuedTransactions, performed>>
vars == <<adminVars, now, votesAt, daoVars, lockVars, forkEndTimestamp>>

Ids == 1 .. Len(proposals)

------------------------------------------------------------------------------
(* Thresholds and quorum                                                   *)

bps2Uint(bps, number) == (number * bps) \div 10000

proposalThreshold(supply) == bps2Uint(ds.proposalThresholdBPS, supply)

Least(a, b) == IF a < b THEN a ELSE b

dynamicQuorumVotes(againstVotes, totalSupply, params) ==
    LET againstVotesBPS == (10000 * againstVotes) \div totalSupply
        adjustment == (params.quorumCoefficient * againstVotesBPS) \div 1000000
    IN  bps2Uint(Least(params.maxQuorumVotesBPS, params.minQuorumVotesBPS + adjustment),
                 totalSupply)

\* Mutant: the quorum follows the parameters in force now.
quorumVotesNow(p) ==
    IF p.totalSupply = 0 THEN 0
    ELSE dynamicQuorumVotes(p.againstVotes, p.totalSupply, getDynamicQuorumParamsAt(now))

quorumVotes(p) ==
    IF p.totalSupply = 0 THEN 0
    ELSE dynamicQuorumVotes(p.againstVotes, p.totalSupply,
                            getDynamicQuorumParamsAt(p.creationBlock))

isDefeated(p) == p.forVotes <= p.againstVotes \/ p.forVotes < quorumVotes(p)

------------------------------------------------------------------------------
(* The state of a proposal                                                 *)

getProposalTimelock(p) == IF p.executeOnTimelockV1 THEN timelockV1 ELSE timelock

stateInternal(p) ==
    IF p.vetoed THEN "Vetoed"
    ELSE IF p.canceled THEN "Canceled"
    ELSE IF now <= p.updatePeriodEndBlock THEN "Updatable"
    ELSE IF now <= p.startBlock THEN "Pending"
    ELSE IF now <= p.endBlock THEN "Active"
    ELSE IF now <= p.objectionPeriodEndBlock THEN "ObjectionPeriod"
    ELSE IF isDefeated(p) THEN "Defeated"
    ELSE IF p.eta = 0 THEN "Succeeded"
    ELSE IF p.executed THEN "Executed"
    ELSE IF now >= p.eta + GRACE_PERIOD[getProposalTimelock(p)] THEN "Expired"
    ELSE "Queued"

State(id) == stateInternal(proposals[id])

\* Mutant: the objection period is not counted as live.
LiveStatesOfV2 == {"Active", "Pending", "Updatable"}

\* The states in which a proposal occupies its proposer and its signers
LiveStates == {"ObjectionPeriod", "Active", "Pending", "Updatable"}

noActiveProp(a) == latestProposalIds[a] # 0 => State(latestProposalIds[a]) \notin LiveStates

------------------------------------------------------------------------------
(* Proposing                                                               *)

NoReceipt == [hasVoted |-> FALSE, support |-> 0, votes |-> 0]

NewProposal(proposer, signers, txs, onV1, threshold, supply) ==
    LET updateEnd == now + ds.proposalUpdatablePeriodInBlocks
        start == updateEnd + ds.votingDelay
    IN  [proposer |-> proposer, signers |-> signers, txs |-> txs, signedTxs |-> txs,
         executeOnTimelockV1 |-> onV1, proposalThreshold |-> threshold,
         totalSupply |-> supply, creationBlock |-> now, updatePeriodEndBlock |-> updateEnd,
         startBlock |-> start, endBlock |-> start + ds.votingPeriod,
         objectionPeriodEndBlock |-> 0, eta |-> 0,
         forVotes |-> 0, againstVotes |-> 0, abstainVotes |-> 0,
         canceled |-> FALSE, vetoed |-> FALSE, executed |-> FALSE,
         receipts |-> [a \in Accounts |-> NoReceipt]]

AddProposal(p, backers) ==
    /\ proposalCount < MaxProposals
    /\ proposalCount' = proposalCount + 1
    /\ proposals' = Append(proposals, p)
    /\ latestProposalIds' = [a \in Accounts |->
           IF a \in backers THEN proposalCount + 1 ELSE latestProposalIds[a]]
    /\ UNCHANGED <<adminVars, now, votesAt, cancelledSigs, lockVars, forkEndTimestamp>>

\* propose, and proposeOnTimelockV1 where onV1
Propose(sender, txs, onV1, supply) ==
    LET threshold == proposalThreshold(supply) IN
    /\ votesAt[sender][now - 1] > threshold
    /\ noActiveProp(sender)
    /\ AddProposal(NewProposal(sender, {}, txs, onV1, threshold, supply), {sender})

Expired(sig) == now > sig.expiry

ValidSig(sig) == sig \notin cancelledSigs /\ ~Expired(sig)

VotesOf(accounts) == MapThenSumSet(LAMBDA a : votesAt[a][now - 1], accounts)

\* expiry[s]: the expiration of the signature of s; signers without votes are
\* left out, and the proposer cannot sign for themselves.
ProposeBySigs(sender, expiry, txs, supply) ==
    LET threshold == proposalThreshold(supply)
        signers == {s \in DOMAIN expiry : votesAt[s][now - 1] > 0}
    IN  /\ \A s \in DOMAIN expiry :
               /\ ValidSig([signer |-> s, proposer |-> sender, txs |-> txs,
                            proposalId |-> 0, expiry |-> expiry[s]])
               /\ noActiveProp(s)
        /\ signers # {}
        /\ noActiveProp(sender) /\ sender \notin signers
        /\ VotesOf(signers \cup {sender}) > threshold
        /\ AddProposal(NewProposal(sender, signers, txs, FALSE, threshold, supply),
                       signers \cup {sender})

CancelSig(sig) ==
    /\ Cardinality(cancelledSigs) < MaxCancelled
    /\ cancelledSigs' = cancelledSigs \cup {sig}
    /\ UNCHANGED <<adminVars, now, votesAt, proposals, proposalCount, latestProposalIds,
                   lockVars, forkEndTimestamp>>

------------------------------------------------------------------------------
(* Updating                                                                *)

Put(id, p) ==
    /\ proposals' = [proposals EXCEPT ![id] = p]
    /\ UNCHANGED <<adminVars, now, votesAt, proposalCount, latestProposalIds, cancelledSigs>>

\* Mutant: signers are not looked at.
UpdateProposalOfSigners(sender, id, txs) ==
    LET p == proposals[id] IN
    /\ stateInternal(p) = "Updatable"
    /\ sender = p.proposer
    /\ Put(id, [p EXCEPT !.txs = txs])
    /\ UNCHANGED <<lockVars, forkEndTimestamp>>

\* updateProposal and updateProposalTransactions
UpdateProposal(sender, id, txs) ==
    LET p == proposals[id] IN
    /\ stateInternal(p) = "Updatable"
    /\ sender = p.proposer
    /\ p.signers = {}
    /\ Put(id, [p EXCEPT !.txs = txs])
    /\ UNCHANGED <<lockVars, forkEndTimestamp>>

UpdateProposalBySigs(sender, id, expiry, txs) ==
    LET p == proposals[id] IN
    /\ stateInternal(p) = "Updatable"
    /\ sender = p.proposer
    /\ p.signers # {} /\ DOMAIN expiry = p.signers
    /\ \A s \in p.signers : ValidSig([signer |-> s, proposer |-> sender, txs |-> txs,
                                      proposalId |-> id, expiry |-> expiry[s]])
    /\ Put(id, [p EXCEPT !.txs = txs, !.signedTxs = txs])
    /\ UNCHANGED <<lockVars, forkEndTimestamp>>

------------------------------------------------------------------------------
(* Voting                                                                  *)

proposalVoteSnapshotBlock(id, p) ==
    IF id < voteSnapshotBlockSwitchProposalId \/ voteSnapshotBlockSwitchProposalId = 0
    THEN p.creationBlock ELSE p.startBlock

\* Mutant: the receipt does not say that the account has voted.
CountedTwice(p, voter, support, votes) ==
    [p EXCEPT !.againstVotes = @ + IF support = 0 THEN votes ELSE 0,
              !.forVotes = @ + IF support = 1 THEN votes ELSE 0,
              !.abstainVotes = @ + IF support = 2 THEN votes ELSE 0,
              !.receipts[voter] = [hasVoted |-> FALSE, support |-> support, votes |-> votes]]

\* The ballot in the tallies and in the receipt
Counted(p, voter, support, votes) ==
    [p EXCEPT !.againstVotes = @ + IF support = 0 THEN votes ELSE 0,
              !.forVotes = @ + IF support = 1 THEN votes ELSE 0,
              !.abstainVotes = @ + IF support = 2 THEN votes ELSE 0,
              !.receipts[voter] = [hasVoted |-> TRUE, support |-> support, votes |-> votes]]

InLastMinuteWindow(p) == p.endBlock - now < ds.lastMinuteWindowInBlocks

\* Mutant: a proposal short of its quorum does not count as defeated.
TurnsLateByMajority(p, q) ==
    InLastMinuteWindow(p) /\ p.forVotes <= p.againstVotes /\ ~isDefeated(q)

\* The ballot turns a defeated proposal p into a passing one, q, late
TurnsLate(p, q) == InLastMinuteWindow(p) /\ isDefeated(p) /\ ~isDefeated(q)

castVoteDuringVotingPeriod(p, voter, support, votes) ==
    LET q == Counted(p, voter, support, votes) IN
    IF support = 1 /\ p.objectionPeriodEndBlock = 0 /\ TurnsLate(p, q)
    THEN [q EXCEPT !.objectionPeriodEndBlock = p.endBlock + ds.objectionPeriodDurationInBlocks]
    ELSE q

CastVote(voter, id, support) ==
    LET p == proposals[id]
        snapshot == proposalVoteSnapshotBlock(id, p)
    IN  /\ stateInternal(p) \in {"Active", "ObjectionPeriod"}
        /\ ~p.receipts[voter].hasVoted
        /\ snapshot < now
        /\ \/ /\ stateInternal(p) = "Active"
              /\ Put(id, castVoteDuringVotingPeriod(p, voter, support,
                                                    votesAt[voter][snapshot]))
           \/ /\ stateInternal(p) = "ObjectionPeriod"
              /\ support = 0
              /\ Put(id, Counted(p, voter, 0, votesAt[voter][snapshot]))
        /\ UNCHANGED <<lockVars, forkEndTimestamp>>

------------------------------------------------------------------------------
(* Queueing, executing                                                     *)

Entries(p, eta) == {<<c, eta>> : c \in ToSet(p.txs)}

\* Mutant: the delay is left out.
QueueAtOnce(id) ==
    LET p == proposals[id]
        tl == getProposalTimelock(p)
    IN  /\ stateInternal(p) = "Succeeded"
        /\ tl # ZERO
        /\ IsInjective(p.txs)
        /\ Entries(p, now) \cap queuedTransactions[tl] = {}
        /\ queuedTransactions' = [queuedTransactions EXCEPT ![tl] = @ \cup Entries(p, now)]
        /\ Put(id, [p EXCEPT !.eta = now])
        /\ UNCHANGED <<performed, forkEndTimestamp>>

\* Every call goes through queueOrRevertInternal: a call that occurs twice
\* makes the second one revert.
Queue(id) ==
    LET p == proposals[id]
        tl == getProposalTimelock(p)
        eta == now + Delay[tl]
    IN  /\ stateInternal(p) = "Succeeded"
        /\ tl # ZERO
        /\ IsInjective(p.txs)
        /\ Entries(p, eta) \cap queuedTransactions[tl] = {}
        /\ queuedTransactions' = [queuedTransactions EXCEPT ![tl] = @ \cup Entries(p, eta)]
        /\ Put(id, [p EXCEPT !.eta = eta])
        /\ UNCHANGED <<performed, forkEndTimestamp>>

isForkPeriodActive == forkEndTimestamp > now

\* Mutant: the proposal is not marked as executed.
executeInternalUnmarked(id, tl) ==
    LET p == proposals[id] IN
    /\ stateInternal(p) = "Queued"
    /\ ~isForkPeriodActive
    /\ tl # ZERO
    /\ Entries(p, p.eta) \subseteq queuedTransactions[tl]
    /\ now >= p.eta /\ now <= p.eta + GRACE_PERIOD[tl]
    /\ queuedTransactions' = [queuedTransactions EXCEPT ![tl] = @ \ Entries(p, p.eta)]
    /\ performed' = [performed EXCEPT ![tl] = @ \cup {<<c, p.eta, now>> : c \in ToSet(p.txs)}]
    /\ UNCHANGED <<adminVars, now, votesAt, daoVars, forkEndTimestamp>>

\* executeInternal on timelock tl, with the conditions of executeTransaction
executeInternal(id, tl) ==
    LET p == proposals[id] IN
    /\ stateInternal(p) = "Queued"
    /\ ~isForkPeriodActive
    /\ tl # ZERO
    /\ Entries(p, p.eta) \subseteq queuedTransactions[tl]
    /\ now >= p.eta /\ now <= p.eta + GRACE_PERIOD[tl]
    /\ queuedTransactions' = [queuedTransactions EXCEPT ![tl] = @ \ Entries(p, p.eta)]
    /\ performed' = [performed EXCEPT ![tl] = @ \cup {<<c, p.eta, now>> : c \in ToSet(p.txs)}]
    /\ Put(id, [p EXCEPT !.executed = TRUE])
    /\ UNCHANGED forkEndTimestamp

Execute(id) == executeInternal(id, getProposalTimelock(proposals[id]))

ExecuteOnTimelockV1(id) == executeInternal(id, timelockV1)

------------------------------------------------------------------------------
(* Cancelling, vetoing                                                     *)

\* Mutant: the calls stay in the timelock.
UnqueueNothing(p) == getProposalTimelock(p) # ZERO /\ UNCHANGED lockVars

\* cancelTransaction for every call of p, in the timelock of p
Unqueue(p) ==
    LET tl == getProposalTimelock(p) IN
    /\ tl # ZERO
    /\ queuedTransactions' = [queuedTransactions EXCEPT ![tl] = @ \ Entries(p, p.eta)]
    /\ UNCHANGED performed

Veto(id) ==
    LET p == proposals[id] IN
    /\ vetoer # ZERO
    /\ stateInternal(p) # "Executed"
    /\ Put(id, [p EXCEPT !.vetoed = TRUE])
    /\ Unqueue(p)
    /\ UNCHANGED forkEndTimestamp

\* Mutant: a proposal can be cancelled after its execution.
FinalStatesButExecuted == {"Canceled", "Defeated", "Expired", "Vetoed"}

FinalStates == {"Canceled", "Defeated", "Expired", "Executed", "Vetoed"}

Cancel(sender, id) ==
    LET p == proposals[id] IN
    /\ stateInternal(p) \notin FinalStates
    /\ \/ sender \in p.signers \cup {p.proposer}
       \/ VotesOf(p.signers \cup {p.proposer}) <= p.proposalThreshold
    /\ Put(id, [p EXCEPT !.canceled = TRUE])
    /\ Unqueue(p)
    /\ UNCHANGED forkEndTimestamp

------------------------------------------------------------------------------
\* executeFork, as far as the governor sees it; bound: one fork.  A fork with
\* no period to it has no effect here.
StartFork ==
    /\ forkEndTimestamp = 0
    /\ ds.forkPeriod > 0
    /\ forkEndTimestamp' = now + ds.forkPeriod
    /\ UNCHANGED <<adminVars, now, votesAt, daoVars, lockVars>>

Administer ==
    /\ AdminNext
    /\ UNCHANGED <<now, votesAt, daoVars, lockVars, forkEndTimestamp>>

Tick ==
    /\ now < MaxTime
    /\ now' = now + 1
    /\ UNCHANGED <<adminVars, votesAt, daoVars, lockVars, forkEndTimestamp>>

Init ==
    /\ now = 1
    /\ AdminInit
    /\ votesAt \in VoteTables
    /\ proposals = <<>> /\ proposalCount = 0
    /\ latestProposalIds = [a \in Accounts |-> 0]
    /\ cancelledSigs = {}
    /\ queuedTransactions = [tl \in Timelocks |-> {}]
    /\ performed = [tl \in Timelocks |-> {}]
    /\ forkEndTimestamp = 0

Expirations == UNION {[S -> Expiries] : S \in SUBSET Signers}

Proposing ==
    \/ \E a \in Proposers, txs \in Contents, onV1 \in BOOLEAN, supply \in Supplies :
           Propose(a, txs, onV1, supply)
    \/ \E a \in Proposers, e \in Expirations, txs \in Contents, supply \in Supplies :
           ProposeBySigs(a, e, txs, supply)
    \/ \E sig \in Sigs : CancelSig(sig)

Updating ==
    \E a \in Proposers, id \in Ids, txs \in Contents :
        \/ UpdateProposal(a, id, txs)
        \/ \E e \in Expirations : UpdateProposalBySigs(a, id, e, txs)

Voting == \E a \in Voters, id \in Ids, support \in 0 .. 2 : CastVote(a, id, support)

Finishing ==
    \E id \in Ids :
        \/ Queue(id) \/ Execute(id) \/ ExecuteOnTimelockV1(id) \/ Veto(id)
        \/ \E a \in Accounts : Cancel(a, id)

Next == Proposing \/ Updating \/ Voting \/ Finishing \/ StartFork \/ Administer \/ Tick

Spec == Init /\ [][Next]_vars

------------------------------------------------------------------------------
(* Properties                                                              *)

Receipt == [hasVoted : BOOLEAN, support : 0 .. 2, votes : Nat]

Proposal ==
    [proposer : Proposers, signers : SUBSET Signers, txs : Contents, signedTxs : Contents,
     executeOnTimelockV1 : BOOLEAN, proposalThreshold : Nat, totalSupply : Nat,
     creationBlock : Nat, updatePeriodEndBlock : Nat, startBlock : Nat, endBlock : Nat,
     objectionPeriodEndBlock : Nat, eta : Nat,
     forVotes : Nat, againstVotes : Nat, abstainVotes : Nat,
     canceled : BOOLEAN, vetoed : BOOLEAN, executed : BOOLEAN,
     receipts : [Accounts -> Receipt]]

TypeOK ==
    /\ AdminTypeOK
    /\ now \in Nat \ {0} /\ now <= MaxTime
    /\ votesAt \in [Accounts -> [0 .. MaxTime -> Nat]]
    /\ proposals \in Seq(Proposal) /\ proposalCount = Len(proposals)
    /\ latestProposalIds \in [Accounts -> 0 .. Len(proposals)]
    /\ cancelledSigs \subseteq Sigs
    /\ queuedTransactions \in [Timelocks -> SUBSET (Calls \X Nat)]
    /\ performed \in [Timelocks -> SUBSET (Calls \X Nat \X Nat)]
    /\ forkEndTimestamp \in Nat

Undecided == {"Updatable", "Pending", "Active", "ObjectionPeriod"}

Backers(p) == p.signers \cup {p.proposer}

\* checkNoActiveProp "limits the number of proposals each noun can back":
\* no account, as proposer or as signer, backs two proposals that are live.
OneLiveProposal ==
    \A i, j \in Ids :
        State(i) \in Undecided /\ State(j) \in Undecided /\ i # j
            => Backers(proposals[i]) \cap Backers(proposals[j]) = {}

\* What the signers of a proposal signed is what it does.
SignersBackContent ==
    \A id \in Ids : proposals[id].signers # {} => proposals[id].txs = proposals[id].signedTxs

\* All ballots on a proposal weigh the votes of one and the same block, also
\* when the snapshot switch is thrown while the voting goes on.
BallotsShareSnapshot ==
    \A id \in Ids, a \in Accounts :
        LET p == proposals[id] IN
        p.receipts[a].hasVoted =>
            p.receipts[a].votes = votesAt[a][proposalVoteSnapshotBlock(id, p)]

Cast(p, support) ==
    MapThenSumSet(LAMBDA a : p.receipts[a].votes,
                  {a \in Accounts : p.receipts[a].hasVoted /\ p.receipts[a].support = support})

\* The tallies are the receipts added up: nobody is counted twice, in the
\* voting period and again in the objection period.
TalliesMatchReceipts ==
    \A id \in Ids :
        LET p == proposals[id] IN
        /\ p.againstVotes = Cast(p, 0)
        /\ p.forVotes = Cast(p, 1)
        /\ p.abstainVotes = Cast(p, 2)

\* Until the timelocks are exchanged, every call that waits belongs to a
\* proposal that was queued there and neither cancelled nor vetoed nor executed.
\* (A veto after the exchange looks for the call in the new timelock.)
WaitingCallsHaveAProposal ==
    timelockV1 = ZERO => \A tl \in Timelocks : \A e \in queuedTransactions[tl] :
        \E id \in Ids :
            LET p == proposals[id] IN
            /\ e \in Entries(p, p.eta)
            /\ getProposalTimelock(p) = tl
            /\ ~p.canceled /\ ~p.vetoed /\ ~p.executed

\* A call that was made belongs to an executed proposal that had passed, and
\* two executed proposals never share a call: nothing is made on the account
\* of two proposals.
MadeCallsHaveOneProposal ==
    /\ \A tl \in Timelocks : \A c \in performed[tl] :
           \E id \in Ids :
               LET p == proposals[id] IN
               /\ p.executed /\ ~isDefeated(p)
               /\ <<c[1], c[2]>> \in Entries(p, p.eta)
    /\ MapThenSumSet(LAMBDA tl : Cardinality(performed[tl]), Timelocks)
           = MapThenSumSet(LAMBDA id : Len(proposals[id].txs),
                           {id \in Ids : proposals[id].executed})

\* NounsDAOLogicV3.sol:52: Updatable -> Pending -> Active -> ObjectionPeriod
\* (conditional) -> Succeeded -> Queued -> Executed or Defeated, with the
\* exits to Canceled, Vetoed and Expired.
Moves ==
    [s \in Undecided \cup {"Succeeded", "Queued", "Defeated", "Canceled", "Vetoed",
                           "Expired", "Executed"} |->
        CASE s = "Updatable" -> {"Pending", "Canceled", "Vetoed"}
          [] s = "Pending" -> {"Active", "Canceled", "Vetoed"}
          [] s = "Active" -> {"ObjectionPeriod", "Succeeded", "Defeated", "Canceled", "Vetoed"}
          [] s = "ObjectionPeriod" -> {"Succeeded", "Defeated", "Canceled", "Vetoed"}
          [] s = "Succeeded" -> {"Queued", "Canceled", "Vetoed"}
          [] s = "Queued" -> {"Executed", "Expired", "Canceled", "Vetoed"}
          [] s \in {"Defeated", "Canceled", "Expired"} -> {"Vetoed"}
          [] s \in {"Executed", "Vetoed"} -> {}]

\* The state of a proposal, computed from the clock, the flags, the votes and
\* the quorum, follows the state machine: whatever happens to the settings,
\* no verdict is revised and no finished proposal comes back.
LifeCycle ==
    [][\A id \in Ids : State(id)' = State(id) \/ State(id)' \in Moves[State(id)]]_vars

LosingLate(id) ==
    /\ id \in Ids
    /\ State(id) = "Active" /\ InLastMinuteWindow(proposals[id]) /\ isDefeated(proposals[id])

\* "a conditional voting period that gets activated upon a last-minute proposal
\* swing from defeated to successful" (NounsDAOLogicV3.sol:38): a proposal
\* that is defeated at any moment of its last minutes never succeeds without
\* one, whatever ballots come in which order, unless the window is shrunk.
LateSwingIsContested ==
    \A id \in 1 .. MaxProposals :
        [](LosingLate(id) => [](id \in Ids /\ State(id) = "Succeeded"
                                    => proposals[id].objectionPeriodEndBlock # 0))

Promise(tl) == INSTANCE DelayedExecution WITH
    Txs <- Calls, MinDelay <- Delay[tl], Grace <- GRACE_PERIOD[tl],
    time <- now, announced <- queuedTransactions[tl], made <- performed[tl]

\* What the governor does with each timelock implements DelayedExecution (the
\* formula is \A tl \in Timelocks : Promise(tl)!Spec, with the box outside): no
\* call is made that did not wait for the delay, or after its grace period, or
\* that was withdrawn by a veto or a cancellation.
TimelocksKeepPromise ==
    /\ \A tl \in Timelocks : Promise(tl)!Init
    /\ [][\A tl \in Timelocks : Promise(tl)!Next \/ UNCHANGED Promise(tl)!promiseVars]_vars

==============================================================================
