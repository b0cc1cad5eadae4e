---------------------------- MODULE NounsDAOProofs ----------------------------
(***************************************************************************)
(* For every number of accounts, proposals and blocks: nobody backs two    *)
(* live proposals.                                                         *)
(***************************************************************************)
EXTENDS NounsDAOV3, NounsDAOAdminProofs

\* Voting on p may still go on or begin.
Open(p) ==
    /\ ~p.vetoed /\ ~p.canceled
    /\ \/ now <= p.updatePeriodEndBlock \/ now <= p.startBlock
       \/ now <= p.endBlock \/ now <= p.objectionPeriodEndBlock

\* A proposal is open in exactly the states that occupy its backers.
LEMMA OpenStates ==
    ASSUME NEW p
    PROVE  stateInternal(p) \in Undecided <=> Open(p)
BY SMTT(60) DEF stateInternal, Undecided, Open

\* latestProposalIds remembers the proposal that occupies an account: this is
\* what makes OneLiveProposal inductive, since checkNoActiveProp looks at the
\* latest proposal only.
BackersRemembered ==
    \A id \in Ids : Open(proposals[id]) =>
        \A a \in Backers(proposals[id]) : latestProposalIds[a] = id

IInv == TypeOK /\ AdminInv /\ NoClaimOnBurntVeto /\ BackersRemembered

\* The invariant says that nobody backs two live proposals.
LEMMA RememberedOnce == TypeOK /\ BackersRemembered => OneLiveProposal
BY SMTT(60), OpenStates DEF OneLiveProposal, BackersRemembered, State

\* A share of a supply is a number of votes.
LEMMA SharesAreNat ==
    ASSUME NEW bps \in Nat, NEW n \in Nat
    PROVE  bps2Uint(bps, n) \in Nat
<1>1. n * bps \in Nat
  BY SMTT(60)
<1>2. QED
  BY SMTT(60), <1>1 DEF bps2Uint

\* The part of the type invariant that is about the governor's own state
GovernorTypes ==
    /\ now \in Nat \ {0} /\ now <= MaxTime
    /\ votesAt \in [Accounts -> [0 .. MaxTime -> Nat]]
    /\ proposals \in Seq(Proposal) /\ proposalCount = Len(proposals)
    /\ latestProposalIds \in [Accounts -> 0 .. Len(proposals)]
    /\ cancelledSigs \subseteq Sigs

LockTypes ==
    /\ queuedTransactions \in [Timelocks -> SUBSET (Calls \X Nat)]
    /\ performed \in [Timelocks -> SUBSET (Calls \X Nat \X Nat)]
    /\ forkEndTimestamp \in Nat

LEMMA TypeParts == TypeOK <=> AdminTypeOK /\ GovernorTypes /\ LockTypes
BY SMTT(60) DEF TypeOK, GovernorTypes, LockTypes

\* Replacing a proposal by a version of it with the same backers, which is
\* open only if the old one was, keeps what is remembered.
LEMMA PutStep ==
    ASSUME GovernorTypes, BackersRemembered, NEW id \in Ids, NEW q \in Proposal,
           Put(id, q), Backers(q) = Backers(proposals[id]),
           Open(q) => Open(proposals[id])
    PROVE  GovernorTypes' /\ BackersRemembered'
<1> USE DEF Put, Ids
<1>1. /\ proposals' \in Seq(Proposal) /\ Len(proposals') = Len(proposals)
      /\ proposals'[id] = q
      /\ \A i \in Ids : i # id => proposals'[i] = proposals[i]
  BY SMTT(60) DEF GovernorTypes
<1>2. GovernorTypes'
  BY SMTT(60), <1>1 DEF GovernorTypes
<1>3. QED
  BY SMTT(60), <1>1, <1>2 DEF BackersRemembered, Open, Backers

\* A new proposal has the type of a proposal.
LEMMA NewProposalType ==
    ASSUME AdminTypeOK, now \in Nat, NEW a \in Proposers, NEW S \in SUBSET Signers,
           NEW txs \in Contents, NEW onV1 \in BOOLEAN, NEW t \in Nat, NEW supply \in Nat
    PROVE  NewProposal(a, S, txs, onV1, t, supply) \in Proposal
<1>1. NoReceipt \in Receipt
  BY SMTT(60) DEF NoReceipt, Receipt
<1>2. /\ ds.proposalUpdatablePeriodInBlocks \in Nat
      /\ ds.votingDelay \in Nat /\ ds.votingPeriod \in Nat
  BY SMTT(60) DEF AdminTypeOK, Settings
<1>3. QED
  BY SMTT(60), <1>1, <1>2 DEF NewProposal, Proposal

\* Adding a proposal of accounts that back no live one keeps what is remembered.
LEMMA AddStep ==
    ASSUME GovernorTypes, LockTypes, BackersRemembered, NEW p \in Proposal,
           AddProposal(p, Backers(p)),
           \A a \in Backers(p) : a \in Accounts /\ noActiveProp(a)
    PROVE  GovernorTypes' /\ LockTypes' /\ BackersRemembered'
<1> DEFINE n == Len(proposals)
<1>1. n \in Nat /\ proposalCount = n
  BY SMTT(60) DEF GovernorTypes
<1>2. /\ proposals' \in Seq(Proposal) /\ Len(proposals') = n + 1 /\ proposals'[n + 1] = p
      /\ \A i \in 1 .. n : proposals'[i] = proposals[i]
  BY SMTT(60) DEF GovernorTypes, AddProposal
<1>3. latestProposalIds' = [a \in Accounts |->
          IF a \in Backers(p) THEN n + 1 ELSE latestProposalIds[a]]
  BY SMTT(60), <1>1 DEF AddProposal
<1>4. GovernorTypes' /\ LockTypes'
  BY SMTT(60), <1>1, <1>2, <1>3 DEF GovernorTypes, LockTypes, AddProposal, lockVars
<1>5. BackersRemembered'
  <2> SUFFICES ASSUME NEW i \in 1 .. (n + 1), Open(proposals[i])',
                      NEW a \in Backers(proposals[i])'
               PROVE  latestProposalIds'[a] = i
    BY SMTT(60), <1>2 DEF BackersRemembered, Ids
  <2>1. CASE i = n + 1
    <3>1. a \in Backers(p) /\ a \in Accounts
      BY SMTT(60), <1>2, <2>1 DEF Backers
    <3>2. QED
      BY SMTT(60), <1>3, <2>1, <3>1
  <2>2. CASE i \in 1 .. n
    <3>1. Open(proposals[i]) /\ a \in Backers(proposals[i])
      BY SMTT(60), <1>2, <2>2 DEF Open, Backers, AddProposal
    <3>2. latestProposalIds[a] = i /\ State(i) \in LiveStates
      BY SMTT(60), <2>2, <3>1, OpenStates DEF BackersRemembered, Ids, State, Undecided, LiveStates
    <3>3. a \notin Backers(p)
      BY SMTT(60), <1>1, <2>2, <3>2 DEF noActiveProp
    <3>4. a \in Accounts
      <4>1. proposals[i] \in Proposal
        BY <2>2 DEF GovernorTypes
      <4>2. QED
        BY ZenonT(60), <3>1, <4>1, GovernorConstants DEF Backers, Proposal
    <3>5. QED
      BY SMTT(60), <1>3, <3>2, <3>3, <3>4
  <2>3. QED
    BY SMTT(60), <1>1, <2>1, <2>2
<1>6. QED
  BY SMTT(60), <1>4, <1>5

\* Proposing, alone or with signatures, and cancelling a signature
LEMMA ProposingStep ==
    ASSUME IInv, Proposing
    PROVE  GovernorTypes' /\ LockTypes' /\ BackersRemembered'
<1>1. AdminTypeOK /\ GovernorTypes /\ LockTypes /\ BackersRemembered
  BY SMTT(60), TypeParts DEF IInv
<1>2. now \in Nat /\ ds.proposalThresholdBPS \in Nat
  BY SMTT(60), <1>1 DEF GovernorTypes, AdminTypeOK, Settings
<1>3. ASSUME NEW supply \in Supplies
      PROVE  supply \in Nat /\ proposalThreshold(supply) \in Nat
  BY ZenonT(60), <1>2, <1>3, SharesAreNat, GovernorConstants DEF proposalThreshold
<1>4. ASSUME NEW a \in Proposers, NEW txs \in Contents, NEW onV1 \in BOOLEAN,
             NEW supply \in Supplies, Propose(a, txs, onV1, supply)
      PROVE  GovernorTypes' /\ LockTypes' /\ BackersRemembered'
  <2> DEFINE p == NewProposal(a, {}, txs, onV1, proposalThreshold(supply), supply)
  <2>1. p \in Proposal
    BY SMTT(60), <1>1, <1>2, <1>3, NewProposalType
  <2>2. Backers(p) = {a}
    BY SMTT(60) DEF Backers, NewProposal
  <2>3. AddProposal(p, Backers(p)) /\ a \in Accounts /\ noActiveProp(a)
    BY ZenonT(60), <1>4, <2>2, GovernorConstants DEF Propose
  <2> HIDE DEF p
  <2>4. QED
    BY <1>1, <2>1, <2>2, <2>3, AddStep
<1>5. ASSUME NEW a \in Proposers, NEW e \in Expirations, NEW txs \in Contents,
             NEW supply \in Supplies, ProposeBySigs(a, e, txs, supply)
      PROVE  GovernorTypes' /\ LockTypes' /\ BackersRemembered'
  <2> DEFINE S == {s \in DOMAIN e : votesAt[s][now - 1] > 0}
             p == NewProposal(a, S, txs, FALSE, proposalThreshold(supply), supply)
  <2>1. S \in SUBSET Signers
    BY SMTT(60) DEF Expirations
  <2>2. p \in Proposal
    <3> HIDE DEF S
    <3> QED BY ZenonT(60), <1>1, <1>2, <1>3, <2>1, NewProposalType
  <2>3. Backers(p) = S \cup {a}
    BY DEF Backers, NewProposal
  <2>4. AddProposal(p, S \cup {a}) /\ \A b \in S \cup {a} : noActiveProp(b)
    BY ZenonT(60), <1>5 DEF ProposeBySigs
  <2>5. \A b \in S \cup {a} : b \in Accounts
    BY <2>1, GovernorConstants
  <2> HIDE DEF p, S
  <2>6. QED
    BY SMTT(60), <1>1, <2>2, <2>3, <2>4, <2>5, AddStep
<1>6. ASSUME NEW sig \in Sigs, CancelSig(sig)
      PROVE  GovernorTypes' /\ LockTypes' /\ BackersRemembered'
  BY <1>1, <1>6 DEF CancelSig, GovernorTypes, LockTypes, BackersRemembered, Ids, Open, lockVars
<1>7. QED
  BY <1>4, <1>5, <1>6 DEF Proposing

\* A proposal of the sequence has the type of one.
LEMMA ProposalType ==
    ASSUME GovernorTypes, NEW id \in Ids
    PROVE  proposals[id] \in Proposal
BY SMTT(60) DEF GovernorTypes, Ids

\* Updating a proposal, with or without signatures
LEMMA UpdatingStep ==
    ASSUME IInv, Updating
    PROVE  GovernorTypes' /\ LockTypes' /\ BackersRemembered'
<1>1. GovernorTypes /\ LockTypes /\ BackersRemembered
  BY SMTT(60), TypeParts DEF IInv
<1>2. PICK a \in Proposers, id \in Ids, txs \in Contents :
         \/ UpdateProposal(a, id, txs)
         \/ \E e \in Expirations : UpdateProposalBySigs(a, id, e, txs)
  BY SMTT(60) DEF Updating
<1> DEFINE p == proposals[id]
<1>3. p \in Proposal
  BY SMTT(60), <1>1, ProposalType
<1>4. ASSUME NEW q, q = [p EXCEPT !.txs = txs] \/ q = [p EXCEPT !.txs = txs, !.signedTxs = txs]
      PROVE  q \in Proposal /\ Backers(q) = Backers(p) /\ (Open(q) => Open(p))
  <2> HIDE DEF p
  <2>1. q \in Proposal
    BY ZenonT(60), <1>3, <1>4 DEF Proposal
  <2>2. /\ q.proposer = p.proposer /\ q.signers = p.signers
        /\ q.vetoed = p.vetoed /\ q.canceled = p.canceled
        /\ q.updatePeriodEndBlock = p.updatePeriodEndBlock /\ q.startBlock = p.startBlock
        /\ q.endBlock = p.endBlock /\ q.objectionPeriodEndBlock = p.objectionPeriodEndBlock
    BY ZenonT(60), <1>3, <1>4 DEF Proposal
  <2>3. QED
    BY SMTT(60), <2>1, <2>2 DEF Backers, Open
<1>5. PICK q : /\ q = [p EXCEPT !.txs = txs] \/ q = [p EXCEPT !.txs = txs, !.signedTxs = txs]
               /\ Put(id, q)
               /\ UNCHANGED <<lockVars, forkEndTimestamp>>
  BY <1>2 DEF UpdateProposal, UpdateProposalBySigs
<1>6. GovernorTypes' /\ BackersRemembered'
  <2>1. q \in Proposal /\ Backers(q) = Backers(p) /\ (Open(q) => Open(p))
    BY SMTT(60), <1>4, <1>5
  <2>2. QED
    BY SMTT(60), <1>1, <1>5, <2>1, PutStep
<1>7. LockTypes'
  BY SMTT(60), <1>1, <1>5 DEF LockTypes, lockVars
<1>8. QED
  BY SMTT(60), <1>6, <1>7

\* A ballot is counted on an open proposal and leaves its backers alone.
LEMMA CountedType ==
    ASSUME NEW p \in Proposal, NEW a \in Accounts, NEW support \in 0 .. 2, NEW votes \in Nat
    PROVE  LET q == Counted(p, a, support, votes) IN
           q \in Proposal /\ q.proposer = p.proposer /\ q.signers = p.signers
<1> DEFINE r == [hasVoted |-> TRUE, support |-> support, votes |-> votes]
           x == p.againstVotes + IF support = 0 THEN votes ELSE 0
           y == p.forVotes + IF support = 1 THEN votes ELSE 0
           z == p.abstainVotes + IF support = 2 THEN votes ELSE 0
           rs == [p.receipts EXCEPT ![a] = r]
           q == Counted(p, a, support, votes)
<1>1. r \in Receipt
  BY SMTT(60) DEF Receipt
<1>2. rs \in [Accounts -> Receipt]
  <2> HIDE DEF r
  <2> QED BY SMTT(60), <1>1 DEF Proposal
<1>3. x \in Nat /\ y \in Nat /\ z \in Nat
  BY SMTT(60) DEF Proposal
<1>4. q = [p EXCEPT !.againstVotes = x, !.forVotes = y, !.abstainVotes = z, !.receipts = rs]
  BY SMTT(60) DEF Counted, Proposal
<1> HIDE DEF x, y, z, rs, q
<1>5. q \in Proposal /\ q.proposer = p.proposer /\ q.signers = p.signers
  BY ZenonT(60), <1>2, <1>3, <1>4 DEF Proposal
<1>6. QED
  BY SMTT(60), <1>5 DEF q

\* Voting, in the voting period and in the objection period
LEMMA VotingStep ==
    ASSUME IInv, Voting
    PROVE  GovernorTypes' /\ LockTypes' /\ BackersRemembered'
<1>1. AdminTypeOK /\ GovernorTypes /\ LockTypes /\ BackersRemembered
  BY TypeParts DEF IInv
<1>2. PICK a \in Voters, id \in Ids, support \in 0 .. 2 : CastVote(a, id, support)
  BY DEF Voting
<1> DEFINE p == proposals[id]
           snapshot == proposalVoteSnapshotBlock(id, p)
           votes == votesAt[a][snapshot]
<1>3. p \in Proposal /\ a \in Accounts
  BY SMTT(60), <1>1, ProposalType, GovernorConstants
<1>4. votes \in Nat
  <2>1. snapshot \in Nat
    BY <1>3 DEF proposalVoteSnapshotBlock, Proposal
  <2>2. snapshot < now
    BY <1>2 DEF CastVote
  <2>3. snapshot \in 0 .. MaxTime
    BY SMTT(60), <1>1, <2>1, <2>2, GovernorConstants DEF GovernorTypes
  <2>4. QED
    BY ZenonT(60), <1>1, <1>3, <2>3 DEF GovernorTypes
<1>5. Open(p)
  BY SMTT(60), <1>2, OpenStates DEF CastVote, Undecided
<1>6. ds.objectionPeriodDurationInBlocks \in Nat
  BY SMTT(60), <1>1 DEF AdminTypeOK, Settings
<1>7. PICK q \in Proposal : /\ q.proposer = p.proposer /\ q.signers = p.signers
                           /\ Put(id, q)
                           /\ UNCHANGED <<lockVars, forkEndTimestamp>>
  <2>1. CASE Put(id, castVoteDuringVotingPeriod(p, a, support, votes))
    <3> DEFINE r == Counted(p, a, support, votes)
               q == castVoteDuringVotingPeriod(p, a, support, votes)
    <3>1. r \in Proposal /\ r.proposer = p.proposer /\ r.signers = p.signers
      BY SMTT(60), <1>3, <1>4, CountedType
    <3>2. q = r \/ q = [r EXCEPT !.objectionPeriodEndBlock =
                              p.endBlock + ds.objectionPeriodDurationInBlocks]
      BY DEF castVoteDuringVotingPeriod
    <3>3. p.endBlock + ds.objectionPeriodDurationInBlocks \in Nat
      BY <1>3, <1>6 DEF Proposal
    <3> HIDE DEF r, q
    <3>4. q \in Proposal /\ q.proposer = r.proposer /\ q.signers = r.signers
      BY SMTT(60), <3>1, <3>2, <3>3 DEF Proposal
    <3>5. QED
      BY SMTT(60), <1>2, <2>1, <3>1, <3>4 DEF CastVote, q
  <2>2. CASE Put(id, Counted(p, a, 0, votes))
    <3>1. Counted(p, a, 0, votes) \in Proposal
          /\ Counted(p, a, 0, votes).proposer = p.proposer
          /\ Counted(p, a, 0, votes).signers = p.signers
      <4>1. 0 \in 0 .. 2
        BY SMTT(60)
      <4> HIDE DEF p, votes
      <4>2. QED
        BY SMTT(60), <1>3, <1>4, <4>1, CountedType
    <3>2. QED
      BY SMTT(60), <1>2, <2>2, <3>1 DEF CastVote
  <2>3. QED
    BY SMTT(60), <1>2, <2>1, <2>2 DEF CastVote
<1>8. GovernorTypes' /\ BackersRemembered'
  <2>1. Backers(q) = Backers(p)
    BY SMTT(60), <1>7 DEF Backers
  <2>2. QED
    BY SMTT(60), <1>1, <1>5, <1>7, <2>1, PutStep
<1>9. LockTypes'
  BY SMTT(60), <1>1, <1>7 DEF LockTypes, lockVars
<1>10. QED
  BY <1>8, <1>9

\* The entries of a proposal in a timelock
LEMMA EntriesType ==
    ASSUME NEW p \in Proposal, NEW eta \in Nat
    PROVE  Entries(p, eta) \subseteq Calls \X Nat /\ ToSet(p.txs) \subseteq Calls
<1>1. p.txs \in Contents
  BY SMTT(60) DEF Proposal
<1>2. ToSet(p.txs) \subseteq Calls
  BY SMTT(60), <1>1 DEF Calls
<1>3. QED
  BY SMTT(60), <1>2 DEF Entries

\* Raising a flag of a proposal or setting its eta: the backers stay, and it
\* does not open again.
LEMMA FlagType ==
    ASSUME NEW p \in Proposal, NEW eta \in Nat, NEW q,
           \/ q = [p EXCEPT !.eta = eta]
           \/ q = [p EXCEPT !.executed = TRUE]
           \/ q = [p EXCEPT !.vetoed = TRUE]
           \/ q = [p EXCEPT !.canceled = TRUE]
    PROVE  q \in Proposal /\ Backers(q) = Backers(p) /\ (Open(q) => Open(p))
<1>1. q \in Proposal
  <2>1. CASE q = [p EXCEPT !.eta = eta]
    BY SMTT(60), <2>1 DEF Proposal
  <2>2. CASE q = [p EXCEPT !.executed = TRUE]
    BY ZenonT(60), <2>2 DEF Proposal
  <2>3. CASE q = [p EXCEPT !.vetoed = TRUE]
    BY ZenonT(60), <2>3 DEF Proposal
  <2>4. CASE q = [p EXCEPT !.canceled = TRUE]
    BY ZenonT(60), <2>4 DEF Proposal
  <2>5. QED
    BY SMTT(60), <2>1, <2>2, <2>3, <2>4
<1>2. /\ q.proposer = p.proposer /\ q.signers = p.signers
      /\ p.vetoed => q.vetoed
      /\ p.canceled => q.canceled
      /\ q.updatePeriodEndBlock = p.updatePeriodEndBlock /\ q.startBlock = p.startBlock
      /\ q.endBlock = p.endBlock /\ q.objectionPeriodEndBlock = p.objectionPeriodEndBlock
  BY DEF Proposal
<1>3. QED
  BY SMTT(60), <1>1, <1>2 DEF Backers, Open

\* Queueing, executing, vetoing, cancelling
LEMMA FinishingStep ==
    ASSUME IInv, Finishing
    PROVE  GovernorTypes' /\ LockTypes' /\ BackersRemembered'
<1>1. AdminTypeOK /\ GovernorTypes /\ LockTypes /\ BackersRemembered
  BY TypeParts DEF IInv
<1>2. PICK id \in Ids :
         \/ Queue(id) \/ Execute(id) \/ ExecuteOnTimelockV1(id) \/ Veto(id)
         \/ \E a \in Accounts : Cancel(a, id)
  BY SMTT(60) DEF Finishing
<1> DEFINE p == proposals[id]
<1>3. p \in Proposal /\ p.eta \in Nat /\ now \in Nat
  BY ZenonT(60), <1>1, ProposalType DEF Proposal, GovernorTypes
<1>4. getProposalTimelock(p) \in Timelocks \cup {ZERO} /\ timelockV1 \in Timelocks \cup {ZERO}
  BY <1>1 DEF getProposalTimelock, AdminTypeOK
<1>5. ASSUME NEW eta \in Nat, NEW q, Put(id, q),
             \/ q = [p EXCEPT !.eta = eta] \/ q = [p EXCEPT !.executed = TRUE]
             \/ q = [p EXCEPT !.vetoed = TRUE] \/ q = [p EXCEPT !.canceled = TRUE]
      PROVE  GovernorTypes' /\ BackersRemembered'
  <2>1. q \in Proposal /\ Backers(q) = Backers(p) /\ (Open(q) => Open(p))
    BY SMTT(60), <1>3, <1>5, FlagType
  <2>2. QED
    BY <1>1, <1>5, <2>1, PutStep
<1>6. ASSUME Unqueue(p), UNCHANGED forkEndTimestamp PROVE LockTypes'
  BY ZenonT(60), <1>1, <1>6 DEF Unqueue, LockTypes
<1>7. ASSUME NEW tl \in Timelocks \cup {ZERO}, executeInternal(id, tl)
      PROVE  GovernorTypes' /\ LockTypes' /\ BackersRemembered'
  <2>1. GovernorTypes' /\ BackersRemembered'
    BY <1>3, <1>5, <1>7 DEF executeInternal
  <2>2. {<<c, p.eta, now>> : c \in ToSet(p.txs)} \subseteq Calls \X Nat \X Nat
    BY SMTT(60), <1>3, EntriesType
  <2>3. LockTypes'
    BY SMTT(60), <1>1, <1>7, <2>2 DEF executeInternal, LockTypes
  <2>4. QED
    BY <2>1, <2>3
<1>8. CASE Queue(id)
  <2> DEFINE tl == getProposalTimelock(p)
             eta == now + Delay[tl]
  <2>1. tl \in Timelocks
    BY SMTT(60), <1>4, <1>8 DEF Queue
  <2>2. eta \in Nat
    BY SMTT(60), <1>3, <2>1, GovernorConstants
  <2>3. GovernorTypes' /\ BackersRemembered'
    BY SMTT(60), <1>5, <1>8, <2>2 DEF Queue
  <2>4. LockTypes'
    <3>1. Entries(p, eta) \subseteq Calls \X Nat
      BY SMTT(60), <1>3, <2>2, EntriesType
    <3>2. queuedTransactions' = [queuedTransactions EXCEPT ![tl] = @ \cup Entries(p, eta)]
          /\ UNCHANGED <<performed, forkEndTimestamp>>
      BY SMTT(60), <1>8 DEF Queue
    <3> HIDE DEF p, tl, eta
    <3>3. QED
      BY SMTT(60), <1>1, <2>1, <3>1, <3>2 DEF LockTypes
  <2>5. QED
    BY SMTT(60), <2>3, <2>4
<1>9. CASE Veto(id)
  BY SMTT(60), <1>3, <1>5, <1>6, <1>9 DEF Veto
<1>10. ASSUME NEW a \in Accounts, Cancel(a, id)
       PROVE  GovernorTypes' /\ LockTypes' /\ BackersRemembered'
  BY SMTT(60), <1>3, <1>5, <1>6, <1>10 DEF Cancel
<1>11. QED
  BY <1>2, <1>4, <1>7, <1>8, <1>9, <1>10 DEF Execute, ExecuteOnTimelockV1

\* The initial state satisfies the inductive invariant.
LEMMA InitIInv == Init => IInv
<1> SUFFICES ASSUME Init PROVE IInv
  BY SMTT(60)
<1>1. now = 1 /\ proposalCount = 0
  BY SMTT(60) DEF Init
<1>2. AdminInv
  BY SMTT(60), <1>1, AdminInitInv DEF Init
<1>3. GovernorTypes
  BY SMTT(60), GovernorConstants DEF Init, GovernorTypes
<1>4. LockTypes
  BY SMTT(60) DEF Init, LockTypes
<1>5. BackersRemembered /\ NoClaimOnBurntVeto
  BY SMTT(60) DEF Init, AdminInit, BackersRemembered, Ids, NoClaimOnBurntVeto
<1>6. QED
  BY SMTT(60), <1>2, <1>3, <1>4, <1>5, TypeParts DEF IInv, AdminInv

\* The admin's variables change only when the admin, the vetoer or one of
\* their successors calls.
LEMMA AdminUntouched ==
    ASSUME Proposing \/ Updating \/ Voting \/ Finishing \/ StartFork
    PROVE  UNCHANGED <<adminVars, now>> /\ proposalCount' \in {proposalCount, proposalCount + 1}
BY ZenonT(60)
   DEF Proposing, Updating, Voting, Finishing, StartFork, Propose, ProposeBySigs, AddProposal,
       CancelSig, UpdateProposal, UpdateProposalBySigs, CastVote, Queue, Execute,
       ExecuteOnTimelockV1, executeInternal, Veto, Cancel, Put, daoVars

\* Every step preserves the inductive invariant.
LEMMA NextIInv == IInv /\ [Next]_vars => IInv'
<1> SUFFICES ASSUME IInv, [Next]_vars PROVE IInv'
  OBVIOUS
<1>1. AdminTypeOK /\ GovernorTypes /\ LockTypes /\ BackersRemembered
      /\ AdminInv /\ NoClaimOnBurntVeto
  BY TypeParts DEF IInv
<1>2. ASSUME UNCHANGED adminVars, now' \in Nat, now' >= now, proposalCount' \in Nat
      PROVE  AdminInv' /\ NoClaimOnBurntVeto'
  <2>1. \A i \in 1 .. Len(quorumParamsCheckpoints) : quorumParamsCheckpoints[i].fromBlock \in Nat
    <3> SUFFICES ASSUME NEW i \in 1 .. Len(quorumParamsCheckpoints)
                 PROVE  quorumParamsCheckpoints[i].fromBlock \in Nat
      BY SMTT(60)
    <3>1. quorumParamsCheckpoints[i] \in [fromBlock : Nat, params : QuorumParams]
      BY ZenonT(60), <1>1, ElementOf DEF AdminTypeOK
    <3>2. QED
      BY SMTT(60), <3>1
  <2>2. CheckpointsUpToNow'
    BY <1>1, <1>2, <2>1 DEF AdminInv, CheckpointsUpToNow, adminVars
  <2>3. QED
    BY SMTT(60), <1>1, <1>2, <2>2
       DEF AdminInv, AdminTypeOK, QuorumParamsConsistent, NoClaimOnBurntVeto,
                            adminVars, roles
<1>3. ASSUME GovernorTypes', LockTypes', BackersRemembered', AdminInv', NoClaimOnBurntVeto'
      PROVE  IInv'
  BY SMTT(60), <1>3, TypeParts DEF IInv, TypeOK, GovernorTypes, LockTypes, AdminInv
<1>4. CASE Proposing \/ Updating \/ Voting \/ Finishing
  <2>1. GovernorTypes' /\ LockTypes' /\ BackersRemembered'
    BY SMTT(60), <1>4, ProposingStep, UpdatingStep, VotingStep, FinishingStep
  <2>2. UNCHANGED <<adminVars, now>> /\ proposalCount' \in Nat
    BY SMTT(60), <1>1, <1>4, AdminUntouched DEF AdminInv
  <2>3. now' \in Nat /\ now' >= now
    BY SMTT(60), <1>1, <2>2 DEF AdminInv
  <2>4. QED
    BY SMTT(60), <1>2, <1>3, <2>1, <2>2, <2>3
<1>5. ASSUME UNCHANGED daoVars, UNCHANGED votesAt, LockTypes', now' \in Nat \ {0},
             now' <= MaxTime, now' >= now
      PROVE  GovernorTypes' /\ BackersRemembered'
  <2>1. GovernorTypes'
    BY SMTT(60), <1>1, <1>5 DEF GovernorTypes, daoVars
  <2>2. ASSUME NEW id \in Ids, Open(proposals[id])' PROVE Open(proposals[id])
    <3>1. proposals[id] \in Proposal
      BY SMTT(60), <1>1, ProposalType
    <3>2. /\ proposals[id].updatePeriodEndBlock \in Nat /\ proposals[id].startBlock \in Nat
          /\ proposals[id].endBlock \in Nat /\ proposals[id].objectionPeriodEndBlock \in Nat
          /\ now \in Nat
      BY ZenonT(60), <1>1, <3>1 DEF Proposal, GovernorTypes
    <3>3. UNCHANGED proposals
      BY <1>5 DEF daoVars
    <3>4. QED
      BY SMTT(60), <1>5, <2>2, <3>2, <3>3 DEF Open
  <2>3. BackersRemembered'
    BY <1>1, <1>5, <2>2 DEF BackersRemembered, Ids, Backers, daoVars
  <2>4. QED
    BY SMTT(60), <2>1, <2>3
<1>6. CASE StartFork
  <2>1. forkEndTimestamp' \in Nat
    BY SMTT(60), <1>1, <1>6 DEF StartFork, AdminTypeOK, Settings, GovernorTypes
  <2>2. UNCHANGED <<adminVars, now, votesAt, daoVars, lockVars>>
    BY <1>6 DEF StartFork
  <2>3. LockTypes' /\ now' \in Nat \ {0} /\ now' <= MaxTime /\ now' >= now
    BY SMTT(60), <1>1, <2>1, <2>2 DEF LockTypes, lockVars, GovernorTypes
  <2>4. proposalCount' \in Nat
    BY SMTT(60), <1>1, <2>2 DEF AdminInv, daoVars
  <2>5. QED
    BY SMTT(60), <1>2, <1>3, <1>5, <2>2, <2>3, <2>4
<1>7. CASE Tick
  <2>1. UNCHANGED <<adminVars, votesAt, daoVars, lockVars, forkEndTimestamp>>
        /\ now' = now + 1 /\ now < MaxTime
    BY SMTT(60), <1>7 DEF Tick
  <2>2. LockTypes' /\ now' \in Nat \ {0} /\ now' <= MaxTime /\ now' >= now
    BY SMTT(60), <1>1, <2>1, GovernorConstants DEF LockTypes, lockVars, GovernorTypes
  <2>3. proposalCount' \in Nat
    BY SMTT(60), <1>1, <2>1 DEF AdminInv, daoVars
  <2>4. QED
    BY SMTT(60), <1>2, <1>3, <1>5, <2>1, <2>2, <2>3
<1>8. CASE Administer
  <2>1. AdminNext /\ UNCHANGED <<now, votesAt, daoVars, lockVars, forkEndTimestamp>>
    BY SMTT(60), <1>8 DEF Administer
  <2>2. UNCHANGED proposalCount
    BY SMTT(60), <2>1 DEF daoVars
  <2>3. AdminInv' /\ NoClaimOnBurntVeto'
    BY SMTT(60), <1>1, <2>1, <2>2, AdminNextStep, VetoStep
  <2>4. LockTypes' /\ now' \in Nat \ {0} /\ now' <= MaxTime /\ now' >= now
    BY SMTT(60), <1>1, <2>1 DEF LockTypes, lockVars, GovernorTypes
  <2>5. QED
    BY SMTT(60), <1>3, <1>5, <2>1, <2>3, <2>4
<1>9. CASE UNCHANGED vars
  <2>1. UNCHANGED <<adminVars, now, votesAt, daoVars, lockVars, forkEndTimestamp>>
    BY SMTT(60), <1>9 DEF vars
  <2>2. LockTypes' /\ now' \in Nat \ {0} /\ now' <= MaxTime /\ now' >= now
    BY SMTT(60), <1>1, <2>1 DEF LockTypes, lockVars, GovernorTypes
  <2>3. proposalCount' \in Nat
    BY SMTT(60), <1>1, <2>1 DEF AdminInv, daoVars
  <2>4. QED
    BY SMTT(60), <1>2, <1>3, <1>5, <2>1, <2>2, <2>3
<1>10. QED
  BY <1>4, <1>6, <1>7, <1>8, <1>9 DEF Next

\* The inductive invariant holds in every reachable state.
THEOREM Invariance == Spec => []IInv
BY InitIInv, NextIInv, PTL DEF Spec

\* The governor's state keeps its types and the settings their bounds.
THEOREM GovernorTypesHold == Spec => []TypeOK
<1>1. IInv => TypeOK
  BY SMTT(60) DEF IInv
<1>2. QED
  BY Invariance, <1>1, PTL

\* "limit the number of proposals each noun can back" (checkNoActiveProp): no
\* account is the proposer or a signer of two live proposals.
THEOREM BackersAreSingle == Spec => []OneLiveProposal
<1>1. IInv => OneLiveProposal
  BY SMTT(60), RememberedOnce DEF IInv
<1>2. QED
  BY Invariance, <1>1, PTL

\* The quorum parameters of every block are consistent.
THEOREM QuorumIsConsistent == Spec => []QuorumParamsConsistent
<1>1. IInv => QuorumParamsConsistent
  BY SMTT(60) DEF IInv, AdminInv
<1>2. QED
  BY Invariance, <1>1, PTL

\* The quorum parameters of a block that is over never change.
THEOREM PastQuorumIsFixed == Spec => PastQuorumFixed
<1>1. IInv /\ IInv' /\ [Next]_vars =>
        [\A b \in quorumParamsCheckpoints[1].fromBlock .. (now - 1) :
            getDynamicQuorumParamsAt(b)' = getDynamicQuorumParamsAt(b)]_<<adminVars, now>>
  <2> SUFFICES ASSUME IInv, IInv', [Next]_vars,
                      NEW b \in quorumParamsCheckpoints[1].fromBlock .. (now - 1)
               PROVE  getDynamicQuorumParamsAt(b)' = getDynamicQuorumParamsAt(b)
    BY SMTT(60)
  <2>1. CASE UNCHANGED adminVars
    BY SMTT(60), <2>1 DEF adminVars, getDynamicQuorumParamsAt
  <2>2. CASE Administer
    <3>1. AdminNext /\ UNCHANGED <<now, proposalCount>>
      BY SMTT(60), <2>2 DEF Administer, daoVars
    <3>2. QED
      BY SMTT(60), <3>1, PastIsFixed DEF IInv, AdminInv
  <2>3. CASE Tick \/ UNCHANGED vars
    <3>1. UNCHANGED adminVars
      BY SMTT(60), <2>3 DEF Tick, vars
    <3>2. QED
      BY SMTT(60), <2>1, <3>1
  <2>4. QED
    BY SMTT(60), <2>1, <2>2, <2>3, AdminUntouched DEF Next
<1>2. QED
  BY Invariance, <1>1, PTL DEF Spec, PastQuorumFixed

\* "destroying veto power forever" (_burnVetoPower)
THEOREM VetoStaysBurnt == Spec => VetoBurntForever
<1>1. IInv /\ [Next]_vars => [vetoer = ZERO => vetoer' = ZERO]_<<adminVars, now>>
  <2> SUFFICES ASSUME IInv, [Next]_vars, vetoer = ZERO PROVE vetoer' = ZERO
    BY SMTT(60)
  <2>1. CASE UNCHANGED adminVars
    BY SMTT(60), <2>1 DEF adminVars, roles
  <2>2. CASE Administer
    BY SMTT(60), <2>2, VetoStep DEF Administer, IInv
  <2>3. CASE Tick \/ UNCHANGED vars
    <3>1. UNCHANGED adminVars
      BY SMTT(60), <2>3 DEF Tick, vars
    <3>2. QED
      BY SMTT(60), <2>1, <3>1
  <2>4. QED
    BY SMTT(60), <2>1, <2>2, <2>3, AdminUntouched DEF Next
<1>2. QED
  BY Invariance, <1>1, PTL DEF Spec, VetoBurntForever

===============================================================================
