---------------------------- MODULE NounsDAOAdmin ----------------------------
(***************************************************************************)
(* The settings and the roles of the governor: bounded parameters, the     *)
(* history of the dynamic quorum parameters, the vote snapshot switch, the *)
(* two-step hand-over of the admin and of the vetoer, and the timelocks.   *)
(*                                                                         *)
(* Sources: NounsDAOV3Admin.sol; getDynamicQuorumParamsAt is from          *)
(* NounsDAOV3DynamicQuorum.sol.  The binary search there is the subject of *)
(* CheckpointSearch; here it is replaced by what it finds.                 *)
(*                                                                         *)
(* The admin is the timelock, so that its calls are steps of proposals     *)
(* that are executed; here they may come at any time.                      *)
(***************************************************************************)
EXTENDS Integers, Sequences

CONSTANTS
    Accounts,       \* the addresses that hold a role
    ZERO,           \* address(0)
    Timelocks,      \* the timelocks deployed
    MIN_VOTING_PERIOD_BLOCKS, MAX_VOTING_PERIOD_BLOCKS,
    MIN_VOTING_DELAY_BLOCKS, MAX_VOTING_DELAY_BLOCKS,
    MAX_OBJECTION_PERIOD_BLOCKS, MAX_UPDATABLE_PERIOD_BLOCKS,
    MIN_FORK_PERIOD, MAX_FORK_PERIOD,
    Asked,          \* Asked.x: the values asked for in _setX; Asked.calls: the calls
                    \* without arguments that are made, "switch" and "burn"
    Deployed,       \* the settings the DAO is deployed with,
    DeployedQuorum, \* the quorum parameters
    DeployedVetoer, \* and the vetoer
    MaxCheckpoints  \* bound: quorum checkpoints

MIN_PROPOSAL_THRESHOLD_BPS == 1
MAX_PROPOSAL_THRESHOLD_BPS == 1000
MIN_QUORUM_VOTES_BPS_LOWER_BOUND == 200
MIN_QUORUM_VOTES_BPS_UPPER_BOUND == 2000
MAX_QUORUM_VOTES_BPS_UPPER_BOUND == 6000

VARIABLES
    ds,                         \* the settings
    admin, pendingAdmin,
    vetoer, pendingVetoer,
    timelock, timelockV1,
    quorumParamsCheckpoints,    \* sequence of [fromBlock, params]
    voteSnapshotBlockSwitchProposalId,
    proposalCount,
    now                         \* block.number and block.timestamp

roles == <<admin, pendingAdmin, vetoer, pendingVetoer>>
adminVars == <<ds, roles, timelock, timelockV1, quorumParamsCheckpoints,
               voteSnapshotBlockSwitchProposalId>>

------------------------------------------------------------------------------
(* The bounds                                                              *)

Within(lo, v, hi) == lo <= v /\ v <= hi

ValidSettings(s) ==
    /\ Within(MIN_VOTING_DELAY_BLOCKS, s.votingDelay, MAX_VOTING_DELAY_BLOCKS)
    /\ Within(MIN_VOTING_PERIOD_BLOCKS, s.votingPeriod, MAX_VOTING_PERIOD_BLOCKS)
    /\ Within(MIN_PROPOSAL_THRESHOLD_BPS, s.proposalThresholdBPS, MAX_PROPOSAL_THRESHOLD_BPS)
    /\ s.objectionPeriodDurationInBlocks <= MAX_OBJECTION_PERIOD_BLOCKS
    /\ s.proposalUpdatablePeriodInBlocks <= MAX_UPDATABLE_PERIOD_BLOCKS
    /\ s.forkPeriod = 0 \/ Within(MIN_FORK_PERIOD, s.forkPeriod, MAX_FORK_PERIOD)

Settings == [votingDelay : Nat, votingPeriod : Nat, proposalThresholdBPS : Nat,
             objectionPeriodDurationInBlocks : Nat, lastMinuteWindowInBlocks : Nat,
             proposalUpdatablePeriodInBlocks : Nat, forkPeriod : Nat,
             forkThresholdBPS : Nat]

QuorumParams == [minQuorumVotesBPS : Nat, maxQuorumVotesBPS : Nat, quorumCoefficient : Nat]

ValidQuorum(p) ==
    /\ Within(MIN_QUORUM_VOTES_BPS_LOWER_BOUND, p.minQuorumVotesBPS,
              MIN_QUORUM_VOTES_BPS_UPPER_BOUND)
    /\ p.maxQuorumVotesBPS <= MAX_QUORUM_VOTES_BPS_UPPER_BOUND
    /\ p.minQuorumVotesBPS <= p.maxQuorumVotesBPS

ASSUME AdminConstants ==
    /\ ZERO \notin Accounts /\ ZERO \notin Timelocks
    /\ Deployed \in Settings /\ ValidSettings(Deployed)
    /\ DeployedQuorum \in QuorumParams /\ ValidQuorum(DeployedQuorum)
    /\ DeployedVetoer \in Accounts \cup {ZERO}
    /\ MaxCheckpoints \in Nat
    /\ Asked \in [votingDelay : SUBSET Nat, votingPeriod : SUBSET Nat,
                  proposalThresholdBPS : SUBSET Nat,
                  objectionPeriodDurationInBlocks : SUBSET Nat,
                  lastMinuteWindowInBlocks : SUBSET Nat,
                  proposalUpdatablePeriodInBlocks : SUBSET Nat,
                  forkPeriod : SUBSET Nat, forkThresholdBPS : SUBSET Nat,
                  minQuorumVotesBPS : SUBSET Nat, maxQuorumVotesBPS : SUBSET Nat,
                  quorumCoefficient : SUBSET Nat,
                  timelocks : SUBSET (Timelocks \X Timelocks \X (Accounts \cup Timelocks)),
                  admins : SUBSET (Accounts \cup Timelocks \cup {ZERO}),
                  vetoers : SUBSET (Accounts \cup {ZERO}),
                  calls : SUBSET {"switch", "burn"}]

AdminInit ==
    /\ ds = Deployed
    /\ admin \in Timelocks /\ pendingAdmin = ZERO
    /\ vetoer = DeployedVetoer /\ pendingVetoer = ZERO
    /\ timelock = admin /\ timelockV1 = ZERO
    /\ quorumParamsCheckpoints = << [fromBlock |-> now, params |-> DeployedQuorum] >>
    /\ voteSnapshotBlockSwitchProposalId = 0

------------------------------------------------------------------------------
(* The settings, by the admin                                              *)

Set(s) ==
    /\ ds' = s
    /\ UNCHANGED <<roles, timelock, timelockV1, quorumParamsCheckpoints,
                   voteSnapshotBlockSwitchProposalId>>

SetVotingDelay ==
    \E v \in Asked.votingDelay :
        /\ Within(MIN_VOTING_DELAY_BLOCKS, v, MAX_VOTING_DELAY_BLOCKS)
        /\ Set([ds EXCEPT !.votingDelay = v])

\* Mutant: a voting period below the minimum is accepted.
SetVotingPeriodUnchecked ==
    \E v \in Asked.votingPeriod :
        /\ v <= MAX_VOTING_PERIOD_BLOCKS
        /\ Set([ds EXCEPT !.votingPeriod = v])

SetVotingPeriod ==
    \E v \in Asked.votingPeriod :
        /\ Within(MIN_VOTING_PERIOD_BLOCKS, v, MAX_VOTING_PERIOD_BLOCKS)
        /\ Set([ds EXCEPT !.votingPeriod = v])

SetProposalThresholdBPS ==
    \E v \in Asked.proposalThresholdBPS :
        /\ Within(MIN_PROPOSAL_THRESHOLD_BPS, v, MAX_PROPOSAL_THRESHOLD_BPS)
        /\ Set([ds EXCEPT !.proposalThresholdBPS = v])

SetObjectionPeriodDurationInBlocks ==
    \E v \in Asked.objectionPeriodDurationInBlocks :
        /\ v <= MAX_OBJECTION_PERIOD_BLOCKS
        /\ Set([ds EXCEPT !.objectionPeriodDurationInBlocks = v])

SetLastMinuteWindowInBlocks ==
    \E v \in Asked.lastMinuteWindowInBlocks : Set([ds EXCEPT !.lastMinuteWindowInBlocks = v])

SetProposalUpdatablePeriodInBlocks ==
    \E v \in Asked.proposalUpdatablePeriodInBlocks :
        /\ v <= MAX_UPDATABLE_PERIOD_BLOCKS
        /\ Set([ds EXCEPT !.proposalUpdatablePeriodInBlocks = v])

SetForkPeriod ==
    \E v \in Asked.forkPeriod :
        /\ Within(MIN_FORK_PERIOD, v, MAX_FORK_PERIOD)
        /\ Set([ds EXCEPT !.forkPeriod = v])

SetForkThresholdBPS ==
    \E v \in Asked.forkThresholdBPS : Set([ds EXCEPT !.forkThresholdBPS = v])

SetParams ==
    \/ SetVotingDelay \/ SetVotingPeriod \/ SetProposalThresholdBPS
    \/ SetObjectionPeriodDurationInBlocks \/ SetLastMinuteWindowInBlocks
    \/ SetProposalUpdatablePeriodInBlocks \/ SetForkPeriod \/ SetForkThresholdBPS

------------------------------------------------------------------------------
(* The dynamic quorum parameters                                           *)

\* The checkpoints at or before block b
CheckpointsUpTo(cs, b) == {i \in 1 .. Len(cs) : cs[i].fromBlock <= b}

LastUpTo(cs, b) == CHOOSE i \in CheckpointsUpTo(cs, b) : \A j \in CheckpointsUpTo(cs, b) : j <= i

\* A DAO deployed as V3 writes its first checkpoint in initialize, so that
\* the values of V2 (quorumVotesBPS) are never asked for.
getDynamicQuorumParamsAt(b) ==
    quorumParamsCheckpoints[LastUpTo(quorumParamsCheckpoints, b)].params

\* Mutant: the last checkpoint is overwritten also when it is older.
writeQuorumParamsCheckpointInPlace(params) ==
    LET cs == quorumParamsCheckpoints IN
    /\ quorumParamsCheckpoints' = [cs EXCEPT ![Len(cs)] = [fromBlock |-> @.fromBlock,
                                                           params |-> params]]
    /\ UNCHANGED <<ds, roles, timelock, timelockV1, voteSnapshotBlockSwitchProposalId>>

writeQuorumParamsCheckpoint(params) ==
    LET cs == quorumParamsCheckpoints IN
    /\ IF cs[Len(cs)].fromBlock = now
       THEN quorumParamsCheckpoints' = [cs EXCEPT ![Len(cs)] = [fromBlock |-> now,
                                                                params |-> params]]
       ELSE /\ Len(cs) < MaxCheckpoints
            /\ quorumParamsCheckpoints' = Append(cs, [fromBlock |-> now, params |-> params])
    /\ UNCHANGED <<ds, roles, timelock, timelockV1, voteSnapshotBlockSwitchProposalId>>

SetMinQuorumVotesBPS ==
    \E v \in Asked.minQuorumVotesBPS :
        LET params == getDynamicQuorumParamsAt(now) IN
        /\ Within(MIN_QUORUM_VOTES_BPS_LOWER_BOUND, v, MIN_QUORUM_VOTES_BPS_UPPER_BOUND)
        /\ v <= params.maxQuorumVotesBPS
        /\ writeQuorumParamsCheckpoint([params EXCEPT !.minQuorumVotesBPS = v])

\* Mutant: the new maximum is compared with the bound and not the minimum.
SetMaxQuorumVotesBPSBelowMin ==
    \E v \in Asked.maxQuorumVotesBPS :
        LET params == getDynamicQuorumParamsAt(now) IN
        /\ v <= MAX_QUORUM_VOTES_BPS_UPPER_BOUND
        /\ writeQuorumParamsCheckpoint([params EXCEPT !.maxQuorumVotesBPS = v])

SetMaxQuorumVotesBPS ==
    \E v \in Asked.maxQuorumVotesBPS :
        LET params == getDynamicQuorumParamsAt(now) IN
        /\ v <= MAX_QUORUM_VOTES_BPS_UPPER_BOUND
        /\ params.minQuorumVotesBPS <= v
        /\ writeQuorumParamsCheckpoint([params EXCEPT !.maxQuorumVotesBPS = v])

SetQuorumCoefficient ==
    \E v \in Asked.quorumCoefficient :
        writeQuorumParamsCheckpoint([getDynamicQuorumParamsAt(now) EXCEPT !.quorumCoefficient = v])

SetDynamicQuorumParams ==
    \E p \in [minQuorumVotesBPS : Asked.minQuorumVotesBPS,
              maxQuorumVotesBPS : Asked.maxQuorumVotesBPS,
              quorumCoefficient : Asked.quorumCoefficient] :
        /\ ValidQuorum(p)
        /\ writeQuorumParamsCheckpoint(p)

SetQuorum ==
    \/ SetMinQuorumVotesBPS \/ SetMaxQuorumVotesBPS
    \/ SetQuorumCoefficient \/ SetDynamicQuorumParams

------------------------------------------------------------------------------
(* The snapshot switch, the timelocks and the roles                        *)

\* Mutant: the switch concerns the latest proposal, too.
SetVoteSnapshotBlockSwitchProposalIdEarly ==
    /\ "switch" \in Asked.calls
    /\ voteSnapshotBlockSwitchProposalId = 0
    /\ voteSnapshotBlockSwitchProposalId' = proposalCount
    /\ UNCHANGED <<ds, roles, timelock, timelockV1, quorumParamsCheckpoints>>

SetVoteSnapshotBlockSwitchProposalId ==
    /\ "switch" \in Asked.calls
    /\ voteSnapshotBlockSwitchProposalId = 0
    /\ voteSnapshotBlockSwitchProposalId' = proposalCount + 1
    /\ UNCHANGED <<ds, roles, timelock, timelockV1, quorumParamsCheckpoints>>

SetTimelocksAndAdmin ==
    /\ \E t \in Asked.timelocks : timelock' = t[1] /\ timelockV1' = t[2] /\ admin' = t[3]
    /\ UNCHANGED <<ds, pendingAdmin, vetoer, pendingVetoer, quorumParamsCheckpoints,
                   voteSnapshotBlockSwitchProposalId>>

RestUnchanged == UNCHANGED <<ds, timelock, timelockV1, quorumParamsCheckpoints,
                             voteSnapshotBlockSwitchProposalId>>

SetPendingAdmin ==
    /\ pendingAdmin' \in Asked.admins
    /\ UNCHANGED <<admin, vetoer, pendingVetoer>> /\ RestUnchanged

AcceptAdmin(sender) ==
    /\ sender = pendingAdmin /\ sender # ZERO
    /\ admin' = pendingAdmin /\ pendingAdmin' = ZERO
    /\ UNCHANGED <<vetoer, pendingVetoer>> /\ RestUnchanged

SetPendingVetoer(sender) ==
    /\ sender = vetoer
    /\ pendingVetoer' \in Asked.vetoers
    /\ UNCHANGED <<admin, pendingAdmin, vetoer>> /\ RestUnchanged

AcceptVetoer(sender) ==
    /\ sender = pendingVetoer
    /\ vetoer' = pendingVetoer /\ pendingVetoer' = ZERO
    /\ UNCHANGED <<admin, pendingAdmin>> /\ RestUnchanged

\* Mutant: the pending vetoer keeps their claim.
BurnVetoPowerKeepsPending(sender) ==
    /\ "burn" \in Asked.calls
    /\ sender = vetoer
    /\ vetoer' = ZERO
    /\ UNCHANGED <<admin, pendingAdmin, pendingVetoer>> /\ RestUnchanged

BurnVetoPower(sender) ==
    /\ "burn" \in Asked.calls
    /\ sender = vetoer
    /\ vetoer' = ZERO /\ pendingVetoer' = ZERO
    /\ UNCHANGED <<admin, pendingAdmin>> /\ RestUnchanged

\* What the admin may do; nobody can do it once the admin is address(0).
AdminCall ==
    /\ admin # ZERO
    /\ \/ SetParams \/ SetQuorum \/ SetVoteSnapshotBlockSwitchProposalId
       \/ SetTimelocksAndAdmin \/ SetPendingAdmin

HandOver ==
    \/ \E a \in Accounts \cup Timelocks : AcceptAdmin(a)
    \/ \E a \in Accounts : SetPendingVetoer(a) \/ AcceptVetoer(a) \/ BurnVetoPower(a)

AdminNext == AdminCall \/ HandOver

------------------------------------------------------------------------------
(* Properties                                                              *)

\* The settings are within the bounds of NounsDAOV3Admin.sol; the fork period
\* is zero until it is first set.
AdminTypeOK ==
    /\ ds \in Settings /\ ValidSettings(ds)
    /\ admin \in Accounts \cup Timelocks \cup {ZERO}
    /\ pendingAdmin \in Accounts \cup Timelocks \cup {ZERO}
    /\ vetoer \in Accounts \cup {ZERO} /\ pendingVetoer \in Accounts \cup {ZERO}
    /\ timelock \in Timelocks /\ timelockV1 \in Timelocks \cup {ZERO}
    /\ quorumParamsCheckpoints \in Seq([fromBlock : Nat, params : QuorumParams])
    /\ voteSnapshotBlockSwitchProposalId \in Nat

\* The quorum parameters in force at any block are consistent, although min,
\* max and coefficient are set one by one on top of what is in force.
QuorumParamsConsistent ==
    \A i \in 1 .. Len(quorumParamsCheckpoints) :
        ValidQuorum(quorumParamsCheckpoints[i].params)

\* The parameters in force at a block that is over never change: the quorum
\* of a proposal, which depends on those of its creation block, is fixed.
PastQuorumFixed ==
    [][\A b \in quorumParamsCheckpoints[1].fromBlock .. (now - 1) :
          getDynamicQuorumParamsAt(b)' = getDynamicQuorumParamsAt(b)]_<<adminVars, now>>

\* "destroying veto power forever" (_burnVetoPower), also when a hand-over
\* of the role was under way.
VetoBurntForever == [][vetoer = ZERO => vetoer' = ZERO]_<<adminVars, now>>

==============================================================================
