------------------------- MODULE NounsDAOAdminProofs -------------------------
(***************************************************************************)
(* The settings stay within their bounds, the quorum parameters stay       *)
(* consistent and those of the past are fixed, for every choice of bounds. *)
(***************************************************************************)
EXTENDS NounsDAOAdmin, NaturalOrder

\* There is a checkpoint, and none is in the future.
CheckpointsUpToNow ==
    /\ Len(quorumParamsCheckpoints) > 0
    /\ \A i \in 1 .. Len(quorumParamsCheckpoints) : quorumParamsCheckpoints[i].fromBlock <= now

\* QuorumParamsConsistent alone is not inductive: a setter starts from the
\* parameters in force, which have to be those of some checkpoint.
AdminInv ==
    /\ AdminTypeOK
    /\ now \in Nat /\ proposalCount \in Nat
    /\ QuorumParamsConsistent
    /\ CheckpointsUpToNow

Checkpoints == Seq([fromBlock : Nat, params : QuorumParams])

\* An element of a sequence over S is in S.
LEMMA ElementOf ==
    ASSUME NEW S, NEW s \in Seq(S), NEW j \in 1 .. Len(s)
    PROVE  s[j] \in S
OBVIOUS

\* What the binary search returns is a checkpoint at or before the block.
LEMMA LastUpToFound ==
    ASSUME NEW cs \in Checkpoints, NEW b \in Nat, CheckpointsUpTo(cs, b) # {}
    PROVE  LastUpTo(cs, b) \in CheckpointsUpTo(cs, b)
<1> DEFINE T == CheckpointsUpTo(cs, b)
<1>1. T \in SUBSET (1 .. Len(cs)) /\ Len(cs) \in Nat
  BY DEF CheckpointsUpTo, Checkpoints
<1>2. \E x \in T : \A y \in T : y <= x
  <2> HIDE DEF T
  <2> QED BY ZenonT(60), <1>1, GreatestElement DEF T
<1>3. QED
  BY <1>2 DEF LastUpTo

\* The parameters in force now are well-typed and consistent.
LEMMA InForce ==
    ASSUME AdminInv
    PROVE  /\ getDynamicQuorumParamsAt(now) \in QuorumParams
           /\ ValidQuorum(getDynamicQuorumParamsAt(now))
<1> DEFINE cs == quorumParamsCheckpoints
           i == LastUpTo(cs, now)
<1>1. cs \in Checkpoints /\ now \in Nat
  BY DEF AdminInv, AdminTypeOK, Checkpoints
<1>2. 1 \in CheckpointsUpTo(cs, now)
  BY <1>1 DEF AdminInv, CheckpointsUpToNow, CheckpointsUpTo, Checkpoints
<1>3. i \in CheckpointsUpTo(cs, now)
  BY <1>1, <1>2, LastUpToFound
<1>4. i \in 1 .. Len(cs)
  BY <1>3 DEF CheckpointsUpTo
<1>5. cs[i].params \in QuorumParams
  <2>1. cs[i] \in [fromBlock : Nat, params : QuorumParams]
    BY ZenonT(60), <1>1, <1>4, ElementOf DEF Checkpoints
  <2>2. QED
    BY <2>1
<1>6. ValidQuorum(cs[i].params)
  BY <1>4 DEF AdminInv, QuorumParamsConsistent
<1>7. QED
  BY <1>5, <1>6 DEF getDynamicQuorumParamsAt

\* A DAO is deployed with consistent settings.
LEMMA AdminInitInv ==
    ASSUME AdminInit, now \in Nat, proposalCount \in Nat
    PROVE  AdminInv
<1> USE AdminConstants
<1>1. AdminTypeOK
  BY DEF AdminInit, AdminTypeOK
<1>2. QuorumParamsConsistent /\ CheckpointsUpToNow
  BY DEF AdminInit, QuorumParamsConsistent, CheckpointsUpToNow
<1>3. QED
  BY <1>1, <1>2 DEF AdminInv

\* Writing consistent parameters keeps the invariant.
LEMMA WriteStep ==
    ASSUME AdminInv, UNCHANGED <<now, proposalCount>>,
           NEW q \in QuorumParams, ValidQuorum(q), writeQuorumParamsCheckpoint(q)
    PROVE  AdminInv'
<1> DEFINE cs == quorumParamsCheckpoints
           c == [fromBlock |-> now, params |-> q]
<1> USE DEF AdminInv
<1>1. cs \in Checkpoints /\ now \in Nat /\ Len(cs) \in Nat \ {0}
  BY DEF AdminTypeOK, Checkpoints, CheckpointsUpToNow
<1>2. c \in [fromBlock : Nat, params : QuorumParams]
  BY <1>1
<1>3. cs' \in Checkpoints /\ Len(cs') > 0
         /\ \A i \in 1 .. Len(cs') : cs'[i] = c \/ (i \in 1 .. Len(cs) /\ cs'[i] = cs[i])
  <2> HIDE DEF c
  <2>1. CASE cs' = [cs EXCEPT ![Len(cs)] = c]
    BY <1>1, <1>2, <2>1 DEF Checkpoints
  <2>2. CASE cs' = Append(cs, c)
    BY <1>1, <1>2, <2>2 DEF Checkpoints
  <2>3. cs' = [cs EXCEPT ![Len(cs)] = c] \/ cs' = Append(cs, c)
    BY DEF writeQuorumParamsCheckpoint, c
  <2>4. QED
    BY <2>1, <2>2, <2>3
<1>4. QuorumParamsConsistent'
  BY <1>3 DEF QuorumParamsConsistent, ValidQuorum, Within
<1>5. CheckpointsUpToNow'
  BY <1>1, <1>3 DEF CheckpointsUpToNow
<1>6. AdminTypeOK'
  BY <1>3 DEF AdminTypeOK, writeQuorumParamsCheckpoint, roles, ValidSettings, Within, Checkpoints
<1>7. QED
  BY <1>4, <1>5, <1>6

\* Every setter of the quorum writes consistent parameters.
LEMMA SetQuorumWrites ==
    ASSUME AdminInv, SetQuorum
    PROVE  \E q \in QuorumParams : ValidQuorum(q) /\ writeQuorumParamsCheckpoint(q)
<1> DEFINE params == getDynamicQuorumParamsAt(now)
<1>1. params \in QuorumParams /\ ValidQuorum(params)
  BY InForce
<1> HIDE DEF params
<1> USE AdminConstants DEF QuorumParams, ValidQuorum, Within
<1>2. CASE SetMinQuorumVotesBPS
  <2>1. PICK v \in Asked.minQuorumVotesBPS :
           /\ Within(MIN_QUORUM_VOTES_BPS_LOWER_BOUND, v, MIN_QUORUM_VOTES_BPS_UPPER_BOUND)
           /\ v <= params.maxQuorumVotesBPS
           /\ writeQuorumParamsCheckpoint([params EXCEPT !.minQuorumVotesBPS = v])
    BY <1>2 DEF SetMinQuorumVotesBPS, params
  <2> DEFINE q == [params EXCEPT !.minQuorumVotesBPS = v]
  <2>2. q \in QuorumParams /\ ValidQuorum(q)
    BY <1>1, <2>1
  <2>3. QED
    BY <2>1, <2>2
<1>3. CASE SetMaxQuorumVotesBPS
  <2>1. PICK v \in Asked.maxQuorumVotesBPS :
           /\ v <= MAX_QUORUM_VOTES_BPS_UPPER_BOUND
           /\ params.minQuorumVotesBPS <= v
           /\ writeQuorumParamsCheckpoint([params EXCEPT !.maxQuorumVotesBPS = v])
    BY <1>3 DEF SetMaxQuorumVotesBPS, params
  <2> DEFINE q == [params EXCEPT !.maxQuorumVotesBPS = v]
  <2>2. q \in QuorumParams /\ ValidQuorum(q)
    BY <1>1, <2>1
  <2>3. QED
    BY <2>1, <2>2
<1>4. CASE SetQuorumCoefficient
  <2>1. PICK v \in Asked.quorumCoefficient :
           writeQuorumParamsCheckpoint([params EXCEPT !.quorumCoefficient = v])
    BY <1>4 DEF SetQuorumCoefficient, params
  <2> DEFINE q == [params EXCEPT !.quorumCoefficient = v]
  <2>2. q \in QuorumParams /\ ValidQuorum(q)
    BY <1>1, <2>1
  <2>3. QED
    BY <2>1, <2>2
<1>5. CASE SetDynamicQuorumParams
  BY <1>5 DEF SetDynamicQuorumParams
<1>6. QED
  BY <1>2, <1>3, <1>4, <1>5 DEF SetQuorum

\* The other setters keep the settings within their bounds.
LEMMA SetParamsStep ==
    ASSUME AdminInv, UNCHANGED <<now, proposalCount>>, SetParams
    PROVE  AdminInv'
<1> USE AdminConstants
<1>1. ds' \in Settings /\ ValidSettings(ds')
  <2> USE DEF AdminInv, AdminTypeOK, Settings, ValidSettings, Set
  <2>1. CASE SetVotingDelay
    BY ZenonT(60), <2>1 DEF SetVotingDelay
  <2>2. CASE SetVotingPeriod
    BY ZenonT(60), <2>2 DEF SetVotingPeriod
  <2>3. CASE SetProposalThresholdBPS
    BY ZenonT(60), <2>3 DEF SetProposalThresholdBPS
  <2>4. CASE SetObjectionPeriodDurationInBlocks
    BY ZenonT(60), <2>4 DEF SetObjectionPeriodDurationInBlocks
  <2>5. CASE SetLastMinuteWindowInBlocks
    BY ZenonT(60), <2>5 DEF SetLastMinuteWindowInBlocks
  <2>6. CASE SetProposalUpdatablePeriodInBlocks
    BY ZenonT(60), <2>6 DEF SetProposalUpdatablePeriodInBlocks
  <2>7. CASE SetForkPeriod
    BY ZenonT(60), <2>7 DEF SetForkPeriod
  <2>8. CASE SetForkThresholdBPS
    BY ZenonT(60), <2>8 DEF SetForkThresholdBPS
  <2>9. QED
    BY <2>1, <2>2, <2>3, <2>4, <2>5, <2>6, <2>7, <2>8 DEF SetParams
<1>2. UNCHANGED <<roles, timelock, timelockV1, quorumParamsCheckpoints,
                  voteSnapshotBlockSwitchProposalId>>
  BY DEF SetParams, Set, SetVotingDelay, SetVotingPeriod, SetProposalThresholdBPS,
         SetObjectionPeriodDurationInBlocks, SetLastMinuteWindowInBlocks,
         SetProposalUpdatablePeriodInBlocks, SetForkPeriod, SetForkThresholdBPS
<1>3. QED
  BY SMTT(60), <1>1, <1>2
     DEF AdminInv, AdminTypeOK, QuorumParamsConsistent, CheckpointsUpToNow, roles

\* Every call of the admin and every hand-over keeps the invariant.
LEMMA AdminNextStep ==
    ASSUME AdminInv, UNCHANGED <<now, proposalCount>>, AdminNext
    PROVE  AdminInv'
<1> USE AdminConstants
<1>1. CASE SetParams
  BY <1>1, SetParamsStep
<1>2. CASE SetQuorum
  BY <1>2, SetQuorumWrites, WriteStep
<1>3. ASSUME UNCHANGED <<ds, quorumParamsCheckpoints>>, AdminTypeOK'
      PROVE  AdminInv'
  BY <1>3 DEF AdminInv, QuorumParamsConsistent, CheckpointsUpToNow
<1> USE DEF AdminInv, AdminTypeOK, RestUnchanged, roles
<1>4. CASE SetVoteSnapshotBlockSwitchProposalId
  BY <1>3, <1>4 DEF SetVoteSnapshotBlockSwitchProposalId
<1>5. CASE SetTimelocksAndAdmin
  BY <1>3, <1>5 DEF SetTimelocksAndAdmin
<1>6. CASE SetPendingAdmin
  BY <1>3, <1>6 DEF SetPendingAdmin
<1>7. ASSUME NEW a, AcceptAdmin(a) PROVE AdminInv'
  BY <1>3, <1>7 DEF AcceptAdmin
<1>8. ASSUME NEW a, SetPendingVetoer(a) \/ AcceptVetoer(a) \/ BurnVetoPower(a)
      PROVE  AdminInv'
  BY <1>3, <1>8 DEF SetPendingVetoer, AcceptVetoer, BurnVetoPower
<1>9. QED
  BY ZenonT(60), <1>1, <1>2, <1>4, <1>5, <1>6, <1>7, <1>8 DEF AdminNext, AdminCall, HandOver

\* The parameters in force at an earlier block stay what they are.
LEMMA PastIsFixed ==
    ASSUME AdminInv, AdminInv', now \in Nat, UNCHANGED <<now, proposalCount>>, AdminNext,
           NEW b \in quorumParamsCheckpoints[1].fromBlock .. (now - 1)
    PROVE  getDynamicQuorumParamsAt(b)' = getDynamicQuorumParamsAt(b)
<1> DEFINE cs == quorumParamsCheckpoints
<1>1. cs \in Checkpoints /\ cs' \in Checkpoints /\ Len(cs) > 0
  BY DEF AdminInv, AdminTypeOK, Checkpoints, CheckpointsUpToNow
<1>2. cs[1].fromBlock \in Nat /\ b \in Nat /\ b < now
  <2>1. 1 \in 1 .. Len(cs)
    BY <1>1 DEF Checkpoints
  <2>2. cs[1] \in [fromBlock : Nat, params : QuorumParams]
    BY ZenonT(60), <1>1, <2>1, ElementOf DEF Checkpoints
  <2>3. QED
    BY <2>2 DEF AdminInv
<1>3. CASE UNCHANGED cs
  BY <1>3 DEF getDynamicQuorumParamsAt
<1>4. CASE \E q \in QuorumParams : writeQuorumParamsCheckpoint(q)
  <2>1. PICK q \in QuorumParams : writeQuorumParamsCheckpoint(q)
    BY <1>4
  <2> DEFINE c == [fromBlock |-> now, params |-> q]
             n == Len(cs)
  <2>2. c.fromBlock = now /\ c \in [fromBlock : Nat, params : QuorumParams]
    BY DEF AdminInv
  <2>3. \/ cs[n].fromBlock = now /\ cs' = [cs EXCEPT ![n] = c]
        \/ cs' = Append(cs, c)
    BY <2>1 DEF writeQuorumParamsCheckpoint
  <2> HIDE DEF c
  <2>4. /\ CheckpointsUpTo(cs', b) = CheckpointsUpTo(cs, b)
        /\ \A i \in CheckpointsUpTo(cs, b) : cs'[i] = cs[i]
    <3>1. CASE cs[n].fromBlock = now /\ cs' = [cs EXCEPT ![n] = c]
      <4>1. Len(cs') = n /\ cs'[n] = c /\ \A i \in 1 .. n : i # n => cs'[i] = cs[i]
        BY <1>1, <3>1 DEF Checkpoints
      <4>2. n \in Nat /\ ~ (c.fromBlock <= b) /\ ~ (cs[n].fromBlock <= b)
        BY <1>1, <1>2, <2>2, <3>1 DEF Checkpoints, AdminInv
      <4>3. \A i : i \in 1 .. Len(cs') /\ cs'[i].fromBlock <= b
                      <=> i \in 1 .. n /\ cs[i].fromBlock <= b
        BY <4>1, <4>2
      <4>4. \A i \in CheckpointsUpTo(cs, b) : i \in 1 .. n /\ i # n
        BY <4>2 DEF CheckpointsUpTo
      <4>5. QED
        BY <4>1, <4>3, <4>4 DEF CheckpointsUpTo
    <3>2. CASE cs' = Append(cs, c)
      <4>1. Len(cs') = n + 1 /\ cs'[n + 1] = c /\ \A i \in 1 .. n : cs'[i] = cs[i]
        BY <1>1, <2>2, <3>2 DEF Checkpoints
      <4>2. n \in Nat /\ ~ (c.fromBlock <= b)
        BY <1>1, <1>2, <2>2 DEF Checkpoints, AdminInv
      <4>3. \A i \in 1 .. Len(cs') : i \in 1 .. n \/ i = n + 1
        BY <4>1, <4>2
      <4>4. \A i : i \in 1 .. Len(cs') /\ cs'[i].fromBlock <= b
                      <=> i \in 1 .. n /\ cs[i].fromBlock <= b
        BY <4>1, <4>2, <4>3
      <4>5. QED
        BY <4>1, <4>4 DEF CheckpointsUpTo
    <3>3. QED
      BY <2>3, <3>1, <3>2
  <2>5. 1 \in CheckpointsUpTo(cs, b)
    BY <1>1, <1>2 DEF CheckpointsUpTo, Checkpoints
  <2>6. LastUpTo(cs, b) \in CheckpointsUpTo(cs, b)
    BY <1>1, <1>2, <2>5, LastUpToFound
  <2>7. LastUpTo(cs', b) = LastUpTo(cs, b)
    BY <2>4 DEF LastUpTo
  <2>8. QED
    BY <2>4, <2>6, <2>7 DEF getDynamicQuorumParamsAt
<1>5. CASE SetQuorum
  BY <1>4, <1>5, SetQuorumWrites
<1>6. CASE ~SetQuorum
  <2>1. UNCHANGED cs
    BY <1>6 DEF AdminNext, AdminCall, HandOver, SetParams, Set, SetVotingDelay,
         SetVotingPeriod, SetProposalThresholdBPS, SetObjectionPeriodDurationInBlocks,
         SetLastMinuteWindowInBlocks, SetProposalUpdatablePeriodInBlocks, SetForkPeriod,
         SetForkThresholdBPS, SetVoteSnapshotBlockSwitchProposalId, SetTimelocksAndAdmin,
         SetPendingAdmin, AcceptAdmin, SetPendingVetoer, AcceptVetoer, BurnVetoPower,
         RestUnchanged
  <2>2. QED
    BY <1>3, <2>1
<1>7. QED
  BY <1>5, <1>6

\* Once the veto is burnt, no hand-over of it is pending.
NoClaimOnBurntVeto == vetoer = ZERO => pendingVetoer = ZERO

\* No call brings the veto back.
LEMMA VetoStep ==
    ASSUME NoClaimOnBurntVeto, AdminNext
    PROVE  NoClaimOnBurntVeto' /\ (vetoer = ZERO => vetoer' = ZERO)
<1> USE AdminConstants DEF NoClaimOnBurntVeto
<1>1. CASE UNCHANGED <<vetoer, pendingVetoer>>
  BY <1>1
<1>2. ASSUME NEW a \in Accounts, SetPendingVetoer(a) \/ AcceptVetoer(a) \/ BurnVetoPower(a)
      PROVE  NoClaimOnBurntVeto' /\ (vetoer = ZERO => vetoer' = ZERO)
  BY <1>2 DEF SetPendingVetoer, AcceptVetoer, BurnVetoPower
<1>3. CASE AdminCall
  <2>1. UNCHANGED <<vetoer, pendingVetoer>>
    BY ZenonT(60), <1>3 DEF AdminCall, SetParams, Set, SetVotingDelay, SetVotingPeriod,
         SetProposalThresholdBPS, SetObjectionPeriodDurationInBlocks,
         SetLastMinuteWindowInBlocks, SetProposalUpdatablePeriodInBlocks, SetForkPeriod,
         SetForkThresholdBPS, SetQuorum, SetMinQuorumVotesBPS, SetMaxQuorumVotesBPS,
         SetQuorumCoefficient, SetDynamicQuorumParams, writeQuorumParamsCheckpoint,
         SetVoteSnapshotBlockSwitchProposalId, SetTimelocksAndAdmin, SetPendingAdmin, roles
  <2>2. QED
    BY SMTT(60), <1>1, <2>1
<1>4. ASSUME NEW a, AcceptAdmin(a) PROVE UNCHANGED <<vetoer, pendingVetoer>>
  BY <1>4 DEF AcceptAdmin
<1>5. QED
  BY <1>1, <1>2, <1>3, <1>4 DEF AdminNext, HandOver

==============================================================================
