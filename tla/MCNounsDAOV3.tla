----------------------------- MODULE MCNounsDAOV3 -----------------------------
(* Instances of the governor for TLC. *)
EXTENDS NounsDAOV3

CONSTANTS alice, bob, carol, pay, burn, lock1, lock2

Nothing ==
    [votingDelay |-> {}, votingPeriod |-> {}, proposalThresholdBPS |-> {},
     objectionPeriodDurationInBlocks |-> {}, lastMinuteWindowInBlocks |-> {},
     proposalUpdatablePeriodInBlocks |-> {}, forkPeriod |-> {}, forkThresholdBPS |-> {},
     minQuorumVotesBPS |-> {}, maxQuorumVotesBPS |-> {}, quorumCoefficient |-> {},
     timelocks |-> {}, admins |-> {}, vetoers |-> {}, calls |-> {}]

\* Every setter is called.  A plain setting is asked to its deployed value and
\* to one out of bounds, the quorum and the roles to several.
EverySetting ==
    [votingDelay |-> {0, 1}, votingPeriod |-> {0, 1}, proposalThresholdBPS |-> {0, 1000},
     objectionPeriodDurationInBlocks |-> {1, 9}, lastMinuteWindowInBlocks |-> {1},
     proposalUpdatablePeriodInBlocks |-> {0, 9}, forkPeriod |-> {2, 9},
     forkThresholdBPS |-> {2000},
     minQuorumVotesBPS |-> {100, 200, 2000}, maxQuorumVotesBPS |-> {1000, 2000, 7000},
     quorumCoefficient |-> {0},
     timelocks |-> {<<lock2, lock1, lock2>>}, admins |-> {alice, ZERO},
     vetoers |-> {bob, ZERO}, calls |-> {"switch", "burn"}]

\* A period that is refused
BadPeriod == [Nothing EXCEPT !.votingPeriod = {0}]

\* While a vote goes on
VotingSettings ==
    [Nothing EXCEPT !.quorumCoefficient = {1000000},
                    !.objectionPeriodDurationInBlocks = {0}, !.calls = {"switch"}]

TwoLocks == [Nothing EXCEPT !.timelocks = {<<lock2, lock1, lock2>>}]

TwoLocksAndFork == [TwoLocks EXCEPT !.forkPeriod = {1}]

Settings0 ==
    [votingDelay |-> 1, votingPeriod |-> 1, proposalThresholdBPS |-> 1000,
     objectionPeriodDurationInBlocks |-> 1, lastMinuteWindowInBlocks |-> 1,
     proposalUpdatablePeriodInBlocks |-> 0, forkPeriod |-> 0, forkThresholdBPS |-> 2000]

NoWindow == [Settings0 EXCEPT !.lastMinuteWindowInBlocks = 0]

LongVote == [Settings0 EXCEPT !.votingPeriod = 2]

Updatables == [Settings0 EXCEPT !.proposalUpdatablePeriodInBlocks = 1]

Quorum0 == [minQuorumVotesBPS |-> 2000, maxQuorumVotesBPS |-> 4000, quorumCoefficient |-> 0]

MinQuorum == [minQuorumVotesBPS |-> 200, maxQuorumVotesBPS |-> 2000, quorumCoefficient |-> 0]

Constantly(v) == [b \in 0 .. MaxTime |-> v]

\* Of ten votes alice has two at first and one more from block 2, which bob gives up.
Votes1 ==
    { [a \in Accounts |->
         CASE a = alice -> [b \in 0 .. MaxTime |-> IF b < 2 THEN 2 ELSE 3]
           [] a = bob -> [b \in 0 .. MaxTime |-> IF b < 2 THEN 2 ELSE 1]
           [] a = carol -> Constantly(2)] }

\* bob needs a signature to propose; alice loses the votes in block 3.
Votes2 ==
    { [a \in Accounts |->
         CASE a = alice -> [b \in 0 .. MaxTime |-> IF b < 3 THEN 2 ELSE 1]
           [] a = bob -> Constantly(1)
           [] a = carol -> Constantly(2)] }

Votes3 == { [a \in Accounts |-> Constantly(3)] }

Pay == {<<pay>>}
PayOrBurn == {<<pay>>, <<burn>>}
BurnAndPay == {<<burn, pay>>}

EqualDelay == [tl \in Timelocks |-> 1]
Graces == [tl \in Timelocks |-> IF tl = lock1 THEN 1 ELSE 2]
EqualGraces == [tl \in Timelocks |-> 1]

===============================================================================
