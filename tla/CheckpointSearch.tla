--------------------------- MODULE CheckpointSearch ---------------------------
(***************************************************************************)
(* The search for the checkpoint in force at a past block.  The contracts  *)
(* hold it twice: getPriorVotes searches the vote checkpoints of an        *)
(* account, getDynamicQuorumParamsAt those of the quorum parameters.  Both *)
(* try the latest and the first checkpoint and then halve the range.       *)
(*                                                                         *)
(* Sources: base/ERC721Checkpointable.sol, NounsDAOV3DynamicQuorum.sol.    *)
(*                                                                         *)
(* The modules NounsToken and NounsDAOAdmin use what the search returns,   *)
(* the latest checkpoint up to the block; this module is why they may.     *)
(***************************************************************************)
EXTENDS Integers

CONSTANTS
    Values,         \* what a checkpoint holds: votes or quorum parameters
    Implicit,       \* the value before the first checkpoint
    MaxLength,      \* bound: the number of checkpoints
    MaxBlock        \* bound: the last block

ASSUME SearchConstants ==
    Implicit \in Values /\ MaxLength \in Nat \ {0} /\ MaxBlock \in Nat

VARIABLES
    nCheckpoints,
    checkpoints,    \* checkpoints[0 .. nCheckpoints - 1], never written here
    blockNumber,    \* the block asked for
    lower, upper,   \* the range that is still searched
    pc,             \* "entry", "loop" or "returned"
    result

input == <<nCheckpoints, checkpoints, blockNumber>>
vars == <<input, lower, upper, pc, result>>

Checkpoint == [fromBlock : 0 .. MaxBlock, value : Values]
Indices == 0 .. nCheckpoints - 1

\* A checkpoint is written at the current block or overwritten there, so
\* the blocks increase.
Increasing(cps, n) ==
    \A i, j \in 0 .. n - 1 : i < j => cps[i].fromBlock < cps[j].fromBlock

Init ==
    /\ nCheckpoints \in 0 .. MaxLength
    /\ checkpoints \in [Indices -> Checkpoint]
    /\ Increasing(checkpoints, nCheckpoints)
    /\ blockNumber \in 0 .. MaxBlock
    /\ lower = 0 /\ upper = 0
    /\ pc = "entry"
    /\ result = Implicit

Return(v) ==
    /\ pc' = "returned"
    /\ result' = v
    /\ UNCHANGED <<input, lower, upper>>

\* Mutants: the first checkpoint is not tried; the range is one too long.
EnterUnchecked ==
    /\ pc = "entry"
    /\ IF nCheckpoints = 0 THEN Return(Implicit)
       ELSE IF checkpoints[nCheckpoints - 1].fromBlock <= blockNumber
         THEN Return(checkpoints[nCheckpoints - 1].value)
       ELSE /\ lower' = 0
            /\ upper' = nCheckpoints - 1
            /\ pc' = "loop"
            /\ UNCHANGED <<input, result>>

EnterWhole ==
    /\ pc = "entry"
    /\ IF nCheckpoints = 0 THEN Return(Implicit)
       ELSE IF checkpoints[nCheckpoints - 1].fromBlock <= blockNumber
         THEN Return(checkpoints[nCheckpoints - 1].value)
       ELSE IF checkpoints[0].fromBlock > blockNumber THEN Return(Implicit)
       ELSE /\ lower' = 0
            /\ upper' = nCheckpoints
            /\ pc' = "loop"
            /\ UNCHANGED <<input, result>>

\* The tests before the loop
Enter ==
    /\ pc = "entry"
    /\ IF nCheckpoints = 0 THEN Return(Implicit)
       ELSE IF checkpoints[nCheckpoints - 1].fromBlock <= blockNumber
         THEN Return(checkpoints[nCheckpoints - 1].value)
       ELSE IF checkpoints[0].fromBlock > blockNumber THEN Return(Implicit)
       ELSE /\ lower' = 0
            /\ upper' = nCheckpoints - 1
            /\ pc' = "loop"
            /\ UNCHANGED <<input, result>>

\* Mutants: rounds down; counts from the start of the list.
CenterFloor == lower + (upper - lower) \div 2

CenterFromZero == (upper - lower) \div 2

\* Rounds up, so that lower = center moves on.
Center == upper - (upper - lower) \div 2

Halve ==
    /\ pc = "loop" /\ upper > lower
    /\ LET cp == checkpoints[Center]
       IN  IF cp.fromBlock = blockNumber THEN Return(cp.value)
           ELSE /\ IF cp.fromBlock < blockNumber
                     THEN lower' = Center /\ UNCHANGED upper
                     ELSE upper' = Center - 1 /\ UNCHANGED lower
                /\ UNCHANGED <<input, pc, result>>

Leave ==
    /\ pc = "loop" /\ upper <= lower
    /\ Return(checkpoints[lower].value)

Next == Enter \/ Halve \/ Leave

\* A call runs to its end.
Spec == Init /\ [][Next]_vars /\ WF_vars(Next)

------------------------------------------------------------------------------
(* Properties                                                              *)

\* Types; the indices of the loop stay within the checkpoints.
TypeOK ==
    /\ nCheckpoints \in 0 .. MaxLength
    /\ checkpoints \in [Indices -> Checkpoint]
    /\ blockNumber \in 0 .. MaxBlock
    /\ lower \in 0 .. MaxLength - 1 /\ upper \in 0 .. MaxLength - 1
    /\ pc \in {"entry", "loop", "returned"}
    /\ result \in Values

\* What both functions promise: the value of the latest checkpoint that is
\* not younger than the block, or the implicit value when all are.
Found ==
    pc = "returned" =>
        \/ /\ \A i \in Indices : checkpoints[i].fromBlock > blockNumber
           /\ result = Implicit
        \/ \E i \in Indices :
             /\ checkpoints[i].fromBlock <= blockNumber
             /\ \A j \in Indices : j > i => checkpoints[j].fromBlock > blockNumber
             /\ result = checkpoints[i].value

\* Every turn of the loop leaves a strictly smaller range, and never an
\* empty one: with upper - lower as the measure, the loop ends.
RangeShrinks ==
    [][pc = "loop" /\ pc' = "loop" =>
         /\ upper' - lower' < upper - lower
         /\ upper' >= lower']_vars

\* The search returns, whatever the checkpoints and the block.
Returns == <>(pc = "returned")
==============================================================================
