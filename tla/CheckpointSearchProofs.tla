------------------------ MODULE CheckpointSearchProofs ------------------------
(***************************************************************************)
(* The search is right for lists of any length.  Termination needs the     *)
(* fairness of Spec and is left to TLC; its measure is RangeShrinks.       *)
(***************************************************************************)
EXTENDS CheckpointSearch, TLAPS

\* What the loop keeps: the answer is at lower or between lower and upper.
Loop ==
    pc = "loop" =>
        /\ lower \in Indices /\ upper \in Indices /\ lower <= upper
        /\ checkpoints[lower].fromBlock <= blockNumber
        /\ \A j \in Indices : j > upper => checkpoints[j].fromBlock > blockNumber

Inv == TypeOK /\ Increasing(checkpoints, nCheckpoints) /\ Loop /\ Found

LEMMA InitInv == Init => Inv
  BY SearchConstants DEF Init, Inv, TypeOK, Loop, Found, Indices

\* The middle is above lower and not above upper.
LEMMA CenterBetween ==
    ASSUME NEW l \in Nat, NEW u \in Nat, l < u
    PROVE  LET c == u - (u - l) \div 2 IN c \in Nat /\ l < c /\ c <= u
  OBVIOUS

\* What the value at an index is good for
LEMMA Reads ==
    ASSUME TypeOK, NEW i \in Indices
    PROVE  /\ i \in Nat /\ i < nCheckpoints /\ i \in 0 .. MaxLength - 1
           /\ checkpoints[i].fromBlock \in Nat /\ checkpoints[i].value \in Values
  BY SearchConstants DEF TypeOK, Indices, Checkpoint

LEMMA ReturnKeeps ==
    ASSUME Inv, NEW v \in Values, Return(v),
           \/ /\ \A i \in Indices : checkpoints[i].fromBlock > blockNumber
              /\ v = Implicit
           \/ \E i \in Indices :
                /\ checkpoints[i].fromBlock <= blockNumber
                /\ \A j \in Indices : j > i => checkpoints[j].fromBlock > blockNumber
                /\ v = checkpoints[i].value
    PROVE  Inv'
<1>1. /\ UNCHANGED <<nCheckpoints, checkpoints, blockNumber, lower, upper>>
      /\ pc' = "returned" /\ result' = v
  BY DEF Return, input
<1>2. TypeOK' /\ Increasing(checkpoints, nCheckpoints)'
  BY <1>1 DEF Inv, TypeOK, Increasing, Indices
<1>3. Loop' /\ Found'
  BY <1>1 DEF Loop, Found, Indices
<1>4. QED
  BY <1>2, <1>3 DEF Inv

LEMMA EnterKeeps == ASSUME Inv, Enter PROVE Inv'
<1> USE SearchConstants
<1> DEFINE last == nCheckpoints - 1
<1>1. CASE nCheckpoints = 0
  <2>1. Return(Implicit) /\ Indices = {}
    BY <1>1 DEF Enter, Indices
  <2>2. QED
    BY <2>1, ReturnKeeps
<1>2. CASE nCheckpoints # 0 /\ checkpoints[last].fromBlock <= blockNumber
  <2>1. last \in Indices /\ \A j \in Indices : ~(j > last)
    BY <1>2 DEF Inv, TypeOK, Indices
  <2>2. Return(checkpoints[last].value)
    BY <1>2 DEF Enter
  <2>3. checkpoints[last].value \in Values
    BY <2>1, Reads DEF Inv
  <2>4. QED
    BY <1>2, <2>1, <2>2, <2>3, ReturnKeeps
<1>3. CASE nCheckpoints # 0 /\ ~(checkpoints[last].fromBlock <= blockNumber)
           /\ checkpoints[0].fromBlock > blockNumber
  <2>1. Return(Implicit)
    BY <1>3 DEF Enter
  <2>2. ASSUME NEW i \in Indices PROVE checkpoints[i].fromBlock > blockNumber
    <3>1. 0 \in Indices /\ i \in Nat
      BY <1>3 DEF Inv, TypeOK, Indices
    <3>2. i # 0 => checkpoints[0].fromBlock < checkpoints[i].fromBlock
      BY <3>1 DEF Inv, Increasing, Indices
    <3>3. QED
      BY <1>3, <3>1, <3>2, Reads DEF Inv, TypeOK
  <2>3. QED
    BY <2>1, <2>2, ReturnKeeps
<1>4. CASE nCheckpoints # 0 /\ ~(checkpoints[last].fromBlock <= blockNumber)
           /\ ~(checkpoints[0].fromBlock > blockNumber)
  <2>1. /\ lower' = 0 /\ upper' = last /\ pc' = "loop"
        /\ UNCHANGED <<nCheckpoints, checkpoints, blockNumber, result>>
    BY <1>4 DEF Enter, input
  <2>2. 0 \in Indices /\ last \in Indices /\ \A j \in Indices : ~(j > last)
    BY <1>4 DEF Inv, TypeOK, Indices
  <2>3. checkpoints[0].fromBlock <= blockNumber
    BY <1>4, <2>2, Reads DEF Inv, TypeOK
  <2>4. TypeOK' /\ Increasing(checkpoints, nCheckpoints)'
    BY <2>1, <2>2, Reads DEF Inv, TypeOK, Increasing, Indices
  <2>5. Loop'
    BY <2>1, <2>2, <2>3 DEF Loop, Indices
  <2>6. Found'
    BY <2>1 DEF Found
  <2>7. QED
    BY <2>4, <2>5, <2>6 DEF Inv
<1>5. QED
  BY <1>1, <1>2, <1>3, <1>4

\* A turn of the loop keeps the invariant and, unless it returns, leaves a
\* smaller range.
LEMMA HalveKeeps ==
    ASSUME Inv, Halve
    PROVE  /\ Inv'
           /\ pc' = "loop" => upper' - lower' < upper - lower /\ upper' >= lower'
<1> USE SearchConstants
<1> DEFINE center == upper - (upper - lower) \div 2
<1>1. /\ pc = "loop" /\ upper > lower
      /\ lower \in Indices /\ upper \in Indices
      /\ checkpoints[lower].fromBlock <= blockNumber
      /\ \A j \in Indices : j > upper => checkpoints[j].fromBlock > blockNumber
  BY DEF Halve, Inv, Loop
<1>2. lower \in Nat /\ upper \in Nat /\ upper < nCheckpoints /\ nCheckpoints \in Nat
  BY <1>1 DEF Inv, TypeOK, Indices
<1>3. center \in Nat /\ lower < center /\ center <= upper
  BY <1>1, <1>2, CenterBetween
<1> HIDE DEF center
<1>4. center \in Indices /\ center - 1 \in Indices
  BY <1>2, <1>3 DEF Indices
<1>5. /\ checkpoints[center].fromBlock \in Nat /\ blockNumber \in Nat
      /\ checkpoints[center].value \in Values
  BY <1>4, Reads DEF Inv, TypeOK
<1>6. \A j \in Indices : j > center =>
          checkpoints[center].fromBlock < checkpoints[j].fromBlock
  BY <1>4 DEF Inv, Increasing, Indices
<1>7. CASE checkpoints[center].fromBlock = blockNumber
  <2>1. Return(checkpoints[center].value)
    BY <1>7 DEF Halve, Center, center
  <2>2. \A j \in Indices : j > center => checkpoints[j].fromBlock > blockNumber
    BY <1>5, <1>6, <1>7, Reads DEF Inv
  <2>3. Inv'
    BY <1>4, <1>5, <1>7, <2>1, <2>2, ReturnKeeps
  <2>4. QED
    BY <2>1, <2>3 DEF Return
<1>8. CASE checkpoints[center].fromBlock < blockNumber
  <2>1. lower' = center /\ UNCHANGED <<nCheckpoints, checkpoints, blockNumber, upper, pc, result>>
    BY <1>5, <1>8 DEF Halve, Center, center, input
  <2>2. TypeOK' /\ Increasing(checkpoints, nCheckpoints)'
    BY <1>4, <2>1, Reads DEF Inv, TypeOK, Increasing, Indices
  <2>3. Loop' /\ Found'
    BY <1>1, <1>3, <1>4, <1>5, <1>8, <2>1 DEF Loop, Found, Indices
  <2>4. QED
    BY <1>2, <1>3, <2>1, <2>2, <2>3 DEF Inv
<1>9. CASE checkpoints[center].fromBlock > blockNumber
  <2>1. upper' = center - 1
        /\ UNCHANGED <<nCheckpoints, checkpoints, blockNumber, lower, pc, result>>
    BY <1>5, <1>9 DEF Halve, Center, center, input
  <2>2. TypeOK' /\ Increasing(checkpoints, nCheckpoints)'
    BY <1>4, <2>1, Reads DEF Inv, TypeOK, Increasing, Indices
  <2>3. ASSUME NEW j \in Indices, j > center - 1 PROVE checkpoints[j].fromBlock > blockNumber
    <3>1. j = center \/ j > center
      BY <1>3, <2>3, Reads DEF Inv
    <3>2. QED
      BY <1>5, <1>6, <1>9, <3>1, Reads DEF Inv
  <2>4. Loop' /\ Found'
    BY <1>1, <1>2, <1>3, <1>4, <2>1, <2>3 DEF Loop, Found, Indices
  <2>5. QED
    BY <1>2, <1>3, <2>1, <2>2, <2>4 DEF Inv
<1>10. QED
  BY <1>5, <1>7, <1>8, <1>9

LEMMA LeaveKeeps == ASSUME Inv, Leave PROVE Inv'
<1>1. /\ pc = "loop" /\ upper <= lower /\ Return(checkpoints[lower].value)
      /\ lower \in Indices /\ upper \in Indices /\ lower <= upper
      /\ checkpoints[lower].fromBlock <= blockNumber
      /\ \A j \in Indices : j > upper => checkpoints[j].fromBlock > blockNumber
  BY DEF Leave, Inv, Loop
<1>2. lower = upper /\ checkpoints[lower].value \in Values
  BY <1>1, Reads DEF Inv
<1>3. QED
  BY <1>1, <1>2, ReturnKeeps

LEMMA Stutter == ASSUME Inv, UNCHANGED vars PROVE Inv'
  BY DEF Inv, TypeOK, Increasing, Loop, Found, Indices, vars, input

LEMMA NextKeeps == Inv /\ [Next]_vars => Inv'
  BY EnterKeeps, HalveKeeps, LeaveKeeps, Stutter DEF Next

THEOREM InvHolds == Spec => []Inv
  BY InitInv, NextKeeps, PTL DEF Spec

\* Spec => []TypeOK: the loop never leaves the list, in getPriorVotes and in
\* getDynamicQuorumParamsAt, however many checkpoints there are.
THEOREM SearchTypes == Spec => []TypeOK
<1>1. Inv => TypeOK
  BY DEF Inv
<1>2. QED
  BY <1>1, InvHolds, PTL

\* Spec => []Found: what the two functions return is the value of the latest
\* checkpoint up to the block.
THEOREM SearchFinds == Spec => []Found
<1>1. Inv => Found
  BY DEF Inv
<1>2. QED
  BY <1>1, InvHolds, PTL

\* Every turn of their loop leaves a smaller range that is not empty.
THEOREM SearchShrinks == Spec => RangeShrinks
<1> DEFINE Shrinks == pc = "loop" /\ pc' = "loop" =>
                        /\ upper' - lower' < upper - lower
                        /\ upper' >= lower'
<1>1. ASSUME Inv, Next PROVE Shrinks
  <2>1. CASE Enter
    BY <2>1 DEF Enter
  <2>2. CASE Halve
    BY <1>1, <2>2, HalveKeeps
  <2>3. CASE Leave
    BY <2>3 DEF Leave, Return
  <2>4. QED
    BY <1>1, <2>1, <2>2, <2>3 DEF Next
<1>2. Inv /\ [Next]_vars => [Shrinks]_vars
  BY <1>1
<1>3. QED
  BY <1>2, InvHolds, PTL DEF Spec, RangeShrinks
===============================================================================
