---------------------------- MODULE SnapshotVotes ----------------------------
(***************************************************************************)
(* What governance needs from the Nouns token: every account has a number  *)
(* of votes that may change inside a block in any way, and the votes an    *)
(* account had at the end of a finished block are fixed for ever.          *)
(*                                                                         *)
(* NounsToken is shown to implement this specification; NounsDAO reads the *)
(* votes of an account at an earlier block through it.                     *)
(***************************************************************************)
EXTENDS Naturals

CONSTANTS
    Accounts,       \* every address but address(0)
    FirstBlock      \* the block in which the token is deployed

VARIABLES
    block,          \* block.number
    votes,          \* votes[a]: getCurrentVotes(a)
    prior           \* prior[b][a]: getPriorVotes(a, b), for every finished b

snapshotVars == <<block, votes, prior>>

Finished(b) == FirstBlock .. (b - 1)

Init ==
    /\ block = FirstBlock
    /\ votes = [a \in Accounts |-> 0]
    /\ prior = [b \in Finished(FirstBlock) |-> [a \in Accounts |-> 0]]

\* A mint, a burn, a transfer or a delegation: the current votes change, the
\* past does not.
ChangeVotes ==
    /\ votes' \in [Accounts -> Nat]
    /\ UNCHANGED <<block, prior>>

\* The block ends: its votes become the snapshot of that block.
FinishBlock ==
    /\ block' = block + 1
    /\ prior' = [b \in Finished(block + 1) |->
                    IF b = block THEN votes ELSE prior[b]]
    /\ UNCHANGED votes

Next == ChangeVotes \/ FinishBlock

Spec == Init /\ [][Next]_snapshotVars

==============================================================================
