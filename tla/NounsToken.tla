------------------------------ MODULE NounsToken ------------------------------
(***************************************************************************)
(* The voting token of the DAO: ERC-721 ownership and approvals, the       *)
(* delegation of votes with one checkpoint per account and block, minting  *)
(* with the nounders' reward, and the owner's locks.                       *)
(*                                                                         *)
(* Sources: NounsToken.sol, base/ERC721.sol, base/ERC721Checkpointable.sol.*)
(* The fork DAO's token has the same delegation code but for one require,  *)
(* which RejectsZeroBySig stands for.                                      *)
(*                                                                         *)
(* A transaction that reverts changes nothing, so only the successful      *)
(* calls are actions; their guards are the requires of the code.           *)
(***************************************************************************)
EXTENDS Integers, Sequences, FiniteSets

CONSTANTS
    Accounts,           \* every address but address(0)
    ZERO,               \* address(0)
    MaxNounId,          \* bound: nouns 0 .. MaxNounId are minted
    FirstBlock,         \* the block of the deployment
    MaxBlock,           \* bound: the last block
    MaxNonce,           \* bound: signed delegations per account
    RewardUntil,        \* 1820: the last noun that may be a nounders' reward
    RewardEvery,        \* 10: one noun in so many is a reward
    RejectsZeroBySig,   \* does delegateBySig refuse address(0)?
    Spenders,           \* the accounts holders may approve
    MinterChoices,      \* what the owner may pass to setMinter
    NoundersChoices,    \* what the nounders may pass to setNoundersDAO
    Proxies             \* Proxies[a]: the registered OpenSea proxy of a

NounIds == 0 .. MaxNounId
Address == Accounts \cup {ZERO}

ASSUME TokenConstants ==
    /\ ZERO \notin Accounts
    /\ MaxNounId \in Nat /\ MaxNonce \in Nat
    /\ FirstBlock \in Nat /\ MaxBlock \in Nat
    /\ RewardUntil \in Int /\ RewardEvery \in Nat \ {0}
    /\ RejectsZeroBySig \in BOOLEAN
    /\ Spenders \subseteq Accounts
    /\ MinterChoices \subseteq Address /\ NoundersChoices \subseteq Address
    /\ Proxies \in [Accounts -> Address]

VARIABLES
    owners,             \* _owners
    balances,           \* _balances
    tokenApprovals,     \* _tokenApprovals
    operatorApprovals,  \* _operatorApprovals
    delegatee,          \* _delegates, ZERO where nothing was set
    checkpoints,        \* checkpoints and numCheckpoints, oldest first
    nonces,
    currentNounId,      \* _currentNounId
    minter,
    noundersDAO,
    isMinterLocked,
    blockNumber         \* block.number

ownership == <<owners, balances, tokenApprovals>>
roles == <<currentNounId, minter, noundersDAO, isMinterLocked>>
votingVars == <<delegatee, checkpoints, nonces>>
vars == <<ownership, operatorApprovals, votingVars, roles, blockNumber>>

Checkpoint == [fromBlock : Nat, votes : Nat]

------------------------------------------------------------------------------
(* Votes: ERC721Checkpointable                                             *)

\* getCurrentVotes, on a given state cps of the checkpoints
VotesIn(cps, a) == IF cps[a] = <<>> THEN 0 ELSE cps[a][Len(cps[a])].votes

getCurrentVotes(a) == VotesIn(checkpoints, a)

\* delegates(): an account that has not delegated is its own delegate
DelegateOf(d, a) == IF a = ZERO THEN ZERO ELSE IF d[a] = ZERO THEN a ELSE d[a]

delegates(a) == DelegateOf(delegatee, a)

\* Mutant: a second write in one block appends instead of replacing.
writeCheckpointAlwaysAppends(cps, rep, newVotes) ==
    [cps EXCEPT ![rep] = Append(@, [fromBlock |-> blockNumber, votes |-> newVotes])]

\* Mutant: the test of fromBlock is dropped, the last checkpoint is rewritten.
writeCheckpointAlwaysReplaces(cps, rep, newVotes) ==
    LET s == cps[rep]
    IN  [cps EXCEPT ![rep] =
            IF s # <<>> THEN [s EXCEPT ![Len(s)].votes = newVotes]
            ELSE <<[fromBlock |-> blockNumber, votes |-> newVotes]>>]

writeCheckpoint(cps, rep, newVotes) ==
    LET s == cps[rep]
        n == Len(s)
        cp == [fromBlock |-> blockNumber, votes |-> newVotes]
    IN  [cps EXCEPT ![rep] =
            IF s # <<>> /\ s[n].fromBlock = blockNumber
            THEN [s EXCEPT ![n] = cp]
            ELSE Append(s, cp)]

\* sub96 reverts on underflow
CanMove(cps, srcRep, dstRep, amount) ==
    srcRep # dstRep /\ srcRep # ZERO => amount <= VotesIn(cps, srcRep)

moveDelegates(cps, srcRep, dstRep, amount) ==
    IF srcRep = dstRep \/ amount = 0 THEN cps
    ELSE LET taken == IF srcRep = ZERO THEN cps
                      ELSE writeCheckpoint(cps, srcRep, VotesIn(cps, srcRep) - amount)
         IN  IF dstRep = ZERO THEN taken
             ELSE writeCheckpoint(taken, dstRep, VotesIn(taken, dstRep) + amount)

\* _delegate
SetDelegate(delegator, to) ==
    LET current == delegates(delegator)
        amount == balances[delegator]
    IN  /\ CanMove(checkpoints, current, to, amount)
        /\ delegatee' = [delegatee EXCEPT ![delegator] = to]
        /\ checkpoints' = moveDelegates(checkpoints, current, to, amount)

Delegate(sender, to) ==
    /\ SetDelegate(sender, IF to = ZERO THEN sender ELSE to)
    /\ UNCHANGED <<ownership, operatorApprovals, nonces, roles, blockNumber>>

\* Anyone may submit the signature of an account; its nonce is used up.
DelegateBySig(signatory, to) ==
    /\ RejectsZeroBySig => to # ZERO
    /\ nonces[signatory] < MaxNonce
    /\ nonces' = [nonces EXCEPT ![signatory] = @ + 1]
    /\ SetDelegate(signatory, to)
    /\ UNCHANGED <<ownership, operatorApprovals, roles, blockNumber>>

------------------------------------------------------------------------------
(* Ownership: ERC721                                                       *)

exists(id) == owners[id] # ZERO

isApprovedForAll(owner, operator) ==
    \/ Proxies[owner] = operator
    \/ operatorApprovals[owner][operator]

isApprovedOrOwner(spender, id) ==
    /\ exists(id)
    /\ \/ spender = owners[id]
       \/ tokenApprovals[id] = spender
       \/ isApprovedForAll(owners[id], spender)

Approve(sender, to, id) ==
    /\ exists(id)
    /\ to # owners[id]
    /\ sender = owners[id] \/ isApprovedForAll(owners[id], sender)
    /\ tokenApprovals' = [tokenApprovals EXCEPT ![id] = to]
    /\ UNCHANGED <<owners, balances, operatorApprovals, votingVars, roles, blockNumber>>

SetApprovalForAll(sender, operator, approved) ==
    /\ operator # sender
    /\ operatorApprovals' = [operatorApprovals EXCEPT ![sender][operator] = approved]
    /\ UNCHANGED <<ownership, votingVars, roles, blockNumber>>

\* Mutant: both balances are read before either is written.
TransferFromCachesBalances(sender, to, id) ==
    LET from == owners[id]
    IN  /\ isApprovedOrOwner(sender, id)
        /\ CanMove(checkpoints, delegates(from), delegates(to), 1)
        /\ checkpoints' = moveDelegates(checkpoints, delegates(from), delegates(to), 1)
        /\ tokenApprovals' = [tokenApprovals EXCEPT ![id] = ZERO]
        /\ balances' = [[balances EXCEPT ![from] = @ - 1] EXCEPT ![to] = balances[to] + 1]
        /\ owners' = [owners EXCEPT ![id] = to]
        /\ UNCHANGED <<operatorApprovals, delegatee, nonces, roles, blockNumber>>

\* Mutant: the votes move between the owners and not between their delegates.
TransferFromIgnoresDelegates(sender, to, id) ==
    LET from == owners[id]
    IN  /\ isApprovedOrOwner(sender, id)
        /\ CanMove(checkpoints, from, to, 1)
        /\ checkpoints' = moveDelegates(checkpoints, from, to, 1)
        /\ tokenApprovals' = [tokenApprovals EXCEPT ![id] = ZERO]
        /\ balances' = [[balances EXCEPT ![from] = @ - 1] EXCEPT ![to] = @ + 1]
        /\ owners' = [owners EXCEPT ![id] = to]
        /\ UNCHANGED <<operatorApprovals, delegatee, nonces, roles, blockNumber>>

\* Mutant: _transfer forgets to clear the approval of the previous owner.
TransferFromKeepsApproval(sender, to, id) ==
    LET from == owners[id]
    IN  /\ isApprovedOrOwner(sender, id)
        /\ CanMove(checkpoints, delegates(from), delegates(to), 1)
        /\ checkpoints' = moveDelegates(checkpoints, delegates(from), delegates(to), 1)
        /\ balances' = [[balances EXCEPT ![from] = @ - 1] EXCEPT ![to] = @ + 1]
        /\ owners' = [owners EXCEPT ![id] = to]
        /\ UNCHANGED <<tokenApprovals, operatorApprovals, delegatee, nonces, roles,
                       blockNumber>>

\* transferFrom and safeTransferFrom: _beforeTokenTransfer moves the vote
\* before the owner changes, so both delegates are those of the old state.
TransferFrom(sender, to, id) ==
    LET from == owners[id]
    IN  /\ isApprovedOrOwner(sender, id)
        /\ CanMove(checkpoints, delegates(from), delegates(to), 1)
        /\ checkpoints' = moveDelegates(checkpoints, delegates(from), delegates(to), 1)
        /\ tokenApprovals' = [tokenApprovals EXCEPT ![id] = ZERO]
        /\ balances' = [[balances EXCEPT ![from] = @ - 1] EXCEPT ![to] = @ + 1]
        /\ owners' = [owners EXCEPT ![id] = to]
        /\ UNCHANGED <<operatorApprovals, delegatee, nonces, roles, blockNumber>>

------------------------------------------------------------------------------
(* Minting, burning and the roles: NounsToken                              *)

IsRewardId(id) == id <= RewardUntil /\ id % RewardEvery = 0

\* The mint of one noun inside mint(): _mintTo with the checkpoint it writes
MintVote(cps, to) == moveDelegates(cps, ZERO, delegates(to), 1)

\* Mutant: the next id is the number of nouns, not the counter.
MintNounBySupply ==
    LET id == Cardinality({i \in NounIds : exists(i)})
    IN  /\ id <= MaxNounId /\ minter # ZERO
        /\ ~exists(id)
        /\ checkpoints' = MintVote(checkpoints, minter)
        /\ balances' = [balances EXCEPT ![minter] = @ + 1]
        /\ owners' = [owners EXCEPT ![id] = minter]
        /\ currentNounId' = currentNounId + 1
        /\ UNCHANGED <<tokenApprovals, operatorApprovals, delegatee, nonces, minter,
                       noundersDAO, isMinterLocked, blockNumber>>

\* mint() when no reward is due
MintNoun ==
    LET id == currentNounId
    IN  /\ ~IsRewardId(id)
        /\ id <= MaxNounId /\ minter # ZERO
        /\ ~exists(id)
        /\ checkpoints' = MintVote(checkpoints, minter)
        /\ balances' = [balances EXCEPT ![minter] = @ + 1]
        /\ owners' = [owners EXCEPT ![id] = minter]
        /\ currentNounId' = id + 1
        /\ UNCHANGED <<tokenApprovals, operatorApprovals, delegatee, nonces, minter,
                       noundersDAO, isMinterLocked, blockNumber>>

\* mint() when the next noun is a reward: one for the nounders, then one for
\* the minter.  It reverts when the nounders' address is address(0).
MintWithReward ==
    LET id == currentNounId
    IN  /\ IsRewardId(id)
        /\ id + 1 <= MaxNounId /\ minter # ZERO
        /\ noundersDAO # ZERO
        /\ ~exists(id) /\ ~exists(id + 1)
        /\ checkpoints' = MintVote(MintVote(checkpoints, noundersDAO), minter)
        /\ balances' = [[balances EXCEPT ![noundersDAO] = @ + 1] EXCEPT ![minter] = @ + 1]
        /\ owners' = [[owners EXCEPT ![id] = noundersDAO] EXCEPT ![id + 1] = minter]
        /\ currentNounId' = id + 2
        /\ UNCHANGED <<tokenApprovals, operatorApprovals, delegatee, nonces, minter,
                       noundersDAO, isMinterLocked, blockNumber>>

\* burn(): the minter may burn any noun, whoever owns it
Burn(id) ==
    LET owner == owners[id]
    IN  /\ minter # ZERO
        /\ exists(id)
        /\ CanMove(checkpoints, delegates(owner), ZERO, 1)
        /\ checkpoints' = moveDelegates(checkpoints, delegates(owner), ZERO, 1)
        /\ tokenApprovals' = [tokenApprovals EXCEPT ![id] = ZERO]
        /\ balances' = [balances EXCEPT ![owner] = @ - 1]
        /\ owners' = [owners EXCEPT ![id] = ZERO]
        /\ UNCHANGED <<operatorApprovals, delegatee, nonces, roles, blockNumber>>

SetNoundersDAO(to) ==
    /\ noundersDAO # ZERO
    /\ noundersDAO' = to
    /\ UNCHANGED <<ownership, operatorApprovals, votingVars, currentNounId, minter,
                   isMinterLocked, blockNumber>>

SetMinter(to) ==
    /\ ~isMinterLocked
    /\ minter' = to
    /\ UNCHANGED <<ownership, operatorApprovals, votingVars, currentNounId, noundersDAO,
                   isMinterLocked, blockNumber>>

LockMinter ==
    /\ ~isMinterLocked
    /\ isMinterLocked' = TRUE
    /\ UNCHANGED <<ownership, operatorApprovals, votingVars, currentNounId, minter,
                   noundersDAO, blockNumber>>

NextBlock ==
    /\ blockNumber < MaxBlock
    /\ blockNumber' = blockNumber + 1
    /\ UNCHANGED <<ownership, operatorApprovals, votingVars, roles>>

------------------------------------------------------------------------------
Init ==
    /\ owners = [id \in NounIds |-> ZERO]
    /\ balances = [a \in Accounts |-> 0]
    /\ tokenApprovals = [id \in NounIds |-> ZERO]
    /\ operatorApprovals = [a \in Accounts |-> [b \in Accounts |-> FALSE]]
    /\ delegatee = [a \in Accounts |-> ZERO]
    /\ checkpoints = [a \in Accounts |-> <<>>]
    /\ nonces = [a \in Accounts |-> 0]
    /\ currentNounId = 0
    /\ minter \in Accounts
    /\ noundersDAO \in Accounts
    /\ isMinterLocked = FALSE
    /\ blockNumber = FirstBlock

Next ==
    \/ \E a \in Accounts, to \in Address : Delegate(a, to) \/ DelegateBySig(a, to)
    \/ \E a \in Accounts, to \in Spenders \cup {ZERO}, id \in NounIds : Approve(a, to, id)
    \/ \E a \in Accounts, op \in Spenders, ok \in BOOLEAN : SetApprovalForAll(a, op, ok)
    \/ \E a \in Accounts, to \in Accounts, id \in NounIds : TransferFrom(a, to, id)
    \/ MintNoun
    \/ MintWithReward
    \/ \E id \in NounIds : Burn(id)
    \/ \E to \in NoundersChoices : SetNoundersDAO(to)
    \/ \E to \in MinterChoices : SetMinter(to)
    \/ LockMinter
    \/ NextBlock

Spec == Init /\ [][Next]_vars

------------------------------------------------------------------------------
(* Properties                                                              *)

TypeOK ==
    /\ owners \in [NounIds -> Address]
    /\ balances \in [Accounts -> Nat]
    /\ tokenApprovals \in [NounIds -> Address]
    /\ operatorApprovals \in [Accounts -> [Accounts -> BOOLEAN]]
    /\ delegatee \in [Accounts -> Address]
    /\ checkpoints \in [Accounts -> Seq(Checkpoint)]
    /\ nonces \in [Accounts -> Nat]
    /\ currentNounId \in Nat
    /\ minter \in Address /\ noundersDAO \in Address
    /\ isMinterLocked \in BOOLEAN
    /\ blockNumber \in Nat

\* The nouns an account holds, and those whose vote it casts
Held(a) == {id \in NounIds : owners[id] = a}
DelegatedTo(a) == {id \in NounIds : owners[id] # ZERO /\ delegates(owners[id]) = a}

\* The cached balance of ERC721 counts the nouns an account owns, whatever
\* sequence of mints, burns and transfers (self-transfers included) led there.
BalancesCountHoldings == \A a \in Accounts : balances[a] = Cardinality(Held(a))

\* An account never has more votes than nouns delegated to it: no sequence
\* of transfers, delegations and burns counts a noun twice.
NoVoteFromNothing ==
    \A a \in Accounts : getCurrentVotes(a) <= Cardinality(DelegatedTo(a))

\* Where delegateBySig refuses address(0), every noun gives exactly one vote,
\* to the delegate of its owner, and so no transfer, burn or delegation ever
\* reverts on the subtraction in _moveDelegates.
VotesMatchDelegations ==
    RejectsZeroBySig =>
        \A a \in Accounts : getCurrentVotes(a) = Cardinality(DelegatedTo(a))

\* delegates() "returns the delegator's own address if there is no delegate"
\* (ERC721Checkpointable.sol:30-31): the delegate of an account then has at
\* least the votes of that account's nouns.
DelegateHasTheVotes ==
    \A a \in Accounts : getCurrentVotes(delegates(a)) >= balances[a]

\* A checkpoint sequence in strictly increasing block order, none after b
Ordered(s, b) ==
    /\ \A i \in 1 .. Len(s) : s[i].fromBlock <= b
    /\ \A i, j \in 1 .. Len(s) : i < j => s[i].fromBlock < s[j].fromBlock

\* Checkpoints of an account are in strictly increasing block order and none
\* is later than the current block: what the binary search of getPriorVotes
\* takes for granted.
CheckpointsOrdered == \A a \in Accounts : Ordered(checkpoints[a], blockNumber)

\* The checkpoints that are not after block b, and the last of them
UpTo(s, b) == {i \in 1 .. Len(s) : s[i].fromBlock <= b}
Latest(I) == CHOOSE i \in I : \A j \in I : j <= i

\* What getPriorVotes returns for a finished block b: the votes of the last
\* checkpoint not after b (CheckpointSearch shows that the search finds it).
PriorVotes(s, b) ==
    IF UpTo(s, b) = {} THEN 0 ELSE s[Latest(UpTo(s, b))].votes

Snapshot == INSTANCE SnapshotVotes WITH
    block <- blockNumber,
    votes <- [a \in Accounts |-> getCurrentVotes(a)],
    prior <- [b \in FirstBlock .. (blockNumber - 1) |->
                 [a \in Accounts |-> PriorVotes(checkpoints[a], b)]]

\* The token implements SnapshotVotes: the votes of an account at a finished
\* block are those it had when the block ended, and nothing done later, in
\* the same or in another block, changes them.
ImplementsSnapshots == Snapshot!Spec

\* A noun that was burnt, or skipped, is never minted again: its id stays free
\* once currentNounId is past it.
BurntStaysBurnt ==
    [][\A id \in NounIds :
          id < currentNounId /\ owners[id] = ZERO => owners'[id] = ZERO]_vars

\* A single-noun approval dies with the ownership it was given under: after
\* any step that changes the owner, nobody is approved.
ApprovalEndsWithOwnership ==
    [][\A id \in NounIds :
          owners'[id] # owners[id] => tokenApprovals'[id] = ZERO]_vars

==============================================================================
