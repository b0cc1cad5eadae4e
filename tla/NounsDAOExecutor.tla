--------------------------- MODULE NounsDAOExecutor ---------------------------
(***************************************************************************)
(* The timelock.  Its admin, the governor, queues calls, cancels them and  *)
(* has them made after a delay; the delay and the pending admin are set by *)
(* the timelock itself, that is by calls it makes.                         *)
(*                                                                         *)
(* Sources: NounsDAOExecutorV2.sol, and NounsDAOExecutor.sol, which has    *)
(* the same functions, a shorter GRACE_PERIOD and no sendETH, sendERC20.   *)
(*                                                                         *)
(* A call is a record [op, arg]: the two calls to the timelock itself are  *)
(* told apart, every other call is "other" and may fail.                   *)
(***************************************************************************)
EXTENDS Naturals, FiniteSets

CONSTANTS
    Accounts,       \* the addresses that may become admin
    ZERO,           \* address(0)
    Others,         \* the calls to other contracts
    Delays,         \* the delays a setDelay call may ask for
    MINIMUM_DELAY, MAXIMUM_DELAY, GRACE_PERIOD,
    MaxTime,        \* bound: the last block.timestamp
    MaxCalls        \* bound: calls queued or made

ASSUME ExecutorConstants ==
    /\ ZERO \notin Accounts
    /\ Delays \subseteq Nat
    /\ MINIMUM_DELAY \in Nat \ {0} /\ MAXIMUM_DELAY \in Nat
    /\ GRACE_PERIOD \in Nat /\ MaxTime \in Nat /\ MaxCalls \in Nat

Calls ==
    [op : {"setDelay"}, arg : Delays] \cup [op : {"setPendingAdmin"}, arg : Accounts]
        \cup [op : {"other"}, arg : Others]

VARIABLES
    admin, pendingAdmin, delay,
    queuedTransactions,     \* set of <<call, eta>>
    now,                    \* block.timestamp
    performed               \* history: set of <<call, eta, timestamp>>

vars == <<admin, pendingAdmin, delay, queuedTransactions, now, performed>>

ValidDelay(d) == MINIMUM_DELAY <= d /\ d <= MAXIMUM_DELAY

Init ==
    /\ admin \in Accounts
    /\ pendingAdmin = ZERO
    /\ delay \in {d \in Delays : ValidDelay(d)}
    /\ queuedTransactions = {}
    /\ now = 0
    /\ performed = {}

------------------------------------------------------------------------------
(* Queueing and cancelling, by the admin                                   *)

\* Mutant: the eta may be any time from now on.
MayQueueAtOnce(eta) == eta >= now

MayQueue(eta) == eta >= now + delay

QueueTransaction(sender, call, eta) ==
    /\ sender = admin
    /\ MayQueue(eta)
    /\ Cardinality(queuedTransactions) + Cardinality(performed) < MaxCalls
    /\ queuedTransactions' = queuedTransactions \cup {<<call, eta>>}
    /\ UNCHANGED <<admin, pendingAdmin, delay, now, performed>>

CancelTransaction(sender, call, eta) ==
    /\ sender = admin
    /\ queuedTransactions' = queuedTransactions \ {<<call, eta>>}
    /\ UNCHANGED <<admin, pendingAdmin, delay, now, performed>>

------------------------------------------------------------------------------
(* The timelock's calls to itself                                          *)

\* Mutant: the bounds are checked by the constructor only.
setDelayUnchecked(d) ==
    /\ delay' = d
    /\ UNCHANGED <<admin, pendingAdmin>>

setDelay(d) ==
    /\ ValidDelay(d)
    /\ delay' = d
    /\ UNCHANGED <<admin, pendingAdmin>>

setPendingAdmin(a) ==
    /\ pendingAdmin' = a
    /\ UNCHANGED <<admin, delay>>

\* The effect of the call; where it reverts, so does executeTransaction
Call(call) ==
    \/ call.op = "setDelay" /\ setDelay(call.arg)
    \/ call.op = "setPendingAdmin" /\ setPendingAdmin(call.arg)
    \/ call.op = "other" /\ UNCHANGED <<admin, pendingAdmin, delay>>

ExecuteTransaction(sender, call, eta) ==
    /\ sender = admin
    /\ <<call, eta>> \in queuedTransactions
    /\ now >= eta
    /\ now <= eta + GRACE_PERIOD
    /\ queuedTransactions' = queuedTransactions \ {<<call, eta>>}
    /\ Call(call)
    /\ performed' = performed \cup {<<call, eta, now>>}
    /\ UNCHANGED now

\* Mutant: anybody may take the role.
AcceptAdminUnasked(sender) ==
    /\ admin' = sender
    /\ pendingAdmin' = ZERO
    /\ UNCHANGED <<delay, queuedTransactions, now, performed>>

AcceptAdmin(sender) ==
    /\ sender = pendingAdmin
    /\ admin' = sender
    /\ pendingAdmin' = ZERO
    /\ UNCHANGED <<delay, queuedTransactions, now, performed>>

Tick ==
    /\ now < MaxTime
    /\ now' = now + 1
    /\ UNCHANGED <<admin, pendingAdmin, delay, queuedTransactions, performed>>

Etas == 0 .. (MaxTime + MAXIMUM_DELAY)

Next ==
    \/ \E a \in Accounts, c \in Calls, eta \in Etas :
           \/ QueueTransaction(a, c, eta)
           \/ CancelTransaction(a, c, eta)
           \/ ExecuteTransaction(a, c, eta)
    \/ \E a \in Accounts : AcceptAdmin(a)
    \/ Tick

Spec == Init /\ [][Next]_vars

------------------------------------------------------------------------------
(* Properties                                                              *)

TypeOK ==
    /\ admin \in Accounts /\ pendingAdmin \in Accounts \cup {ZERO}
    /\ delay \in Nat /\ ValidDelay(delay)
    /\ queuedTransactions \subseteq Calls \X Nat
    /\ now \in Nat
    /\ performed \subseteq Calls \X Nat \X Nat

\* executeTransaction makes a queued call once: the same call with the same
\* eta is never made a second time, queued again or not.
MadeOnce ==
    \A p, q \in performed : p[1] = q[1] /\ p[2] = q[2] => p[3] = q[3]

\* The role changes hands only to somebody the timelock named itself, in a
\* call that waited in the queue.
AdminWasNamed ==
    [][admin' # admin =>
          \E p \in performed : p[1] = [op |-> "setPendingAdmin", arg |-> admin']]_vars

Promise == INSTANCE DelayedExecution WITH
    Txs <- Calls, MinDelay <- MINIMUM_DELAY, Grace <- GRACE_PERIOD,
    time <- now, announced <- queuedTransactions, made <- performed

\* Whatever setDelay does to the delay while calls wait in the queue, every
\* call has MINIMUM_DELAY of notice and is made within GRACE_PERIOD of its
\* eta (DelayedExecution).
KeepsPromise == Promise!Spec

==============================================================================
