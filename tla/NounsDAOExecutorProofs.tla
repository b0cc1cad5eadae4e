------------------------ MODULE NounsDAOExecutorProofs ------------------------
(***************************************************************************)
(* The timelock keeps its promise for every set of accounts and calls and  *)
(* for every delay and grace period.                                       *)
(***************************************************************************)
EXTENDS NounsDAOExecutor, TLAPS

\* A call is made no earlier than its eta and not in the future.
MadeInTime == \A p \in performed : p[2] <= p[3] /\ p[3] <= now

\* What was made is not in the queue: queueing it again asks for a later eta.
MadeIsGone == \A p \in performed : <<p[1], p[2]>> \notin queuedTransactions

Naming(a) == [op |-> "setPendingAdmin", arg |-> a]

\* The pending admin was named by a call of the timelock to itself.
PendingWasNamed ==
    pendingAdmin # ZERO => \E p \in performed : p[1] = Naming(pendingAdmin)

\* MadeOnce alone is not inductive: it needs to know that what was made is
\* neither in the queue nor can come back.
IInv == TypeOK /\ MadeOnce /\ MadeInTime /\ MadeIsGone /\ PendingWasNamed

\* The initial state satisfies the inductive invariant.
LEMMA InitIInv == Init => IInv
BY ExecutorConstants
   DEF Init, IInv, TypeOK, MadeOnce, MadeInTime, MadeIsGone, PendingWasNamed, ValidDelay

\* Queueing a call keeps the invariant: its eta is later than that of any
\* call that was made.
LEMMA QueueStep ==
    ASSUME IInv, NEW a \in Accounts, NEW c \in Calls, NEW eta \in Etas,
           QueueTransaction(a, c, eta)
    PROVE  IInv'
<1> USE ExecutorConstants DEF QueueTransaction, IInv
<1>1. eta \in Nat /\ eta > now
  BY DEF Etas, MayQueue, TypeOK, ValidDelay
<1>2. TypeOK'
  BY <1>1 DEF TypeOK, ValidDelay
<1>3. MadeIsGone'
  <2> SUFFICES ASSUME NEW p \in performed
               PROVE  <<p[1], p[2]>> \notin queuedTransactions'
    BY ZenonT(60) DEF MadeIsGone
  <2>1. p[2] # eta
    BY <1>1 DEF MadeInTime, TypeOK
  <2> QED BY <2>1 DEF MadeIsGone
<1> QED BY <1>2, <1>3 DEF MadeOnce, MadeInTime, PendingWasNamed

\* Making a call keeps the invariant.
LEMMA ExecuteStep ==
    ASSUME IInv, NEW a \in Accounts, NEW c \in Calls, NEW eta \in Etas,
           ExecuteTransaction(a, c, eta)
    PROVE  IInv'
<1> USE ExecutorConstants DEF ExecuteTransaction, IInv
<1>1. eta \in Nat /\ now \in Nat
  BY DEF Etas, TypeOK
<1>2. TypeOK'
  <2>1. queuedTransactions' \subseteq Calls \X Nat
    BY DEF TypeOK
  <2>2. performed' \subseteq Calls \X Nat \X Nat
    BY <1>1 DEF TypeOK
  <2>3. CASE c.op = "setDelay" /\ setDelay(c.arg)
    <3>1. c.arg \in Delays
      BY <2>3 DEF Calls
    <3> QED BY ZenonT(60), <2>1, <2>2, <2>3, <3>1 DEF TypeOK, ValidDelay, setDelay
  <2>4. CASE c.op = "setPendingAdmin" /\ setPendingAdmin(c.arg)
    <3>1. c.arg \in Accounts
      BY <2>4 DEF Calls
    <3> QED BY <2>1, <2>2, <2>4, <3>1 DEF TypeOK, ValidDelay, setPendingAdmin
  <2>5. CASE c.op = "other" /\ UNCHANGED <<admin, pendingAdmin, delay>>
    BY <2>1, <2>2, <2>5 DEF TypeOK, ValidDelay
  <2> QED BY <2>3, <2>4, <2>5 DEF Call
<1>3. MadeOnce'
  <2> SUFFICES ASSUME NEW p \in performed', NEW q \in performed',
                      p[1] = q[1], p[2] = q[2]
               PROVE  p[3] = q[3]
    BY DEF MadeOnce
  <2>1. CASE p \in performed /\ q \in performed
    BY <2>1 DEF MadeOnce
  <2>2. ASSUME NEW r \in performed PROVE ~(r[1] = c /\ r[2] = eta)
    BY <2>2 DEF MadeIsGone
  <2> QED BY <2>1, <2>2
<1>4. MadeInTime'
  BY <1>1 DEF MadeInTime
<1>5. MadeIsGone'
  <2> SUFFICES ASSUME NEW p \in performed'
               PROVE  <<p[1], p[2]>> \notin queuedTransactions'
    BY ZenonT(60) DEF MadeIsGone
  <2>1. CASE p \in performed
    BY <2>1 DEF MadeIsGone
  <2>2. CASE p = <<c, eta, now>>
    BY <2>2
  <2> QED BY <2>1, <2>2
<1>6. PendingWasNamed'
  <2>1. CASE c.op = "setPendingAdmin" /\ setPendingAdmin(c.arg)
    <3>1. c = Naming(c.arg)
      BY <2>1 DEF Calls, Naming
    <3>2. <<c, eta, now>> \in performed' /\ <<c, eta, now>>[1] = Naming(pendingAdmin')
      BY <2>1, <3>1 DEF setPendingAdmin
    <3> QED BY ZenonT(60), <3>2 DEF PendingWasNamed
  <2>2. CASE UNCHANGED pendingAdmin
    BY <2>2 DEF PendingWasNamed
  <2> QED BY <2>1, <2>2 DEF Call, setDelay
<1> QED BY <1>2, <1>3, <1>4, <1>5, <1>6

\* Every step keeps the invariant.
LEMMA NextIInv == IInv /\ [Next]_vars => IInv'
<1> SUFFICES ASSUME IInv, [Next]_vars PROVE IInv'
  OBVIOUS
<1> USE ExecutorConstants
<1>1. ASSUME NEW a \in Accounts, NEW c \in Calls, NEW eta \in Etas,
             QueueTransaction(a, c, eta)
      PROVE  IInv'
  BY <1>1, QueueStep
<1>2. ASSUME NEW a \in Accounts, NEW c \in Calls, NEW eta \in Etas,
             CancelTransaction(a, c, eta)
      PROVE  IInv'
  BY <1>2 DEF CancelTransaction, IInv, TypeOK, ValidDelay, MadeOnce, MadeInTime, MadeIsGone,
              PendingWasNamed
<1>3. ASSUME NEW a \in Accounts, NEW c \in Calls, NEW eta \in Etas,
             ExecuteTransaction(a, c, eta)
      PROVE  IInv'
  BY <1>3, ExecuteStep
<1>4. ASSUME NEW a \in Accounts, AcceptAdmin(a) PROVE IInv'
  BY <1>4 DEF AcceptAdmin, IInv, TypeOK, ValidDelay, MadeOnce, MadeInTime, MadeIsGone,
              PendingWasNamed
<1>5. CASE Tick
  BY <1>5 DEF Tick, IInv, TypeOK, ValidDelay, MadeOnce, MadeInTime, MadeIsGone,
              PendingWasNamed
<1>6. CASE UNCHANGED vars
  BY <1>6 DEF vars, IInv, TypeOK, ValidDelay, MadeOnce, MadeInTime, MadeIsGone,
              PendingWasNamed
<1> QED BY <1>1, <1>2, <1>3, <1>4, <1>5, <1>6 DEF Next

\* The inductive invariant holds in every reachable state.
THEOREM Inductive == Spec => []IInv
BY InitIInv, NextIInv, PTL DEF Spec

\* The delay stays between MINIMUM_DELAY and MAXIMUM_DELAY, the admin is
\* never address(0).
THEOREM ExecutorTypes == Spec => []TypeOK
<1>1. IInv => TypeOK BY DEF IInv
<1> QED BY <1>1, Inductive, PTL

\* executeTransaction makes a call with its eta at most once.
THEOREM CallsAreMadeOnce == Spec => []MadeOnce
<1>1. IInv => MadeOnce BY DEF IInv
<1> QED BY <1>1, Inductive, PTL

\* A new admin was named by a queued call of the timelock to itself.
THEOREM AdminIsNamed == Spec => AdminWasNamed
<1>1. IInv /\ [Next]_vars =>
        [admin' # admin =>
            \E p \in performed : p[1] = [op |-> "setPendingAdmin", arg |-> admin']]_vars
  <2> SUFFICES ASSUME IInv, Next, admin' # admin
               PROVE  \E p \in performed : p[1] = [op |-> "setPendingAdmin", arg |-> admin']
    BY DEF vars
  <2>1. PICK a \in Accounts : AcceptAdmin(a)
    BY ZenonT(60) DEF Next, QueueTransaction, CancelTransaction, ExecuteTransaction, Call, setDelay,
           setPendingAdmin, Tick
  <2> QED BY <2>1, ExecutorConstants
          DEF AcceptAdmin, IInv, PendingWasNamed, Naming
<1> QED BY <1>1, Inductive, PTL DEF Spec, AdminWasNamed

\* The timelock implements DelayedExecution: every step announces, withdraws
\* or makes calls in time, or lets time pass.
THEOREM PromiseIsKept == Spec => KeepsPromise
<1> USE ExecutorConstants
<1>1. Init => Promise!Init
  BY DEF Init, Promise!Init
<1>2. IInv /\ [Next]_vars => [Promise!Next]_(Promise!promiseVars)
  <2> SUFFICES ASSUME IInv, [Next]_vars
               PROVE  Promise!Next \/ UNCHANGED Promise!promiseVars
    OBVIOUS
  <2>1. ASSUME NEW a \in Accounts, NEW c \in Calls, NEW eta \in Etas,
               QueueTransaction(a, c, eta)
        PROVE  Promise!Announce
    <3>1. eta \in Nat /\ eta >= now + MINIMUM_DELAY
      BY <2>1 DEF QueueTransaction, MayQueue, IInv, TypeOK, ValidDelay, Etas
    <3>2. \A e \in queuedTransactions' \ queuedTransactions : e = <<c, eta>>
      BY <2>1 DEF QueueTransaction
    <3> QED BY <2>1, <3>1, <3>2 DEF QueueTransaction, Promise!Announce
  <2>2. ASSUME NEW a \in Accounts, NEW c \in Calls, NEW eta \in Etas,
               CancelTransaction(a, c, eta)
        PROVE  Promise!Withdraw
    BY <2>2 DEF CancelTransaction, Promise!Withdraw
  <2>3. ASSUME NEW a \in Accounts, NEW c \in Calls, NEW eta \in Etas,
               ExecuteTransaction(a, c, eta)
        PROVE  Promise!Make
    <3> DEFINE made == {<<c, eta>>}
    <3>1. made \in SUBSET queuedTransactions
      BY <2>3 DEF ExecuteTransaction
    <3>2. \A e \in made : e[2] <= now /\ now <= e[2] + GRACE_PERIOD
      BY <2>3 DEF ExecuteTransaction, Etas, IInv, TypeOK
    <3>3. performed' = performed \cup {<<e[1], e[2], now>> : e \in made}
      BY <2>3 DEF ExecuteTransaction
    <3>4. queuedTransactions' = queuedTransactions \ made /\ UNCHANGED now
      BY <2>3 DEF ExecuteTransaction
    <3> QED BY ZenonT(60), <3>1, <3>2, <3>3, <3>4 DEF Promise!Make
  <2>4. ASSUME NEW a \in Accounts, AcceptAdmin(a) PROVE UNCHANGED Promise!promiseVars
    BY <2>4 DEF AcceptAdmin, Promise!promiseVars
  <2>5. CASE Tick
    BY <2>5 DEF Tick, IInv, TypeOK, Promise!Next, Promise!TimePasses
  <2>6. CASE UNCHANGED vars
    BY <2>6 DEF vars, Promise!promiseVars
  <2> QED BY <2>1, <2>2, <2>3, <2>4, <2>5, <2>6 DEF Next, Promise!Next
<1> QED BY <1>1, <1>2, Inductive, PTL DEF Spec, KeepsPromise, Promise!Spec

===============================================================================
