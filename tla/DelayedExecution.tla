--------------------------- MODULE DelayedExecution ---------------------------
(***************************************************************************)
(* What the DAO promises through its timelocks: a call is announced with   *)
(* the time (eta) from which it may be made, at least MinDelay ahead; it   *)
(* is made between eta and the end of the grace period, or never.          *)
(*                                                                         *)
(* Several calls may be announced, withdrawn or made in one step, as those *)
(* of one proposal are.                                                    *)
(***************************************************************************)
EXTENDS Naturals

CONSTANTS
    Txs,            \* the calls
    MinDelay,       \* the shortest notice
    Grace           \* how long after eta a call may be made

VARIABLES
    time,
    announced,      \* set of <<call, eta>>
    made            \* history: set of <<call, eta, time of the call>>

promiseVars == <<time, announced, made>>

Init ==
    /\ time \in Nat
    /\ announced = {}
    /\ made = {}

Announce ==
    /\ announced \subseteq announced'
    /\ \A c \in announced' \ announced :
           c \in Txs \X Nat /\ c[2] >= time + MinDelay
    /\ UNCHANGED <<time, made>>

Withdraw ==
    /\ announced' \subseteq announced
    /\ UNCHANGED <<time, made>>

Make ==
    \E calls \in SUBSET announced :
        /\ \A c \in calls : c[2] <= time /\ time <= c[2] + Grace
        /\ announced' = announced \ calls
        /\ made' = made \cup {<<c[1], c[2], time>> : c \in calls}
        /\ UNCHANGED time

TimePasses ==
    /\ time' \in Nat
    /\ time' >= time
    /\ UNCHANGED <<announced, made>>

Next == Announce \/ Withdraw \/ Make \/ TimePasses

Spec == Init /\ [][Next]_promiseVars

===============================================================================
