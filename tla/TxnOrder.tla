------------------------------ MODULE TxnOrder ------------------------------
(***************************************************************************)
(* What the transaction manager promises, without its queues, goroutines   *)
(* and stores: timestamps from one clock, one outcome per transaction,     *)
(* outcomes that become final in timestamp order, and an answer to the     *)
(* caller after the outcome and never before.                              *)
(***************************************************************************)
EXTENDS Naturals

CONSTANTS
    Txns,
    PrevTs      \* the clock starts where an earlier incarnation left it

VARIABLES
    clock,      \* last timestamp drawn
    start,      \* start timestamp, 0 before the transaction starts
    stamp,      \* commit timestamp, 0 before one is drawn
    outcome,    \* "open", "pending", "committed" or "aborted"
    answered    \* transactions whose caller has its answer

vars == <<clock, start, stamp, outcome, answered>>

Init ==
    /\ clock = PrevTs
    /\ start = [t \in Txns |-> 0]
    /\ stamp = [t \in Txns |-> 0]
    /\ outcome = [t \in Txns |-> "open"]
    /\ answered = {}

Begin(t) ==
    /\ start[t] = 0
    /\ clock' = clock + 1
    /\ start' = [start EXCEPT ![t] = clock']
    /\ UNCHANGED <<stamp, outcome, answered>>

\* From here on the transaction is ordered among all others.
DrawStamp(t) ==
    /\ start[t] # 0
    /\ outcome[t] = "open"
    /\ clock' = clock + 1
    /\ stamp' = [stamp EXCEPT ![t] = clock']
    /\ outcome' = [outcome EXCEPT ![t] = "pending"]
    /\ UNCHANGED <<start, answered>>

\* The oldest pending transaction, and no other, may become final.
Resolve(t, o) ==
    /\ outcome[t] = "pending"
    /\ \A u \in Txns : outcome[u] = "pending" => stamp[t] <= stamp[u]
    /\ outcome' = [outcome EXCEPT ![t] = o]
    /\ UNCHANGED <<clock, start, stamp, answered>>

Answer(t) ==
    /\ outcome[t] \in {"committed", "aborted"}
    /\ answered' = answered \cup {t}
    /\ UNCHANGED <<clock, start, stamp, outcome>>

Final(t) == Resolve(t, "committed") \/ Resolve(t, "aborted")

Next == \E t \in Txns : Begin(t) \/ DrawStamp(t) \/ Final(t) \/ Answer(t)

Spec == Init /\ [][Next]_vars

FairSpec ==
    /\ Spec
    /\ WF_vars(\E t \in Txns : Final(t))
    /\ \A t \in Txns : WF_vars(Answer(t))
=============================================================================
