----------------------------- MODULE TxnManager -----------------------------
(***************************************************************************)
(* The transaction manager of pkg/txn/txnbase: timestamp allocation, the   *)
(* prepare goroutine (onPreparing), the commit goroutine (onCommit), the   *)
(* blocking calls Commit and Rollback, and GetTxnState, on which readers   *)
(* park until a committing transaction is done.                            *)
(*                                                                         *)
(* What a store answers when it is asked to prepare is a parameter of the  *)
(* action: Next lets it be anything, and a module that composes the        *)
(* manager with a store conjoins the action with the store's step.         *)
(***************************************************************************)
EXTENDS Naturals, Sequences, FiniteSets

CONSTANTS
    Txns,       \* transactions that may be started
    NoTxn,      \* "no transaction"
    Preparer,   \* the prepare goroutine, as a caller of GetTxnState
    PrevTs,     \* last timestamp of an earlier incarnation (TxnManager.Init)
    QueueCap    \* capacity of the channel behind each sm.SafeQueue

ASSUME ConstantsAssumption ==
    /\ NoTxn \notin Txns
    /\ Preparer \notin Txns
    /\ PrevTs \in Nat
    /\ QueueCap \in Nat \ {0}

VARIABLES
    tsAlloc,    \* last timestamp TsAlloc has handed out
    state,      \* Txn.State
    startTS,    \* Txn.StartTS (0 before StartTxn)
    commitTS,   \* Txn.CommitTS
    err,        \* Txn.Err
    op,         \* OpTxn.Op of the queued operation
    call,       \* the method, Commit or Rollback, the client has called
    active,     \* TxnManager.Active
    wg,         \* Txn.WaitGroup
    client,     \* where the goroutine that uses the transaction is
    pqueue,     \* operations received and not prepared yet
    cqueue,     \* operations prepared and not applied yet
    prep,       \* the prepare goroutine
    comm,       \* the commit goroutine
    parked,     \* whom a caller of GetTxnState waits for on DoneCond
    learned     \* the state a caller's last wait returned ("none" until then)

mgrVars == <<tsAlloc, state, startTS, commitTS, err, op, call, active, wg,
             client, pqueue, cqueue, prep, comm, parked, learned>>

Callers == Txns \cup {Preparer}

States == {"Active", "Committing", "Rollbacking", "Committed", "Rollbacked"}
Terminal == {"Committed", "Rollbacked"}
Ops == {"None", "Commit", "Rollback"}
Errors == {"nil", "storeError", "TxnRollbacked"}
StoreErrors == {"nil", "storeError"}

\* ^uint64(0) in the code; it is tested for and never compared.
UncommitTS == 0

Idle == [pc |-> "idle", txn |-> NoTxn]

MgrInit ==
    /\ tsAlloc = PrevTs
    /\ state = [t \in Txns |-> "Active"]
    /\ startTS = [t \in Txns |-> 0]
    /\ commitTS = [t \in Txns |-> UncommitTS]
    /\ err = [t \in Txns |-> "nil"]
    /\ op = [t \in Txns |-> "None"]
    /\ call = [t \in Txns |-> "None"]
    /\ active = {}
    /\ wg = [t \in Txns |-> 0]
    /\ client = [t \in Txns |-> "unborn"]
    /\ pqueue = <<>>
    /\ cqueue = <<>>
    /\ prep = Idle
    /\ comm = Idle
    /\ parked = [p \in Callers |-> NoTxn]
    /\ learned = [p \in Callers |-> "none"]

-----------------------------------------------------------------------------
(* The goroutine that owns a transaction.                                  *)

StartTxn(t) ==
    /\ client[t] = "unborn"
    /\ tsAlloc' = tsAlloc + 1
    /\ startTS' = [startTS EXCEPT ![t] = tsAlloc + 1]
    /\ active' = active \cup {t}
    /\ client' = [client EXCEPT ![t] = "open"]
    /\ UNCHANGED <<state, commitTS, err, op, call, wg, pqueue, cqueue, prep,
                   comm, parked, learned>>

\* Commit and Rollback up to txn.Wait(): count, and enqueue the operation.
\* The send on the channel blocks while the channel is full.
Terminate(t, o) ==
    /\ client[t] = "open"
    /\ parked[t] = NoTxn
    /\ Len(pqueue) < QueueCap
    /\ wg' = [wg EXCEPT ![t] = @ + 1]
    /\ op' = [op EXCEPT ![t] = o]
    /\ call' = [call EXCEPT ![t] = o]
    /\ pqueue' = Append(pqueue, t)
    /\ client' = [client EXCEPT ![t] = "waiting"]
    /\ UNCHANGED <<tsAlloc, state, startTS, commitTS, err, active, cqueue,
                   prep, comm, parked, learned>>

Commit(t) == Terminate(t, "Commit")

Rollback(t) == Terminate(t, "Rollback")

\* The rest of Commit and Rollback: Wait returns, DeleteTxn, and txn.Err is
\* the result of the call.
Return(t) ==
    /\ client[t] = "waiting"
    /\ wg[t] = 0
    /\ active' = active \ {t}
    /\ client' = [client EXCEPT ![t] = "returned"]
    /\ UNCHANGED <<tsAlloc, state, startTS, commitTS, err, op, call, wg,
                   pqueue, cqueue, prep, comm, parked, learned>>

\* The wait of GetTxnState(true). The first unlocked read only decides whether
\* the lock is worth taking; states move forward, so the locked read is the
\* one that counts. Any state but Committing is returned at once and changes
\* nothing (a rollbacking transaction is not waited for); while the state is
\* Committing the caller parks on DoneCond.
GetTxnState(p, u) ==
    /\ parked[p] = NoTxn
    /\ state[u] = "Committing"
    /\ parked' = [parked EXCEPT ![p] = u]
    /\ learned' = [learned EXCEPT ![p] = "none"]
    /\ UNCHANGED <<tsAlloc, state, startTS, commitTS, err, op, call, active,
                   wg, client, pqueue, cqueue, prep, comm>>

-----------------------------------------------------------------------------
(* The prepare goroutine: onPreparing takes one operation at a time.       *)

\* Variant: the operation is looked at and not taken out of the queue.
PreCommitPeeks ==
    /\ prep.pc = "idle"
    /\ pqueue # <<>>
    /\ prep' = [pc |-> "stamp", txn |-> Head(pqueue)]
    /\ UNCHANGED <<tsAlloc, state, startTS, commitTS, err, op, call, active,
                   wg, client, pqueue, cqueue, comm, parked, learned>>

\* Take the next operation; a commit runs PreCommit before it has a
\* timestamp. No store returns an error from PreCommit (txnStore panics).
PreCommit ==
    /\ prep.pc = "idle"
    /\ pqueue # <<>>
    /\ prep' = [pc |-> "stamp", txn |-> Head(pqueue)]
    /\ pqueue' = Tail(pqueue)
    /\ UNCHANGED <<tsAlloc, state, startTS, commitTS, err, op, call, active,
                   wg, client, cqueue, comm, parked, learned>>

\* Under the manager's lock: allocate the commit timestamp and move to
\* Committing or Rollbacking.
Stamp ==
    LET t == prep.txn IN
    /\ prep.pc = "stamp"
    /\ tsAlloc' = tsAlloc + 1
    /\ commitTS' = [commitTS EXCEPT ![t] = tsAlloc + 1]
    /\ state' = [state EXCEPT ![t] = IF op[t] = "Commit" THEN "Committing"
                                                         ELSE "Rollbacking"]
    /\ prep' = [prep EXCEPT !.pc = IF op[t] = "Commit" THEN "prepareCommit"
                                                       ELSE "prepareRollback"]
    /\ UNCHANGED <<startTS, err, op, call, active, wg, client, pqueue, cqueue,
                   comm, parked, learned>>

\* The store has finished PrepareCommit with error e. An error turns the
\* operation into a rollback under the same timestamp.
PrepareCommit(e) ==
    LET t == prep.txn IN
    /\ prep.pc = "prepareCommit"
    /\ parked[Preparer] = NoTxn
    /\ IF e = "nil"
         THEN /\ err' = [err EXCEPT ![t] = "nil"]
              /\ prep' = [prep EXCEPT !.pc = "enqueue"]
              /\ UNCHANGED <<op, state>>
         ELSE /\ err' = [err EXCEPT ![t] = "TxnRollbacked"]
              /\ prep' = [prep EXCEPT !.pc = "prepareRollback"]
              /\ op' = [op EXCEPT ![t] = "Rollback"]
              /\ state' = [state EXCEPT ![t] = "Rollbacking"]
    /\ UNCHANGED <<tsAlloc, startTS, commitTS, call, active, wg, client,
                   pqueue, cqueue, comm, parked, learned>>

\* The store has finished PrepareRollback with error e, which SetError
\* stores over whatever was there.
PrepareRollback(e) ==
    /\ prep.pc = "prepareRollback"
    /\ err' = [err EXCEPT ![prep.txn] = e]
    /\ prep' = [prep EXCEPT !.pc = "enqueue"]
    /\ UNCHANGED <<tsAlloc, state, startTS, commitTS, op, call, active, wg,
                   client, pqueue, cqueue, comm, parked, learned>>

\* Variant: the operation overtakes those already queued.
EnqueueInFront ==
    /\ prep.pc = "enqueue"
    /\ Len(cqueue) < QueueCap
    /\ cqueue' = <<prep.txn>> \o cqueue
    /\ prep' = Idle
    /\ UNCHANGED <<tsAlloc, state, startTS, commitTS, err, op, call, active,
                   wg, client, pqueue, comm, parked, learned>>

\* Variant: only commits reach the commit goroutine.
EnqueueOnlyCommits ==
    /\ prep.pc = "enqueue"
    /\ Len(cqueue) < QueueCap
    /\ cqueue' = IF op[prep.txn] = "Commit" THEN Append(cqueue, prep.txn) ELSE cqueue
    /\ prep' = Idle
    /\ UNCHANGED <<tsAlloc, state, startTS, commitTS, err, op, call, active,
                   wg, client, pqueue, comm, parked, learned>>

EnqueueCheckpoint ==
    /\ prep.pc = "enqueue"
    /\ Len(cqueue) < QueueCap
    /\ cqueue' = Append(cqueue, prep.txn)
    /\ prep' = Idle
    /\ UNCHANGED <<tsAlloc, state, startTS, commitTS, err, op, call, active,
                   wg, client, pqueue, comm, parked, learned>>

-----------------------------------------------------------------------------
(* The commit goroutine: onCommit takes one operation at a time.           *)

Dequeue ==
    /\ comm.pc = "idle"
    /\ cqueue # <<>>
    /\ comm' = [pc |-> "apply", txn |-> Head(cqueue)]
    /\ cqueue' = Tail(cqueue)
    /\ UNCHANGED <<tsAlloc, state, startTS, commitTS, err, op, call, active,
                   wg, client, pqueue, prep, parked, learned>>

\* The store has finished ApplyCommit or ApplyRollback and is closed.
Apply ==
    /\ comm.pc = "apply"
    /\ comm' = [comm EXCEPT !.pc = "done"]
    /\ UNCHANGED <<tsAlloc, state, startTS, commitTS, err, op, call, active,
                   wg, client, pqueue, cqueue, prep, parked, learned>>

\* Variant: the terminal state is set and nobody parked is told.
DoneWithoutBroadcast ==
    LET t == comm.txn IN
    /\ comm.pc = "done"
    /\ state' = [state EXCEPT ![t] = IF @ = "Committing" THEN "Committed"
                                                         ELSE "Rollbacked"]
    /\ wg' = [wg EXCEPT ![t] = @ - 1]
    /\ comm' = Idle
    /\ UNCHANGED <<tsAlloc, startTS, commitTS, err, op, call, active, client,
                   pqueue, cqueue, prep, parked, learned>>

\* Variant: the wait group is released for commits only.
DoneReleasesCommits ==
    LET t == comm.txn IN
    /\ comm.pc = "done"
    /\ state' = [state EXCEPT ![t] = IF @ = "Committing" THEN "Committed"
                                                         ELSE "Rollbacked"]
    /\ wg' = [wg EXCEPT ![t] = IF op[t] = "Commit" THEN @ - 1 ELSE @]
    /\ parked' = [p \in Callers |-> IF parked[p] = t THEN NoTxn ELSE parked[p]]
    /\ comm' = Idle
    /\ UNCHANGED <<tsAlloc, startTS, commitTS, err, op, call, active, client,
                   pqueue, cqueue, prep, learned>>

\* WaitDone, under the transaction's lock: the terminal state, the wait
\* group, and the broadcast. A caller that was parked returns the local
\* variable it read before it parked, which is Committing.
Done ==
    LET t == comm.txn
        woken == {p \in Callers : parked[p] = t}
    IN  /\ comm.pc = "done"
        /\ state' = [state EXCEPT ![t] = CASE @ = "Committing" -> "Committed"
                                           [] @ = "Rollbacking" -> "Rollbacked"
                                           [] OTHER -> @]
        /\ wg' = [wg EXCEPT ![t] = @ - 1]
        /\ parked' = [p \in Callers |-> IF p \in woken THEN NoTxn
                                                       ELSE parked[p]]
        /\ learned' = [p \in Callers |-> IF p \in woken THEN "Committing"
                                                         ELSE learned[p]]
        /\ comm' = Idle
        /\ UNCHANGED <<tsAlloc, startTS, commitTS, err, op, call, active,
                       client, pqueue, cqueue, prep>>

-----------------------------------------------------------------------------
\* Handed over to the commit goroutine.
Prepared(u) == \/ \E i \in 1..Len(cqueue) : cqueue[i] = u
               \/ comm.txn = u

\* A client asks for the state of another transaction, as catalog lookups do.
ClientGetTxnState(t, u) ==
    /\ client[t] = "open"
    /\ u # t
    /\ GetTxnState(t, u)

\* A store may look at another transaction while it prepares, as
\* warChecker.check does, but only at one that is already prepared.
PreparerGetTxnState(u) ==
    /\ prep.pc = "prepareCommit"
    /\ Prepared(u)
    /\ GetTxnState(Preparer, u)

\* Nothing is left to do: every transaction has been started and has returned.
Quiescent ==
    /\ \A t \in Txns : client[t] = "returned"
    /\ UNCHANGED mgrVars

Client(t) ==
    \/ StartTxn(t)
    \/ Commit(t)
    \/ Rollback(t)
    \/ Return(t)
    \/ \E u \in Txns : ClientGetTxnState(t, u)

PrepareLoop ==
    \/ PreCommit
    \/ Stamp
    \/ \E e \in StoreErrors : PrepareCommit(e)
    \/ \E e \in StoreErrors : PrepareRollback(e)
    \/ EnqueueCheckpoint

CommitLoop == Dequeue \/ Apply \/ Done

MgrNext ==
    \/ \E t \in Txns : Client(t)
    \/ PrepareLoop
    \/ \E u \in Txns : PreparerGetTxnState(u)
    \/ CommitLoop
    \/ Quiescent

MgrSpec == MgrInit /\ [][MgrNext]_mgrVars

\* The goroutines behind the two queues never stop while there is work, and
\* a caller whose wait group is released returns. Nothing obliges a client
\* to start or to end a transaction.
MgrFairness ==
    /\ WF_mgrVars(PrepareLoop)
    /\ WF_mgrVars(CommitLoop)
    /\ \A t \in Txns : WF_mgrVars(Return(t))

FairMgrSpec == MgrSpec /\ MgrFairness
-----------------------------------------------------------------------------
(* Properties.                                                             *)

\* In flight: stamped with a commit timestamp and not done.
InFlight(t) == state[t] \in {"Committing", "Rollbacking"}

\* Every variable has its type; a position in the pipeline always names a
\* transaction.
TypeOK ==
    /\ tsAlloc \in Nat
    /\ state \in [Txns -> States]
    /\ startTS \in [Txns -> Nat]
    /\ commitTS \in [Txns -> Nat]
    /\ err \in [Txns -> Errors]
    /\ op \in [Txns -> Ops]
    /\ call \in [Txns -> Ops]
    /\ active \in SUBSET Txns
    /\ wg \in [Txns -> {0, 1}]
    /\ client \in [Txns -> {"unborn", "open", "waiting", "returned"}]
    /\ pqueue \in Seq(Txns)
    /\ cqueue \in Seq(Txns)
    /\ \/ prep = Idle
       \/ prep \in [pc : {"stamp", "prepareCommit", "prepareRollback", "enqueue"},
                   txn : Txns]
    /\ comm = Idle \/ comm \in [pc : {"apply", "done"}, txn : Txns]
    /\ parked \in [Callers -> Txns \cup {NoTxn}]
    /\ learned \in [Callers -> {"none", "Committing"}]

\* StartTxn and onPreparing draw from one clock under one lock: a commit
\* timestamp is above its own start timestamp, and no two timestamps of the
\* system are equal, so "before" and "after" are never ambiguous to a reader.
TimestampsUnique ==
    /\ \A t \in Txns : commitTS[t] # UncommitTS =>
           /\ startTS[t] < commitTS[t]
           /\ \A u \in Txns \ {t} : commitTS[t] \notin {startTS[u], commitTS[u]}
    /\ \A t, u \in Txns : t # u /\ startTS[t] # 0 => startTS[t] # startTS[u]

\* The two queues keep the order in which onPreparing drew timestamps: when a
\* transaction is done, none with a smaller commit timestamp is in flight.
DoneInTimestampOrder ==
    \A t, u \in Txns :
        state[u] \in Terminal /\ InFlight(t) => commitTS[u] < commitTS[t]

\* GetTxnState parks under the lock that Done broadcasts under: nobody is
\* left parked on a transaction that is already done.
NoLostWakeup ==
    \A p \in Callers : parked[p] # NoTxn => InFlight(parked[p])

\* Commit and Rollback return only after the outcome is final, and only then
\* does the transaction leave TxnManager.Active.
ReturnAfterDone ==
    \A t \in Txns :
        /\ client[t] = "returned" => state[t] \in Terminal
        /\ t \in active <=> client[t] \in {"open", "waiting"}

\* A transaction whose Commit call returned nil is committed
\* (txnmgr.go sets TxnRollbacked when PrepareCommit fails).
NilCommitIsCommitted ==
    \A t \in Txns :
        client[t] = "returned" /\ call[t] = "Commit" /\ err[t] = "nil"
            => state[t] = "Committed"

\* Every Commit and Rollback that was received returns.
CallsReturn ==
    \A t \in Txns : client[t] = "waiting" ~> client[t] = "returned"

-----------------------------------------------------------------------------
(* The inductive invariant behind the safety properties: where a           *)
(* transaction is in the pipeline, and in which order.                     *)

\* The prepare goroutine has stamped its transaction.
Stamped == prep.pc \in {"prepareCommit", "prepareRollback", "enqueue"}

\* What the client's position says about the transaction.
ClientInv ==
    \A t \in Txns :
        /\ client[t] = "unborn" <=> startTS[t] = 0
        /\ client[t] \in {"unborn", "open"} => state[t] = "Active" /\ wg[t] = 0
        /\ client[t] = "waiting" => (wg[t] = 1 <=> state[t] \notin Terminal)
        /\ client[t] = "returned" => state[t] \in Terminal /\ wg[t] = 0
        /\ t \in active <=> client[t] \in {"open", "waiting"}

\* Received and not stamped: queued once, or in the prepare goroutine's hands.
ReceivedInv ==
    /\ \A i \in 1..Len(pqueue) :
          /\ client[pqueue[i]] = "waiting"
          /\ state[pqueue[i]] = "Active"
          /\ pqueue[i] # prep.txn
    /\ \A i, j \in 1..Len(pqueue) : i # j => pqueue[i] # pqueue[j]
    /\ prep.pc = "stamp" => client[prep.txn] = "waiting" /\ state[prep.txn] = "Active"

\* In flight means: with the prepare goroutine, queued, or with the commit
\* goroutine.
InFlightInv ==
    /\ \A t \in Txns :
          InFlight(t) <=> \/ Stamped /\ prep.txn = t
                          \/ \E i \in 1..Len(cqueue) : cqueue[i] = t
                          \/ comm.txn = t
    /\ \A p \in Callers : parked[p] # NoTxn => InFlight(parked[p])

\* Commit timestamps grow from the commit goroutine back to the clock.
OrderInv ==
    /\ Stamped => \A i \in 1..Len(cqueue) : commitTS[cqueue[i]] < commitTS[prep.txn]
    /\ Stamped /\ comm.txn # NoTxn => commitTS[comm.txn] < commitTS[prep.txn]
    /\ \A i, j \in 1..Len(cqueue) : i < j => commitTS[cqueue[i]] < commitTS[cqueue[j]]
    /\ comm.txn # NoTxn => \A i \in 1..Len(cqueue) : commitTS[comm.txn] < commitTS[cqueue[i]]
    /\ DoneInTimestampOrder

\* The clock is ahead of every timestamp, and a transaction has a commit
\* timestamp exactly when it is no longer active.
ClockInv ==
    /\ \A t \in Txns : startTS[t] <= tsAlloc /\ commitTS[t] <= tsAlloc
    /\ \A t \in Txns : commitTS[t] = UncommitTS <=> state[t] = "Active"
    /\ TimestampsUnique

\* The inductive invariant of the manager.
IndInv ==
    /\ TypeOK
    /\ ClientInv
    /\ ReceivedInv
    /\ InFlightInv
    /\ OrderInv
    /\ ClockInv
=============================================================================
