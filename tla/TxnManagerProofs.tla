-------------------------- MODULE TxnManagerProofs --------------------------
(***************************************************************************)
(* The manager's safety properties, proved for any set of transactions,    *)
(* any queue capacity and any store: IndInv is inductive, it implies the   *)
(* invariants of the model-checking runs, and with it every step of the    *)
(* manager is a step of TxnOrder.                                          *)
(***************************************************************************)
EXTENDS TxnManagerRefinement, TLAPS

-----------------------------------------------------------------------------
(* What appending to and taking from a queue does to its elements.         *)

\* Enqueuing keeps what is queued and puts the new element last.
LEMMA AppendElements ==
    ASSUME NEW S, NEW q \in Seq(S), NEW x \in S
    PROVE  /\ Append(q, x) \in Seq(S)
           /\ Len(Append(q, x)) = Len(q) + 1
           /\ \A i \in 1..Len(q) : Append(q, x)[i] = q[i]
           /\ Append(q, x)[Len(q) + 1] = x
           /\ \A i \in 1..Len(Append(q, x)) : i \in 1..Len(q) \/ i = Len(q) + 1
  OBVIOUS

\* Dequeuing takes the first element and moves the others up.
LEMMA TailElements ==
    ASSUME NEW S, NEW q \in Seq(S), q # <<>>
    PROVE  /\ Head(q) \in S
           /\ Head(q) = q[1]
           /\ Len(q) >= 1
           /\ Tail(q) \in Seq(S)
           /\ Len(Tail(q)) = Len(q) - 1
           /\ \A i \in 1..(Len(q) - 1) : Tail(q)[i] = q[i + 1]
  OBVIOUS

-----------------------------------------------------------------------------
\* The initial state satisfies the inductive invariant: nothing is queued and
\* every transaction is unborn.
LEMMA InitIndInv == MgrInit => IndInv
  <1> SUFFICES ASSUME MgrInit PROVE IndInv
    OBVIOUS
  <1> USE ConstantsAssumption DEF MgrInit, Idle, Callers, UncommitTS
  <1>1. TypeOK
    BY DEF TypeOK, States, Errors, Ops
  <1>2. ClientInv
    BY DEF ClientInv, Terminal
  <1>3. ReceivedInv
    BY DEF ReceivedInv
  <1>4. InFlightInv
    BY DEF InFlightInv, InFlight, Stamped
  <1>5. OrderInv
    BY DEF OrderInv, Stamped, DoneInTimestampOrder, InFlight, Terminal
  <1>6. ClockInv
    BY DEF ClockInv, TimestampsUnique
  <1> QED
    BY <1>1, <1>2, <1>3, <1>4, <1>5, <1>6 DEF IndInv

\* StartTxn draws a fresh start timestamp and touches nothing in the pipeline.
LEMMA StartTxnIndInv ==
    ASSUME IndInv, NEW t \in Txns, StartTxn(t)
    PROVE  IndInv'
  <1> USE ConstantsAssumption DEF IndInv, StartTxn, Callers, Idle
  <1>1. TypeOK'
    BY DEF TypeOK, States, Errors, Ops
  <1>2. ClientInv'
    BY DEF TypeOK, ClientInv, Terminal, States, Ops
  <1>3. ReceivedInv'
    BY DEF TypeOK, ReceivedInv, ClientInv
  <1>4. InFlightInv'
    BY DEF TypeOK, InFlightInv, InFlight, Stamped
  <1>5. OrderInv'
    BY DEF TypeOK, OrderInv, Stamped, DoneInTimestampOrder, InFlight, Terminal
  <1>6. ClockInv'
    BY DEF TypeOK, ClockInv, ClientInv, TimestampsUnique, UncommitTS
  <1> QED
    BY <1>1, <1>2, <1>3, <1>4, <1>5, <1>6

\* Commit and Rollback put an active transaction at the end of pqueue.
LEMMA TerminateIndInv ==
    ASSUME IndInv, NEW t \in Txns, NEW o \in {"Commit", "Rollback"}, Terminate(t, o)
    PROVE  IndInv'
  <1> USE ConstantsAssumption DEF IndInv, Terminate, Callers, Idle
  <1>1. TypeOK'
    BY SMTT(30), AppendElements DEF TypeOK, ClientInv, States, Errors, Ops
  <1>2. ClientInv'
    BY SMTT(30) DEF TypeOK, ClientInv, Terminal
  <1>a. /\ pqueue' \in Seq(Txns) /\ Len(pqueue') = Len(pqueue) + 1
        /\ \A i \in 1..Len(pqueue) : pqueue'[i] = pqueue[i]
        /\ pqueue'[Len(pqueue) + 1] = t
        /\ \A i \in 1..Len(pqueue') : i \in 1..Len(pqueue) \/ i = Len(pqueue) + 1
    BY SMTT(30), AppendElements DEF TypeOK
  <1>b. state[t] = "Active" /\ t # prep.txn
    <2>1. state[t] = "Active"
      BY DEF ClientInv
    <2>2. Stamped => t # prep.txn
      BY <2>1 DEF InFlightInv, InFlight
    <2>3. prep.pc = "stamp" => t # prep.txn
      BY DEF ReceivedInv
    <2> QED
      BY SMTT(30), <2>1, <2>2, <2>3 DEF TypeOK, Stamped
  <1>c. \A i \in 1..Len(pqueue) : pqueue[i] \in Txns /\ pqueue[i] # t
    BY DEF TypeOK, ReceivedInv
  <1>3. ReceivedInv'
    <2>2. \A i \in 1..Len(pqueue') : /\ client'[pqueue'[i]] = "waiting"
                                     /\ state'[pqueue'[i]] = "Active"
                                     /\ pqueue'[i] # prep'.txn
      <3>1. \A u \in Txns \ {t} : client'[u] = client[u]
        BY DEF TypeOK
      <3>2. client'[t] = "waiting" /\ state' = state /\ prep' = prep
        BY DEF TypeOK
      <3>3. \A i \in 1..Len(pqueue) : /\ client'[pqueue[i]] = "waiting"
                                      /\ state'[pqueue[i]] = "Active"
                                      /\ pqueue[i] # prep'.txn
        BY SMTT(30), <1>c, <3>1, <3>2 DEF ReceivedInv
      <3> QED
        BY <1>a, <1>b, <3>2, <3>3
    <2>3. \A i, j \in 1..Len(pqueue') : i # j => pqueue'[i] # pqueue'[j]
      <3>1. \A i, j \in 1..Len(pqueue) : i # j => pqueue'[i] # pqueue'[j]
        BY <1>a DEF ReceivedInv
      <3>2. \A i \in 1..Len(pqueue) : pqueue'[i] # t
        BY <1>a, <1>c
      <3> QED
        BY <1>a, <3>1, <3>2
    <2>4. prep'.pc = "stamp" => client'[prep'.txn] = "waiting" /\ state'[prep'.txn] = "Active"
      BY SMTT(30), <1>b DEF TypeOK, ReceivedInv
    <2> QED
      BY <2>2, <2>3, <2>4 DEF ReceivedInv
  <1>4. InFlightInv'
    BY SMTT(30) DEF TypeOK, InFlightInv, InFlight, Stamped
  <1>5. OrderInv'
    BY DEF TypeOK, OrderInv, Stamped, DoneInTimestampOrder, InFlight, Terminal
  <1>6. ClockInv'
    BY DEF TypeOK, ClockInv, TimestampsUnique, UncommitTS
  <1> QED
    BY <1>1, <1>2, <1>3, <1>4, <1>5, <1>6

\* A call returns when the transaction is terminal.
LEMMA ReturnIndInv ==
    ASSUME IndInv, NEW t \in Txns, Return(t)
    PROVE  IndInv'
  <1> USE ConstantsAssumption DEF IndInv, Return, Callers, Idle
  <1>1. TypeOK'
    BY DEF TypeOK, States, Errors, Ops
  <1>2. ClientInv'
    BY DEF TypeOK, ClientInv, Terminal, States, Ops
  <1>3. ReceivedInv'
    <2>1. state[t] \in Terminal
      BY SMTT(30) DEF TypeOK, ClientInv
    <2>2. state[t] # "Active"
      BY <2>1 DEF Terminal
    <2> QED
      BY SMTT(30), <2>2 DEF TypeOK, ReceivedInv
  <1>4. InFlightInv'
    BY SMTT(30) DEF TypeOK, InFlightInv, InFlight, Stamped
  <1>5. OrderInv'
    BY DEF TypeOK, OrderInv, Stamped, DoneInTimestampOrder, InFlight, Terminal
  <1>6. ClockInv'
    BY DEF TypeOK, ClockInv, TimestampsUnique, UncommitTS
  <1> QED
    BY <1>1, <1>2, <1>3, <1>4, <1>5, <1>6

\* Parking is allowed only on a committing transaction.
LEMMA GetTxnStateIndInv ==
    ASSUME IndInv, NEW p \in Callers, NEW u \in Txns, GetTxnState(p, u)
    PROVE  IndInv'
  <1> USE ConstantsAssumption DEF IndInv, GetTxnState, Callers, Idle
  <1>1. TypeOK'
    BY DEF TypeOK, States, Errors, Ops
  <1>2. ClientInv'
    BY DEF TypeOK, ClientInv, Terminal, States, Ops
  <1>3. ReceivedInv'
    BY SMTT(30) DEF TypeOK, ReceivedInv, ClientInv
  <1>4. InFlightInv'
    BY SMTT(30) DEF TypeOK, InFlightInv, InFlight, Stamped
  <1>5. OrderInv'
    BY DEF TypeOK, OrderInv, Stamped, DoneInTimestampOrder, InFlight, Terminal
  <1>6. ClockInv'
    BY DEF TypeOK, ClockInv, TimestampsUnique, UncommitTS
  <1> QED
    BY <1>1, <1>2, <1>3, <1>4, <1>5, <1>6

-----------------------------------------------------------------------------
(* The prepare goroutine.                                                  *)

\* Taking an operation from pqueue moves a received transaction into the
\* prepare goroutine's hands; nothing is stamped yet.
LEMMA PreCommitIndInv ==
    ASSUME IndInv, PreCommit
    PROVE  IndInv'
  <1> USE ConstantsAssumption DEF IndInv, PreCommit, Callers, Idle
  <1>a. /\ prep'.txn = pqueue[1] /\ prep'.pc = "stamp" /\ pqueue[1] \in Txns
        /\ 1 \in 1..Len(pqueue)
        /\ pqueue' \in Seq(Txns) /\ Len(pqueue') = Len(pqueue) - 1
        /\ \A i \in 1..Len(pqueue') : /\ pqueue'[i] = pqueue[i + 1]
                                      /\ i + 1 \in 1..Len(pqueue)
    BY SMTT(30), TailElements DEF TypeOK
  <1>1. TypeOK'
    BY <1>a DEF TypeOK, States, Errors, Ops
  <1>2. ClientInv'
    BY DEF ClientInv
  <1>3. ReceivedInv'
    <2>1. \A i \in 1..Len(pqueue') : /\ client'[pqueue'[i]] = "waiting"
                                     /\ state'[pqueue'[i]] = "Active"
                                     /\ pqueue'[i] # prep'.txn
      BY SMTT(30), <1>a DEF ReceivedInv
    <2>2. \A i, j \in 1..Len(pqueue') : i # j => pqueue'[i] # pqueue'[j]
      BY SMTT(30), <1>a DEF ReceivedInv
    <2>3. client'[prep'.txn] = "waiting" /\ state'[prep'.txn] = "Active"
      BY <1>a DEF ReceivedInv
    <2> QED
      BY <2>1, <2>2, <2>3 DEF ReceivedInv
  <1>b. ~Stamped /\ ~Stamped'
    BY DEF Stamped
  <1>4. InFlightInv'
    BY <1>b DEF InFlightInv, InFlight
  <1>5. OrderInv'
    BY <1>b DEF OrderInv, DoneInTimestampOrder, InFlight
  <1>6. ClockInv'
    BY DEF ClockInv, TimestampsUnique
  <1> QED
    BY <1>1, <1>2, <1>3, <1>4, <1>5, <1>6

\* The new commit timestamp is above every timestamp in the system, so the
\* transaction takes the last place in the order.
LEMMA StampIndInv ==
    ASSUME IndInv, Stamp
    PROVE  IndInv'
  <1> USE ConstantsAssumption DEF IndInv, Stamp, Callers, Idle
  <1> DEFINE t == prep.txn
  <1>a. /\ t \in Txns /\ prep \in [pc : {"stamp"}, txn : Txns]
        /\ client[t] = "waiting" /\ state[t] = "Active" /\ ~Stamped
        /\ tsAlloc \in Nat /\ tsAlloc' = tsAlloc + 1
    BY DEF TypeOK, ReceivedInv, Stamped
  <1>b. /\ prep'.txn = t /\ Stamped' /\ prep'.pc # "stamp"
        /\ prep' \in [pc : {"prepareCommit", "prepareRollback"}, txn : Txns]
    BY <1>a DEF Stamped
  <1>c. /\ state'[t] \in {"Committing", "Rollbacking"}
        /\ commitTS'[t] = tsAlloc + 1
        /\ \A u \in Txns \ {t} : state'[u] = state[u] /\ commitTS'[u] = commitTS[u]
        /\ state' \in [Txns -> States]
        /\ commitTS' \in [Txns -> Nat]
    BY <1>a DEF TypeOK, States
  <1>1. TypeOK'
    <2>1. /\ UNCHANGED <<startTS, err, op, call, active, wg, client, pqueue, cqueue>>
          /\ UNCHANGED <<comm, parked, learned>>
      OBVIOUS
    <2>2. tsAlloc' \in Nat
      BY <1>a
    <2>3. prep' \in [pc : {"stamp", "prepareCommit", "prepareRollback", "enqueue"}, txn : Txns]
      BY <1>b
    <2> HIDE DEF Stamp
    <2> QED
      BY <1>c, <2>1, <2>2, <2>3 DEF TypeOK
  <1>2. ClientInv'
    BY <1>a, <1>c DEF ClientInv, Terminal
  <1>3. ReceivedInv'
    <2>1. \A i \in 1..Len(pqueue) : pqueue[i] \in Txns /\ pqueue[i] # t
      BY DEF TypeOK, ReceivedInv
    <2>2. \A i \in 1..Len(pqueue) : /\ client[pqueue[i]] = "waiting"
                                    /\ state'[pqueue[i]] = "Active"
      BY <1>c, <2>1 DEF ReceivedInv
    <2>3. pqueue' = pqueue /\ client' = client
      OBVIOUS
    <2> QED
      BY <1>b, <2>1, <2>2, <2>3 DEF ReceivedInv
  <1>d. \A u \in Txns : InFlight(u)' <=> InFlight(u) \/ u = t
    BY <1>c DEF InFlight
  <1>e. ~InFlight(t)
    BY <1>a DEF InFlight
  <1>f. \A i \in 1..Len(cqueue) : cqueue[i] \in Txns /\ cqueue[i] # t
    BY <1>a, <1>e DEF TypeOK, InFlightInv
  <1>g. comm.txn # NoTxn => comm.txn \in Txns /\ comm.txn # t
    BY <1>a, <1>e DEF TypeOK, InFlightInv
  <1>4. InFlightInv'
    <2>1. \A u \in Txns :
            InFlight(u)' <=> \/ Stamped' /\ prep'.txn = u
                             \/ \E i \in 1..Len(cqueue) : cqueue[i] = u
                             \/ comm.txn = u
      BY <1>a, <1>b, <1>d DEF InFlightInv
    <2>2. \A p \in Callers : parked[p] # NoTxn => InFlight(parked[p])'
      BY <1>d DEF InFlightInv, TypeOK
    <2> QED
      BY <2>1, <2>2 DEF InFlightInv, InFlight
  <1>h. \A u \in Txns \ {t} : commitTS'[u] < commitTS'[t] /\ startTS[u] < commitTS'[t]
    BY <1>a, <1>c DEF ClockInv, TypeOK
  <1>5. OrderInv'
    <2>1. \A i \in 1..Len(cqueue) : commitTS'[cqueue[i]] < commitTS'[t]
      BY <1>f, <1>h
    <2>2. comm.txn # NoTxn => commitTS'[comm.txn] < commitTS'[t]
      BY <1>g, <1>h
    <2>3. \A i, j \in 1..Len(cqueue) : i < j => commitTS'[cqueue[i]] < commitTS'[cqueue[j]]
      BY <1>c, <1>f DEF OrderInv
    <2>4. comm.txn # NoTxn => \A i \in 1..Len(cqueue) : commitTS'[comm.txn] < commitTS'[cqueue[i]]
      BY SMTT(30), <1>c, <1>f, <1>g DEF OrderInv
    <2>5. DoneInTimestampOrder'
      <3> SUFFICES ASSUME NEW v \in Txns, NEW u \in Txns,
                          state'[u] \in Terminal, InFlight(v)'
                   PROVE  commitTS'[u] < commitTS'[v]
        BY DEF DoneInTimestampOrder, InFlight
      <3>1. u # t
        BY <1>c DEF Terminal
      <3> QED
        BY <1>c, <1>d, <1>h, <3>1 DEF OrderInv, DoneInTimestampOrder
    <2> QED
      BY <1>b, <2>1, <2>2, <2>3, <2>4, <2>5 DEF OrderInv
  <1>6. ClockInv'
    <2>1. \A u \in Txns : startTS[u] <= tsAlloc' /\ commitTS'[u] <= tsAlloc'
      BY <1>a, <1>c DEF ClockInv, TypeOK
    <2>2. \A u \in Txns : commitTS'[u] = UncommitTS <=> state'[u] = "Active"
      BY <1>a, <1>c DEF ClockInv, UncommitTS
    <2>3. TimestampsUnique'
      BY <1>a, <1>c DEF ClockInv, TimestampsUnique, UncommitTS, TypeOK
    <2> QED
      BY <2>1, <2>2, <2>3 DEF ClockInv
  <1> QED
    BY <1>1, <1>2, <1>3, <1>4, <1>5, <1>6

\* PrepareCommit leaves the transaction in flight, on its way to commit or,
\* after an error, to roll back.
LEMMA PrepareCommitIndInv ==
    ASSUME IndInv, NEW e \in StoreErrors, PrepareCommit(e)
    PROVE  IndInv'
  <1> USE ConstantsAssumption DEF IndInv, PrepareCommit, Callers, Idle
  <1> DEFINE t == prep.txn
  <1>a. /\ t \in Txns /\ Stamped
        /\ prep \in [pc : {"prepareCommit"}, txn : Txns]
    BY DEF TypeOK, Stamped
  <1>b. prep' \in [pc : {"enqueue", "prepareRollback"}, txn : Txns] /\ prep'.txn = t
    BY <1>a
  <1>c. Stamped' /\ prep'.pc # "stamp"
    BY <1>b DEF Stamped
  <1>d. InFlight(t)
    BY <1>a DEF InFlightInv
  <1>e. /\ state' \in [Txns -> States]
        /\ state'[t] \in {"Committing", "Rollbacking"}
        /\ \A u \in Txns \ {t} : state'[u] = state[u]
    <2>1. CASE e = "nil"
      BY <1>a, <1>d, <2>1 DEF TypeOK, InFlight
    <2>2. CASE e # "nil"
      <3>1. state' = [state EXCEPT ![t] = "Rollbacking"]
        BY <2>2
      <3> QED
        BY <1>a, <3>1 DEF TypeOK, States
    <2> QED
      BY <2>1, <2>2
  <1>1. TypeOK'
    <2>1. err' \in [Txns -> Errors]
      BY <1>a DEF TypeOK, Errors
    <2>2. op' \in [Txns -> Ops]
      BY <1>a DEF TypeOK, Ops
    <2> QED
      BY <1>b, <1>e, <2>1, <2>2 DEF TypeOK
  <1>2. ClientInv'
    BY <1>d, <1>e DEF ClientInv, InFlight, Terminal
  <1>3. ReceivedInv'
    <2>1. \A i \in 1..Len(pqueue) : pqueue[i] \in Txns /\ pqueue[i] # t
      BY DEF TypeOK, ReceivedInv
    <2>2. \A i \in 1..Len(pqueue) : /\ client[pqueue[i]] = "waiting"
                                    /\ state'[pqueue[i]] = "Active"
      BY <1>e, <2>1 DEF ReceivedInv
    <2>3. pqueue' = pqueue /\ client' = client
      OBVIOUS
    <2> QED
      BY <1>b, <1>c, <2>1, <2>2, <2>3 DEF ReceivedInv
  <1>f. \A u \in Txns : InFlight(u)' <=> InFlight(u)
    BY <1>d, <1>e DEF InFlight
  <1>4. InFlightInv'
    <2>1. \A u \in Txns :
            InFlight(u)' <=> \/ Stamped' /\ prep'.txn = u
                             \/ \E i \in 1..Len(cqueue) : cqueue[i] = u
                             \/ comm.txn = u
      BY <1>a, <1>b, <1>c, <1>f DEF InFlightInv
    <2>2. \A p \in Callers : parked[p] # NoTxn => InFlight(parked[p])'
      BY <1>f DEF InFlightInv, TypeOK
    <2> QED
      BY <2>1, <2>2 DEF InFlightInv, InFlight
  <1>5. OrderInv'
    <2>1. DoneInTimestampOrder'
      BY <1>d, <1>e DEF OrderInv, DoneInTimestampOrder, InFlight, Terminal
    <2> QED
      BY <1>a, <1>b, <1>c, <2>1 DEF OrderInv
  <1>6. ClockInv'
    BY <1>d, <1>e DEF ClockInv, TimestampsUnique, InFlight
  <1> QED
    BY <1>1, <1>2, <1>3, <1>4, <1>5, <1>6

\* PrepareRollback only stores an error.
LEMMA PrepareRollbackIndInv ==
    ASSUME IndInv, NEW e \in StoreErrors, PrepareRollback(e)
    PROVE  IndInv'
  <1> USE ConstantsAssumption DEF IndInv, PrepareRollback, Callers, Idle
  <1>0. prep \in [pc : {"prepareRollback"}, txn : Txns]
    BY DEF TypeOK
  <1>a. /\ prep' \in [pc : {"enqueue"}, txn : Txns] /\ prep'.txn = prep.txn
        /\ Stamped /\ Stamped'
    BY <1>0 DEF Stamped
  <1>1. TypeOK'
    BY <1>0, <1>a DEF TypeOK, States, Errors, StoreErrors, Ops
  <1>2. ClientInv'
    BY DEF ClientInv
  <1>3. ReceivedInv'
    BY <1>a DEF ReceivedInv
  <1>4. InFlightInv'
    BY <1>a DEF InFlightInv, InFlight
  <1>5. OrderInv'
    BY <1>a DEF OrderInv, DoneInTimestampOrder, InFlight
  <1>6. ClockInv'
    BY DEF ClockInv, TimestampsUnique
  <1> QED
    BY <1>1, <1>2, <1>3, <1>4, <1>5, <1>6

\* The stamped transaction, last in the order, becomes the last of cqueue.
LEMMA EnqueueCheckpointIndInv ==
    ASSUME IndInv, EnqueueCheckpoint
    PROVE  IndInv'
  <1> USE ConstantsAssumption DEF IndInv, EnqueueCheckpoint, Callers, Idle
  <1> DEFINE t == prep.txn
             n == Len(cqueue) + 1
  <1>a. /\ t \in Txns /\ Stamped /\ prep \in [pc : {"enqueue"}, txn : Txns]
        /\ prep'.txn = NoTxn /\ prep'.pc = "idle" /\ ~Stamped'
    BY DEF TypeOK, Stamped
  <1>b. /\ cqueue' \in Seq(Txns) /\ Len(cqueue') = n
        /\ n \in 1..Len(cqueue')
        /\ \A i \in 1..Len(cqueue) : cqueue'[i] = cqueue[i] /\ i \in 1..Len(cqueue') /\ i < n
        /\ cqueue'[n] = t
        /\ \A i \in 1..Len(cqueue') : i \in 1..Len(cqueue) \/ i = n
    <2>1. cqueue \in Seq(Txns) /\ cqueue' = Append(cqueue, t)
      BY DEF TypeOK
    <2>2. Len(cqueue) \in Nat
      BY <2>1
    <2>3. /\ cqueue' \in Seq(Txns) /\ Len(cqueue') = n /\ cqueue'[n] = t
          /\ \A i \in 1..Len(cqueue) : cqueue'[i] = cqueue[i]
          /\ \A i \in 1..Len(cqueue') : i \in 1..Len(cqueue) \/ i = n
      BY SMTT(30), <1>a, <2>1, AppendElements
    <2> HIDE DEF EnqueueCheckpoint, IndInv
    <2> QED
      BY <2>2, <2>3
  <1>1. TypeOK'
    <2>1. /\ UNCHANGED <<tsAlloc, state, startTS, commitTS, err, op, call, active, wg>>
          /\ UNCHANGED <<client, pqueue, comm, parked, learned>> /\ prep' = Idle
      OBVIOUS
    <2> HIDE DEF EnqueueCheckpoint
    <2> QED
      BY <1>b, <2>1 DEF TypeOK
  <1>2. ClientInv'
    BY DEF ClientInv
  <1>3. ReceivedInv'
    BY SMTT(30), <1>a DEF ReceivedInv, TypeOK
  <1>4. InFlightInv'
    <2>1. \A u \in Txns : (\E i \in 1..Len(cqueue') : cqueue'[i] = u)
                            <=> u = t \/ \E i \in 1..Len(cqueue) : cqueue[i] = u
      BY <1>b
    <2> QED
      BY <1>a, <2>1 DEF InFlightInv, InFlight
  <1>5. OrderInv'
    <2>1. \A i, j \in 1..Len(cqueue') :
            i < j => commitTS[cqueue'[i]] < commitTS[cqueue'[j]]
      <3> SUFFICES ASSUME NEW i \in 1..Len(cqueue'), NEW j \in 1..Len(cqueue'), i < j
                   PROVE  commitTS[cqueue'[i]] < commitTS[cqueue'[j]]
        OBVIOUS
      <3>1. i \in 1..Len(cqueue)
        BY SMTT(30), <1>b DEF TypeOK
      <3>2. CASE j = n
        BY <1>a, <1>b, <3>1, <3>2 DEF OrderInv
      <3>3. CASE j \in 1..Len(cqueue)
        BY <1>b, <3>1, <3>3 DEF OrderInv
      <3> QED
        BY <1>b, <3>2, <3>3
    <2>2. comm.txn # NoTxn =>
            \A i \in 1..Len(cqueue') : commitTS[comm.txn] < commitTS[cqueue'[i]]
      BY <1>a, <1>b DEF OrderInv
    <2>3. DoneInTimestampOrder'
      BY DEF OrderInv, DoneInTimestampOrder, InFlight
    <2> QED
      BY <1>a, <2>1, <2>2, <2>3 DEF OrderInv
  <1>6. ClockInv'
    BY DEF ClockInv, TimestampsUnique
  <1> QED
    BY <1>1, <1>2, <1>3, <1>4, <1>5, <1>6

-----------------------------------------------------------------------------
(* The commit goroutine.                                                   *)

\* The oldest transaction of cqueue moves to the commit goroutine.
LEMMA DequeueIndInv ==
    ASSUME IndInv, Dequeue
    PROVE  IndInv'
  <1> USE ConstantsAssumption DEF IndInv, Dequeue, Callers, Idle
  <1>a. /\ comm'.txn = cqueue[1] /\ cqueue[1] \in Txns /\ 1 \in 1..Len(cqueue)
        /\ comm' \in [pc : {"apply"}, txn : Txns]
        /\ cqueue' \in Seq(Txns) /\ Len(cqueue') = Len(cqueue) - 1
        /\ \A i \in 1..Len(cqueue') : /\ cqueue'[i] = cqueue[i + 1]
                                      /\ i + 1 \in 1..Len(cqueue) /\ 1 < i + 1
        /\ \A i \in 1..Len(cqueue) : i = 1 \/ (i - 1) \in 1..Len(cqueue')
    BY SMTT(30), TailElements DEF TypeOK
  <1>b. comm.txn = NoTxn
    BY DEF TypeOK
  <1>1. TypeOK'
    BY <1>a DEF TypeOK, States, Errors, Ops
  <1>2. ClientInv'
    BY DEF ClientInv
  <1>3. ReceivedInv'
    BY DEF ReceivedInv
  <1>4. InFlightInv'
    <2>1. \A u \in Txns : (\E i \in 1..Len(cqueue) : cqueue[i] = u)
            <=> comm'.txn = u \/ \E i \in 1..Len(cqueue') : cqueue'[i] = u
      <3> SUFFICES ASSUME NEW u \in Txns, NEW i \in 1..Len(cqueue), cqueue[i] = u, i # 1
                   PROVE  \E j \in 1..Len(cqueue') : cqueue'[j] = u
        BY SMTT(30), <1>a
      <3>1. (i - 1) \in 1..Len(cqueue') /\ cqueue'[i - 1] = cqueue[i]
        BY SMTT(30), <1>a
      <3> QED
        BY <3>1
    <2>2. \A u \in Txns : comm.txn # u
      BY <1>b
    <2> QED
      BY SMTT(30), <2>1, <2>2 DEF InFlightInv, InFlight, Stamped
  <1>5. OrderInv'
    <2>1. Stamped' <=> Stamped
      BY DEF Stamped
    <2>2. Stamped => \A i \in 1..Len(cqueue') : commitTS[cqueue'[i]] < commitTS[prep.txn]
      BY <1>a DEF OrderInv
    <2>3. Stamped => commitTS[comm'.txn] < commitTS[prep.txn]
      BY <1>a DEF OrderInv
    <2>4. \A i, j \in 1..Len(cqueue') :
            i < j => commitTS[cqueue'[i]] < commitTS[cqueue'[j]]
      BY SMTT(30), <1>a DEF OrderInv
    <2>5. \A i \in 1..Len(cqueue') : commitTS[comm'.txn] < commitTS[cqueue'[i]]
      BY <1>a DEF OrderInv
    <2>6. DoneInTimestampOrder'
      BY DEF OrderInv, DoneInTimestampOrder, InFlight
    <2> QED
      BY <2>1, <2>2, <2>3, <2>4, <2>5, <2>6 DEF OrderInv
  <1>6. ClockInv'
    BY DEF ClockInv, TimestampsUnique
  <1> QED
    BY <1>1, <1>2, <1>3, <1>4, <1>5, <1>6

\* Applying does not change where the transaction is.
LEMMA ApplyIndInv ==
    ASSUME IndInv, Apply
    PROVE  IndInv'
  <1> USE ConstantsAssumption DEF IndInv, Apply, Callers, Idle
  <1>a. comm \in [pc : {"apply"}, txn : Txns]
    BY DEF TypeOK
  <1>b. comm' \in [pc : {"done"}, txn : Txns] /\ comm'.txn = comm.txn
    BY <1>a
  <1>1. TypeOK'
    BY <1>b DEF TypeOK
  <1>2. ClientInv'
    BY DEF ClientInv
  <1>3. ReceivedInv'
    BY DEF ReceivedInv
  <1>4. InFlightInv'
    BY <1>b DEF InFlightInv, InFlight, Stamped
  <1>5. OrderInv'
    BY <1>b DEF OrderInv, DoneInTimestampOrder, InFlight, Stamped
  <1>6. ClockInv'
    BY DEF ClockInv, TimestampsUnique
  <1> QED
    BY <1>1, <1>2, <1>3, <1>4, <1>5, <1>6

\* The transaction that is done is the oldest one in flight: it is in nobody
\* else's hands, and everyone still in flight has a greater timestamp.
LEMMA DoneIndInv ==
    ASSUME IndInv, Done
    PROVE  IndInv'
  <1> USE ConstantsAssumption DEF IndInv, Done, Callers, Idle
  <1> DEFINE t == comm.txn
  <1>a. t \in Txns /\ comm'.txn = NoTxn /\ t # NoTxn
    BY DEF TypeOK
  <1>b. InFlight(t)
    BY <1>a DEF InFlightInv
  <1>c. client[t] = "waiting" /\ wg[t] = 1
    BY <1>a, <1>b DEF ClientInv, InFlight, Terminal, TypeOK
  <1>d. /\ state' \in [Txns -> States]
        /\ state'[t] \in Terminal
        /\ \A u \in Txns \ {t} : state'[u] = state[u]
    BY <1>a, <1>b DEF TypeOK, InFlight, States, Terminal
  <1>e. /\ wg' \in [Txns -> {0, 1}] /\ wg'[t] = 0
        /\ \A u \in Txns \ {t} : wg'[u] = wg[u]
    BY <1>a, <1>c DEF TypeOK
  <1>f. /\ parked' \in [Callers -> Txns \cup {NoTxn}]
        /\ \A p \in Callers : parked'[p] # NoTxn => parked'[p] = parked[p] /\ parked[p] # t
    BY DEF TypeOK
  <1>g. \A i \in 1..Len(cqueue) : /\ cqueue[i] \in Txns /\ cqueue[i] # t
                                  /\ commitTS[t] < commitTS[cqueue[i]]
    BY SMTT(30), <1>a DEF OrderInv, TypeOK
  <1>h. Stamped => prep.txn # t /\ commitTS[t] < commitTS[prep.txn]
    BY SMTT(30), <1>a DEF OrderInv, TypeOK
  <1>1. TypeOK'
    BY <1>d, <1>e, <1>f DEF TypeOK
  <1>2. ClientInv'
    BY SMTT(30), <1>c, <1>d, <1>e DEF ClientInv
  <1>3. ReceivedInv'
    <2>1. state[t] # "Active"
      BY <1>b DEF InFlight
    <2>2. \A i \in 1..Len(pqueue) : pqueue[i] \in Txns /\ pqueue[i] # t
      <3>1. pqueue \in Seq(Txns)
        BY DEF TypeOK
      <3>2. \A i \in 1..Len(pqueue) : state[pqueue[i]] = "Active"
        BY DEF ReceivedInv
      <3> HIDE DEF IndInv, Done
      <3> QED
        BY <2>1, <3>1, <3>2
    <2>3. \A i \in 1..Len(pqueue) : state'[pqueue[i]] = "Active"
      BY <1>d, <2>2 DEF ReceivedInv
    <2>4. prep.pc = "stamp" => prep.txn \in Txns /\ state'[prep.txn] = "Active"
      BY SMTT(30), <1>d, <2>1 DEF ReceivedInv, TypeOK
    <2> QED
      BY SMTT(30), <2>3, <2>4 DEF ReceivedInv
  <1>i. \A u \in Txns : InFlight(u)' <=> InFlight(u) /\ u # t
    BY <1>d DEF InFlight, Terminal
  <1>4. InFlightInv'
    <2>1. \A u \in Txns :
            InFlight(u)' <=> \/ Stamped /\ prep.txn = u
                             \/ \E i \in 1..Len(cqueue) : cqueue[i] = u
                             \/ comm'.txn = u
      BY <1>a, <1>g, <1>h, <1>i DEF InFlightInv
    <2>2. \A p \in Callers :
            parked'[p] # NoTxn => state'[parked'[p]] \in {"Committing", "Rollbacking"}
      BY SMTT(30), <1>d, <1>f DEF InFlightInv, InFlight, TypeOK
    <2> QED
      BY SMTT(30), <2>1, <2>2 DEF InFlightInv, InFlight, Stamped
  <1>5. OrderInv'
    <2>1. DoneInTimestampOrder'
      <3> SUFFICES ASSUME NEW v \in Txns, NEW u \in Txns,
                          state'[u] \in Terminal, InFlight(v)'
                   PROVE  commitTS[u] < commitTS[v]
        BY DEF DoneInTimestampOrder, InFlight
      <3>1. CASE u = t
        BY <1>g, <1>h, <1>i, <3>1 DEF InFlightInv
      <3>2. CASE u # t
        BY <1>d, <1>i, <3>2 DEF OrderInv, DoneInTimestampOrder
      <3> QED
        BY <3>1, <3>2
    <2> QED
      BY <1>a, <2>1 DEF OrderInv, Stamped
  <1>6. ClockInv'
    BY <1>b, <1>d DEF ClockInv, TimestampsUnique, InFlight, Terminal
  <1> QED
    BY <1>1, <1>2, <1>3, <1>4, <1>5, <1>6

-----------------------------------------------------------------------------
(* The theorems.                                                           *)

\* Every step of the manager preserves the inductive invariant.
LEMMA NextIndInv == IndInv /\ [MgrNext]_mgrVars => IndInv'
  <1> SUFFICES ASSUME IndInv, [MgrNext]_mgrVars PROVE IndInv'
    OBVIOUS
  <1>1. ASSUME NEW t \in Txns, Client(t) PROVE IndInv'
    <2>1. CASE StartTxn(t)
      BY <2>1, StartTxnIndInv
    <2>2. CASE Commit(t)
      BY <2>2, TerminateIndInv DEF Commit
    <2>3. CASE Rollback(t)
      BY <2>3, TerminateIndInv DEF Rollback
    <2>4. CASE Return(t)
      BY <2>4, ReturnIndInv
    <2>5. ASSUME NEW u \in Txns, ClientGetTxnState(t, u) PROVE IndInv'
      BY <2>5, GetTxnStateIndInv DEF ClientGetTxnState, Callers
    <2> QED
      BY <1>1, <2>1, <2>2, <2>3, <2>4, <2>5 DEF Client
  <1>2. CASE PrepareLoop
    <2>1. ASSUME NEW e \in StoreErrors, PrepareCommit(e) PROVE IndInv'
      BY <2>1, PrepareCommitIndInv
    <2>2. ASSUME NEW e \in StoreErrors, PrepareRollback(e) PROVE IndInv'
      BY <2>2, PrepareRollbackIndInv
    <2> QED
      BY <1>2, <2>1, <2>2, PreCommitIndInv, StampIndInv, EnqueueCheckpointIndInv
         DEF PrepareLoop
  <1>3. ASSUME NEW u \in Txns, PreparerGetTxnState(u) PROVE IndInv'
    BY <1>3, GetTxnStateIndInv DEF PreparerGetTxnState, Callers
  <1>4. CASE CommitLoop
    BY <1>4, DequeueIndInv, ApplyIndInv, DoneIndInv DEF CommitLoop
  <1>5. CASE UNCHANGED mgrVars
    <2>1. TypeOK' /\ ClientInv' /\ ReceivedInv'
      BY SMTT(30), <1>5 DEF IndInv, mgrVars, TypeOK, ClientInv, ReceivedInv
    <2>2. InFlightInv'
      BY <1>5 DEF IndInv, mgrVars, InFlightInv, InFlight, Stamped
    <2>3. OrderInv'
      BY <1>5 DEF IndInv, mgrVars, OrderInv, DoneInTimestampOrder, InFlight, Stamped
    <2>4. ClockInv'
      BY <1>5 DEF IndInv, mgrVars, ClockInv, TimestampsUnique
    <2> QED
      BY <2>1, <2>2, <2>3, <2>4 DEF IndInv
  <1> QED
    BY <1>1, <1>2, <1>3, <1>4, <1>5 DEF MgrNext, Quiescent

\* The inductive invariant holds in every reachable state.
THEOREM ManagerInductive == MgrSpec => []IndInv
  BY InitIndInv, NextIndInv, PTL DEF MgrSpec

\* Every variable of the manager keeps its type; the wait group never counts
\* beyond one and never below zero.
THEOREM ManagerTypeOK == MgrSpec => []TypeOK
  <1>1. IndInv => TypeOK
    BY DEF IndInv
  <1> QED
    BY <1>1, ManagerInductive, PTL

\* No two timestamps of the system are equal, for any number of transactions
\* and whatever the stores answer.
THEOREM ManagerTimestampsUnique == MgrSpec => []TimestampsUnique
  <1>1. IndInv => TimestampsUnique
    BY DEF IndInv, ClockInv
  <1> QED
    BY <1>1, ManagerInductive, PTL

\* Transactions are done in the order of their commit timestamps, for any
\* capacity of the two queues.
THEOREM ManagerDoneInOrder == MgrSpec => []DoneInTimestampOrder
  <1>1. IndInv => DoneInTimestampOrder
    BY DEF IndInv, OrderInv
  <1> QED
    BY <1>1, ManagerInductive, PTL

\* Nobody stays parked on a transaction that is done.
THEOREM ManagerNoLostWakeup == MgrSpec => []NoLostWakeup
  <1>1. IndInv => NoLostWakeup
    BY DEF IndInv, InFlightInv, NoLostWakeup
  <1> QED
    BY <1>1, ManagerInductive, PTL

\* A call returns only when the outcome is final, and only then does its
\* transaction leave Active.
THEOREM ManagerReturnAfterDone == MgrSpec => []ReturnAfterDone
  <1>1. IndInv => ReturnAfterDone
    BY DEF IndInv, ClientInv, ReturnAfterDone
  <1> QED
    BY <1>1, ManagerInductive, PTL

-----------------------------------------------------------------------------
(* The manager implements TxnOrder.                                        *)

\* A manager that has started nothing is a TxnOrder that has begun nothing.
LEMMA InitOrder == MgrInit => Order!Init
  BY DEF MgrInit, Order!Init, Outcome, UncommitTS

\* A step that leaves the clock, the timestamps, the states and the clients'
\* positions alone is no step of TxnOrder.
LEMMA StutterOrder ==
    ASSUME UNCHANGED <<tsAlloc, startTS, commitTS, state, client>>
    PROVE  UNCHANGED Order!vars
  BY DEF Order!vars, Outcome

\* StartTxn begins a transaction.
LEMMA StartTxnOrder ==
    ASSUME IndInv, NEW t \in Txns, StartTxn(t)
    PROVE  Order!Begin(t)
  BY SMTT(30) DEF StartTxn, IndInv, TypeOK, ClientInv, Order!Begin, Outcome

\* Commit and Rollback only queue: TxnOrder does not see them.
LEMMA TerminateOrder ==
    ASSUME IndInv, NEW t \in Txns, NEW o \in {"Commit", "Rollback"}, Terminate(t, o)
    PROVE  UNCHANGED Order!vars
  <1>1. \A u \in Txns : client'[u] = "returned" <=> client[u] = "returned"
    BY DEF Terminate, IndInv, TypeOK
  <1> QED
    BY <1>1 DEF Terminate, Order!vars, Outcome

\* The manager's critical section draws the commit timestamp.
LEMMA StampOrder ==
    ASSUME IndInv, Stamp, NEW t \in Txns, t = prep.txn
    PROVE  Order!DrawStamp(t)
  <1>1. /\ state[t] = "Active" /\ client[t] = "waiting"
        /\ startTS[t] # 0
    BY DEF Stamp, IndInv, TypeOK, ReceivedInv, ClientInv, Idle
  <1>2. /\ state'[t] \in {"Committing", "Rollbacking"}
        /\ \A u \in Txns \ {t} : state'[u] = state[u]
    BY <1>1 DEF Stamp, IndInv, TypeOK
  <1>3. [u \in Txns |-> Outcome(u)]' = [[u \in Txns |-> Outcome(u)] EXCEPT ![t] = "pending"]
    <2>1. Outcome(t)' = "pending"
      BY <1>2 DEF Outcome, Stamp
    <2>2. \A u \in Txns \ {t} : Outcome(u)' = Outcome(u)
      BY <1>2 DEF Outcome
    <2> QED
      BY <1>1, <2>1, <2>2
  <1> QED
    BY <1>1, <1>3 DEF Stamp, Order!DrawStamp, Outcome

\* A failed PrepareCommit turns one pending state into the other.
LEMMA PrepareCommitOrder ==
    ASSUME IndInv, NEW e \in StoreErrors, PrepareCommit(e)
    PROVE  UNCHANGED Order!vars
  <1>1. prep.txn \in Txns /\ InFlight(prep.txn)
    BY DEF PrepareCommit, IndInv, TypeOK, InFlightInv, Stamped, Idle
  <1>2. \A u \in Txns : Outcome(u)' = Outcome(u)
    <2>1. CASE e = "nil"
      BY <2>1 DEF PrepareCommit, Outcome
    <2>2. CASE e # "nil"
      <3>1. /\ state'[prep.txn] = "Rollbacking"
            /\ \A u \in Txns \ {prep.txn} : state'[u] = state[u]
        BY <1>1, <2>2 DEF PrepareCommit, IndInv, TypeOK
      <3> QED
        BY <1>1, <3>1 DEF Outcome, InFlight
    <2> QED
      BY <2>1, <2>2
  <1> QED
    BY <1>2 DEF PrepareCommit, Order!vars

\* Done makes the oldest pending transaction final.
LEMMA DoneOrder ==
    ASSUME IndInv, Done, NEW t \in Txns, t = comm.txn
    PROVE  Order!Final(t)
  <1> USE ConstantsAssumption
  <1>1. InFlight(t) /\ t # NoTxn
    BY DEF Done, IndInv, TypeOK, InFlightInv, Idle
  <1>2. \A u \in Txns : Outcome(u) = "pending" => commitTS[t] <= commitTS[u]
    <2> SUFFICES ASSUME NEW u \in Txns, Outcome(u) = "pending"
                 PROVE  commitTS[t] <= commitTS[u]
      OBVIOUS
    <2>1. InFlight(u)
      BY DEF Outcome, InFlight, IndInv, TypeOK, States
    <2>2. CASE u = t
      BY <2>2 DEF IndInv, TypeOK
    <2>3. CASE u # t
      <3>1. (Stamped /\ prep.txn = u) \/ \E i \in 1..Len(cqueue) : cqueue[i] = u
        BY <2>1, <2>3 DEF IndInv, InFlightInv
      <3>2. commitTS[t] < commitTS[u]
        BY <1>1, <3>1 DEF IndInv, OrderInv
      <3> QED
        BY SMTT(30), <3>2 DEF IndInv, TypeOK
    <2> QED
      BY <2>2, <2>3
  <1>3. \A u \in Txns \ {t} : state'[u] = state[u]
    BY <1>1 DEF Done, IndInv, TypeOK
  <1>a. \A u \in Txns \ {t} : Outcome(u)' = Outcome(u)
    BY <1>3 DEF Outcome
  <1>4. Outcome(t) = "pending"
    BY <1>1 DEF Outcome, InFlight
  <1>5. CASE state[t] = "Committing"
    <2>1. state'[t] = "Committed"
      BY <1>1, <1>5 DEF Done, IndInv, TypeOK
    <2>2. Outcome(t)' = "committed"
      BY <2>1 DEF Outcome, Done
    <2>3. [u \in Txns |-> Outcome(u)]' = [[u \in Txns |-> Outcome(u)] EXCEPT ![t] = "committed"]
      BY <1>1, <1>a, <2>2
    <2> QED
      BY <1>1, <1>2, <1>4, <2>3 DEF Done, Order!Final, Order!Resolve
  <1>6. CASE state[t] = "Rollbacking"
    <2>1. state'[t] = "Rollbacked"
      BY <1>1, <1>6 DEF Done, IndInv, TypeOK
    <2>2. Outcome(t)' = "aborted"
      BY <2>1 DEF Outcome, Done
    <2>3. [u \in Txns |-> Outcome(u)]' = [[u \in Txns |-> Outcome(u)] EXCEPT ![t] = "aborted"]
      BY <1>1, <1>a, <2>2
    <2> QED
      BY <1>1, <1>2, <1>4, <2>3 DEF Done, Order!Final, Order!Resolve
  <1> QED
    BY <1>1, <1>5, <1>6 DEF InFlight

\* The return of Commit or Rollback is the answer.
LEMMA ReturnOrder ==
    ASSUME IndInv, NEW t \in Txns, Return(t)
    PROVE  Order!Answer(t)
  <1>1. state[t] \in Terminal
    BY SMTT(30) DEF Return, IndInv, ClientInv, TypeOK
  <1>2. Outcome(t) \in {"committed", "aborted"}
    BY <1>1 DEF Terminal, Outcome
  <1>3. {u \in Txns : client[u] = "returned"}'
          = {u \in Txns : client[u] = "returned"} \cup {t}
    BY DEF Return, IndInv, TypeOK
  <1>4. \A u \in Txns : Outcome(u)' = Outcome(u)
    BY DEF Return, Outcome
  <1> QED
    BY <1>2, <1>3, <1>4 DEF Return, Order!Answer

\* Under the inductive invariant every step of the manager is a step of
\* TxnOrder or a stutter.
LEMMA NextOrder ==
    ASSUME IndInv, [MgrNext]_mgrVars
    PROVE  [Order!Next]_(Order!vars)
  <1>1. ASSUME NEW t \in Txns, Client(t) PROVE [Order!Next]_(Order!vars)
    <2>1. CASE StartTxn(t)
      BY <2>1, StartTxnOrder DEF Order!Next
    <2>2. CASE Commit(t)
      BY <2>2, TerminateOrder DEF Commit
    <2>3. CASE Rollback(t)
      BY <2>3, TerminateOrder DEF Rollback
    <2>4. CASE Return(t)
      BY <2>4, ReturnOrder DEF Order!Next
    <2>5. ASSUME NEW u \in Txns, ClientGetTxnState(t, u) PROVE UNCHANGED Order!vars
      BY <2>5, StutterOrder DEF ClientGetTxnState, GetTxnState
    <2> QED
      BY <1>1, <2>1, <2>2, <2>3, <2>4, <2>5 DEF Client
  <1>2. CASE PrepareLoop
    <2>1. CASE PreCommit
      BY <2>1, StutterOrder DEF PreCommit
    <2>2. CASE Stamp
      <3>1. prep.txn \in Txns
        BY <2>2 DEF Stamp, IndInv, TypeOK, Idle
      <3> QED
        BY <2>2, <3>1, StampOrder DEF Order!Next
    <2>3. ASSUME NEW e \in StoreErrors, PrepareCommit(e) PROVE UNCHANGED Order!vars
      BY <2>3, PrepareCommitOrder
    <2>4. ASSUME NEW e \in StoreErrors, PrepareRollback(e) PROVE UNCHANGED Order!vars
      BY <2>4, StutterOrder DEF PrepareRollback
    <2>5. CASE EnqueueCheckpoint
      BY <2>5, StutterOrder DEF EnqueueCheckpoint
    <2> QED
      BY <1>2, <2>1, <2>2, <2>3, <2>4, <2>5 DEF PrepareLoop
  <1>3. ASSUME NEW u \in Txns, PreparerGetTxnState(u) PROVE UNCHANGED Order!vars
    BY <1>3, StutterOrder DEF PreparerGetTxnState, GetTxnState
  <1>4. CASE CommitLoop
    <2>1. CASE Dequeue
      BY <2>1, StutterOrder DEF Dequeue
    <2>2. CASE Apply
      BY <2>2, StutterOrder DEF Apply
    <2>3. CASE Done
      <3>1. comm.txn \in Txns
        BY <2>3 DEF Done, IndInv, TypeOK, Idle
      <3> QED
        BY <2>3, <3>1, DoneOrder DEF Order!Next
    <2> QED
      BY <1>4, <2>1, <2>2, <2>3 DEF CommitLoop
  <1>5. CASE UNCHANGED mgrVars
    BY <1>5, StutterOrder DEF mgrVars
  <1> QED
    BY <1>1, <1>2, <1>3, <1>4, <1>5 DEF MgrNext, Quiescent

\* The manager implements TxnOrder: one clock, one outcome per transaction,
\* outcomes in timestamp order, answers after outcomes.
THEOREM ManagerImplementsTxnOrder == MgrSpec => ImplementsTxnOrder
  BY InitOrder, NextOrder, ManagerInductive, PTL
     DEF MgrSpec, ImplementsTxnOrder, Order!Spec
=============================================================================
