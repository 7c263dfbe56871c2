------------------------------ MODULE TxnStore ------------------------------
(***************************************************************************)
(* The catalog composed with the transaction manager: what txnStore and    *)
(* txnTable do when the manager's goroutines ask a transaction to prepare, *)
(* to roll back and to apply. Each entry is stamped, restored or released  *)
(* under its own lock, so a reader can come between any two of them.       *)
(***************************************************************************)
EXTENDS Catalog

VARIABLES
    todo,       \* what is left of the prepare goroutine's store call
    applying    \* what is left of the commit goroutine's store call

vars == <<mgrVars, catVars, todo, applying>>

\* A store call is a set of items done by rank; items of one rank come from a
\* Go map and are done in any order. The ranks are the order of the code.
Item(rank, id) == [rank |-> rank, id |-> id]
Ready(items) == {i \in items : \A j \in items : i.rank <= j.rank}
Optional(rank, id) == IF id = Nil THEN {} ELSE {Item(rank, id)}

WaitedRank == 0
LateCheckRank == 5      \* variant: the check comes after the timestamps
CheckRank == 1
CreateRank == 2
TableRank == 3
DropRank == 4

Tables(t) == store[t].created \cup store[t].dropped

\* Variant: no anti-dependency check.
PrepareItemsUnchecked(t) ==
    Optional(CreateRank, store[t].createEntry)
        \cup {Item(TableRank, x) : x \in Tables(t)}
        \cup Optional(DropRank, store[t].dropEntry)

\* txnStore.PrepareCommit: the anti-dependency check, the created database,
\* the tables, the dropped database.
PrepareItems(t) ==
    {Item(CheckRank, x) : x \in store[t].symTable}
        \cup Optional(CreateRank, store[t].createEntry)
        \cup {Item(TableRank, x) : x \in Tables(t)}
        \cup Optional(DropRank, store[t].dropEntry)

\* txnStore.PrepareRollback: the created database, or else the dropped one,
\* then the tables.
RollbackItems(t) ==
    Optional(CreateRank, IF store[t].createEntry # Nil THEN store[t].createEntry
                                                       ELSE store[t].dropEntry)
        \cup {Item(TableRank, x) : x \in Tables(t)}

\* txnStore.ApplyCommit: a dropped database is not applied.
ApplyItems(t) ==
    Optional(CreateRank, store[t].createEntry)
        \cup {Item(TableRank, x) : x \in Tables(t)}

Init == MgrInit /\ CatInit /\ todo = {} /\ applying = {}

-----------------------------------------------------------------------------
(* The prepare goroutine.                                                  *)

StampTxn ==
    /\ Stamp
    /\ todo' = IF op[prep.txn] = "Commit" THEN PrepareItems(prep.txn)
                                          ELSE RollbackItems(prep.txn)
    /\ UNCHANGED <<catVars, applying>>

Fails ==
    /\ PrepareCommit("storeError")
    /\ todo' = RollbackItems(prep.txn)

\* warChecker.check of one symbol: an entry deleted before the commit
\* timestamp is a conflict. While its deleter is committing the check waits
\* for the outcome, and then takes what it had read before it waited.
Check(i) ==
    LET e == ent[i.id]
        deleted == DeleteBefore(e, commitTS[prep.txn])
    IN  /\ prep.pc = "prepareCommit"
        /\ i \in Ready(todo) /\ i.rank = CheckRank
        /\ parked[Preparer] = NoTxn
        /\ CanRLock(IF IsDB(i.id) THEN i.id ELSE e.host)
        /\ \/ /\ ~deleted
              /\ todo' = todo \ {i}
              /\ UNCHANGED mgrVars
           \/ /\ deleted /\ ~IsCommitting(e)
              /\ Fails
           \/ /\ deleted /\ IsCommitting(e)
              /\ \/ /\ GetTxnState(Preparer, e.txn)
                    /\ todo' = (todo \ {i}) \cup {Item(WaitedRank, i.id)}
                 \/ state[e.txn] \in {"Committed", "Rollbacking"} /\ Fails
                 \/ /\ state[e.txn] = "Rollbacked"
                    /\ todo' = todo \ {i}
                    /\ UNCHANGED mgrVars
        /\ UNCHANGED <<catVars, applying>>

\* The check after its wait.
Checked(i) ==
    /\ prep.pc = "prepareCommit"
    /\ i \in Ready(todo) /\ i.rank = WaitedRank
    /\ parked[Preparer] = NoTxn
    /\ IF learned[Preparer] = "Rollbacked"
         THEN todo' = todo \ {i} /\ UNCHANGED mgrVars
         ELSE Fails
    /\ UNCHANGED <<catVars, applying>>

\* BaseEntry.PrepareCommit of a created or dropped entry.
PrepareEntry(i) ==
    /\ prep.pc = "prepareCommit"
    /\ i \in Ready(todo) /\ i.rank \in {CreateRank, TableRank, DropRank}
    /\ CanLockEntry(i.id)
    /\ ent' = [ent EXCEPT ![i.id] = IF CreateAndDropInSameTxn(@) /\ i.rank = TableRank
                                      THEN @ ELSE EntryPrepareCommit(@)]
    /\ todo' = todo \ {i}
    /\ pending' = [pending EXCEPT ![Preparer] = NoHost]
    /\ UNCHANGED <<mgrVars, nodes, link, store, req, calls, reads, panic, applying>>

\* Nothing is left; the commands are made (MakeCommand locks the database for
\* reading) and logged.
PrepareCommitted ==
    LET s == store[prep.txn] IN
    /\ prep.pc = "prepareCommit"
    /\ todo = {}
    /\ \A d \in {s.createEntry, s.dropEntry} \ {Nil} : CanRLock(d)
    /\ PrepareCommit("nil")
    /\ UNCHANGED <<catVars, todo, applying>>

\* Variant: the id leaves the name list and stays in the link.
RemoveEntryKeepsLink(id) ==
    LET key == <<ent[id].host, ent[id].name>> IN
    /\ nodes' = [nodes EXCEPT ![key] = DeleteNode(@, id)]
    /\ UNCHANGED link

\* RemoveEntry: the id leaves its name list and the link of its host; the
\* list stays, even if it is empty.
RemoveEntry(id) ==
    LET key == <<ent[id].host, ent[id].name>> IN
    /\ nodes' = [nodes EXCEPT ![key] = DeleteNode(@, id)]
    /\ link' = [link EXCEPT ![ent[id].host] = DeleteNode(@, id)]

\* Variant: a database that the transaction created is taken for a dropped one.
IsCreatedTable(t, id) == id \in store[t].created

\* Whether PrepareRollback takes the branch of createEntry.
IsCreated(t, id) == id \in store[t].created \cup {store[t].createEntry}

\* txnStore.PrepareRollback for the database and txnTable.PrepareRollback for
\* a table: a created entry is removed from its host, under the host's lock.
\* A database that was dropped and not created is rolled back through the nil
\* createEntry.
RollbackEntry(i) ==
    LET t == prep.txn
        isCreated == IsCreated(t, i.id)
    IN  /\ prep.pc = "prepareRollback"
        /\ i \in Ready(todo)
        /\ isCreated => CanLock(ent[i.id].host)
        /\ IF isCreated THEN RemoveEntry(i.id) ELSE UNCHANGED <<nodes, link>>
        /\ ent' = IF IsDB(i.id) THEN ent
                  ELSE [ent EXCEPT ![i.id] = EntryPrepareRollback(@)]
        /\ panic' = IF IsDB(i.id) /\ ~isCreated THEN "nilCreateEntry" ELSE panic
        /\ todo' = todo \ {i}
        /\ pending' = [pending EXCEPT ![Preparer] = NoHost]
        /\ UNCHANGED <<mgrVars, store, req, calls, reads, applying>>

PrepareRollbacked ==
    /\ prep.pc = "prepareRollback"
    /\ todo = {}
    /\ PrepareRollback("nil")
    /\ UNCHANGED <<catVars, todo, applying>>

\* The host lock an item of the prepare goroutine takes for writing.
WriteLockOf(i) ==
    CASE prep.pc = "prepareCommit" /\ i.rank > CheckRank /\ IsDB(i.id) -> i.id
      [] prep.pc = "prepareRollback"
           /\ i.id \in store[prep.txn].created \cup {store[prep.txn].createEntry}
                -> ent[i.id].host
      [] OTHER -> NoHost

PreparerBlocks(i) ==
    /\ i \in Ready(todo)
    /\ WriteLockOf(i) # NoHost
    /\ BlockOnLock(Preparer, WriteLockOf(i))
    /\ UNCHANGED <<todo, applying>>

-----------------------------------------------------------------------------
(* The commit goroutine.                                                   *)

DequeueTxn ==
    /\ Dequeue
    /\ applying' = IF op[Head(cqueue)] = "Commit" THEN ApplyItems(Head(cqueue)) ELSE {}
    /\ UNCHANGED <<catVars, todo>>

\* BaseEntry.ApplyCommit; txnTable.ApplyCommit skips a table that was created
\* and dropped by the transaction.
ApplyEntry(i) ==
    /\ comm.pc = "apply"
    /\ i \in Ready(applying)
    /\ CanLockEntry(i.id)
    /\ ent' = [ent EXCEPT ![i.id] = IF CreateAndDropInSameTxn(@) /\ i.rank = TableRank
                                      THEN @ ELSE EntryApplyCommit(@)]
    /\ applying' = applying \ {i}
    /\ UNCHANGED <<mgrVars, nodes, link, store, req, calls, pending, reads, panic, todo>>

\* The store is closed; its contents stay in the model as history.
Applied ==
    /\ applying = {}
    /\ Apply
    /\ UNCHANGED <<catVars, todo, applying>>

-----------------------------------------------------------------------------
PrepareGoroutine ==
    \/ (PreCommit \/ EnqueueCheckpoint) /\ UNCHANGED <<catVars, todo, applying>>
    \/ StampTxn
    \/ \E i \in todo : Check(i) \/ Checked(i) \/ PrepareEntry(i) \/ RollbackEntry(i)
    \/ \E i \in todo : PreparerBlocks(i)
    \/ PrepareCommitted
    \/ PrepareRollbacked

CommitGoroutine ==
    \/ DequeueTxn
    \/ \E i \in applying : ApplyEntry(i)
    \/ Applied
    \/ Done /\ UNCHANGED <<catVars, todo, applying>>

\* The client's own choice: it starts a transaction, calls, and ends it.
ClientCall(t) ==
    /\ \/ StartTxn(t) /\ UNCHANGED catVars
       \/ "Commit" \in May[t] /\ req[t] = NoCall /\ Commit(t) /\ UNCHANGED catVars
       \/ "Rollback" \in May[t] /\ req[t] = NoCall /\ Rollback(t) /\ UNCHANGED catVars
       \/ CatalogCall(t)
    /\ UNCHANGED <<todo, applying>>

\* The rest of a call it is in.
ClientStep(t) ==
    /\ CatalogStep(t) \/ (Return(t) /\ UNCHANGED catVars)
    /\ UNCHANGED <<todo, applying>>

\* A panic ends the process.
Next ==
    /\ panic = "none"
    /\ \/ PrepareGoroutine
       \/ CommitGoroutine
       \/ \E t \in Txns : ClientCall(t) \/ ClientStep(t)

Spec == Init /\ [][Next]_vars

\* Every goroutine that is inside the code goes on while it can.
Fairness ==
    /\ WF_vars(panic = "none" /\ PrepareGoroutine)
    /\ WF_vars(panic = "none" /\ CommitGoroutine)
    /\ \A t \in Txns : WF_vars(panic = "none" /\ ClientStep(t))

FairSpec == Spec /\ Fairness

-----------------------------------------------------------------------------
(* Properties.                                                             *)

CreatedBy(t) == store[t].created \cup ({store[t].createEntry} \ {Nil})
DroppedBy(t) == store[t].dropped \cup ({store[t].dropEntry} \ {Nil})

Key(id) == <<ent[id].host, ent[id].name>>
Listed(id) == \E i \in 1..Len(nodes[Key(id)]) : nodes[Key(id)][i] = id

\* Committed and not dropped, and nobody is writing it.
Live(id) == /\ Listed(id)
            /\ HasCreated(ent[id]) /\ ~HasDropped(ent[id]) /\ ~HasActiveTxn(ent[id])

\* Some transaction dropped an entry of that name and was rolled back.
UndoneDrop(key) ==
    \E t \in Txns : /\ state[t] \in {"Rollbacking", "Rollbacked"}
                    /\ \E id \in DroppedBy(t) : Key(id) = key

\* The indexes of a host agree: its link and its name lists hold the same
\* entries, each once (addEntryLocked and RemoveEntry update both).
IndexesAgree ==
    \A h \in DOMAIN link :
        /\ {link[h][i] : i \in DOMAIN link[h]} = {id \in Ids : ent[id].host = h /\ Listed(id)}
        /\ \A i, j \in DOMAIN link[h] : link[h][i] = link[h][j] => i = j

\* What a get returned is in the caller's snapshot: the caller's own entry, or
\* one committed before its start timestamp and not deleted before it (the
\* read view of TxnGetTableNodeLocked and TxnGetDBNodeLocked).
ReadsFromSnapshot ==
    \A t \in Txns : \A r \in reads[t] : r.id # Nil =>
        /\ r.id \in CreatedBy(t) \/ CreateBefore(ent[r.id], startTS[t])
        /\ ~DeleteBefore(ent[r.id], startTS[t])

\* A get that missed an entry of its snapshot met a transaction in flight on
\* the way: lookups are complete whenever no writer of the name is between
\* its commit timestamp and Done (and no dropped entry came back).
MissMeetsInFlight ==
    \A t \in Txns : \A r \in reads[t] : \A id \in Ids :
        /\ r.id = Nil /\ ~r.met
        /\ Key(id) = r.key /\ Listed(id)
        /\ CreateBefore(ent[id], startTS[t]) /\ ~DeleteBefore(ent[id], startTS[t])
        /\ ~UndoneDrop(r.key)
        => \E x \in DroppedBy(t) : Key(x) = r.key

\* Two committed entries of one name are alive together only if the drop of
\* one was rolled back while the other was being created (addEntryLocked
\* looks at the newest entry only and takes an unfinished drop for a drop).
DuplicateNeedsUndoneDrop ==
    \A a, b \in Ids :
        a # b /\ Key(a) = Key(b) /\ Live(a) /\ Live(b) => UndoneDrop(Key(a))

\* First writer wins: no entry is dropped by two committed transactions.
DroppedOnce ==
    \A id \in Ids : \A t, u \in Txns :
        /\ state[t] = "Committed" /\ id \in DroppedBy(t)
        /\ state[u] = "Committed" /\ id \in DroppedBy(u)
        => t = u

\* The anti-dependency check is complete: no transaction commits a change in
\* a database or a table that was dropped at a smaller commit timestamp.
NoWriteAfterDrop ==
    \A t \in Txns : state[t] = "Committed" =>
        \A x \in store[t].written \cup {ent[y].host : y \in Tables(t) \cup store[t].written} :
            ~DeleteBefore(ent[x], commitTS[t])

\* A timestamp reaches an entry only when nothing can make its transaction
\* fail any more: PrepareRollback does not take timestamps back.
StampedWillCommit ==
    \A t \in Txns : \A id \in Ids :
        commitTS[t] # UncommitTS /\ commitTS[t] \in {ent[id].createAt, ent[id].deleteAt}
            => state[t] \in {"Committing", "Committed"}

\* When a transaction is done, no table entry that can be found still names
\* it as its writer, except one it created and dropped itself; and what a
\* rolled back transaction created cannot be found.
DoneReleasesEntries ==
    \A t \in Txns : \A id \in Ids : Listed(id) /\ ~IsDB(id) =>
        /\ state[t] \in Terminal /\ ent[id].txn = t => CreateAndDropInSameTxn(ent[id])
        /\ state[t] = "Rollbacked" => id \notin CreatedBy(t)

\* With a store attached, the manager still is the manager: every step is one
\* of MgrNext, and a prepare goroutine that waits in warChecker.check waits
\* for a transaction that is already prepared.
ImplementsManager == MgrSpec

\* All gets of a name by a transaction agree, as long as it does not write
\* the name itself ("RR isolation", README).
RepeatableRead ==
    \A t \in Txns : \A r, s \in reads[t] : r.key = s.key => r.id = s.id

\* Every lookup, create and drop returns.
CallsEnd == \A t \in Txns : req[t].pc # "none" ~> req[t].pc = "none"

\* The process dies in two ways only, both after a rollback: of a transaction
\* that dropped a database and created none (PrepareRollback goes through the
\* nil createEntry), or when a name is created whose every creation was rolled
\* back (RemoveEntry leaves an empty list, and addEntryLocked looks at its
\* first node). The panic of DropEntryLocked on an entry that was created after
\* the dropper started is never reached.
DiesOnlyAfterRollback ==
    /\ panic \in {"none", "nilCreateEntry", "emptyNodeList"}
    /\ panic = "nilCreateEntry" =>
           /\ prep.pc = "prepareRollback"
           /\ store[prep.txn].dropEntry # Nil /\ store[prep.txn].createEntry = Nil
    /\ panic = "emptyNodeList" =>
           \E t \in Txns :
               /\ req[t].pc = "write"
               /\ \A id \in Ids : ent[id].host = req[t].host /\ ent[id].name = req[t].name =>
                      \E u \in Txns : id \in CreatedBy(u) /\ state[u] \in {"Rollbacking", "Rollbacked"}
=============================================================================
