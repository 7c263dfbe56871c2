----------------------------- MODULE TxnStoreInv -----------------------------
(***************************************************************************)
(* The inductive invariant of the catalog and the manager together: who    *)
(* owns an entry at each stage of its writer's life, which timestamps it   *)
(* may carry, and what the indexes hold.  It is what the safety properties *)
(* of TxnStore follow from.                                                *)
(***************************************************************************)
EXTENDS TxnStore

Names == DBNames \cup TableNames

EntryRec ==
    [host : Nat, name : Names, op : {"Create", "SoftDelete"},
     txn : Txns \cup {NoTxn}, prev : {"None", "Create", "SoftDelete"},
     createAt : Nat, deleteAt : Nat]

StoreRec ==
    [db : Nat, createEntry : Nat, dropEntry : Nat, created : SUBSET Nat,
     dropped : SUBSET Nat, written : SUBSET Nat, symTable : SUBSET Nat]

CallRec ==
    [pc : {"none", "lock", "walk", "waited", "drop", "write", "writeWaited"},
     op : DBOps \cup TableOps \cup {"none"}, host : Nat, name : Names \cup {"none"},
     at : Nat, found : Nat, met : BOOLEAN]

ReadRec == [key : Nat \X Names, id : Nat, met : BOOLEAN]

Databases == {id \in Ids : IsDB(id)}
TableIds == {id \in Ids : ~IsDB(id)}
Hosts == {CatalogHost} \cup Databases

\* What a transaction has written.
WrittenBy(t) == CreatedBy(t) \cup DroppedBy(t)

-----------------------------------------------------------------------------
\* Every variable of the catalog has its type, and every id names an entry of
\* the right kind.
CatTypeInv ==
    /\ ent \in Seq(EntryRec)
    /\ store \in [Txns -> StoreRec]
    /\ req \in [Txns -> CallRec]
    /\ reads \in [Txns -> SUBSET ReadRec]
    /\ \A id \in Ids : ent[id].host \in Hosts
    /\ \A t \in Txns :
          /\ {store[t].db, store[t].createEntry, store[t].dropEntry} \subseteq {Nil} \cup Databases
          /\ store[t].created \cup store[t].dropped \cup store[t].written \subseteq TableIds
          /\ store[t].symTable \subseteq Ids
    /\ \A t \in Txns : \A r \in reads[t] : r.id # Nil => r.id \in Ids /\ Key(r.id) = r.key

\* The two indexes of a host: a name list holds entries of its name, newest
\* first; only what a rolled back transaction created is missing from it.
IndexInv ==
    /\ nodes \in [DOMAIN nodes -> Seq(Ids)]
    /\ link \in [Hosts -> Seq(Ids)]
    /\ \A id \in Ids : Key(id) \in DOMAIN nodes
    /\ \A k \in DOMAIN nodes : \A i \in 1..Len(nodes[k]) : Key(nodes[k][i]) = k
    /\ \A k \in DOMAIN nodes : \A i, j \in 1..Len(nodes[k]) : i < j => nodes[k][i] > nodes[k][j]
    /\ \A id \in Ids : ~Listed(id) =>
          \E u \in Txns : id \in CreatedBy(u) /\ state[u] \in {"Rollbacking", "Rollbacked"}
    /\ IndexesAgree

\* A call belongs to an open transaction, and holds the lock of its host alone
\* if it writes.
CallInv ==
    /\ \A t \in Txns :
          LET r == req[t] IN
          /\ r.pc = "none" => r = NoCall
          /\ r.pc # "none" =>
                /\ client[t] = "open"
                /\ r.op \in DBOps \cup TableOps
                /\ r.host \in Hosts
                /\ r.host = CatalogHost <=> r.op \in DBOps
                /\ r.name \in NamesOf(r.op)
                /\ r.at >= 1
                /\ r.op \in DBOps /\ store[t].db # Nil => ent[store[t].db].name = r.name
                /\ r.op = "CreateDB" => store[t].db = Nil
          /\ r.pc \in {"walk", "waited", "drop"} => r.op \notin CreateOps
          /\ r.pc \in {"write", "writeWaited"} => r.op \in CreateOps
          /\ r.pc = "waited" => r.at <= Len(NodeList(r.host, r.name))
          /\ r.pc = "writeWaited" => NodeList(r.host, r.name) # <<>>
          /\ r.pc = "drop" => r.op \notin GetOps /\ r.found \in Ids /\ Key(r.found) = <<r.host, r.name>>
    /\ \A h \in Hosts : \A t \in Writers(h), u \in Holders(h) : t = u
    /\ \A t \in Txns : store[t].createEntry # Nil \/ store[t].dropEntry # Nil => store[t].db # Nil
    /\ \A t \in Txns : client[t] = "unborn" => reads[t] = {}

\* What is left of a store call belongs to the transaction that is prepared
\* or applied.
PhaseInv ==
    /\ \A t \in Txns : InFlight(t) => (state[t] = "Committing" <=> op[t] = "Commit")
    /\ prep.pc = "prepareCommit" => state[prep.txn] = "Committing"
    /\ prep.pc = "prepareRollback" => state[prep.txn] = "Rollbacking"
    /\ prep.pc \notin {"prepareCommit", "prepareRollback"} => todo = {}
    /\ prep.pc = "prepareCommit" =>
          \A i \in todo : \/ i \in PrepareItems(prep.txn)
                          \/ \E x \in store[prep.txn].symTable : i = Item(WaitedRank, x)
    /\ prep.pc = "prepareRollback" => todo \subseteq RollbackItems(prep.txn)
    /\ comm.pc # "apply" => applying = {}
    /\ applying # {} => state[comm.txn] = "Committing" /\ applying \subseteq ApplyItems(comm.txn)

\* Not applied and not rolled back: the transaction owns what it has written.
Owns(t) == state[t] = "Active" \/ (state[t] = "Committing" /\ comm.txn # t)

\* Who writes an entry: its writer has it in its store, as created or as
\* dropped, and a transaction that has written an entry remains the writer
\* until the entry is applied or rolled back.
OwnInv ==
    /\ \A id \in Ids, t \in Txns : ent[id].txn = t =>
          IF ent[id].op = "SoftDelete" THEN id \in DroppedBy(t) \/ IsDB(id)
                                       ELSE id \in CreatedBy(t) \ DroppedBy(t)
    /\ \A t \in Txns : Owns(t) => \A id \in WrittenBy(t) : ent[id].txn = t
    /\ comm.pc = "apply" => \A i \in applying : ent[i.id].txn = comm.txn
    /\ prep.pc = "prepareRollback" => \A i \in todo : ent[i.id].txn = prep.txn

\* What a rollback has yet to remove can be found in the indexes.
UndoInv ==
    prep.pc = "prepareRollback" =>
        \A i \in todo : i.id \in CreatedBy(prep.txn) => Listed(i.id)

\* Past the store call that releases table id: applied, or rolled back.
ApplyDone(t, id) ==
    \/ state[t] = "Committed"
    \/ state[t] = "Committing" /\ comm.txn = t /\ Item(TableRank, id) \notin applying

UndoDone(t, id) ==
    \/ state[t] = "Rollbacked"
    \/ state[t] = "Rollbacking" /\ ~(prep.txn = t /\ Item(TableRank, id) \in todo)

\* Released: what a transaction that is past its last store call has written
\* has another writer, or none; but for the tables it created and dropped, and
\* for databases.
ReleaseInv ==
    \A t \in Txns : \A id \in Tables(t) :
        /\ ApplyDone(t, id) => ent[id].txn # t \/ CreateAndDropInSameTxn(ent[id])
        /\ UndoDone(t, id) => ent[id].txn # t /\ (id \in CreatedBy(t) => ~Listed(id))

\* Timestamps of entries: the creator's and the deleter's commit timestamps.
StampInv ==
    /\ tsAlloc >= PrevTs
    /\ \A t \in Txns : commitTS[t] # UncommitTS => commitTS[t] > PrevTs
    /\ \A t \in Txns : startTS[t] # 0 => startTS[t] > PrevTs
    /\ \A id \in Ids : ent[id].createAt <= tsAlloc /\ ent[id].deleteAt <= tsAlloc
    /\ \A id \in Ids :
          \/ ent[id].createAt = PrevTs
          \/ \E u \in Txns : id \in CreatedBy(u) /\ ent[id].createAt \in {Unset, commitTS[u]}
    /\ \A id \in Ids : ent[id].createAt = PrevTs => \A u \in Txns : id \notin CreatedBy(u)
    /\ \A t, u \in Txns : t # u => CreatedBy(t) \cap CreatedBy(u) = {}
    /\ \A id \in Ids : HasActiveTxn(ent[id]) /\ HasDropped(ent[id])
          => ent[id].deleteAt = commitTS[ent[id].txn]
    /\ \A t \in Txns : \A id \in DroppedBy(t) : id \in CreatedBy(t) \/ HasCreated(ent[id])
    /\ StampedWillCommit
    /\ prep.pc = "prepareCommit" /\ (\E i \in todo : i.rank <= CheckRank) =>
          \A id \in Ids : commitTS[prep.txn] \notin {ent[id].createAt, ent[id].deleteAt}

\* Past the preparation of entry id as an item of rank r.
PreparedItem(t, r, id) ==
    \/ state[t] = "Committed"
    \/ state[t] = "Committing" /\ ~(prep.txn = t /\ Item(r, id) \in todo)

\* The outcome of a prepared transaction is on its entries.
PreparedInv ==
    \A t \in Txns :
        /\ \A id \in store[t].dropped : PreparedItem(t, TableRank, id) => ent[id].deleteAt = commitTS[t]
        /\ \A id \in store[t].created : PreparedItem(t, TableRank, id) => ent[id].createAt = commitTS[t]
        /\ store[t].dropEntry # Nil /\ PreparedItem(t, DropRank, store[t].dropEntry)
              => ent[store[t].dropEntry].deleteAt = commitTS[t]
        /\ store[t].createEntry # Nil /\ PreparedItem(t, CreateRank, store[t].createEntry)
              => /\ ent[store[t].createEntry].createAt = commitTS[t]
                 /\ ent[store[t].createEntry].op = "SoftDelete" /\ ent[store[t].createEntry].txn = t
                       => ent[store[t].createEntry].deleteAt = commitTS[t]

\* Past the anti-dependency check of symbol x.
CheckDone(t, x) ==
    /\ state[t] \in {"Committing", "Committed"}
    /\ ~(prep.txn = t /\ (Item(CheckRank, x) \in todo \/ Item(WaitedRank, x) \in todo))

\* A symbol that has been checked was not deleted before the commit timestamp.
CheckInv ==
    \A t \in Txns : \A x \in store[t].symTable :
        CheckDone(t, x) => ~DeleteBefore(ent[x], commitTS[t])

\* What a transaction writes, and the host of it, is among its symbols.
SymbolInv ==
    \A t \in Txns :
        store[t].written \cup {ent[y].host : y \in Tables(t) \cup store[t].written}
            \subseteq store[t].symTable

\* What a drop has found is the caller's own creation, or was created before
\* the caller started.
FoundInv ==
    \A t \in Txns : req[t].pc = "drop" =>
        LET e == ent[req[t].found] IN
        \/ e.txn = t /\ e.op = "Create"
        \/ CreateBefore(e, startTS[t])

\* No read is taken back by a transaction that had its timestamp already.
ReadInv ==
    /\ ReadsFromSnapshot
    /\ \A t \in Txns : \A r \in reads[t] : r.id # Nil =>
          LET e == ent[r.id] IN
          HasActiveTxn(e) /\ ~HasDropped(e) /\ e.op = "SoftDelete" =>
              (state[e.txn] = "Committing" => commitTS[e.txn] > startTS[t])

\* Only the newest entry of a name is not dropped.
NameInv ==
    \A k \in DOMAIN nodes : \A i \in 2..Len(nodes[k]) :
        LET e == ent[nodes[k][i]] IN
        HasDropped(e) \/ IsDroppedUncommitted(e) \/ UndoneDrop(k)

\* An entry that can be found has a writer or a creation timestamp.
BornInv == \A id \in Ids : Listed(id) => HasActiveTxn(ent[id]) \/ HasCreated(ent[id])

\* Live processes only: after a panic nothing is promised but how it came.
StoreInv ==
    /\ IndInv
    /\ CatTypeInv /\ IndexInv /\ CallInv /\ PhaseInv /\ OwnInv /\ UndoInv
    /\ ReleaseInv /\ StampInv /\ PreparedInv /\ CheckInv /\ SymbolInv /\ FoundInv
    /\ ReadInv /\ NameInv /\ BornInv /\ DiesOnlyAfterRollback
=============================================================================
