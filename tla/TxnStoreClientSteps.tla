------------------------- MODULE TxnStoreClientSteps -------------------------
(***************************************************************************)
(* StoreInv is kept by the steps of a client: lookups, drops, creates, and *)
(* the writes through a relation handle.                                   *)
(***************************************************************************)
EXTENDS TxnStoreLemmas

-----------------------------------------------------------------------------
(* Steps that change no entry and no index.                                *)

\* The manager is where it was, but for who waits for whom.
ManagerStays == UNCHANGED <<tsAlloc, state, startTS, commitTS, op, client, prep, comm>>

\* What a transaction has created and dropped stays.
WritesStay ==
    \A u \in Txns : /\ store'[u].created = store[u].created
                    /\ store'[u].dropped = store[u].dropped
                    /\ store'[u].createEntry = store[u].createEntry
                    /\ store'[u].dropEntry = store[u].dropEntry

\* Symbols are only added, by active transactions.
SymbolsGrow ==
    \A u \in Txns : \/ store'[u].symTable = store[u].symTable
                    \/ state[u] = "Active" /\ store[u].symTable \subseteq store'[u].symTable

\* A step that changes no entry, no index and no list of what was written
\* keeps what is said of entries and of store calls.
LEMMA QuietKeeps ==
    ASSUME StoreInv, panic = "none", ManagerStays, WritesStay, SymbolsGrow,
           UNCHANGED <<ent, nodes, link, todo, applying, panic>>
    PROVE  /\ IndexInv' /\ PhaseInv' /\ OwnInv' /\ UndoInv' /\ ReleaseInv' /\ StampInv'
           /\ PreparedInv' /\ CheckInv' /\ NameInv' /\ BornInv' /\ DiesOnlyAfterRollback'
  <1> USE DEF StoreInv
  <1>1. /\ Ids' = Ids /\ KeysKept
        /\ \A id : (IsDB(id)' <=> IsDB(id)) /\ (Listed(id)' <=> Listed(id))
    BY Zenon DEF Ids, KeysKept, IsDB, Listed, Key
  <1>2. \A u \in Txns : /\ Tables(u)' = Tables(u) /\ WrittenBy(u)' = WrittenBy(u)
                        /\ CreatedBy(u)' = CreatedBy(u) /\ DroppedBy(u)' = DroppedBy(u)
    BY Zenon DEF WritesStay, Tables, WrittenBy, CreatedBy, DroppedBy
  <1>3. IndexInv'
    BY <1>1, <1>2, IndexKept, Zenon DEF ManagerStays
  <1>4. NameInv'
    BY <1>1, <1>2, NameKept, Zenon DEF ManagerStays
  <1>5. PhaseInv'
    <2>1. \A u \in Txns : /\ RollbackItems(u)' = RollbackItems(u) /\ ApplyItems(u)' = ApplyItems(u)
                          /\ PrepareItems(u) \subseteq PrepareItems(u)'
                          /\ store[u].symTable \subseteq store'[u].symTable
      <3>1. \A u \in Txns : RollbackItems(u)' = RollbackItems(u) /\ ApplyItems(u)' = ApplyItems(u)
        BY <1>2, Zenon DEF RollbackItems, ApplyItems, WritesStay
      <3>2. \A u \in Txns : store[u].symTable \subseteq store'[u].symTable
        BY Zenon DEF SymbolsGrow
      <3>3. ASSUME NEW u \in Txns PROVE PrepareItems(u) \subseteq PrepareItems(u)'
        BY <1>2, <3>2, Zenon DEF PrepareItems, WritesStay
      <3> QED
        BY <3>1, <3>2, <3>3, Zenon
    <2>2. prep.pc \in {"prepareCommit", "prepareRollback"} => prep.txn \in Txns
      BY DEF IndInv, TypeOK, Idle
    <2>3. applying # {} => comm.txn \in Txns
      BY ApplyItemFacts, Zenon
    <2>4. ASSUME NEW u \in Txns, prep.pc = "prepareCommit", u = prep.txn
          PROVE  \A i \in todo : \/ i \in PrepareItems(u)'
                                 \/ \E x \in store'[u].symTable : i = Item(WaitedRank, x)
      <3>1. \A i \in todo : \/ i \in PrepareItems(u)
                            \/ \E x \in store[u].symTable : i = Item(WaitedRank, x)
        BY <2>4, Zenon DEF PhaseInv
      <3> QED
        BY <2>1, <3>1, Zenon
    <2>5. \A u \in Txns : prep.pc = "prepareRollback" /\ u = prep.txn => todo \subseteq RollbackItems(u)'
      BY <2>1, Zenon DEF PhaseInv
    <2>6. \A u \in Txns : applying # {} /\ u = comm.txn =>
             state[u] = "Committing" /\ applying \subseteq ApplyItems(u)'
      BY <2>1, Zenon DEF PhaseInv
    <2>7. /\ \A t \in Txns : InFlight(t) => (state[t] = "Committing" <=> op[t] = "Commit")
          /\ prep.pc = "prepareCommit" => state[prep.txn] = "Committing"
          /\ prep.pc = "prepareRollback" => state[prep.txn] = "Rollbacking"
          /\ prep.pc \notin {"prepareCommit", "prepareRollback"} => todo = {}
          /\ comm.pc # "apply" => applying = {}
      BY Zenon DEF PhaseInv
    <2> QED
      BY <2>2, <2>3, <2>4, <2>5, <2>6, <2>7, Zenon DEF PhaseInv, ManagerStays, InFlight
  <1>6. OwnInv'
    BY <1>1, <1>2 DEF OwnInv, ManagerStays, Owns
  <1>7. UndoInv'
    <2>1. prep.pc = "prepareRollback" => prep.txn \in Txns
      BY DEF IndInv, TypeOK, Idle
    <2> QED
      BY <1>1, <1>2, <2>1, Zenon DEF UndoInv, ManagerStays, CreatedBy
  <1>8. ReleaseInv'
    BY <1>1, <1>2 DEF ReleaseInv, ApplyDone, UndoDone, ManagerStays, CreateAndDropInSameTxn, HasCreated
  <1>9. StampInv'
    BY <1>1, <1>2 DEF StampInv, ManagerStays, StampedWillCommit, HasActiveTxn, HasDropped, HasCreated
  <1>10. PreparedInv'
    BY DEF PreparedInv, PreparedItem, WritesStay, ManagerStays
  <1>11. CheckInv'
    <2>1. \A u \in Txns : \A x : CheckDone(u, x)' => CheckDone(u, x) /\ state[u] # "Active"
      BY DEF CheckDone, ManagerStays
    <2> QED
      BY <2>1, Zenon DEF CheckInv, SymbolsGrow, ManagerStays, DeleteBefore, HasDropped
  <1>12. DiesOnlyAfterRollback'
    BY DEF DiesOnlyAfterRollback
  <1>13. BornInv'
    BY <1>1, Zenon DEF BornInv, HasActiveTxn, HasCreated
  <1> QED
    BY <1>3, <1>4, <1>5, <1>6, <1>7, <1>8, <1>9, <1>10, <1>11, <1>12, <1>13, Zenon

-----------------------------------------------------------------------------
(* Steps that change the call of one transaction.                          *)

\* What CallInv says of the call r of t.
CallOk(t, r) ==
    /\ r \in CallRec
    /\ r.pc = "none" => r = NoCall
    /\ r.pc # "none" =>
          /\ client[t] = "open"
          /\ r.op \in DBOps \cup TableOps
          /\ r.host \in Hosts
          /\ r.host = CatalogHost <=> r.op \in DBOps
          /\ r.name \in NamesOf(r.op)
          /\ r.at >= 1
          /\ r.op \in DBOps /\ store[t].db # Nil => ent[store[t].db].name = r.name
          /\ r.op = "CreateDB" => store[t].db = Nil
    /\ r.pc \in {"walk", "waited", "drop"} => r.op \notin CreateOps
    /\ r.pc \in {"write", "writeWaited"} => r.op \in CreateOps
    /\ r.pc = "waited" => r.at <= Len(NodeList(r.host, r.name))
    /\ r.pc = "writeWaited" => NodeList(r.host, r.name) # <<>>
    /\ r.pc = "drop" => r.op \notin GetOps /\ r.found \in Ids /\ Key(r.found) = <<r.host, r.name>>

\* Call r of t holds no lock, the lock t held before, or one that was free.
LockOk(t, r) ==
    \/ r.pc \in {"none", "lock"}
    \/ t \in Holders(r.host) /\ r.op = req[t].op
    \/ CanAcquire(r.op, r.host)

\* Hosts, entries and name lists are only added to.
CatalogGrows ==
    /\ Ids \subseteq Ids' /\ Hosts \subseteq Hosts'
    /\ \A id \in Ids : Key(id)' = Key(id)
    /\ \A h, n : /\ Len(NodeList(h, n)) \in Nat /\ Len(NodeList(h, n)') \in Nat
                 /\ Len(NodeList(h, n)) <= Len(NodeList(h, n)')
                 /\ NodeList(h, n) # <<>> => NodeList(h, n)' # <<>>

\* Every call is one that CallInv allows.
LEMMA CallsOk ==
    ASSUME StoreInv, NEW t \in Txns
    PROVE  CallOk(t, req[t])
  <1>1. req[t] \in CallRec
    BY Zenon DEF StoreInv, CatTypeInv
  <1> QED
    BY <1>1, Zenon DEF StoreInv, CallInv, CallOk

\* The call of one transaction is replaced by another that is allowed.
LEMMA CallReplaced ==
    ASSUME StoreInv, client' = client, CatalogGrows,
           NEW t \in Txns, NEW r, CallOk(t, r), LockOk(t, r), req' = [req EXCEPT ![t] = r],
           \A u \in Txns : u # t => store'[u] = store[u],
           store'[t].db = store[t].db \/ r = NoCall,
           store'[t].createEntry # Nil \/ store'[t].dropEntry # Nil => store'[t].db # Nil,
           \A u \in Txns : client[u] = "unborn" => reads'[u] = {}
    PROVE  CallInv'
  <1> USE DEF StoreInv
  <1>1. req \in [Txns -> CallRec]
    BY Zenon DEF CatTypeInv
  <1>2. req'[t] = r /\ \A u \in Txns : u # t => req'[u] = req[u]
    BY <1>1, Zenon
  <1>3. ASSUME NEW u \in Txns
        PROVE  LET q == req'[u] IN
               /\ CallOk(u, q)
               /\ q.pc # "none" => store'[u].db = store[u].db
    <2>1. CASE u = t
      BY <1>2, <2>1 DEF NoCall
    <2>2. CASE u # t
      BY <1>2, <2>2, CallsOk, Zenon
    <2> QED
      BY <2>1, <2>2, Zenon
  <1>4. ASSUME NEW u \in Txns, NEW q, q = req'[u]
        PROVE  /\ q.pc = "none" => q = NoCall
               /\ q.pc # "none" =>
                     /\ client'[u] = "open"
                     /\ q.op \in DBOps \cup TableOps
                     /\ q.host \in Hosts'
                     /\ q.host = CatalogHost <=> q.op \in DBOps
                     /\ q.name \in NamesOf(q.op)
                     /\ q.at >= 1
                     /\ q.op \in DBOps /\ store'[u].db # Nil => ent'[store'[u].db].name = q.name
                     /\ q.op = "CreateDB" => store'[u].db = Nil
               /\ q.pc \in {"walk", "waited", "drop"} => q.op \notin CreateOps
               /\ q.pc \in {"write", "writeWaited"} => q.op \in CreateOps
               /\ q.pc = "waited" => q.at <= Len(NodeList(q.host, q.name)')
               /\ q.pc = "writeWaited" => NodeList(q.host, q.name)' # <<>>
               /\ q.pc = "drop" => q.op \notin GetOps /\ q.found \in Ids' /\ Key(q.found)' = <<q.host, q.name>>
    <2>1. CallOk(u, q) /\ (q.pc # "none" => store'[u].db = store[u].db)
      BY <1>3, <1>4, Zenon
    <2>2. \A x \in Databases : ent'[x].name = ent[x].name
      BY Zenon DEF CatalogGrows, Key, Databases
    <2>3. store[u].db # Nil => store[u].db \in Databases
      BY Zenon DEF CatTypeInv
    <2>4. q.at \in Nat
      BY <2>1, Zenon DEF CallOk, CallRec
    <2>5. q.pc = "waited" => q.at <= Len(NodeList(q.host, q.name)')
      <3>1. q.pc = "waited" => q.at <= Len(NodeList(q.host, q.name))
        BY <2>1, Zenon DEF CallOk
      <3>2. /\ Len(NodeList(q.host, q.name)) \in Nat /\ Len(NodeList(q.host, q.name)') \in Nat
            /\ Len(NodeList(q.host, q.name)) <= Len(NodeList(q.host, q.name)')
        BY Zenon DEF CatalogGrows
      <3> QED
        BY <2>4, <3>1, <3>2
    <2>6. q.pc # "none" => (q.op \in DBOps /\ store'[u].db # Nil => ent'[store'[u].db].name = q.name)
      BY <2>1, <2>2, <2>3, Zenon DEF CallOk
    <2>7. q.pc = "drop" => q.op \notin GetOps /\ q.found \in Ids' /\ Key(q.found)' = <<q.host, q.name>>
      BY <2>1, Zenon DEF CallOk, CatalogGrows
    <2>8. q.pc = "writeWaited" => NodeList(q.host, q.name)' # <<>>
      BY <2>1, Zenon DEF CallOk, CatalogGrows
    <2>9. q.pc # "none" => q.host \in Hosts'
      BY <2>1, Zenon DEF CallOk, CatalogGrows
    <2> QED
      BY <2>1, <2>5, <2>6, <2>7, <2>8, <2>9, Zenon DEF CallOk
  <1>5. ASSUME NEW h, NEW u \in Writers(h)', NEW v \in Holders(h)' PROVE u = v
    <2>1. u \in Holders(h)' /\ u \in Txns /\ v \in Txns /\ req'[u].op \notin GetOps
      BY Zenon DEF Writers, Holders
    <2>2. ASSUME NEW w \in Txns, w # t, w \in Holders(h)'
          PROVE  w \in Holders(h) /\ (req'[w].op \notin GetOps => w \in Writers(h)) /\ h \in Hosts
      <3>1. w \in Holders(h) /\ (req'[w].op \notin GetOps => w \in Writers(h))
        BY <1>2, <2>2, Zenon DEF Holders, Writers
      <3>2. CallOk(w, req[w])
        BY CallsOk, Zenon
      <3> QED
        BY <3>1, <3>2, Zenon DEF Holders, CallOk
    <2>3. \A x \in Hosts : \A a \in Writers(x), b \in Holders(x) : a = b
      BY Zenon DEF CallInv
    <2>4. CASE u # t /\ v # t
      BY <2>1, <2>2, <2>3, <2>4, Zenon
    <2>5. ASSUME t \in Holders(h)'
          PROVE  (t \in Holders(h) /\ r.op = req[t].op) \/ CanAcquire(r.op, h)
      <3>1. r.pc \notin {"none", "lock"} /\ r.host = h
        BY <1>2, <2>5, Zenon DEF Holders
      <3>2. (t \in Holders(r.host) /\ r.op = req[t].op) \/ CanAcquire(r.op, r.host)
        BY <3>1, Zenon DEF LockOk
      <3> QED
        BY <3>1, <3>2, Zenon
    <2>6. CASE u = t /\ v # t
      <3>1. v \in Holders(h) /\ h \in Hosts
        BY <2>1, <2>2, <2>6, Zenon
      <3>2. r.op \notin GetOps
        BY <1>2, <2>1, <2>6, Zenon
      <3>3. ~CanAcquire(r.op, h)
        BY <3>1, <3>2, Zenon DEF CanAcquire, CanLock
      <3>4. t \in Writers(h)
        BY <2>1, <2>5, <2>6, <3>2, <3>3, Zenon DEF Writers
      <3> QED
        BY <2>3, <2>6, <3>1, <3>4, Zenon
    <2>7. CASE u # t /\ v = t
      <3>1. u \in Writers(h) /\ u \in Holders(h) /\ h \in Hosts
        BY <2>1, <2>2, <2>7, Zenon
      <3>2. ~CanAcquire(r.op, h)
        BY <3>1, Zenon DEF CanAcquire, CanLock, CanRLock
      <3>3. t \in Holders(h)
        BY <2>5, <2>7, <3>2, Zenon
      <3> QED
        BY <2>3, <2>7, <3>1, <3>3, Zenon
    <2> QED
      BY <2>4, <2>6, <2>7, Zenon
  <1>6. \A u \in Txns : store'[u].createEntry # Nil \/ store'[u].dropEntry # Nil => store'[u].db # Nil
    BY Zenon DEF CallInv
  <1> QED
    BY <1>4, <1>5, <1>6, Zenon DEF CallInv

\* What CatalogGrows says of a step that changes no entry and no name list.
LEMMA CatalogSame ==
    ASSUME StoreInv, UNCHANGED <<ent, nodes>>
    PROVE  CatalogGrows
  <1>1. Ids' = Ids /\ Hosts' = Hosts
    BY Zenon DEF Ids, Hosts, Databases, IsDB
  <1>2. \A id \in Ids : Key(id)' = Key(id)
    BY Zenon DEF Key
  <1>3. \A h, n : NodeList(h, n)' = NodeList(h, n)
    BY Zenon DEF NodeList
  <1>4. \A h, n : Len(NodeList(h, n)) \in Nat
    <2> TAKE h, n
    <2>1. <<h, n>> \in DOMAIN nodes => nodes[<<h, n>>] \in Seq(Ids)
      BY Zenon DEF StoreInv, IndexInv
    <2> QED
      BY <2>1 DEF NodeList
  <1>5. \A h, n : Len(NodeList(h, n)) <= Len(NodeList(h, n))
    BY <1>4
  <1> QED
    BY <1>1, <1>2, <1>3, <1>4, <1>5, Zenon DEF CatalogGrows

\* A step that changes one call, and in the manager only who waits for whom.
LEMMA CallStepStoreInv ==
    ASSUME StoreInv, IndInv', panic = "none", ManagerStays,
           UNCHANGED <<ent, nodes, link, store, reads, todo, applying, panic>>,
           NEW t \in Txns, NEW r, CallOk(t, r), LockOk(t, r), req' = [req EXCEPT ![t] = r],
           r.pc = "drop" => \/ ent[r.found].txn = t /\ ent[r.found].op = "Create"
                            \/ CreateBefore(ent[r.found], startTS[t])
    PROVE  StoreInv'
  <1>1. WritesStay /\ SymbolsGrow
    BY Zenon DEF WritesStay, SymbolsGrow
  <1>2. /\ IndexInv' /\ PhaseInv' /\ OwnInv' /\ UndoInv' /\ ReleaseInv' /\ StampInv'
        /\ PreparedInv' /\ CheckInv' /\ NameInv' /\ BornInv' /\ DiesOnlyAfterRollback'
    BY <1>1, QuietKeeps, Zenon
  <1>3. CallInv'
    <2>1. \A u \in Txns : client[u] = "unborn" => reads'[u] = {}
      BY Zenon DEF StoreInv, CallInv
    <2>2. store'[t].createEntry # Nil \/ store'[t].dropEntry # Nil => store'[t].db # Nil
      BY Zenon DEF StoreInv, CallInv
    <2> QED
      BY <2>1, <2>2, CatalogSame, CallReplaced, Zenon DEF ManagerStays
  <1>4. req \in [Txns -> CallRec] /\ req' \in [Txns -> CallRec]
    BY Zenon DEF StoreInv, CatTypeInv, CallOk
  <1>5. CatTypeInv'
    <2>1. Ids' = Ids /\ Databases' = Databases /\ TableIds' = TableIds
      BY Zenon DEF Ids, Databases, TableIds, IsDB
    <2>2. Hosts' = Hosts /\ \A id : Key(id)' = Key(id)
      BY <2>1, Zenon DEF Hosts, Key
    <2> QED
      BY <1>4, <2>1, <2>2, Zenon DEF StoreInv, CatTypeInv
  <1>6. SymbolInv'
    <2>1. \A u : Tables(u)' = Tables(u)
      BY Zenon DEF Tables
    <2> QED
      BY <2>1, Zenon DEF StoreInv, SymbolInv
  <1>7. ReadInv'
    BY DEF StoreInv, ReadInv, ReadsFromSnapshot, ManagerStays, CreatedBy, CreateBefore,
           DeleteBefore, HasCreated, HasDropped, HasActiveTxn
  <1>8. FoundInv'
    <2> SUFFICES ASSUME NEW u \in Txns, NEW q, q = req'[u], q.pc = "drop"
                 PROVE  \/ ent[q.found].txn = u /\ ent[q.found].op = "Create"
                        \/ CreateBefore(ent[q.found], startTS[u])
      BY Zenon DEF FoundInv, ManagerStays, CreateBefore, HasCreated
    <2>1. CASE u = t
      BY <1>4, <2>1, Zenon
    <2>2. CASE u # t
      <3>1. q = req[u]
        BY <1>4, <2>2, Zenon
      <3> QED
        BY <3>1, Zenon DEF StoreInv, FoundInv
    <2> QED
      BY <2>1, <2>2, Zenon
  <1> QED
    BY <1>2, <1>3, <1>5, <1>6, <1>7, <1>8, Zenon DEF StoreInv

\* A step that changes neither a call nor an entry nor a store: somebody blocks
\* on a lock.
LEMMA BlocksStoreInv ==
    ASSUME StoreInv, IndInv', panic = "none", ManagerStays,
           UNCHANGED <<ent, nodes, link, store, req, reads, todo, applying, panic>>
    PROVE  StoreInv'
  <1>1. WritesStay /\ SymbolsGrow
    BY Zenon DEF WritesStay, SymbolsGrow
  <1>2. /\ IndexInv' /\ PhaseInv' /\ OwnInv' /\ UndoInv' /\ ReleaseInv' /\ StampInv'
        /\ PreparedInv' /\ CheckInv' /\ NameInv' /\ BornInv' /\ DiesOnlyAfterRollback'
    BY <1>1, QuietKeeps, Zenon
  <1>3. CallInv'
    BY DEF StoreInv, CallInv, ManagerStays, NodeList, Ids, Hosts, Databases, IsDB, Key, Writers, Holders
  <1>5. CatTypeInv'
    <2>1. Ids' = Ids /\ Databases' = Databases /\ TableIds' = TableIds
      BY Zenon DEF Ids, Databases, TableIds, IsDB
    <2>2. Hosts' = Hosts /\ \A id : Key(id)' = Key(id)
      BY <2>1, Zenon DEF Hosts, Key
    <2> QED
      BY <2>1, <2>2, Zenon DEF StoreInv, CatTypeInv
  <1>6. SymbolInv'
    <2>1. \A u : Tables(u)' = Tables(u)
      BY Zenon DEF Tables
    <2> QED
      BY <2>1, Zenon DEF StoreInv, SymbolInv
  <1>7. ReadInv'
    BY DEF StoreInv, ReadInv, ReadsFromSnapshot, ManagerStays, CreatedBy, CreateBefore,
           DeleteBefore, HasCreated, HasDropped, HasActiveTxn
  <1>8. FoundInv'
    BY DEF StoreInv, FoundInv, ManagerStays, CreateBefore, HasCreated
  <1> QED
    BY <1>2, <1>3, <1>5, <1>6, <1>7, <1>8, Zenon DEF StoreInv

\* A client begins a call, with the lock of the host or queued for it.
LEMMA InvokeStoreInv ==
    ASSUME StoreInv, IndInv', panic = "none", NEW t \in Txns, NEW o \in DBOps \cup TableOps,
           NEW n \in NamesOf(o), Invoke(t, o, n), UNCHANGED <<todo, applying>>
    PROVE  StoreInv'
  <1> DEFINE h == IF o \in DBOps THEN CatalogHost ELSE store[t].db
             p == IF CanAcquire(o, h) THEN FirstPc(o) ELSE "lock"
             r == [pc |-> p, op |-> o, host |-> h, name |-> n, at |-> 1,
                   found |-> Nil, met |-> FALSE]
  <1>1. /\ client[t] = "open"
        /\ o = "CreateDB" => store[t].db = Nil
        /\ o \in DBOps /\ store[t].db # Nil => ent[store[t].db].name = n
        /\ o \in TableOps => store[t].db # Nil
        /\ UNCHANGED <<mgrVars, ent, nodes, link, store, reads, panic>>
    BY Zenon DEF Invoke
  <1>2. req' = [req EXCEPT ![t] = r]
    BY DEF Invoke, NoCall
  <1>3. store[t].db # Nil => store[t].db \in Hosts
    BY Zenon DEF StoreInv, CatTypeInv, Hosts
  <1>4. h \in Hosts /\ h \in Nat /\ (h = CatalogHost <=> o \in DBOps)
    <2>1. CatalogHost \in Hosts /\ CatalogHost \in Nat /\ CatalogHost = Nil
      BY DEF Hosts, CatalogHost, Nil
    <2>2. store[t].db \in Nat
      BY Zenon DEF StoreInv, CatTypeInv, StoreRec
    <2> QED
      BY <1>1, <1>3, <2>1, <2>2, Zenon
  <1> HIDE DEF h
  <1>5. p \in {"lock", "walk", "write"} /\ (p = "walk" => o \notin CreateOps)
        /\ (p = "write" => o \in CreateOps)
    BY DEF FirstPc
  <1>6. p # "lock" => CanAcquire(o, h)
    OBVIOUS
  <1> HIDE DEF p
  <1>7. n \in Names \cup {"none"}
    BY Zenon DEF NamesOf, Names
  <1>8. r \in CallRec
    BY <1>4, <1>5, <1>7 DEF CallRec, Nil
  <1>9. CallOk(t, r)
    BY <1>1, <1>4, <1>5, <1>8 DEF CallOk
  <1>10. LockOk(t, r)
    BY <1>5, <1>6 DEF LockOk
  <1>11. r.pc # "drop"
    BY <1>5
  <1>12. ManagerStays
    BY <1>1, Zenon DEF ManagerStays, mgrVars
  <1> HIDE DEF r
  <1> QED
    BY <1>1, <1>2, <1>9, <1>10, <1>11, <1>12, CallStepStoreInv, Zenon

\* A queued call gets its lock.
LEMMA AcquireStoreInv ==
    ASSUME StoreInv, IndInv', panic = "none", NEW t \in Txns, Acquire(t), UNCHANGED <<todo, applying>>
    PROVE  StoreInv'
  <1> DEFINE q == req[t]
             p == FirstPc(q.op)
             r == [pc |-> p, op |-> q.op, host |-> q.host, name |-> q.name, at |-> q.at,
                   found |-> q.found, met |-> q.met]
  <1>1. /\ q.pc = "lock" /\ CanAcquire(q.op, q.host)
        /\ req' = [req EXCEPT ![t].pc = p]
        /\ UNCHANGED <<mgrVars, ent, nodes, link, store, reads, panic>>
    BY Zenon DEF Acquire
  <1>2. CallOk(t, q) /\ q \in CallRec
    BY CallsOk, Zenon DEF CallOk
  <1>3. q.at \in Nat /\ q.found \in Nat /\ q.met \in BOOLEAN
    BY <1>2, Zenon DEF CallRec
  <1>4. req' = [req EXCEPT ![t] = r]
    <2>1. [q EXCEPT !.pc = p] = r
      BY <1>2 DEF CallRec
    <2>2. req' = [req EXCEPT ![t] = [q EXCEPT !.pc = p]]
      BY <1>1, Zenon
    <2> QED
      BY <2>1, <2>2, Zenon
  <1>5. p \in {"walk", "write"} /\ (p = "walk" => q.op \notin CreateOps)
        /\ (p = "write" => q.op \in CreateOps)
    BY DEF FirstPc
  <1> HIDE DEF p, q
  <1>6. /\ r \in CallRec
        /\ r.pc = p /\ r.op = q.op /\ r.host = q.host /\ r.name = q.name /\ r.at = q.at
    BY <1>2, <1>5 DEF CallRec
  <1> HIDE DEF r
  <1>7. CallOk(t, r)
    <2>1. /\ r.pc \notin {"none", "waited", "drop", "writeWaited"} /\ q.pc # "none"
          /\ r.pc = "walk" => q.op \notin CreateOps
          /\ r.pc = "write" => q.op \in CreateOps
      BY <1>1, <1>5, <1>6
    <2> QED
      BY <1>2, <1>6, <2>1, Zenon DEF CallOk
  <1>8. LockOk(t, r) /\ r.pc # "drop"
    BY <1>1, <1>5, <1>6 DEF LockOk
  <1>9. ManagerStays
    BY <1>1, Zenon DEF ManagerStays, mgrVars
  <1> QED
    BY <1>1, <1>4, <1>7, <1>8, <1>9, CallStepStoreInv, Zenon
=============================================================================
