------------------------ MODULE TxnStoreManagerSteps ------------------------
(***************************************************************************)
(* StoreInv is kept by the steps of the manager that change no entry, and  *)
(* by the anti-dependency check.                                           *)
(***************************************************************************)
EXTENDS TxnStoreLemmas

-----------------------------------------------------------------------------
(* What a step of the manager may do under the catalog.                    *)

\* States go forward, timestamps are fresh when they are drawn, a transaction
\* in a call stays open, and one that has stamped an entry does not turn back.
ManagerMoves ==
    /\ tsAlloc' >= tsAlloc
    /\ \A u \in Txns :
          /\ state[u] \in Undoing => state'[u] \in Undoing
          /\ state'[u] = "Committing" => state[u] \in {"Active", "Committing"}
          /\ \/ state[u] \in {"Committing", "Committed"}
                   => state'[u] \in {"Committing", "Committed"}
             \/ \A id \in Ids : commitTS[u] \notin {ent[id].createAt, ent[id].deleteAt}
          /\ \/ startTS'[u] = startTS[u]
             \/ client[u] = "unborn" /\ startTS'[u] > tsAlloc
          /\ \/ commitTS'[u] = commitTS[u]
             \/ commitTS[u] = 0 /\ commitTS'[u] > tsAlloc
          /\ req[u].pc # "none" => client'[u] = "open"
          /\ client'[u] = "unborn" => client[u] = "unborn"

\* What is left of the store calls: a transaction does not take back what it
\* gave up, what is left to apply or to undo is owned, and nothing counts as
\* done before it is done.
CallsMove ==
    /\ \A u \in Txns : Owns(u)' => Owns(u)
    /\ comm'.pc = "apply" => \A i \in applying' : ent[i.id].txn = comm'.txn
    /\ prep'.pc = "prepareRollback" => \A i \in todo' :
          ent[i.id].txn = prep'.txn /\ (i.id \in CreatedBy(prep'.txn) => Listed(i.id))
    /\ \A u \in Txns : \A id \in Tables(u) :
          (ApplyDone(u, id)' => ApplyDone(u, id)) /\ (UndoDone(u, id)' => UndoDone(u, id))
    /\ \A u \in Txns : \A i \in PrepareItems(u) : i.rank # CheckRank =>
          (PreparedItem(u, i.rank, i.id)' => PreparedItem(u, i.rank, i.id))
    /\ \A u \in Txns : \A x \in store[u].symTable :
          CheckDone(u, x)' => \/ CheckDone(u, x)
                              \/ state[u] = "Committing" /\ ~DeleteBefore(ent[x], commitTS[u])
    /\ prep'.pc = "prepareCommit" /\ (\E i \in todo' : i.rank <= CheckRank) =>
          \A id \in Ids : commitTS'[prep'.txn] \notin {ent[id].createAt, ent[id].deleteAt}

\* What is derived from the catalog alone does not change with the manager.
LEMMA CatalogAlone ==
    ASSUME UNCHANGED catVars
    PROVE  /\ Ids' = Ids /\ Hosts' = Hosts /\ KeysKept
           /\ \A u : /\ Tables(u)' = Tables(u) /\ WrittenBy(u)' = WrittenBy(u)
                     /\ CreatedBy(u)' = CreatedBy(u) /\ DroppedBy(u)' = DroppedBy(u)
           /\ \A u : /\ PrepareItems(u)' = PrepareItems(u)
                     /\ RollbackItems(u)' = RollbackItems(u)
                     /\ ApplyItems(u)' = ApplyItems(u)
           /\ \A id : (IsDB(id)' <=> IsDB(id)) /\ (Listed(id)' <=> Listed(id))
  <1> USE DEF catVars
  <1>1. Ids' = Ids /\ KeysKept /\ \A id : (IsDB(id)' <=> IsDB(id)) /\ (Listed(id)' <=> Listed(id))
    BY Zenon DEF Ids, KeysKept, IsDB, Listed, Key
  <1>2. Hosts' = Hosts
    BY <1>1, Zenon DEF Hosts, Databases
  <1>3. \A u : /\ Tables(u)' = Tables(u) /\ WrittenBy(u)' = WrittenBy(u)
               /\ CreatedBy(u)' = CreatedBy(u) /\ DroppedBy(u)' = DroppedBy(u)
    BY DEF Tables, WrittenBy, CreatedBy, DroppedBy
  <1>4. \A u : /\ PrepareItems(u)' = PrepareItems(u)
               /\ RollbackItems(u)' = RollbackItems(u)
               /\ ApplyItems(u)' = ApplyItems(u)
    BY <1>3 DEF PrepareItems, RollbackItems, ApplyItems
  <1> QED
    BY <1>1, <1>2, <1>3, <1>4

\* A step that moves the manager only keeps what is said of the catalog.
LEMMA ManagerKeepsCatalog ==
    ASSUME StoreInv, IndInv', panic = "none", UNCHANGED catVars, ManagerMoves
    PROVE  /\ CatTypeInv' /\ IndexInv' /\ CallInv' /\ SymbolInv' /\ FoundInv'
           /\ ReadInv' /\ NameInv' /\ BornInv' /\ DiesOnlyAfterRollback'
  <1> USE DEF StoreInv
  <1>1. CatTypeInv'
    BY DEF catVars, CatTypeInv, Ids, Hosts, Databases, TableIds, IsDB, Key
  <1>2. IndexInv'
    BY CatalogAlone, IndexKept, Zenon DEF ManagerMoves, catVars
  <1>3. CallInv'
    <2>1. \A t \in Txns : req[t].pc # "none" => client'[t] = "open"
      BY Zenon DEF ManagerMoves
    <2>2. \A t \in Txns : client'[t] = "unborn" => reads[t] = {}
      BY Zenon DEF ManagerMoves, CallInv
    <2> QED
      BY <2>1, <2>2 DEF catVars, CallInv, NodeList, Ids, Hosts, Databases, IsDB, Key, Writers, Holders
  <1>4. SymbolInv'
    BY DEF catVars, SymbolInv, Tables
  <1>5. FoundInv'
    <2> SUFFICES ASSUME NEW t \in Txns, req[t].pc = "drop"
                 PROVE  \/ ent[req[t].found].txn = t /\ ent[req[t].found].op = "Create"
                        \/ CreateBefore(ent[req[t].found], startTS'[t])
      BY Zenon DEF catVars, FoundInv, CreateBefore, HasCreated
    <2>1. client[t] = "open"
      BY Zenon DEF CallInv
    <2>2. startTS'[t] = startTS[t]
      BY <2>1, Zenon DEF ManagerMoves
    <2> QED
      BY <2>2, Zenon DEF FoundInv
  <1>6. ReadInv'
    <2>1. \A t \in Txns : reads[t] # {} => startTS'[t] = startTS[t]
      BY Zenon DEF ManagerMoves, CallInv
    <2>2. ReadsFromSnapshot'
      <3> SUFFICES ASSUME NEW t \in Txns, NEW r \in reads[t], r.id # Nil
                   PROVE  /\ r.id \in CreatedBy(t) \/ CreateBefore(ent[r.id], startTS'[t])
                          /\ ~DeleteBefore(ent[r.id], startTS'[t])
        BY Zenon DEF catVars, ReadsFromSnapshot, CreatedBy, CreateBefore, DeleteBefore, HasCreated, HasDropped
      <3> QED
        BY <2>1, Zenon DEF ReadInv, ReadsFromSnapshot
    <2>3. ASSUME NEW t \in Txns, NEW r \in reads[t], r.id # Nil, HasActiveTxn(ent[r.id]),
                 ~HasDropped(ent[r.id]), ent[r.id].op = "SoftDelete",
                 state'[ent[r.id].txn] = "Committing"
          PROVE  commitTS'[ent[r.id].txn] > startTS'[t]
      <3>1. startTS'[t] = startTS[t] /\ startTS[t] \in Nat /\ startTS[t] <= tsAlloc
        BY <2>1, <2>3, TimeTypes, Zenon
      <3>2. r.id \in Ids
        BY <2>3, Zenon DEF CatTypeInv
      <3>3. ent[r.id].txn \in Txns
        BY <2>3, <3>2, EntTypes, Zenon DEF HasActiveTxn
      <3> DEFINE v == ent[r.id].txn
      <3>4. CASE commitTS'[v] = commitTS[v]
        <4>1. commitTS'[v] # 0
          BY <2>3, <3>3, Zenon DEF IndInv, ClockInv, UncommitTS
        <4>2. state[v] = "Committing"
          BY <2>3, <3>3, <3>4, <4>1, TimeTypes, Zenon DEF ManagerMoves
        <4> QED
          BY <2>3, <3>1, <3>4, <4>2, Zenon DEF ReadInv
      <3>5. CASE commitTS'[v] > tsAlloc
        <4>1. commitTS'[v] \in Nat
          BY <3>3, Zenon DEF IndInv, TypeOK
        <4> QED
          BY <3>1, <3>5, <4>1, TimeTypes
      <3> QED
        BY <3>3, <3>4, <3>5, Zenon DEF ManagerMoves
    <2> QED
      BY <2>2, <2>3, Zenon DEF catVars, ReadInv, HasActiveTxn, HasDropped
  <1>7. NameInv'
    BY CatalogAlone, NameKept, Zenon DEF ManagerMoves, catVars
  <1>8. DiesOnlyAfterRollback'
    BY DEF catVars, DiesOnlyAfterRollback
  <1>9. BornInv'
    BY CatalogAlone, Zenon DEF BornInv, catVars, HasActiveTxn, HasCreated
  <1> QED
    BY <1>1, <1>2, <1>3, <1>4, <1>5, <1>6, <1>7, <1>8, <1>9, Zenon

\* The timestamps of the entries stay explained.
LEMMA ManagerKeepsStamps ==
    ASSUME StoreInv, IndInv', UNCHANGED catVars, ManagerMoves, CallsMove
    PROVE  StampInv'
  <1>0. /\ tsAlloc' \in Nat
        /\ \A u \in Txns : commitTS'[u] \in Nat /\ startTS'[u] \in Nat
    BY Zenon DEF IndInv, TypeOK
  <1>a. ent' = ent /\ \A u : CreatedBy(u)' = CreatedBy(u) /\ DroppedBy(u)' = DroppedBy(u)
    BY CatalogAlone, Zenon DEF catVars
  <1>1. /\ tsAlloc' >= tsAlloc
        /\ \A u \in Txns : startTS'[u] = startTS[u] \/ startTS'[u] > tsAlloc
        /\ \A u \in Txns : commitTS'[u] = commitTS[u] \/ (commitTS[u] = 0 /\ commitTS'[u] > tsAlloc)
    BY Zenon DEF ManagerMoves
  <1>2. /\ tsAlloc >= PrevTs
        /\ \A u \in Txns : commitTS[u] # 0 => commitTS[u] > PrevTs
        /\ \A u \in Txns : startTS[u] # 0 => startTS[u] > PrevTs
    BY Zenon DEF StoreInv, StampInv, UncommitTS
  <1>3. \A id \in Ids : ent[id].createAt <= tsAlloc /\ ent[id].deleteAt <= tsAlloc
    BY DEF StoreInv, StampInv
  <1>4. /\ tsAlloc' >= PrevTs
        /\ \A u \in Txns : commitTS'[u] # 0 => commitTS'[u] > PrevTs
        /\ \A u \in Txns : startTS'[u] # 0 => startTS'[u] > PrevTs
    BY <1>0, <1>1, <1>2, TimeTypes
  <1>5. \A id \in Ids : ent[id].createAt <= tsAlloc' /\ ent[id].deleteAt <= tsAlloc'
    BY <1>0, <1>1, <1>3, EntTypes, TimeTypes
  <1>6. \A id \in Ids :
           \/ ent[id].createAt = PrevTs
           \/ \E u \in Txns : id \in CreatedBy(u) /\ ent[id].createAt \in {Unset, commitTS'[u]}
    <2>1. \A id \in Ids :
             \/ ent[id].createAt = PrevTs
             \/ \E u \in Txns : id \in CreatedBy(u) /\ ent[id].createAt \in {0, commitTS[u]}
      BY DEF StoreInv, StampInv, Unset
    <2> QED
      BY <1>1, <2>1, Zenon DEF Unset
  <1>7. \A id \in Ids : HasActiveTxn(ent[id]) /\ HasDropped(ent[id])
           => ent[id].deleteAt = commitTS'[ent[id].txn]
    <2> SUFFICES ASSUME NEW id \in Ids, HasActiveTxn(ent[id]), HasDropped(ent[id])
                 PROVE  ent[id].deleteAt = commitTS'[ent[id].txn]
      BY Zenon
    <2>1. ent[id].deleteAt = commitTS[ent[id].txn]
      BY Zenon DEF StoreInv, StampInv
    <2>2. ent[id].txn \in Txns /\ ent[id].deleteAt # 0
      BY EntTypes, Zenon DEF HasActiveTxn, HasDropped, Unset
    <2> QED
      BY <1>1, <2>1, <2>2, Zenon
  <1>8. ASSUME NEW u \in Txns, NEW id \in Ids, commitTS'[u] # 0,
               commitTS'[u] \in {ent[id].createAt, ent[id].deleteAt}
        PROVE  state'[u] \in {"Committing", "Committed"}
    <2>1. commitTS'[u] <= tsAlloc
      BY <1>3, <1>8, Zenon
    <2>2. commitTS'[u] = commitTS[u]
      BY <1>0, <1>1, <2>1, TimeTypes
    <2>3. state[u] \in {"Committing", "Committed"}
      BY <1>8, <2>2, Zenon DEF StoreInv, StampInv, StampedWillCommit, UncommitTS
    <2> QED
      BY <1>8, <2>2, <2>3 DEF ManagerMoves
  <1>9. /\ \A u \in Txns : \A id \in DroppedBy(u) : id \in CreatedBy(u) \/ HasCreated(ent[id])
        /\ \A id \in Ids : ent[id].createAt = PrevTs => \A u \in Txns : id \notin CreatedBy(u)
        /\ \A t, u \in Txns : t # u => CreatedBy(t) \cap CreatedBy(u) = {}
    BY Zenon DEF StoreInv, StampInv
  <1>10. prep'.pc = "prepareCommit" /\ (\E i \in todo' : i.rank <= CheckRank) =>
            \A id \in Ids : commitTS'[prep'.txn] \notin {ent[id].createAt, ent[id].deleteAt}
    BY Zenon DEF CallsMove
  <1>11. Ids' = Ids
    BY CatalogAlone, Zenon
  <1>12. StampedWillCommit'
    BY <1>8, <1>11, <1>a DEF StampedWillCommit, UncommitTS
  <1> QED
    BY <1>4, <1>5, <1>6, <1>7, <1>9, <1>10, <1>11, <1>12, <1>a
       DEF StampInv, HasActiveTxn, HasDropped, HasCreated, UncommitTS

\* The invariant is kept by a step of the manager that makes these moves.
LEMMA ManagerStepStoreInv ==
    ASSUME StoreInv, IndInv', panic = "none", UNCHANGED catVars, ManagerMoves, CallsMove, PhaseInv'
    PROVE  StoreInv'
  <1>1. /\ CatTypeInv' /\ IndexInv' /\ CallInv' /\ SymbolInv' /\ FoundInv'
        /\ ReadInv' /\ NameInv' /\ BornInv' /\ DiesOnlyAfterRollback' /\ StampInv'
    BY ManagerKeepsCatalog, ManagerKeepsStamps
  <1>a. ent' = ent /\ store' = store
    BY Zenon DEF catVars
  <1>b. \A u : CreatedBy(u)' = CreatedBy(u) /\ DroppedBy(u)' = DroppedBy(u)
                  /\ WrittenBy(u)' = WrittenBy(u) /\ Tables(u)' = Tables(u)
    BY CatalogAlone, Zenon
  <1>c. Ids' = Ids /\ \A id : (IsDB(id)' <=> IsDB(id)) /\ (Listed(id)' <=> Listed(id))
    BY CatalogAlone
  <1>t. ASSUME NEW u \in Txns, state[u] # "Active" PROVE commitTS'[u] = commitTS[u]
    BY <1>t, TimeTypes DEF ManagerMoves
  <1>2. OwnInv'
    <2>1. (\A id \in Ids, t \in Txns : ent[id].txn = t =>
             IF ent[id].op = "SoftDelete" THEN id \in DroppedBy(t) \/ IsDB(id)
                                          ELSE id \in CreatedBy(t) \ DroppedBy(t))'
      BY <1>a, <1>b, <1>c DEF StoreInv, OwnInv
    <2>2. (\A t \in Txns : Owns(t) => \A id \in WrittenBy(t) : ent[id].txn = t)'
      BY <1>a, <1>b, Zenon DEF StoreInv, OwnInv, CallsMove
    <2> QED
      BY <1>a, <2>1, <2>2, Zenon DEF OwnInv, CallsMove
  <1>3. UndoInv'
    BY <1>b, <1>c, Zenon DEF UndoInv, CallsMove
  <1>4. ReleaseInv'
    <2> SUFFICES ASSUME NEW t \in Txns, NEW id \in Tables(t)
                 PROVE  /\ ApplyDone(t, id)' => ent[id].txn # t \/ CreateAndDropInSameTxn(ent[id])
                        /\ UndoDone(t, id)' => ent[id].txn # t /\ (id \in CreatedBy(t) => ~Listed(id))
      BY <1>a, <1>b, <1>c DEF ReleaseInv, CreateAndDropInSameTxn, HasCreated
    <2> QED
      BY DEF StoreInv, ReleaseInv, CallsMove
  <1>5. PreparedInv'
    <2>1. ASSUME NEW t \in Txns, NEW r \in {CreateRank, TableRank, DropRank}, NEW id,
                 Item(r, id) \in PrepareItems(t), PreparedItem(t, r, id)'
          PROVE  PreparedItem(t, r, id) /\ commitTS'[t] = commitTS[t]
      <3>1. Item(r, id).rank = r /\ Item(r, id).id = id /\ r # CheckRank
        BY DEF Item, CreateRank, TableRank, DropRank, CheckRank
      <3>2. PreparedItem(t, r, id)
        BY <2>1, <3>1, Zenon DEF CallsMove
      <3> QED
        BY <1>t, <3>2, Zenon DEF PreparedItem
    <2> SUFFICES ASSUME NEW t \in Txns, NEW c, c = store[t].createEntry,
                        NEW d, d = store[t].dropEntry
        PROVE  /\ \A id \in store[t].dropped : PreparedItem(t, TableRank, id)' => ent[id].deleteAt = commitTS'[t]
               /\ \A id \in store[t].created : PreparedItem(t, TableRank, id)' => ent[id].createAt = commitTS'[t]
               /\ d # Nil /\ PreparedItem(t, DropRank, d)' => ent[d].deleteAt = commitTS'[t]
               /\ c # Nil /\ PreparedItem(t, CreateRank, c)' =>
                     /\ ent[c].createAt = commitTS'[t]
                     /\ ent[c].op = "SoftDelete" /\ ent[c].txn = t => ent[c].deleteAt = commitTS'[t]
      BY <1>a DEF PreparedInv, PreparedItem
    <2>2. /\ \A id \in store[t].dropped \cup store[t].created : Item(TableRank, id) \in PrepareItems(t)
          /\ d # Nil => Item(DropRank, d) \in PrepareItems(t)
          /\ c # Nil => Item(CreateRank, c) \in PrepareItems(t)
      BY Zenon DEF PrepareItems, Optional, Tables
    <2>3. /\ \A id \in store[t].dropped : PreparedItem(t, TableRank, id) => ent[id].deleteAt = commitTS[t]
          /\ \A id \in store[t].created : PreparedItem(t, TableRank, id) => ent[id].createAt = commitTS[t]
          /\ d # Nil /\ PreparedItem(t, DropRank, d) => ent[d].deleteAt = commitTS[t]
          /\ c # Nil /\ PreparedItem(t, CreateRank, c) =>
                /\ ent[c].createAt = commitTS[t]
                /\ ent[c].op = "SoftDelete" /\ ent[c].txn = t => ent[c].deleteAt = commitTS[t]
      BY Zenon DEF StoreInv, PreparedInv
    <2> QED
      BY <2>1, <2>2, <2>3, Zenon
  <1>6. CheckInv'
    <2> SUFFICES ASSUME NEW t \in Txns, NEW x \in store[t].symTable, CheckDone(t, x)'
                 PROVE  ~DeleteBefore(ent[x], commitTS'[t])
      BY <1>a, Zenon DEF CheckInv, DeleteBefore, HasDropped
    <2>1. ~DeleteBefore(ent[x], commitTS[t])
      BY Zenon DEF StoreInv, CheckInv, CallsMove
    <2>2. state[t] # "Active"
      BY Zenon DEF CallsMove, CheckDone
    <2> QED
      BY <1>t, <2>1, <2>2, Zenon
  <1> QED
    BY <1>1, <1>2, <1>3, <1>4, <1>5, <1>6, Zenon DEF StoreInv

-----------------------------------------------------------------------------
(* The steps that leave the store calls alone.                             *)

\* No transaction moves.
LEMMA MovesStay ==
    ASSUME StoreInv, UNCHANGED <<tsAlloc, state, startTS, commitTS, client>>
    PROVE  ManagerMoves
  <1>1. \A u \in Txns : req[u].pc # "none" => client[u] = "open"
    BY Zenon DEF StoreInv, CallInv
  <1>2. tsAlloc' >= tsAlloc
    BY TimeTypes
  <1>3. \A u \in Txns : state[u] = "Committing" => state[u] \in {"Active", "Committing"}
    OBVIOUS
  <1> QED
    BY <1>1, <1>2, <1>3, Zenon DEF ManagerMoves

\* A store call stays where it is, or ends when it has nothing left to do.
LEMMA CallsStay ==
    ASSUME StoreInv, UNCHANGED <<catVars, todo, applying, state, commitTS>>,
           prep' = prep \/ (todo = {} /\ prep'.pc \notin {"prepareCommit", "prepareRollback"}),
           comm' = comm \/ (comm'.txn = comm.txn /\ applying = {} /\ comm'.pc # "apply"),
           \A u \in Txns : InFlight(u) => op'[u] = op[u]
    PROVE  CallsMove /\ PhaseInv'
  <1>1. /\ \A u \in Txns : Owns(u)' => Owns(u)
        /\ comm'.pc = "apply" => \A i \in applying' : ent[i.id].txn = comm'.txn
    BY Zenon DEF Owns, StoreInv, OwnInv
  <1>2. prep'.pc = "prepareRollback" => \A i \in todo' :
           ent[i.id].txn = prep'.txn /\ (i.id \in CreatedBy(prep'.txn) => Listed(i.id))
    BY Zenon DEF StoreInv, OwnInv, UndoInv
  <1>3. \A u \in Txns : \A id \in Tables(u) :
           (ApplyDone(u, id)' => ApplyDone(u, id)) /\ (UndoDone(u, id)' => UndoDone(u, id))
    BY Zenon DEF ApplyDone, UndoDone
  <1>4. \A u \in Txns : \A i \in PrepareItems(u) : i.rank # CheckRank =>
           (PreparedItem(u, i.rank, i.id)' => PreparedItem(u, i.rank, i.id))
    BY Zenon DEF PreparedItem
  <1>5. \A u \in Txns : \A x \in store[u].symTable : CheckDone(u, x)' => CheckDone(u, x)
    BY Zenon DEF CheckDone
  <1>6. prep'.pc = "prepareCommit" /\ (\E i \in todo' : i.rank <= CheckRank) =>
           \A id \in Ids : commitTS'[prep'.txn] \notin {ent[id].createAt, ent[id].deleteAt}
    BY Zenon DEF StoreInv, StampInv
  <1>7. CallsMove
    BY <1>1, <1>2, <1>3, <1>4, <1>5, <1>6 DEF CallsMove
  <1>8. /\ \A u : PrepareItems(u)' = PrepareItems(u) /\ RollbackItems(u)' = RollbackItems(u)
        /\ \A u : ApplyItems(u)' = ApplyItems(u)
        /\ store' = store
    BY CatalogAlone, Zenon DEF catVars
  <1>9. PhaseInv'
    BY <1>8 DEF StoreInv, PhaseInv, InFlight
  <1> QED
    BY <1>7, <1>9, Zenon

\* StartTxn draws a start timestamp for a transaction that has read nothing.
LEMMA StartTxnStoreInv ==
    ASSUME StoreInv, IndInv', panic = "none", NEW t \in Txns, StartTxn(t),
           UNCHANGED <<catVars, todo, applying>>
    PROVE  StoreInv'
  <1>1. ManagerMoves
    <2>1. /\ \A u \in Txns \ {t} : startTS'[u] = startTS[u] /\ client'[u] = client[u]
          /\ client[t] = "unborn" /\ client'[t] = "open" /\ startTS'[t] = tsAlloc + 1
      BY DEF StoreInv, IndInv, TypeOK, StartTxn
    <2>2. \A u \in Txns : req[u].pc # "none" => client[u] = "open"
      BY Zenon DEF StoreInv, CallInv
    <2>3. UNCHANGED <<state, commitTS>> /\ tsAlloc' = tsAlloc + 1
      BY Zenon DEF StartTxn
    <2> QED
      BY <2>1, <2>2, <2>3, TimeTypes DEF ManagerMoves
  <1>2. CallsMove /\ PhaseInv'
    BY CallsStay, Zenon DEF StartTxn
  <1> QED
    BY <1>1, <1>2, ManagerStepStoreInv

\* Commit and Rollback are called outside of any catalog call.
LEMMA TerminateStoreInv ==
    ASSUME StoreInv, IndInv', panic = "none", NEW t \in Txns,
           NEW o \in {"Commit", "Rollback"}, Terminate(t, o), req[t] = NoCall,
           UNCHANGED <<catVars, todo, applying>>
    PROVE  StoreInv'
  <1>0. /\ \A u \in Txns \ {t} : op'[u] = op[u] /\ client'[u] = client[u]
        /\ client[t] = "open" /\ client'[t] = "waiting" /\ ~InFlight(t)
    BY DEF StoreInv, IndInv, TypeOK, ClientInv, InFlight, Terminate
  <1>1. ManagerMoves
    <2>1. \A u \in Txns : req[u].pc # "none" => client[u] = "open" /\ u # t
      BY DEF StoreInv, CallInv, NoCall
    <2>2. UNCHANGED <<tsAlloc, state, startTS, commitTS>>
      BY Zenon DEF Terminate
    <2> QED
      BY <1>0, <2>1, <2>2, TimeTypes DEF ManagerMoves
  <1>2. CallsMove /\ PhaseInv'
    BY <1>0, CallsStay, Zenon DEF Terminate
  <1> QED
    BY <1>1, <1>2, ManagerStepStoreInv, Zenon

\* A call of Commit or Rollback returns.
LEMMA ReturnStoreInv ==
    ASSUME StoreInv, IndInv', panic = "none", NEW t \in Txns, Return(t),
           UNCHANGED <<catVars, todo, applying>>
    PROVE  StoreInv'
  <1>1. ManagerMoves
    <2>1. \A u \in Txns : req[u].pc # "none" => client[u] = "open" /\ u # t
      BY Zenon DEF StoreInv, CallInv, Return
    <2>2. /\ \A u \in Txns \ {t} : client'[u] = client[u]
          /\ client'[t] = "returned" /\ UNCHANGED <<tsAlloc, state, startTS, commitTS>>
      BY DEF StoreInv, IndInv, TypeOK, Return
    <2> QED
      BY <2>1, <2>2, TimeTypes DEF ManagerMoves
  <1>2. CallsMove /\ PhaseInv'
    BY CallsStay, Zenon DEF Return
  <1> QED
    BY <1>1, <1>2, ManagerStepStoreInv, Zenon

\* Between two store calls the prepare goroutine takes an operation, ends a
\* store call that has nothing left to do, or hands the transaction over.
LEMMA PreparerMovesStoreInv ==
    ASSUME StoreInv, IndInv', panic = "none", todo = {},
           UNCHANGED <<catVars, todo, applying, tsAlloc, state, startTS, commitTS, op,
                       client, comm>>,
           prep'.pc \notin {"prepareCommit", "prepareRollback"}
    PROVE  StoreInv'
  <1>1. ManagerMoves
    BY MovesStay, Zenon
  <1>2. CallsMove /\ PhaseInv'
    BY CallsStay, Zenon
  <1> QED
    BY <1>1, <1>2, ManagerStepStoreInv, Zenon

\* The store call of the commit goroutine has nothing left to do.
LEMMA AppliedStoreInv ==
    ASSUME StoreInv, IndInv', panic = "none", Applied
    PROVE  StoreInv'
  <1>1. /\ UNCHANGED <<catVars, todo, applying, tsAlloc, state, startTS, commitTS, op, client, prep>>
        /\ applying = {} /\ comm'.txn = comm.txn /\ comm'.pc = "done"
    BY DEF StoreInv, Applied, Apply, IndInv, TypeOK, Idle
  <1>2. ManagerMoves
    BY <1>1, MovesStay, Zenon
  <1>3. CallsMove /\ PhaseInv'
    BY <1>1, CallsStay, Zenon
  <1> QED
    BY <1>1, <1>2, <1>3, ManagerStepStoreInv, Zenon

-----------------------------------------------------------------------------
(* The steps that begin and end a store call.                              *)

\* What a rollback has to undo is its transaction's, and can be found.
LEMMA RollbackOwns ==
    ASSUME StoreInv, NEW t \in Txns, Owns(t), NEW i \in RollbackItems(t)
    PROVE  ent[i.id].txn = t /\ (i.id \in CreatedBy(t) => Listed(i.id))
  <1>1. i.id \in WrittenBy(t)
    BY DEF RollbackItems, Optional, Item, Tables, WrittenBy, CreatedBy, DroppedBy
  <1>2. ent[i.id].txn = t
    BY <1>1, Zenon DEF StoreInv, OwnInv
  <1>3. i.id \in CreatedBy(t) => i.id \in Ids /\ \A u \in Txns : i.id \in CreatedBy(u) => u = t
    BY WrittenIds, Zenon DEF StoreInv, StampInv
  <1>4. state[t] \notin {"Rollbacking", "Rollbacked"}
    BY Zenon DEF Owns
  <1> QED
    BY <1>2, <1>3, <1>4, Zenon DEF StoreInv, IndexInv

\* Stamp: the commit timestamp is fresh, so no entry carries it yet, and the
\* store call has all the transaction has written before it.
LEMMA StampTxnStoreInv ==
    ASSUME StoreInv, IndInv', panic = "none", StampTxn
    PROVE  StoreInv'
  <1> DEFINE t == prep.txn
             commits == op[t] = "Commit"
  <1>0. /\ t \in Txns /\ state[t] = "Active" /\ prep.pc = "stamp" /\ todo = {}
        /\ commitTS[t] = 0 /\ commitTS'[t] = tsAlloc + 1
        /\ state'[t] = IF commits THEN "Committing" ELSE "Rollbacking"
        /\ \A u \in Txns \ {t} : state'[u] = state[u] /\ commitTS'[u] = commitTS[u]
        /\ prep'.txn = t
        /\ prep'.pc = IF commits THEN "prepareCommit" ELSE "prepareRollback"
    <2>1. prep.pc = "stamp"
      BY Zenon DEF StampTxn, Stamp
    <2>2. prep \in [pc : {"stamp", "prepareCommit", "prepareRollback", "enqueue"}, txn : Txns]
      BY <2>1 DEF StoreInv, IndInv, TypeOK, Idle
    <2>3. t \in Txns /\ state[t] = "Active" /\ todo = {} /\ commitTS[t] = 0
      BY <2>1, <2>2, TimeTypes, Zenon DEF StoreInv, IndInv, ReceivedInv, PhaseInv
    <2>4. state \in [Txns -> States] /\ commitTS \in [Txns -> Nat]
      BY Zenon DEF StoreInv, IndInv, TypeOK
    <2> QED
      BY <2>1, <2>2, <2>3, <2>4, Zenon DEF StampTxn, Stamp
  <1>a. comm.txn # t
    BY <1>0, Zenon DEF StoreInv, IndInv, InFlightInv, InFlight
  <1>b. /\ UNCHANGED <<catVars, applying, startTS, op, client, comm>>
        /\ tsAlloc' = tsAlloc + 1
        /\ todo' = IF commits THEN PrepareItems(t) ELSE RollbackItems(t)
    BY Zenon DEF StampTxn, Stamp
  <1> HIDE DEF t
  <1>1. ManagerMoves
    <2>1. \A u \in Txns : req[u].pc # "none" => client[u] = "open"
      BY Zenon DEF StoreInv, CallInv
    <2>2. tsAlloc' >= tsAlloc /\ commitTS'[t] > tsAlloc
      BY <1>0, <1>b, TimeTypes
    <2>3. \A u \in Txns : state'[u] = "Committing" => state[u] \in {"Active", "Committing"}
      BY <1>0
    <2> QED
      BY <1>0, <1>b, <2>1, <2>2, <2>3 DEF ManagerMoves, Undoing
  <1>2. CallsMove
    <2>1. /\ \A u \in Txns : Owns(u)' => Owns(u)
          /\ comm'.pc = "apply" => \A i \in applying' : ent[i.id].txn = comm'.txn
      BY <1>0, <1>a, <1>b, Zenon DEF Owns, StoreInv, OwnInv
    <2>2. prep'.pc = "prepareRollback" => \A i \in todo' :
             ent[i.id].txn = t /\ (i.id \in CreatedBy(t) => Listed(i.id))
      BY <1>0, <1>b, RollbackOwns, Zenon DEF Owns
    <2>3. ASSUME NEW u \in Txns, NEW id \in Tables(u)
          PROVE  (ApplyDone(u, id)' => ApplyDone(u, id)) /\ (UndoDone(u, id)' => UndoDone(u, id))
      <3>1. u = t => Item(TableRank, id) \in todo'
        BY <1>b DEF PrepareItems, RollbackItems
      <3> QED
        BY <1>0, <1>a, <1>b, <3>1, Zenon DEF ApplyDone, UndoDone
    <2>4. \A u \in Txns : \A i \in PrepareItems(u) : i.rank # CheckRank =>
             (PreparedItem(u, i.rank, i.id)' => PreparedItem(u, i.rank, i.id))
      <3>1. \A i \in PrepareItems(t) : i = Item(i.rank, i.id)
        BY DEF PrepareItems, Optional, Item
      <3> QED
        BY <1>0, <1>b, <3>1, Zenon DEF PreparedItem
    <2>5. \A u \in Txns : \A x \in store[u].symTable : CheckDone(u, x)' => CheckDone(u, x)
      <3>1. \A x \in store[t].symTable : Item(CheckRank, x) \in PrepareItems(t)
        BY Zenon DEF PrepareItems
      <3> QED
        BY <1>0, <1>b, <3>1, Zenon DEF CheckDone
    <2>6. \A id \in Ids : commitTS'[t] \notin {ent[id].createAt, ent[id].deleteAt}
      BY <1>0, EntTypes, TimeTypes DEF StoreInv, StampInv
    <2> QED
      BY <1>0, <2>1, <2>2, <2>3, <2>4, <2>5, <2>6, Zenon DEF CallsMove
  <1>3. PhaseInv'
    <2>1. \A u : /\ PrepareItems(u)' = PrepareItems(u) /\ RollbackItems(u)' = RollbackItems(u)
                 /\ ApplyItems(u)' = ApplyItems(u)
      BY <1>b, CatalogAlone, Zenon
    <2>2. \A u \in Txns : InFlight(u)' => (state'[u] = "Committing" <=> op'[u] = "Commit")
      BY <1>0, <1>b, Zenon DEF StoreInv, PhaseInv, InFlight
    <2>3. applying # {} => comm.txn \in Txns \ {t}
      BY <1>a, ApplyItemFacts, Zenon DEF StoreInv
    <2>4. /\ comm.pc # "apply" => applying = {}
          /\ applying # {} => state'[comm.txn] = "Committing" /\ applying \subseteq ApplyItems(comm.txn)
      BY <1>0, <2>3, Zenon DEF StoreInv, PhaseInv
    <2> QED
      BY <1>0, <1>b, <2>1, <2>2, <2>4, Zenon DEF PhaseInv
  <1> QED
    BY <1>b, <1>1, <1>2, <1>3, ManagerStepStoreInv, Zenon

\* A failed check turns the operation into a rollback; nothing is stamped.
LEMMA FailsStoreInv ==
    ASSUME StoreInv, IndInv', panic = "none", Fails, UNCHANGED <<catVars, applying>>,
           NEW i \in todo, i.rank <= CheckRank
    PROVE  StoreInv'
  <1> DEFINE t == prep.txn
  <1>0. /\ t \in Txns /\ state[t] = "Committing" /\ prep.pc = "prepareCommit"
        /\ state'[t] = "Rollbacking" /\ op'[t] = "Rollback"
        /\ \A u \in Txns \ {t} : state'[u] = state[u] /\ op'[u] = op[u]
        /\ prep'.txn = t /\ prep'.pc = "prepareRollback"
    <2>1. prep.pc = "prepareCommit"
      BY DEF Fails, PrepareCommit
    <2>2. prep \in [pc : {"stamp", "prepareCommit", "prepareRollback", "enqueue"}, txn : Txns]
      BY <2>1 DEF StoreInv, IndInv, TypeOK, Idle
    <2>3. state[t] = "Committing"
      BY <2>1, Zenon DEF StoreInv, PhaseInv
    <2>4. state \in [Txns -> States] /\ op \in [Txns -> Ops]
      BY Zenon DEF StoreInv, IndInv, TypeOK
    <2> QED
      BY <2>1, <2>2, <2>3, <2>4, Zenon DEF Fails, PrepareCommit
  <1>a. comm.txn # t
    <2>1. commitTS[t] \in Nat /\ t # NoTxn
      BY <1>0, TimeTypes, ConstantsAssumption, Zenon
    <2> QED
      BY <1>0, <2>1 DEF StoreInv, IndInv, OrderInv, Stamped
  <1>b. /\ UNCHANGED <<catVars, applying, tsAlloc, startTS, commitTS, client, comm>>
        /\ todo' = RollbackItems(t)
    BY Zenon DEF Fails, PrepareCommit
  <1>c. \A id \in Ids : commitTS[t] \notin {ent[id].createAt, ent[id].deleteAt}
    BY <1>0, Zenon DEF StoreInv, StampInv
  <1>d. prep.txn = t
    BY Zenon
  <1> HIDE DEF t
  <1>1. ManagerMoves
    <2>1. \A u \in Txns : req[u].pc # "none" => client[u] = "open"
      BY Zenon DEF StoreInv, CallInv
    <2>2. tsAlloc' >= tsAlloc
      BY <1>b, TimeTypes
    <2>3. \A u \in Txns : state'[u] = "Committing" => state[u] \in {"Active", "Committing"}
      BY <1>0
    <2> QED
      BY <1>0, <1>b, <1>c, <2>1, <2>2, <2>3 DEF ManagerMoves, Undoing
  <1>2. CallsMove
    <2>1. /\ \A u \in Txns : Owns(u)' => Owns(u)
          /\ comm'.pc = "apply" => \A j \in applying' : ent[j.id].txn = comm'.txn
      BY <1>0, <1>a, <1>b, Zenon DEF Owns, StoreInv, OwnInv
    <2>2. \A j \in todo' : ent[j.id].txn = t /\ (j.id \in CreatedBy(t) => Listed(j.id))
      BY <1>0, <1>a, <1>b, RollbackOwns, Zenon DEF Owns
    <2>3. ASSUME NEW u \in Txns, NEW id \in Tables(u)
          PROVE  (ApplyDone(u, id)' => ApplyDone(u, id)) /\ (UndoDone(u, id)' => UndoDone(u, id))
      <3>1. u = t => Item(TableRank, id) \in todo'
        BY <1>b, Zenon DEF RollbackItems
      <3> QED
        BY <1>0, <1>b, <1>d, <3>1, Zenon DEF ApplyDone, UndoDone
    <2>4. \A u \in Txns : \A j \in PrepareItems(u) : j.rank # CheckRank =>
             (PreparedItem(u, j.rank, j.id)' => PreparedItem(u, j.rank, j.id))
      BY <1>0, <1>d, Zenon DEF PreparedItem
    <2>5. \A u \in Txns : \A x \in store[u].symTable : CheckDone(u, x)' => CheckDone(u, x)
      BY <1>0, <1>d, Zenon DEF CheckDone
    <2> QED
      BY <1>0, <2>1, <2>2, <2>3, <2>4, <2>5, Zenon DEF CallsMove
  <1>3. PhaseInv'
    <2>1. \A u : /\ PrepareItems(u)' = PrepareItems(u) /\ RollbackItems(u)' = RollbackItems(u)
                 /\ ApplyItems(u)' = ApplyItems(u)
      BY <1>b, CatalogAlone
    <2>2. \A u \in Txns : InFlight(u)' => (state'[u] = "Committing" <=> op'[u] = "Commit")
      BY <1>0 DEF StoreInv, PhaseInv, InFlight
    <2>3. applying # {} => comm.txn \in Txns \ {t}
      BY <1>a, ApplyItemFacts, Zenon DEF StoreInv
    <2>4. /\ comm.pc # "apply" => applying = {}
          /\ applying # {} => state'[comm.txn] = "Committing" /\ applying \subseteq ApplyItems(comm.txn)
      BY <1>0, <2>3 DEF StoreInv, PhaseInv
    <2> QED
      BY <1>0, <1>b, <2>1, <2>2, <2>4, Zenon DEF PhaseInv
  <1> QED
    BY <1>b, <1>1, <1>2, <1>3, ManagerStepStoreInv

\* onCommit takes the next transaction: it owns all it has written.
LEMMA DequeueStoreInv ==
    ASSUME StoreInv, IndInv', panic = "none", DequeueTxn
    PROVE  StoreInv'
  <1> DEFINE t == Head(cqueue)
  <1>0. /\ t \in Txns /\ comm.txn = NoTxn /\ comm'.txn = t /\ comm'.pc = "apply"
        /\ InFlight(t) /\ (Stamped => prep.txn # t)
    <2>1. comm = Idle /\ cqueue \in Seq(Txns) /\ cqueue # <<>>
      BY Zenon DEF DequeueTxn, Dequeue, StoreInv, IndInv, TypeOK
    <2>2. t = cqueue[1] /\ 1 \in 1..Len(cqueue) /\ t \in Txns
      BY <2>1
    <2>3. commitTS[t] \in Nat
      BY <2>2, TimeTypes, Zenon
    <2>4. InFlight(t) /\ (Stamped => commitTS[t] < commitTS[prep.txn])
      BY <2>2 DEF StoreInv, IndInv, InFlightInv, OrderInv
    <2> QED
      BY <2>1, <2>2, <2>3, <2>4 DEF DequeueTxn, Dequeue, Idle
  <1>b. /\ UNCHANGED <<catVars, todo, tsAlloc, state, startTS, commitTS, op, client, prep>>
        /\ applying' = IF op[t] = "Commit" THEN ApplyItems(t) ELSE {}
    BY Zenon DEF DequeueTxn, Dequeue
  <1>c. op[t] = "Commit" <=> state[t] = "Committing"
    BY <1>0, Zenon DEF StoreInv, PhaseInv
  <1>d. t # NoTxn
    BY <1>0, ConstantsAssumption
  <1> HIDE DEF t
  <1>1. ManagerMoves
    BY <1>b, MovesStay, Zenon
  <1>2. CallsMove
    <2>1. \A u \in Txns : Owns(u)' => Owns(u)
      BY <1>0, <1>b, ConstantsAssumption, Zenon DEF Owns
    <2>2. \A i \in applying' : ent[i.id].txn = t
      <3>1. ASSUME NEW i \in ApplyItems(t), state[t] = "Committing"
            PROVE  ent[i.id].txn = t
        <4>1. i.id \in WrittenBy(t)
          BY DEF ApplyItems, Optional, Item, Tables, WrittenBy, CreatedBy, DroppedBy
        <4> QED
          BY <1>0, <1>d, <3>1, <4>1, Zenon DEF StoreInv, OwnInv, Owns
      <3> QED
        BY <1>b, <1>c, <3>1, Zenon
    <2>3. ASSUME NEW u \in Txns, NEW id \in Tables(u)
          PROVE  (ApplyDone(u, id)' => ApplyDone(u, id)) /\ (UndoDone(u, id)' => UndoDone(u, id))
      <3>1. u = t /\ state[t] = "Committing" => Item(TableRank, id) \in applying'
        BY <1>b, <1>c, Zenon DEF ApplyItems
      <3> QED
        BY <1>0, <1>b, <3>1, Zenon DEF ApplyDone, UndoDone
    <2>4. \A u \in Txns : \A j \in PrepareItems(u) : j.rank # CheckRank =>
             (PreparedItem(u, j.rank, j.id)' => PreparedItem(u, j.rank, j.id))
      BY <1>b, Zenon DEF PreparedItem
    <2>5. \A u \in Txns : \A x \in store[u].symTable : CheckDone(u, x)' => CheckDone(u, x)
      BY <1>b, Zenon DEF CheckDone
    <2>6. /\ prep'.pc = "prepareRollback" => \A i \in todo' :
                ent[i.id].txn = prep'.txn /\ (i.id \in CreatedBy(prep'.txn) => Listed(i.id))
          /\ prep'.pc = "prepareCommit" /\ (\E i \in todo' : i.rank <= CheckRank) =>
                \A id \in Ids : commitTS'[prep'.txn] \notin {ent[id].createAt, ent[id].deleteAt}
      BY <1>b, Zenon DEF StoreInv, OwnInv, UndoInv, StampInv
    <2> QED
      BY <1>0, <2>1, <2>2, <2>3, <2>4, <2>5, <2>6, Zenon DEF CallsMove
  <1>3. PhaseInv'
    <2>1. \A u : /\ PrepareItems(u)' = PrepareItems(u) /\ RollbackItems(u)' = RollbackItems(u)
                 /\ ApplyItems(u)' = ApplyItems(u)
      BY <1>b, CatalogAlone, Zenon
    <2>2. store' = store
      BY <1>b, Zenon DEF catVars
    <2> QED
      BY <1>0, <1>b, <1>c, <2>1, <2>2 DEF StoreInv, PhaseInv, InFlight
  <1> QED
    BY <1>b, <1>1, <1>2, <1>3, ManagerStepStoreInv, Zenon

\* WaitDone makes the outcome final; it was on the entries before.
LEMMA DoneStoreInv ==
    ASSUME StoreInv, IndInv', panic = "none", Done, UNCHANGED <<catVars, todo, applying>>
    PROVE  StoreInv'
  <1> DEFINE t == comm.txn
  <1>0. /\ t \in Txns /\ comm.pc = "done" /\ comm'.txn = NoTxn /\ comm'.pc = "idle"
        /\ InFlight(t) /\ (Stamped => prep.txn # t) /\ applying = {}
        /\ state[t] = "Committing" => state'[t] = "Committed"
        /\ state[t] = "Rollbacking" => state'[t] = "Rollbacked"
        /\ \A u \in Txns \ {t} : state'[u] = state[u]
    <2>1. comm \in [pc : {"apply", "done"}, txn : Txns] /\ comm.pc = "done"
      BY DEF Done, StoreInv, IndInv, TypeOK, Idle
    <2>2. t \in Txns /\ commitTS[t] \in Nat /\ t # NoTxn
      BY <2>1, TimeTypes, ConstantsAssumption, Zenon
    <2>3. InFlight(t) /\ (Stamped => commitTS[t] < commitTS[prep.txn])
      BY <2>2, Zenon DEF StoreInv, IndInv, InFlightInv, OrderInv
    <2>4. state \in [Txns -> States]
      BY Zenon DEF StoreInv, IndInv, TypeOK
    <2>5. \A u \in Txns : state'[u] = IF u = t THEN CASE state[t] = "Committing" -> "Committed"
                                           [] state[t] = "Rollbacking" -> "Rollbacked"
                                           [] OTHER -> state[t] ELSE state[u]
      BY <2>4, Zenon DEF Done
    <2>6. /\ state[t] = "Committing" => state'[t] = "Committed"
          /\ state[t] = "Rollbacking" => state'[t] = "Rollbacked"
          /\ \A u \in Txns \ {t} : state'[u] = state[u]
      BY <2>2, <2>5, Zenon
    <2>7. comm' = Idle /\ applying = {}
      BY <2>1, Zenon DEF Done, StoreInv, PhaseInv
    <2> QED
      BY <2>1, <2>2, <2>3, <2>6, <2>7 DEF Idle
  <1>b. UNCHANGED <<catVars, todo, applying, tsAlloc, startTS, commitTS, op, client, prep>>
    BY Zenon DEF Done
  <1>c. t = prep.txn => todo = {}
    BY <1>0, Zenon DEF StoreInv, PhaseInv, Stamped
  <1>d. prep.pc \in {"prepareCommit", "prepareRollback"} => prep.txn \in Txns \ {t}
    BY <1>0, Zenon DEF Stamped, StoreInv, IndInv, TypeOK, Idle
  <1>e. comm.txn = t /\ t # NoTxn
    BY <1>0, ConstantsAssumption, Zenon
  <1>f. state[t] = "Committing" \/ state[t] = "Rollbacking"
    BY <1>0, Zenon DEF InFlight
  <1> HIDE DEF t
  <1>1. ManagerMoves
    <2>1. \A u \in Txns : req[u].pc # "none" => client[u] = "open"
      BY Zenon DEF StoreInv, CallInv
    <2>2. tsAlloc' >= tsAlloc
      BY <1>b, TimeTypes
    <2>3. \A u \in Txns : state'[u] = "Committing" => state[u] \in {"Active", "Committing"}
      BY <1>0, <1>f
    <2> QED
      BY <1>0, <1>b, <1>f, <2>1, <2>2, <2>3 DEF ManagerMoves, Undoing
  <1>2. CallsMove
    <2>1. \A u \in Txns : Owns(u)' => Owns(u)
      BY <1>0, <1>e, <1>f, Zenon DEF Owns
    <2>3. ASSUME NEW u \in Txns, NEW id \in Tables(u)
          PROVE  (ApplyDone(u, id)' => ApplyDone(u, id)) /\ (UndoDone(u, id)' => UndoDone(u, id))
      <3>1. CASE u = t
        BY <1>0, <1>b, <1>c, <1>e, <1>f, <3>1, Zenon DEF ApplyDone, UndoDone
      <3>2. CASE u # t
        <4>1. state'[u] = state[u] /\ comm'.txn # u
          BY <1>0, <3>2, ConstantsAssumption, Zenon
        <4> QED
          BY <1>b, <4>1 DEF ApplyDone, UndoDone
      <3> QED
        BY <3>1, <3>2
    <2>4. \A u \in Txns : \A j \in PrepareItems(u) : j.rank # CheckRank =>
             (PreparedItem(u, j.rank, j.id)' => PreparedItem(u, j.rank, j.id))
      BY <1>0, <1>b, <1>c, <1>f, Zenon DEF PreparedItem
    <2>5. \A u \in Txns : \A x \in store[u].symTable : CheckDone(u, x)' => CheckDone(u, x)
      BY <1>0, <1>b, <1>f, Zenon DEF CheckDone
    <2>6. /\ prep'.pc = "prepareRollback" => \A i \in todo' :
                ent[i.id].txn = prep'.txn /\ (i.id \in CreatedBy(prep'.txn) => Listed(i.id))
          /\ prep'.pc = "prepareCommit" /\ (\E i \in todo' : i.rank <= CheckRank) =>
                \A id \in Ids : commitTS'[prep'.txn] \notin {ent[id].createAt, ent[id].deleteAt}
      BY <1>b DEF StoreInv, OwnInv, UndoInv, StampInv
    <2> QED
      BY <1>0, <2>1, <2>3, <2>4, <2>5, <2>6, Zenon DEF CallsMove
  <1>3. PhaseInv'
    <2>1. \A u : /\ PrepareItems(u)' = PrepareItems(u) /\ RollbackItems(u)' = RollbackItems(u)
                 /\ ApplyItems(u)' = ApplyItems(u)
      BY <1>b, CatalogAlone
    <2>2. store' = store
      BY <1>b DEF catVars
    <2>3. \A u \in Txns : InFlight(u)' => (state'[u] = "Committing" <=> op'[u] = "Commit")
      BY <1>0, <1>b, <1>f DEF StoreInv, PhaseInv, InFlight
    <2> QED
      BY <1>0, <1>b, <1>d, <2>1, <2>2, <2>3 DEF StoreInv, PhaseInv
  <1> QED
    BY <1>b, <1>1, <1>2, <1>3, ManagerStepStoreInv

-----------------------------------------------------------------------------
(* The anti-dependency check.                                              *)

\* A symbol leaves the store call only when it is not deleted before the
\* commit timestamp; one that is waited for stays.
LEMMA SymbolCheckedStoreInv ==
    ASSUME StoreInv, IndInv', panic = "none", prep.pc = "prepareCommit",
           NEW i \in todo, i.rank = CheckRank,
           UNCHANGED <<catVars, applying, tsAlloc, state, startTS, commitTS, op, client,
                       prep, comm>>,
           \/ todo' = todo \ {i} /\ ~DeleteBefore(ent[i.id], commitTS[prep.txn])
           \/ todo' = (todo \ {i}) \cup {Item(WaitedRank, i.id)}
    PROVE  StoreInv'
  <1> DEFINE t == prep.txn
  <1>0. /\ t \in Txns /\ state[t] = "Committing" /\ i.id \in store[t].symTable
        /\ i = Item(CheckRank, i.id)
    BY PrepareItemFacts DEF StoreInv
  <1>1. ManagerMoves
    BY MovesStay, Zenon
  <1>a. \A j : j.rank \notin {CheckRank, WaitedRank} => (j \in todo' <=> j \in todo)
    BY <1>0 DEF Item
  <1>b. \A r, id : Item(r, id).rank = r /\ Item(r, id).id = id
    BY Zenon DEF Item
  <1>2. CallsMove
    <2>1. \A u \in Txns : Owns(u)' => Owns(u)
      BY Zenon DEF Owns
    <2>2. comm'.pc = "apply" => \A j \in applying' : ent[j.id].txn = comm'.txn
      BY Zenon DEF StoreInv, OwnInv
    <2>3. \A u \in Txns : \A id \in Tables(u) :
             (ApplyDone(u, id)' => ApplyDone(u, id)) /\ (UndoDone(u, id)' => UndoDone(u, id))
      <3>1. \A id : Item(TableRank, id) \in todo' <=> Item(TableRank, id) \in todo
        BY <1>a, <1>b DEF TableRank, CheckRank, WaitedRank
      <3> QED
        BY <3>1, Zenon DEF ApplyDone, UndoDone
    <2>4. ASSUME NEW u \in Txns, NEW j \in PrepareItems(u), j.rank # CheckRank,
                 PreparedItem(u, j.rank, j.id)'
          PROVE  PreparedItem(u, j.rank, j.id)
      <3>1. j = Item(j.rank, j.id) /\ j.rank # WaitedRank
        BY <2>4 DEF PrepareItems, Optional, Item, WaitedRank, CheckRank, CreateRank, TableRank, DropRank
      <3>2. Item(j.rank, j.id) \in todo' <=> Item(j.rank, j.id) \in todo
        BY <1>a, <2>4, <3>1, Zenon
      <3> QED
        BY <2>4, <3>2, Zenon DEF PreparedItem
    <2>5. ASSUME NEW u \in Txns, NEW x \in store[u].symTable, CheckDone(u, x)', ~CheckDone(u, x)
          PROVE  state[u] = "Committing" /\ ~DeleteBefore(ent[x], commitTS[u])
      <3>1. u = t /\ state[u] = "Committing"
        BY <1>0, <2>5, Zenon DEF CheckDone
      <3>2. /\ Item(CheckRank, x) \in todo \/ Item(WaitedRank, x) \in todo
            /\ Item(CheckRank, x) \notin todo' /\ Item(WaitedRank, x) \notin todo'
        BY <2>5, Zenon DEF CheckDone
      <3>3. Item(WaitedRank, x) # i
        BY <1>b DEF CheckRank, WaitedRank
      <3>4. Item(CheckRank, x) = i
        BY <3>2, <3>3, Zenon
      <3>5. i.id = x
        BY <1>b, <3>4
      <3> QED
        BY <3>1, <3>2, <3>5, Zenon
    <2>6. prep'.pc = "prepareCommit" /\ (\E j \in todo' : j.rank <= CheckRank) =>
                \A id \in Ids : commitTS'[prep'.txn] \notin {ent[id].createAt, ent[id].deleteAt}
      BY DEF StoreInv, StampInv, CheckRank
    <2> QED
      BY <2>1, <2>2, <2>3, <2>4, <2>5, <2>6, Zenon DEF CallsMove
  <1>3. PhaseInv'
    <2>1. \A u : /\ PrepareItems(u)' = PrepareItems(u) /\ RollbackItems(u)' = RollbackItems(u)
                 /\ ApplyItems(u)' = ApplyItems(u)
      BY CatalogAlone, Zenon
    <2>2. store' = store
      BY Zenon DEF catVars
    <2> QED
      BY <1>0, <2>1, <2>2 DEF StoreInv, PhaseInv, InFlight
  <1> QED
    BY <1>1, <1>2, <1>3, ManagerStepStoreInv

\* warChecker.check: a symbol whose deleter was rolled back after all does not
\* exist, since nobody stamps an entry and rolls back.
LEMMA CheckStoreInv ==
    ASSUME StoreInv, IndInv', panic = "none", NEW i \in todo, Check(i)
    PROVE  StoreInv'
  <1> DEFINE e == ent[i.id]
             deleted == DeleteBefore(e, commitTS[prep.txn])
  <1>0. prep.pc = "prepareCommit" /\ i.rank = CheckRank /\ UNCHANGED <<catVars, applying>>
    BY Zenon DEF Check
  <1>a. i.id \in Ids
    BY <1>0, PrepareItemFacts, Zenon DEF StoreInv
  <1>1. CASE ~deleted /\ todo' = todo \ {i} /\ UNCHANGED mgrVars
    BY <1>0, <1>1, SymbolCheckedStoreInv, Zenon DEF mgrVars
  <1>2. CASE Fails
    BY <1>0, <1>2, FailsStoreInv DEF CheckRank
  <1>3. CASE GetTxnState(Preparer, e.txn) /\ todo' = (todo \ {i}) \cup {Item(WaitedRank, i.id)}
    BY <1>0, <1>3, SymbolCheckedStoreInv, Zenon DEF GetTxnState
  <1>4. ~(deleted /\ IsCommitting(e) /\ state[e.txn] = "Rollbacked")
    <2>1. deleted /\ IsCommitting(e) => e.txn \in Txns /\ e.deleteAt = commitTS[e.txn]
                                          /\ commitTS[e.txn] # UncommitTS
      BY <1>a, EntTypes, Zenon DEF StoreInv, StampInv, DeleteBefore, IsCommitting, HasActiveTxn
    <2> QED
      BY <1>a, <2>1, Zenon DEF StoreInv, StampInv, StampedWillCommit
  <1> QED
    BY <1>1, <1>2, <1>3, <1>4, Zenon DEF Check

\* After its wait the check fails: it never learns of a rollback.
LEMMA CheckedStoreInv ==
    ASSUME StoreInv, IndInv', panic = "none", NEW i \in todo, Checked(i)
    PROVE  StoreInv'
  <1>1. learned[Preparer] # "Rollbacked"
    BY Zenon DEF StoreInv, IndInv, TypeOK, Callers
  <1>2. Fails /\ UNCHANGED <<catVars, applying>> /\ i.rank <= CheckRank
    BY <1>1 DEF Checked, WaitedRank, CheckRank
  <1> QED
    BY <1>2, FailsStoreInv, Zenon
=============================================================================
