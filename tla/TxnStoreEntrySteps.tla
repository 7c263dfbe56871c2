------------------------- MODULE TxnStoreEntrySteps -------------------------
(***************************************************************************)
(* StoreInv is kept by the steps of the two goroutines that change an      *)
(* entry: prepare, apply, roll back.                                       *)
(***************************************************************************)
EXTENDS TxnStoreLemmas

-----------------------------------------------------------------------------
(* Steps of the goroutines that change one entry.                          *)

\* What is left of a store call gets less.
LEMMA StoreCallShrinks ==
    ASSUME PhaseInv, todo' \subseteq todo, applying' \subseteq applying,
           UNCHANGED <<store, state, op, prep, comm>>
    PROVE  PhaseInv'
  <1>1. \A u : /\ PrepareItems(u)' = PrepareItems(u) /\ RollbackItems(u)' = RollbackItems(u)
              /\ ApplyItems(u)' = ApplyItems(u) /\ (InFlight(u)' <=> InFlight(u))
    BY Zenon DEF PrepareItems, RollbackItems, ApplyItems, Tables, InFlight
  <1>2. applying' # {} => state[comm.txn] = "Committing" /\ applying' \subseteq ApplyItems(comm.txn)
    BY Zenon DEF PhaseInv
  <1>3. prep.pc = "prepareCommit" =>
           \A i \in todo' : \/ i \in PrepareItems(prep.txn)
                            \/ \E x \in store[prep.txn].symTable : i = Item(WaitedRank, x)
    BY Zenon DEF PhaseInv
  <1>4. /\ \A t \in Txns : InFlight(t) => (state[t] = "Committing" <=> op[t] = "Commit")
        /\ prep.pc = "prepareCommit" => state[prep.txn] = "Committing"
        /\ prep.pc = "prepareRollback" => state[prep.txn] = "Rollbacking"
        /\ prep.pc \notin {"prepareCommit", "prepareRollback"} => todo' = {}
        /\ prep.pc = "prepareRollback" => todo' \subseteq RollbackItems(prep.txn)
        /\ comm.pc # "apply" => applying' = {}
    BY Zenon DEF PhaseInv
  <1> QED
    BY <1>1, <1>2, <1>3, <1>4, Zenon DEF PhaseInv

\* Keys and stores stay: so do the types and the symbols.
LEMMA EntryStepKeepsTypes ==
    ASSUME StoreInv, KeysKept, ent' \in Seq(EntryRec), UNCHANGED <<store, req, reads>>
    PROVE  /\ Ids' = Ids /\ Hosts' = Hosts
           /\ \A id \in Ids : Key(id)' = Key(id) /\ (IsDB(id)' <=> IsDB(id))
           /\ CatTypeInv' /\ SymbolInv'
  <1> USE DEF StoreInv
  <1>1. Ids' = Ids
    BY Zenon DEF KeysKept, Ids
  <1>2. \A id \in Ids : Key(id)' = Key(id) /\ (IsDB(id)' <=> IsDB(id))
                        /\ ent'[id].host = ent[id].host
    BY Zenon DEF KeysKept, Key, IsDB
  <1>3. Hosts' = Hosts /\ Databases' = Databases /\ TableIds' = TableIds
    BY <1>1, <1>2, Zenon DEF Hosts, Databases, TableIds
  <1>4. CatTypeInv'
    BY <1>1, <1>2, <1>3, Zenon DEF CatTypeInv
  <1>5. SymbolInv'
    <2>1. \A u \in Txns : \A y \in Tables(u) \cup store[u].written : ent'[y].host = ent[y].host
      BY <1>2, Zenon DEF CatTypeInv, Tables, TableIds
    <2>2. \A u \in Txns : Tables(u)' = Tables(u)
      BY Zenon DEF Tables
    <2> QED
      BY <2>1, <2>2, Zenon DEF SymbolInv
  <1> QED
    BY <1>1, <1>2, <1>3, <1>4, <1>5, Zenon

\* The calls stay right while the lists that they wait in do.
LEMMA EntryStepKeepsCalls ==
    ASSUME StoreInv, KeysKept, ent' \in Seq(EntryRec),
           UNCHANGED <<store, req, reads, client>>,
           \A t \in Txns : req[t].pc \in {"waited", "writeWaited"} =>
               NodeList(req[t].host, req[t].name)' = NodeList(req[t].host, req[t].name)
    PROVE  CallInv'
  <1> USE DEF StoreInv
  <1>1. Ids' = Ids /\ Hosts' = Hosts /\ \A id \in Ids : Key(id)' = Key(id)
    BY EntryStepKeepsTypes, Zenon
  <1>2. \A h : Writers(h)' = Writers(h) /\ Holders(h)' = Holders(h)
    BY Zenon DEF Writers, Holders
  <1>3. \A u \in Txns : store[u].db # Nil => ent'[store[u].db].name = ent[store[u].db].name
    BY Zenon DEF CatTypeInv, Databases, KeysKept
  <1>4. \A u \in Txns : req[u].pc = "drop" => Key(req[u].found)' = Key(req[u].found)
    BY <1>1, Zenon DEF CallInv
  <1>5. ASSUME NEW t \in Txns
        PROVE  LET r == req[t] IN
               /\ r.pc = "waited" => r.at <= Len(NodeList(r.host, r.name)')
               /\ r.pc = "writeWaited" => NodeList(r.host, r.name)' # <<>>
    BY Zenon DEF CallInv
  <1> QED
    BY <1>1, <1>2, <1>3, <1>4, <1>5 DEF CallInv

\* Keys, lists, stores and calls stay: so do the types, the indexes, the calls
\* and the symbols.
LEMMA EntryStepKeepsCatalog ==
    ASSUME StoreInv, KeysKept, ent' \in Seq(EntryRec),
           UNCHANGED <<nodes, link, store, req, reads, client, state>>
    PROVE  CatTypeInv' /\ IndexInv' /\ CallInv' /\ SymbolInv'
  <1>1. CatTypeInv' /\ SymbolInv'
    BY EntryStepKeepsTypes, Zenon
  <1>2. IndexInv'
    BY IndexKept, Zenon DEF CreatedBy
  <1>3. CallInv'
    BY EntryStepKeepsCalls, Zenon DEF NodeList
  <1> QED
    BY <1>1, <1>2, <1>3, Zenon

\* BaseEntry.PrepareCommit puts the commit timestamp of the prepared
\* transaction, which is the writer, on the entry.
LEMMA PrepareEntryFacts ==
    ASSUME StoreInv, NEW i \in todo, PrepareEntry(i)
    PROVE  LET t == prep.txn
               id == i.id
               e == ent[id]
               d == ent'[id]
           IN  /\ t \in Txns /\ state[t] = "Committing" /\ commitTS[t] # 0 /\ comm.txn # t
               /\ id \in Ids /\ id \in WrittenBy(t) /\ e.txn = t
               /\ id \in CreatedBy(t) \/ e.createAt # 0
               /\ ent' \in Seq(EntryRec) /\ KeysKept
               /\ \A x \in Ids \ {id} : ent'[x] = ent[x]
               /\ d.txn = t /\ d.op = e.op
               /\ d.createAt = IF e.createAt = 0 THEN commitTS[t] ELSE e.createAt
               /\ d.deleteAt = IF e.op = "SoftDelete" THEN commitTS[t] ELSE e.deleteAt
               /\ e.deleteAt # 0 => e.deleteAt = commitTS[t]
               /\ \A j \in todo : j.rank > CheckRank
  <1> USE DEF StoreInv
  <1> DEFINE t == prep.txn
             id == i.id
             e == ent[id]
  <1>1. /\ prep.pc = "prepareCommit" /\ i \in Ready(todo) /\ i.rank \in {CreateRank, TableRank, DropRank}
        /\ ent' = [ent EXCEPT ![id] = IF CreateAndDropInSameTxn(e) /\ i.rank = TableRank
                                        THEN e ELSE EntryPrepareCommit(e)]
    BY Zenon DEF PrepareEntry
  <1>2. /\ t \in Txns /\ state[t] = "Committing" /\ id \in Ids
        /\ i.rank \in Nat
        /\ i.rank = CreateRank => id = store[t].createEntry /\ id \in Databases
        /\ i.rank = TableRank => id \in Tables(t)
        /\ i.rank = DropRank => id = store[t].dropEntry /\ id \in Databases
    BY <1>1, PrepareItemFacts DEF CreateRank, TableRank, DropRank
  <1>3. comm.txn # t /\ commitTS[t] # 0 /\ commitTS[t] \in Nat
    <2>1. commitTS[t] # 0 /\ commitTS[t] \in Nat /\ t # NoTxn
      BY <1>2, TimeTypes, ConstantsAssumption, Zenon
    <2> QED
      BY <1>1, <2>1 DEF IndInv, OrderInv, Stamped
  <1>4. id \in WrittenBy(t)
    <2>1. id # Nil
      BY <1>2, EntTypes, Zenon DEF Nil
    <2> QED
      BY <1>1, <1>2, <2>1, Zenon DEF WrittenBy, CreatedBy, DroppedBy, Tables
  <1>5. e.txn = t
    BY <1>2, <1>3, <1>4, Zenon DEF OwnInv, Owns
  <1>6. id \in CreatedBy(t) \/ e.createAt # 0
    BY <1>2, <1>4, Zenon DEF StampInv, WrittenBy, HasCreated, Unset
  <1>7. e \in EntryRec /\ e.createAt \in Nat /\ e.deleteAt \in Nat
    BY <1>2, EntTypes, Zenon
  <1>8. e.deleteAt # 0 => e.deleteAt = commitTS[t]
    BY <1>2, <1>5, ConstantsAssumption, Zenon DEF StampInv, HasActiveTxn, HasDropped, Unset
  <1>9. LET p == EntryPrepareCommit(e) IN
        /\ p \in EntryRec
        /\ p.host = e.host /\ p.name = e.name /\ p.op = e.op /\ p.txn = e.txn
        /\ p.createAt = IF e.createAt = 0 THEN commitTS[e.txn] ELSE e.createAt
        /\ p.deleteAt = IF e.op = "SoftDelete" THEN commitTS[e.txn] ELSE e.deleteAt
    BY <1>2, <1>5, <1>7, PreparedFields, Zenon DEF IndInv, TypeOK
  <1>10. \A j \in todo : j.rank > CheckRank
    <2>1. ASSUME NEW j \in todo PROVE j.rank > CheckRank
      <3>1. i.rank <= j.rank
        BY <1>1, Zenon DEF Ready
      <3>2. j.rank \in {0, 1, 2, 3, 4}
        BY <1>1, PrepareItemFacts, Zenon DEF WaitedRank, CheckRank, CreateRank, TableRank, DropRank
      <3> QED
        BY <1>1, <3>1, <3>2 DEF CheckRank, CreateRank, TableRank, DropRank
    <2> QED
      BY <2>1, Zenon
  <1>11. ent \in Seq(EntryRec)
    BY Zenon DEF CatTypeInv
  <1>12. CASE CreateAndDropInSameTxn(e) /\ i.rank = TableRank
    <2>1. e.createAt # 0 /\ e.deleteAt = commitTS[t]
      BY <1>8, <1>12, Zenon DEF CreateAndDropInSameTxn, HasCreated, Unset
    <2>2. ent' = ent
      BY <1>1, <1>11, <1>12
    <2> QED
      BY <1>2, <1>3, <1>4, <1>5, <1>6, <1>8, <1>10, <1>11, <2>1, <2>2, Zenon DEF KeysKept
  <1>13. CASE ~(CreateAndDropInSameTxn(e) /\ i.rank = TableRank)
    <2>1. ent' = [ent EXCEPT ![id] = EntryPrepareCommit(e)]
      BY <1>1, <1>13, Zenon
    <2>2. ent' \in Seq(EntryRec) /\ Len(ent') = Len(ent)
          /\ ent'[id] = EntryPrepareCommit(e) /\ \A x \in Ids \ {id} : ent'[x] = ent[x]
      BY <1>2, <1>9, <1>11, <2>1 DEF Ids
    <2>3. KeysKept
      BY <1>9, <2>2, Zenon DEF KeysKept
    <2> QED
      BY <1>2, <1>3, <1>4, <1>5, <1>6, <1>8, <1>9, <1>10, <2>2, <2>3, Zenon
  <1> QED
    BY <1>12, <1>13, Zenon

\* No entry is stamped twice: what it says of other transactions stays.
LEMMA PrepareEntryStoreInv ==
    ASSUME StoreInv, IndInv', panic = "none", NEW i \in todo, PrepareEntry(i)
    PROVE  StoreInv'
  <1> USE DEF StoreInv
  <1> DEFINE t == prep.txn
             id == i.id
             e == ent[id]
             d == ent'[id]
             c == commitTS[t]
  <1>0. /\ t \in Txns /\ state[t] = "Committing" /\ c # 0 /\ comm.txn # t
        /\ id \in Ids /\ id \in WrittenBy(t) /\ e.txn = t
        /\ id \in CreatedBy(t) \/ e.createAt # 0
        /\ ent' \in Seq(EntryRec) /\ KeysKept
        /\ \A x \in Ids \ {id} : ent'[x] = ent[x]
        /\ d.txn = t /\ d.op = e.op
        /\ d.createAt = IF e.createAt = 0 THEN c ELSE e.createAt
        /\ d.deleteAt = IF e.op = "SoftDelete" THEN c ELSE e.deleteAt
        /\ e.deleteAt # 0 => e.deleteAt = c
        /\ \A j \in todo : j.rank > CheckRank
    BY PrepareEntryFacts, Zenon
  <1>a. /\ UNCHANGED <<mgrVars, nodes, link, store, req, calls, reads, panic, applying>>
        /\ todo' = todo \ {i} /\ prep.pc = "prepareCommit"
        /\ i.rank \in {CreateRank, TableRank, DropRank}
    BY Zenon DEF PrepareEntry
  <1>b. /\ c \in Nat /\ c > PrevTs /\ c <= tsAlloc
        /\ e.createAt \in Nat /\ e.deleteAt \in Nat /\ d.createAt \in Nat /\ d.deleteAt \in Nat
        /\ \A u \in Txns : commitTS[u] = c => u = t
    <2>1. c \in Nat /\ c <= tsAlloc /\ e.createAt \in Nat /\ e.deleteAt \in Nat
      BY <1>0, EntTypes, TimeTypes, Zenon
    <2>2. c > PrevTs /\ \A u \in Txns : commitTS[u] = c => u = t
      BY <1>0 DEF StampInv, UncommitTS, IndInv, ClockInv, TimestampsUnique
    <2> QED
      BY <1>0, <2>1, <2>2, Zenon
  <1>c. Ids' = Ids /\ \A u \in Txns : CreatedBy(u)' = CreatedBy(u) /\ DroppedBy(u)' = DroppedBy(u)
                          /\ Tables(u)' = Tables(u) /\ WrittenBy(u)' = WrittenBy(u)
    BY <1>0, <1>a, Zenon DEF Ids, KeysKept, CreatedBy, DroppedBy, Tables, WrittenBy
  <1>d. \A x \in Ids : /\ ent'[x].txn = ent[x].txn /\ ent'[x].op = ent[x].op
                       /\ ent[x].createAt # 0 => ent'[x].createAt = ent[x].createAt
                       /\ ent[x].deleteAt # 0 => ent'[x].deleteAt = ent[x].deleteAt
    BY <1>0, Zenon
  <1>e. \A x \in Ids : (IsDB(x)' <=> IsDB(x)) /\ (Listed(x)' <=> Listed(x))
    BY <1>0, <1>a, Zenon DEF IsDB, KeysKept, Listed, Key
  <1>i. i = Item(i.rank, id)
    BY <1>a, PrepareItemFacts, Zenon
  <1> HIDE DEF t, id, e, d, c
  <1>1. CatTypeInv' /\ IndexInv' /\ CallInv' /\ SymbolInv'
    BY <1>0, <1>a, EntryStepKeepsCatalog, Zenon DEF mgrVars
  <1>2. PhaseInv'
    BY <1>a, StoreCallShrinks, Zenon DEF mgrVars
  <1>3. OwnInv'
    <2>1. \A u \in Txns : Owns(u)' <=> Owns(u)
      BY <1>a, Zenon DEF Owns, mgrVars
    <2>2. \A u \in Txns : WrittenBy(u) \subseteq Ids
      BY WrittenIds, Zenon
    <2>3. (\A x \in Ids, u \in Txns : ent[x].txn = u =>
             IF ent[x].op = "SoftDelete" THEN x \in DroppedBy(u) \/ IsDB(x)
                                         ELSE x \in CreatedBy(u) \ DroppedBy(u))'
      BY <1>c, <1>d, <1>e DEF OwnInv
    <2>4. (\A u \in Txns : Owns(u) => \A x \in WrittenBy(u) : ent[x].txn = u)'
      BY <1>c, <1>d, <2>1, <2>2, Zenon DEF OwnInv
    <2>5. (comm.pc = "apply" => \A j \in applying : ent[j.id].txn = comm.txn)'
      BY <1>a, <1>d, ApplyItemFacts, Zenon DEF OwnInv, mgrVars
    <2> QED
      BY <1>a, <2>3, <2>4, <2>5, Zenon DEF OwnInv, mgrVars
  <1>4. ReleaseInv'
    <2>1. \A u \in Txns : Tables(u) \subseteq Ids
      BY Zenon DEF CatTypeInv, Tables, TableIds
    <2>2. \A u \in Txns : \A x \in Tables(u) : x # id => ent'[x] = ent[x]
      BY <1>0, <2>1, Zenon
    <2>3. ASSUME NEW u \in Txns, NEW x \in Tables(u), ApplyDone(u, x)'
          PROVE  ent'[x].txn # u \/ (ent'[x].createAt # 0 /\ ent'[x].createAt = ent'[x].deleteAt)
      <3>1. ApplyDone(u, x)
        BY <1>a, <2>3, Zenon DEF ApplyDone, mgrVars
      <3>2. u # t
        BY <1>0, <3>1, Zenon DEF ApplyDone
      <3>3. ent[x].txn # u \/ (ent[x].createAt # 0 /\ ent[x].createAt = ent[x].deleteAt)
        BY <3>1, Zenon DEF ReleaseInv, CreateAndDropInSameTxn, HasCreated, Unset
      <3> QED
        BY <1>0, <2>2, <3>2, <3>3, Zenon DEF d
    <2>4. ASSUME NEW u \in Txns, NEW x \in Tables(u), UndoDone(u, x)'
          PROVE  ent'[x].txn # u /\ (x \in CreatedBy(u) => ~Listed(x)')
      <3>1. UndoDone(u, x)
        BY <1>0, <1>a, <2>4, Zenon DEF UndoDone, mgrVars, t
      <3>2. ent[x].txn # u /\ (x \in CreatedBy(u) => ~Listed(x))
        BY <3>1, Zenon DEF ReleaseInv
      <3> QED
        BY <1>d, <1>e, <2>1, <3>2, Zenon
    <2> QED
      BY <1>c, <2>3, <2>4, Zenon DEF ReleaseInv, CreateAndDropInSameTxn, HasCreated, Unset
  <1>5. StampInv'
    <2>1. \A x \in Ids : ent'[x].createAt <= tsAlloc /\ ent'[x].deleteAt <= tsAlloc
      BY <1>0, <1>b DEF StampInv, id, e, d
    <2>2. ASSUME NEW x \in Ids
          PROVE  \/ ent'[x].createAt = PrevTs
                 \/ \E u \in Txns : x \in CreatedBy(u) /\ ent'[x].createAt \in {Unset, commitTS[u]}
      <3>1. CASE x # id \/ e.createAt # 0
        <4>1. ent'[x].createAt = ent[x].createAt
          BY <1>0, <3>1, Zenon DEF d, e
        <4> QED
          BY <4>1, Zenon DEF StampInv
      <3>2. CASE x = id /\ e.createAt = 0
        BY <1>0, <3>2, Zenon DEF c, d
      <3> QED
        BY <3>1, <3>2, Zenon
    <2>3. \A x \in Ids : ent'[x].createAt = PrevTs => \A u \in Txns : x \notin CreatedBy(u)
      <3>1. \A x \in Ids : ent'[x].createAt = PrevTs => ent[x].createAt = PrevTs
        BY <1>0, <1>b, EntTypes DEF d, e
      <3> QED
        BY <3>1, Zenon DEF StampInv
    <2>4. \A x \in Ids : ent'[x].txn # NoTxn /\ ent'[x].deleteAt # 0
             => ent'[x].deleteAt = commitTS[ent'[x].txn]
      <3>1. \A x \in Ids : x # id => ent'[x] = ent[x]
        BY <1>0, Zenon
      <3>2. d.deleteAt # 0 => d.deleteAt = commitTS[d.txn]
        BY <1>0, Zenon DEF c
      <3> QED
        BY <3>1, <3>2, Zenon DEF StampInv, HasActiveTxn, HasDropped, Unset, d
    <2>5. \A u \in Txns : \A x \in DroppedBy(u) : x \in CreatedBy(u) \/ ent'[x].createAt # 0
      BY <1>d, WrittenIds, Zenon DEF StampInv, HasCreated, Unset
    <2>6. ASSUME NEW u \in Txns, NEW x \in Ids, commitTS[u] # UncommitTS,
                 commitTS[u] \in {ent'[x].createAt, ent'[x].deleteAt}
          PROVE  state[u] \in {"Committing", "Committed"}
      <3>1. CASE commitTS[u] = c
        BY <1>0, <1>b, <3>1, Zenon
      <3>2. CASE commitTS[u] # c
        <4>1. commitTS[u] \in {ent[x].createAt, ent[x].deleteAt}
          BY <1>0, <2>6, <3>2, Zenon DEF id, e, d
        <4> QED
          BY <2>6, <4>1, Zenon DEF StampInv, StampedWillCommit
      <3> QED
        BY <3>1, <3>2, Zenon
    <2>7. ~\E j \in todo' : j.rank <= CheckRank
      <3>1. \A j \in todo : j.rank \in Nat
        BY <1>a, PrepareItemFacts DEF WaitedRank, CheckRank, CreateRank, TableRank, DropRank
      <3> QED
        BY <1>0, <1>a, <3>1 DEF CheckRank
    <2>8. /\ tsAlloc' >= PrevTs
          /\ \A u \in Txns : commitTS'[u] # UncommitTS => commitTS'[u] > PrevTs
          /\ \A u \in Txns : startTS'[u] # 0 => startTS'[u] > PrevTs
          /\ \A u, v \in Txns : u # v => CreatedBy(u) \cap CreatedBy(v) = {}
      BY <1>a, Zenon DEF StampInv, mgrVars
    <2>9. StampedWillCommit'
      BY <1>a, <1>c, <2>6, Zenon DEF StampedWillCommit, mgrVars
    <2>10. UNCHANGED <<tsAlloc, commitTS>>
      BY <1>a, Zenon DEF mgrVars
    <2> QED
      BY <1>c, <2>1, <2>2, <2>3, <2>4, <2>5, <2>7, <2>8, <2>9, <2>10
         DEF StampInv, HasActiveTxn, HasDropped, HasCreated, Unset
  <1>6. PreparedInv'
    <2>c. id \in CreatedBy(t) => d.createAt = c
      <3>1. id \in CreatedBy(t) /\ e.createAt # 0 => e.createAt = c
        BY <1>0, Zenon DEF StampInv, Unset, c, e
      <3> QED
        BY <1>0, <3>1, Zenon
    <2>d. id \in DroppedBy(t) => d.deleteAt = c
      <3>1. id \in DroppedBy(t) => e.op = "SoftDelete"
        BY <1>0, Zenon DEF OwnInv, e
      <3> QED
        BY <1>0, <3>1, Zenon
    <2>s. e.op = "SoftDelete" => d.deleteAt = c
      BY <1>0, Zenon
    <2>i. ASSUME NEW u \in Txns, NEW r \in {CreateRank, TableRank, DropRank}, NEW x \in Ids,
                 PreparedItem(u, r, x)'
          PROVE  /\ commitTS[u] # 0 /\ commitTS[u] \in Nat
                 /\ PreparedItem(u, r, x) \/ (u = t /\ x = id)
      <3>1. commitTS[u] # 0 /\ commitTS[u] \in Nat
        BY <1>a, <2>i, TimeTypes, Zenon DEF PreparedItem, mgrVars
      <3>2. Item(r, x) = i => x = id
        BY DEF Item, id
      <3> QED
        BY <1>a, <2>i, <3>1, <3>2, Zenon DEF PreparedItem, mgrVars, t
    <2>t. \A u \in Txns : store[u].created \cup store[u].dropped \subseteq Ids
                          /\ (store[u].createEntry # Nil => store[u].createEntry \in Ids)
                          /\ (store[u].dropEntry # Nil => store[u].dropEntry \in Ids)
      BY Zenon DEF CatTypeInv, TableIds, Databases
    <2>1. ASSUME NEW u \in Txns, NEW x \in store[u].dropped, PreparedItem(u, TableRank, x)'
          PROVE  ent'[x].deleteAt = commitTS[u]
      <3>1. CASE PreparedItem(u, TableRank, x)
        BY <1>d, <2>i, <2>1, <2>t, <3>1, Zenon DEF PreparedInv
      <3>2. CASE u = t /\ x = id
        BY <2>1, <2>d, <3>2, Zenon DEF DroppedBy, c, d
      <3> QED
        BY <2>1, <2>i, <2>t, <3>1, <3>2, Zenon
    <2>2. ASSUME NEW u \in Txns, NEW x \in store[u].created, PreparedItem(u, TableRank, x)'
          PROVE  ent'[x].createAt = commitTS[u]
      <3>1. CASE PreparedItem(u, TableRank, x)
        BY <1>d, <2>i, <2>2, <2>t, <3>1, Zenon DEF PreparedInv
      <3>2. CASE u = t /\ x = id
        BY <2>2, <2>c, <3>2, Zenon DEF CreatedBy, c, d
      <3> QED
        BY <2>2, <2>i, <2>t, <3>1, <3>2, Zenon
    <2>3. ASSUME NEW u \in Txns, NEW x \in Ids, x = store[u].dropEntry, x # Nil,
                 PreparedItem(u, DropRank, x)'
          PROVE  ent'[x].deleteAt = commitTS[u]
      <3>1. CASE PreparedItem(u, DropRank, x)
        BY <1>d, <2>i, <2>3, <3>1 DEF PreparedInv
      <3>2. CASE u = t /\ x = id
        BY <2>3, <2>d, <3>2, Zenon DEF DroppedBy, c, d
      <3> QED
        BY <2>3, <2>i, <3>1, <3>2, Zenon
    <2>4. ASSUME NEW u \in Txns, NEW x \in Ids, x = store[u].createEntry, x # Nil,
                 PreparedItem(u, CreateRank, x)'
          PROVE  /\ ent'[x].createAt = commitTS[u]
                 /\ ent'[x].op = "SoftDelete" /\ ent'[x].txn = u => ent'[x].deleteAt = commitTS[u]
      <3>1. CASE PreparedItem(u, CreateRank, x)
        BY <1>d, <2>i, <2>4, <3>1 DEF PreparedInv
      <3>2. CASE u = t /\ x = id
        BY <1>0, <2>4, <2>c, <2>s, <3>2, Zenon DEF CreatedBy, c, d
      <3> QED
        BY <2>4, <2>i, <3>1, <3>2, Zenon
    <2>5. UNCHANGED <<store, commitTS>>
      BY <1>a, Zenon DEF mgrVars
    <2> QED
      BY <2>t, <2>1, <2>2, <2>3, <2>4, <2>5, Zenon DEF PreparedInv
  <1>7. CheckInv'
    <2> SUFFICES ASSUME NEW u \in Txns, NEW x \in store[u].symTable, CheckDone(u, x)'
                 PROVE  ~(ent'[x].deleteAt # 0 /\ ent'[x].deleteAt < commitTS[u])
      BY <1>a, Zenon DEF CheckInv, mgrVars, DeleteBefore, HasDropped, Unset
    <2>i. Item(CheckRank, x) # i /\ Item(WaitedRank, x) # i
      BY <1>a DEF Item, CheckRank, WaitedRank, CreateRank, TableRank, DropRank
    <2>0. CheckDone(u, x)
      BY <1>a, <2>i, Zenon DEF CheckDone, mgrVars
    <2>1. x \in Ids
      BY Zenon DEF CatTypeInv
    <2>2. ~(ent[x].deleteAt # 0 /\ ent[x].deleteAt < commitTS[u])
      BY <2>0, Zenon DEF CheckInv, DeleteBefore, HasDropped, Unset
    <2>3. CASE ent'[x].deleteAt # ent[x].deleteAt
      <3>1. x = id /\ d.deleteAt = c
        BY <1>0, <2>1, <2>3, Zenon DEF d, e
      <3>2. commitTS[u] \in Nat /\ state[u] # "Active" /\ state[u] \in States
        BY <2>0, TimeTypes, Zenon DEF CheckDone
      <3>3. CASE u # t
        <4>1. t = prep.txn /\ Stamped /\ InFlight(t)
          BY <1>0, <1>a, Zenon DEF Stamped, InFlight, t
        <4>2. CASE InFlight(u)
          <5>1. (\E k \in 1..Len(cqueue) : cqueue[k] = u) \/ comm.txn = u
            BY <3>3, <4>1, <4>2, Zenon DEF IndInv, InFlightInv
          <5>2. commitTS[u] < c
            BY <4>1, <5>1, ConstantsAssumption, Zenon DEF IndInv, OrderInv, c
          <5> QED
            BY <1>b, <3>1, <3>2, <5>2 DEF d
        <4>3. CASE state[u] \in Terminal
          <5>1. commitTS[u] < c
            BY <1>0, <4>1, <4>3, Zenon DEF IndInv, OrderInv, DoneInTimestampOrder, c
          <5> QED
            BY <1>b, <3>1, <3>2, <5>1 DEF d
        <4> QED
          BY <3>2, <4>2, <4>3, Zenon DEF InFlight, Terminal, States
      <3>4. CASE u = t
        BY <1>b, <3>1, <3>4 DEF c, d
      <3> QED
        BY <3>3, <3>4, Zenon
    <2> QED
      BY <2>2, <2>3, Zenon
  <1>8. FoundInv'
    <2>1. \A u \in Txns : req[u].pc = "drop" => req[u].found \in Ids
      BY Zenon DEF CallInv
    <2> QED
      BY <1>a, <1>d, <2>1, Zenon DEF FoundInv, mgrVars, CreateBefore, HasCreated, Unset
  <1>9. ReadInv'
    <2> SUFFICES ASSUME NEW u \in Txns, NEW r \in reads[u], r.id # Nil
                 PROVE  /\ r.id \in CreatedBy(u) \/ CreateBefore(ent'[r.id], startTS[u])
                        /\ ~DeleteBefore(ent'[r.id], startTS[u])
                        /\ HasActiveTxn(ent'[r.id]) /\ ~HasDropped(ent'[r.id])
                              /\ ent'[r.id].op = "SoftDelete" =>
                                 (state[ent'[r.id].txn] = "Committing"
                                     => commitTS[ent'[r.id].txn] > startTS[u])
      BY <1>a, <1>c, Zenon DEF ReadInv, ReadsFromSnapshot, mgrVars, CreateBefore, HasCreated,
                        DeleteBefore, HasDropped, HasActiveTxn, Unset
    <2>1. r.id \in Ids
      BY Zenon DEF CatTypeInv
    <2>2. /\ r.id \in CreatedBy(u) \/ CreateBefore(ent[r.id], startTS[u])
          /\ ~DeleteBefore(ent[r.id], startTS[u])
      BY Zenon DEF ReadInv, ReadsFromSnapshot
    <2>3. HasActiveTxn(ent[r.id]) /\ ~HasDropped(ent[r.id]) /\ ent[r.id].op = "SoftDelete" =>
             (state[ent[r.id].txn] = "Committing" => commitTS[ent[r.id].txn] > startTS[u])
      BY Zenon DEF ReadInv
    <2>4. r.id \in CreatedBy(u) \/ CreateBefore(ent'[r.id], startTS[u])
      BY <1>d, <2>1, <2>2, Zenon DEF CreateBefore, HasCreated, Unset
    <2>5. ~DeleteBefore(ent'[r.id], startTS[u])
      <3>1. CASE r.id # id \/ e.deleteAt # 0 \/ e.op # "SoftDelete"
        <4>1. ent'[r.id].deleteAt = ent[r.id].deleteAt
          BY <1>0, <2>1, <3>1, Zenon DEF d, e
        <4> QED
          BY <2>2, <4>1, Zenon DEF DeleteBefore, HasDropped
      <3>2. CASE r.id = id /\ e.deleteAt = 0 /\ e.op = "SoftDelete"
        <4>1. c > startTS[u] /\ startTS[u] \in Nat
          BY <1>0, <2>3, <3>2, TimeTypes, ConstantsAssumption, Zenon
             DEF HasActiveTxn, HasDropped, Unset, c, e
        <4>2. ent'[r.id].deleteAt = c
          BY <1>0, <3>2, Zenon DEF d
        <4> QED
          BY <1>b, <4>1, <4>2 DEF DeleteBefore
      <3> QED
        BY <3>1, <3>2, Zenon
    <2> QED
      BY <1>d, <2>1, <2>3, <2>4, <2>5, Zenon DEF HasActiveTxn, HasDropped, Unset
  <1>10. NameInv'
    <2>1. \A x \in Ids : HasDropped(ent[x]) \/ IsDroppedUncommitted(ent[x]) =>
             HasDropped(ent'[x]) \/ IsDroppedUncommitted(ent'[x])
      BY <1>d, Zenon DEF HasDropped, IsDroppedUncommitted, HasActiveTxn, Unset
    <2> QED
      BY <1>0, <1>a, <1>c, <2>1, NameKept, Zenon DEF mgrVars
  <1>11. DiesOnlyAfterRollback'
    BY <1>a, Zenon DEF DiesOnlyAfterRollback
  <1>12. UndoInv'
    BY <1>0, <1>a, UndoKept, Zenon DEF mgrVars
  <1>13. BornInv'
    BY <1>c, <1>d, <1>e, Zenon DEF BornInv, HasActiveTxn, HasCreated, Unset
  <1> QED
    BY <1>1, <1>2, <1>3, <1>4, <1>5, <1>6, <1>7, <1>8, <1>9, <1>10, <1>11, <1>12, <1>13, Zenon

-----------------------------------------------------------------------------
(* Steps that release an entry.                                            *)

\* The writer of one entry lets go of it, or leaves it as it is.
Releases(id) ==
    /\ KeysKept /\ ent' \in Seq(EntryRec)
    /\ \A x \in Ids \ {id} : ent'[x] = ent[x]
    /\ ent'[id].createAt = ent[id].createAt /\ ent'[id].deleteAt = ent[id].deleteAt
    /\ ent'[id] = ent[id] \/ ent'[id].txn = NoTxn

\* A release takes away no timestamp, and nothing from a transaction that owns
\* its entries.
LEMMA ReleaseKeeps ==
    ASSUME StoreInv, NEW id \in Ids, Releases(id),
           NEW t \in Txns, ent[id].txn = t, client[t] # "open", ~Owns(t),
           UNCHANGED <<mgrVars, store, req, reads>>,
           todo' \subseteq todo, applying' \subseteq applying,
           todo' = todo \/ state[prep.txn] = "Rollbacking",
           prep.pc = "prepareRollback" => \A j \in todo' : j.id # id,
           \A j \in applying' : j.id # id
    PROVE  /\ PhaseInv' /\ OwnInv' /\ StampInv' /\ PreparedInv' /\ CheckInv'
           /\ FoundInv' /\ ReadInv'
  <1> USE DEF StoreInv
  <1>a. /\ UNCHANGED <<tsAlloc, state, startTS, commitTS, op, client, prep, comm>>
    BY Zenon DEF mgrVars
  <1>b. \A x \in Ids : /\ ent'[x].createAt = ent[x].createAt /\ ent'[x].deleteAt = ent[x].deleteAt
                       /\ ent'[x] = ent[x] \/ (x = id /\ ent'[x].txn = NoTxn)
    BY Zenon DEF Releases
  <1>c. \A x \in Ids, u \in Txns : ent'[x].txn = u => ent'[x] = ent[x]
    BY <1>b, ConstantsAssumption, Zenon
  <1>d. Ids' = Ids /\ \A u \in Txns : CreatedBy(u)' = CreatedBy(u) /\ DroppedBy(u)' = DroppedBy(u)
                          /\ WrittenBy(u)' = WrittenBy(u)
    BY Zenon DEF Ids, Releases, KeysKept, CreatedBy, DroppedBy, WrittenBy
  <1>e. \A x \in Ids : IsDB(x)' <=> IsDB(x)
    BY Zenon DEF IsDB, Releases, KeysKept
  <1>f. \A x \in Ids : ent'[x] \in EntryRec
    BY <1>d DEF Releases, Ids
  <1>g. \A x \in Ids : ent'[x].txn # NoTxn => ent'[x] = ent[x] /\ ent[x].txn # NoTxn
    BY <1>b, Zenon
  <1>1. PhaseInv'
    BY <1>a, StoreCallShrinks, Zenon
  <1>2. OwnInv'
    <2>1. \A u \in Txns : Owns(u)' <=> Owns(u)
      BY <1>a, Zenon DEF Owns
    <2>2. (\A x \in Ids, u \in Txns : ent[x].txn = u =>
             IF ent[x].op = "SoftDelete" THEN x \in DroppedBy(u) \/ IsDB(x)
                                         ELSE x \in CreatedBy(u) \ DroppedBy(u))'
      BY <1>c, <1>d, <1>e DEF OwnInv
    <2>3. ASSUME NEW u \in Txns, Owns(u), NEW x \in WrittenBy(u) PROVE ent'[x].txn = u
      <3>1. x \in Ids /\ ent[x].txn = u
        BY <2>3, WrittenIds, Zenon DEF OwnInv
      <3>2. x # id
        BY <2>3, <3>1, Zenon
      <3> QED
        BY <1>b, <3>1, <3>2, Zenon
    <2>4. (comm.pc = "apply" => \A j \in applying : ent[j.id].txn = comm.txn)'
      <3>1. \A j \in applying' : j.id \in Ids
        BY ApplyItemFacts, Zenon
      <3> QED
        BY <1>a, <1>b, <3>1, Zenon DEF OwnInv
    <2>5. (prep.pc = "prepareRollback" => \A j \in todo : ent[j.id].txn = prep.txn)'
      <3>1. prep.pc = "prepareRollback" => \A j \in todo' : j.id \in Ids
        BY RollbackItemFacts, Zenon
      <3> QED
        BY <1>a, <1>b, <3>1, Zenon DEF OwnInv
    <2> QED
      BY <1>d, <2>1, <2>2, <2>3, <2>4, <2>5, Zenon DEF OwnInv
  <1>3. StampInv'
    <2>1. (/\ tsAlloc >= PrevTs
           /\ \A u \in Txns : commitTS[u] # UncommitTS => commitTS[u] > PrevTs
           /\ \A u \in Txns : startTS[u] # 0 => startTS[u] > PrevTs
           /\ \A x \in Ids : ent[x].createAt <= tsAlloc /\ ent[x].deleteAt <= tsAlloc)'
      BY <1>a, <1>b, <1>d, Zenon DEF StampInv
    <2>2. (/\ \A x \in Ids :
                 \/ ent[x].createAt = PrevTs
                 \/ \E u \in Txns : x \in CreatedBy(u) /\ ent[x].createAt \in {Unset, commitTS[u]}
           /\ \A x \in Ids : ent[x].createAt = PrevTs => \A u \in Txns : x \notin CreatedBy(u)
           /\ \A u, v \in Txns : u # v => CreatedBy(u) \cap CreatedBy(v) = {})'
      BY <1>a, <1>b, <1>d DEF StampInv
    <2>3. (\A x \in Ids : HasActiveTxn(ent[x]) /\ HasDropped(ent[x])
              => ent[x].deleteAt = commitTS[ent[x].txn])'
      BY <1>a, <1>d, <1>g, Zenon DEF StampInv, HasActiveTxn, HasDropped
    <2>4. (\A u \in Txns : \A x \in DroppedBy(u) : x \in CreatedBy(u) \/ HasCreated(ent[x]))'
      <3>1. \A u \in Txns : \A x \in DroppedBy(u) : x \in Ids /\ (x \in CreatedBy(u) \/ HasCreated(ent[x]))
        BY WrittenIds, Zenon DEF StampInv
      <3> QED
        BY <1>b, <1>d, <3>1, Zenon DEF HasCreated
    <2>5. StampedWillCommit'
      BY <1>a, <1>b, <1>d, Zenon DEF StampInv, StampedWillCommit
    <2>6. (prep.pc = "prepareCommit" /\ (\E i \in todo : i.rank <= CheckRank) =>
             \A x \in Ids : commitTS[prep.txn] \notin {ent[x].createAt, ent[x].deleteAt})'
      BY <1>a, <1>b, <1>d, Zenon DEF StampInv
    <2> QED
      BY <2>1, <2>2, <2>3, <2>4, <2>5, <2>6, Zenon DEF StampInv
  <1>4. PreparedInv'
    <2>1. \A u \in Txns : \A r, x : PreparedItem(u, r, x)' => PreparedItem(u, r, x)
      BY <1>a, Zenon DEF PreparedItem
    <2>2. \A u \in Txns : store[u].created \cup store[u].dropped \subseteq Ids
                          /\ (store[u].createEntry # Nil => store[u].createEntry \in Ids)
                          /\ (store[u].dropEntry # Nil => store[u].dropEntry \in Ids)
      BY Zenon DEF CatTypeInv, TableIds, Databases
    <2> SUFFICES ASSUME NEW u \in Txns, NEW c, c = store[u].createEntry,
                        NEW d, d = store[u].dropEntry
        PROVE  /\ \A x \in store[u].dropped : PreparedItem(u, TableRank, x)' => ent'[x].deleteAt = commitTS[u]
               /\ \A x \in store[u].created : PreparedItem(u, TableRank, x)' => ent'[x].createAt = commitTS[u]
               /\ d # Nil /\ PreparedItem(u, DropRank, d)' => ent'[d].deleteAt = commitTS[u]
               /\ c # Nil /\ PreparedItem(u, CreateRank, c)' =>
                     /\ ent'[c].createAt = commitTS[u]
                     /\ ent'[c].op = "SoftDelete" /\ ent'[c].txn = u => ent'[c].deleteAt = commitTS[u]
      BY <1>a DEF PreparedInv, PreparedItem
    <2>3. /\ \A x \in store[u].dropped : PreparedItem(u, TableRank, x) => ent[x].deleteAt = commitTS[u]
          /\ \A x \in store[u].created : PreparedItem(u, TableRank, x) => ent[x].createAt = commitTS[u]
      BY Zenon DEF PreparedInv
    <2>4. /\ d # Nil /\ PreparedItem(u, DropRank, d) => ent[d].deleteAt = commitTS[u]
          /\ c # Nil /\ PreparedItem(u, CreateRank, c) =>
                /\ ent[c].createAt = commitTS[u]
                /\ ent[c].op = "SoftDelete" /\ ent[c].txn = u => ent[c].deleteAt = commitTS[u]
      BY Zenon DEF PreparedInv
    <2>5. /\ \A x \in store[u].dropped : PreparedItem(u, TableRank, x)' => ent'[x].deleteAt = commitTS[u]
          /\ \A x \in store[u].created : PreparedItem(u, TableRank, x)' => ent'[x].createAt = commitTS[u]
      BY <1>b, <2>1, <2>2, <2>3, Zenon
    <2>6. /\ d # Nil /\ PreparedItem(u, DropRank, d)' => ent'[d].deleteAt = commitTS[u]
          /\ c # Nil /\ PreparedItem(u, CreateRank, c)' =>
                /\ ent'[c].createAt = commitTS[u]
                /\ ent'[c].op = "SoftDelete" /\ ent'[c].txn = u => ent'[c].deleteAt = commitTS[u]
      BY <1>b, <1>c, <2>1, <2>2, <2>4, Zenon
    <2> QED
      BY <2>5, <2>6, Zenon
  <1>5. CheckInv'
    <2> SUFFICES ASSUME NEW u \in Txns, NEW x \in store[u].symTable, CheckDone(u, x)'
                 PROVE  ~(ent'[x].deleteAt # 0 /\ ent'[x].deleteAt < commitTS[u])
      BY <1>a, Zenon DEF CheckInv, DeleteBefore, HasDropped, Unset
    <2>1. CheckDone(u, x)
      BY <1>a, Zenon DEF CheckDone
    <2>2. x \in Ids
      BY Zenon DEF CatTypeInv
    <2> QED
      BY <1>b, <2>1, <2>2, Zenon DEF CheckInv, DeleteBefore, HasDropped, Unset
  <1>6. FoundInv'
    <2> SUFFICES ASSUME NEW u \in Txns, req[u].pc = "drop"
                 PROVE  \/ ent'[req[u].found].txn = u /\ ent'[req[u].found].op = "Create"
                        \/ CreateBefore(ent'[req[u].found], startTS[u])
      BY <1>a, Zenon DEF FoundInv, CreateBefore, HasCreated
    <2>1. req[u].found \in Ids /\ client[u] = "open"
      BY Zenon DEF CallInv
    <2>2. \/ ent[req[u].found].txn = u /\ ent[req[u].found].op = "Create"
          \/ CreateBefore(ent[req[u].found], startTS[u])
      BY Zenon DEF FoundInv
    <2> QED
      BY <1>b, <2>1, <2>2, Zenon DEF CreateBefore, HasCreated
  <1>7. ReadInv'
    <2> SUFFICES ASSUME NEW u \in Txns, NEW r \in reads[u], r.id # Nil
                 PROVE  /\ r.id \in CreatedBy(u) \/ CreateBefore(ent'[r.id], startTS[u])
                        /\ ~DeleteBefore(ent'[r.id], startTS[u])
                        /\ HasActiveTxn(ent'[r.id]) /\ ~HasDropped(ent'[r.id])
                              /\ ent'[r.id].op = "SoftDelete" =>
                                 (state[ent'[r.id].txn] = "Committing"
                                     => commitTS[ent'[r.id].txn] > startTS[u])
      BY <1>a, <1>d, Zenon DEF ReadInv, ReadsFromSnapshot, CreateBefore, HasCreated,
                        DeleteBefore, HasDropped, HasActiveTxn, Unset
    <2>1. r.id \in Ids
      BY Zenon DEF CatTypeInv
    <2>2. /\ r.id \in CreatedBy(u) \/ CreateBefore(ent[r.id], startTS[u])
          /\ ~DeleteBefore(ent[r.id], startTS[u])
      BY Zenon DEF ReadInv, ReadsFromSnapshot
    <2>3. HasActiveTxn(ent[r.id]) /\ ~HasDropped(ent[r.id]) /\ ent[r.id].op = "SoftDelete" =>
             (state[ent[r.id].txn] = "Committing" => commitTS[ent[r.id].txn] > startTS[u])
      BY Zenon DEF ReadInv
    <2>4. /\ r.id \in CreatedBy(u) \/ CreateBefore(ent'[r.id], startTS[u])
          /\ ~DeleteBefore(ent'[r.id], startTS[u])
      BY <1>b, <2>1, <2>2, Zenon DEF CreateBefore, HasCreated, DeleteBefore, HasDropped
    <2> QED
      BY <1>g, <2>1, <2>3, <2>4, Zenon DEF HasActiveTxn
  <1> QED
    BY <1>1, <1>2, <1>3, <1>4, <1>5, <1>6, <1>7, Zenon

\* A released entry still answers for its own id only.
LEMMA ReleasedFields ==
    ASSUME StoreInv, NEW id \in Ids, NEW d \in EntryRec,
           d.host = ent[id].host, d.name = ent[id].name, d.txn = NoTxn,
           d.createAt = ent[id].createAt, d.deleteAt = ent[id].deleteAt,
           ent' = ent \/ ent' = [ent EXCEPT ![id] = d]
    PROVE  Releases(id) /\ (ent' = [ent EXCEPT ![id] = d] => ent'[id] = d)
  <1>1. ent \in Seq(EntryRec)
    BY Zenon DEF StoreInv, CatTypeInv
  <1>2. CASE ent' = ent
    BY <1>1, <1>2 DEF Releases, KeysKept, Ids
  <1>3. CASE ent' = [ent EXCEPT ![id] = d]
    <2>1. /\ ent' \in Seq(EntryRec) /\ Len(ent') = Len(ent)
          /\ ent'[id] = d /\ \A x \in Ids \ {id} : ent'[x] = ent[x]
      BY <1>1, <1>3 DEF Ids
    <2> QED
      BY <2>1, Zenon DEF Releases, KeysKept
  <1> QED
    BY <1>2, <1>3, Zenon

\* BaseEntry.ApplyCommit releases an entry that carries its timestamps.
LEMMA ApplyEntryStoreInv ==
    ASSUME StoreInv, IndInv', panic = "none", NEW i \in applying, ApplyEntry(i)
    PROVE  StoreInv'
  <1> USE DEF StoreInv
  <1> DEFINE t == comm.txn
             id == i.id
             e == ent[id]
  <1>0. /\ t \in Txns /\ state[t] = "Committing" /\ comm.pc = "apply" /\ id \in Ids
        /\ i = Item(i.rank, id) /\ i.rank \in {CreateRank, TableRank}
        /\ i.rank = CreateRank => id = store[t].createEntry /\ id \in Databases
        /\ i.rank = TableRank => id \in Tables(t) /\ id \in TableIds
    BY ApplyItemFacts, Zenon
  <1>a. /\ UNCHANGED <<mgrVars, nodes, link, store, req, calls, pending, reads, panic, todo>>
        /\ applying' = applying \ {i}
        /\ ent' = [ent EXCEPT ![id] = IF CreateAndDropInSameTxn(e) /\ i.rank = TableRank
                                        THEN e ELSE EntryApplyCommit(e)]
    BY Zenon DEF ApplyEntry
  <1>b. e.txn = t /\ ~Owns(t) /\ client[t] # "open"
    BY <1>0, Zenon DEF OwnInv, Owns, IndInv, ClientInv
  <1>c. \A r, x : ~(prep.txn = t /\ Item(r, x) \in todo)
    <2>1. prep.txn = t => prep.pc \notin {"prepareCommit", "prepareRollback"}
      <3>1. t # NoTxn /\ commitTS[t] \in Nat
        BY <1>0, TimeTypes, ConstantsAssumption, Zenon
      <3> QED
        BY <3>1 DEF IndInv, OrderInv, Stamped
    <2> QED
      BY <2>1, Zenon DEF PhaseInv
  <1>d. /\ Releases(id)
        /\ i.rank = TableRank => ent'[id].txn = NoTxn \/ (ent'[id] = e /\ CreateAndDropInSameTxn(e))
    <2>1. e \in EntryRec /\ ent \in Seq(EntryRec)
      BY <1>0, EntTypes, Zenon DEF CatTypeInv
    <2> DEFINE d == EntryApplyCommit(e)
    <2>2. /\ d \in EntryRec /\ d.host = e.host /\ d.name = e.name /\ d.txn = NoTxn
          /\ d.createAt = e.createAt /\ d.deleteAt = e.deleteAt
      BY <2>1, AppliedFields, Zenon
    <2>3. \/ ent' = ent /\ CreateAndDropInSameTxn(e)
          \/ ent' = [ent EXCEPT ![id] = d]
      <3>1. CASE CreateAndDropInSameTxn(e) /\ i.rank = TableRank
        BY <1>a, <2>1, <3>1
      <3>2. CASE ~(CreateAndDropInSameTxn(e) /\ i.rank = TableRank)
        BY <1>a, <3>2, Zenon
      <3> QED
        BY <3>1, <3>2, Zenon
    <2> HIDE DEF d
    <2>4. Releases(id) /\ (ent' = [ent EXCEPT ![id] = d] => ent'[id] = d)
      BY <1>0, <2>2, <2>3, ReleasedFields, Zenon
    <2> QED
      BY <2>2, <2>3, <2>4, Zenon
  <1>e. \A j \in applying' : j.id # id
    <2> SUFFICES ASSUME NEW j \in applying, j # i, j.id = id PROVE FALSE
      BY <1>a, Zenon
    <2>1. /\ j = Item(j.rank, j.id) /\ j.rank \in {CreateRank, TableRank}
          /\ j.rank = CreateRank => j.id \in Databases
          /\ j.rank = TableRank => j.id \in TableIds
      BY ApplyItemFacts, Zenon
    <2> QED
      BY <1>0, <2>1, Zenon DEF Databases, TableIds
  <1>f. prep.pc = "prepareRollback" => \A j \in todo' : j.id # id
    <2>1. ASSUME prep.pc = "prepareRollback", NEW j \in todo PROVE j.id # id
      <3>1. ent[j.id].txn = prep.txn /\ j = Item(j.rank, j.id)
        BY <2>1, RollbackItemFacts, Zenon DEF OwnInv
      <3> QED
        BY <1>b, <1>c, <2>1, <3>1, Zenon
    <2> QED
      BY <1>a, <2>1, Zenon
  <1> HIDE DEF t, id, e
  <1>1. /\ PhaseInv' /\ OwnInv' /\ StampInv' /\ PreparedInv' /\ CheckInv' /\ FoundInv' /\ ReadInv'
    BY <1>0, <1>a, <1>b, <1>d, <1>e, <1>f, ReleaseKeeps, Zenon DEF e
  <1>2. CatTypeInv' /\ IndexInv' /\ CallInv' /\ SymbolInv'
    BY <1>a, <1>d, EntryStepKeepsCatalog, Zenon DEF mgrVars, Releases
  <1>3. UndoInv'
    BY <1>a, <1>d, UndoKept, Zenon DEF mgrVars, Releases
  <1>4. \A x \in Ids : ent'[x] = ent[x] \/ (x = id /\ ent'[x].txn = NoTxn)
    BY <1>d, Zenon DEF Releases
  <1>5. NameInv'
    <2>1. IsDroppedUncommitted(e) => HasDropped(e)
      <3> SUFFICES ASSUME e.op = "SoftDelete" PROVE e.deleteAt # 0
        BY Zenon DEF IsDroppedUncommitted, HasDropped, Unset
      <3>0. commitTS[t] # 0
        BY <1>0, TimeTypes, Zenon
      <3>1. \A r : PreparedItem(t, r, id)
        BY <1>0, <1>c, Zenon DEF PreparedItem
      <3>2. CASE i.rank = CreateRank
        <4>1. store[t].createEntry = id /\ id # Nil
          BY <1>0, <3>2, EntTypes, Zenon DEF Nil
        <4> QED
          BY <1>0, <1>b, <3>0, <3>1, <4>1, Zenon DEF PreparedInv, e
      <3>3. CASE i.rank = TableRank
        <4>1. id \in DroppedBy(t) /\ ~IsDB(id)
          BY <1>0, <1>b, <3>3, Zenon DEF OwnInv, TableIds, e
        <4>2. id \in store[t].dropped
          BY <1>0, <4>1, Zenon DEF DroppedBy, CatTypeInv, Databases
        <4> QED
          BY <1>0, <3>0, <3>1, <4>2, Zenon DEF PreparedInv, e
      <3> QED
        BY <1>0, <3>2, <3>3, Zenon
    <2>2. \A x \in Ids : ent'[x].deleteAt = ent[x].deleteAt
      BY <1>d, Zenon DEF Releases
    <2>3. \A x \in Ids : HasDropped(ent[x]) \/ IsDroppedUncommitted(ent[x]) =>
             HasDropped(ent'[x]) \/ IsDroppedUncommitted(ent'[x])
      BY <1>4, <2>1, <2>2, Zenon DEF HasDropped, e
    <2>4. \A u \in Txns : DroppedBy(u)' = DroppedBy(u)
      BY <1>a, Zenon DEF DroppedBy
    <2> QED
      BY <1>a, <1>d, <2>3, <2>4, NameKept, Zenon DEF mgrVars, Releases
  <1>6. ReleaseInv'
    <2>1. \A u \in Txns : Tables(u)' = Tables(u) /\ CreatedBy(u)' = CreatedBy(u) /\ Tables(u) \subseteq Ids
      BY <1>a, Zenon DEF CatTypeInv, Tables, CreatedBy, TableIds
    <2>2. \A x \in Ids : Listed(x)' <=> Listed(x)
      BY <1>a, <1>d, Zenon DEF Listed, Key, Releases, KeysKept
    <2>3. ASSUME NEW u \in Txns, NEW x \in Tables(u), ApplyDone(u, x)'
          PROVE  ent'[x].txn # u \/ (ent'[x].createAt # 0 /\ ent'[x].createAt = ent'[x].deleteAt)
      <3>1. CASE ApplyDone(u, x)
        <4>1. ent[x].txn # u \/ (ent[x].createAt # 0 /\ ent[x].createAt = ent[x].deleteAt)
          BY <3>1, Zenon DEF ReleaseInv, CreateAndDropInSameTxn, HasCreated, Unset
        <4> QED
          BY <1>4, <2>1, <4>1, ConstantsAssumption, Zenon
      <3>2. CASE ~ApplyDone(u, x)
        <4>1. Item(TableRank, x) = i
          BY <1>a, <2>3, <3>2, Zenon DEF ApplyDone, mgrVars
        <4>2. x = id /\ i.rank = TableRank
          BY <4>1, Zenon DEF Item, id
        <4> QED
          BY <1>d, <4>2, ConstantsAssumption, Zenon DEF CreateAndDropInSameTxn, HasCreated, Unset
      <3> QED
        BY <3>1, <3>2, Zenon
    <2>4. ASSUME NEW u \in Txns, NEW x \in Tables(u), UndoDone(u, x)'
          PROVE  ent'[x].txn # u /\ (x \in CreatedBy(u) => ~Listed(x)')
      <3>1. UndoDone(u, x)
        BY <1>a, <2>4, Zenon DEF UndoDone, mgrVars
      <3>2. ent[x].txn # u /\ (x \in CreatedBy(u) => ~Listed(x))
        BY <3>1, Zenon DEF ReleaseInv
      <3> QED
        BY <1>4, <2>1, <2>2, <3>2, ConstantsAssumption, Zenon
    <2> QED
      BY <2>1, <2>3, <2>4, Zenon DEF ReleaseInv, CreateAndDropInSameTxn, HasCreated, Unset
  <1>7. DiesOnlyAfterRollback'
    BY <1>a, Zenon DEF DiesOnlyAfterRollback
  <1>8. BornInv'
    <2>1. \A r : PreparedItem(t, r, id)
      BY <1>0, <1>c, Zenon DEF PreparedItem
    <2>2. commitTS[t] # 0
      BY <1>0, TimeTypes, Zenon
    <2>3. id \in CreatedBy(t) => e.createAt # 0
      BY <1>0, <2>1, <2>2, Zenon DEF PreparedInv, CreatedBy, e
    <2>4. id \in WrittenBy(t)
      <3>1. id # Nil
        BY <1>0, EntTypes, Zenon DEF Nil
      <3> QED
        BY <1>0, <3>1, Zenon DEF WrittenBy, CreatedBy, DroppedBy, Tables
    <2>5. e.createAt # 0
      BY <1>0, <2>3, <2>4, Zenon DEF StampInv, WrittenBy, HasCreated, Unset, e
    <2>6. \A x \in Ids : (Listed(x)' <=> Listed(x)) /\ ent'[x].createAt = ent[x].createAt
      BY <1>a, <1>d, Zenon DEF Listed, Key, Releases, KeysKept
    <2>7. Ids' = Ids
      BY <1>d, Zenon DEF Ids, Releases, KeysKept
    <2> QED
      BY <1>4, <2>5, <2>6, <2>7, Zenon DEF BornInv, HasActiveTxn, HasCreated, Unset, e
  <1> QED
    BY <1>1, <1>2, <1>3, <1>5, <1>6, <1>7, <1>8, Zenon

-----------------------------------------------------------------------------
(* Rolling an entry back.                                                  *)

\* What txnStore.PrepareRollback and txnTable.PrepareRollback do to one entry
\* of the transaction that is rolled back.
LEMMA RollbackEntryFacts ==
    ASSUME StoreInv, NEW i \in todo, RollbackEntry(i)
    PROVE  LET t == prep.txn
               id == i.id
           IN  /\ t \in Txns /\ state[t] = "Rollbacking" /\ id \in Ids /\ i = Item(i.rank, id)
               /\ ent[id].txn = t /\ ~Owns(t) /\ client[t] # "open"
               /\ Releases(id)
               /\ IsDB(id) => ent' = ent
               /\ i.rank = TableRank => id \in Tables(t) /\ ~IsDB(id) /\ ent'[id].txn = NoTxn
               /\ id \in CreatedBy(t) => Listed(id) /\ RemoveEntry(id) /\ CanLock(ent[id].host)
               /\ id \notin CreatedBy(t) => UNCHANGED <<nodes, link>> /\ id \in DroppedBy(t)
               /\ panic' = IF IsDB(id) /\ id \notin CreatedBy(t) THEN "nilCreateEntry" ELSE panic
               /\ IsDB(id) /\ id \notin CreatedBy(t) =>
                     store[t].dropEntry # Nil /\ store[t].createEntry = Nil
               /\ \A j \in todo : j # i => j.id # id
               /\ \A j \in applying : j.id # id
  <1> USE DEF StoreInv
  <1> DEFINE t == prep.txn
             id == i.id
             e == ent[id]
  <1>a. /\ prep.pc = "prepareRollback"
        /\ IsCreated(t, id) => CanLock(e.host)
        /\ IF IsCreated(t, id) THEN RemoveEntry(id) ELSE UNCHANGED <<nodes, link>>
        /\ ent' = IF IsDB(id) THEN ent ELSE [ent EXCEPT ![id] = EntryPrepareRollback(e)]
        /\ panic' = IF IsDB(id) /\ ~IsCreated(t, id) THEN "nilCreateEntry" ELSE panic
    BY Zenon DEF RollbackEntry
  <1>0. /\ t \in Txns /\ state[t] = "Rollbacking" /\ id \in Ids
        /\ i = Item(i.rank, id) /\ i.rank \in {CreateRank, TableRank}
        /\ i.rank = CreateRank =>
              /\ id \in Databases
              /\ id = IF store[t].createEntry # Nil THEN store[t].createEntry ELSE store[t].dropEntry
        /\ i.rank = TableRank => id \in Tables(t) /\ id \in TableIds
    BY <1>a, RollbackItemFacts, Zenon
  <1>1. e.txn = t /\ ~Owns(t) /\ client[t] # "open"
    BY <1>0, <1>a, Zenon DEF OwnInv, Owns, IndInv, ClientInv
  <1>2. IsCreated(t, id) <=> id \in CreatedBy(t)
    <2>1. id # Nil
      BY <1>0, EntTypes, Zenon DEF Nil
    <2> QED
      BY <2>1, Zenon DEF IsCreated, CreatedBy
  <1>3. id \in CreatedBy(t) => Listed(id)
    BY <1>a, Zenon DEF UndoInv
  <1>4. (i.rank = CreateRank <=> IsDB(id)) /\ (i.rank = TableRank <=> ~IsDB(id))
    BY <1>0, Zenon DEF Databases, TableIds
  <1>5. Releases(id) /\ (i.rank = TableRank => ent'[id].txn = NoTxn)
    <2>1. e \in EntryRec
      BY <1>0, EntTypes, Zenon
    <2> DEFINE d == EntryPrepareRollback(e)
    <2>2. /\ d \in EntryRec /\ d.host = e.host /\ d.name = e.name /\ d.txn = NoTxn
          /\ d.createAt = e.createAt /\ d.deleteAt = e.deleteAt
      BY <2>1, RolledBackFields, Zenon
    <2> HIDE DEF d
    <2>3. (IsDB(id) /\ ent' = ent) \/ (~IsDB(id) /\ ent' = [ent EXCEPT ![id] = d])
      BY <1>a, Zenon DEF d
    <2>4. Releases(id) /\ (ent' = [ent EXCEPT ![id] = d] => ent'[id] = d)
      BY <1>0, <2>2, <2>3, ReleasedFields, Zenon
    <2> QED
      BY <1>4, <2>2, <2>3, <2>4, Zenon
  <1>6. id \notin CreatedBy(t) =>
           id \in DroppedBy(t) /\ (IsDB(id) => store[t].dropEntry # Nil /\ store[t].createEntry = Nil)
    <2>1. id # Nil
      BY <1>0, EntTypes, Zenon DEF Nil
    <2> QED
      BY <1>0, <1>4, <2>1, Zenon DEF CreatedBy, DroppedBy, Tables
  <1>7. \A j \in todo : j # i => j.id # id
    <2> SUFFICES ASSUME NEW j \in todo, j # i, j.id = id PROVE FALSE
      BY Zenon
    <2>1. /\ j = Item(j.rank, j.id) /\ j.rank \in {CreateRank, TableRank}
          /\ j.rank = CreateRank => j.id \in Databases
          /\ j.rank = TableRank => j.id \in TableIds
      BY <1>a, RollbackItemFacts, Zenon
    <2> QED
      BY <1>0, <2>1, Zenon DEF Databases, TableIds
  <1>8. \A j \in applying : j.id # id
    <2> SUFFICES ASSUME NEW j \in applying, j.id = id PROVE FALSE
      BY Zenon
    <2>1. state[comm.txn] = "Committing" /\ comm.pc = "apply"
      BY ApplyItemFacts, Zenon
    <2>2. ent[j.id].txn = comm.txn
      BY <2>1, Zenon DEF OwnInv
    <2> QED
      BY <1>0, <1>1, <2>1, <2>2, Zenon
  <1> QED
    BY <1>0, <1>1, <1>2, <1>3, <1>4, <1>5, <1>6, <1>7, <1>8, <1>a, Zenon

\* Rolling an entry back: what the transaction created is gone, what it dropped
\* comes back without a writer.
LEMMA RollbackEntryStoreInv ==
    ASSUME StoreInv, IndInv', panic = "none", NEW i \in todo, RollbackEntry(i)
    PROVE  StoreInv'
  <1> USE DEF StoreInv
  <1> DEFINE t == prep.txn
             id == i.id
  <1>0. /\ t \in Txns /\ state[t] = "Rollbacking" /\ id \in Ids /\ i = Item(i.rank, id)
        /\ ent[id].txn = t /\ ~Owns(t) /\ client[t] # "open"
        /\ Releases(id)
        /\ IsDB(id) => ent' = ent
        /\ i.rank = TableRank => id \in Tables(t) /\ ~IsDB(id) /\ ent'[id].txn = NoTxn
        /\ id \in CreatedBy(t) => Listed(id) /\ RemoveEntry(id) /\ CanLock(ent[id].host)
        /\ id \notin CreatedBy(t) => UNCHANGED <<nodes, link>> /\ id \in DroppedBy(t)
        /\ panic' = IF IsDB(id) /\ id \notin CreatedBy(t) THEN "nilCreateEntry" ELSE panic
        /\ IsDB(id) /\ id \notin CreatedBy(t) =>
              store[t].dropEntry # Nil /\ store[t].createEntry = Nil
        /\ \A j \in todo : j # i => j.id # id
        /\ \A j \in applying : j.id # id
    BY RollbackEntryFacts, Zenon
  <1>a. /\ UNCHANGED <<mgrVars, store, req, calls, reads, applying>>
        /\ todo' = todo \ {i} /\ prep.pc = "prepareRollback"
    BY Zenon DEF RollbackEntry
  <1>b. /\ KeysKept /\ ent' \in Seq(EntryRec)
        /\ \A x \in Ids : ent'[x] = ent[x] \/ (x = id /\ ent'[x].txn = NoTxn)
        /\ \A x \in Ids : ent'[x].deleteAt = ent[x].deleteAt
    BY <1>0, Zenon DEF Releases
  <1>c. \A u \in Txns : Tables(u)' = Tables(u) /\ CreatedBy(u)' = CreatedBy(u)
                           /\ DroppedBy(u)' = DroppedBy(u) /\ Tables(u) \subseteq Ids
    BY <1>a, Zenon DEF CatTypeInv, Tables, CreatedBy, DroppedBy, TableIds
  <1> HIDE DEF t, id
  <1>1. /\ PhaseInv' /\ OwnInv' /\ StampInv' /\ PreparedInv' /\ CheckInv' /\ FoundInv' /\ ReadInv'
    BY <1>0, <1>a, ReleaseKeeps, Zenon DEF t
  <1>2. CatTypeInv' /\ SymbolInv' /\ Ids' = Ids /\ \A x \in Ids : Key(x)' = Key(x)
    BY <1>a, <1>b, EntryStepKeepsTypes, Zenon
  <1>3. IndexInv' /\ \A x \in Ids : Listed(x)' <=> Listed(x) /\ ~(x = id /\ id \in CreatedBy(t))
    <2>1. CASE id \in CreatedBy(t)
      BY <1>0, <1>a, <1>b, <2>1, RemoveEntryIndexInv, Zenon DEF mgrVars
    <2>2. CASE id \notin CreatedBy(t)
      <3>1. IndexInv'
        BY <1>0, <1>a, <1>b, <1>c, <2>2, IndexKept, Zenon DEF mgrVars
      <3> QED
        BY <1>0, <1>2, <2>2, <3>1, Zenon DEF Listed
    <2> QED
      BY <2>1, <2>2, Zenon
  <1>4. CallInv'
    <2> SUFFICES ASSUME NEW u \in Txns, req[u].pc \in {"waited", "writeWaited"}
                 PROVE  NodeList(req[u].host, req[u].name)' = NodeList(req[u].host, req[u].name)
      BY <1>a, <1>b, EntryStepKeepsCalls, Zenon DEF mgrVars
    <2>1. CASE id \in CreatedBy(t)
      <3>1. req[u].host # ent[id].host
        BY <1>0, <2>1, Zenon DEF CanLock, Holders
      <3>2. <<req[u].host, req[u].name>> # Key(id)
        BY <3>1, Zenon DEF Key
      <3>3. /\ DOMAIN nodes' = DOMAIN nodes
            /\ \A k \in DOMAIN nodes : k # Key(id) => nodes'[k] = nodes[k]
        BY <1>0, <2>1, RemoveFromNodes, Zenon
      <3> QED
        BY <1>a, <3>2, <3>3, Zenon DEF NodeList
    <2>2. CASE id \notin CreatedBy(t)
      BY <1>0, <1>a, <2>2, Zenon DEF NodeList
    <2> QED
      BY <2>1, <2>2, Zenon
  <1>5. NameInv'
    <2>u. \A k : UndoneDrop(k) => UndoneDrop(k)'
      <3>1. \A u \in Txns : DroppedBy(u) \subseteq Ids
        BY WrittenIds, Zenon
      <3> QED
        BY <1>a, <1>2, <1>c, <3>1, Zenon DEF UndoneDrop, mgrVars
    <2>1. CASE id \in CreatedBy(t)
      <3>1. /\ DOMAIN nodes' = DOMAIN nodes
            /\ \A k \in DOMAIN nodes :
                  /\ nodes'[k] \in Seq(Ids)
                  /\ \A j \in 1..Len(nodes'[k]) :
                        \E a \in 1..Len(nodes[k]) : a >= j /\ nodes'[k][j] = nodes[k][a]
            /\ \A k \in DOMAIN nodes : \A x \in Ids :
                  (\E j \in 1..Len(nodes'[k]) : nodes'[k][j] = x)
                      <=> x # id /\ (\E j \in 1..Len(nodes[k]) : nodes[k][j] = x)
        BY <1>0, <2>1, RemoveFromNodes, Zenon
      <3> SUFFICES ASSUME NEW k \in DOMAIN nodes, NEW j \in 2..Len(nodes'[k])
                   PROVE  \/ HasDropped(ent'[nodes'[k][j]]) \/ IsDroppedUncommitted(ent'[nodes'[k][j]])
                          \/ UndoneDrop(k)'
        BY <3>1, Zenon DEF NameInv, HasDropped, IsDroppedUncommitted, HasActiveTxn
      <3>2. Len(nodes'[k]) \in Nat /\ Len(nodes[k]) \in Nat /\ nodes[k] \in Seq(Ids)
        BY <3>1 DEF IndexInv
      <3>3. j \in 1..Len(nodes'[k])
        BY <3>2
      <3>4. PICK a \in 1..Len(nodes[k]) : a >= j /\ nodes'[k][j] = nodes[k][a]
        BY <3>1, <3>3, Zenon
      <3>5. a \in 2..Len(nodes[k]) /\ nodes[k][a] \in Ids
        BY <3>2, <3>4
      <3>6. nodes[k][a] # id
        BY <3>1, <3>3, <3>4, <3>5, Zenon
      <3>7. \/ HasDropped(ent[nodes[k][a]]) \/ IsDroppedUncommitted(ent[nodes[k][a]])
            \/ UndoneDrop(k)
        BY <3>5, Zenon DEF NameInv
      <3>8. ent'[nodes[k][a]] = ent[nodes[k][a]]
        BY <1>b, <3>5, <3>6, Zenon
      <3> QED
        BY <2>u, <3>4, <3>7, <3>8, Zenon
    <2>2. CASE id \notin CreatedBy(t)
      <3>1. UndoneDrop(Key(id))'
        <4>1. UndoneDrop(Key(id))
          BY <1>0, <2>2, Zenon DEF UndoneDrop
        <4>2. Key(id)' = Key(id)
          BY <1>0, <1>2, Zenon
        <4> QED
          BY <2>u, <4>1, <4>2, Zenon DEF UndoneDrop
      <3>2. \A x \in Ids : HasDropped(ent[x]) \/ IsDroppedUncommitted(ent[x]) =>
               \/ HasDropped(ent'[x]) \/ IsDroppedUncommitted(ent'[x]) \/ UndoneDrop(Key(x))'
        BY <1>b, <3>1, Zenon DEF UndoneDrop
      <3> QED
        BY <1>0, <1>a, <1>b, <1>c, <2>2, <3>2, NameKept, Zenon DEF mgrVars
    <2> QED
      BY <2>1, <2>2, Zenon
  <1>6. ReleaseInv'
    <2>3. ASSUME NEW u \in Txns, NEW x \in Tables(u), ApplyDone(u, x)'
          PROVE  ent'[x].txn # u \/ (ent'[x].createAt # 0 /\ ent'[x].createAt = ent'[x].deleteAt)
      <3>1. ApplyDone(u, x)
        BY <1>a, <2>3, Zenon DEF ApplyDone, mgrVars
      <3>2. ent[x].txn # u \/ (ent[x].createAt # 0 /\ ent[x].createAt = ent[x].deleteAt)
        BY <3>1, Zenon DEF ReleaseInv, CreateAndDropInSameTxn, HasCreated, Unset
      <3> QED
        BY <1>b, <1>c, <3>2, ConstantsAssumption, Zenon
    <2>4. ASSUME NEW u \in Txns, NEW x \in Tables(u), UndoDone(u, x)'
          PROVE  ent'[x].txn # u /\ (x \in CreatedBy(u) => ~Listed(x)')
      <3>1. CASE UndoDone(u, x)
        <4>1. ent[x].txn # u /\ (x \in CreatedBy(u) => ~Listed(x))
          BY <3>1, Zenon DEF ReleaseInv
        <4> QED
          BY <1>3, <1>b, <1>c, <4>1, ConstantsAssumption, Zenon
      <3>2. CASE ~UndoDone(u, x)
        <4>1. Item(TableRank, x) = i /\ u = t
          BY <1>a, <2>4, <3>2, Zenon DEF UndoDone, mgrVars, t
        <4>2. x = id /\ i.rank = TableRank
          BY <4>1, Zenon DEF Item, id
        <4> QED
          BY <1>0, <1>3, <4>1, <4>2, ConstantsAssumption, Zenon
      <3> QED
        BY <3>1, <3>2, Zenon
    <2> QED
      BY <1>c, <2>3, <2>4, Zenon DEF ReleaseInv, CreateAndDropInSameTxn, HasCreated, Unset
  <1>7. UndoInv'
    <2> SUFFICES ASSUME NEW j \in todo, j # i, j.id \in CreatedBy(t) PROVE Listed(j.id)'
      BY <1>0, <1>a, <1>c, Zenon DEF UndoInv, mgrVars, t
    <2>1. Listed(j.id) /\ j.id \in Ids
      BY <1>a, RollbackItemFacts, Zenon DEF UndoInv, t
    <2> QED
      BY <1>0, <1>3, <2>1, Zenon
  <1>8. DiesOnlyAfterRollback'
    <2>1. prep' = prep /\ store' = store
      BY <1>a, Zenon DEF mgrVars
    <2> QED
      BY <1>0, <1>a, <2>1, Zenon DEF DiesOnlyAfterRollback, t
  <1>9. BornInv'
    <2>1. id \notin CreatedBy(t) => ent[id].createAt # 0
      BY <1>0, Zenon DEF StampInv, HasCreated, Unset
    <2>2. \A x \in Ids : ent'[x].createAt = ent[x].createAt
      BY <1>0, Zenon DEF Releases
    <2> QED
      BY <1>2, <1>3, <1>b, <2>1, <2>2, Zenon DEF BornInv, HasActiveTxn, HasCreated, Unset
  <1> QED
    BY <1>1, <1>2, <1>3, <1>4, <1>5, <1>6, <1>7, <1>8, <1>9, Zenon
=============================================================================
