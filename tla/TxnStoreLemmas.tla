--------------------------- MODULE TxnStoreLemmas ---------------------------
(***************************************************************************)
(* Lemmas about the catalog composed with the manager: what the operations *)
(* on entries, lists and store calls do, and what a step keeps by leaving  *)
(* things alone.                                                           *)
(***************************************************************************)
EXTENDS TxnStoreInv, TLAPS

-----------------------------------------------------------------------------
(* What the operations of BaseEntry do to the fields of an entry.          *)

\* An entry of the catalog has the fields of BaseEntry.
LEMMA EntryFields ==
    ASSUME NEW e \in EntryRec
    PROVE  /\ e.host \in Nat /\ e.name \in Names /\ e.op \in {"Create", "SoftDelete"}
           /\ e.txn \in Txns \cup {NoTxn} /\ e.prev \in {"None", "Create", "SoftDelete"}
           /\ e.createAt \in Nat /\ e.deleteAt \in Nat
  BY Zenon DEF EntryRec

\* NewEntry is written by its creator and has no timestamp.
LEMMA NewFields ==
    ASSUME NEW h \in Nat, NEW n \in Names, NEW t \in Txns
    PROVE  LET e == NewEntry(h, n, t) IN
           /\ e \in EntryRec
           /\ e.host = h /\ e.name = n /\ e.op = "Create" /\ e.txn = t
           /\ e.createAt = 0 /\ e.deleteAt = 0
  BY Zenon DEF NewEntry, EntryRec, Unset

\* DropEntryLocked makes the caller the writer of a drop.
LEMMA DroppedFields ==
    ASSUME NEW e \in EntryRec, NEW t \in Txns
    PROVE  LET d == EntryDropped(e, t) IN
           /\ d \in EntryRec
           /\ d.host = e.host /\ d.name = e.name /\ d.op = "SoftDelete" /\ d.txn = t
           /\ d.createAt = e.createAt /\ d.deleteAt = e.deleteAt
  BY Zenon DEF EntryDropped, EntryRec

\* PrepareCommit stamps what its writer did.
LEMMA PreparedFields ==
    ASSUME NEW e \in EntryRec, e.txn \in Txns, commitTS \in [Txns -> Nat]
    PROVE  LET d == EntryPrepareCommit(e) IN
           /\ d \in EntryRec
           /\ d.host = e.host /\ d.name = e.name /\ d.op = e.op /\ d.txn = e.txn
           /\ d.createAt = IF e.createAt = 0 THEN commitTS[e.txn] ELSE e.createAt
           /\ d.deleteAt = IF e.op = "SoftDelete" THEN commitTS[e.txn] ELSE e.deleteAt
  BY Zenon DEF EntryPrepareCommit, EntryRec, HasCreated, Unset

\* ApplyCommit releases the entry.
LEMMA AppliedFields ==
    ASSUME NEW e \in EntryRec
    PROVE  LET d == EntryApplyCommit(e) IN
           /\ d \in EntryRec
           /\ d.host = e.host /\ d.name = e.name /\ d.op = e.op /\ d.txn = NoTxn
           /\ d.createAt = e.createAt /\ d.deleteAt = e.deleteAt
  BY Zenon DEF EntryApplyCommit, EntryRec

\* PrepareRollback releases the entry and leaves its timestamps.
LEMMA RolledBackFields ==
    ASSUME NEW e \in EntryRec
    PROVE  LET d == EntryPrepareRollback(e) IN
           /\ d \in EntryRec
           /\ d.host = e.host /\ d.name = e.name /\ d.txn = NoTxn
           /\ d.createAt = e.createAt /\ d.deleteAt = e.deleteAt
  BY Zenon DEF EntryPrepareRollback, EntryRec

-----------------------------------------------------------------------------
(* Inserting into a list and removing from it.                             *)

\* Link.Insert moves the nodes from its place on by one.
LEMMA InsertNodeElements ==
    ASSUME NEW S, NEW s \in Seq(S), NEW k \in 0..Len(s), NEW x \in S
    PROVE  LET q == InsertNode(s, k, x) IN
           /\ q \in Seq(S) /\ Len(q) = Len(s) + 1
           /\ \A i \in 1..k : q[i] = s[i]
           /\ q[k + 1] = x
           /\ \A i \in (k + 1)..Len(s) : q[i + 1] = s[i]
  <1> DEFINE a == SubSeq(s, 1, k)
             b == SubSeq(s, k + 1, Len(s))
             c == a \o <<x>>
             d == c \o b
  <1>1. /\ a \in Seq(S) /\ Len(a) = k
        /\ \A i \in 1..k : a[i] = s[i]
    OBVIOUS
  <1>2. /\ b \in Seq(S) /\ Len(b) = Len(s) - k
        /\ \A i \in 1..(Len(s) - k) : b[i] = s[i + k]
    OBVIOUS
  <1>3. InsertNode(s, k, x) = d
    BY Zenon DEF InsertNode
  <1> HIDE DEF a, b
  <1>4. /\ c \in Seq(S) /\ Len(c) = k + 1 /\ c[k + 1] = x
        /\ \A i \in 1..k : c[i] = s[i]
    BY <1>1
  <1> HIDE DEF c
  <1>5. /\ d \in Seq(S) /\ Len(d) = Len(c) + Len(b)
        /\ \A i \in 1..Len(c) : d[i] = c[i]
        /\ \A i \in 1..Len(b) : d[Len(c) + i] = b[i]
    <2>1. c \in Seq(S) /\ b \in Seq(S)
      BY <1>2, <1>4, Zenon
    <2> QED
      BY <2>1
  <1> HIDE DEF d
  <1>6. \A i \in (k + 1)..Len(s) : d[i + 1] = s[i]
    <2> TAKE i \in (k + 1)..Len(s)
    <2> DEFINE j == i - k
    <2>1. j \in 1..(Len(s) - k) /\ (k + 1) + j = i + 1 /\ j + k = i
      OBVIOUS
    <2> HIDE DEF j
    <2>2. d[(k + 1) + j] = b[j]
      BY <1>2, <1>4, <1>5, <2>1, Zenon
    <2> QED
      BY <1>2, <2>1, <2>2, Zenon
  <1>7. Len(d) = Len(s) + 1 /\ d[k + 1] = x /\ \A i \in 1..k : d[i] = s[i]
    BY <1>2, <1>4, <1>5
  <1> QED
    BY <1>3, <1>5, <1>6, <1>7, Zenon

\* Link.Delete and DeleteNode take their element out of a list that holds it
\* once.
LEMMA DeleteNodeElements ==
    ASSUME NEW S, NEW s \in Seq(S), NEW k \in 1..Len(s),
           \A i \in 1..Len(s) : s[i] = s[k] => i = k
    PROVE  LET q == DeleteNode(s, s[k]) IN
           /\ q \in Seq(S) /\ Len(q) = Len(s) - 1
           /\ \A i \in 1..(k - 1) : q[i] = s[i]
           /\ \A i \in k..(Len(s) - 1) : q[i] = s[i + 1]
  <1> DEFINE a == SubSeq(s, 1, k - 1)
             b == SubSeq(s, k + 1, Len(s))
             d == a \o b
  <1>1. /\ a \in Seq(S) /\ Len(a) = k - 1
        /\ \A i \in 1..(k - 1) : a[i] = s[i]
    OBVIOUS
  <1>2. /\ b \in Seq(S) /\ Len(b) = Len(s) - k
        /\ \A i \in 1..(Len(s) - k) : b[i] = s[i + k]
    OBVIOUS
  <1>3. DeleteNode(s, s[k]) = d
    <2>1. (CHOOSE i \in 1..Len(s) : s[i] = s[k]) = k
      BY Zenon
    <2> QED
      BY <2>1, Zenon DEF DeleteNode
  <1> HIDE DEF a, b
  <1>4. /\ d \in Seq(S) /\ Len(d) = Len(a) + Len(b)
        /\ \A i \in 1..Len(a) : d[i] = a[i]
        /\ \A i \in 1..Len(b) : d[Len(a) + i] = b[i]
    <2>1. a \in Seq(S) /\ b \in Seq(S)
      BY <1>1, <1>2, Zenon
    <2> QED
      BY <2>1
  <1> HIDE DEF d
  <1>5. \A i \in k..(Len(s) - 1) : d[i] = s[i + 1]
    <2> TAKE i \in k..(Len(s) - 1)
    <2> DEFINE j == i - k + 1
    <2>1. j \in 1..(Len(s) - k) /\ (k - 1) + j = i /\ j + k = i + 1
      OBVIOUS
    <2> HIDE DEF j
    <2>2. d[(k - 1) + j] = b[j]
      BY <1>1, <1>2, <1>4, <2>1, Zenon
    <2> QED
      BY <1>2, <2>1, <2>2, Zenon
  <1>6. Len(d) = Len(s) - 1 /\ \A i \in 1..(k - 1) : d[i] = s[i]
    BY <1>1, <1>2, <1>4
  <1> QED
    BY <1>3, <1>4, <1>5, <1>6, Zenon

\* What a list keeps when an element that it holds once is taken out: the
\* others, in their order.
LEMMA DeleteNodeKeeps ==
    ASSUME NEW S, NEW s \in Seq(S), NEW k \in 1..Len(s),
           \A i \in 1..Len(s) : s[i] = s[k] => i = k
    PROVE  LET q == DeleteNode(s, s[k]) IN
           /\ q \in Seq(S)
           /\ \A i \in 1..Len(q) : \E a \in 1..Len(s) : a >= i /\ a # k /\ q[i] = s[a]
           /\ \A i, j \in 1..Len(q) : i < j =>
                 \E a, b \in 1..Len(s) : a < b /\ q[i] = s[a] /\ q[j] = s[b]
           /\ \A a \in 1..Len(s) : a # k => \E i \in 1..Len(q) : q[i] = s[a]
  <1> DEFINE q == DeleteNode(s, s[k])
             old(i) == IF i < k THEN i ELSE i + 1
  <1>1. /\ q \in Seq(S) /\ Len(q) = Len(s) - 1
        /\ \A i \in 1..(k - 1) : q[i] = s[i]
        /\ \A i \in k..(Len(s) - 1) : q[i] = s[i + 1]
    BY DeleteNodeElements, Zenon
  <1> HIDE DEF q
  <1>2. \A i \in 1..Len(q) : old(i) \in 1..Len(s) /\ old(i) >= i /\ old(i) # k /\ q[i] = s[old(i)]
    BY <1>1
  <1>3. \A i, j \in 1..Len(q) : i < j => old(i) < old(j)
    BY <1>1
  <1>4. \A a \in 1..Len(s) : a # k => \E i \in 1..Len(q) : old(i) = a
    <2> TAKE a \in 1..Len(s)
    <2> HAVE a # k
    <2>1. CASE a < k
      <3>1. a \in 1..Len(q) /\ old(a) = a
        BY <1>1, <2>1
      <3> QED
        BY <3>1, Zenon
    <2>2. CASE a > k
      <3>1. a - 1 \in 1..Len(q) /\ old(a - 1) = a
        BY <1>1, <2>2
      <3> QED
        BY <3>1, Zenon
    <2> QED
      BY <2>1, <2>2
  <1> HIDE DEF old
  <1>5. \A i, j \in 1..Len(q) : i < j =>
           \E a, b \in 1..Len(s) : a < b /\ q[i] = s[a] /\ q[j] = s[b]
    BY <1>2, <1>3, Zenon
  <1>6. \A a \in 1..Len(s) : a # k => \E i \in 1..Len(q) : q[i] = s[a]
    BY <1>2, <1>4, Zenon
  <1> QED
    BY <1>1, <1>2, <1>5, <1>6, Zenon DEF q

\* What a list holds when an element is put in: the new one, and the others
\* at places of their own.
LEMMA InsertNodeKeeps ==
    ASSUME NEW S, NEW s \in Seq(S), NEW k \in 0..Len(s), NEW x \in S
    PROVE  LET q == InsertNode(s, k, x) IN
           /\ q \in Seq(S)
           /\ \A i \in 1..Len(q) : i # k + 1 => \E a \in 1..Len(s) : q[i] = s[a]
           /\ \A i, j \in 1..Len(q) : i # j /\ i # k + 1 /\ j # k + 1 =>
                 \E a, b \in 1..Len(s) : a # b /\ q[i] = s[a] /\ q[j] = s[b]
           /\ k + 1 \in 1..Len(q) /\ q[k + 1] = x
           /\ \A a \in 1..Len(s) : \E i \in 1..Len(q) : q[i] = s[a]
  <1> DEFINE q == InsertNode(s, k, x)
             old(i) == IF i <= k THEN i ELSE i - 1
  <1>a. q \in Seq(S) /\ \A i \in 1..k : q[i] = s[i]
    BY InsertNodeElements
  <1>b. Len(q) = Len(s) + 1
    BY InsertNodeElements
  <1>c. q[k + 1] = x
    BY InsertNodeElements
  <1>d. \A i \in (k + 1)..Len(s) : q[i + 1] = s[i]
    BY InsertNodeElements
  <1> HIDE DEF q
  <1>2. \A i \in 1..Len(q) : i # k + 1 => old(i) \in 1..Len(s) /\ q[i] = s[old(i)]
    <2> TAKE i \in 1..Len(q)
    <2> HAVE i # k + 1
    <2>1. CASE i <= k
      BY <1>a, <1>b, <1>c, <1>d, <2>1
    <2>2. CASE i > k + 1
      <3> DEFINE j == i - 1
      <3>1. j \in (k + 1)..Len(s) /\ j + 1 = i /\ old(i) = j /\ j \in 1..Len(s)
        BY <1>a, <1>b, <1>c, <1>d, <2>2
      <3> HIDE DEF j
      <3> QED
        BY <1>a, <1>b, <1>c, <1>d, <3>1, Zenon
    <2> QED
      BY <2>1, <2>2
  <1>3. \A i, j \in 1..Len(q) : i # j /\ i # k + 1 /\ j # k + 1 => old(i) # old(j)
    BY <1>a, <1>b, <1>c, <1>d
  <1>4. \A a \in 1..Len(s) : \E i \in 1..Len(q) : q[i] = s[a]
    <2> TAKE a \in 1..Len(s)
    <2>1. CASE a <= k
      BY <1>a, <1>b, <1>c, <1>d, <2>1
    <2>2. CASE a > k
      <3>1. a \in (k + 1)..Len(s) /\ a + 1 \in 1..Len(q)
        BY <1>a, <1>b, <1>c, <1>d, <2>2
      <3> QED
        BY <1>a, <1>b, <1>c, <1>d, <3>1, Zenon
    <2> QED
      BY <2>1, <2>2
  <1>5. k + 1 \in 1..Len(q)
    BY <1>a, <1>b, <1>c, <1>d
  <1> HIDE DEF old
  <1>6. \A i \in 1..Len(q) : i # k + 1 => \E a \in 1..Len(s) : q[i] = s[a]
    BY <1>2, Zenon
  <1>7. \A i, j \in 1..Len(q) : i # j /\ i # k + 1 /\ j # k + 1 =>
           \E a, b \in 1..Len(s) : a # b /\ q[i] = s[a] /\ q[j] = s[b]
    BY <1>2, <1>3, Zenon
  <1> QED
    BY <1>a, <1>b, <1>c, <1>d, <1>4, <1>5, <1>6, <1>7, Zenon DEF q

-----------------------------------------------------------------------------
(* What the items of a store call are.                                     *)

\* The prepare goroutine commits: an item is a symbol to check, or an entry
\* its transaction has created or dropped.
LEMMA PrepareItemFacts ==
    ASSUME IndInv, CatTypeInv, PhaseInv, prep.pc = "prepareCommit", NEW i \in todo
    PROVE  /\ prep.txn \in Txns /\ state[prep.txn] = "Committing"
           /\ i = Item(i.rank, i.id) /\ i.id \in Ids
           /\ i.rank \in {WaitedRank, CheckRank, CreateRank, TableRank, DropRank}
           /\ i.rank \in {WaitedRank, CheckRank} => i.id \in store[prep.txn].symTable
           /\ i.rank = CreateRank => i.id = store[prep.txn].createEntry /\ i.id \in Databases
           /\ i.rank = TableRank => i.id \in Tables(prep.txn) /\ i.id \in TableIds
           /\ i.rank = DropRank => i.id = store[prep.txn].dropEntry /\ i.id \in Databases
  <1> USE DEF WaitedRank, CheckRank, CreateRank, TableRank, DropRank
  <1>1. prep.txn \in Txns /\ state[prep.txn] = "Committing"
    BY DEF IndInv, TypeOK, Idle, PhaseInv
  <1> DEFINE t == prep.txn
             s == store[t]
  <1>2. /\ {s.createEntry, s.dropEntry} \subseteq {Nil} \cup Databases
        /\ Tables(t) \subseteq TableIds
        /\ s.symTable \subseteq Ids
        /\ Databases \subseteq Ids /\ TableIds \subseteq Ids
    BY <1>1 DEF CatTypeInv, Tables, Databases, TableIds
  <1> HIDE DEF s
  <1>3. \/ \E x \in s.symTable : i = Item(CheckRank, x)
        \/ s.createEntry # Nil /\ i = Item(CreateRank, s.createEntry)
        \/ \E x \in Tables(t) : i = Item(TableRank, x)
        \/ s.dropEntry # Nil /\ i = Item(DropRank, s.dropEntry)
        \/ \E x \in s.symTable : i = Item(WaitedRank, x)
    <2>1. i \in PrepareItems(t) \/ \E x \in s.symTable : i = Item(WaitedRank, x)
      BY Zenon DEF PhaseInv, s
    <2> QED
      BY <2>1, Zenon DEF PrepareItems, Optional, s
  <1> QED
    BY <1>1, <1>2, <1>3 DEF Item, s

\* The prepare goroutine rolls back: an item is the created or the dropped
\* database, or a table.
LEMMA RollbackItemFacts ==
    ASSUME IndInv, CatTypeInv, PhaseInv, prep.pc = "prepareRollback", NEW i \in todo
    PROVE  /\ prep.txn \in Txns /\ state[prep.txn] = "Rollbacking"
           /\ i = Item(i.rank, i.id) /\ i.id \in Ids
           /\ i.rank \in {CreateRank, TableRank}
           /\ i.rank = CreateRank =>
                 /\ i.id \in Databases
                 /\ i.id = IF store[prep.txn].createEntry # Nil THEN store[prep.txn].createEntry
                                                                ELSE store[prep.txn].dropEntry
           /\ i.rank = TableRank => i.id \in Tables(prep.txn) /\ i.id \in TableIds
  <1> USE DEF CreateRank, TableRank
  <1>1. prep.txn \in Txns /\ state[prep.txn] = "Rollbacking"
    BY DEF IndInv, TypeOK, Idle, PhaseInv
  <1> DEFINE t == prep.txn
             s == store[t]
             d == IF s.createEntry # Nil THEN s.createEntry ELSE s.dropEntry
  <1>2. /\ d \in {Nil} \cup Databases
        /\ Tables(t) \subseteq TableIds
        /\ Databases \subseteq Ids /\ TableIds \subseteq Ids
    BY <1>1, Zenon DEF CatTypeInv, Tables, Databases, TableIds
  <1>3. (d # Nil /\ i = Item(CreateRank, d)) \/ (\E x \in Tables(t) : i = Item(TableRank, x))
    <2>1. i \in RollbackItems(t)
      BY Zenon DEF PhaseInv
    <2> QED
      BY <2>1, Zenon DEF RollbackItems, Optional
  <1> HIDE DEF d
  <1>4. i.rank = CreateRank => i.id = d /\ d # Nil
    BY <1>3 DEF Item
  <1>5. i.rank = TableRank => i.id \in Tables(t)
    BY <1>3 DEF Item
  <1>6. i = Item(i.rank, i.id) /\ i.rank \in {CreateRank, TableRank}
    BY <1>3 DEF Item
  <1> QED
    BY <1>1, <1>2, <1>4, <1>5, <1>6, Zenon DEF d

\* The commit goroutine applies: an item is the created database, or a table.
LEMMA ApplyItemFacts ==
    ASSUME IndInv, CatTypeInv, PhaseInv, NEW i \in applying
    PROVE  /\ comm.txn \in Txns /\ state[comm.txn] = "Committing" /\ comm.pc = "apply"
           /\ i = Item(i.rank, i.id) /\ i.id \in Ids
           /\ i.rank \in {CreateRank, TableRank}
           /\ i.rank = CreateRank => i.id = store[comm.txn].createEntry /\ i.id \in Databases
           /\ i.rank = TableRank => i.id \in Tables(comm.txn) /\ i.id \in TableIds
  <1> USE DEF CreateRank, TableRank
  <1>1. comm.txn \in Txns /\ state[comm.txn] = "Committing" /\ comm.pc = "apply"
    BY ConstantsAssumption DEF IndInv, TypeOK, Idle, PhaseInv
  <1> DEFINE t == comm.txn
             s == store[t]
  <1>2. /\ s.createEntry \in {Nil} \cup Databases
        /\ Tables(t) \subseteq TableIds
        /\ Databases \subseteq Ids /\ TableIds \subseteq Ids
    BY <1>1, Zenon DEF CatTypeInv, Tables, Databases, TableIds
  <1>3. \/ s.createEntry # Nil /\ i = Item(CreateRank, s.createEntry)
        \/ \E x \in Tables(t) : i = Item(TableRank, x)
    <2>1. i \in ApplyItems(t)
      BY Zenon DEF PhaseInv
    <2> QED
      BY <2>1, Zenon DEF ApplyItems, Optional
  <1> HIDE DEF s
  <1> QED
    BY <1>1, <1>2, <1>3 DEF Item, s

-----------------------------------------------------------------------------
\* The prepare goroutine never waits for its own transaction: an entry it
\* finds deleted before its timestamp is written by a transaction that is
\* handed over to the commit goroutine.
LEMMA CheckWaitsForPrepared ==
    ASSUME StoreInv, prep.pc = "prepareCommit", NEW id \in Ids,
           DeleteBefore(ent[id], commitTS[prep.txn]), HasActiveTxn(ent[id]),
           InFlight(ent[id].txn)
    PROVE  ent[id].txn \in Txns /\ Prepared(ent[id].txn)
  <1> DEFINE e == ent[id]
  <1>1. e \in EntryRec
    BY DEF StoreInv, CatTypeInv, Ids
  <1>2. e.txn \in Txns
    BY <1>1, EntryFields, Zenon DEF HasActiveTxn
  <1>3. e.deleteAt = commitTS[e.txn]
    BY Zenon DEF StoreInv, StampInv, DeleteBefore
  <1>4. commitTS[e.txn] \in Nat
    BY <1>2, Zenon DEF StoreInv, IndInv, TypeOK
  <1>5. e.txn # prep.txn
    BY <1>3, <1>4 DEF DeleteBefore
  <1> QED
    BY <1>2, <1>5, Zenon DEF StoreInv, IndInv, InFlightInv, Prepared

-----------------------------------------------------------------------------
(* What a step keeps by leaving things alone.                              *)

Undoing == {"Rollbacking", "Rollbacked"}

\* No entry changes its host or its name.
KeysKept == /\ Len(ent') = Len(ent)
            /\ \A id \in Ids : ent'[id].host = ent[id].host /\ ent'[id].name = ent[id].name

\* An id names an entry of the catalog.
LEMMA EntTypes ==
    ASSUME StoreInv, NEW id \in Ids
    PROVE  /\ id \in Nat \ {0} /\ ent[id] \in EntryRec
           /\ ent[id].host \in Nat /\ ent[id].host \in Hosts
           /\ ent[id].txn \in Txns \cup {NoTxn}
           /\ ent[id].op \in {"Create", "SoftDelete"}
           /\ ent[id].createAt \in Nat /\ ent[id].deleteAt \in Nat
  <1>1. id \in Nat \ {0} /\ ent[id] \in EntryRec /\ ent[id].host \in Hosts
    BY DEF StoreInv, CatTypeInv, Ids
  <1> QED
    BY <1>1, EntryFields, Zenon

\* What a transaction has written are entries of the catalog.
LEMMA WrittenIds ==
    ASSUME StoreInv, NEW t \in Txns
    PROVE  CreatedBy(t) \subseteq Ids /\ DroppedBy(t) \subseteq Ids /\ WrittenBy(t) \subseteq Ids
  <1>1. CreatedBy(t) \subseteq Ids /\ DroppedBy(t) \subseteq Ids
    BY Zenon DEF StoreInv, CatTypeInv, CreatedBy, DroppedBy, Databases, TableIds
  <1> QED
    BY <1>1, Zenon DEF WrittenBy

\* Timestamps are drawn from the clock, the commit timestamp when the
\* transaction stops being active.
LEMMA TimeTypes ==
    ASSUME StoreInv
    PROVE  /\ tsAlloc \in Nat /\ PrevTs \in Nat \ {0}
           /\ \A t \in Txns : /\ startTS[t] \in Nat /\ startTS[t] <= tsAlloc
                              /\ commitTS[t] \in Nat /\ commitTS[t] <= tsAlloc
                              /\ commitTS[t] = 0 <=> state[t] = "Active"
                              /\ state[t] \in States
  <1>1. tsAlloc \in Nat /\ PrevTs \in Nat \ {0}
    BY ConstantsAssumption, CatalogAssumption DEF StoreInv, IndInv, TypeOK
  <1>2. \A t \in Txns : startTS[t] \in Nat /\ commitTS[t] \in Nat /\ state[t] \in States
    BY Zenon DEF StoreInv, IndInv, TypeOK
  <1>3. \A t \in Txns : /\ startTS[t] <= tsAlloc /\ commitTS[t] <= tsAlloc
                        /\ commitTS[t] = 0 <=> state[t] = "Active"
    BY Zenon DEF StoreInv, IndInv, ClockInv, UncommitTS
  <1> QED
    BY <1>1, <1>2, <1>3, Zenon

\* The indexes stay right while no list changes and what is undone stays
\* undone.
LEMMA IndexKept ==
    ASSUME StoreInv, KeysKept, UNCHANGED <<nodes, link>>,
           \A u \in Txns : CreatedBy(u) \subseteq CreatedBy(u)',
           \A u \in Txns : state[u] \in Undoing => state'[u] \in Undoing
    PROVE  IndexInv'
  <1> USE DEF StoreInv, IndexInv
  <1>1. Ids' = Ids
    BY Zenon DEF Ids, KeysKept
  <1>2. \A id \in Ids : Key(id)' = Key(id) /\ (IsDB(id)' <=> IsDB(id)) /\ (Listed(id)' <=> Listed(id))
    BY Zenon DEF KeysKept, Key, IsDB, Listed
  <1>3. Hosts' = Hosts
    BY <1>1, <1>2, Zenon DEF Hosts, Databases
  <1>4. (nodes \in [DOMAIN nodes -> Seq(Ids)])' /\ (link \in [Hosts -> Seq(Ids)])'
    BY <1>1, <1>3, Zenon
  <1>5. \A id \in Ids' : Key(id)' \in DOMAIN nodes'
    BY <1>1, <1>2, Zenon
  <1>6. \A k \in DOMAIN nodes : \A i \in 1..Len(nodes[k]) : nodes[k][i] \in Ids
    OBVIOUS
  <1>7. (\A k \in DOMAIN nodes : \A i \in 1..Len(nodes[k]) : Key(nodes[k][i]) = k)'
    BY <1>2, <1>6, Zenon DEF Key
  <1>8. (\A k \in DOMAIN nodes : \A i, j \in 1..Len(nodes[k]) : i < j => nodes[k][i] > nodes[k][j])'
    BY Zenon
  <1>9. \A id \in Ids' : ~Listed(id)' =>
           \E u \in Txns : id \in CreatedBy(u)' /\ state'[u] \in {"Rollbacking", "Rollbacked"}
    BY <1>1, <1>2, Zenon DEF Undoing
  <1>10. IndexesAgree'
    <2>1. ASSUME NEW h \in DOMAIN link
          PROVE  /\ {link[h][i] : i \in DOMAIN link[h]}
                       = {id \in Ids' : ent'[id].host = h /\ Listed(id)'}
                 /\ \A i, j \in DOMAIN link[h] : link[h][i] = link[h][j] => i = j
      <3>1. {id \in Ids' : ent'[id].host = h /\ Listed(id)'}
               = {id \in Ids : ent[id].host = h /\ Listed(id)}
        BY <1>1, <1>2, Zenon DEF KeysKept
      <3> QED
        BY <3>1, Zenon DEF IndexesAgree
    <2> QED
      BY <2>1 DEF IndexesAgree
  <1> QED
    BY <1>4, <1>5, <1>7, <1>8, <1>9, <1>10, Zenon

\* The older entries of a name stay dropped, being dropped, or undone.
LEMMA NameKept ==
    ASSUME StoreInv, KeysKept, UNCHANGED nodes,
           \A u \in Txns : DroppedBy(u) \subseteq DroppedBy(u)',
           \A u \in Txns : state[u] \in Undoing => state'[u] \in Undoing,
           \A id \in Ids : HasDropped(ent[id]) \/ IsDroppedUncommitted(ent[id]) =>
               \/ HasDropped(ent'[id]) \/ IsDroppedUncommitted(ent'[id])
               \/ UndoneDrop(Key(id))'
    PROVE  NameInv'
  <1>1. \A k \in DOMAIN nodes : \A i \in 1..Len(nodes[k]) :
           nodes[k][i] \in Ids /\ Key(nodes[k][i]) = k
    BY DEF StoreInv, IndexInv
  <1>2. \A id \in Ids : Key(id)' = Key(id)
    BY Zenon DEF KeysKept, Key
  <1>3. \A u \in Txns : DroppedBy(u) \subseteq Ids
    BY WrittenIds, Zenon
  <1>4. \A k : UndoneDrop(k) => UndoneDrop(k)'
    BY <1>2, <1>3, Zenon DEF UndoneDrop, Undoing
  <1> SUFFICES ASSUME NEW k \in DOMAIN nodes, NEW i \in 2..Len(nodes[k])
               PROVE  \/ HasDropped(ent'[nodes[k][i]]) \/ IsDroppedUncommitted(ent'[nodes[k][i]])
                      \/ UndoneDrop(k)'
    BY Zenon DEF NameInv, HasDropped, IsDroppedUncommitted, HasActiveTxn
  <1>5. PICK id \in Ids : id = nodes[k][i] /\ Key(id) = k
    <2>1. Len(nodes[k]) \in Nat
      BY DEF StoreInv, IndexInv
    <2> QED
      BY <1>1, <2>1
  <1>6. HasDropped(ent[id]) \/ IsDroppedUncommitted(ent[id]) \/ UndoneDrop(k)
    BY <1>5, Zenon DEF StoreInv, NameInv
  <1>7. Key(id)' = k
    BY <1>2, <1>5, Zenon
  <1>8. UndoneDrop(Key(id))' => UndoneDrop(k)'
    BY <1>7, Zenon DEF UndoneDrop
  <1> QED
    BY <1>4, <1>5, <1>6, <1>8, Zenon

\* What a rollback has yet to remove stays in the indexes.
LEMMA UndoKept ==
    ASSUME StoreInv, KeysKept, UNCHANGED <<nodes, store>>,
           prep'.pc = "prepareRollback" =>
              prep.pc = "prepareRollback" /\ prep'.txn = prep.txn /\ todo' \subseteq todo
    PROVE  UndoInv'
  <1> SUFFICES ASSUME prep'.pc = "prepareRollback", NEW i \in todo', i.id \in CreatedBy(prep.txn)
               PROVE  Listed(i.id)'
    BY Zenon DEF UndoInv, CreatedBy
  <1>1. prep.pc = "prepareRollback" /\ i \in todo
    BY Zenon
  <1>2. i.id \in Ids
    BY <1>1, RollbackItemFacts, Zenon DEF StoreInv
  <1>3. Listed(i.id)
    BY <1>1, Zenon DEF StoreInv, UndoInv
  <1> QED
    BY <1>2, <1>3, Zenon DEF Listed, Key, KeysKept

-----------------------------------------------------------------------------
(* RemoveEntry.                                                            *)

\* No name list holds an entry twice.
LEMMA NodesInjective ==
    ASSUME StoreInv, NEW k \in DOMAIN nodes
    PROVE  /\ nodes[k] \in Seq(Ids) /\ Len(nodes[k]) \in Nat
           /\ \A i, j \in 1..Len(nodes[k]) : nodes[k][i] = nodes[k][j] => i = j
  <1>1. nodes[k] \in Seq(Ids) /\ Len(nodes[k]) \in Nat
    BY DEF StoreInv, IndexInv
  <1>2. \A i, j \in 1..Len(nodes[k]) : i < j => nodes[k][i] > nodes[k][j]
    BY Zenon DEF StoreInv, IndexInv
  <1>3. \A i \in 1..Len(nodes[k]) : nodes[k][i] \in Nat
    BY <1>1 DEF Ids
  <1> QED
    BY <1>1, <1>2, <1>3

\* RemoveEntry takes the entry out of its name list, and nothing else.
LEMMA RemoveFromNodes ==
    ASSUME StoreInv, NEW id \in Ids, Listed(id), RemoveEntry(id)
    PROVE  /\ DOMAIN nodes' = DOMAIN nodes
           /\ \A k \in DOMAIN nodes : k # Key(id) => nodes'[k] = nodes[k]
           /\ \A k \in DOMAIN nodes :
                 /\ nodes'[k] \in Seq(Ids)
                 /\ \A i \in 1..Len(nodes'[k]) :
                       \E a \in 1..Len(nodes[k]) : a >= i /\ nodes'[k][i] = nodes[k][a]
                 /\ \A i, j \in 1..Len(nodes'[k]) : i < j =>
                       \E a, b \in 1..Len(nodes[k]) :
                           a < b /\ nodes'[k][i] = nodes[k][a] /\ nodes'[k][j] = nodes[k][b]
           /\ \A k \in DOMAIN nodes : \A x \in Ids :
                 (\E i \in 1..Len(nodes'[k]) : nodes'[k][i] = x)
                     <=> x # id /\ (\E i \in 1..Len(nodes[k]) : nodes[k][i] = x)
  <1> DEFINE key == Key(id)
             s == nodes[key]
  <1>1. key \in DOMAIN nodes
    BY Zenon DEF StoreInv, IndexInv
  <1>2. nodes' = [nodes EXCEPT ![key] = DeleteNode(s, id)]
    BY Zenon DEF RemoveEntry, Key
  <1>3. PICK p \in 1..Len(s) : s[p] = id
    BY Zenon DEF Listed
  <1>4. /\ s \in Seq(Ids) /\ Len(s) \in Nat
        /\ \A i, j \in 1..Len(s) : s[i] = s[j] => i = j
    BY <1>1, NodesInjective, Zenon
  <1>5. nodes \in [DOMAIN nodes -> Seq(Ids)]
    BY Zenon DEF StoreInv, IndexInv
  <1> HIDE DEF key, s
  <1> DEFINE q == DeleteNode(s, s[p])
  <1>6. /\ q \in Seq(Ids)
        /\ \A i \in 1..Len(q) : \E a \in 1..Len(s) : a >= i /\ a # p /\ q[i] = s[a]
        /\ \A i, j \in 1..Len(q) : i < j =>
              \E a, b \in 1..Len(s) : a < b /\ q[i] = s[a] /\ q[j] = s[b]
        /\ \A a \in 1..Len(s) : a # p => \E i \in 1..Len(q) : q[i] = s[a]
    <2>1. s \in Seq(Ids) /\ \A i \in 1..Len(s) : s[i] = s[p] => i = p
      BY <1>4, Zenon
    <2> QED
      BY <2>1, DeleteNodeKeeps, Zenon
  <1> HIDE DEF q
  <1>7. /\ DOMAIN nodes' = DOMAIN nodes /\ nodes'[key] = q
        /\ \A k \in DOMAIN nodes : k # key => nodes'[k] = nodes[k]
    BY <1>1, <1>2, <1>3, <1>5, Zenon DEF q
  <1>8. \A k \in DOMAIN nodes : \A i \in 1..Len(nodes[k]) : Key(nodes[k][i]) = k
    BY Zenon DEF StoreInv, IndexInv
  <1>9. \A x \in Ids : (\E i \in 1..Len(q) : q[i] = x) <=> x # id /\ (\E i \in 1..Len(s) : s[i] = x)
    <2> TAKE x \in Ids
    <2>1. ASSUME NEW i \in 1..Len(q), q[i] = x PROVE x # id /\ \E a \in 1..Len(s) : s[a] = x
      <3>1. PICK a \in 1..Len(s) : a # p /\ q[i] = s[a]
        BY <1>6, Zenon
      <3> QED
        BY <1>3, <1>4, <2>1, <3>1, Zenon
    <2>2. ASSUME x # id, NEW a \in 1..Len(s), s[a] = x PROVE \E i \in 1..Len(q) : q[i] = x
      BY <1>3, <1>6, <2>2, Zenon
    <2> QED
      BY <2>1, <2>2, Zenon
  <1> DEFINE Removed(l, m) ==
                 /\ l \in Seq(Ids)
                 /\ \A i \in 1..Len(l) : \E a \in 1..Len(m) : a >= i /\ l[i] = m[a]
                 /\ \A i, j \in 1..Len(l) : i < j =>
                       \E a, b \in 1..Len(m) : a < b /\ l[i] = m[a] /\ l[j] = m[b]
                 /\ \A x \in Ids : (\E i \in 1..Len(l) : l[i] = x)
                                      <=> x # id /\ (\E i \in 1..Len(m) : m[i] = x)
  <1>a. ASSUME NEW k \in DOMAIN nodes, k # key
        PROVE  Removed(nodes[k], nodes[k])
    <2>1. nodes[k] \in Seq(Ids)
      BY NodesInjective, Zenon
    <2>2. \A i \in 1..Len(nodes[k]) : nodes[k][i] # id
      BY <1>8, <1>a, Zenon DEF key
    <2>3. \A i \in 1..Len(nodes[k]) : i >= i
      OBVIOUS
    <2> QED
      BY <2>1, <2>2, <2>3, Zenon
  <1>b. Removed(q, s)
    <2>1. \A i \in 1..Len(q) : \E a \in 1..Len(s) : a >= i /\ q[i] = s[a]
      BY <1>6, Zenon
    <2> QED
      BY <1>6, <1>9, <2>1, Zenon
  <1> HIDE DEF Removed
  <1>c. \A k \in DOMAIN nodes : Removed(nodes'[k], nodes[k])
    BY <1>7, <1>a, <1>b, Zenon DEF s
  <1> QED
    BY <1>7, <1>c, Zenon DEF key, Removed

\* RemoveEntry takes the entry out of the link of its host, and nothing else.
LEMMA RemoveFromLink ==
    ASSUME StoreInv, NEW id \in Ids, Listed(id), RemoveEntry(id)
    PROVE  /\ link' \in [Hosts -> Seq(Ids)]
           /\ \A h \in Hosts : \A i, j \in 1..Len(link'[h]) : link'[h][i] = link'[h][j] => i = j
           /\ \A h \in Hosts : \A x \in Ids :
                 (\E i \in 1..Len(link'[h]) : link'[h][i] = x)
                     <=> x # id /\ (\E i \in 1..Len(link[h]) : link[h][i] = x)
  <1> DEFINE host == ent[id].host
             s == link[host]
  <1>1. link \in [Hosts -> Seq(Ids)] /\ host \in Hosts
    BY EntTypes, Zenon DEF StoreInv, IndexInv
  <1>2. link' = [link EXCEPT ![host] = DeleteNode(s, id)]
    BY Zenon DEF RemoveEntry
  <1>3. \A h \in Hosts : /\ link[h] \in Seq(Ids) /\ DOMAIN link[h] = 1..Len(link[h])
                         /\ {link[h][i] : i \in DOMAIN link[h]}
                               = {x \in Ids : ent[x].host = h /\ Listed(x)}
                         /\ \A i, j \in 1..Len(link[h]) : link[h][i] = link[h][j] => i = j
    BY <1>1 DEF StoreInv, IndexInv, IndexesAgree
  <1>4. PICK p \in 1..Len(s) : s[p] = id
    <2>1. id \in {s[i] : i \in DOMAIN s}
      BY <1>1, <1>3, Zenon
    <2> QED
      BY <1>1, <1>3, <2>1, Zenon
  <1>5. \A h \in Hosts : h # host => \A i \in 1..Len(link[h]) : link[h][i] # id
    <2> SUFFICES ASSUME NEW h \in Hosts, NEW i \in 1..Len(link[h]), link[h][i] = id
                 PROVE  h = host
      BY Zenon
    <2>1. id \in {link[h][j] : j \in DOMAIN link[h]}
      BY <1>3, Zenon
    <2> QED
      BY <1>3, <2>1
  <1>6. s \in Seq(Ids) /\ \A i, j \in 1..Len(s) : s[i] = s[j] => i = j
    BY <1>1, <1>3, Zenon
  <1> HIDE DEF host, s
  <1> DEFINE q == DeleteNode(s, s[p])
  <1>7. /\ q \in Seq(Ids)
        /\ \A i \in 1..Len(q) : \E a \in 1..Len(s) : a >= i /\ a # p /\ q[i] = s[a]
        /\ \A i, j \in 1..Len(q) : i < j =>
              \E a, b \in 1..Len(s) : a < b /\ q[i] = s[a] /\ q[j] = s[b]
        /\ \A a \in 1..Len(s) : a # p => \E i \in 1..Len(q) : q[i] = s[a]
    <2>1. s \in Seq(Ids) /\ \A i \in 1..Len(s) : s[i] = s[p] => i = p
      BY <1>6, Zenon
    <2> QED
      BY <2>1, DeleteNodeKeeps, Zenon
  <1> HIDE DEF q
  <1>8. /\ link' \in [Hosts -> Seq(Ids)] /\ link'[host] = q
        /\ \A h \in Hosts : h # host => link'[h] = link[h]
    BY <1>1, <1>2, <1>4, <1>7, Zenon DEF q
  <1>9. \A x \in Ids : (\E i \in 1..Len(q) : q[i] = x) <=> x # id /\ (\E i \in 1..Len(s) : s[i] = x)
    <2> TAKE x \in Ids
    <2>1. ASSUME NEW i \in 1..Len(q), q[i] = x PROVE x # id /\ \E a \in 1..Len(s) : s[a] = x
      <3>1. PICK a \in 1..Len(s) : a # p /\ q[i] = s[a]
        BY <1>7, Zenon
      <3> QED
        BY <1>4, <1>6, <2>1, <3>1, Zenon
    <2>2. ASSUME x # id, NEW a \in 1..Len(s), s[a] = x PROVE \E i \in 1..Len(q) : q[i] = x
      BY <1>4, <1>7, <2>2, Zenon
    <2> QED
      BY <2>1, <2>2, Zenon
  <1>10. \A i, j \in 1..Len(q) : q[i] = q[j] => i = j
    <2>1. \A i, j \in 1..Len(q) : i < j => q[i] # q[j]
      <3> SUFFICES ASSUME NEW i \in 1..Len(q), NEW j \in 1..Len(q), i < j PROVE q[i] # q[j]
        BY Zenon
      <3>1. PICK a \in 1..Len(s), b \in 1..Len(s) : a < b /\ q[i] = s[a] /\ q[j] = s[b]
        BY <1>7, Zenon
      <3>2. a # b
        BY <3>1
      <3> QED
        BY <1>6, <3>1, <3>2, Zenon
    <2>2. Len(q) \in Nat
      BY <1>7
    <2> QED
      BY <2>1, <2>2
  <1>11. \A h \in Hosts : \A x \in Ids :
                 (\E i \in 1..Len(link'[h]) : link'[h][i] = x)
                     <=> x # id /\ (\E i \in 1..Len(link[h]) : link[h][i] = x)
    <2> TAKE h \in Hosts
    <2>1. CASE h = host
      BY <1>8, <1>9, <2>1, Zenon DEF s
    <2>2. CASE h # host
      BY <1>5, <1>8, <2>2, Zenon
    <2> QED
      BY <2>1, <2>2, Zenon
  <1>12. \A h \in Hosts : \A i, j \in 1..Len(link'[h]) : link'[h][i] = link'[h][j] => i = j
    BY <1>3, <1>8, <1>10, Zenon
  <1> QED
    BY <1>8, <1>11, <1>12, Zenon

\* RemoveEntry of an entry whose creator is rolled back leaves both indexes in
\* order, without the entry.
LEMMA RemoveEntryIndexInv ==
    ASSUME StoreInv, KeysKept, UNCHANGED <<store, state>>,
           NEW id \in Ids, Listed(id), RemoveEntry(id),
           NEW t \in Txns, id \in CreatedBy(t), state[t] = "Rollbacking"
    PROVE  IndexInv' /\ \A x \in Ids : Listed(x)' <=> Listed(x) /\ x # id
  <1>1. Ids' = Ids
    BY Zenon DEF Ids, KeysKept
  <1>2. \A x \in Ids : Key(x)' = Key(x) /\ (IsDB(x)' <=> IsDB(x)) /\ Key(x) \in DOMAIN nodes
    BY Zenon DEF KeysKept, Key, IsDB, StoreInv, IndexInv
  <1>3. Hosts' = Hosts
    BY <1>1, <1>2, Zenon DEF Hosts, Databases
  <1>n. /\ DOMAIN nodes' = DOMAIN nodes
        /\ \A k \in DOMAIN nodes :
              /\ nodes'[k] \in Seq(Ids)
              /\ \A i \in 1..Len(nodes'[k]) :
                    \E a \in 1..Len(nodes[k]) : a >= i /\ nodes'[k][i] = nodes[k][a]
              /\ \A i, j \in 1..Len(nodes'[k]) : i < j =>
                    \E a, b \in 1..Len(nodes[k]) :
                        a < b /\ nodes'[k][i] = nodes[k][a] /\ nodes'[k][j] = nodes[k][b]
        /\ \A k \in DOMAIN nodes : \A x \in Ids :
              (\E i \in 1..Len(nodes'[k]) : nodes'[k][i] = x)
                  <=> x # id /\ (\E i \in 1..Len(nodes[k]) : nodes[k][i] = x)
    BY RemoveFromNodes, Zenon
  <1>l. /\ link' \in [Hosts -> Seq(Ids)]
        /\ \A h \in Hosts : \A i, j \in 1..Len(link'[h]) : link'[h][i] = link'[h][j] => i = j
        /\ \A h \in Hosts : \A x \in Ids :
              (\E i \in 1..Len(link'[h]) : link'[h][i] = x)
                  <=> x # id /\ (\E i \in 1..Len(link[h]) : link[h][i] = x)
    BY RemoveFromLink, Zenon
  <1>o. /\ \A k \in DOMAIN nodes : \A i \in 1..Len(nodes[k]) : nodes[k][i] \in Ids /\ Key(nodes[k][i]) = k
        /\ \A k \in DOMAIN nodes : \A i, j \in 1..Len(nodes[k]) : i < j => nodes[k][i] > nodes[k][j]
    BY DEF StoreInv, IndexInv
  <1>4. \A x \in Ids : Listed(x)' <=> Listed(x) /\ x # id
    <2> TAKE x \in Ids
    <2>1. Key(x)' = Key(x) /\ Key(x) \in DOMAIN nodes
      BY <1>2, Zenon
    <2>2. Listed(x)' <=> \E i \in 1..Len(nodes'[Key(x)]) : nodes'[Key(x)][i] = x
      BY <2>1, Zenon DEF Listed
    <2> QED
      BY <1>n, <2>1, <2>2, Zenon DEF Listed
  <1>5. (nodes \in [DOMAIN nodes -> Seq(Ids)])'
    <2>1. nodes' = [k \in DOMAIN nodes' |-> nodes'[k]]
      BY Zenon DEF RemoveEntry, StoreInv, IndexInv
    <2> QED
      BY <1>1, <1>n, <2>1, Zenon
  <1>6. (\A k \in DOMAIN nodes : \A i \in 1..Len(nodes[k]) : Key(nodes[k][i]) = k)'
    <2> SUFFICES ASSUME NEW k \in DOMAIN nodes, NEW i \in 1..Len(nodes'[k])
                 PROVE  <<ent'[nodes'[k][i]].host, ent'[nodes'[k][i]].name>> = k
      BY <1>n, Zenon DEF Key
    <2>1. PICK a \in 1..Len(nodes[k]) : nodes'[k][i] = nodes[k][a]
      BY <1>n, Zenon
    <2>2. Key(nodes[k][a]) = k /\ nodes[k][a] \in Ids
      BY <1>o, Zenon
    <2>3. ent'[nodes[k][a]].host = ent[nodes[k][a]].host /\ ent'[nodes[k][a]].name = ent[nodes[k][a]].name
      BY <2>2, Zenon DEF KeysKept
    <2> QED
      BY <2>1, <2>2, <2>3, Zenon DEF Key
  <1>7. (\A k \in DOMAIN nodes : \A i, j \in 1..Len(nodes[k]) : i < j => nodes[k][i] > nodes[k][j])'
    <2> SUFFICES ASSUME NEW k \in DOMAIN nodes, NEW i \in 1..Len(nodes'[k]),
                        NEW j \in 1..Len(nodes'[k]), i < j
                 PROVE  nodes'[k][i] > nodes'[k][j]
      BY <1>n, Zenon
    <2>1. PICK a \in 1..Len(nodes[k]), b \in 1..Len(nodes[k]) :
              a < b /\ nodes'[k][i] = nodes[k][a] /\ nodes'[k][j] = nodes[k][b]
      BY <1>n, Zenon
    <2>2. nodes[k][a] > nodes[k][b]
      BY <1>o, <2>1, Zenon
    <2> QED
      BY <2>1, <2>2, Zenon
  <1>8. (\A x \in Ids : Key(x) \in DOMAIN nodes)'
    BY <1>1, <1>2, <1>n, Zenon
  <1>9. (\A x \in Ids : ~Listed(x) =>
            \E u \in Txns : x \in CreatedBy(u) /\ state[u] \in {"Rollbacking", "Rollbacked"})'
    <2>1. \A x \in Ids : ~Listed(x) =>
             \E u \in Txns : x \in CreatedBy(u) /\ state[u] \in {"Rollbacking", "Rollbacked"}
      BY Zenon DEF StoreInv, IndexInv
    <2>2. \A u \in Txns : CreatedBy(u)' = CreatedBy(u)
      BY Zenon DEF CreatedBy
    <2>3. state[t] \in {"Rollbacking", "Rollbacked"}
      BY Zenon
    <2> QED
      BY <1>1, <1>4, <2>1, <2>2, <2>3, Zenon
  <1>10. IndexesAgree'
    <2> SUFFICES ASSUME NEW h \in Hosts
                 PROVE  /\ {link'[h][i] : i \in DOMAIN link'[h]}
                              = {x \in Ids : ent'[x].host = h /\ Listed(x)'}
                        /\ \A i, j \in DOMAIN link'[h] : link'[h][i] = link'[h][j] => i = j
      BY <1>1, <1>l DEF IndexesAgree
    <2>1. /\ link[h] \in Seq(Ids) /\ link'[h] \in Seq(Ids)
          /\ DOMAIN link[h] = 1..Len(link[h]) /\ DOMAIN link'[h] = 1..Len(link'[h])
      BY <1>l DEF StoreInv, IndexInv
    <2>2. {link[h][i] : i \in DOMAIN link[h]} = {x \in Ids : ent[x].host = h /\ Listed(x)}
      BY Zenon DEF StoreInv, IndexInv, IndexesAgree
    <2>3. \A x \in Ids : (\E i \in 1..Len(link[h]) : link[h][i] = x) <=> ent[x].host = h /\ Listed(x)
      BY <2>1, <2>2, Zenon
    <2>4. \A x \in Ids : (\E i \in 1..Len(link'[h]) : link'[h][i] = x) <=> ent'[x].host = h /\ Listed(x)'
      <3>1. \A x \in Ids : ent'[x].host = ent[x].host
        BY Zenon DEF KeysKept
      <3> QED
        <4> TAKE x \in Ids
        <4>1. (\E i \in 1..Len(link'[h]) : link'[h][i] = x)
                 <=> x # id /\ (\E i \in 1..Len(link[h]) : link[h][i] = x)
          BY <1>l, Zenon
        <4> QED
          BY <1>4, <2>3, <3>1, <4>1, Zenon
    <2>5. \A i \in 1..Len(link'[h]) : link'[h][i] \in Ids
      BY <2>1
    <2>6. {link'[h][i] : i \in DOMAIN link'[h]} = {x \in Ids : ent'[x].host = h /\ Listed(x)'}
      BY <2>1, <2>4, <2>5
    <2> QED
      BY <1>l, <2>1, <2>6, Zenon
  <1>11. (link \in [Hosts -> Seq(Ids)])'
    BY <1>1, <1>3, <1>l, Zenon
  <1> QED
    BY <1>4, <1>5, <1>6, <1>7, <1>8, <1>9, <1>10, <1>11, Zenon DEF IndexInv
=============================================================================
