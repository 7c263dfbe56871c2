------------------------------ MODULE Catalog ------------------------------
(***************************************************************************)
(* The catalog as the transactions see it: databases and the tables in     *)
(* them (pkg/catalog), reached through a transaction's store               *)
(* (pkg/txn/txnimpl/store.go). A lookup walks the entries of a name from   *)
(* the newest to the oldest, one entry per step, and keeps the lock of its *)
(* host (the catalog, or the database) until it returns, also while it is  *)
(* parked on the transaction that is writing the entry.                    *)
(***************************************************************************)
EXTENDS BaseEntry, Integers

CONSTANTS
    DBNames,        \* database names
    TableNames,     \* table names
    SeedTables,     \* tables of the database an earlier transaction committed
    May,            \* the calls each transaction may make
    MaxCalls        \* catalog calls per transaction

DBOps == {"GetDB", "CreateDB", "DropDB"}
TableOps == {"GetTable", "CreateTable", "DropTable"}
GetOps == {"GetDB", "GetTable"}
CreateOps == {"CreateDB", "CreateTable"}

ASSUME CatalogAssumption ==
    /\ May \in [Txns -> SUBSET (DBOps \cup TableOps
                                  \cup {"CreateSegment", "Commit", "Rollback"})]
    /\ MaxCalls \in Nat
    /\ SeedTables \subseteq TableNames /\ Cardinality(SeedTables) \in Nat
    /\ DBNames # {}
    /\ PrevTs > 0

VARIABLES
    ent,        \* entries, in the order of their ids
    nodes,      \* nameNodes: the ids of a host's name, newest first
    link,       \* Link: the ids of a host's entries, head first
    store,      \* txnStore: what a transaction has read and written
    req,        \* the catalog call a transaction is in
    calls,      \* catalog calls made
    pending,    \* the lock a goroutine is blocked on in RWMutex.Lock
    reads,      \* results of GetDatabase and GetRelationByName
    panic       \* why the process has died, or "none"

catVars == <<ent, nodes, link, store, req, calls, pending, reads, panic>>

Ids == 1..Len(ent)
Nil == 0

\* The host of databases is the catalog; the host of tables is a database,
\* whose RWMutex guards both its tables and its own BaseEntry.
CatalogHost == 0
NoHost == -1

NoCall == [pc |-> "none", op |-> "none", host |-> CatalogHost, name |-> "none",
           at |-> 0, found |-> Nil, met |-> FALSE]

EmptyStore == [db |-> Nil, createEntry |-> Nil, dropEntry |-> Nil,
               created |-> {}, dropped |-> {}, written |-> {}, symTable |-> {}]

IsDB(id) == ent[id].host = CatalogHost

NamesOf(o) == IF o \in DBOps THEN DBNames ELSE TableNames

\* The ids a name list holds; the list may not exist yet.
NodeList(h, n) == IF <<h, n>> \in DOMAIN nodes THEN nodes[<<h, n>>] ELSE <<>>

\* The first database name, its committed entry, and one for each seed table.
SeedEntry(h, n) == [NewEntry(h, n, NoTxn) EXCEPT !.createAt = PrevTs]

CatInit ==
    \E d \in DBNames :
    \E ord \in [1..Cardinality(SeedTables) -> SeedTables] :
        /\ \A i, j \in DOMAIN ord : i # j => ord[i] # ord[j]
        /\ \A n \in SeedTables : \E i \in DOMAIN ord : ord[i] = n
        /\ ent = <<SeedEntry(CatalogHost, d)>>
                     \o [i \in DOMAIN ord |-> SeedEntry(1, ord[i])]
        /\ nodes = [k \in {<<CatalogHost, d>>} \cup ({1} \X SeedTables) |->
                       IF k[1] = CatalogHost THEN <<1>>
                       ELSE <<1 + CHOOSE i \in DOMAIN ord : ord[i] = k[2]>>]
        /\ link = [h \in {CatalogHost, 1} |->
                      IF h = CatalogHost THEN <<1>>
                      ELSE [i \in DOMAIN ord |-> Len(ord) + 2 - i]]
        /\ store = [t \in Txns |-> EmptyStore]
        /\ req = [t \in Txns |-> NoCall]
        /\ calls = [t \in Txns |-> 0]
        /\ pending = [p \in Callers |-> NoHost]
        /\ reads = [t \in Txns |-> {}]
        /\ panic = "none"

-----------------------------------------------------------------------------
(* The RWMutex of the catalog and of each database. A client holds it for  *)
(* the whole call; the two goroutines of the manager only take it for a    *)
(* step. A writer blocked in Lock keeps new readers out.                   *)

Holders(h) == {t \in Txns : req[t].pc \notin {"none", "lock"} /\ req[t].host = h}
Writers(h) == {t \in Holders(h) : req[t].op \notin GetOps}

CanLock(h) == Holders(h) = {}
CanRLock(h) == Writers(h) = {} /\ \A p \in Callers : pending[p] # h

CanAcquire(o, h) == IF o \in GetOps THEN CanRLock(h) ELSE CanLock(h)

\* p calls Lock on h while somebody holds it.
BlockOnLock(p, h) ==
    /\ pending[p] = NoHost
    /\ ~CanLock(h)
    /\ pending' = [pending EXCEPT ![p] = h]
    /\ UNCHANGED <<mgrVars, ent, nodes, link, store, req, calls, reads, panic>>

\* The entry lock of a database is its host lock; a table's is never held
\* across steps.
CanRLockEntry(id) == IsDB(id) => CanRLock(id)
CanLockEntry(id) == IsDB(id) => CanLock(id)

-----------------------------------------------------------------------------
(* A call: acquire the host's lock, walk or write, conclude.               *)

FirstPc(o) == IF o \in CreateOps THEN "write" ELSE "walk"

\* The preconditions txnStore checks before it goes to the catalog; the
\* table operations need a database handle.
Invoke(t, o, n) ==
    LET h == IF o \in DBOps THEN CatalogHost ELSE store[t].db
        r == [NoCall EXCEPT !.op = o, !.host = h, !.name = n, !.at = 1]
    IN  /\ client[t] = "open"
        /\ req[t] = NoCall
        /\ o \in May[t]
        /\ calls[t] < MaxCalls
        /\ o = "CreateDB" => store[t].db = Nil
        /\ o \in DBOps /\ store[t].db # Nil => ent[store[t].db].name = n
        /\ o \in TableOps => store[t].db # Nil
        /\ calls' = [calls EXCEPT ![t] = @ + 1]
        /\ IF CanAcquire(o, h)
             THEN /\ req' = [req EXCEPT ![t] = [r EXCEPT !.pc = FirstPc(o)]]
                  /\ UNCHANGED pending
             ELSE /\ req' = [req EXCEPT ![t] = [r EXCEPT !.pc = "lock"]]
                  /\ pending' = [pending EXCEPT ![t] = IF o \in GetOps THEN @ ELSE h]
        /\ UNCHANGED <<mgrVars, ent, nodes, link, store, reads, panic>>

Acquire(t) ==
    /\ req[t].pc = "lock"
    /\ CanAcquire(req[t].op, req[t].host)
    /\ req' = [req EXCEPT ![t].pc = FirstPc(req[t].op)]
    /\ pending' = [pending EXCEPT ![t] = NoHost]
    /\ UNCHANGED <<mgrVars, ent, nodes, link, store, calls, reads, panic>>

\* The lookup of t ends with entry id, or with ErrNotFound when id is Nil.
\* A get returns; a drop goes on to lock the entry.
Conclude(t, id, met) ==
    LET r == req[t] IN
    IF r.op \in GetOps
      THEN /\ req' = [req EXCEPT ![t] = NoCall]
           /\ reads' = [reads EXCEPT ![t] =
                  @ \cup {[key |-> <<r.host, r.name>>, id |-> id, met |-> met]}]
           /\ store' = IF r.op = "GetDB" /\ id # Nil
                         THEN [store EXCEPT ![t].db = id] ELSE store
      ELSE /\ req' = [req EXCEPT ![t] =
                  IF id = Nil THEN NoCall ELSE [r EXCEPT !.pc = "drop", !.found = id]]
           /\ UNCHANGED <<reads, store>>

\* The walk met a transaction whose outcome is not known yet.
MeetsInFlight(e, t) == HasActiveTxn(e) /\ ~IsSameTxn(e, t) /\ InFlight(e.txn)

\* One iteration of ForEachNodes.
Visit(t) ==
    LET r == req[t]
        list == NodeList(r.host, r.name)
        id == list[r.at]
        e == ent[id]
        seen == LookAt(e, t, IsDB(id))
        met == r.met \/ MeetsInFlight(e, t)
    IN  /\ r.pc = "walk"
        /\ IF r.at > Len(list) THEN Conclude(t, Nil, r.met) /\ UNCHANGED mgrVars
           ELSE
             /\ CanRLockEntry(id)
             /\ \/ /\ seen = "found"
                   /\ Conclude(t, id, met)
                   /\ UNCHANGED mgrVars
                \/ /\ seen = "stop"
                   /\ Conclude(t, Nil, met)
                   /\ UNCHANGED mgrVars
                \/ /\ seen = "next"
                   /\ req' = [req EXCEPT ![t].at = @ + 1, ![t].met = met]
                   /\ UNCHANGED <<mgrVars, reads, store>>
                \/ /\ seen = "wait"
                   /\ state[e.txn] # "Committing"
                   /\ Conclude(t, IF state[e.txn] = "Rollbacked" THEN id ELSE Nil, met)
                   /\ UNCHANGED mgrVars
                \/ /\ seen = "wait"
                   /\ GetTxnState(t, e.txn)
                   /\ req' = [req EXCEPT ![t].pc = "waited", ![t].met = met]
                   /\ UNCHANGED <<reads, store>>
        /\ UNCHANGED <<ent, nodes, link, calls, pending, panic>>

\* GetTxnState returned what it had read before it parked.
Waited(t) ==
    LET r == req[t] IN
    /\ r.pc = "waited"
    /\ parked[t] = NoTxn
    /\ Conclude(t, IF learned[t] = "Rollbacked"
                     THEN NodeList(r.host, r.name)[r.at] ELSE Nil, r.met)
    /\ UNCHANGED <<mgrVars, ent, nodes, link, calls, pending, panic>>

\* What t reads of a name after it has written the name is another question.
Forget(t, key) == {r \in reads[t] : r.key # key}

\* DropDBEntry and DropTableEntry once the entry is found: lock the entry,
\* DropEntryLocked, and the store's bookkeeping.
Drop(t) ==
    LET r == req[t]
        e == ent[r.found]
        error == DropError(e, t)
    IN  /\ r.pc = "drop"
        /\ CanLockEntry(r.found)
        /\ req' = [req EXCEPT ![t] = NoCall]
        /\ pending' = [pending EXCEPT ![t] = NoHost]
        /\ panic' = IF error = "panic" THEN "createdAfterStart" ELSE panic
        /\ IF error = "nil"
             THEN /\ ent' = [ent EXCEPT ![r.found] = EntryDropped(e, t)]
                  /\ reads' = [reads EXCEPT ![t] = Forget(t, <<r.host, r.name>>)]
                  /\ store' = [store EXCEPT ![t] =
                         IF r.op = "DropDB"
                           THEN [@ EXCEPT !.dropEntry = r.found, !.db = r.found]
                           ELSE [@ EXCEPT !.dropped = @ \cup {r.found},
                                          !.symTable = @ \cup {r.host}]]
             ELSE UNCHANGED <<ent, reads, store>>
        /\ UNCHANGED <<mgrVars, nodes, link, calls>>

\* Link.Insert: the new node starts at the head and moves behind the entries
\* that have no creation timestamp yet and whose writer started later
\* (DoCompre). Every entry it is compared with is locked for reading.
Overtaken(l, t) ==
    LET later(i) == ~HasCreated(ent[l[i]]) /\ startTS[t] < startTS[ent[l[i]].txn]
    IN  {k \in 0..Len(l) : /\ \A i \in 1..k : later(i)
                           /\ k < Len(l) => ~later(k + 1)}

CanInsert(l, k) == \A i \in 1..Len(l) : i <= k + 1 => CanRLockEntry(l[i])

InsertNode(l, k, id) == SubSeq(l, 1, k) \o <<id>> \o SubSeq(l, k + 1, Len(l))

\* Link.Delete and DeleteNode: the id is in the list.
DeleteNode(l, id) ==
    LET k == CHOOSE k \in 1..Len(l) : l[k] = id
    IN  SubSeq(l, 1, k - 1) \o SubSeq(l, k + 1, Len(l))

\* The two indexes of a host: the name list, newest first (CreateNode), and
\* the link. A new database brings indexes of its own.
IndexEntry(h, n, place) ==
    LET id == Len(ent) + 1 IN
    /\ nodes' = [k \in DOMAIN nodes \cup {<<h, n>>} |->
                    IF k = <<h, n>> THEN <<id>> \o NodeList(h, n) ELSE nodes[k]]
    /\ link' = [k \in DOMAIN link \cup (IF h = CatalogHost THEN {id} ELSE {}) |->
                   IF k = h THEN InsertNode(link[h], place, id)
                   ELSE IF k \in DOMAIN link THEN link[k] ELSE <<>>]

\* The end of addEntryLocked, and the store's bookkeeping.
AddEntry(t) ==
    LET r == req[t]
        id == Len(ent) + 1
    IN  /\ \E place \in Overtaken(link[r.host], t) :
               CanInsert(link[r.host], place) /\ IndexEntry(r.host, r.name, place)
        /\ ent' = Append(ent, NewEntry(r.host, r.name, t))
        /\ reads' = [reads EXCEPT ![t] = Forget(t, <<r.host, r.name>>)]
        /\ store' = [store EXCEPT ![t] =
               IF r.op = "CreateDB"
                 THEN [@ EXCEPT !.createEntry = id, !.db = id]
                 ELSE [@ EXCEPT !.created = @ \cup {id},
                                !.symTable = @ \cup {r.host}]]

\* addEntryLocked, up to and including PrepareWrite: only the newest entry of
\* the name is looked at. An existing list without entries is dereferenced.
Create(t) ==
    LET r == req[t]
        key == <<r.host, r.name>>
        head == nodes[key][1]
        e == ent[head]
    IN  /\ r.pc = "write"
        /\ \/ /\ key \notin DOMAIN nodes
              /\ AddEntry(t)
              /\ req' = [req EXCEPT ![t] = NoCall]
              /\ UNCHANGED <<mgrVars, panic>>
           \/ /\ key \in DOMAIN nodes /\ nodes[key] = <<>>
              /\ panic' = "emptyNodeList"
              /\ UNCHANGED <<mgrVars, ent, nodes, link, store, reads, req>>
           \/ /\ key \in DOMAIN nodes /\ nodes[key] # <<>>
              /\ CanRLockEntry(head)
              /\ UNCHANGED panic
              /\ IF WriteWaits(e, t) /\ state[e.txn] = "Committing"
                   THEN /\ GetTxnState(t, e.txn)
                        /\ req' = [req EXCEPT ![t].pc = "writeWaited"]
                        /\ UNCHANGED <<ent, nodes, link, store, reads>>
                   ELSE /\ IF ~WriteConflict(e, t) /\ NameIsFree(e)
                             THEN AddEntry(t)
                             ELSE UNCHANGED <<ent, nodes, link, store, reads>>
                        /\ req' = [req EXCEPT ![t] = NoCall]
                        /\ UNCHANGED mgrVars
        /\ UNCHANGED <<calls, pending>>

\* addEntryLocked after PrepareWrite has waited.
CreateWaited(t) ==
    LET r == req[t]
        head == nodes[<<r.host, r.name>>][1]
    IN  /\ r.pc = "writeWaited"
        /\ parked[t] = NoTxn
        /\ CanRLockEntry(head)
        /\ IF NameIsFree(ent[head]) THEN AddEntry(t)
                                    ELSE UNCHANGED <<ent, nodes, link, store, reads>>
        /\ req' = [req EXCEPT ![t] = NoCall]
        /\ UNCHANGED <<mgrVars, calls, pending, panic>>

\* txnTable.CreateSegment through a relation handle: the table and its
\* database become symbols of the anti-dependency check.
CreateSegment(t, id) ==
    /\ client[t] = "open"
    /\ req[t] = NoCall
    /\ "CreateSegment" \in May[t]
    /\ calls[t] < MaxCalls
    /\ ~IsDB(id)
    /\ id \in store[t].created \/ \E r \in reads[t] : r.id = id
    /\ CanRLock(ent[id].host)
    /\ calls' = [calls EXCEPT ![t] = @ + 1]
    /\ store' = [store EXCEPT ![t].written = @ \cup {id},
                              ![t].symTable = @ \cup {id, ent[id].host}]
    /\ UNCHANGED <<mgrVars, ent, nodes, link, req, pending, reads, panic>>

CatalogCall(t) ==
    \/ \E o \in DBOps \cup TableOps : \E n \in NamesOf(o) : Invoke(t, o, n)
    \/ \E id \in Ids : CreateSegment(t, id)

CatalogStep(t) ==
    \/ Acquire(t)
    \/ Visit(t)
    \/ Waited(t)
    \/ Drop(t)
    \/ Create(t)
    \/ CreateWaited(t)
    \/ /\ req[t].pc = "drop"
       /\ IsDB(req[t].found)
       /\ BlockOnLock(t, req[t].found)
=============================================================================
