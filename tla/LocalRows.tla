------------------------------ MODULE LocalRows ------------------------------
(***************************************************************************)
(* The rows that one transaction has appended to one table and not yet     *)
(* committed (txnTable, insertNode, simpleTableIndex): a sequence of       *)
(* insert nodes of MaxNodeRows rows, managed by the buffer manager, which  *)
(* unloads a node into the log when nobody has it pinned.                  *)
(*                                                                         *)
(* A row is its primary key.  Rows count from 0, nodes from 1.             *)
(***************************************************************************)
EXTENDS Integers, SequencesExt

CONSTANTS
  Keys,
  MaxNodeRows,
  MaxBatch,      \* bound: rows of a batch
  MaxLocalRows   \* bound: rows of the transaction

VARIABLES
  inodes,        \* txnTable.inodes
  appendable,    \* the node of txnTable.appendable, which is pinned, or 0
  rows,          \* txnTable.rows
  tree,          \* simpleTableIndex.tree
  logged,        \* payloads of the entries of group UC
  todo,          \* what Append has not yet appended of its batch
  made,          \* the commands of CollectCmd, one of each node so far
  died,          \* "not expected": a node could not be pinned
  promised,      \* reference: the rows that Append was called with, in order, but
                 \* for those that it dropped
  deleted        \* reference: the rows that calls deleted or replaced

localVars == <<inodes, appendable, rows, tree, logged, todo, made, died, promised, deleted>>

NewInsertNode ==
  [data |-> <<>>, deletes |-> {}, lsn |-> 0, loaded |-> TRUE, transient |-> FALSE]

LocalInit ==
  /\ inodes = <<>> /\ appendable = 0 /\ rows = 0
  /\ tree = <<>> /\ logged = <<>> /\ todo = <<>> /\ made = <<>>
  /\ died = FALSE /\ promised = <<>> /\ deleted = {}

\* Between two calls, before the commit.
Idle == todo = <<>> /\ made = <<>> /\ ~died

(***************************************************************************)
(* Loading and unloading.                                                  *)
(***************************************************************************)
\* OnLoad: a node that was logged takes its data from the log.
OnLoad(n) ==
  [n EXCEPT !.loaded = TRUE,
            !.data = IF n.transient \/ n.lsn = 0 THEN @ ELSE logged[n.lsn]]
Pinned(n) == IF n.loaded THEN n ELSE OnLoad(n)

\* Whether execUnload writes an entry.  A node is logged once.
Logs(n) == ~n.transient /\ n.lsn = 0 /\ n.data # <<>>


\* The buffer manager evicts a node.
OnUnload(i) ==
  LET n == inodes[i] IN
  /\ i # appendable /\ n.loaded /\ ~died
  /\ inodes' = [inodes EXCEPT ![i].loaded = FALSE,
                              ![i].lsn = IF Logs(n) THEN Len(logged) + 1 ELSE @]
  /\ logged' = IF Logs(n) THEN Append(logged, n.data) ELSE logged
  /\ UNCHANGED <<appendable, rows, tree, todo, made, died, promised, deleted>>

\* GetLocalValue of a row of node i loads it.
LoadNode(i) ==
  /\ Idle /\ ~inodes[i].loaded
  /\ inodes' = [inodes EXCEPT ![i] = OnLoad(@)]
  /\ UNCHANGED <<appendable, rows, tree, logged, todo, made, died, promised, deleted>>

\* It panics, as CollectCmd does, when there is no room for the node.
PinFails(i) ==
  /\ todo = <<>> /\ ~died /\ ~inodes[i].loaded
  /\ died' = TRUE
  /\ UNCHANGED <<inodes, appendable, rows, tree, logged, todo, made, promised, deleted>>

(***************************************************************************)
(* Append.                                                                 *)
(***************************************************************************)
\* The call.  The first one registers a node.
BeginAppend(batch) ==
  /\ todo' = batch
  /\ promised' = promised \o batch

AppendRows(batch) ==
  /\ Idle /\ Len(promised) + Len(batch) <= MaxLocalRows
  /\ BeginAppend(batch)
  /\ IF appendable = 0
       THEN inodes' = Append(inodes, NewInsertNode) /\ appendable' = Len(inodes) + 1
       ELSE UNCHANGED <<inodes, appendable>>
  /\ UNCHANGED <<rows, tree, logged, made, died, deleted>>

\* PrepareAppend: as many rows as the node has space for.
PrepareAppend(n) == Min({Len(todo), MaxNodeRows - Len(n.data)})

\* index.BatchInsert without dedup: the last row of a key stays.
BatchInsert(t, keys, row) ==
  [k \in DOMAIN t \cup ToSet(keys) |->
     IF k \in ToSet(keys) THEN row + Max({i \in DOMAIN keys : keys[i] = k}) - 1 ELSE t[k]]

\* One round of the loop.  A node that is full is unpinned and another one
\* registered, needed or not.
AppendRound ==
  LET n == inodes[appendable]
      count == PrepareAppend(n)
      chunk == SubSeq(todo, 1, count)
      grown == [inodes EXCEPT ![appendable].data = @ \o chunk]
      full  == Len(n.data) + count = MaxNodeRows
  IN  /\ todo # <<>> /\ ~died
      /\ inodes' = IF full THEN Append(grown, NewInsertNode) ELSE grown
      /\ appendable' = IF full THEN Len(inodes) + 1 ELSE appendable
      /\ tree' = BatchInsert(tree, chunk, rows)
      /\ rows' = rows + count
      /\ todo' = SubSeq(todo, count + 1, Len(todo))
      /\ UNCHANGED <<logged, made, died, promised, deleted>>

\* Expand finds no room.  The rest of the batch is dropped; the error is not
\* the one that Append returns, which is nil.
ExpandFails ==
  /\ todo # <<>> /\ ~died
  /\ todo' = <<>>
  /\ promised' = SubSeq(promised, 1, rows)
  /\ UNCHANGED <<inodes, appendable, rows, tree, logged, made, died, deleted>>

(***************************************************************************)
(* Deletes and updates.                                                    *)
(***************************************************************************)
\* GetLocalPhysicalAxis
Npos(row) == row \div MaxNodeRows + 1
Noffset(row) == row % MaxNodeRows

\* Variant: the last node's range begins where the first node's does.
RangeDeleteSameOffset(ns, first, last) ==
  [i \in DOMAIN ns |->
     IF i \notin Npos(first) .. Npos(last) THEN ns[i]
     ELSE [ns[i] EXCEPT !.deletes = @ \cup
             Noffset(first) .. (IF i = Npos(last) THEN Noffset(last) ELSE MaxNodeRows - 1)]]

\* RangeDeleteLocalRows: up to the end of the first node, one further in the
\* nodes between, up to the offset in the last.
RangeDelete(ns, first, last) ==
  LET from(i) == IF i = Npos(first) THEN Noffset(first) ELSE 0
      to(i) == CASE i = Npos(last)  -> Noffset(last)
                 [] i = Npos(first) -> MaxNodeRows - 1
                 [] OTHER           -> MaxNodeRows
  IN  [i \in DOMAIN ns |->
         IF i \notin Npos(first) .. Npos(last) THEN ns[i]
         ELSE [ns[i] EXCEPT !.deletes = @ \cup from(i) .. to(i)]]

RangeDeleteLocalRows(first, last) ==
  /\ Idle /\ first <= last /\ last < rows
  /\ inodes' = RangeDelete(inodes, first, last)
  /\ deleted' = deleted \cup first .. last
  /\ UNCHANGED <<appendable, rows, tree, logged, todo, made, died, promised>>

IsLocalDeleted(row) == Noffset(row) \in inodes[Npos(row)].deletes

\* The new value is not used: the row is deleted and appended as it was.
UpdateLocalValue(row) ==
  /\ Idle /\ row < rows /\ ~IsLocalDeleted(row)
  /\ Len(promised) < MaxLocalRows
  /\ inodes' = RangeDelete(inodes, row, row)
  /\ BeginAppend(<<inodes[Npos(row)].data[Noffset(row) + 1]>>)
  /\ deleted' = deleted \cup {row}
  /\ UNCHANGED <<appendable, rows, tree, logged, made, died>>

(***************************************************************************)
(* CollectCmd: one command of each node that has rows.  All nodes but the  *)
(* last are flushed.                                                       *)
(***************************************************************************)
NoCmd == [kind |-> "none"]

\* Variant: a node that is flushed is not logged first.
MakeCommandUnflushed(n, forceFlush) ==
  [node |-> [n EXCEPT !.lsn = IF forceFlush /\ Logs(n) THEN Len(logged) ELSE @],
   log  |-> logged,
   cmd  |-> CASE n.data = <<>>              -> NoCmd
              [] n.lsn = 0 /\ ~forceFlush   -> [kind |-> "batch", data |-> n.data, deletes |-> n.deletes]
              [] OTHER                      -> [kind |-> "pointer", deletes |-> n.deletes,
                                                lsn |-> IF n.lsn = 0 THEN Len(logged) ELSE n.lsn]]

MakeCommand(n, forceFlush) ==
  LET flush == n.lsn = 0 /\ forceFlush /\ Logs(n)
      lsn   == IF flush THEN Len(logged) + 1 ELSE n.lsn
  IN  [node |-> [n EXCEPT !.lsn = lsn],
       log  |-> IF flush THEN Append(logged, n.data) ELSE logged,
       cmd  |-> CASE n.data = <<>> -> NoCmd
                  [] lsn = 0       -> [kind |-> "batch", data |-> n.data, deletes |-> n.deletes]
                  [] OTHER         -> [kind |-> "pointer", lsn |-> lsn, deletes |-> n.deletes]]

CollectCmd ==
  LET i == Len(made) + 1
      m == MakeCommand(Pinned(inodes[i]), i < Len(inodes))
  IN  /\ todo = <<>> /\ ~died /\ i <= Len(inodes)
      /\ inodes' = [inodes EXCEPT ![i] = [m.node EXCEPT !.transient = TRUE]]
      /\ logged' = m.log
      /\ made' = Append(made, m.cmd)
      /\ UNCHANGED <<appendable, rows, tree, todo, died, promised, deleted>>

Batches == UNION {[1 .. n -> Keys] : n \in 1 .. MaxBatch}

LocalNext ==
  \/ \E batch \in Batches : AppendRows(batch)
  \/ AppendRound \/ ExpandFails \/ CollectCmd
  \/ \E first, last \in 0 .. rows - 1 : RangeDeleteLocalRows(first, last)
  \/ \E row \in 0 .. rows - 1 : UpdateLocalValue(row)
  \/ \E i \in DOMAIN inodes : OnUnload(i) \/ LoadNode(i) \/ PinFails(i)

LocalSpec == LocalInit /\ [][LocalNext]_localVars

(***************************************************************************)
(* Properties.                                                             *)
(***************************************************************************)
\* GetLocalValue, or 0 for a row that is not there
ValueOf(row) ==
  LET data == Pinned(inodes[Npos(row)]).data IN
  IF Noffset(row) < Len(data) THEN data[Noffset(row) + 1] ELSE 0


\* A row is deleted exactly if a call deleted or replaced it, although the
\* ranges of the inner nodes reach one row too far.
LocalDeletesExact ==
  \A row \in 0 .. rows - 1 : IsLocalDeleted(row) <=> row \in deleted

RowsOf(c) ==
  CASE c.kind = "none"    -> <<>>
    [] c.kind = "batch"   -> c.data
    [] c.kind = "pointer" -> IF c.lsn \in DOMAIN logged THEN logged[c.lsn] ELSE <<>>

\* The commands of a commit have every row, in the batch or in the entry they
\* point to, with its delete mark, whichever nodes were evicted before or
\* while they were collected.
CommandsHaveRows ==
  made # <<>> /\ Len(made) = Len(inodes) =>
    /\ FlattenSeq([i \in DOMAIN made |-> RowsOf(made[i])]) = promised
    /\ \A row \in 0 .. rows - 1 :
         row \in deleted <=> Noffset(row) \in made[Npos(row)].deletes
=============================================================================
