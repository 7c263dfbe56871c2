------------------------------ MODULE TableData ------------------------------
(***************************************************************************)
(* Segments and blocks of one table.  Clients create some; the prepare     *)
(* goroutine moves the local rows of a transaction into appendable blocks  *)
(* (PreCommit), which it creates as needed, then draws the commit          *)
(* timestamp and stamps the entries; the commit goroutine releases them;   *)
(* and a reader walks segments and blocks.                                 *)
(*                                                                         *)
(* A row is <<transaction, node, offset>>; entries are named by their      *)
(* nodes in the links; UncommitTS is 0.                                    *)
(***************************************************************************)
EXTENDS Integers, SequencesExt

CONSTANTS
  Txns, NoTxn,
  BlockMaxRows, SegmentMaxBlocks,  \* of the schema
  NodeRows,                        \* txnbase.MaxNodeRows
  RowCounts,                       \* how many rows a transaction may append
  MaxCreates                       \* bound: segments and blocks that clients create

VARIABLES
  now,           \* the manager's clock
  state,         \* of a transaction
  start, stamp,  \* its timestamps
  staged,        \* the number of rows of each of its insert nodes
  segs,          \* TableEntry.link; the payloads are segment entries
  aSeg,          \* dataTable.aSeg, a segment or Nil
  prep,          \* where the prepare goroutine is in PreCommit
  creates,       \* how many segments and blocks clients created
  appends,       \* insertNode.appends of all nodes
  reader         \* the reader's start, position and history

dataVars == <<now, state, start, stamp, staged, segs, aSeg, prep, creates, appends, reader>>

(***************************************************************************)
(* Entries.  A segment entry also has its link of blocks and the aBlk of   *)
(* its data; a block entry has the rows of its data.  "by" is history: the *)
(* creator, also when ApplyCommit has set the entry's Txn to nil.          *)
(***************************************************************************)
\* DoCompre < 0
EntryLess(a, b) ==
  IF a.createAt = 0 /\ b.createAt = 0 THEN a.start < b.start
  ELSE a.createAt # 0 /\ (b.createAt = 0 \/ a.createAt < b.createAt)

E == INSTANCE DLink WITH Less <- EntryLess

None == E!Nil
Seg(s) == segs.payload[s]
Blk(s, b) == Seg(s).blks.payload[b]

NewSegmentEntry(t) ==
  [txn |-> t, by |-> t, start |-> start[t], createAt |-> 0, blks |-> E!EmptyLink, aBlk |-> None]
NewBlockEntry(t) ==
  [txn |-> t, by |-> t, start |-> start[t], createAt |-> 0, rows |-> <<>>]

\* On a link, so that they can be combined in one step.
CreateSegment(l, t) == E!Insert(l, NewSegmentEntry(t))
CreateBlock(l, s, t) == [l EXCEPT !.payload[s].blks = E!Insert(@, NewBlockEntry(t))]
Newest(l) == Len(l.payload)

(***************************************************************************)
(* Clients.                                                                *)
(***************************************************************************)
NoReader == [start |-> 0, phase |-> "none", seg |-> None, blk |-> None, due |-> FALSE,
             got |-> {}, early |-> {}, first |-> {}]
NoPrep == [txn |-> NoTxn, node |-> 0, appended |-> 0]

DataInit ==
  /\ now = 0
  /\ state = [t \in Txns |-> "none"]
  /\ start = [t \in Txns |-> 0] /\ stamp = [t \in Txns |-> 0]
  /\ staged = [t \in Txns |-> <<>>]
  /\ segs = E!EmptyLink /\ aSeg = None
  /\ prep = NoPrep /\ creates = 0 /\ appends = {}
  /\ reader = NoReader

StartTxn(t) ==
  /\ state[t] = "none"
  /\ now' = now + 1
  /\ state' = [state EXCEPT ![t] = "active"]
  /\ start' = [start EXCEPT ![t] = now + 1]
  /\ UNCHANGED <<creates, stamp, staged, segs, aSeg, prep, appends, reader>>

\* Append of n rows leaves full nodes and one that is not (see LocalRows).
StageRows(t, n) ==
  /\ state[t] = "active" /\ staged[t] = <<>>
  /\ staged' = [staged EXCEPT ![t] = [i \in 1 .. (n \div NodeRows) + 1 |->
                                        IF i * NodeRows <= n THEN NodeRows ELSE n % NodeRows]]
  /\ UNCHANGED <<creates, now, state, start, stamp, segs, aSeg, prep, appends, reader>>

ClientCreates(t, l) ==
  /\ state[t] = "active"
  /\ creates < MaxCreates /\ creates' = creates + 1
  /\ segs' = l
  /\ UNCHANGED <<now, state, start, stamp, staged, aSeg, prep, appends, reader>>

ClientSegment(t) == ClientCreates(t, CreateSegment(segs, t))
ClientBlock(t, s) == ClientCreates(t, CreateBlock(segs, s, t))

\* Rollback of an open transaction: there is no PreCommit, and segments and
\* blocks that it created stay.
RollbackOpen(t) ==
  /\ state[t] = "active"
  /\ state' = [state EXCEPT ![t] = "rollbacked"]
  /\ UNCHANGED <<creates, now, start, stamp, staged, segs, aSeg, prep, appends, reader>>

(***************************************************************************)
(* PreCommit: applyAppendInode of each node, a round of its loop in two    *)
(* steps.                                                                  *)
(***************************************************************************)
BeginPreCommit(t) ==
  /\ state[t] = "active" /\ prep = NoPrep
  /\ \A u \in Txns : state[u] \notin {"appended", "stamped", "stamping"}
  /\ state' = [state EXCEPT ![t] = "appending"]
  /\ prep' = [txn |-> t, node |-> 1, appended |-> 0]
  /\ UNCHANGED <<creates, now, start, stamp, staged, segs, aSeg, appends, reader>>

NodesLeft == prep # NoPrep /\ prep.node <= Len(staged[prep.txn])
RowsLeft == staged[prep.txn][prep.node] - prep.appended

\* Variant: only the block of the same transaction.
HasAppenderOwn ==
  /\ aSeg # None
  /\ LET b == Blk(aSeg, Seg(aSeg).aBlk) IN b.by = prep.txn /\ Len(b.rows) < BlockMaxRows

\* dataTable.GetAppender finds one.
HasAppender == aSeg # None /\ Len(Blk(aSeg, Seg(aSeg).aBlk).rows) < BlockMaxRows

\* The blocks of clients count.
SegmentFull(s) == Newest(Seg(s).blks) >= SegmentMaxBlocks

\* GetAppender finds none: create a block, in a new segment where there is
\* none with room for it, and make it the appender (SetAppender).
MakeAppender ==
  /\ NodesLeft /\ RowsLeft > 0 /\ ~HasAppender
  /\ LET fresh == aSeg = None \/ SegmentFull(aSeg)
         l == IF fresh THEN CreateSegment(segs, prep.txn) ELSE segs
         s == IF fresh THEN Newest(l) ELSE aSeg
         m == CreateBlock(l, s, prep.txn)
     IN  /\ segs' = [m EXCEPT !.payload[s].aBlk = Newest(m.payload[s].blks)]
         /\ aSeg' = s
  /\ UNCHANGED <<creates, now, state, start, stamp, staged, prep, appends, reader>>

\* Variant: the index of the last row is exclusive.
FirstRowsShort(t, n, count) == [i \in 1 .. count - 1 |-> <<t, n, i - 1>>]

\* insertNode.Window(0, count - 1): it always begins at the first row.
FirstRows(t, n, count) == [i \in 1 .. count |-> <<t, n, i - 1>>]

\* PrepareAppend, ApplyAppend, AddApplyInfo
ApplyAppend ==
  LET t == prep.txn
      b == Seg(aSeg).aBlk
      off == Len(Blk(aSeg, b).rows)
      toAppend == Min({RowsLeft, BlockMaxRows - off})
  IN  /\ NodesLeft /\ RowsLeft > 0 /\ HasAppender
      /\ segs' = [segs EXCEPT !.payload[aSeg].blks.payload[b].rows =
                    @ \o FirstRows(t, prep.node, toAppend)]
      /\ appends' = appends \cup {[txn |-> t, node |-> prep.node, srcOff |-> prep.appended,
                                   len |-> toAppend, seg |-> aSeg, blk |-> b, destOff |-> off]}
      /\ prep' = [prep EXCEPT !.appended = @ + toAppend]
      /\ UNCHANGED <<creates, now, state, start, stamp, staged, aSeg, reader>>

NextInode ==
  /\ NodesLeft /\ RowsLeft = 0
  /\ prep' = [prep EXCEPT !.node = @ + 1, !.appended = 0]
  /\ UNCHANGED <<creates, now, state, start, stamp, staged, segs, aSeg, appends, reader>>

EndPreCommit ==
  /\ prep # NoPrep /\ ~NodesLeft
  /\ state' = [state EXCEPT ![prep.txn] = "appended"]
  /\ prep' = NoPrep
  /\ UNCHANGED <<creates, now, start, stamp, staged, segs, aSeg, appends, reader>>

(***************************************************************************)
(* The rest of the pipeline.                                               *)
(***************************************************************************)
Stamp(t) ==
  /\ state[t] = "appended"
  /\ now' = now + 1
  /\ stamp' = [stamp EXCEPT ![t] = now + 1]
  /\ state' = [state EXCEPT ![t] = "stamped"]
  /\ UNCHANGED <<creates, start, staged, segs, aSeg, prep, appends, reader>>

\* BaseEntry.PrepareCommit of a created entry, and ApplyCommit of those of t
\* in a link
Stamped(e) == [e EXCEPT !.createAt = stamp[e.by]]
Released(l, t) ==
  [l EXCEPT !.payload = [s \in DOMAIN @ |-> IF @[s].by = t THEN [@[s] EXCEPT !.txn = NoTxn] ELSE @[s]]]

\* The check found no conflict.  The entries are stamped one by one, each under
\* its own lock: csegs in the order of creation, then cblks, here in any order.
Unstamped(t) == {s \in DOMAIN segs.payload : Seg(s).by = t /\ Seg(s).createAt = 0}
UnstampedBlocks(t) ==
  UNION {{<<s, b>> : b \in {b \in DOMAIN Seg(s).blks.payload : Blk(s, b).by = t /\ Blk(s, b).createAt = 0}} :
           s \in DOMAIN segs.payload}

PrepareSegment(t) ==
  /\ state[t] \in {"stamped", "stamping"} /\ Unstamped(t) # {}
  /\ segs' = [segs EXCEPT !.payload[Min(Unstamped(t))] = Stamped(@)]
  /\ state' = [state EXCEPT ![t] = "stamping"]
  /\ UNCHANGED <<creates, now, start, stamp, staged, aSeg, prep, appends, reader>>

PrepareBlock(t, id) ==
  /\ state[t] \in {"stamped", "stamping"} /\ Unstamped(t) = {}
  /\ segs' = [segs EXCEPT !.payload[id[1]].blks.payload[id[2]] = Stamped(@)]
  /\ state' = [state EXCEPT ![t] = "stamping"]
  /\ UNCHANGED <<creates, now, start, stamp, staged, aSeg, prep, appends, reader>>


\* The end of PrepareCommit
Prepared(t) ==
  /\ state[t] \in {"stamped", "stamping"} /\ Unstamped(t) = {}
  /\ UnstampedBlocks(t) = {}
  /\ state' = [state EXCEPT ![t] = "prepared"]
  /\ UNCHANGED <<creates, now, start, stamp, staged, segs, aSeg, prep, appends, reader>>

\* The check finds a conflict, on this table or on another.  PrepareRollback
\* leaves rows, blocks, segments and the appender as they are.
Conflict(t) ==
  /\ state[t] = "stamped"
  /\ state' = [state EXCEPT ![t] = "rollbacked"]
  /\ UNCHANGED <<creates, now, start, stamp, staged, segs, aSeg, prep, appends, reader>>

\* In the order of the commit queue.  A stamped entry is read in the same way
\* with and without its Txn, so that releasing them all is one step.
ApplyCommit(t) ==
  /\ state[t] = "prepared"
  /\ \A u \in Txns : state[u] = "prepared" => stamp[t] <= stamp[u]
  /\ LET own == Released(segs, t) IN
     segs' = [own EXCEPT !.payload = [s \in DOMAIN @ |-> [@[s] EXCEPT !.blks = Released(@, t)]]]
  /\ state' = [state EXCEPT ![t] = "committed"]
  /\ UNCHANGED <<creates, now, start, stamp, staged, aSeg, prep, appends, reader>>

(***************************************************************************)
(* The reader, a transaction that writes nothing: for each segment of its  *)
(* segmentIt, for each block of a blockIt, the rows.  A step follows one   *)
(* pointer, from the tail.  "early" is history: the entries skipped while  *)
(* their creator had a timestamp and they had not, and "first" those where *)
(* an iterator began.                                                      *)
(***************************************************************************)
OnlyReader(r) ==
  /\ reader' = r
  /\ UNCHANGED <<creates, now, state, start, stamp, staged, segs, aSeg, prep, appends>>

StartReader ==
  /\ reader.phase = "none"
  /\ now' = now + 1
  /\ reader' = [reader EXCEPT !.phase = "started", !.start = now + 1]
  /\ UNCHANGED <<creates, state, start, stamp, staged, segs, aSeg, prep, appends>>

\* newSegmentIt: the first segment is not asked whether it can be read.
MakeSegmentIt ==
  /\ reader.phase = "started"
  /\ OnlyReader([reader EXCEPT !.seg = segs.tail, !.first = @ \cup {<<segs.tail, None>>},
                               !.phase = IF segs.tail = None THEN "done" ELSE "segment"])

\* newBlockIt: nor is the first block.
MakeBlockIt ==
  LET b == Seg(reader.seg).blks.tail IN
  /\ reader.phase = "segment"
  /\ OnlyReader([reader EXCEPT !.blk = b, !.first = @ \cup {<<reader.seg, b>>},
                               !.due = b # None,
                               !.phase = IF b = None THEN "skip" ELSE "block"])

\* GetVectorCopy: all the rows that the block has, of whatever transaction.
ReadBlock ==
  /\ reader.phase = "block" /\ reader.due
  /\ OnlyReader([reader EXCEPT !.due = FALSE,
                   !.got = @ \cup {<<reader.seg, reader.blk, Len(Blk(reader.seg, reader.blk).rows)>>}])


\* BaseEntry.TxnCanRead of an entry that is another's and never dropped
TxnCanRead(e) ==
  IF e.txn = NoTxn THEN e.createAt <= reader.start
  ELSE e.createAt # 0 /\ e.createAt <= reader.start

Early(e, id) ==
  IF e.createAt = 0 /\ state[e.by] \in {"stamped", "stamping"} THEN {id} ELSE {}

\* A round of the loop of blockIt.Next
BlockItNext ==
  LET s == reader.seg
      n == Seg(s).blks.prev[reader.blk]
  IN  /\ reader.phase = "block" /\ ~reader.due
      /\ OnlyReader(IF n = None THEN [reader EXCEPT !.blk = None, !.phase = "skip"]
                    ELSE [reader EXCEPT !.blk = n, !.due = TxnCanRead(Blk(s, n)),
                            !.early = @ \cup Early(Blk(s, n), <<s, n>>)])

\* A round of the loop of segmentIt.Next
SegmentItNext ==
  LET n == segs.prev[reader.seg] IN
  /\ reader.phase = "skip"
  /\ OnlyReader(IF n = None THEN [reader EXCEPT !.seg = None, !.phase = "done"]
                ELSE [reader EXCEPT !.seg = n,
                        !.phase = IF TxnCanRead(Seg(n)) THEN "segment" ELSE "skip",
                        !.early = @ \cup Early(Seg(n), <<n, None>>)])

DataNext ==
  \/ \E t \in Txns :
       \/ StartTxn(t) \/ ClientSegment(t) \/ RollbackOpen(t) \/ BeginPreCommit(t)
       \/ Stamp(t) \/ PrepareSegment(t) \/ Prepared(t) \/ Conflict(t) \/ ApplyCommit(t)
       \/ \E n \in RowCounts : StageRows(t, n)
       \/ \E s \in DOMAIN segs.payload : ClientBlock(t, s)
       \/ \E id \in UnstampedBlocks(t) : PrepareBlock(t, id)
  \/ MakeAppender \/ ApplyAppend \/ NextInode \/ EndPreCommit
  \/ StartReader \/ MakeSegmentIt \/ MakeBlockIt \/ ReadBlock \/ BlockItNext \/ SegmentItNext

DataSpec == DataInit /\ [][DataNext]_dataVars

(***************************************************************************)
(* Properties.                                                             *)
(***************************************************************************)
Blocks == UNION {{<<s, b>> : b \in DOMAIN Seg(s).blks.payload} : s \in DOMAIN segs.payload}
Rows(id) == Blk(id[1], id[2]).rows

\* Where row i of a node of t is stored, as <<segment, block, offset>>.
Places(t, n, i) ==
  UNION {{<<id[1], id[2], k - 1>> : k \in {k \in DOMAIN Rows(id) : Rows(id)[k] = <<t, n, i>>}} :
           id \in Blocks}

AppendsOf(t, n) == {a \in appends : a.txn = t /\ a.node = n}
SourceRows(a) == a.srcOff .. a.srcOff + a.len - 1

\* applyAppendInode: after PreCommit the apply infos of a node divide its rows,
\* as many rows are stored as it has, and, as long as the node went into one
\* block, every row is stored exactly once and where the info says.  (Of a node
\* that is spread over blocks the first rows are stored again and again, and
\* the last ones never: the window does not start at what was appended.)
RowsPlaced ==
  \A t \in Txns : state[t] \in {"appended", "stamped", "stamping", "prepared", "committed"} =>
    \A n \in DOMAIN staged[t] :
      LET rows == 0 .. staged[t][n] - 1
          mine == AppendsOf(t, n)
      IN  /\ \A i \in rows : \E a \in mine : i \in SourceRows(a)
          /\ \A a \in mine : SourceRows(a) \subseteq rows
          /\ \A a, b \in mine : a # b => SourceRows(a) \cap SourceRows(b) = {}
          /\ Cardinality(UNION {Places(t, n, i) : i \in rows}) = Cardinality(rows)
          /\ \A a \in mine : mine = {a} =>
               \A i \in rows : Places(t, n, i) = {<<a.seg, a.blk, a.destOff + i>>}

\* GetAppender, SetAppender and IsAppendable: rows go only where the apply infos
\* say, no block gets more rows than the schema allows, a block is left for
\* another only when it is full, and a segment only when it has its blocks.
\* This holds over commits, conflicts and the blocks that clients put between.
AppendersFill ==
  LET used == {<<a.seg, a.blk>> : a \in appends} IN
  /\ \A id \in Blocks : Rows(id) # <<>> => id \in used
  /\ \A id \in used :
       /\ Len(Rows(id)) <= BlockMaxRows
       /\ Len(Rows(id)) = BlockMaxRows \/ id = <<aSeg, Seg(aSeg).aBlk>>
       /\ id[1] = aSeg \/ SegmentFull(id[1])

\* The entry is out of sight for the reader for one of two reasons.
Undone(e) == state[e.by] = "rollbacked"
Hidden(t, s, b) ==
  \/ Undone(Seg(s)) \/ Undone(Blk(s, b))
  \/ Seg(s).by = t /\ <<s, None>> \in reader.early
  \/ Blk(s, b).by = t /\ <<s, b>> \in reader.early


CreatedForReader(e) == e.createAt # 0 /\ e.createAt < reader.start

=============================================================================
