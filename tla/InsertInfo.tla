----------------------------- MODULE InsertInfo -----------------------------
(***************************************************************************)
(* The record a block keeps of which transaction appended up to which row  *)
(* (tables/insert.go), and the search for the last row that is visible at  *)
(* a timestamp.  Transactions are recorded when they have their commit     *)
(* timestamps; UncommitTS does not occur.                                  *)
(***************************************************************************)
EXTENDS Integers, SequencesExt

CONSTANT MaxRecords    \* bound: calls of RecordTxnLocked

VARIABLES
  offsets, tss,        \* insertInfo.offsets, insertInfo.ts
  offsetTxns, txnMap,  \* positions in flight, and the position of a transaction
  maxTs, maxOffset

infoVars == <<offsets, tss, offsetTxns, txnMap, maxTs, maxOffset>>

\* A transaction is its commit timestamp.  The info is made at time 1.
InfoInit ==
  /\ offsets = <<>> /\ tss = <<>>
  /\ offsetTxns = {} /\ txnMap = <<>>
  /\ maxTs = 1 /\ maxOffset = 0

\* Offsets grow; timestamps do too, but a transaction may append twice.
RecordTxnLocked(txn, offset) ==
  /\ Len(offsets) < MaxRecords
  /\ offsets' = Append(offsets, offset)
  /\ tss' = Append(tss, txn)
  /\ txnMap' = [u \in DOMAIN txnMap \cup {txn} |-> IF u = txn THEN Len(offsets) ELSE txnMap[u]]
  /\ offsetTxns' = offsetTxns \cup {Len(offsets)}
  /\ maxTs' = txn
  /\ maxOffset' = offset

\* Of a transaction that is not in the map the position is 0.
ApplyCommitLocked(txn) ==
  /\ txnMap' = [u \in DOMAIN txnMap \ {txn} |-> txnMap[u]]
  /\ offsetTxns' = offsetTxns \ {IF txn \in DOMAIN txnMap THEN txnMap[txn] ELSE 0}
  /\ UNCHANGED <<offsets, tss, maxTs, maxOffset>>

\* The binary search between l and h, with the best position so far.
RECURSIVE Search(_, _, _, _)
Search(ts, l, h, pos) ==
  LET m == (l + h) \div 2 IN
  CASE l > h            -> pos
    [] tss[m + 1] < ts  -> Search(ts, m + 1, h, m)
    [] tss[m + 1] > ts  -> Search(ts, l, m - 1, pos)
    [] OTHER            -> m

\* Variant: an exact match is not kept.
GetVisibleOffsetBefore(ts) ==
  LET pos == Search(ts - 1, 0, Len(tss) - 1, -1) IN
  IF ts >= maxTs THEN maxOffset ELSE IF pos < 0 THEN -1 ELSE offsets[pos + 1]

GetVisibleOffsetLocked(ts) ==
  LET pos == Search(ts, 0, Len(tss) - 1, -1) IN
  IF ts >= maxTs THEN maxOffset ELSE IF pos < 0 THEN -1 ELSE offsets[pos + 1]

InfoNext ==
  \/ \E txn \in {maxTs, maxTs + 1, maxTs + 2} :
       /\ txn = maxTs => txn \in DOMAIN txnMap
       /\ RecordTxnLocked(txn, maxOffset + 1)
  \/ \E txn \in DOMAIN txnMap : ApplyCommitLocked(txn)

InfoSpec == InfoInit /\ [][InfoNext]_infoVars

(***************************************************************************)
(* Properties.                                                             *)
(***************************************************************************)
Once(i) == \A j \in DOMAIN tss : tss[j] = tss[i] => j = i

\* A snapshot sees up to the last row appended by a transaction that committed
\* by then.  Two cases are not like that: before the first record row 0
\* counts as visible from the time the block was made, and of a transaction
\* that appended more than once, and is not the last one, any of its records
\* may be the end.
VisibleIsLastCommitted ==
  \A ts \in 0 .. maxTs + 1 :
    LET before == {i \in DOMAIN tss : tss[i] <= ts}
        seen   == GetVisibleOffsetLocked(ts)
    IN  IF before = {} THEN seen = IF ts >= maxTs THEN 0 ELSE -1
        ELSE LET last == Max(before) IN
             /\ Once(last) \/ ts >= maxTs => seen = offsets[last]
             /\ \E i \in before : tss[i] = tss[last] /\ seen = offsets[i]
=============================================================================
