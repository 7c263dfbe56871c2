----------------------------- MODULE UpdateChain -----------------------------
(***************************************************************************)
(* The chain of updates of one block (pkg/updates): transactions add a     *)
(* node each, fill it with deletes and new values, and commit; anyone may  *)
(* add a merge node that sums up the committed nodes; readers ask of a     *)
(* node whether they may read it.                                          *)
(*                                                                         *)
(* The chain relies on the transaction manager: one clock, one goroutine   *)
(* that draws a commit timestamp and then prepares, one that finishes.     *)
(* UncommitTS is 0 here; the code's is the largest timestamp.              *)
(***************************************************************************)
EXTENDS Integers, Sequences, SequencesExt

CONSTANTS
  Txns, NoTxn,
  Rows,         \* rows of the block, an interval
  MaxMerges     \* bound: merge nodes

VARIABLES
  now,          \* the manager's clock
  state,        \* TxnCtx.State
  start, stamp, \* TxnCtx.StartTS, TxnCtx.CommitTS
  chain,        \* BlockUpdateChain.Link; the payloads are BlockUpdates
  mine,         \* the node that AddNode gave a transaction
  latestMerge, latestCommit,
  panic,        \* the process died
  parked,       \* the node whose transaction a reader waits for
  cut,          \* history: a node was inserted while others were hidden
  seen          \* history: what readers were told of a transaction's node

UncommitTS == 0
Nil == 0

chainVars == <<now, state, start, stamp, chain, mine, latestMerge, latestCommit,
               panic, parked, cut, seen>>

\* Of BlockUpdates: localDeletes, where the empty set stands for the nil bitmap,
\* and the values of one column.
Merged(n) == n.nodeType = "merge"

\* BlockUpdates.Compare < 0
After(a, b) ==
  IF a.commitTs # b.commitTs
    THEN a.commitTs # UncommitTS /\ (b.commitTs = UncommitTS \/ a.commitTs < b.commitTs)
    ELSE IF a.commitTs = UncommitTS THEN a.startTs < b.startTs ELSE Merged(b)

L == INSTANCE DLink WITH Less <- After

node == chain.payload
Committed(n) == node[n].commitTs # UncommitTS

ChainInit ==
  /\ now = 0
  /\ state = [t \in Txns |-> "none"]
  /\ start = [t \in Txns |-> 0]
  /\ stamp = [t \in Txns |-> 0]
  /\ chain = L!EmptyLink
  /\ mine = [t \in Txns |-> Nil]
  /\ latestMerge = Nil /\ latestCommit = Nil
  /\ panic = FALSE
  /\ parked = [t \in Txns |-> Nil]
  /\ cut = FALSE
  /\ seen = {}

(***************************************************************************)
(* A transaction's own calls.                                              *)
(***************************************************************************)
Open(t) == state[t] = "active" /\ parked[t] = Nil

StartTxn(t) ==
  /\ state[t] = "none"
  /\ now' = now + 1
  /\ state' = [state EXCEPT ![t] = "active"]
  /\ start' = [start EXCEPT ![t] = now + 1]
  /\ UNCHANGED <<stamp, chain, mine, latestMerge, latestCommit, panic, parked, cut, seen>>

\* Some node does not follow the head.
Hidden == Len(L!Forward(chain)) < Len(node)

AddNode(t) ==
  /\ Open(t) /\ mine[t] = Nil
  /\ chain' = L!Insert(chain, [txn |-> t, startTs |-> start[t],
                               commitTs |-> UncommitTS, nodeType |-> "normal",
                               deletes |-> {}, vals |-> <<>>])
  /\ mine' = [mine EXCEPT ![t] = Len(node) + 1]
  /\ cut' = (cut \/ Hidden)
  /\ UNCHANGED <<now, state, start, stamp, latestMerge, latestCommit, panic, parked, seen>>

\* A row that was deleted is a write-write conflict; the call then has no effect.
DeleteLocked(t, first, last) ==
  LET n == mine[t] IN
  /\ Open(t) /\ n # Nil
  /\ first <= last
  /\ first .. last \cap node[n].deletes = {}
  /\ chain' = [chain EXCEPT !.payload[n].deletes = @ \cup first .. last]
  /\ UNCHANGED <<now, state, start, stamp, mine, latestMerge, latestCommit, panic,
                 parked, cut, seen>>

\* A deleted or an updated row is a conflict.  The new value is the writer.
\* Before the first delete the bitmap that is asked is nil.
UpdateLocked(t, row) ==
  LET n == mine[t] IN
  /\ Open(t) /\ n # Nil
  /\ IF node[n].deletes = {}
       THEN panic' = TRUE /\ UNCHANGED chain
       ELSE /\ row \notin node[n].deletes
            /\ row \notin DOMAIN node[n].vals
            /\ chain' = [chain EXCEPT !.payload[n].vals = @ @@ (row :> t)]
            /\ UNCHANGED panic
  /\ UNCHANGED <<now, state, start, stamp, mine, latestMerge, latestCommit,
                 parked, cut, seen>>

(***************************************************************************)
(* The manager: onPreparing stamps a transaction and prepares it before it *)
(* turns to the next one; Done publishes the outcome.                      *)
(***************************************************************************)
Preparing == {t \in Txns : state[t] = "committing" /\ mine[t] # Nil /\ ~Committed(mine[t])}

Stamp(t) ==
  /\ Open(t) /\ Preparing = {}
  /\ now' = now + 1
  /\ state' = [state EXCEPT ![t] = "committing"]
  /\ stamp' = [stamp EXCEPT ![t] = now + 1]
  /\ UNCHANGED <<start, chain, mine, latestMerge, latestCommit, panic, parked, cut, seen>>

\* BlockUpdateNode.PrepareCommit: the timestamp, and the node's place.
PrepareCommit(t) ==
  LET n == mine[t] IN
  /\ t \in Preparing
  /\ chain' = L!Update([chain EXCEPT !.payload[n].commitTs = stamp[t]], n)
  /\ latestCommit' = n
  /\ UNCHANGED <<now, state, start, stamp, mine, latestMerge, panic, parked, cut, seen>>

\* BlockUpdates.ApplyCommit, and the outcome.
ApplyCommit(t) ==
  /\ state[t] = "committing" /\ t \notin Preparing
  /\ chain' = IF mine[t] = Nil THEN chain ELSE [chain EXCEPT !.payload[mine[t]].txn = NoTxn]
  /\ state' = [state EXCEPT ![t] = "committed"]
  /\ UNCHANGED <<now, start, stamp, mine, latestMerge, latestCommit, panic, parked, cut, seen>>

\* Rolling back, before the stamp or after it, leaves the node as it is.
Rollback(t) ==
  /\ Open(t) \/ state[t] = "committing"
  /\ state' = [state EXCEPT ![t] = "rollbacked"]
  /\ UNCHANGED <<now, start, stamp, chain, mine, latestMerge, latestCommit, panic,
                 parked, cut, seen>>

(***************************************************************************)
(* AddMergeNode goes from the newest node to the oldest, leaves out the    *)
(* uncommitted ones and ends with the first merge node it meets.           *)
(***************************************************************************)
\* Variant: the merge node that ends the way is left out.
MergeInputAbove ==
  LET path == SelectSeq(L!Forward(chain), Committed)
      stop == {i \in DOMAIN path : Merged(node[path[i]])}
  IN  IF stop = {} THEN path ELSE SubSeq(path, 1, Min(stop) - 1)

MergeInput ==
  LET path == SelectSeq(L!Forward(chain), Committed)
      stop == {i \in DOMAIN path : Merged(node[path[i]])}
  IN  IF stop = {} THEN path ELSE SubSeq(path, 1, Min(stop))

\* MergeLocked of one node after the other.
MergeLocked(path) ==
  [txn |-> NoTxn, startTs |-> node[Head(path)].commitTs,
   commitTs |-> node[Head(path)].commitTs, nodeType |-> "merge",
   deletes |-> UNION {node[path[i]].deletes : i \in DOMAIN path},
   vals |-> FoldLeft(LAMBDA m, n : node[n].vals @@ m, <<>>, path)]

AddMergeNode ==
  /\ Cardinality({n \in DOMAIN node : Merged(node[n])}) < MaxMerges
  /\ MergeInput # <<>>
  /\ chain' = L!Insert(chain, MergeLocked(MergeInput))
  /\ latestMerge' = Len(node) + 1
  /\ cut' = (cut \/ Hidden)
  /\ UNCHANGED <<now, state, start, stamp, mine, latestCommit, panic, parked, seen>>

(***************************************************************************)
(* TxnCanRead of the node of another transaction (its own it can read).    *)
(* GetTxnState returns the state from before the wait, so whoever waited   *)
(* reads.                                                                  *)
(***************************************************************************)
\* The timestamp is drawn and not yet in the node.
Early(n) == node[n].txn \in Preparing

Tell(r, n, answer, waited) ==
  seen' = seen \cup {[reader |-> r, node |-> n, answer |-> answer, waited |-> waited,
                      early |-> Early(n)]}


TxnCanRead(r, n) ==
  LET u == node[n].txn
      committing == u # NoTxn /\ Committed(n) /\ node[n].commitTs <= start[r] IN
  /\ Open(r) /\ u # r
  /\ IF committing /\ state[u] = "committing"
       THEN parked' = [parked EXCEPT ![r] = n] /\ UNCHANGED seen
       ELSE /\ Tell(r, n, IF u = NoTxn THEN node[n].commitTs < start[r]
                          ELSE committing /\ state[u] # "rollbacked", FALSE)
            /\ UNCHANGED parked
  /\ UNCHANGED <<now, state, start, stamp, chain, mine, latestMerge, latestCommit,
                 panic, cut>>

Wake(r) ==
  LET n == parked[r] IN
  /\ n # Nil
  /\ \A t \in Txns : mine[t] = n => state[t] # "committing"
  /\ Tell(r, n, TRUE, TRUE)
  /\ parked' = [parked EXCEPT ![r] = Nil]
  /\ UNCHANGED <<now, state, start, stamp, chain, mine, latestMerge, latestCommit,
                 panic, cut>>

Live(t) ==
  \/ StartTxn(t) \/ AddNode(t) \/ Stamp(t) \/ PrepareCommit(t) \/ ApplyCommit(t)
  \/ Rollback(t)
Write(t) ==
  \/ \E first, last \in Rows : DeleteLocked(t, first, last)
  \/ \E row \in Rows : UpdateLocked(t, row)
Read(t) == Wake(t) \/ \E n \in DOMAIN node : TxnCanRead(t, n)

ChainNext == ~panic /\ (AddMergeNode \/ \E t \in Txns : Live(t) \/ Write(t) \/ Read(t))

ChainSpec == ChainInit /\ [][ChainNext]_chainVars

(***************************************************************************)
(* Properties.                                                             *)
(***************************************************************************)
\* Compare's order, which leaves open how merge nodes of one timestamp lie.
InOrder(path) ==
  \A i, j \in DOMAIN path : i < j =>
    LET a == node[path[i]]
        b == node[path[j]]
    IN  After(a, b) => Merged(a) /\ Merged(b)

\* As long as no node was inserted while others were hidden from the head, the
\* links are sound: the way back from the tail has every node, in the order of
\* Compare, and the way forward from the head is an end of it that has all the
\* committed nodes.  In any case the nodes are visited from new to old, and the
\* last one committed is the newest.
ChainIntact ==
  LET back == Reverse(L!Backward(chain))
      forth == L!Forward(chain)
  IN  /\ ~cut => /\ ToSet(back) = DOMAIN node
                 /\ InOrder(back)
                 /\ IsSuffix(forth, back)
                 /\ {n \in DOMAIN node : Committed(n)} \subseteq ToSet(forth)
      /\ InOrder(forth)
      /\ \A n \in DOMAIN node : node[n].commitTs <= IF latestCommit = Nil THEN 0
                                                     ELSE node[latestCommit].commitTs

Stamped(m) == {n \in DOMAIN node :
                 ~Merged(node[n]) /\ Committed(n) /\ node[n].commitTs <= node[m].commitTs}

\* A merge node stands for everything stamped up to its timestamp: exactly those
\* deletes, exactly those cells, and where several wrote a cell the value of
\* the oldest (not, as a reader of the block would expect, of the newest).  It
\* includes a transaction that is rolled back after the stamp.  It needs an
\* intact chain.
MergeSums ==
  \A m \in DOMAIN node :
    Merged(node[m]) /\ ~cut =>
      /\ node[m].deletes = UNION {node[n].deletes : n \in Stamped(m)}
      /\ DOMAIN node[m].vals = UNION {DOMAIN node[n].vals : n \in Stamped(m)}
      /\ \A r \in DOMAIN node[m].vals :
           \E n \in Stamped(m) :
             /\ r \in DOMAIN node[n].vals /\ node[n].vals[r] = node[m].vals[r]
             /\ \A o \in Stamped(m) : r \in DOMAIN node[o].vals => node[n].commitTs <= node[o].commitTs


\* TestUpdates2 counts the nodes of the chain after inserts and commits and
\* finds all of them: no committed update is ever lost.
NoUpdateLost ==
  \A t \in Txns :
    mine[t] # Nil /\ state[t] = "committed" => mine[t] \in ToSet(L!Forward(chain))
=============================================================================
