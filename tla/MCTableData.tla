----------------------------- MODULE MCTableData -----------------------------
(***************************************************************************)
(* The rows of a table, in scenes that do not interact:                    *)
(*   local   the insert nodes of one transaction                           *)
(*   info    the insert info of a block                                    *)
(*   fresh   a table without rows, two writers and a reader                *)
(*   grown   the same after a third transaction filled a block             *)
(***************************************************************************)
EXTENDS LocalRows, InsertInfo, TableData

CONSTANT Scenes

VARIABLES
  scene,
  bystander  \* the transaction that only grown has, and that is over

mcVars == <<localVars, infoVars, dataVars, scene, bystander>>

\* The entry e as t left it.
Left(t, e) == [e EXCEPT !.by = t, !.txn = NoTxn, !.start = 1, !.createAt = 2]

\* t appended BlockMaxRows rows and committed.
Grown(t) ==
  LET blk == [Left(t, NewBlockEntry(t)) EXCEPT !.rows = [i \in 1 .. BlockMaxRows |-> <<t, 1, i - 1>>]]
      seg == [Left(t, NewSegmentEntry(t)) EXCEPT !.blks = E!Insert(@, blk), !.aBlk = 1]
  IN  /\ now = 2
      /\ state = [u \in Txns |-> IF u = t THEN "committed" ELSE "none"]
      /\ start = [u \in Txns |-> IF u = t THEN 1 ELSE 0]
      /\ stamp = [u \in Txns |-> IF u = t THEN 2 ELSE 0]
      /\ staged = [u \in Txns |-> IF u = t THEN <<BlockMaxRows, 0>> ELSE <<>>]
      /\ segs = E!Insert(E!EmptyLink, seg) /\ aSeg = 1
      /\ prep = NoPrep /\ creates = 0 /\ reader = NoReader
      /\ appends = {[txn |-> t, node |-> 1, srcOff |-> 0, len |-> BlockMaxRows,
                     seg |-> 1, blk |-> 1, destOff |-> 0]}

MCInit ==
  /\ scene \in Scenes
  /\ bystander \in IF scene \in {"fresh", "grown"} THEN Txns ELSE {NoTxn}
  /\ LocalInit /\ InfoInit
  /\ IF scene = "grown" THEN Grown(bystander) ELSE DataInit

MCNext ==
  /\ UNCHANGED <<scene, bystander>>
  /\ \/ scene = "local" /\ LocalNext /\ UNCHANGED <<infoVars, dataVars>>
     \/ scene = "info" /\ InfoNext /\ UNCHANGED <<localVars, dataVars>>
     \/ /\ scene \in {"fresh", "grown"} /\ DataNext /\ UNCHANGED <<localVars, infoVars>>
        /\ state'[bystander] = state[bystander]

MCSpec == MCInit /\ [][MCNext]_mcVars

Symmetry == Permutations(Txns)
=============================================================================
