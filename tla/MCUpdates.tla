------------------------------ MODULE MCUpdates ------------------------------
(***************************************************************************)
(* What a transaction's updates consist of, in scenes that do not interact:*)
(*   order   the chain under commits and merges, three writers             *)
(*   merge   two writers, with contents                                    *)
(*   read    two writers and a reader                                      *)
(*   list    a catalog list and an iterator                                *)
(*   record  the log record                                                *)
(*   symbol  the keys of the anti-dependency check                         *)
(*   column  a column and its changes                                      *)
(***************************************************************************)
EXTENDS UpdateChain, LinkIter, Records, Vectors

CONSTANT Scenes

VARIABLES
  scene,
  bystander  \* who does not write: nobody in order, the reader in read

upVars == <<chainVars, iterVars, recVars, vecVars, scene, bystander>>

(***************************************************************************)
(* The commands of the record scene.                                       *)
(***************************************************************************)
Id(n) == <<n, 2, 3, 0, 1, 0>>
Long == [i \in 1 .. W + 1 |-> 1]
Ent(tag, nums, text) == [tag |-> tag, id |-> 0, ent |-> 5, nums |-> nums, text |-> text]
NoCols == [ints |-> <<9, 0, 2>>, name |-> <<3>>, cols |-> <<>>, index |-> <<>>]
Upd(dels, cols) == [tag |-> CmdUpdate, id |-> 0, upd |-> [id |-> Id(4), deletes |-> dels, cols |-> cols]]
App(parts) == [tag |-> CmdAppend, id |-> 0, cmds |-> parts]
Bitmap == [tag |-> CmdDeleteBitmap, bitmap |-> {1, 3}]
Bat == [tag |-> CmdBatch, bat |-> <<[typ |-> 2, data |-> <<7, 8>>], [typ |-> 3, data |-> <<9, 1, 4>>]>>]
Ptr == [tag |-> CmdPointer, group |-> 1, lsn |-> 300]
MCCommands == {
  Ent(CmdCreateDatabase, <<6>>, <<1, 2>>), Ent(CmdCreateDatabase, <<6>>, Long),
  Ent(CmdDropDatabase, <<7>>, <<>>),
  Ent(CmdCreateTable, <<1, 6>>, AppendCol(AppendCol(NoCols, <<1>>, 2), <<>>, 3)),
  Ent(CmdDropTable, <<1, 7>>, <<>>),
  Ent(CmdCreateSegment, <<1, 2, 6>>, <<>>), Ent(CmdDropSegment, <<>>, <<>>),
  Ent(CmdCreateBlock, <<1, 2, 3, 6>>, <<>>), Ent(CmdDropBlock, <<>>, <<>>),
  Upd({}, <<>>), Upd({2}, (0 :> (0 :> 4 @@ 1 :> 5))), Upd({}, (1 :> (1 :> 5))),
  App(<<Bat, Bitmap>>), App(<<Ptr>>) }

MCBytes == {<<>>, <<1>>, <<2, 3>>}

UpInit ==
  /\ scene \in Scenes
  /\ bystander \in IF scene \in {"merge", "read"} THEN Txns ELSE {NoTxn}
  /\ ChainInit /\ IterInit /\ RecInit
  /\ IF scene = "column" THEN VecInit
     ELSE vec = NewVector("int32") /\ ref = <<>> /\ applies = 0 /\ crashed = FALSE

Writers == Txns \ {bystander}
ReaderLives == StartTxn(bystander) \/ Read(bystander)

InScene ==
  \/ /\ scene \in {"order", "merge", "read"} /\ ~panic
     /\ \/ \E t \in Writers : Live(t)
        \/ scene # "read" /\ AddMergeNode
        \/ scene = "merge" /\ \E t \in Writers : Write(t)
        \/ scene = "read" /\ ReaderLives
     /\ UNCHANGED <<iterVars, recVars, vecVars>>
  \/ scene = "list" /\ IterNext /\ UNCHANGED <<chainVars, recVars, vecVars>>
  \/ scene = "record" /\ RecNext /\ UNCHANGED <<chainVars, iterVars, vecVars>>
  \/ scene = "symbol" /\ SymNext /\ UNCHANGED <<chainVars, iterVars, vecVars>>
  \/ scene = "column" /\ VecNext /\ UNCHANGED <<chainVars, iterVars, recVars>>

UpNext == InScene /\ UNCHANGED <<scene, bystander>>

UpSpec == UpInit /\ [][UpNext]_upVars

Symmetry == Permutations(Txns)
=============================================================================
