----------------------------- MODULE BaseEntry -----------------------------
(***************************************************************************)
(* The part every catalog entry shares (pkg/catalog/base.go): which        *)
(* transaction is writing it, what that transaction does to it, and the    *)
(* timestamps at which it was created and deleted. An entry is a record;   *)
(* the operators are the methods of BaseEntry.                             *)
(***************************************************************************)
EXTENDS TxnManager

\* A zero timestamp: not created yet, or not deleted.
Unset == 0

NewEntry(h, n, t) ==
    [host |-> h, name |-> n, op |-> "Create", txn |-> t, prev |-> "None",
     createAt |-> Unset, deleteAt |-> Unset]

HasActiveTxn(e) == e.txn # NoTxn
HasCreated(e) == e.createAt # Unset
HasDropped(e) == e.deleteAt # Unset
CreateBefore(e, ts) == HasCreated(e) /\ e.createAt < ts
CreateAfterOfDrop(e, ts) == HasDropped(e) /\ e.deleteAt > ts    \* variant: wrong field
CreateAfter(e, ts) == HasCreated(e) /\ e.createAt > ts
DeleteBeforeOrDropping(e, ts) ==    \* variant: an unfinished drop counts
    (HasActiveTxn(e) /\ e.op = "SoftDelete") \/ (HasDropped(e) /\ e.deleteAt < ts)
DeleteBefore(e, ts) == HasDropped(e) /\ e.deleteAt < ts
DeleteAfter(e, ts) == HasDropped(e) /\ e.deleteAt > ts
IsSameTxn(e, t) == e.txn = t
IsDroppedUncommitted(e) == HasActiveTxn(e) /\ e.op = "SoftDelete"
IsCommittingIfActive(e) == HasActiveTxn(e)     \* variant: commitTS not looked at
IsCommitting(e) == HasActiveTxn(e) /\ commitTS[e.txn] # UncommitTS
CreateAndDropInSameTxn(e) == HasCreated(e) /\ e.createAt = e.deleteAt

-----------------------------------------------------------------------------
(* What the writer's transaction does to the entry.                        *)

EntryPrepareCommit(e) ==
    [e EXCEPT !.createAt = IF HasCreated(e) THEN @ ELSE commitTS[e.txn],
              !.deleteAt = IF e.op = "SoftDelete" THEN commitTS[e.txn] ELSE @]

\* Variant: the writer is not cleared.
EntryApplyCommitKeepsTxn(e) == [e EXCEPT !.prev = "None"]

EntryApplyCommit(e) == [e EXCEPT !.prev = "None", !.txn = NoTxn]

EntryPrepareRollback(e) ==
    [e EXCEPT !.op = IF e.prev # "None" THEN e.prev ELSE @,
              !.txn = NoTxn]

\* Variant: an entry that is dropped already is dropped again.
DropErrorIgnoresDropped(e, t) ==
    IF HasActiveTxn(e) /\ ~IsSameTxn(e, t) THEN "TxnWWConflictErr" ELSE "nil"

\* The result of DropEntryLocked.
DropError(e, t) ==
    CASE ~HasActiveTxn(e) /\ HasDropped(e)               -> "ErrNotFound"
      [] ~HasActiveTxn(e) /\ ~HasDropped(e)
            /\ e.createAt > startTS[t]                   -> "panic"
      [] ~HasActiveTxn(e) /\ ~HasDropped(e)
            /\ e.createAt <= startTS[t]                  -> "nil"
      [] IsSameTxn(e, t) /\ e.op = "SoftDelete"          -> "ErrNotFound"
      [] IsSameTxn(e, t) /\ e.op # "SoftDelete"          -> "nil"
      [] HasActiveTxn(e) /\ ~IsSameTxn(e, t)             -> "TxnWWConflictErr"

\* The entry after a DropEntryLocked without error.
EntryDropped(e, t) ==
    [e EXCEPT !.prev = IF HasActiveTxn(e) THEN @ ELSE e.op,
              !.txn = t,
              !.op = "SoftDelete"]

-----------------------------------------------------------------------------
(* What a transaction may see and write.                                   *)

\* One step of TxnGetTableNodeLocked (isDB = FALSE) or TxnGetDBNodeLocked
\* (isDB = TRUE): "found", "stop" (nothing is found), "next" (an older entry
\* of that name decides), or "wait" for the writer's outcome.
LookAt(e, t, isDB) ==
    LET start == startTS[t]
        other == HasActiveTxn(e) /\ ~IsSameTxn(e, t)
        older == CreateBefore(e, start)
    IN  CASE IsSameTxn(e, t) /\ IsDroppedUncommitted(e)            -> "stop"
          [] IsSameTxn(e, t) /\ ~IsDroppedUncommitted(e)           -> "found"
          [] other /\ ~older                                       -> "next"
          [] other /\ older /\ ~IsCommitting(e)                    -> "found"
          [] other /\ older /\ IsCommitting(e)
                   /\ CreateAndDropInSameTxn(e)  -> IF isDB THEN "stop" ELSE "next"
          [] other /\ older /\ IsCommitting(e)
                   /\ ~CreateAndDropInSameTxn(e)
                   /\ DeleteAfter(e, start)                        -> "found"
          [] other /\ older /\ IsCommitting(e)
                   /\ ~CreateAndDropInSameTxn(e)
                   /\ ~DeleteAfter(e, start)                       -> "wait"
          [] ~HasActiveTxn(e) /\ CreateAfter(e, start)             -> "next"
          [] ~HasActiveTxn(e) /\ ~CreateAfter(e, start)
                   /\ DeleteBefore(e, start)                       -> "stop"
          [] ~HasActiveTxn(e) /\ ~CreateAfter(e, start)
                   /\ ~DeleteBefore(e, start)                      -> "found"

\* PrepareWrite: another transaction that is still active is a write-write
\* conflict; one whose commit timestamp is before the start is waited for.
WriteConflict(e, t) ==
    HasActiveTxn(e) /\ ~IsSameTxn(e, t) /\ ~IsCommitting(e)

WriteWaits(e, t) ==
    HasActiveTxn(e) /\ ~IsSameTxn(e, t) /\ IsCommitting(e)
        /\ commitTS[e.txn] <= startTS[t]

\* Variant: the test of a committed entry is inverted.
NameIsFreeInverted(e) ==
    IF HasActiveTxn(e) THEN IsDroppedUncommitted(e) ELSE ~HasDropped(e)

\* addEntryLocked after PrepareWrite: the newest entry of the name is gone,
\* or is being dropped.
NameIsFree(e) == IF HasActiveTxn(e) THEN IsDroppedUncommitted(e) ELSE HasDropped(e)
=============================================================================
