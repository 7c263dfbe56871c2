------------------------------ MODULE LinkIter ------------------------------
(***************************************************************************)
(* A catalog list under change: transactions that started at different     *)
(* times put their entries in, commit them where they are, or take them    *)
(* out at any place (RemoveEntry of a rollback), while an iterator         *)
(* (LinkIt) walks the list.  The iterator holds the lock of the list only  *)
(* while it reads one pointer.                                             *)
(***************************************************************************)
EXTENDS Integers, SequencesExt

CONSTANTS
  MaxEntries,  \* bound: entries made
  Starts       \* when the transactions that make them started

VARIABLES
  list,     \* Link; the payloads are entries
  gone,     \* entries taken out
  it,       \* LinkIt.curr, or NoIt before NewLinkIt
  reverse,  \* the direction of nextFunc
  visited,  \* history: what Get returned, in this order
  stayed    \* history: entries in the list since NewLinkIt

iterVars == <<list, gone, it, reverse, visited, stayed>>

\* DoCompre < 0.  An entry has the start of its creator and, once prepared,
\* the time of its creation.
DoCompre(a, b) ==
  IF a.createAt = 0 /\ b.createAt = 0 THEN a.start < b.start
  ELSE a.createAt # 0 /\ (b.createAt = 0 \/ a.createAt < b.createAt)

D == INSTANCE DLink WITH Less <- DoCompre

NoIt == -1
Present == DOMAIN list.payload \ gone

IterInit ==
  /\ list = D!EmptyLink
  /\ gone = {}
  /\ it = NoIt
  /\ reverse = FALSE
  /\ visited = <<>>
  /\ stayed = {}

AddEntry(ts) ==
  /\ Len(list.payload) < MaxEntries
  /\ list' = D!Insert(list, [start |-> ts, createAt |-> 0])
  /\ UNCHANGED <<gone, it, reverse, visited, stayed>>

\* A rollback takes out entries that were not prepared.
RemoveEntry(n) ==
  /\ n \in Present /\ list.payload[n].createAt = 0
  /\ list' = D!Delete(list, n)
  /\ gone' = gone \cup {n}
  /\ stayed' = stayed \ {n}
  /\ UNCHANGED <<it, reverse, visited>>

\* PrepareCommit of an entry does not move it.
CommitEntry(n) ==
  /\ n \in Present /\ list.payload[n].createAt = 0
  /\ list' = [list EXCEPT !.payload[n].createAt =
                 1 + Max({0} \cup {list.payload[m].createAt : m \in DOMAIN list.payload})]
  /\ UNCHANGED <<gone, it, reverse, visited, stayed>>

\* Arrive at a node, or at the end.
Visit(n) ==
  /\ it' = n
  /\ visited' = IF n = D!Nil THEN visited ELSE Append(visited, n)

NewLinkIt(r) ==
  /\ it = NoIt
  /\ reverse' = r
  /\ Visit(IF r THEN list.tail ELSE list.head)
  /\ stayed' = Present
  /\ UNCHANGED <<list, gone>>

\* LinkIt.Next
NextNode ==
  /\ it > D!Nil
  /\ Visit(IF reverse THEN list.prev[it] ELSE list.next[it])
  /\ UNCHANGED <<list, gone, reverse, stayed>>

IterNext ==
  \/ \E ts \in Starts : AddEntry(ts)
  \/ \E n \in Present : RemoveEntry(n) \/ CommitEntry(n)
  \/ \E r \in BOOLEAN : NewLinkIt(r)
  \/ NextNode

IterSpec == IterInit /\ [][IterNext]_iterVars

\* After every insert and delete the list has exactly the entries that were
\* not removed, each once, and is the same in both directions.  An iterator
\* visits no entry twice, comes to an end, and by then has visited every entry
\* that was in the list all the while, even when the entry it stood on was
\* removed and the one after that too.
IteratorComplete ==
  LET forth == D!Forward(list) IN
  /\ ToSet(forth) = Present /\ IsInjective(forth)
  /\ D!Backward(list) = Reverse(forth)
  /\ IsInjective(visited)
  /\ it = D!Nil => stayed \subseteq ToSet(visited)
=============================================================================
