-------------------------------- MODULE DLink --------------------------------
(***************************************************************************)
(* The doubly linked list of pkg/common/dlnode.go, pointer by pointer.     *)
(* Nodes are positive integers and Nil is the nil pointer.  A link is the  *)
(* record [head, tail, prev, next, payload]; the last three are functions  *)
(* on all the nodes made so far, in the list or not, because a node that   *)
(* was deleted keeps its pointers.  Less(a, b) says of two payloads that   *)
(* a.Compare(b) < 0.                                                       *)
(***************************************************************************)
EXTENDS Integers, SequencesExt

CONSTANT Less(_, _)

Nil == 0
EmptyLink == [head |-> Nil, tail |-> Nil, prev |-> <<>>, next |-> <<>>,
              payload |-> <<>>]

\* The nodes from n on along a pointer field: what LoopDLink visits.
RECURSIVE LoopDLink(_, _)
LoopDLink(n, field) == IF n = Nil THEN <<>> ELSE <<n>> \o LoopDLink(field[n], field)

Forward(l) == LoopDLink(l.head, l.next)
Backward(l) == LoopDLink(l.tail, l.prev)

\* The nodes that Sort moves n past: those after it that n is less than.
RECURSIVE Passed(_, _, _)
Passed(l, n, x) ==
  IF x # Nil /\ Less(l.payload[n], l.payload[x])
    THEN <<x>> \o Passed(l, n, l.next[x])
    ELSE <<>>

\* Assignment through a pointer that may be nil.
Set(field, n, v) == IF n = Nil THEN field ELSE [field EXCEPT ![n] = v]

\* Variant: the node that n comes to stand before still points past it.
SortKeepsPrev(l, n) ==
  LET run   == Passed(l, n, l.next[n])
      first == Head(run)
      last  == run[Len(run)]
      after == IF run = <<>> THEN l.next[n] ELSE l.next[last]
      moved == [l EXCEPT !.next = Set([@ EXCEPT ![last] = n, ![n] = after], l.prev[n], first),
                         !.prev = [@ EXCEPT ![first] = l.prev[n], ![n] = last]]
  IN  [link |-> IF run = <<>> THEN l ELSE moved,
       head |-> IF run = <<>> THEN n ELSE first,
       tail |-> IF after = Nil THEN n ELSE Nil]

\* DLNode.Sort: the link with n moved, the head it returns, and the tail or Nil.
Sort(l, n) ==
  LET run   == Passed(l, n, l.next[n])
      first == Head(run)
      last  == run[Len(run)]
      after == IF run = <<>> THEN l.next[n] ELSE l.next[last]
      moved == [l EXCEPT !.next = Set([@ EXCEPT ![last] = n, ![n] = after], l.prev[n], first),
                         !.prev = Set([@ EXCEPT ![first] = l.prev[n], ![n] = last], after, n)]
  IN  [link |-> IF run = <<>> THEN l ELSE moved,
       head |-> IF run = <<>> THEN n ELSE first,
       tail |-> IF after = Nil THEN n ELSE Nil]

\* The head and the tail that Sort returned become those of the link.
Take(s) ==
  [s.link EXCEPT !.head = s.head, !.tail = IF s.tail # Nil THEN s.tail ELSE @]

\* Link.Update after the payload of n changed.
Update(l, n) == Take(Sort(l, n))

\* Link.Insert of a payload in a new node, which is the next integer.
Insert(l, p) ==
  LET n == Len(l.next) + 1
      pushed == [l EXCEPT !.next = Append(@, l.head),
                          !.prev = Append(Set(@, l.head, n), Nil),
                          !.payload = Append(@, p)]
  IN  IF l.head = Nil
        THEN [pushed EXCEPT !.head = n, !.tail = n]
        ELSE Take(Sort(pushed, n))

\* Variant: the deleted node loses its pointers.
DeleteClears(l, n) ==
  LET p == l.prev[n]
      x == l.next[n]
  IN  [l EXCEPT !.next = [Set(@, p, x) EXCEPT ![n] = Nil],
                !.prev = [Set(@, x, p) EXCEPT ![n] = Nil],
                !.head = IF p = Nil THEN x ELSE @, !.tail = IF x = Nil THEN p ELSE @]

\* Link.Delete
Delete(l, n) ==
  LET p == l.prev[n]
      x == l.next[n]
  IN  CASE p # Nil /\ x # Nil -> [l EXCEPT !.next[p] = x, !.prev[x] = p]
        [] p = Nil /\ x # Nil -> [l EXCEPT !.head = x, !.prev[x] = Nil]
        [] p # Nil /\ x = Nil -> [l EXCEPT !.tail = p, !.next[p] = Nil]
        [] OTHER              -> [l EXCEPT !.head = Nil, !.tail = Nil]
=============================================================================
