------------------------------ MODULE MCMemory ------------------------------
(***************************************************************************)
(* Instances of the buffer manager and of the memory pool.  The two share  *)
(* no state, so their steps need no interleaving: a behaviour is one of    *)
(* the buffer manager or one of the pool, as `part' says.                  *)
(***************************************************************************)
EXTENDS Buffer, Mempool

CONSTANTS n1, n2, n3, c1, c2

VARIABLE part

Sizes == [n \in Nodes |-> IF n = n3 THEN 2 ELSE 1]
Calls == [c \in Clients |-> IF c = c1 THEN 2 ELSE 4]
Pages == <<1, 2, 4>>

memVars == <<bufVars, poolVars, part>>

MemInit == BufInit /\ PoolInit /\ part \in {"buffer", "pool"}
MemNext ==
  /\ \/ part = "buffer" /\ BufNext /\ UNCHANGED poolVars
     \/ part = "pool" /\ PoolNext /\ UNCHANGED bufVars
  /\ UNCHANGED part
MemSpec ==
  /\ MemInit /\ [][MemNext]_memVars
  /\ \A c \in Clients : WF_bufVars(Step(c))
=============================================================================
