------------------------------ MODULE PinCache ------------------------------
(***************************************************************************)
(* What the buffer manager promises its clients: a cache of nodes whose    *)
(* resident part fits the limit, in which a pinned node stays resident     *)
(* until it is closed.  Eviction happens at any time and to any node that  *)
(* nobody holds; how a victim is found is left open.                       *)
(***************************************************************************)
EXTENDS Integers, FiniteSetsExt

CONSTANTS Nodes, Clients, MaxSize, InitSize

VARIABLES
  resident,   \* the nodes in memory
  weight,     \* their sizes
  pins,       \* the clients that hold each node
  dead        \* the nodes that were closed

cacheVars == <<resident, weight, pins, dead>>

Weight(S) == MapThenSumSet(LAMBDA n : weight[n], S)

CacheInit ==
  /\ resident = {}
  /\ weight = InitSize
  /\ pins = [n \in Nodes |-> {}]
  /\ dead = {}

\* A client gets a node, which is brought in when there is room for it.
Acquire(c, n) ==
  /\ c \notin pins[n]
  /\ Weight(resident \cup {n}) <= MaxSize
  /\ resident' = resident \cup {n}
  /\ pins' = [pins EXCEPT ![n] = @ \cup {c}]
  /\ UNCHANGED <<weight, dead>>

Release(c, n) ==
  /\ c \in pins[n]
  /\ pins' = [pins EXCEPT ![n] = @ \ {c}]
  /\ UNCHANGED <<resident, weight, dead>>

Drop(n) ==
  /\ n \in resident
  /\ pins[n] = {}
  /\ resident' = resident \ {n}
  /\ UNCHANGED <<weight, pins, dead>>

\* A holder makes its node larger, within the limit.
Grow(n, d) ==
  /\ pins[n] # {} /\ n \in resident
  /\ Weight(resident) + d <= MaxSize
  /\ weight' = [weight EXCEPT ![n] = @ + d]
  /\ UNCHANGED <<resident, pins, dead>>

\* Closing takes a node out of memory, held or not.
Kill(n) ==
  /\ n \notin dead
  /\ dead' = dead \cup {n}
  /\ resident' = resident \ {n}
  /\ UNCHANGED <<weight, pins>>

CacheNext ==
  \E n \in Nodes :
    \/ Drop(n)
    \/ Kill(n)
    \/ \E d \in 0 .. MaxSize : Grow(n, d)
    \/ \E c \in Clients : Acquire(c, n) \/ Release(c, n)

CacheSpec == CacheInit /\ [][CacheNext]_cacheVars
=============================================================================
