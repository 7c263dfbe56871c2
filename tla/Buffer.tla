------------------------------- MODULE Buffer -------------------------------
(***************************************************************************)
(* The buffer manager (pkg/buffer): nodes that clients pin and unpin, a    *)
(* size limiter, and a queue of unpinned nodes from which MakeRoom takes   *)
(* its victims.  Pin holds the write lock of its node while it looks for   *)
(* room, and looking for room takes the locks of other nodes.              *)
(*                                                                         *)
(* Read locks are held within one step only and are therefore tests that   *)
(* nobody holds the write lock.                                            *)
(***************************************************************************)
EXTENDS Integers, Sequences, FiniteSetsExt

CONSTANTS
  Nodes, Clients,
  NoNode, NoClient,
  InitSize,      \* size of each node when it is registered
  MaxSize,       \* maxactivesize
  QCapacity,     \* slots of the eviction queue
  Deltas,        \* sizes by which a node is expanded
  MaxCalls       \* bound: calls each client makes

ASSUME BufferAssumption ==
  /\ NoNode \notin Nodes
  /\ NoClient \notin Clients
  /\ InitSize \in [Nodes -> Nat]
  /\ MaxSize \in Nat
  /\ QCapacity \in Nat
  /\ Deltas \subseteq Nat
  /\ MaxCalls \in [Clients -> Nat]

VARIABLES
  activesize,    \* sizeLimiter.activesize
  nodes,         \* nodeManager.nodes: the registered nodes
  queue,         \* SimpleEvictHolder.Queue: entries [Handle, Iter]
  loaded,        \* the nodes in state NODE_LOADED
  size, refs, iter, closed,   \* fields of Node
  lock,          \* holder of each node's write lock
  pc, at, need,  \* where a client is, with which node, for which size
  evicted,       \* the entry MakeRoom has dequeued
  handles,       \* clients holding a nodeHandle of each node
  refused,       \* history: nodes whose last entry the queue refused
  calls          \* calls made so far

mgrPart == <<activesize, nodes, queue, refused>>
nodePart == <<loaded, size, refs, iter, closed, lock>>
clientPart == <<pc, at, need, evicted, handles, calls>>
bufVars == <<mgrPart, nodePart, clientPart>>

Entry == [Handle : Nodes, Iter : Nat]
NoEntry == [Handle |-> NoNode, Iter |-> 0]

\* Inside MakeRoom.
RoomPc == {"ApplyQuota", "Dequeue", "IsClosed", "Evict"}
PcSet == RoomPc \cup {"idle", "PinLock", "Load", "Expanding", "Put", "Unregister"}

BufInit ==
  /\ activesize = 0
  /\ nodes = {}
  /\ queue = <<>>
  /\ loaded = {}
  /\ size = InitSize
  /\ refs = [n \in Nodes |-> 0]
  /\ iter = [n \in Nodes |-> 0]
  /\ closed = {}
  /\ lock = [n \in Nodes |-> NoClient]
  /\ pc = [c \in Clients |-> "idle"]
  /\ at = [c \in Clients |-> NoNode]
  /\ need = [c \in Clients |-> 0]
  /\ evicted = [c \in Clients |-> NoEntry]
  /\ handles = [n \in Nodes |-> {}]
  /\ refused = {}
  /\ calls = [c \in Clients |-> 0]

Free(n) == lock[n] = NoClient

\* Pin keeps its node locked in MakeRoom, Expand does not.
Pinning(c) == at[c] \in Nodes /\ lock[at[c]] = c
Expands(c, n) == pc[c] \in RoomPc \cup {"Expanding"} /\ at[c] = n /\ ~Pinning(c)

\* Another client is at the lock-free queue at the same time: Put and Get of
\* the queue give up when their compare-and-swap fails.
Contended(c) == \E d \in Clients \ {c} : pc[d] \in {"Dequeue", "Put"}

Begin(c, n, p) ==
  /\ calls[c] < MaxCalls[c]
  /\ pc[c] = "idle"
  /\ pc' = [pc EXCEPT ![c] = p]
  /\ at' = [at EXCEPT ![c] = IF p = "idle" THEN NoNode ELSE n]
  /\ calls' = [calls EXCEPT ![c] = @ + 1]

Goto(c, p) == pc' = [pc EXCEPT ![c] = p] /\ UNCHANGED <<at, need, calls>>

\* The call returns and its local variables are gone.
Return(c) ==
  /\ pc' = [pc EXCEPT ![c] = "idle"]
  /\ at' = [at EXCEPT ![c] = NoNode]
  /\ need' = [need EXCEPT ![c] = 0]
  /\ UNCHANGED calls

AddRef(c, n) ==
  /\ refs' = [refs EXCEPT ![n] = @ + 1]
  /\ handles' = [handles EXCEPT ![n] = @ \cup {c}]

(***************************************************************************)
(* Registration, and Pin up to the point where it needs room.              *)
(***************************************************************************)
RegisterNode(c, n) ==
  /\ n \notin nodes \cup closed
  /\ pc[c] = "idle"
  /\ nodes' = nodes \cup {n}
  /\ UNCHANGED <<activesize, queue, refused, nodePart, clientPart>>

PinRead(c, n) ==
  /\ n \in nodes /\ c \notin handles[n]
  /\ Free(n)
  /\ IF n \in loaded
       THEN Begin(c, n, "idle") /\ AddRef(c, n)
       ELSE Begin(c, n, "PinLock") /\ UNCHANGED <<refs, handles>>
  /\ UNCHANGED <<mgrPart, loaded, size, iter, closed, lock, need, evicted>>

PinLock(c) ==
  LET n == at[c] IN
  /\ pc[c] = "PinLock"
  /\ Free(n)
  /\ IF n \in loaded
       THEN Return(c) /\ AddRef(c, n) /\ UNCHANGED lock
       ELSE /\ pc' = [pc EXCEPT ![c] = "ApplyQuota"]
            /\ lock' = [lock EXCEPT ![n] = c]
            /\ need' = [need EXCEPT ![c] = size[n]]
            /\ UNCHANGED <<refs, handles, at, calls>>
  /\ UNCHANGED <<mgrPart, loaded, size, iter, closed, evicted>>

(***************************************************************************)
(* MakeRoom.  The compare-and-swap loop of ApplyQuota is one step: it      *)
(* succeeds when its swap does and fails when its last load says so.       *)
(***************************************************************************)
\* Variant: the limit may be passed by one.
ApplyQuotaOneOver(c) ==
  /\ pc[c] = "ApplyQuota"
  /\ IF activesize + need[c] > MaxSize + 1
       THEN Goto(c, "Dequeue") /\ UNCHANGED activesize
       ELSE /\ activesize' = activesize + need[c]
            /\ Goto(c, IF Pinning(c) THEN "Load" ELSE "Expanding")
  /\ UNCHANGED <<nodes, queue, refused, nodePart, evicted, handles>>

ApplyQuota(c) ==
  /\ pc[c] = "ApplyQuota"
  /\ IF activesize + need[c] > MaxSize
       THEN Goto(c, "Dequeue") /\ UNCHANGED activesize
       ELSE /\ activesize' = activesize + need[c]
            /\ Goto(c, IF Pinning(c) THEN "Load" ELSE "Expanding")
  /\ UNCHANGED <<nodes, queue, refused, nodePart, evicted, handles>>

\* Variant: Pin returns nil and keeps its lock.
NoRoomKeepsLock(c) == Return(c) /\ UNCHANGED <<lock, queue, evicted>>

\* No victim: Pin returns nil and releases its lock, Expand returns an error.
NoRoom(c) ==
  /\ Return(c)
  /\ lock' = IF Pinning(c) THEN [lock EXCEPT ![at[c]] = NoClient] ELSE lock
  /\ UNCHANGED <<queue, evicted>>

\* Variant: the newest entry first.
DequeueNewest(c) ==
  /\ pc[c] = "Dequeue"
  /\ \/ /\ queue # <<>>
        /\ evicted' = [evicted EXCEPT ![c] = queue[Len(queue)]]
        /\ queue' = SubSeq(queue, 1, Len(queue) - 1)
        /\ Goto(c, "IsClosed")
        /\ UNCHANGED lock
     \/ (queue = <<>> \/ Contended(c)) /\ NoRoom(c)
  /\ UNCHANGED <<activesize, nodes, refused, loaded, size, refs, iter, closed, handles>>

Dequeue(c) ==
  /\ pc[c] = "Dequeue"
  /\ \/ /\ queue # <<>>
        /\ evicted' = [evicted EXCEPT ![c] = Head(queue)]
        /\ queue' = Tail(queue)
        /\ Goto(c, "IsClosed")
        /\ UNCHANGED lock
     \/ (queue = <<>> \/ Contended(c)) /\ NoRoom(c)
  /\ UNCHANGED <<activesize, nodes, refused, loaded, size, refs, iter, closed, handles>>

Forget(c) == evicted' = [evicted EXCEPT ![c] = NoEntry]

\* EvictNode.Unloadable: nobody released the node after this entry.
Current(e) == iter[e.Handle] = e.Iter

IsClosed(c) ==
  LET e == evicted[c] IN
  /\ pc[c] = "IsClosed"
  /\ Free(e.Handle)
  /\ IF e.Handle \in closed \/ ~Current(e)
       THEN Goto(c, "Dequeue") /\ Forget(c)
       ELSE Goto(c, "Evict") /\ UNCHANGED evicted
  /\ UNCHANGED <<mgrPart, nodePart, handles>>

\* Variant: held nodes are evicted too.
UnloadableIgnoresRefs(n) == n \in loaded

\* Node.Unloadable
Unloadable(n) == n \in loaded /\ refs[n] = 0

\* Node.Unload, for a node that is loaded.
Unload(n) ==
  /\ activesize' = activesize - size[n]
  /\ loaded' = loaded \ {n}

Evict(c) ==
  LET e == evicted[c] IN
  /\ pc[c] = "Evict"
  /\ Free(e.Handle)
  /\ IF Current(e) /\ Unloadable(e.Handle)
       THEN Unload(e.Handle) /\ Goto(c, "ApplyQuota")
       ELSE Goto(c, "Dequeue") /\ UNCHANGED <<activesize, loaded>>
  /\ Forget(c)
  /\ UNCHANGED <<nodes, queue, refused, size, refs, iter, closed, lock, handles>>

\* The rest of Pin: Load, Ref, and the lock is released.
Load(c) ==
  LET n == at[c] IN
  /\ pc[c] = "Load"
  /\ loaded' = loaded \cup {n}
  /\ AddRef(c, n)
  /\ lock' = [lock EXCEPT ![n] = NoClient]
  /\ Return(c)
  /\ UNCHANGED <<mgrPart, size, iter, closed, evicted>>

(***************************************************************************)
(* Unpin (nodeHandle.Close).  The last holder puts the node on the queue,  *)
(* with its lock held; what the queue answers is ignored.                  *)
(***************************************************************************)
Unpin(c, n) ==
  /\ c \in handles[n]
  /\ Free(n)
  /\ refs' = [refs EXCEPT ![n] = @ - 1]
  /\ handles' = [handles EXCEPT ![n] = @ \ {c}]
  /\ IF refs[n] = 1
       THEN /\ Begin(c, n, "Put")
            /\ iter' = [iter EXCEPT ![n] = @ + 1]
            /\ lock' = [lock EXCEPT ![n] = c]
       ELSE Begin(c, n, "idle") /\ UNCHANGED <<iter, lock>>
  /\ ~Expands(c, n)
  /\ UNCHANGED <<mgrPart, loaded, size, closed, need, evicted>>

\* Variant: the entry carries the iteration from before this Unpin.
PutStale(c) ==
  LET n == at[c] IN
  /\ pc[c] = "Put"
  /\ \/ /\ Len(queue) < QCapacity
        /\ queue' = Append(queue, [Handle |-> n, Iter |-> iter[n] - 1])
        /\ refused' = refused \ {n}
     \/ /\ Len(queue) >= QCapacity \/ Contended(c)
        /\ refused' = refused \cup {n}
        /\ UNCHANGED queue
  /\ lock' = [lock EXCEPT ![n] = NoClient]
  /\ Return(c)
  /\ UNCHANGED <<activesize, nodes, loaded, size, refs, iter, closed, evicted, handles>>

Put(c) ==
  LET n == at[c] IN
  /\ pc[c] = "Put"
  /\ \/ /\ Len(queue) < QCapacity
        /\ queue' = Append(queue, [Handle |-> n, Iter |-> iter[n]])
        /\ refused' = refused \ {n}
     \/ /\ Len(queue) >= QCapacity \/ Contended(c)
        /\ refused' = refused \cup {n}
        /\ UNCHANGED queue
  /\ lock' = [lock EXCEPT ![n] = NoClient]
  /\ Return(c)
  /\ UNCHANGED <<activesize, nodes, loaded, size, refs, iter, closed, evicted, handles>>

(***************************************************************************)
(* Node.Close, of a node held or not, and UnregisterNode.  A second Close  *)
(* returns at once.  The owner of a node does not close it during its own  *)
(* Expand.                                                                 *)
(***************************************************************************)
Close(c, n) ==
  /\ n \in nodes \ closed
  /\ Free(n)
  /\ \A d \in Clients : ~Expands(d, n)
  /\ Begin(c, n, "Unregister")
  /\ closed' = closed \cup {n}
  /\ IF n \in loaded THEN Unload(n) ELSE UNCHANGED <<activesize, loaded>>
  /\ UNCHANGED <<nodes, queue, refused, size, refs, iter, lock, need, evicted, handles>>

Unregister(c) ==
  /\ pc[c] = "Unregister"
  /\ nodes' = nodes \ {at[c]}
  /\ Return(c)
  /\ UNCHANGED <<activesize, queue, refused, nodePart, evicted, handles>>

(***************************************************************************)
(* Node.Expand by a holder of the node, without its lock: reserve, run the *)
(* callback, and either keep the larger size or give the quota back.       *)
(***************************************************************************)
Expand(c, n, d) ==
  /\ c \in handles[n] /\ n \notin closed
  /\ \A b \in Clients : ~Expands(b, n)
  /\ Begin(c, n, "ApplyQuota")
  /\ need' = [need EXCEPT ![c] = d]
  /\ UNCHANGED <<mgrPart, nodePart, evicted, handles>>

\* Variant: a failed callback keeps the quota.
ExpandedKeepsQuota(c) ==
  /\ pc[c] = "Expanding"
  /\ \/ size' = [size EXCEPT ![at[c]] = @ + need[c]]
     \/ UNCHANGED size
  /\ Return(c)
  /\ UNCHANGED <<activesize, nodes, queue, refused, loaded, refs, iter, closed, lock,
                 evicted, handles>>

Expanded(c) ==
  /\ pc[c] = "Expanding"
  /\ \/ /\ size' = [size EXCEPT ![at[c]] = @ + need[c]]
        /\ UNCHANGED activesize
     \/ /\ activesize' = activesize - need[c]
        /\ UNCHANGED size
  /\ Return(c)
  /\ UNCHANGED <<nodes, queue, refused, loaded, refs, iter, closed, lock,
                 evicted, handles>>

Call(c) ==
  \E n \in Nodes :
    \/ RegisterNode(c, n) \/ PinRead(c, n) \/ Unpin(c, n) \/ Close(c, n)
    \/ \E d \in Deltas : Expand(c, n, d)

Step(c) ==
  \/ PinLock(c) \/ ApplyQuota(c) \/ Dequeue(c) \/ IsClosed(c) \/ Evict(c)
  \/ Load(c) \/ Put(c) \/ Unregister(c) \/ Expanded(c)

BufNext == \E c \in Clients : Call(c) \/ Step(c)

BufSpec == BufInit /\ [][BufNext]_bufVars

\* The Go scheduler runs every goroutine that is inside a call and not blocked.
FairBufSpec == BufSpec /\ \A c \in Clients : WF_bufVars(Step(c))

(***************************************************************************)
(* Properties.                                                             *)
(***************************************************************************)
\* A node that somebody holds a handle of is in memory until it is closed:
\* the reference is counted under the lock that eviction checks it under.
PinnedStaysLoaded == \A n \in Nodes \ closed : handles[n] # {} => n \in loaded

\* The limiter's account is exact: it is the sizes of the loaded nodes plus
\* what a Pin or an Expand has reserved and not yet used, and it never passes
\* the limit.
QuotaExact ==
  /\ activesize = MapThenSumSet(LAMBDA n : size[n], loaded)
                  + MapThenSumSet(LAMBDA c : need[c],
                                  {c \in Clients : pc[c] \in {"Load", "Expanding"}})
  /\ activesize <= MaxSize

Evictable(n) ==
  \/ \E i \in DOMAIN queue : queue[i] = [Handle |-> n, Iter |-> iter[n]]
  \/ \E c \in Clients : /\ evicted[c] = [Handle |-> n, Iter |-> iter[n]]
                        /\ pc[c] \in {"IsClosed", "Evict"}

\* A loaded node that nobody holds can still be found by MakeRoom: its newest
\* entry is on the queue or with a client that is about to look at it, unless
\* the queue refused the entry and Unpin did not notice.
UnpinnedIsEvictable ==
  \A n \in loaded \ (closed \cup refused) :
    refs[n] = 0 /\ Free(n) => Evictable(n)

WaitsForItself(c) == pc[c] = "IsClosed" /\ evicted[c].Handle = at[c] /\ Pinning(c)

\* A node that was evicted has no entry left on the queue, because its older
\* entries were dequeued before the one it was evicted by.  So a Pin that
\* looks for room never meets its own node, whose lock it holds; the one
\* exception is a node that was closed while Pin was waiting for it.
NoSelfWait ==
  /\ \A n \in Nodes \ (loaded \cup closed), i \in DOMAIN queue : queue[i].Handle # n
  /\ \A c \in Clients : WaitsForItself(c) => at[c] \in closed

\* Every call ends: Pins that hold one node and wait for the lock of another
\* never wait for each other in a circle.  The exception is again a Pin of a
\* node that was closed under it.
BufCallsEnd ==
  \A c \in Clients : pc[c] # "idle" ~> pc[c] = "idle" \/ \E d \in Clients : WaitsForItself(d)

Cache == INSTANCE PinCache WITH
  resident <- loaded, weight <- size, pins <- handles, dead <- closed

\* The manager implements the abstract cache.
ImplementsPinCache == Cache!CacheSpec

(***************************************************************************)
(* What makes PinnedStaysLoaded inductive.                                 *)
(***************************************************************************)
\* activesize is an integer: that it is not negative takes the sums of
\* QuotaExact.
FieldsOK ==
  /\ activesize \in Int
  /\ loaded \subseteq Nodes
  /\ queue \in Seq(Entry)
  /\ size \in [Nodes -> Nat] /\ refs \in [Nodes -> Nat] /\ iter \in [Nodes -> Nat]
  /\ lock \in [Nodes -> Clients \cup {NoClient}]
  /\ pc \in [Clients -> PcSet]
  /\ at \in [Clients -> Nodes \cup {NoNode}]
  /\ need \in [Clients -> Nat]
  /\ evicted \in [Clients -> Entry \cup {NoEntry}]
  /\ handles \in [Nodes -> SUBSET Clients]

\* The reference count is the number of handles.
CountInv == \A n \in Nodes : IsFiniteSet(handles[n]) /\ refs[n] = Cardinality(handles[n])

\* Where a client inside a call is.
PlaceInv ==
  \A c \in Clients :
    /\ pc[c] # "idle" => at[c] \in Nodes
    /\ pc[c] \in {"IsClosed", "Evict"} => evicted[c] \in Entry

\* A lock belongs to a call of its holder, with that node.
LockInv ==
  \A n \in Nodes, c \in Clients :
    lock[n] = c => at[c] = n /\ pc[c] \in RoomPc \cup {"Load", "Put"}

\* A client that is pinning a node does not hold it yet.
PinningInv ==
  \A c \in Clients :
    pc[c] \in {"PinLock", "Load"} \/ (pc[c] \in RoomPc /\ Pinning(c)) => c \notin handles[at[c]]

WithinLimit == activesize <= MaxSize

\* Counts, locks and positions agree with each other, so that no count is
\* lost: the inductive invariant for PinnedStaysLoaded and the size limit.
BufInv ==
  /\ FieldsOK /\ CountInv /\ PlaceInv /\ LockInv /\ PinningInv
  /\ PinnedStaysLoaded /\ WithinLimit
=============================================================================
