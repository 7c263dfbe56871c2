---------------------------- MODULE BufferProofs ----------------------------
(***************************************************************************)
(* Proofs about the buffer manager, for any nodes and clients, any sizes   *)
(* and any capacity of the queue: what is pinned stays in memory, and the  *)
(* account never passes the limit.                                         *)
(***************************************************************************)
EXTENDS Buffer, FiniteSetTheorems, TLAPS

(***************************************************************************)
(* Counting handles.                                                       *)
(***************************************************************************)
\* One more element counts one more.
LEMMA CountAdd ==
  ASSUME NEW S, NEW x, IsFiniteSet(S), x \notin S
  PROVE  IsFiniteSet(S \cup {x}) /\ Cardinality(S \cup {x}) = Cardinality(S) + 1
BY FS_AddElement

\* One element less counts one less, and there was one to take out.
LEMMA CountRemove ==
  ASSUME NEW S, NEW x, IsFiniteSet(S), x \in S
  PROVE  /\ IsFiniteSet(S \ {x})
         /\ Cardinality(S \ {x}) = Cardinality(S) - 1
         /\ Cardinality(S \ {x}) \in Nat
BY FS_RemoveElement, FS_CardinalityType

\* Nothing counted, nothing there: what Unloadable relies on.
LEMMA CountZero ==
  ASSUME NEW S, IsFiniteSet(S), Cardinality(S) = 0
  PROVE  S = {}
BY FS_EmptySet

\* AddRef of a client that has no handle keeps count.
LEMMA AddRefCounts ==
  ASSUME FieldsOK, CountInv, NEW c \in Clients, NEW n \in Nodes, c \notin handles[n], AddRef(c, n)
  PROVE  /\ refs' \in [Nodes -> Nat] /\ handles' \in [Nodes -> SUBSET Clients]
         /\ CountInv'
<1>1. refs' \in [Nodes -> Nat] /\ handles' \in [Nodes -> SUBSET Clients]
  BY DEF FieldsOK, AddRef
<1>2. SUFFICES ASSUME NEW m \in Nodes
               PROVE  IsFiniteSet(handles'[m]) /\ refs'[m] = Cardinality(handles'[m])
  BY <1>1 DEF CountInv
<1>3. CASE m = n
  <2>1. handles'[m] = handles[n] \cup {c} /\ refs'[m] = refs[n] + 1
    BY <1>3 DEF AddRef, FieldsOK
  <2>2. IsFiniteSet(handles[n]) /\ refs[n] = Cardinality(handles[n])
    BY DEF CountInv
  <2>3. IsFiniteSet(handles[n] \cup {c}) /\ Cardinality(handles[n] \cup {c}) = Cardinality(handles[n]) + 1
    BY <2>2, CountAdd
  <2> QED BY <2>1, <2>2, <2>3
<1>4. CASE m # n
  <2>1. handles'[m] = handles[m] /\ refs'[m] = refs[m]
    BY <1>4 DEF AddRef, FieldsOK
  <2> QED BY <2>1 DEF CountInv
<1> QED BY <1>3, <1>4

(***************************************************************************)
(* One lemma for each action.                                              *)
(***************************************************************************)
\* The invariant holds at the start.
LEMMA InitInv == BufInit => BufInv
<1> SUFFICES ASSUME BufInit PROVE BufInv
  OBVIOUS
<1> USE BufferAssumption
<1>1. FieldsOK
  BY DEF BufInit, FieldsOK, PcSet, RoomPc
<1>2. CountInv
  BY FS_EmptySet DEF BufInit, CountInv
<1>3. PlaceInv /\ LockInv /\ PinningInv /\ PinnedStaysLoaded
  BY DEF BufInit, PlaceInv, LockInv, PinningInv, Pinning, RoomPc, PinnedStaysLoaded
<1>4. WithinLimit
  BY DEF BufInit, WithinLimit
<1> QED BY <1>1, <1>2, <1>3, <1>4 DEF BufInv

\* Pin of a loaded node takes its reference at once, otherwise it goes on.
LEMMA PinReadInv ==
  ASSUME BufInv, NEW c \in Clients, NEW n \in Nodes, PinRead(c, n)
  PROVE  BufInv'
<1> USE BufferAssumption DEF BufInv
<1>1. CASE n \in loaded
  <2> USE <1>1
  <2>1. /\ pc' = [pc EXCEPT ![c] = "idle"] /\ at' = [at EXCEPT ![c] = NoNode] /\ pc[c] = "idle"
        /\ c \notin handles[n] /\ AddRef(c, n)
        /\ UNCHANGED <<activesize, queue, loaded, size, iter, closed, lock, need, evicted>>
    BY DEF PinRead, Begin, mgrPart
  <2>2. /\ refs' \in [Nodes -> Nat] /\ handles' \in [Nodes -> SUBSET Clients]
        /\ CountInv'
    BY <2>1, AddRefCounts
  <2>3. FieldsOK'
    BY <2>1, <2>2 DEF FieldsOK, PcSet
  <2>4. PlaceInv'
    BY <2>1 DEF PlaceInv, FieldsOK
  <2>5. LockInv'
    BY <2>1 DEF LockInv, FieldsOK, RoomPc
  <2>6. PinningInv'
    BY SMTT(30), <2>1, <2>3 DEF PinningInv, Pinning, FieldsOK, PlaceInv, RoomPc, AddRef
  <2>7. PinnedStaysLoaded'
    BY <2>1, <2>2 DEF PinnedStaysLoaded, AddRef, FieldsOK
  <2>8. WithinLimit'
    BY <2>1 DEF WithinLimit
  <2> QED BY <2>2, <2>3, <2>4, <2>5, <2>6, <2>7, <2>8
<1>2. CASE n \notin loaded
  <2> USE <1>2
  <2>1. /\ pc' = [pc EXCEPT ![c] = "PinLock"] /\ at' = [at EXCEPT ![c] = n] /\ pc[c] = "idle"
        /\ c \notin handles[n]
        /\ UNCHANGED <<activesize, queue, loaded, size, refs, iter, closed, lock, need, evicted, handles>>
    BY DEF PinRead, Begin, mgrPart
  <2>3. FieldsOK'
    BY <2>1 DEF FieldsOK, PcSet
  <2>4. CountInv' /\ PinnedStaysLoaded' /\ WithinLimit'
    BY <2>1 DEF CountInv, PinnedStaysLoaded, WithinLimit
  <2>5. PlaceInv'
    BY <2>1 DEF PlaceInv, FieldsOK
  <2>6. LockInv'
    BY <2>1 DEF LockInv, FieldsOK, RoomPc
  <2>7. PinningInv'
    BY <2>1, <2>3 DEF PinningInv, Pinning, FieldsOK, PlaceInv, RoomPc
  <2> QED BY <2>3, <2>4, <2>5, <2>6, <2>7
<1> QED BY <1>1, <1>2

\* RegisterNode only adds to the map of nodes.
LEMMA RegisterNodeInv ==
  ASSUME BufInv, NEW c \in Clients, NEW n \in Nodes, RegisterNode(c, n)
  PROVE  BufInv'
<1> USE BufferAssumption DEF BufInv
<1>1. UNCHANGED <<activesize, queue, loaded, size, refs, iter, closed, lock, pc, at, need, evicted, handles>>
  BY DEF RegisterNode, nodePart, clientPart
<1>2. FieldsOK' /\ CountInv' /\ PinnedStaysLoaded' /\ WithinLimit'
  BY <1>1 DEF FieldsOK, CountInv, PinnedStaysLoaded, WithinLimit
<1>3. PlaceInv' /\ LockInv' /\ PinningInv'
  BY <1>1 DEF PlaceInv, LockInv, PinningInv, Pinning
<1> QED BY <1>2, <1>3

\* Pin under the lock: the node is loaded by now, or the lock is kept.
LEMMA PinLockInv ==
  ASSUME BufInv, NEW c \in Clients, PinLock(c)
  PROVE  BufInv'
<1> USE BufferAssumption DEF BufInv
<1> DEFINE n == at[c]
<1>0. n \in Nodes /\ pc[c] = "PinLock" /\ c \notin handles[n]
  BY DEF PinLock, PlaceInv, PinningInv
<1>1. CASE n \in loaded
  <2>1. /\ pc' = [pc EXCEPT ![c] = "idle"] /\ at' = [at EXCEPT ![c] = NoNode]
        /\ need' = [need EXCEPT ![c] = 0] /\ AddRef(c, n)
        /\ UNCHANGED <<activesize, queue, loaded, size, iter, closed, lock, evicted>>
    BY <1>1 DEF PinLock, Return, mgrPart
  <2>2. /\ refs' \in [Nodes -> Nat] /\ handles' \in [Nodes -> SUBSET Clients]
        /\ CountInv'
    BY <1>0, <2>1, AddRefCounts
  <2>3. FieldsOK'
    BY <2>1, <2>2 DEF FieldsOK, PcSet
  <2>4. PlaceInv'
    BY <2>1 DEF PlaceInv, FieldsOK
  <2>5. LockInv'
    BY <1>0, <2>1 DEF LockInv, FieldsOK, RoomPc
  <2>6. PinningInv'
    BY SMTT(30), <1>0, <2>1, <2>3 DEF PinningInv, Pinning, FieldsOK, PlaceInv, RoomPc, AddRef
  <2>7. PinnedStaysLoaded' /\ WithinLimit'
    BY <1>0, <1>1, <2>1, <2>2 DEF PinnedStaysLoaded, AddRef, FieldsOK, WithinLimit
  <2> QED BY <2>2, <2>3, <2>4, <2>5, <2>6, <2>7
<1>2. CASE n \notin loaded
  <2>1. /\ pc' = [pc EXCEPT ![c] = "ApplyQuota"] /\ lock' = [lock EXCEPT ![n] = c]
        /\ need' = [need EXCEPT ![c] = size[n]] /\ lock[n] = NoClient
        /\ UNCHANGED <<activesize, queue, loaded, size, refs, iter, closed, at, evicted, handles>>
    BY <1>2 DEF PinLock, mgrPart, Free
  <2>2. FieldsOK'
    BY <1>0, <2>1 DEF FieldsOK, PcSet, RoomPc
  <2>3. CountInv' /\ PinnedStaysLoaded' /\ WithinLimit'
    BY <2>1 DEF CountInv, PinnedStaysLoaded, WithinLimit
  <2>4. PlaceInv'
    BY <1>0, <2>1 DEF PlaceInv, FieldsOK
  <2>5. LockInv'
    BY SMTT(30), <1>0, <2>1 DEF LockInv, FieldsOK, RoomPc
  <2>6. PinningInv'
    BY <1>0, <2>1, <2>2 DEF PinningInv, Pinning, FieldsOK, PlaceInv, RoomPc
  <2> QED BY <2>2, <2>3, <2>4, <2>5, <2>6
<1> QED BY <1>1, <1>2

\* ApplyQuota takes the quota within the limit or goes to look for a victim.
LEMMA ApplyQuotaInv ==
  ASSUME BufInv, NEW c \in Clients, ApplyQuota(c)
  PROVE  BufInv'
<1> USE BufferAssumption DEF BufInv
<1>1. PICK p \in {"Dequeue", "Load", "Expanding"} :
        /\ pc' = [pc EXCEPT ![c] = p]
        /\ p = "Load" => Pinning(c)
        /\ Pinning(c) => p \in RoomPc \cup {"Load"}
  BY DEF ApplyQuota, Goto, RoomPc
<1>2. /\ pc[c] = "ApplyQuota"
      /\ UNCHANGED <<queue, loaded, size, refs, iter, closed, lock, at, need, evicted, handles>>
  BY DEF ApplyQuota, Goto, nodePart
<1>3. activesize' \in Int /\ activesize' <= MaxSize
  BY DEF ApplyQuota, FieldsOK, WithinLimit
<1>4. FieldsOK'
  BY <1>1, <1>2, <1>3 DEF FieldsOK, PcSet, RoomPc
<1>5. CountInv' /\ PinnedStaysLoaded' /\ WithinLimit'
  BY <1>2, <1>3 DEF CountInv, PinnedStaysLoaded, WithinLimit
<1>6. PlaceInv'
  BY <1>1, <1>2 DEF PlaceInv, FieldsOK
<1>7. LockInv'
  BY SMTT(30), <1>1, <1>2 DEF LockInv, FieldsOK, RoomPc, Pinning
<1>8. PinningInv'
  BY <1>1, <1>2 DEF PinningInv, Pinning, FieldsOK, PlaceInv, RoomPc
<1> QED BY <1>4, <1>5, <1>6, <1>7, <1>8

\* Dequeue hands over an entry, or the call ends and gives its lock back.
LEMMA DequeueInv ==
  ASSUME BufInv, NEW c \in Clients, Dequeue(c)
  PROVE  BufInv'
<1> USE BufferAssumption DEF BufInv
<1>0. /\ pc[c] = "Dequeue"
      /\ UNCHANGED <<activesize, loaded, size, refs, iter, closed, handles>>
  BY DEF Dequeue
<1>1. CountInv' /\ PinnedStaysLoaded' /\ WithinLimit'
  BY <1>0 DEF CountInv, PinnedStaysLoaded, WithinLimit
<1>2. CASE /\ queue # <<>>
           /\ evicted' = [evicted EXCEPT ![c] = Head(queue)]
           /\ queue' = Tail(queue)
           /\ Goto(c, "IsClosed")
           /\ UNCHANGED lock
  <2>1. Head(queue) \in Entry /\ queue' \in Seq(Entry)
    BY <1>2 DEF FieldsOK
  <2>2. pc' = [pc EXCEPT ![c] = "IsClosed"] /\ UNCHANGED <<at, need>>
    BY <1>2 DEF Goto
  <2>3. FieldsOK'
    BY <1>0, <1>2, <2>1, <2>2 DEF FieldsOK, PcSet, RoomPc
  <2>4. PlaceInv'
    BY <1>0, <1>2, <2>1, <2>2 DEF PlaceInv, FieldsOK
  <2>5. LockInv' /\ PinningInv'
    BY SMTT(30), <1>0, <1>2, <2>2 DEF LockInv, PinningInv, Pinning, FieldsOK, PlaceInv, RoomPc
  <2> QED BY <1>1, <2>3, <2>4, <2>5
<1>3. CASE NoRoom(c)
  <2>1. /\ pc' = [pc EXCEPT ![c] = "idle"] /\ at' = [at EXCEPT ![c] = NoNode]
        /\ need' = [need EXCEPT ![c] = 0]
        /\ lock' = IF Pinning(c) THEN [lock EXCEPT ![at[c]] = NoClient] ELSE lock
        /\ UNCHANGED <<queue, evicted>>
    BY <1>3 DEF NoRoom, Return
  <2>2. FieldsOK'
    BY <1>0, <2>1 DEF FieldsOK, PcSet, Pinning
  <2>3. PlaceInv'
    BY <1>0, <2>1 DEF PlaceInv, FieldsOK
  <2>4. LockInv'
    BY SMTT(30), <1>0, <2>1 DEF LockInv, FieldsOK, RoomPc, Pinning
  <2>5. PinningInv'
    BY <1>0, <2>1, <2>2 DEF PinningInv, Pinning, FieldsOK, PlaceInv, RoomPc
  <2> QED BY <1>1, <2>2, <2>3, <2>4, <2>5
<1> QED BY <1>2, <1>3 DEF Dequeue

\* The first look at a victim moves only the client.
LEMMA IsClosedInv ==
  ASSUME BufInv, NEW c \in Clients, IsClosed(c)
  PROVE  BufInv'
<1> USE BufferAssumption DEF BufInv
<1>1. PICK p \in {"Dequeue", "Evict"} :
        /\ pc' = [pc EXCEPT ![c] = p]
        /\ p = "Evict" => evicted' = evicted
  BY DEF IsClosed, Goto
<1>2. /\ pc[c] = "IsClosed"
      /\ evicted' \in {evicted, [evicted EXCEPT ![c] = NoEntry]}
      /\ UNCHANGED <<activesize, queue, loaded, size, refs, iter, closed, lock, at, need, handles>>
  BY DEF IsClosed, Goto, Forget, nodePart, mgrPart
<1>3. FieldsOK'
  BY <1>1, <1>2 DEF FieldsOK, PcSet, RoomPc
<1>4. CountInv' /\ PinnedStaysLoaded' /\ WithinLimit'
  BY <1>2 DEF CountInv, PinnedStaysLoaded, WithinLimit
<1>5. PlaceInv'
  BY <1>1, <1>2 DEF PlaceInv, FieldsOK
<1>6. LockInv' /\ PinningInv'
  BY SMTT(30), <1>1, <1>2 DEF LockInv, PinningInv, Pinning, FieldsOK, PlaceInv, RoomPc
<1> QED BY <1>3, <1>4, <1>5, <1>6

\* Evict unloads a node only when its count is zero, so that nobody has a handle.
LEMMA EvictInv ==
  ASSUME BufInv, NEW c \in Clients, Evict(c)
  PROVE  BufInv'
<1> USE BufferAssumption DEF BufInv
<1> DEFINE v == evicted[c].Handle
<1>1. PICK p \in {"Dequeue", "ApplyQuota"} : pc' = [pc EXCEPT ![c] = p]
  BY DEF Evict, Goto
<1>2. /\ pc[c] = "Evict" /\ evicted' = [evicted EXCEPT ![c] = NoEntry]
      /\ UNCHANGED <<queue, size, refs, iter, closed, lock, at, need, handles>>
  BY DEF Evict, Goto, Forget
<1>3. v \in Nodes
  BY <1>2 DEF PlaceInv, Entry
<1>4. \/ UNCHANGED <<activesize, loaded>>
      \/ loaded' = loaded \ {v} /\ activesize' = activesize - size[v] /\ refs[v] = 0
  BY DEF Evict, Unload, Unloadable
<1>5. FieldsOK' /\ WithinLimit'
  BY SMTT(30), <1>1, <1>2, <1>3, <1>4 DEF FieldsOK, PcSet, RoomPc, WithinLimit
<1>6. CountInv'
  BY <1>2 DEF CountInv
<1>7. refs[v] = 0 => handles[v] = {}
  BY <1>3, CountZero DEF CountInv
<1>8. PinnedStaysLoaded'
  BY <1>2, <1>4, <1>7 DEF PinnedStaysLoaded
<1>9. PlaceInv'
  BY <1>1, <1>2 DEF PlaceInv, FieldsOK
<1>10. LockInv' /\ PinningInv'
  BY SMTT(30), <1>1, <1>2 DEF LockInv, PinningInv, Pinning, FieldsOK, PlaceInv, RoomPc
<1> QED BY <1>5, <1>6, <1>8, <1>9, <1>10

\* Load, Ref and the release of the lock are one step for everybody else.
LEMMA LoadInv ==
  ASSUME BufInv, NEW c \in Clients, Load(c)
  PROVE  BufInv'
<1> USE BufferAssumption DEF BufInv
<1> DEFINE n == at[c]
<1>0. n \in Nodes /\ pc[c] = "Load" /\ c \notin handles[n]
  BY DEF Load, PlaceInv, PinningInv
<1>1. /\ pc' = [pc EXCEPT ![c] = "idle"] /\ at' = [at EXCEPT ![c] = NoNode]
      /\ need' = [need EXCEPT ![c] = 0] /\ AddRef(c, n)
      /\ loaded' = loaded \cup {n} /\ lock' = [lock EXCEPT ![n] = NoClient]
      /\ UNCHANGED <<activesize, queue, size, iter, closed, evicted>>
  BY DEF Load, Return, mgrPart
<1>2. /\ refs' \in [Nodes -> Nat] /\ handles' \in [Nodes -> SUBSET Clients]
      /\ CountInv'
  BY <1>0, <1>1, AddRefCounts
<1>3. FieldsOK'
  BY <1>0, <1>1, <1>2 DEF FieldsOK, PcSet
<1>4. PlaceInv'
  BY <1>1 DEF PlaceInv, FieldsOK
<1>5. LockInv'
  BY SMTT(30), <1>0, <1>1 DEF LockInv, FieldsOK, RoomPc
<1>6. PinningInv'
  <2>1. SUFFICES ASSUME NEW d \in Clients,
                        pc'[d] \in {"PinLock", "Load"} \/ (pc'[d] \in RoomPc /\ Pinning(d)')
                 PROVE  d \notin handles'[at'[d]]
    BY DEF PinningInv
  <2>2. d # c /\ pc'[d] = pc[d] /\ at'[d] = at[d]
    BY <1>1, <2>1 DEF FieldsOK, RoomPc
  <2>3. at[d] \in Nodes
    BY <2>1, <2>2 DEF PlaceInv, RoomPc
  <2>4. pc[d] \in RoomPc /\ Pinning(d)' => Pinning(d)
    BY <1>1, <2>2, <2>3, BufferAssumption DEF Pinning, FieldsOK
  <2>5. d \notin handles[at[d]]
    BY <2>1, <2>2, <2>4 DEF PinningInv
  <2> QED
    BY <1>0, <1>1, <2>2, <2>3, <2>5 DEF FieldsOK, AddRef
<1>7. PinnedStaysLoaded' /\ WithinLimit'
  BY <1>0, <1>1, <1>2 DEF PinnedStaysLoaded, AddRef, FieldsOK, WithinLimit
<1> QED BY <1>2, <1>3, <1>4, <1>5, <1>6, <1>7

\* Unpin takes one handle and one reference.
LEMMA UnpinInv ==
  ASSUME BufInv, NEW c \in Clients, NEW n \in Nodes, Unpin(c, n)
  PROVE  BufInv'
<1> USE BufferAssumption DEF BufInv
<1>1. /\ c \in handles[n] /\ pc[c] = "idle" /\ lock[n] = NoClient
      /\ refs' = [refs EXCEPT ![n] = @ - 1] /\ handles' = [handles EXCEPT ![n] = @ \ {c}]
      /\ UNCHANGED <<activesize, queue, loaded, size, closed, need, evicted>>
  BY DEF Unpin, Begin, Free, mgrPart
<1>2. \/ /\ pc' = [pc EXCEPT ![c] = "Put"] /\ at' = [at EXCEPT ![c] = n]
         /\ iter' = [iter EXCEPT ![n] = @ + 1] /\ lock' = [lock EXCEPT ![n] = c]
      \/ /\ pc' = [pc EXCEPT ![c] = "idle"] /\ at' = [at EXCEPT ![c] = NoNode]
         /\ UNCHANGED <<iter, lock>>
  BY DEF Unpin, Begin
<1>3. \A m \in Nodes : IsFiniteSet(handles'[m]) /\ refs'[m] = Cardinality(handles'[m])
                        /\ refs'[m] \in Nat
  <2>1. SUFFICES ASSUME NEW m \in Nodes
                 PROVE  /\ IsFiniteSet(handles'[m]) /\ refs'[m] = Cardinality(handles'[m])
                        /\ refs'[m] \in Nat
    OBVIOUS
  <2>2. CASE m = n
    <3>1. handles'[m] = handles[n] \ {c} /\ refs'[m] = refs[n] - 1
      BY <1>1, <2>2 DEF FieldsOK
    <3>2. IsFiniteSet(handles[n]) /\ refs[n] = Cardinality(handles[n])
      BY DEF CountInv
    <3>3. /\ IsFiniteSet(handles[n] \ {c})
          /\ Cardinality(handles[n] \ {c}) = Cardinality(handles[n]) - 1
          /\ Cardinality(handles[n] \ {c}) \in Nat
      BY <1>1, <3>2, CountRemove
    <3> QED BY <3>1, <3>2, <3>3
  <2>3. CASE m # n
    <3>1. handles'[m] = handles[m] /\ refs'[m] = refs[m]
      BY <1>1, <2>3 DEF FieldsOK
    <3> QED BY <3>1 DEF CountInv, FieldsOK
  <2> QED BY <2>2, <2>3
<1>4. CountInv'
  BY <1>3 DEF CountInv
<1>5. refs' \in [Nodes -> Nat] /\ handles' \in [Nodes -> SUBSET Clients]
  BY <1>1, <1>3 DEF FieldsOK
<1>6. PinnedStaysLoaded' /\ WithinLimit'
  BY <1>1 DEF PinnedStaysLoaded, FieldsOK, WithinLimit
<1>7. CASE /\ pc' = [pc EXCEPT ![c] = "Put"] /\ at' = [at EXCEPT ![c] = n]
           /\ iter' = [iter EXCEPT ![n] = @ + 1] /\ lock' = [lock EXCEPT ![n] = c]
  <2>1. FieldsOK'
    BY SMTT(30), <1>1, <1>5, <1>7 DEF FieldsOK, PcSet
  <2>2. PlaceInv'
    BY <1>1, <1>7 DEF PlaceInv, FieldsOK
  <2>3. LockInv'
    BY SMTT(30), <1>1, <1>7 DEF LockInv, FieldsOK, RoomPc
  <2>4. PinningInv'
    <3>1. SUFFICES ASSUME NEW d \in Clients,
                          pc'[d] \in {"PinLock", "Load"} \/ (pc'[d] \in RoomPc /\ Pinning(d)')
                   PROVE  d \notin handles'[at'[d]]
      BY DEF PinningInv
    <3>2. d # c
      BY <1>7, <3>1 DEF FieldsOK, RoomPc
    <3>3. pc'[d] = pc[d] /\ at'[d] = at[d] /\ at[d] \in Nodes
      BY <1>7, <3>1, <3>2 DEF FieldsOK, PlaceInv, RoomPc
    <3>4. Pinning(d)' => Pinning(d)
      BY <1>1, <1>7, <3>2, <3>3 DEF Pinning, FieldsOK
    <3>5. d \notin handles[at[d]]
      BY <3>1, <3>3, <3>4 DEF PinningInv
    <3> QED BY <1>1, <3>3, <3>5 DEF FieldsOK
  <2> QED BY <1>4, <1>6, <2>1, <2>2, <2>3, <2>4
<1>8. CASE /\ pc' = [pc EXCEPT ![c] = "idle"] /\ at' = [at EXCEPT ![c] = NoNode]
           /\ UNCHANGED <<iter, lock>>
  <2>1. FieldsOK'
    BY <1>1, <1>5, <1>8 DEF FieldsOK, PcSet
  <2>2. PlaceInv'
    BY <1>1, <1>8 DEF PlaceInv, FieldsOK
  <2>3. LockInv'
    BY SMTT(30), <1>1, <1>8 DEF LockInv, FieldsOK, RoomPc
  <2>4. PinningInv'
    BY <1>1, <1>8, <2>1 DEF PinningInv, Pinning, FieldsOK, PlaceInv, RoomPc
  <2> QED BY <1>4, <1>6, <2>1, <2>2, <2>3, <2>4
<1> QED BY <1>2, <1>7, <1>8

\* Put ends Unpin, whatever the queue says.
LEMMA PutInv ==
  ASSUME BufInv, NEW c \in Clients, Put(c)
  PROVE  BufInv'
<1> USE BufferAssumption DEF BufInv
<1> DEFINE n == at[c]
<1>0. n \in Nodes /\ pc[c] = "Put"
  BY DEF Put, PlaceInv
<1>1. /\ pc' = [pc EXCEPT ![c] = "idle"] /\ at' = [at EXCEPT ![c] = NoNode]
      /\ need' = [need EXCEPT ![c] = 0] /\ lock' = [lock EXCEPT ![n] = NoClient]
      /\ UNCHANGED <<activesize, loaded, size, refs, iter, closed, evicted, handles>>
  BY DEF Put, Return
<1>2. queue' \in Seq(Entry)
  <2>1. [Handle |-> n, Iter |-> iter[n]] \in Entry
    BY <1>0 DEF Entry, FieldsOK
  <2>2. PICK e \in Entry : queue' \in {queue, Append(queue, e)}
    BY <2>1 DEF Put
  <2>3. queue \in Seq(Entry)
    BY DEF FieldsOK
  <2> HIDE DEF BufInv
  <2> QED BY SMTT(30), <2>2, <2>3
<1>3. FieldsOK'
  BY <1>0, <1>1, <1>2 DEF FieldsOK, PcSet
<1>4. CountInv' /\ PinnedStaysLoaded' /\ WithinLimit'
  BY <1>1 DEF CountInv, PinnedStaysLoaded, WithinLimit
<1>5. PlaceInv'
  BY <1>1 DEF PlaceInv, FieldsOK
<1>6. LockInv'
  BY SMTT(30), <1>0, <1>1 DEF LockInv, FieldsOK, RoomPc
<1>7. PinningInv'
  BY <1>0, <1>1, <1>3 DEF PinningInv, Pinning, FieldsOK, PlaceInv, RoomPc
<1> QED BY <1>3, <1>4, <1>5, <1>6, <1>7

\* Close unloads a node that may be held, and marks it closed.
LEMMA CloseInv ==
  ASSUME BufInv, NEW c \in Clients, NEW n \in Nodes, Close(c, n)
  PROVE  BufInv'
<1> USE BufferAssumption DEF BufInv
<1>1. /\ pc[c] = "idle" /\ pc' = [pc EXCEPT ![c] = "Unregister"] /\ at' = [at EXCEPT ![c] = n]
      /\ closed' = closed \cup {n}
      /\ UNCHANGED <<queue, size, refs, iter, lock, need, evicted, handles>>
  BY DEF Close, Begin
<1>2. \/ UNCHANGED <<activesize, loaded>>
      \/ loaded' = loaded \ {n} /\ activesize' = activesize - size[n]
  BY DEF Close, Unload
<1>3. FieldsOK' /\ WithinLimit'
  BY SMTT(30), <1>1, <1>2 DEF FieldsOK, PcSet, WithinLimit
<1>4. CountInv' /\ PinnedStaysLoaded'
  BY <1>1, <1>2 DEF CountInv, PinnedStaysLoaded
<1>5. PlaceInv'
  BY <1>1 DEF PlaceInv, FieldsOK
<1>6. LockInv'
  BY SMTT(30), <1>1 DEF LockInv, FieldsOK, RoomPc
<1>7. PinningInv'
  BY <1>1 DEF PinningInv, Pinning, FieldsOK, PlaceInv, RoomPc
<1> QED BY <1>3, <1>4, <1>5, <1>6, <1>7

\* UnregisterNode ends Close.
LEMMA UnregisterInv ==
  ASSUME BufInv, NEW c \in Clients, Unregister(c)
  PROVE  BufInv'
<1> USE BufferAssumption DEF BufInv
<1>1. /\ pc[c] = "Unregister" /\ pc' = [pc EXCEPT ![c] = "idle"] /\ at' = [at EXCEPT ![c] = NoNode]
      /\ need' = [need EXCEPT ![c] = 0]
      /\ UNCHANGED <<activesize, queue, loaded, size, refs, iter, closed, lock, evicted, handles>>
  BY DEF Unregister, Return, nodePart
<1>2. FieldsOK'
  BY <1>1 DEF FieldsOK, PcSet
<1>3. CountInv' /\ PinnedStaysLoaded' /\ WithinLimit'
  BY <1>1 DEF CountInv, PinnedStaysLoaded, WithinLimit
<1>4. PlaceInv'
  BY <1>1 DEF PlaceInv, FieldsOK
<1>5. LockInv'
  BY SMTT(30), <1>1 DEF LockInv, FieldsOK, RoomPc
<1>6. PinningInv'
  BY <1>1 DEF PinningInv, Pinning, FieldsOK, PlaceInv, RoomPc
<1> QED BY <1>2, <1>3, <1>4, <1>5, <1>6

\* Expand looks for room without a lock, so that it is not taken for a Pin.
LEMMA ExpandInv ==
  ASSUME BufInv, NEW c \in Clients, NEW n \in Nodes, NEW d \in Deltas, Expand(c, n, d)
  PROVE  BufInv'
<1> USE BufferAssumption DEF BufInv
<1>1. /\ pc[c] = "idle" /\ pc' = [pc EXCEPT ![c] = "ApplyQuota"] /\ at' = [at EXCEPT ![c] = n]
      /\ need' = [need EXCEPT ![c] = d]
      /\ UNCHANGED <<activesize, queue, loaded, size, refs, iter, closed, lock, evicted, handles>>
  BY DEF Expand, Begin, nodePart, mgrPart
<1>2. FieldsOK'
  BY <1>1 DEF FieldsOK, PcSet, RoomPc
<1>3. CountInv' /\ PinnedStaysLoaded' /\ WithinLimit'
  BY <1>1 DEF CountInv, PinnedStaysLoaded, WithinLimit
<1>4. PlaceInv'
  BY <1>1 DEF PlaceInv, FieldsOK
<1>5. LockInv'
  <2>1. \A m \in Nodes : lock[m] # c
    BY <1>1 DEF LockInv, RoomPc
  <2>2. \A e \in Clients \ {c} : pc'[e] = pc[e] /\ at'[e] = at[e]
    BY <1>1 DEF FieldsOK
  <2> QED
    BY <1>1, <2>1, <2>2 DEF LockInv
<1>6. PinningInv'
  BY SMTT(30), <1>1 DEF PinningInv, Pinning, FieldsOK, PlaceInv, LockInv, RoomPc
<1> QED BY <1>2, <1>3, <1>4, <1>5, <1>6

\* The end of Expand: the node grows or the quota goes back.
LEMMA ExpandedInv ==
  ASSUME BufInv, NEW c \in Clients, Expanded(c)
  PROVE  BufInv'
<1> USE BufferAssumption DEF BufInv
<1>0. at[c] \in Nodes /\ pc[c] = "Expanding"
  BY DEF Expanded, PlaceInv
<1>1. /\ pc' = [pc EXCEPT ![c] = "idle"] /\ at' = [at EXCEPT ![c] = NoNode]
      /\ need' = [need EXCEPT ![c] = 0]
      /\ UNCHANGED <<queue, loaded, refs, iter, closed, lock, evicted, handles>>
  BY DEF Expanded, Return
<1>2. /\ size' \in [Nodes -> Nat]
      /\ activesize' \in Int /\ activesize' <= activesize
  <2>1. need[c] \in Nat /\ activesize \in Int /\ size \in [Nodes -> Nat]
    BY DEF FieldsOK
  <2>2. CASE size' = [size EXCEPT ![at[c]] = @ + need[c]] /\ UNCHANGED activesize
    BY SMTT(30), <1>0, <2>1, <2>2
  <2>3. CASE activesize' = activesize - need[c] /\ UNCHANGED size
    BY <2>1, <2>3
  <2> QED BY <2>2, <2>3 DEF Expanded
<1>3. FieldsOK' /\ WithinLimit'
  BY SMTT(30), <1>1, <1>2 DEF FieldsOK, PcSet, WithinLimit
<1>4. CountInv' /\ PinnedStaysLoaded'
  BY <1>1 DEF CountInv, PinnedStaysLoaded
<1>5. PlaceInv'
  BY <1>1 DEF PlaceInv, FieldsOK
<1>6. LockInv'
  BY SMTT(30), <1>0, <1>1 DEF LockInv, FieldsOK, RoomPc
<1>7. PinningInv'
  BY <1>1 DEF PinningInv, Pinning, FieldsOK, PlaceInv, RoomPc
<1> QED BY <1>3, <1>4, <1>5, <1>6, <1>7

(***************************************************************************)
(* The theorems.                                                           *)
(***************************************************************************)
\* Every step of every client preserves the invariant.
LEMMA NextInv == BufInv /\ [BufNext]_bufVars => BufInv'
<1> SUFFICES ASSUME BufInv, [BufNext]_bufVars PROVE BufInv'
  OBVIOUS
<1>1. CASE UNCHANGED bufVars
  <2>1. UNCHANGED <<activesize, queue, loaded, size, refs, iter, closed, lock, pc, at, need, evicted, handles>>
    BY <1>1 DEF bufVars, mgrPart, nodePart, clientPart
  <2> QED
    BY <2>1 DEF BufInv, FieldsOK, CountInv, PlaceInv, LockInv, PinningInv, Pinning,
                PinnedStaysLoaded, WithinLimit
<1>2. ASSUME NEW c \in Clients, Call(c) PROVE BufInv'
  BY <1>2, RegisterNodeInv, PinReadInv, UnpinInv, CloseInv, ExpandInv DEF Call
<1>3. ASSUME NEW c \in Clients, Step(c) PROVE BufInv'
  BY <1>3, PinLockInv, ApplyQuotaInv, DequeueInv, IsClosedInv, EvictInv, LoadInv, PutInv,
     UnregisterInv, ExpandedInv DEF Step
<1> QED BY <1>1, <1>2, <1>3 DEF BufNext

\* The inductive invariant of the buffer manager: counts, locks and positions
\* of the calls agree at all times.
THEOREM BufferInductive == BufSpec => []BufInv
BY InitInv, NextInv, PTL DEF BufSpec

\* Pin, Unpin and MakeRoom: a node of which a client has a handle is in memory
\* until it is closed, with any number of clients at work.
THEOREM BufferPinnedStaysLoaded == BufSpec => []PinnedStaysLoaded
<1>1. BufInv => PinnedStaysLoaded
  BY DEF BufInv
<1> QED BY <1>1, BufferInductive, PTL

\* ApplyQuota: the account of the limiter never passes its limit.
THEOREM BufferWithinLimit == BufSpec => []WithinLimit
<1>1. BufInv => WithinLimit
  BY DEF BufInv
<1> QED BY <1>1, BufferInductive, PTL

\* Ref and Unref: the reference count of a node is the number of its handles.
THEOREM BufferCounts == BufSpec => []CountInv
<1>1. BufInv => CountInv
  BY DEF BufInv
<1> QED BY <1>1, BufferInductive, PTL
=============================================================================
