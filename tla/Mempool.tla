------------------------------ MODULE Mempool -------------------------------
(***************************************************************************)
(* The memory pool (pkg/common/mempool.go): pages of fixed sizes, larger   *)
(* buffers and plain quotas, all charged to one usage counter by several   *)
(* users at once.  Counters are unsigned words and wrap.                   *)
(***************************************************************************)
EXTENDS Integers, Sequences, FiniteSetsExt

CONSTANTS
  Users,
  PageSizes,     \* sizes of the pages, ascending
  Capacity,      \* Mempool.capacity
  U32, U64,      \* 2^32 and 2^64
  Requests       \* sizes that users ask for

ASSUME PoolAssumption ==
  /\ PageSizes \in Seq(Nat \ {0}) /\ PageSizes # <<>>
  /\ \A i, j \in DOMAIN PageSizes : i < j => PageSizes[i] < PageSizes[j]
  /\ Capacity \in Nat /\ U32 \in Nat \ {0} /\ U64 \in Nat \ {0}
  /\ Requests \subseteq Nat

VARIABLES
  usage, quotausage, other, peakusage,   \* fields of Mempool
  count,      \* poolWrapper.count of each page size
  mem,        \* the MemNode a user holds or is getting: kind, request, sizes, page
  ppc,        \* where a user is in its call
  post, peak, \* Alloc's local variables postsize and peak
  large,      \* history: a quota of 2^32 or more was granted
  died        \* Free's check of the usage failed

poolVars == <<usage, quotausage, other, peakusage, count, mem, ppc, post, peak, large, died>>

NoMem == [kind |-> "none", asked |-> 0, charged |-> 0, size |-> 0, page |-> 0]
Last == Len(PageSizes)

\* The loop of findPageIdx between l and h, which are positions from 1.
search[l \in 1 .. Last + 1, h \in 0 .. Last, s \in Nat] ==
  LET m == (l + h) \div 2 IN
  IF l > h THEN l
  ELSE IF PageSizes[m] < s THEN search[m + 1, h, s]
  ELSE IF PageSizes[m] > s THEN search[l, m - 1, s]
  ELSE m

\* findPageIdx: 0 stands for "not ok".
findPageIdx(s) == IF s > PageSizes[Last] THEN 0 ELSE search[1, Last, s]

PoolInit ==
  /\ usage = 0 /\ quotausage = 0 /\ other = 0 /\ peakusage = 0
  /\ count = [i \in DOMAIN PageSizes |-> 0]
  /\ mem = [u \in Users |-> NoMem]
  /\ ppc = [u \in Users |-> "idle"]
  /\ post = [u \in Users |-> 0] /\ peak = [u \in Users |-> 0]
  /\ large = FALSE
  /\ died = FALSE

\* The compare-and-swap loop of Alloc and ApplyQuota: reserve, or give up.
Charge(s) ==
  /\ (usage + s) % U64 <= Capacity
  /\ usage' = (usage + s) % U64

\* Variant: a page is charged with the requested size.
AllocChargesRequest(u, s) ==
  LET i == findPageIdx(s) IN
  /\ ppc[u] = "idle" /\ mem[u] = NoMem
  /\ Charge(s)
  /\ mem' = [mem EXCEPT ![u] = [kind |-> IF i = 0 THEN "other" ELSE "page",
                                asked |-> s, charged |-> s,
                                size |-> IF i = 0 THEN s ELSE PageSizes[i], page |-> i]]
  /\ post' = [post EXCEPT ![u] = usage']
  /\ ppc' = [ppc EXCEPT ![u] = "peak"]
  /\ UNCHANGED <<quotausage, other, peakusage, count, peak, large, died>>

\* Alloc up to the reservation; a request that does not fit returns nil.
Alloc(u, s) ==
  LET i == findPageIdx(s)
      charged == IF i = 0 THEN s ELSE PageSizes[i] IN
  /\ ppc[u] = "idle" /\ mem[u] = NoMem
  /\ Charge(charged)
  /\ mem' = [mem EXCEPT ![u] = [kind |-> IF i = 0 THEN "other" ELSE "page",
                                asked |-> s, charged |-> charged,
                                size |-> charged, page |-> i]]
  /\ post' = [post EXCEPT ![u] = usage']
  /\ ppc' = [ppc EXCEPT ![u] = "peak"]
  /\ UNCHANGED <<quotausage, other, peakusage, count, peak, large, died>>

\* Alloc's note of the peak: one load, and one swap that may fail.
LoadPeak(u) ==
  /\ ppc[u] = "peak"
  /\ peak' = [peak EXCEPT ![u] = peakusage]
  /\ ppc' = [ppc EXCEPT ![u] = "swap"]
  /\ UNCHANGED <<usage, quotausage, other, peakusage, count, mem, post, large, died>>

SwapPeak(u) ==
  /\ ppc[u] = "swap"
  /\ peakusage' = IF post[u] > peak[u] /\ peakusage = peak[u] THEN post[u] ELSE peakusage
  /\ ppc' = [ppc EXCEPT ![u] = "count"]
  /\ post' = [post EXCEPT ![u] = 0] /\ peak' = [peak EXCEPT ![u] = 0]
  /\ UNCHANGED <<usage, quotausage, other, count, mem, large, died>>

\* ApplyQuota up to the reservation.  The node keeps the size in 32 bits.
ApplyPoolQuota(u, s) ==
  /\ ppc[u] = "idle" /\ mem[u] = NoMem
  /\ Charge(s)
  /\ mem' = [mem EXCEPT ![u] = [kind |-> "quota", asked |-> s, charged |-> s,
                                size |-> s % U32, page |-> 0]]
  /\ ppc' = [ppc EXCEPT ![u] = "count"]
  /\ large' = (large \/ s >= U32)
  /\ UNCHANGED <<quotausage, other, peakusage, count, post, peak, died>>

\* The counter of the node's kind, d pages or buffers more.
Tally(n, d, bytes) ==
  CASE n.kind = "page"  -> /\ count' = [count EXCEPT ![n.page] = (@ + d) % U64]
                           /\ UNCHANGED <<quotausage, other>>
    [] n.kind = "other" -> other' = (other + d) % U64 /\ UNCHANGED <<quotausage, count>>
    [] n.kind = "quota" -> quotausage' = (quotausage + d * bytes) % U64
                           /\ UNCHANGED <<other, count>>

\* The second half of Alloc and of ApplyQuota.
Counted(u) ==
  /\ ppc[u] = "count"
  /\ Tally(mem[u], 1, mem[u].charged)
  /\ ppc' = [ppc EXCEPT ![u] = "idle"]
  /\ UNCHANGED <<usage, peakusage, mem, post, peak, large, died>>

\* Free: the counter first, then the usage.
FreeCount(u) ==
  /\ ppc[u] = "idle" /\ mem[u] # NoMem
  /\ Tally(mem[u], -1, mem[u].size)
  /\ ppc' = [ppc EXCEPT ![u] = "uncharge"]
  /\ UNCHANGED <<usage, peakusage, mem, post, peak, large, died>>

FreeUsage(u) ==
  /\ ppc[u] = "uncharge"
  /\ usage' = (usage - mem[u].size) % U64
  /\ died' = (died \/ usage' > Capacity)
  /\ mem' = [mem EXCEPT ![u] = NoMem]
  /\ ppc' = [ppc EXCEPT ![u] = "idle"]
  /\ UNCHANGED <<quotausage, other, peakusage, count, post, peak, large>>

PoolNext ==
  \E u \in Users :
    \/ \E s \in Requests : Alloc(u, s) \/ ApplyPoolQuota(u, s)
    \/ LoadPeak(u) \/ SwapPeak(u) \/ Counted(u) \/ FreeCount(u) \/ FreeUsage(u)

PoolSpec == PoolInit /\ [][PoolNext]_poolVars

(***************************************************************************)
(* Properties.                                                             *)
(***************************************************************************)
Holding(k) == {u \in Users : mem[u].kind = k /\ ppc[u] = "idle"}

\* The accounts agree with what the users hold, whatever the order of their
\* steps: the usage with everything charged, each counter with the nodes of
\* its kind, and Free never finds the usage above the capacity.  This needs
\* quotas below 2^32: Free returns only what a 32-bit size remembers.  The page
\* that the binary search picks is the smallest one that holds the request,
\* and the search fails exactly when no page does.
PoolAccounts ==
  /\ ~large => usage = MapThenSumSet(LAMBDA u : mem[u].charged, Users)
  /\ \A i \in DOMAIN PageSizes : count[i] = Cardinality({u \in Holding("page") : mem[u].page = i})
  /\ other = Cardinality(Holding("other"))
  /\ ~large => quotausage = MapThenSumSet(LAMBDA u : mem[u].charged, Holding("quota"))
  /\ ~died
  /\ \A u \in Users :
       LET fit == {i \in DOMAIN PageSizes : PageSizes[i] >= mem[u].asked} IN
       /\ mem[u].kind = "page" => fit # {} /\ mem[u].page = Min(fit)
       /\ mem[u].kind = "other" => fit = {}
=============================================================================
