---------------------------- MODULE RxPageProofs ----------------------------
(***************************************************************************)
(* No page of the receive path is ever lost or in two places, for any      *)
(* number of queues, descriptors, slots and pages, with every fault, XDP   *)
(* verdict and header page.  Each kind of place is treated by itself: a    *)
(* step takes one page out of one kind of place and puts it into another,  *)
(* and keeps every other page where it is.                                 *)
(***************************************************************************)
EXTENDS RxProofs, FiniteSetTheorems

Kind == {"kernel", "pool", "cache", "xdp", "hdr", "job", "slot"}

\* Place <<k, u, v>> holds page p: queue u and position v of a cache or send
\* queue, descriptor u and slot v of a descriptor.
At(p, k, u, v) ==
  \/ k = "kernel" /\ p \in kernel /\ u = 0 /\ v = 0
  \/ k = "pool" /\ u \in Rq /\ p \in pool[u] /\ v = 0
  \/ k = "cache" /\ u \in Rq /\ v \in DOMAIN cache[u] /\ cache[u][v].page = p
  \/ k = "xdp" /\ u \in Rq /\ v \in DOMAIN xdp[u] /\ xdp[u][v] = p
  \/ k = "hdr" /\ u \in Rq /\ hdr[u] = p /\ v = 0
  \/ k = "job" /\ u \in Rq /\ job[u] # NoJob /\ job[u].page = p /\ v = 0
  \/ k = "slot" /\ u \in Wqe /\ v \in OwnedSlots(u) /\ di[u][v].page = p

Empty(p, k) == \A u, v : ~ At(p, k, u, v)

Lone(p, k) == \E u, v : /\ At(p, k, u, v)
                        /\ \A x, y : At(p, k, x, y) => x = u /\ y = v

\* Page p is in exactly one place.
One(p) == \E k \in Kind : Lone(p, k) /\ \A j \in Kind \ {k} : Empty(p, j)

\* What a step does to the places of one kind.
Keeps(p, k)  == (Lone(p, k) => Lone(p, k)') /\ (Empty(p, k) => Empty(p, k)')
Leaves(p, k) == ~ Empty(p, k) /\ (Lone(p, k) => Empty(p, k)')
Enters(p, k) == Empty(p, k) => Lone(p, k)'

AllOne == \A p \in Page : One(p)

----------------------------------------------------------------------------
\* A page that no kind of place gives up or takes in stays in one place.
LEMMA StayOne ==
  ASSUME NEW p, One(p), \A k \in Kind : Keeps(p, k)
  PROVE  One(p)'
BY DEF One, Keeps

\* A page that one kind of place gives up and another takes in.
LEMMA MoveOne ==
  ASSUME NEW p, One(p), NEW a \in Kind, NEW b \in Kind \ {a}, Leaves(p, a), Enters(p, b),
         \A k \in Kind \ {a, b} : Keeps(p, k)
  PROVE  One(p)'
<1>1. Lone(p, a) /\ \A j \in Kind \ {a} : Empty(p, j)
  BY DEF One, Leaves
<1>2. Empty(p, a)' /\ Lone(p, b)' /\ \A j \in Kind \ {a, b} : Empty(p, j)'
  BY <1>1 DEF Leaves, Enters, Keeps
<1> QED BY <1>2 DEF One

\* A step moves one page and keeps the others.
LEMMA MoveAll ==
  ASSUME AllOne, NEW m \in Page, NEW a \in Kind, NEW b \in Kind \ {a},
         Leaves(m, a), Enters(m, b), \A k \in Kind \ {a, b} : Keeps(m, k),
         \A p \in Page \ {m}, k \in Kind : Keeps(p, k)
  PROVE  AllOne'
<1>1. One(m)'
  BY MoveOne DEF AllOne
<1>2. \A p \in Page \ {m} : One(p)'
  BY StayOne DEF AllOne
<1> QED BY <1>1, <1>2 DEF AllOne

\* A step that moves no page.
LEMMA StayAll ==
  ASSUME AllOne, \A p \in Page, k \in Kind : Keeps(p, k)
  PROVE  AllOne'
BY StayOne DEF AllOne

\* What does not change keeps every page.
LEMMA QuietPlaces ==
  ASSUME NEW p
  PROVE  /\ kernel' = kernel => Keeps(p, "kernel")
         /\ pool' = pool => Keeps(p, "pool")
         /\ cache' = cache => Keeps(p, "cache")
         /\ xdp' = xdp => Keeps(p, "xdp")
         /\ hdr' = hdr => Keeps(p, "hdr")
         /\ job' = job => Keeps(p, "job")
         /\ UNCHANGED <<wqe, di, idx, xdpBits>> => Keeps(p, "slot")
<1>1. kernel' = kernel => Keeps(p, "kernel")
  BY DEF Keeps, Lone, Empty, At
<1>2. pool' = pool => Keeps(p, "pool")
  BY DEF Keeps, Lone, Empty, At
<1>3. cache' = cache => Keeps(p, "cache")
  BY DEF Keeps, Lone, Empty, At
<1>4. xdp' = xdp => Keeps(p, "xdp")
  BY DEF Keeps, Lone, Empty, At
<1>5. hdr' = hdr => Keeps(p, "hdr")
  BY DEF Keeps, Lone, Empty, At
<1>6. job' = job => Keeps(p, "job")
  BY DEF Keeps, Lone, Empty, At
<1>7. ASSUME UNCHANGED <<wqe, di, idx, xdpBits>> PROVE Keeps(p, "slot")
  <2>1. \A u : OwnedSlots(u)' = OwnedSlots(u)
    BY <1>7, Zenon DEF OwnedSlots
  <2> QED BY <1>7, <2>1 DEF Keeps, Lone, Empty, At
<1> QED BY <1>1, <1>2, <1>3, <1>4, <1>5, <1>6, <1>7

----------------------------------------------------------------------------
(***************************************************************************)
(* The kinds of place, one by one.                                         *)
(***************************************************************************)
LEMMA KernelPlace ==
  ASSUME NEW m, NEW p
  PROVE  /\ kernel' = kernel \cup {m} => Enters(m, "kernel") /\ (p # m => Keeps(p, "kernel"))
         /\ kernel' = kernel \ {m} =>
              /\ m \in kernel => Leaves(m, "kernel")
              /\ m \notin kernel => Keeps(m, "kernel")
              /\ p # m => Keeps(p, "kernel")
BY DEF Keeps, Leaves, Enters, Lone, Empty, At

LEMMA PoolPlace ==
  ASSUME pool \in [Rq -> SUBSET Page], NEW m, NEW p, NEW r \in Rq
  PROVE  /\ pool' = [pool EXCEPT ![r] = @ \cup {m}] =>
              Enters(m, "pool") /\ (p # m => Keeps(p, "pool"))
         /\ pool' = [pool EXCEPT ![r] = @ \ {m}] =>
              /\ m \in pool[r] => Leaves(m, "pool")
              /\ m \notin pool[r] => Keeps(m, "pool")
              /\ p # m => Keeps(p, "pool")
<1>1. ASSUME pool' = [pool EXCEPT ![r] = @ \cup {m}]
      PROVE  Enters(m, "pool") /\ (p # m => Keeps(p, "pool"))
  <2>1. \A x, u : x \in pool'[u] /\ u \in Rq <=> (u \in Rq /\ (x \in pool[u] \/ (u = r /\ x = m)))
    BY <1>1
  <2> QED BY <2>1 DEF Keeps, Enters, Lone, Empty, At
<1>2. ASSUME pool' = [pool EXCEPT ![r] = @ \ {m}]
      PROVE  /\ m \in pool[r] => Leaves(m, "pool")
             /\ m \notin pool[r] => Keeps(m, "pool")
             /\ p # m => Keeps(p, "pool")
  <2>1. \A x, u : x \in pool'[u] /\ u \in Rq <=> (u \in Rq /\ x \in pool[u] /\ ~ (u = r /\ x = m))
    BY <1>2
  <2> QED BY <2>1 DEF Keeps, Leaves, Lone, Empty, At
<1> QED BY <1>1, <1>2

\* Handing a page to the kernel or the pool.
LEMMA GivePlace ==
  ASSUME PageTypeOK, NEW r \in Rq, NEW m, NEW to \in {"kernel", "pool"}, GiveTo(r, m, to)
  PROVE  /\ Enters(m, to)
         /\ \A k \in {"kernel", "pool"} \ {to} : Keeps(m, k)
         /\ \A p : p # m => Keeps(p, "kernel") /\ Keeps(p, "pool")
BY KernelPlace, PoolPlace, QuietPlaces DEF GiveTo, PageTypeOK

\* Taking one: it was in the pool or, when that is empty, the kernel's.
LEMMA TakePlace ==
  ASSUME PageTypeOK, NEW r \in Rq, NEW m, One(m), TakePage(r, m)
  PROVE  /\ \E a \in {"kernel", "pool"} :
              Leaves(m, a) /\ \A k \in {"kernel", "pool"} \ {a} : Keeps(m, k)
         /\ \A p : p # m => Keeps(p, "kernel") /\ Keeps(p, "pool")
<1>1. m \in pool[r] \/ m \in kernel
  BY DEF TakePage, Available
<1>2. ~ (~ Empty(m, "kernel") /\ ~ Empty(m, "pool"))
  BY DEF One, Kind
<1>3. m \in pool[r] => m \notin kernel
  BY <1>2 DEF Empty, At
<1>4. m \in kernel => m \notin pool[r]
  BY <1>3
<1>5. kernel' = kernel \ {m} /\ pool' = [pool EXCEPT ![r] = @ \ {m}]
  BY DEF TakePage
<1>6. /\ m \in kernel => Leaves(m, "kernel")
      /\ m \notin kernel => Keeps(m, "kernel")
      /\ \A p : p # m => Keeps(p, "kernel")
  BY <1>5, KernelPlace
<1>7. /\ m \in pool[r] => Leaves(m, "pool")
      /\ m \notin pool[r] => Keeps(m, "pool")
      /\ \A p : p # m => Keeps(p, "pool")
  BY <1>5, PoolPlace DEF PageTypeOK
<1>8. {"kernel", "pool"} \ {"pool"} = {"kernel"} /\ {"kernel", "pool"} \ {"kernel"} = {"pool"}
  OBVIOUS
<1>9. CASE m \in pool[r]
  BY <1>3, <1>6, <1>7, <1>8, <1>9
<1>10. CASE m \in kernel
  BY <1>4, <1>6, <1>7, <1>8, <1>10
<1> QED BY <1>1, <1>9, <1>10

----------------------------------------------------------------------------
(***************************************************************************)
(* Three ways the places of a kind change: one more, one less, and the     *)
(* head of a queue's sequence taken, with the others moving up.            *)
(***************************************************************************)
LEMMA NewPlace ==
  ASSUME NEW m, NEW k, NEW x, NEW y,
         \A p, u, v : At(p, k, u, v)' <=> At(p, k, u, v) \/ (p = m /\ u = x /\ v = y),
         \A p : ~ At(p, k, x, y)
  PROVE  Enters(m, k) /\ \A p : p # m => Keeps(p, k)
BY DEF Keeps, Enters, Lone, Empty

LEMMA GonePlace ==
  ASSUME NEW m, NEW k, NEW x, NEW y,
         \A p, u, v : At(p, k, u, v)' <=> At(p, k, u, v) /\ ~ (u = x /\ v = y),
         At(m, k, x, y), \A p : At(p, k, x, y) => p = m
  PROVE  Leaves(m, k) /\ \A p : p # m => Keeps(p, k)
BY DEF Keeps, Leaves, Lone, Empty

LEMMA HeadPlace ==
  ASSUME NEW m, NEW k, NEW r,
         \A p, u, v : At(p, k, u, v)' <=>
           \/ u # r /\ At(p, k, u, v)
           \/ u = r /\ v \in Nat \ {0} /\ At(p, k, u, v + 1),
         At(m, k, r, 1),
         \A p, v : At(p, k, r, v) => v \in Nat \ {0} /\ (v = 1 => p = m)
  PROVE  Leaves(m, k) /\ \A p : p # m => Keeps(p, k)
<1>1. ASSUME Lone(m, k) PROVE Empty(m, k)'
  <2>1. \A u, v : At(m, k, u, v) => u = r /\ v = 1
    BY <1>1 DEF Lone
  <2> QED BY <2>1 DEF Empty
<1>2. ASSUME NEW p, p # m, Lone(p, k) PROVE Lone(p, k)'
  <2>1. PICK u, v : At(p, k, u, v) /\ \A x, y : At(p, k, x, y) => x = u /\ y = v
    BY <1>2 DEF Lone
  <2>2. CASE u = r
    <3>1. v \in Nat \ {0} /\ v - 1 \in Nat \ {0} /\ v - 1 + 1 = v
      BY <1>2, <2>1, <2>2
    <3>2. At(p, k, r, v - 1)'
      BY <2>1, <2>2, <3>1
    <3>3. ASSUME NEW x, NEW y, At(p, k, x, y)' PROVE x = r /\ y = v - 1
      BY <2>1, <2>2, <3>1, <3>3
    <3> QED BY <3>2, <3>3 DEF Lone
  <2>3. CASE u # r
    <3>1. At(p, k, u, v)' /\ \A x, y : At(p, k, x, y)' => x = u /\ y = v
      BY <2>1, <2>3
    <3> QED BY <3>1 DEF Lone
  <2> QED BY <2>2, <2>3
<1>3. \A p : Empty(p, k) => Empty(p, k)'
  BY DEF Empty
<1> QED BY <1>1, <1>2, <1>3 DEF Keeps, Leaves, Empty

\* The XDP send queue of a queue.
LEMMA XdpPlace ==
  ASSUME PageTypeOK, NEW m, NEW r \in Rq
  PROVE  /\ xdp' = [xdp EXCEPT ![r] = Append(@, m)] =>
              Enters(m, "xdp") /\ \A p : p # m => Keeps(p, "xdp")
         /\ xdp[r] # <<>> /\ m = Head(xdp[r]) /\ xdp' = [xdp EXCEPT ![r] = Tail(@)] =>
              Leaves(m, "xdp") /\ \A p : p # m => Keeps(p, "xdp")
<1>0. xdp \in [Rq -> Seq(Page)] /\ xdp[r] \in Seq(Page)
  BY DEF PageTypeOK
<1>1. ASSUME xdp' = [xdp EXCEPT ![r] = Append(@, m)]
      PROVE  Enters(m, "xdp") /\ \A p : p # m => Keeps(p, "xdp")
  <2>1. \A p, u, v : At(p, "xdp", u, v)' <=>
           At(p, "xdp", u, v) \/ (p = m /\ u = r /\ v = Len(xdp[r]) + 1)
    BY <1>0, <1>1 DEF At
  <2>2. \A p : ~ At(p, "xdp", r, Len(xdp[r]) + 1)
    BY <1>0 DEF At
  <2> QED BY <2>1, <2>2, NewPlace
<1>2. ASSUME xdp[r] # <<>>, m = Head(xdp[r]), xdp' = [xdp EXCEPT ![r] = Tail(@)]
      PROVE  Leaves(m, "xdp") /\ \A p : p # m => Keeps(p, "xdp")
  <2>1. At(m, "xdp", r, 1)
    BY <1>0, <1>2 DEF At
  <2>2. \A p, u, v : At(p, "xdp", u, v)' <=>
           \/ u # r /\ At(p, "xdp", u, v)
           \/ u = r /\ v \in Nat \ {0} /\ At(p, "xdp", u, v + 1)
    BY <1>0, <1>2 DEF At
  <2>3. \A p, v : At(p, "xdp", r, v) => v \in Nat \ {0} /\ (v = 1 => p = m)
    BY <1>0, <1>2 DEF At
  <2> QED BY <2>1, <2>2, <2>3, HeadPlace
<1> QED BY <1>1, <1>2

\* The page cache of a queue.
LEMMA CachePlace ==
  ASSUME PageTypeOK, NEW m, NEW r \in Rq
  PROVE  /\ \A lent : CachePut(r, m, lent) =>
              Enters(m, "cache") /\ \A p : p # m => Keeps(p, "cache")
         /\ /\ cache[r] # <<>> /\ m = Head(cache[r]).page
            /\ cache' = [cache EXCEPT ![r] = Tail(@)]
            => Leaves(m, "cache") /\ \A p : p # m => Keeps(p, "cache")
<1> DEFINE E == [page : Page, lent : BOOLEAN]
<1>0. cache \in [Rq -> Seq(E)] /\ cache[r] \in Seq(E)
  BY DEF PageTypeOK
<1> HIDE DEF E
<1>1. ASSUME NEW lent, CachePut(r, m, lent)
      PROVE  Enters(m, "cache") /\ \A p : p # m => Keeps(p, "cache")
  <2>1. cache' = [cache EXCEPT ![r] = Append(@, [page |-> m, lent |-> lent])]
    BY <1>1 DEF CachePut
  <2>2. \A p, u, v : At(p, "cache", u, v)' <=>
           At(p, "cache", u, v) \/ (p = m /\ u = r /\ v = Len(cache[r]) + 1)
    BY <1>0, <2>1 DEF At
  <2>3. \A p : ~ At(p, "cache", r, Len(cache[r]) + 1)
    BY <1>0 DEF At
  <2> QED BY <2>2, <2>3, NewPlace
<1>2. ASSUME cache[r] # <<>>, m = Head(cache[r]).page, cache' = [cache EXCEPT ![r] = Tail(@)]
      PROVE  Leaves(m, "cache") /\ \A p : p # m => Keeps(p, "cache")
  <2>1. At(m, "cache", r, 1)
    BY <1>0, <1>2 DEF At
  <2>2. \A p, u, v : At(p, "cache", u, v)' <=>
           \/ u # r /\ At(p, "cache", u, v)
           \/ u = r /\ v \in Nat \ {0} /\ At(p, "cache", u, v + 1)
    BY <1>0, <1>2 DEF At
  <2>3. \A p, v : At(p, "cache", r, v) => v \in Nat \ {0} /\ (v = 1 => p = m)
    BY <1>0, <1>2 DEF At
  <2> QED BY <2>1, <2>2, <2>3, HeadPlace
<1> QED BY <1>1, <1>2

\* The header page of a queue.
LEMMA HdrPlace ==
  ASSUME PageTypeOK, NEW m \in Page, NEW r \in Rq
  PROVE  /\ hdr[r] = NoPage /\ hdr' = [hdr EXCEPT ![r] = m] =>
              Enters(m, "hdr") /\ \A p \in Page \ {m} : Keeps(p, "hdr")
         /\ hdr[r] = m /\ hdr' = [hdr EXCEPT ![r] = NoPage] =>
              Leaves(m, "hdr") /\ \A p \in Page \ {m} : Keeps(p, "hdr")
<1>0. hdr \in [Rq -> Page \cup {NoPage}] /\ m # NoPage /\ \A p \in Page : p # NoPage
  BY PageAssumption DEF PageTypeOK
<1>1. ASSUME hdr[r] = NoPage, hdr' = [hdr EXCEPT ![r] = m]
      PROVE  Enters(m, "hdr") /\ \A p \in Page \ {m} : Keeps(p, "hdr")
  <2>1. \A p \in Page : \A u, v : At(p, "hdr", u, v)' <=>
           At(p, "hdr", u, v) \/ (p = m /\ u = r /\ v = 0)
    BY <1>0, <1>1 DEF At
  <2> QED BY <1>0, <1>1, <2>1 DEF Keeps, Enters, Lone, Empty
<1>2. ASSUME hdr[r] = m, hdr' = [hdr EXCEPT ![r] = NoPage]
      PROVE  Leaves(m, "hdr") /\ \A p \in Page \ {m} : Keeps(p, "hdr")
  <2>1. \A p \in Page : \A u, v : At(p, "hdr", u, v)' <=>
           At(p, "hdr", u, v) /\ ~ (u = r /\ v = 0)
    BY <1>0, <1>2 DEF At
  <2>2. At(m, "hdr", r, 0) /\ \A p : At(p, "hdr", r, 0) => p = m
    BY <1>2 DEF At
  <2> QED BY <2>1, <2>2 DEF Keeps, Leaves, Lone, Empty
<1> QED BY <1>1, <1>2

\* The unmap a queue executes.
LEMMA JobPlace ==
  ASSUME JobTypeOK, NEW r \in Rq
  PROVE  /\ \A m, range, to : \A stage \in {"sync", "free"} :
              job[r] = NoJob /\ job' = [job EXCEPT ![r] =
                 [stage |-> stage, range |-> range, page |-> m, to |-> to]] =>
              Enters(m, "job") /\ \A p : p # m => Keeps(p, "job")
         /\ \A m : job[r] # NoJob /\ m = job[r].page /\ job' = [job EXCEPT ![r] = NoJob] =>
              Leaves(m, "job") /\ \A p : p # m => Keeps(p, "job")
<1>0. job \in [Rq -> Jobs]
  BY DEF JobTypeOK
<1>1. ASSUME NEW m, NEW stage \in {"sync", "free"}, NEW range, NEW to, job[r] = NoJob,
             job' = [job EXCEPT ![r] = [stage |-> stage, range |-> range, page |-> m, to |-> to]]
      PROVE  Enters(m, "job") /\ \A p : p # m => Keeps(p, "job")
  <2>1. job'[r].page = m /\ job'[r] # NoJob /\ \A u \in Rq \ {r} : job'[u] = job[u]
    BY <1>0, <1>1 DEF NoJob
  <2>2. \A p, u, v : At(p, "job", u, v)' <=>
           At(p, "job", u, v) \/ (p = m /\ u = r /\ v = 0)
    BY <1>1, <2>1 DEF At
  <2>3. \A p : ~ At(p, "job", r, 0)
    BY <1>1 DEF At
  <2> QED BY <2>2, <2>3, NewPlace
<1>2. ASSUME NEW m, job[r] # NoJob, m = job[r].page, job' = [job EXCEPT ![r] = NoJob]
      PROVE  Leaves(m, "job") /\ \A p : p # m => Keeps(p, "job")
  <2>1. \A p, u, v : At(p, "job", u, v)' <=> At(p, "job", u, v) /\ ~ (u = r /\ v = 0)
    BY <1>0, <1>2 DEF At
  <2>2. At(m, "job", r, 0) /\ \A p : At(p, "job", r, 0) => p = m
    BY <1>2 DEF At
  <2> QED BY <2>1, <2>2, GonePlace
<1> QED BY <1>1, <1>2

\* The slots of the descriptors.
SameSlots(v) == /\ OwnedSlots(v)' = OwnedSlots(v)
                /\ \A i \in OwnedSlots(v) : di'[v][i].page = di[v][i].page

LEMMA SlotsStay ==
  ASSUME \A v \in Wqe : SameSlots(v)
  PROVE  \A p : Keeps(p, "slot")
<1>1. \A p, u, v : At(p, "slot", u, v)' <=> At(p, "slot", u, v)
  BY DEF At, SameSlots
<1> QED BY <1>1 DEF Keeps, Lone, Empty

LEMMA SlotGone ==
  ASSUME NEW w \in Wqe, NEW i \in OwnedSlots(w), OwnedSlots(w)' = OwnedSlots(w) \ {i},
         \A j \in OwnedSlots(w) \ {i} : di'[w][j].page = di[w][j].page,
         \A v \in Wqe \ {w} : SameSlots(v), NEW m, m = di[w][i].page
  PROVE  Leaves(m, "slot") /\ \A p : p # m => Keeps(p, "slot")
<1>1. \A p, u, v : At(p, "slot", u, v)' <=> At(p, "slot", u, v) /\ ~ (u = w /\ v = i)
  BY DEF At, SameSlots
<1>2. At(m, "slot", w, i) /\ \A p : At(p, "slot", w, i) => p = m
  BY DEF At
<1> QED BY <1>1, <1>2, GonePlace

LEMMA SlotNew ==
  ASSUME NEW w \in Wqe, NEW i, i \notin OwnedSlots(w), OwnedSlots(w)' = OwnedSlots(w) \cup {i},
         \A j \in OwnedSlots(w) : di'[w][j].page = di[w][j].page,
         \A v \in Wqe \ {w} : SameSlots(v), NEW m, di'[w][i].page = m
  PROVE  Enters(m, "slot") /\ \A p : p # m => Keeps(p, "slot")
<1>1. \A p, u, v : At(p, "slot", u, v)' <=> At(p, "slot", u, v) \/ (p = m /\ u = w /\ v = i)
  BY DEF At, SameSlots
<1>2. \A p : ~ At(p, "slot", w, i)
  BY DEF At
<1> QED BY <1>1, <1>2, NewPlace

\* A descriptor a step does not name keeps its slots.
LEMMA OtherSlots ==
  ASSUME NEW v, wqe'[v] = wqe[v], di'[v] = di[v], idx'[v] = idx[v], xdpBits'[v] = xdpBits[v]
  PROVE  SameSlots(v)
<1>1. OwnedSlots(v)' = OwnedSlots(v)
  BY Zenon DEF OwnedSlots
<1> QED BY <1>1 DEF SameSlots

\* What a descriptor owns in each phase.
LEMMA Owns ==
  ASSUME NEW w
  PROVE  /\ wqe[w] \in {"filling", "unwinding"} => OwnedSlots(w) = 0 .. (idx[w] - 1)
         /\ wqe[w] = "posted" => OwnedSlots(w) = Slots \ xdpBits[w]
         /\ wqe[w] = "freeing" => OwnedSlots(w) = (idx[w] .. Last) \ xdpBits[w]
         /\ wqe[w] = "empty" => OwnedSlots(w) = {}
BY DEF OwnedSlots

LEMMA OwnsNext ==
  ASSUME NEW w
  PROVE  /\ wqe'[w] \in {"filling", "unwinding"} => OwnedSlots(w)' = 0 .. (idx'[w] - 1)
         /\ wqe'[w] = "posted" => OwnedSlots(w)' = Slots \ xdpBits'[w]
         /\ wqe'[w] = "freeing" => OwnedSlots(w)' = (idx'[w] .. Last) \ xdpBits'[w]
         /\ wqe'[w] = "empty" => OwnedSlots(w)' = {}
BY DEF OwnedSlots

----------------------------------------------------------------------------
(***************************************************************************)
(* What the shared calls of the driver do to the places.                   *)
(***************************************************************************)
\* Nothing but the phase or the position of a descriptor changes.
LEMMA NoPageMoves ==
  ASSUME AllOne, UNCHANGED <<kernel, pool, cache, xdp, hdr, job>>, \A v \in Wqe : SameSlots(v)
  PROVE  AllOne'
BY StayAll, QuietPlaces, SlotsStay DEF Kind

\* mlx5e_page_dma_unmap with the release of the page.
LEMMA UnmapPlace ==
  ASSUME PageTypeOK, JobTypeOK, NEW r \in Rq, job[r] = NoJob, NEW m, NEW range,
         NEW to \in {"kernel", "pool"}, StartUnmap(r, m, range, to)
  PROVE  /\ \E b \in {"kernel", "pool", "job"} :
              Enters(m, b) /\ \A k \in {"kernel", "pool", "job"} \ {b} : Keeps(m, k)
         /\ \A p : p # m => \A k \in {"kernel", "pool", "job"} : Keeps(p, k)
<1>1. CASE GiveTo(r, m, to) /\ job' = job
  <2>1. Enters(m, to) /\ \A k \in {"kernel", "pool", "job"} \ {to} : Keeps(m, k)
    BY <1>1, GivePlace, QuietPlaces
  <2>2. \A p : p # m => \A k \in {"kernel", "pool", "job"} : Keeps(p, k)
    BY <1>1, GivePlace, QuietPlaces
  <2> QED BY <2>1, <2>2
<1>2. CASE /\ job' = [job EXCEPT ![r] =
                        [stage |-> "sync", range |-> range, page |-> m, to |-> to]]
           /\ kernel' = kernel /\ pool' = pool
  <2>1. Enters(m, "job") /\ \A p : p # m => Keeps(p, "job")
    BY <1>2, JobPlace
  <2> QED BY <1>2, <2>1, QuietPlaces
<1> QED BY <1>1, <1>2 DEF StartUnmap

\* m enters one of the kinds a page is released to, and nothing else happens.
Released(m) ==
  /\ \E b \in {"kernel", "pool", "job", "cache"} :
       Enters(m, b) /\ \A k \in {"kernel", "pool", "job", "cache"} \ {b} : Keeps(m, k)
  /\ \A p : p # m => \A k \in {"kernel", "pool", "job", "cache"} : Keeps(p, k)

\* mlx5e_page_release_dynamic of a page of its own.
LEMMA ReleasePlace ==
  ASSUME PageTypeOK, JobTypeOK, NEW r \in Rq, job[r] = NoJob, NEW m, NEW recycle \in BOOLEAN,
         NEW lent, ReleaseAlone(r, m, recycle, lent)
  PROVE  Released(m)
<1>1. CASE CachePut(r, m, lent) /\ UNCHANGED <<kernel, pool, job>>
  <2>1. Enters(m, "cache") /\ \A p : p # m => Keeps(p, "cache")
    BY <1>1, CachePlace
  <2> QED BY <1>1, <2>1, QuietPlaces DEF Released
<1>2. CASE /\ StartUnmap(r, m, SinglePage(m), IF recycle THEN "pool" ELSE "kernel")
           /\ cache' = cache
  <2>1. /\ \E b \in {"kernel", "pool", "job"} :
              Enters(m, b) /\ \A k \in {"kernel", "pool", "job"} \ {b} : Keeps(m, k)
        /\ \A p : p # m => \A k \in {"kernel", "pool", "job"} : Keeps(p, k)
    BY <1>2, UnmapPlace
  <2>2. \A p : Keeps(p, "cache")
    BY <1>2, QuietPlaces
  <2> QED BY <2>1, <2>2 DEF Released
<1> QED BY <1>1, <1>2 DEF ReleaseAlone

\* The unwind lets a page go: to the pool as it is, or through its own unmap.
LEMMA UnwoundPlace ==
  ASSUME PageTypeOK, JobTypeOK, NEW r \in Rq, job[r] = NoJob, NEW slot, NEW m, m = slot.page,
         ReleaseUnwound(r, slot)
  PROVE  /\ \E b \in {"kernel", "pool", "job"} :
              Enters(m, b) /\ \A k \in {"kernel", "pool", "job"} \ {b} : Keeps(m, k)
         /\ \A p : p # m => \A k \in {"kernel", "pool", "job"} : Keeps(p, k)
<1>1. CASE GiveTo(r, m, "pool") /\ job' = job
  <2>1. Enters(m, "pool") /\ Keeps(m, "kernel") /\ Keeps(m, "job")
    BY <1>1, GivePlace, QuietPlaces
  <2>2. \A p : p # m => \A k \in {"kernel", "pool", "job"} : Keeps(p, k)
    BY <1>1, GivePlace, QuietPlaces
  <2> QED BY <2>1, <2>2
<1>2. CASE StartUnmap(r, m, SinglePage(m), "pool")
  BY <1>2, UnmapPlace
<1> QED BY <1>1, <1>2 DEF ReleaseUnwound

\* A page that could not be mapped goes to the pool it would have come from.
LEMMA FailPlace ==
  ASSUME PageTypeOK, AllOne, NEW r \in Rq, NEW m \in Available(r),
         kernel' = kernel \ {m}, pool' = [pool EXCEPT ![r] = @ \cup {m}],
         UNCHANGED <<cache, xdp, hdr, job>>, \A v \in Wqe : SameSlots(v)
  PROVE  AllOne'
<1>1. m \in Page /\ One(m)
  BY DEF Available, PageTypeOK, AllOne
<1>2. ~ (~ Empty(m, "kernel") /\ ~ Empty(m, "pool"))
  BY <1>1 DEF One, Kind
<1>3. CASE m \in pool[r]
  <2>1. m \notin kernel
    BY <1>2, <1>3 DEF Empty, At
  <2>2. kernel' = kernel /\ pool' = pool
    BY <1>3, <2>1 DEF PageTypeOK
  <2> QED BY <2>2, NoPageMoves
<1>4. CASE m \notin pool[r]
  <2>1. Leaves(m, "kernel") /\ \A p : p # m => Keeps(p, "kernel")
    BY <1>4, KernelPlace DEF Available
  <2>2. Enters(m, "pool") /\ \A p : p # m => Keeps(p, "pool")
    BY PoolPlace DEF PageTypeOK
  <2> QED BY <1>1, <2>1, <2>2, MoveAll, QuietPlaces, SlotsStay DEF Kind
<1> QED BY <1>3, <1>4

\* One more slot is filled.
LEMMA FillPlace ==
  ASSUME SlotTypeOK, NEW w \in Wqe, Filling(w), NEW m, NEW addr, NEW batch,
         FillSlot(w, m, addr, batch), UNCHANGED <<wqe, xdpBits>>
  PROVE  Enters(m, "slot") /\ \A p : p # m => Keeps(p, "slot")
<1>1. \A v \in Wqe \ {w} : SameSlots(v)
  BY OtherSlots DEF FillSlot, SlotTypeOK
<1>2. /\ wqe[w] = "filling" /\ wqe'[w] = "filling" /\ idx[w] \in Slots /\ idx[w] \in Nat
      /\ idx'[w] = idx[w] + 1 /\ di'[w][idx[w]].page = m
      /\ \A j \in Slots : j # idx[w] => di'[w][j] = di[w][j]
  BY RxAssumption, MaxPfnAssumption DEF Filling, FillSlot, SlotTypeOK, Slots, Pfn
<1>3. OwnedSlots(w) = 0 .. (idx[w] - 1) /\ OwnedSlots(w)' = 0 .. idx[w]
  BY <1>2, Owns, OwnsNext
<1>4. /\ idx[w] \notin OwnedSlots(w) /\ OwnedSlots(w)' = OwnedSlots(w) \cup {idx[w]}
      /\ \A j \in OwnedSlots(w) : j \in Slots /\ j # idx[w]
  BY <1>2, <1>3, RxAssumption, MaxPfnAssumption DEF Slots, Pfn
<1> QED BY <1>1, <1>2, <1>4, SlotNew

\* A fill that is given up keeps the slots it has filled, for the unwind.
LEMMA FillStops ==
  ASSUME SlotTypeOK, NEW w \in Wqe, Filling(w), wqe' = [wqe EXCEPT ![w] = "unwinding"],
         UNCHANGED <<di, idx, xdpBits>>
  PROVE  \A v \in Wqe : SameSlots(v)
<1>1. \A v \in Wqe \ {w} : SameSlots(v)
  BY OtherSlots DEF SlotTypeOK
<1>2. wqe[w] = "filling" /\ wqe'[w] = "unwinding"
  BY DEF Filling, SlotTypeOK
<1>3. SameSlots(w)
  BY <1>2, Owns, OwnsNext DEF SameSlots
<1> QED BY <1>1, <1>3

\* A descriptor that owns nothing any more is retired.
LEMMA RetirePlace ==
  ASSUME SlotTypeOK, NEW w \in Wqe, OwnedSlots(w) = {}, Retire(w)
  PROVE  \A v \in Wqe : SameSlots(v)
<1>1. \A v \in Wqe \ {w} : SameSlots(v)
  BY OtherSlots DEF Retire, SlotTypeOK
<1>2. OwnedSlots(w)' = {}
  BY OwnsNext DEF Retire, SlotTypeOK
<1> QED BY <1>1, <1>2 DEF SameSlots

----------------------------------------------------------------------------
(***************************************************************************)
(* One lemma per action.                                                   *)
(***************************************************************************)
LEMMA OneAllocStart ==
  ASSUME RxInv, AllOne, NEW w \in Wqe, AllocStart(w)
  PROVE  AllOne'
<1>1. \A v \in Wqe \ {w} : SameSlots(v)
  BY OtherSlots DEF AllocStart, RxInv, TypeOK, SlotTypeOK
<1>2. wqe'[w] = "filling" /\ idx'[w] = 0 /\ wqe[w] = "empty"
  BY DEF AllocStart, RxInv, TypeOK, SlotTypeOK
<1>3. OwnedSlots(w)' = {} /\ OwnedSlots(w) = {}
  BY <1>2, Owns, OwnsNext
<1>4. SameSlots(w)
  BY <1>3 DEF SameSlots
<1> QED BY <1>1, <1>4, NoPageMoves DEF AllocStart, pageVars

LEMMA OneFillFromCache ==
  ASSUME RxInv, AllOne, NEW w \in Wqe, FillFromCache(w)
  PROVE  AllOne'
<1>1. PICK m \in Page : CacheGet(RqOf[w], m) /\ FillSlot(w, m, dmaAddr[m], FALSE)
  BY DEF FillFromCache
<1>2. Leaves(m, "cache") /\ \A p : p # m => Keeps(p, "cache")
  BY <1>1, CachePlace, RxAssumption DEF CacheGet, RxInv, TypeOK
<1>3. Enters(m, "slot") /\ \A p : p # m => Keeps(p, "slot")
  BY <1>1, FillPlace DEF FillFromCache, RxInv, TypeOK
<1> QED BY <1>2, <1>3, MoveAll, QuietPlaces DEF FillFromCache, Kind

LEMMA OneFillFromPool ==
  ASSUME RxInv, AllOne, NEW w \in Wqe, FillFromPool(w)
  PROVE  AllOne'
<1>1. PICK m \in Page, addr \in Pfn : TakePage(RqOf[w], m) /\ FillSlot(w, m, addr, TRUE)
  BY DEF FillFromPool, PageAllocPool
<1>2. /\ \E a \in {"kernel", "pool"} :
           Leaves(m, a) /\ \A k \in {"kernel", "pool"} \ {a} : Keeps(m, k)
      /\ \A p : p # m => Keeps(p, "kernel") /\ Keeps(p, "pool")
  BY <1>1, TakePlace, RxAssumption DEF AllOne, RxInv, TypeOK
<1>3. Enters(m, "slot") /\ \A p : p # m => Keeps(p, "slot")
  BY <1>1, FillPlace DEF FillFromPool, RxInv, TypeOK
<1>4. PICK a \in {"kernel", "pool"} :
        Leaves(m, a) /\ \A k \in {"kernel", "pool"} \ {a} : Keeps(m, k)
  BY <1>2
<1> QED BY <1>2, <1>3, <1>4, MoveAll, QuietPlaces DEF FillFromPool, Kind

LEMMA OneFillNoPage ==
  ASSUME RxInv, AllOne, NEW w \in Wqe, FillNoPage(w)
  PROVE  AllOne'
<1>1. \A v \in Wqe : SameSlots(v)
  BY FillStops DEF FillNoPage, RxInv, TypeOK
<1> QED BY <1>1, NoPageMoves DEF FillNoPage, pageVars

LEMMA OneFillMapFails ==
  ASSUME RxInv, AllOne, NEW w \in Wqe, FillMapFails(w)
  PROVE  AllOne'
<1>1. \A v \in Wqe : SameSlots(v)
  BY FillStops DEF FillMapFails, RxInv, TypeOK
<1>2. RqOf[w] \in Rq
  BY RxAssumption
<1> QED BY <1>1, <1>2, FailPlace DEF FillMapFails, PageAllocPoolFails, RxInv, TypeOK

LEMMA OnePostWqe ==
  ASSUME RxInv, AllOne, NEW w \in Wqe, PostWqe(w)
  PROVE  AllOne'
<1>1. \A v \in Wqe \ {w} : SameSlots(v)
  BY OtherSlots DEF PostWqe, RxInv, TypeOK, SlotTypeOK
<1>2. /\ wqe[w] = "filling" /\ idx[w] = PagesPerWqe
      /\ wqe'[w] = "posted" /\ xdpBits'[w] = {} /\ di' = di
  BY DEF PostWqe, RxInv, TypeOK, SlotTypeOK
<1>3. OwnedSlots(w) = Slots /\ OwnedSlots(w)' = Slots
  BY <1>2, Owns, OwnsNext DEF Slots
<1>4. SameSlots(w)
  BY <1>2, <1>3 DEF SameSlots
<1> QED BY <1>1, <1>4, NoPageMoves DEF PostWqe, pageVars

LEMMA OneUnwindSlot ==
  ASSUME RxInv, AllOne, NEW w \in Wqe, UnwindSlot(w)
  PROVE  AllOne'
<1>0. PICK m : m = di[w][idx[w] - 1].page
  OBVIOUS
<1>1. \A v \in Wqe \ {w} : SameSlots(v)
  BY OtherSlots DEF UnwindSlot, RxInv, TypeOK, SlotTypeOK
<1>2. /\ wqe[w] = "unwinding" /\ idx[w] \in 1..PagesPerWqe /\ PagesPerWqe \in Nat
      /\ wqe'[w] = "unwinding" /\ idx'[w] = idx[w] - 1
      /\ \A j \in Slots : j # idx[w] - 1 => di'[w][j] = di[w][j]
  BY RxAssumption DEF UnwindSlot, RxInv, TypeOK, SlotTypeOK, Pfn
<1>3. OwnedSlots(w) = 0 .. (idx[w] - 1) /\ OwnedSlots(w)' = 0 .. (idx[w] - 2)
  BY <1>2, Owns, OwnsNext
<1>4. /\ idx[w] - 1 \in OwnedSlots(w) /\ OwnedSlots(w)' = OwnedSlots(w) \ {idx[w] - 1}
      /\ OwnedSlots(w) \subseteq Slots /\ m \in Page
  <2>1. idx[w] - 1 \in OwnedSlots(w) /\ OwnedSlots(w)' = OwnedSlots(w) \ {idx[w] - 1}
    BY <1>2, <1>3
  <2>2. OwnedSlots(w) \subseteq Slots
    BY <1>2, <1>3 DEF Slots
  <2>3. m \in Page
    BY <1>0, <2>1 DEF RxInv, OwnedArePages
  <2> QED BY <2>1, <2>2, <2>3
<1>5. Leaves(m, "slot") /\ \A p : p # m => Keeps(p, "slot")
  BY <1>0, <1>1, <1>2, <1>4, SlotGone
<1>6. RqOf[w] \in Rq /\ job[RqOf[w]] = NoJob
  BY RxAssumption DEF UnwindSlot, NotRunning
<1>7. CASE CachePut(RqOf[w], m, FALSE) /\ UNCHANGED <<kernel, pool, job>>
  <2>1. Enters(m, "cache") /\ \A p : p # m => Keeps(p, "cache")
    BY <1>6, <1>7, CachePlace DEF RxInv, TypeOK
  <2> QED BY <1>4, <1>5, <1>7, <2>1, MoveAll, QuietPlaces DEF UnwindSlot, Kind
<1>8. CASE ReleaseUnwound(RqOf[w], di[w][idx[w] - 1]) /\ UNCHANGED cache
  <2>1. /\ \E b \in {"kernel", "pool", "job"} :
             Enters(m, b) /\ \A k \in {"kernel", "pool", "job"} \ {b} : Keeps(m, k)
        /\ \A p : p # m => \A k \in {"kernel", "pool", "job"} : Keeps(p, k)
    BY <1>0, <1>6, <1>8, UnwoundPlace DEF RxInv, TypeOK
  <2>2. PICK b \in {"kernel", "pool", "job"} :
          Enters(m, b) /\ \A k \in {"kernel", "pool", "job"} \ {b} : Keeps(m, k)
    BY <2>1
  <2> QED BY <1>4, <1>5, <1>8, <2>1, <2>2, MoveAll, QuietPlaces DEF UnwindSlot, Kind
<1> QED BY <1>0, <1>7, <1>8 DEF UnwindSlot

LEMMA OneUnwindDone ==
  ASSUME RxInv, AllOne, NEW w \in Wqe, UnwindDone(w)
  PROVE  AllOne'
<1>1. OwnedSlots(w) = {}
  BY Owns DEF UnwindDone
<1> QED BY <1>1, RetirePlace, NoPageMoves DEF UnwindDone, pageVars, RxInv, TypeOK

LEMMA OneFreeStart ==
  ASSUME RxInv, AllOne, NEW w \in Wqe, FreeStart(w)
  PROVE  AllOne'
<1>1. \A v \in Wqe \ {w} : SameSlots(v)
  BY OtherSlots DEF FreeStart, RxInv, TypeOK, SlotTypeOK
<1>2. /\ wqe[w] = "posted" /\ wqe'[w] = "freeing" /\ idx'[w] = 0
      /\ xdpBits' = xdpBits /\ di' = di
  BY DEF FreeStart, RxInv, TypeOK, SlotTypeOK
<1>3. OwnedSlots(w) = Slots \ xdpBits[w] /\ OwnedSlots(w)' = Slots \ xdpBits[w]
  BY <1>2, Owns, OwnsNext DEF Slots, Last
<1>4. SameSlots(w)
  BY <1>2, <1>3 DEF SameSlots
<1> QED BY <1>1, <1>4, NoPageMoves DEF FreeStart, pageVars

\* The free loop passes a slot: its page leaves the descriptor.
LEMMA FreePlace ==
  ASSUME RxInv, NEW w \in Wqe, Freeing(w), idx[w] < Last, idx[w] \notin xdpBits[w],
         idx' = [idx EXCEPT ![w] = @ + 1], UNCHANGED <<wqe, di, xdpBits>>,
         NEW m, m = di[w][idx[w]].page
  PROVE  m \in Page /\ Leaves(m, "slot") /\ \A p : p # m => Keeps(p, "slot")
<1>1. \A v \in Wqe \ {w} : SameSlots(v)
  BY OtherSlots DEF RxInv, TypeOK, SlotTypeOK
<1>2. /\ wqe[w] = "freeing" /\ wqe'[w] = "freeing" /\ idx[w] \in Nat /\ Last \in Int
      /\ idx'[w] = idx[w] + 1
  BY RxAssumption DEF Freeing, Last, RxInv, TypeOK, SlotTypeOK, Pfn
<1>3. /\ OwnedSlots(w) = (idx[w] .. Last) \ xdpBits[w]
      /\ OwnedSlots(w)' = ((idx[w] + 1) .. Last) \ xdpBits[w]
  BY <1>2, Owns, OwnsNext
<1>4. idx[w] \in OwnedSlots(w) /\ OwnedSlots(w)' = OwnedSlots(w) \ {idx[w]}
  BY <1>2, <1>3
<1>5. m \in Page
  BY <1>4 DEF RxInv, OwnedArePages
<1> QED BY <1>1, <1>4, <1>5, SlotGone

LEMMA OneFreeSlot ==
  ASSUME RxInv, AllOne, NEW w \in Wqe, FreeSlot(w)
  PROVE  AllOne'
<1>0. PICK m : m = di[w][idx[w]].page
  OBVIOUS
<1>1. m \in Page /\ Leaves(m, "slot") /\ \A p : p # m => Keeps(p, "slot")
  BY <1>0, FreePlace DEF FreeSlot
<1>2. Enters(m, "kernel") /\ Keeps(m, "pool")
      /\ \A p : p # m => Keeps(p, "kernel") /\ Keeps(p, "pool")
  BY <1>0, GivePlace, RxAssumption DEF FreeSlot, RxInv, TypeOK
<1> QED BY <1>1, <1>2, MoveAll, QuietPlaces DEF FreeSlot, Kind

LEMMA OneFreeSkip ==
  ASSUME RxInv, AllOne, NEW w \in Wqe, FreeSkip(w)
  PROVE  AllOne'
<1>1. \A v \in Wqe \ {w} : SameSlots(v)
  BY OtherSlots DEF FreeSkip, RxInv, TypeOK, SlotTypeOK
<1>2. /\ wqe[w] = "freeing" /\ wqe'[w] = "freeing" /\ idx[w] \in Nat /\ Last \in Int
      /\ idx'[w] = idx[w] + 1 /\ idx[w] \in xdpBits[w] /\ di' = di /\ xdpBits' = xdpBits
  BY RxAssumption DEF FreeSkip, Freeing, Last, RxInv, TypeOK, SlotTypeOK, Pfn
<1>3. /\ OwnedSlots(w) = (idx[w] .. Last) \ xdpBits[w]
      /\ OwnedSlots(w)' = ((idx[w] + 1) .. Last) \ xdpBits[w]
  BY <1>2, Owns, OwnsNext
<1>4. SameSlots(w)
  BY <1>2, <1>3 DEF SameSlots
<1> QED BY <1>1, <1>4, NoPageMoves DEF FreeSkip, pageVars

LEMMA OneFreeLast ==
  ASSUME RxInv, AllOne, NEW w \in Wqe, FreeLast(w)
  PROVE  AllOne'
<1>0. PICK m : m = di[w][Last].page
  OBVIOUS
<1>1. \A v \in Wqe \ {w} : SameSlots(v)
  BY OtherSlots DEF FreeLast, Retire, RxInv, TypeOK, SlotTypeOK
<1>2. wqe[w] = "freeing" /\ wqe'[w] = "empty" /\ idx[w] = Last /\ Last \in Int
      /\ Last \notin xdpBits[w]
  BY RxAssumption DEF FreeLast, Retire, Freeing, Last, RxInv, TypeOK, SlotTypeOK, Pfn
<1>3. OwnedSlots(w) = (Last .. Last) \ xdpBits[w] /\ OwnedSlots(w)' = {}
  BY <1>2, Owns, OwnsNext
<1>4. OwnedSlots(w) = {Last}
  BY <1>2, <1>3
<1>5. m \in Page /\ Leaves(m, "slot") /\ \A p : p # m => Keeps(p, "slot")
  BY <1>0, <1>1, <1>3, <1>4, SlotGone DEF RxInv, OwnedArePages
<1>6. RqOf[w] \in Rq /\ job[RqOf[w]] = NoJob
  BY <1>2, RxAssumption DEF RxInv, OneAtATime
<1>7. /\ \E b \in {"kernel", "pool", "job"} :
           Enters(m, b) /\ \A k \in {"kernel", "pool", "job"} \ {b} : Keeps(m, k)
      /\ \A p : p # m => \A k \in {"kernel", "pool", "job"} : Keeps(p, k)
  BY <1>0, <1>6, UnmapPlace DEF FreeLast, RxInv, TypeOK
<1>8. PICK b \in {"kernel", "pool", "job"} :
        Enters(m, b) /\ \A k \in {"kernel", "pool", "job"} \ {b} : Keeps(m, k)
  BY <1>7
<1> QED BY <1>5, <1>7, <1>8, MoveAll, QuietPlaces DEF FreeLast, Kind

LEMMA OneFreeSkipLast ==
  ASSUME RxInv, AllOne, NEW w \in Wqe, FreeSkipLast(w)
  PROVE  AllOne'
<1>1. wqe[w] = "freeing" /\ idx[w] = Last /\ Last \in Int /\ Last \in xdpBits[w]
  BY RxAssumption DEF FreeSkipLast, Freeing, Last, Pfn
<1>2. OwnedSlots(w) = (Last .. Last) \ xdpBits[w]
  BY <1>1, Owns
<1>3. OwnedSlots(w) = {}
  BY <1>1, <1>2
<1> QED BY <1>3, RetirePlace, NoPageMoves DEF FreeSkipLast, pageVars, RxInv, TypeOK

\* XDP takes the page of a posted slot.
LEMMA VerdictPlace ==
  ASSUME RxInv, NEW w \in Wqe, NEW i \in Slots, XdpVerdict(w, i), NEW m, m = di[w][i].page
  PROVE  m \in Page /\ Leaves(m, "slot") /\ \A p : p # m => Keeps(p, "slot")
<1>1. \A v \in Wqe \ {w} : SameSlots(v)
  BY OtherSlots DEF XdpVerdict, RxInv, TypeOK, SlotTypeOK
<1>2. /\ wqe[w] = "posted" /\ wqe'[w] = "posted" /\ i \notin xdpBits[w] /\ di' = di
      /\ xdpBits'[w] = xdpBits[w] \cup {i}
  BY DEF XdpVerdict, RxInv, TypeOK, SlotTypeOK
<1>3. OwnedSlots(w) = Slots \ xdpBits[w] /\ OwnedSlots(w)' = Slots \ xdpBits'[w]
  BY <1>2, Owns, OwnsNext
<1>4. i \in OwnedSlots(w) /\ OwnedSlots(w)' = OwnedSlots(w) \ {i}
  BY <1>2, <1>3
<1>5. m \in Page
  BY VerdictEffect
<1> QED BY <1>1, <1>2, <1>4, <1>5, SlotGone

LEMMA OneXdpTx ==
  ASSUME RxInv, AllOne, NEW w \in Wqe, NEW i \in Slots, XdpTx(w, i)
  PROVE  AllOne'
<1>0. PICK m : m = di[w][i].page
  OBVIOUS
<1>1. m \in Page /\ Leaves(m, "slot") /\ \A p : p # m => Keeps(p, "slot")
  BY <1>0, VerdictPlace DEF XdpTx
<1>2. Enters(m, "xdp") /\ \A p : p # m => Keeps(p, "xdp")
  BY <1>0, XdpPlace, RxAssumption DEF XdpTx, RxInv, TypeOK
<1> QED BY <1>1, <1>2, MoveAll, QuietPlaces DEF XdpTx, Kind

LEMMA OneXdpRedirect ==
  ASSUME RxInv, AllOne, NEW w \in Wqe, NEW i \in Slots, XdpRedirect(w, i)
  PROVE  AllOne'
<1>0. PICK m : m = di[w][i].page
  OBVIOUS
<1>1. m \in Page /\ Leaves(m, "slot") /\ \A p : p # m => Keeps(p, "slot")
  BY <1>0, VerdictPlace DEF XdpRedirect
<1>2. RqOf[w] \in Rq /\ job[RqOf[w]] = NoJob
  BY RxAssumption DEF XdpRedirect, XdpVerdict, Idle, NotRunning
<1>3. /\ \E b \in {"kernel", "pool", "job"} :
           Enters(m, b) /\ \A k \in {"kernel", "pool", "job"} \ {b} : Keeps(m, k)
      /\ \A p : p # m => \A k \in {"kernel", "pool", "job"} : Keeps(p, k)
  BY <1>0, <1>2, UnmapPlace DEF XdpRedirect, RxInv, TypeOK
<1>4. PICK b \in {"kernel", "pool", "job"} :
        Enters(m, b) /\ \A k \in {"kernel", "pool", "job"} \ {b} : Keeps(m, k)
  BY <1>3
<1> QED BY <1>1, <1>3, <1>4, MoveAll, QuietPlaces DEF XdpRedirect, Kind

LEMMA OneXdpComplete ==
  ASSUME RxInv, AllOne, NEW r \in Rq, NEW recycle \in BOOLEAN, XdpComplete(r, recycle)
  PROVE  AllOne'
<1>0. PICK m : m = Head(xdp[r])
  OBVIOUS
<1>1. xdp[r] \in Seq(Page) /\ xdp[r] # <<>> /\ job[r] = NoJob
  BY DEF XdpComplete, Idle, NotRunning, RxInv, TypeOK, PageTypeOK
<1>2. m \in Page
  BY <1>0, <1>1, SeqOps
<1>3. Leaves(m, "xdp") /\ \A p : p # m => Keeps(p, "xdp")
  BY <1>0, <1>1, XdpPlace DEF XdpComplete, RxInv, TypeOK
<1>4. Released(m)
  <2>1. ReleaseAlone(r, m, recycle, FALSE)
    BY <1>0 DEF XdpComplete
  <2>2. PageTypeOK /\ JobTypeOK /\ job[r] = NoJob
    BY <1>1 DEF RxInv, TypeOK
  <2> QED BY <2>1, <2>2, ReleasePlace
<1>5. PICK b \in {"kernel", "pool", "job", "cache"} :
        Enters(m, b) /\ \A k \in {"kernel", "pool", "job", "cache"} \ {b} : Keeps(m, k)
  BY <1>4 DEF Released
<1>6. \A p : p # m => \A k \in {"kernel", "pool", "job", "cache"} : Keeps(p, k)
  BY <1>4 DEF Released
<1> QED BY <1>2, <1>3, <1>5, <1>6, MoveAll, QuietPlaces DEF XdpComplete, slotVars, Kind

LEMMA OneHdrAlloc ==
  ASSUME RxInv, AllOne, NEW r \in Rq, HdrAlloc(r)
  PROVE  AllOne'
<1>1. PICK m \in Page :
        /\ hdr' = [hdr EXCEPT ![r] = m]
        /\ \/ CacheGet(r, m) /\ UNCHANGED <<kernel, pool>>
           \/ TakePage(r, m) /\ UNCHANGED cache
  BY DEF HdrAlloc, PageAllocPool
<1>2. Enters(m, "hdr") /\ \A p \in Page \ {m} : Keeps(p, "hdr")
  BY <1>1, HdrPlace DEF HdrAlloc, RxInv, TypeOK
<1>3. CASE CacheGet(r, m) /\ UNCHANGED <<kernel, pool>>
  <2>1. Leaves(m, "cache") /\ \A p : p # m => Keeps(p, "cache")
    BY <1>3, CachePlace DEF CacheGet, RxInv, TypeOK
  <2> QED BY <1>2, <1>3, <2>1, MoveAll, QuietPlaces DEF HdrAlloc, slotVars, Kind
<1>4. CASE TakePage(r, m) /\ UNCHANGED cache
  <2>1. /\ \E a \in {"kernel", "pool"} :
             Leaves(m, a) /\ \A k \in {"kernel", "pool"} \ {a} : Keeps(m, k)
        /\ \A p : p # m => Keeps(p, "kernel") /\ Keeps(p, "pool")
    BY <1>4, TakePlace DEF AllOne, RxInv, TypeOK
  <2>2. PICK a \in {"kernel", "pool"} :
          Leaves(m, a) /\ \A k \in {"kernel", "pool"} \ {a} : Keeps(m, k)
    BY <2>1
  <2> QED BY <1>2, <1>4, <2>1, <2>2, MoveAll, QuietPlaces DEF HdrAlloc, slotVars, Kind
<1> QED BY <1>1, <1>3, <1>4

LEMMA OneHdrAllocFails ==
  ASSUME RxInv, AllOne, NEW r \in Rq, HdrAllocFails(r)
  PROVE  AllOne'
<1>1. \A v \in Wqe : SameSlots(v)
  BY OtherSlots DEF HdrAllocFails, slotVars
<1> QED BY <1>1, FailPlace DEF HdrAllocFails, PageAllocPoolFails, RxInv, TypeOK

LEMMA OneHdrRelease ==
  ASSUME RxInv, AllOne, NEW r \in Rq, NEW recycle \in BOOLEAN, HdrRelease(r, recycle)
  PROVE  AllOne'
<1>0. PICK m : m = hdr[r]
  OBVIOUS
<1>1. m \in Page /\ job[r] = NoJob
  BY <1>0 DEF HdrRelease, Idle, NotRunning, RxInv, TypeOK, PageTypeOK
<1>2. Leaves(m, "hdr") /\ \A p \in Page \ {m} : Keeps(p, "hdr")
  BY <1>0, <1>1, HdrPlace DEF HdrRelease, RxInv, TypeOK
<1>3. Released(m)
  <2>1. ReleaseAlone(r, m, recycle, TRUE)
    BY <1>0 DEF HdrRelease
  <2>2. PageTypeOK /\ JobTypeOK /\ job[r] = NoJob
    BY <1>1 DEF RxInv, TypeOK
  <2> QED BY <2>1, <2>2, ReleasePlace
<1>4. PICK b \in {"kernel", "pool", "job", "cache"} :
        Enters(m, b) /\ \A k \in {"kernel", "pool", "job", "cache"} \ {b} : Keeps(m, k)
  BY <1>3 DEF Released
<1>5. \A p : p # m => \A k \in {"kernel", "pool", "job", "cache"} : Keeps(p, k)
  BY <1>3 DEF Released
<1> QED BY <1>1, <1>2, <1>4, <1>5, MoveAll, QuietPlaces DEF HdrRelease, slotVars, Kind

LEMMA OneDrainCache ==
  ASSUME RxInv, AllOne, NEW r \in Rq, DrainCache(r)
  PROVE  AllOne'
<1> DEFINE E == [page : Page, lent : BOOLEAN]
<1>0. PICK m : m = Head(cache[r]).page
  OBVIOUS
<1>1. cache[r] \in Seq(E) /\ cache[r] # <<>> /\ job[r] = NoJob
  BY DEF DrainCache, Idle, NotRunning, RxInv, TypeOK, PageTypeOK
<1>2. m \in Page
  <2> HIDE DEF E
  <2>1. Head(cache[r]) \in E
    BY <1>1, SeqOps
  <2> QED BY <1>0, <2>1 DEF E
<1>3. Leaves(m, "cache") /\ \A p : p # m => Keeps(p, "cache")
  BY <1>0, <1>1, CachePlace DEF DrainCache, RxInv, TypeOK
<1>4. /\ \E b \in {"kernel", "pool", "job"} :
           Enters(m, b) /\ \A k \in {"kernel", "pool", "job"} \ {b} : Keeps(m, k)
      /\ \A p : p # m => \A k \in {"kernel", "pool", "job"} : Keeps(p, k)
  BY <1>0, <1>1, UnmapPlace DEF DrainCache, RxInv, TypeOK
<1>5. PICK b \in {"kernel", "pool", "job"} :
        Enters(m, b) /\ \A k \in {"kernel", "pool", "job"} \ {b} : Keeps(m, k)
  BY <1>4
<1> QED BY <1>2, <1>3, <1>4, <1>5, MoveAll, QuietPlaces DEF DrainCache, slotVars, Kind

\* The invalidation completes: the unmap still holds its page.
LEMMA OneSyncIotlb ==
  ASSUME RxInv, AllOne, NEW r \in Rq, SyncIotlb(r)
  PROVE  AllOne'
<1>1. job \in [Rq -> Jobs] /\ job[r].stage = "sync" /\ job' = [job EXCEPT ![r].stage = "free"]
  BY DEF SyncIotlb, RxInv, TypeOK, JobTypeOK
<1>2. job[r] # NoJob /\ job'[r] # NoJob /\ job'[r].page = job[r].page
  BY <1>1 DEF NoJob, Jobs
<1>3. \A p, u, v : At(p, "job", u, v)' <=> At(p, "job", u, v)
  BY <1>1, <1>2 DEF At
<1>4. \A p : Keeps(p, "job")
  BY <1>3 DEF Keeps, Lone, Empty
<1> QED BY <1>4, StayAll, QuietPlaces DEF SyncIotlb, pageVars, slotVars, Kind

LEMMA OneReturnIova ==
  ASSUME RxInv, AllOne, NEW r \in Rq, ReturnIova(r)
  PROVE  AllOne'
<1>0. PICK m, to : m = job[r].page /\ to = job[r].to
  OBVIOUS
<1>1. job[r] \in Jobs /\ job[r].stage = "free" /\ job' = [job EXCEPT ![r] = NoJob]
  BY DEF ReturnIova, RxInv, TypeOK, JobTypeOK
<1>2. job[r] # NoJob /\ m \in Page /\ to \in {"kernel", "pool"}
  BY <1>0, <1>1 DEF NoJob, Jobs
<1>3. Leaves(m, "job") /\ \A p : p # m => Keeps(p, "job")
  BY <1>0, <1>1, <1>2, JobPlace DEF RxInv, TypeOK
<1>4. /\ Enters(m, to)
      /\ \A k \in {"kernel", "pool"} \ {to} : Keeps(m, k)
      /\ \A p : p # m => Keeps(p, "kernel") /\ Keeps(p, "pool")
  BY <1>0, <1>2, GivePlace DEF ReturnIova, RxInv, TypeOK
<1> QED BY <1>2, <1>3, <1>4, MoveAll, QuietPlaces DEF ReturnIova, slotVars, Kind

\* The pool of a queue is destroyed: its pages are the kernel's again.
LEMMA OneReopenRq ==
  ASSUME RxInv, AllOne, NEW r \in Rq, ReopenRq(r)
  PROVE  AllOne'
<1>1. /\ pool \in [Rq -> SUBSET Page]
      /\ kernel' = kernel \cup pool[r] /\ pool' = [pool EXCEPT ![r] = {}]
  BY DEF ReopenRq, RxInv, TypeOK, PageTypeOK
<1>2. ASSUME NEW p \in Page, p \in pool[r] PROVE One(p)'
  <2>1. \A u, v : At(p, "pool", u, v)' <=> At(p, "pool", u, v) /\ ~ (u = r /\ v = 0)
    BY <1>1 DEF At
  <2>2. At(p, "pool", r, 0)
    BY <1>2 DEF At
  <2>3. Leaves(p, "pool")
    BY <2>1, <2>2 DEF Leaves, Lone, Empty
  <2>4. Enters(p, "kernel")
    BY <1>1, <1>2 DEF Enters, Lone, Empty, At
  <2>5. One(p)
    BY DEF AllOne
  <2> QED BY <2>3, <2>4, <2>5, MoveOne, QuietPlaces DEF ReopenRq, slotVars, Kind
<1>3. ASSUME NEW p \in Page, p \notin pool[r] PROVE One(p)'
  <2>1. Keeps(p, "kernel")
    BY <1>1, <1>3 DEF Keeps, Lone, Empty, At
  <2>2. \A u, v : At(p, "pool", u, v)' <=> At(p, "pool", u, v)
    BY <1>1, <1>3 DEF At
  <2>3. Keeps(p, "pool")
    BY <2>2 DEF Keeps, Lone, Empty
  <2>4. One(p)
    BY DEF AllOne
  <2> QED BY <2>1, <2>3, <2>4, StayOne, QuietPlaces DEF ReopenRq, slotVars, Kind
<1> QED BY <1>2, <1>3 DEF AllOne

\* Everything else leaves the pages and the slots alone.
LEMMA OneQuiet ==
  ASSUME AllOne, UNCHANGED <<slotVars, pageVars, job>>
  PROVE  AllOne'
<1>1. \A v \in Wqe : SameSlots(v)
  BY OtherSlots DEF slotVars
<1> QED BY <1>1, NoPageMoves DEF pageVars

----------------------------------------------------------------------------
LEMMA OneInit == Init => AllOne
<1> SUFFICES ASSUME Init, NEW p \in Page PROVE One(p)
  BY DEF AllOne
<1>1. p # NoPage /\ \A w \in Wqe : OwnedSlots(w) = {}
  BY PageAssumption, Owns DEF Init
<1>2. Lone(p, "kernel")
  BY DEF Init, Lone, At
<1>3. \A k \in Kind \ {"kernel"} : Empty(p, k)
  BY <1>1 DEF Init, Empty, At, Kind
<1> QED BY <1>2, <1>3 DEF One, Kind

LEMMA OneNext == RxInv /\ AllOne /\ [Next]_vars => AllOne'
<1> SUFFICES ASSUME RxInv, AllOne, [Next]_vars PROVE AllOne'
  OBVIOUS
<1>1. ASSUME NEW r \in Rq, Continue(r) PROVE AllOne'
  <2>1. CASE SyncIotlb(r) \/ ReturnIova(r)
    BY <2>1, OneSyncIotlb, OneReturnIova
  <2>2. ASSUME NEW w \in Wqe,
               \/ FillFromCache(w) \/ FillFromPool(w) \/ FillNoPage(w) \/ FillMapFails(w)
               \/ PostWqe(w) \/ UnwindSlot(w) \/ UnwindDone(w)
        PROVE  AllOne'
    BY <2>2, OneFillFromCache, OneFillFromPool, OneFillNoPage, OneFillMapFails,
       OnePostWqe, OneUnwindSlot, OneUnwindDone
  <2>3. ASSUME NEW w \in Wqe, FreeSlot(w) \/ FreeSkip(w) \/ FreeLast(w) \/ FreeSkipLast(w)
        PROVE  AllOne'
    BY <2>3, OneFreeSlot, OneFreeSkip, OneFreeLast, OneFreeSkipLast
  <2> QED BY <1>1, <2>1, <2>2, <2>3 DEF Continue
<1>2. ASSUME NEW r \in Rq, Begin(r) PROVE AllOne'
  <2>1. ASSUME NEW w \in Wqe, AllocStart(w) \/ FreeStart(w)
        PROVE  AllOne'
    BY <2>1, OneAllocStart, OneFreeStart
  <2>2. ASSUME NEW w \in Wqe, NEW i \in Slots, XdpTx(w, i) \/ XdpRedirect(w, i)
        PROVE  AllOne'
    BY <2>2, OneXdpTx, OneXdpRedirect
  <2>3. ASSUME NEW recycle \in BOOLEAN, XdpComplete(r, recycle) \/ HdrRelease(r, recycle)
        PROVE  AllOne'
    BY <2>3, OneXdpComplete, OneHdrRelease
  <2>4. CASE HdrAlloc(r) \/ HdrAllocFails(r) \/ DrainCache(r) \/ ReopenRq(r)
    BY <2>4, OneHdrAlloc, OneHdrAllocFails, OneDrainCache, OneReopenRq
  <2>5. CASE CloseRq(r)
    BY <2>5, OneQuiet DEF CloseRq
  <2> QED BY <1>2, <2>1, <2>2, <2>3, <2>4, <2>5 DEF Begin
<1>3. CASE \E a \in Pfn : DeviceAccess(a)
  BY <1>3, OneQuiet DEF DeviceAccess
<1>4. CASE Spill \/ UNCHANGED vars
  BY <1>4, OneQuiet DEF Spill, vars
<1> QED BY <1>1, <1>2, <1>3, <1>4 DEF Next

\* The places of the specification, one kind after the other.
LEMMA PlacesOf ==
  ASSUME NEW p, NEW z
  PROVE  z \in Places(p) <=>
           \/ z = <<"kernel">> /\ p \in kernel
           \/ \E r \in Rq : z = <<"pool", r>> /\ p \in pool[r]
           \/ \E r \in Rq : \E k \in DOMAIN cache[r] : z = <<"cache", r, k>> /\ cache[r][k].page = p
           \/ \E r \in Rq : \E k \in DOMAIN xdp[r] : z = <<"xdp", r, k>> /\ xdp[r][k] = p
           \/ \E r \in Rq : z = <<"hdr", r>> /\ hdr[r] = p
           \/ \E r \in Rq : z = <<"job", r>> /\ job[r] # NoJob /\ job[r].page = p
           \/ \E w \in Wqe : \E i \in OwnedSlots(w) : z = <<"slot", w, i>> /\ di[w][i].page = p
<1> DEFINE K == {<<"kernel">> : x \in {p} \cap kernel}
           P == {<<"pool", r>> : r \in {s \in Rq : p \in pool[s]}}
           C(r) == {<<"cache", r, k>> : k \in {j \in DOMAIN cache[r] : cache[r][j].page = p}}
           X(r) == {<<"xdp", r, k>> : k \in {j \in DOMAIN xdp[r] : xdp[r][j] = p}}
           H == {<<"hdr", r>> : r \in {s \in Rq : hdr[s] = p}}
           J == {<<"job", r>> : r \in {s \in Rq : job[s] # NoJob /\ job[s].page = p}}
           S(w) == {<<"slot", w, i>> : i \in {j \in OwnedSlots(w) : di[w][j].page = p}}
<1>1. z \in K <=> z = <<"kernel">> /\ p \in kernel
  OBVIOUS
<1>2. z \in P <=> \E r \in Rq : z = <<"pool", r>> /\ p \in pool[r]
  OBVIOUS
<1>3. \A r \in Rq : z \in C(r) <=> \E k \in DOMAIN cache[r] : z = <<"cache", r, k>> /\ cache[r][k].page = p
  OBVIOUS
<1>4. \A r \in Rq : z \in X(r) <=> \E k \in DOMAIN xdp[r] : z = <<"xdp", r, k>> /\ xdp[r][k] = p
  OBVIOUS
<1>5. z \in H <=> \E r \in Rq : z = <<"hdr", r>> /\ hdr[r] = p
  OBVIOUS
<1>6. z \in J <=> \E r \in Rq : z = <<"job", r>> /\ job[r] # NoJob /\ job[r].page = p
  OBVIOUS
<1>7. \A w \in Wqe : z \in S(w) <=> \E i \in OwnedSlots(w) : z = <<"slot", w, i>> /\ di[w][i].page = p
  OBVIOUS
<1>8. PICK D, E, F : /\ D = UNION {C(r) : r \in Rq}
                     /\ E = UNION {X(r) : r \in Rq}
                     /\ F = UNION {S(w) : w \in Wqe}
  OBVIOUS
<1>9. Places(p) = K \cup P \cup D \cup E \cup H \cup J \cup F
  BY <1>8, Zenon DEF Places
<1> HIDE DEF K, P, C, X, H, J, S
<1>10. z \in D <=> \E r \in Rq : z \in C(r)
  BY <1>8
<1>11. z \in E <=> \E r \in Rq : z \in X(r)
  BY <1>8
<1>12. z \in F <=> \E w \in Wqe : z \in S(w)
  BY <1>8
<1>13. z \in Places(p) <=>
         z \in K \/ z \in P \/ z \in D \/ z \in E \/ z \in H \/ z \in J \/ z \in F
  BY <1>9
<1>14. (\E r \in Rq : z \in C(r)) <=>
         \E r \in Rq : \E k \in DOMAIN cache[r] : z = <<"cache", r, k>> /\ cache[r][k].page = p
  BY <1>3
<1>15. (\E r \in Rq : z \in X(r)) <=>
         \E r \in Rq : \E k \in DOMAIN xdp[r] : z = <<"xdp", r, k>> /\ xdp[r][k] = p
  BY <1>4
<1>16. (\E w \in Wqe : z \in S(w)) <=>
         \E w \in Wqe : \E i \in OwnedSlots(w) : z = <<"slot", w, i>> /\ di[w][i].page = p
  BY <1>7
<1> QED BY <1>1, <1>2, <1>5, <1>6, <1>10, <1>11, <1>12, <1>13, <1>14, <1>15, <1>16, Zenon

\* The place of the specification that stands for <<k, u, v>>.
PlaceOf(k, u, v) == IF k = "kernel" THEN <<"kernel">>
                    ELSE IF k \in {"cache", "xdp", "slot"} THEN <<k, u, v>> ELSE <<k, u>>

\* A page that is in exactly one place is counted once.
LEMMA OnePlaceCounted == AllOne => PageInOnePlace
<1> SUFFICES ASSUME AllOne, NEW p \in Page PROVE Cardinality(Places(p)) = 1
  BY DEF PageInOnePlace
<1>1. PICK k \in Kind : Lone(p, k) /\ \A j \in Kind \ {k} : Empty(p, j)
  BY DEF AllOne, One
<1>2. PICK u, v : At(p, k, u, v) /\ \A x, y : At(p, k, x, y) => x = u /\ y = v
  BY <1>1 DEF Lone
<1>3. \A j \in Kind : \A x, y : At(p, j, x, y) => j = k /\ x = u /\ y = v
  BY <1>1, <1>2 DEF Empty
<1>4. \A z : z \in Places(p) <=> \E j \in Kind : \E x, y : At(p, j, x, y) /\ z = PlaceOf(j, x, y)
  <2> SUFFICES ASSUME NEW z
               PROVE  z \in Places(p) <=> \E j \in Kind : \E x, y : At(p, j, x, y) /\ z = PlaceOf(j, x, y)
    OBVIOUS
  <2>1. ASSUME z \in Places(p) PROVE \E j \in Kind : \E x, y : At(p, j, x, y) /\ z = PlaceOf(j, x, y)
    <3>1. CASE z = <<"kernel">> /\ p \in kernel
      <4>1. At(p, "kernel", 0, 0) /\ z = PlaceOf("kernel", 0, 0)
        BY <3>1 DEF At, PlaceOf
      <4> QED BY <4>1 DEF Kind
    <3>2. ASSUME NEW r \in Rq, z = <<"pool", r>>, p \in pool[r]
          PROVE  At(p, "pool", r, 0) /\ z = PlaceOf("pool", r, 0)
      BY <3>2 DEF At, PlaceOf
    <3>3. ASSUME NEW r \in Rq, NEW i \in DOMAIN cache[r], z = <<"cache", r, i>>, cache[r][i].page = p
          PROVE  At(p, "cache", r, i) /\ z = PlaceOf("cache", r, i)
      BY <3>3 DEF At, PlaceOf
    <3>4. ASSUME NEW r \in Rq, NEW i \in DOMAIN xdp[r], z = <<"xdp", r, i>>, xdp[r][i] = p
          PROVE  At(p, "xdp", r, i) /\ z = PlaceOf("xdp", r, i)
      BY <3>4 DEF At, PlaceOf
    <3>5. ASSUME NEW r \in Rq, z = <<"hdr", r>>, hdr[r] = p
          PROVE  At(p, "hdr", r, 0) /\ z = PlaceOf("hdr", r, 0)
      BY <3>5 DEF At, PlaceOf
    <3>6. ASSUME NEW r \in Rq, z = <<"job", r>>, job[r] # NoJob, job[r].page = p
          PROVE  At(p, "job", r, 0) /\ z = PlaceOf("job", r, 0)
      BY <3>6 DEF At, PlaceOf
    <3>7. ASSUME NEW w \in Wqe, NEW i \in OwnedSlots(w), z = <<"slot", w, i>>, di[w][i].page = p
          PROVE  At(p, "slot", w, i) /\ z = PlaceOf("slot", w, i)
      BY <3>7 DEF At, PlaceOf
    <3>8. {"kernel", "pool", "cache", "xdp", "hdr", "job", "slot"} \subseteq Kind
      BY DEF Kind
    <3> QED BY <2>1, <3>1, <3>2, <3>3, <3>4, <3>5, <3>6, <3>7, <3>8, PlacesOf
  <2>2. ASSUME NEW j \in Kind, NEW x, NEW y, At(p, j, x, y), z = PlaceOf(j, x, y)
        PROVE  z \in Places(p)
    BY <2>2, PlacesOf DEF At, PlaceOf
  <2> QED BY <2>1, <2>2
<1>5. Places(p) = {PlaceOf(k, u, v)}
  BY <1>2, <1>3, <1>4
<1> QED BY <1>5, FS_Singleton

\* Through every fault, unwind, recycling, XDP verdict, header page and
\* teardown, each page the driver and the kernel share is in exactly one
\* place: never lost and never given back twice.
THEOREM RxPageInOnePlace == Spec => []PageInOnePlace
<1>1. Spec => []AllOne
  BY OneInit, OneNext, RxInvariant, PTL DEF Spec
<1> QED BY <1>1, OnePlaceCounted, PTL
=============================================================================
