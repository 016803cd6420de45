---------------------------- MODULE PagingProofs ----------------------------
(***************************************************************************)
(* The safety of leaving the page-table caches alone, for any number of    *)
(* CPUs, regions, slots and page-table pages.  A cached intermediate entry *)
(* is either the one in the tree, or one whose table a CPU has just taken  *)
(* out of the tree with a region all of which it owns, and which it will   *)
(* invalidate without the hint because its freelist is not empty.          *)
(***************************************************************************)
EXTENDS PagingCache, TLAPS

Holding(c) == phase[c] \in {"gathered", "synced"}

\* No IOVA has two owners.
Ownership == \A c, d \in Cpu : c # d => owned[c] \cap owned[d] = {}

\* A page-table page is in one place: free, on one freelist, or in one region.
TableInOnePlace ==
  /\ \A g \in Region : dir[g] \notin freeTables
  /\ \A g, h \in Region : dir[g] = dir[h] /\ dir[g] # NoTable => g = h
  /\ \A c \in Cpu : freelist[c] \cap freeTables = {}
  /\ \A c \in Cpu, g \in Region : dir[g] \notin freelist[c]
  /\ \A c, d \in Cpu : c # d => freelist[c] \cap freelist[d] = {}

\* A CPU has a freelist only between unmap and free, and only if its range
\* covers a region; the regions its range covers stay out of the tree.
Unlinked ==
  \A c \in Cpu :
    /\ freelist[c] # {} => Holding(c) /\ Covered(owned[c]) # {}
    /\ Holding(c) => \A g \in Covered(owned[c]) : dir[g] = NoTable

\* The cached entry of region g waits for the invalidation of CPU c.
Pending(g, c) == /\ phase[c] = "gathered"
                 /\ g \in Covered(owned[c])
                 /\ pwc[g] \in freelist[c]

CachedIsCurrentOrPending ==
  \A g \in Region : pwc[g] \in {NoTable, dir[g]} \/ \E c \in Cpu : Pending(g, c)

PagingInv == /\ TypeOK
             /\ Ownership
             /\ TableInOnePlace
             /\ Unlinked
             /\ CachedIsCurrentOrPending
             /\ NoStaleTranslation

----------------------------------------------------------------------------
\* A covered region has a slot, so that it is among those an invalidation of
\* the range reaches.
LEMMA CoveredIsTouched ==
  ASSUME NEW R, NEW g \in Covered(R)
  PROVE  g \in Touched(R) /\ \A s \in Slot : <<g, s>> \in R
<1>1. {g} \X Slot \subseteq R
  BY DEF Covered
<1>2. PICK s \in Slot : TRUE
  BY SlotAssumption
<1>3. <<g, s>> \in R /\ <<g, s>>[1] = g
  BY <1>1, <1>2
<1> QED BY <1>1, <1>3 DEF Touched

\* Two CPUs never cover the same region, and no other CPU owns an IOVA in it.
LEMMA CoveredByOne ==
  ASSUME Ownership, NEW c \in Cpu, NEW d \in Cpu, c # d,
         NEW g \in Covered(owned[c])
  PROVE  /\ g \notin Covered(owned[d])
         /\ \A s \in Slot : <<g, s>> \notin owned[d]
<1>1. \A s \in Slot : <<g, s>> \in owned[c]
  BY CoveredIsTouched
<1>2. \A s \in Slot : <<g, s>> \notin owned[d]
  BY <1>1 DEF Ownership
<1>3. \E s \in Slot : TRUE
  BY SlotAssumption
<1> QED BY <1>2, <1>3, CoveredIsTouched

LEMMA InitEstablishes == Init => PagingInv
<1> SUFFICES ASSUME Init PROVE PagingInv
  OBVIOUS
<1>1. TypeOK
  BY DEF Init, TypeOK
<1>2. Ownership /\ TableInOnePlace /\ Unlinked
  BY TableAssumption DEF Init, Ownership, TableInOnePlace, Unlinked, Holding
<1>3. CachedIsCurrentOrPending /\ NoStaleTranslation
  BY DEF Init, CachedIsCurrentOrPending, NoStaleTranslation
<1> QED BY <1>1, <1>2, <1>3 DEF PagingInv

----------------------------------------------------------------------------
\* The steps that leave the tree and the caches alone.
LEMMA AllocStep ==
  ASSUME PagingInv, NEW c \in Cpu, Alloc(c)
  PROVE  PagingInv'
<1> USE DEF PagingInv
<1>0. PICK R \in RangesOfIova : /\ \A d \in Cpu : owned[d] \cap R = {}
                                /\ owned' = [owned EXCEPT ![c] = R]
  BY DEF Alloc
<1>1. R \subseteq Iova
  BY DEF RangesOfIova, Iova
<1>2. /\ phase[c] = "idle" /\ phase' = [phase EXCEPT ![c] = "mapping"]
      /\ UNCHANGED <<dir, leaf, pwc, iotlb, freeTables, freelist>>
  BY DEF Alloc
<1>3. TypeOK'
  BY <1>0, <1>1, <1>2 DEF TypeOK
<1>4. Ownership'
  BY <1>0, <1>2 DEF Ownership, TypeOK
<1>5. TableInOnePlace'
  BY <1>2 DEF TableInOnePlace
<1>6. \A d \in Cpu : Holding(d)' = Holding(d) /\ (Holding(d) => owned'[d] = owned[d])
  BY <1>0, <1>2 DEF Holding, TypeOK
<1>7. Unlinked'
  BY <1>2, <1>6 DEF Unlinked, Covered
<1>8. \A d \in Cpu, g \in Region : Pending(g, d) => Pending(g, d)'
  BY <1>0, <1>2 DEF Pending, Covered, TypeOK
<1>9. CachedIsCurrentOrPending'
  BY <1>2, <1>8 DEF CachedIsCurrentOrPending
<1>10. NoStaleTranslation'
  <2>1. Present' = Present
    BY <1>2 DEF Present
  <2> QED BY <2>1, <1>0, <1>2 DEF NoStaleTranslation, TypeOK
<1> QED BY <1>3, <1>4, <1>5, <1>7, <1>9, <1>10

LEMMA MapDoneStep ==
  ASSUME PagingInv, NEW c \in Cpu, MapDone(c)
  PROVE  PagingInv'
<1> USE DEF PagingInv
<1>1. /\ phase[c] = "mapping" /\ phase' = [phase EXCEPT ![c] = "mapped"]
      /\ UNCHANGED <<dir, leaf, pwc, iotlb, freeTables, owned, freelist>>
  BY DEF MapDone
<1>2. TypeOK' /\ Ownership' /\ TableInOnePlace'
  BY <1>1 DEF TypeOK, Ownership, TableInOnePlace
<1>3. Unlinked'
  BY <1>1 DEF Unlinked, Holding, Covered, TypeOK
<1>4. \A d \in Cpu, g \in Region : Pending(g, d) => Pending(g, d)'
  BY <1>1 DEF Pending, Covered, TypeOK
<1>5. CachedIsCurrentOrPending'
  BY <1>1, <1>4 DEF CachedIsCurrentOrPending
<1>6. NoStaleTranslation'
  BY <1>1 DEF NoStaleTranslation, Present, TypeOK
<1> QED BY <1>2, <1>3, <1>5, <1>6

----------------------------------------------------------------------------
\* A page is mapped into the table of its region, or into a new one.
LEMMA MapLeafStep ==
  ASSUME PagingInv, NEW c \in Cpu, NEW a \in Iova, MapLeaf(c, a)
  PROVE  PagingInv'
<1> USE DEF PagingInv
<1>1. /\ phase[c] = "mapping" /\ a \in owned[c] /\ a[1] \in Region /\ a[2] \in Slot
      /\ a = <<a[1], a[2]>>
      /\ UNCHANGED <<pwc, iotlb, owned, phase, freelist>>
  BY DEF MapLeaf, Iova
<1>2. CASE /\ dir[a[1]] # NoTable
           /\ leaf' = [leaf EXCEPT ![dir[a[1]]] = @ \cup {a[2]}]
           /\ UNCHANGED <<dir, freeTables>>
  <2>1. TypeOK' /\ Ownership' /\ TableInOnePlace' /\ Unlinked'
    BY <1>1, <1>2 DEF TypeOK, Ownership, TableInOnePlace, Unlinked, Holding
  <2>2. CachedIsCurrentOrPending'
    BY <1>1, <1>2 DEF CachedIsCurrentOrPending, Pending
  <2>3. \A b \in Present : b \in Present'
    BY <1>1, <1>2 DEF Present, TypeOK, Iova
  <2>4. NoStaleTranslation'
    BY <1>1, <2>3 DEF NoStaleTranslation
  <2> QED BY <2>1, <2>2, <2>4
<1>3. ASSUME NEW t \in freeTables, dir[a[1]] = NoTable,
             dir' = [dir EXCEPT ![a[1]] = t],
             leaf' = [leaf EXCEPT ![t] = {a[2]}],
             freeTables' = freeTables \ {t}
      PROVE  PagingInv'
  <2>1. t \in Table /\ t # NoTable /\ \A g \in Region : dir[g] # t
    BY <1>3, TableAssumption DEF TypeOK, TableInOnePlace
  <2>2. TypeOK' /\ Ownership'
    BY <1>1, <1>3, <2>1 DEF TypeOK, Ownership
  <2>3. \A g \in Region : dir'[g] = IF g = a[1] THEN t ELSE dir[g]
    BY <1>1, <1>3 DEF TypeOK
  <2>4. TableInOnePlace'
    <3>1. \A g \in Region : dir'[g] \notin freeTables'
      BY <1>3, <2>3 DEF TableInOnePlace
    <3>2. \A g, h \in Region : dir'[g] = dir'[h] /\ dir'[g] # NoTable => g = h
      BY <2>1, <2>3 DEF TableInOnePlace
    <3>3. \A d \in Cpu : freelist'[d] \cap freeTables' = {} /\ t \notin freelist'[d]
      BY <1>1, <1>3 DEF TableInOnePlace
    <3>4. \A d \in Cpu, g \in Region : dir'[g] \notin freelist'[d]
      BY <1>1, <2>3, <3>3 DEF TableInOnePlace
    <3>5. \A d, e \in Cpu : d # e => freelist'[d] \cap freelist'[e] = {}
      BY <1>1 DEF TableInOnePlace
    <3> QED BY <3>1, <3>2, <3>3, <3>4, <3>5 DEF TableInOnePlace
  <2>5. ASSUME NEW d \in Cpu, Holding(d) PROVE a[1] \notin Covered(owned[d])
    <3>1. d # c
      BY <1>1, <2>5 DEF Holding
    <3> QED BY <1>1, <3>1, CoveredByOne
  <2>6. Unlinked'
    BY <1>1, <2>3, <2>5 DEF Unlinked, Holding, Covered
  <2>7. CachedIsCurrentOrPending'
    <3> SUFFICES ASSUME NEW g \in Region
                 PROVE  (pwc[g] \in {NoTable, dir'[g]}) \/ \E d \in Cpu : Pending(g, d)
      BY <1>1 DEF CachedIsCurrentOrPending, Pending
    <3> QED BY <1>3, <2>3 DEF CachedIsCurrentOrPending
  <2>8. \A b \in Present : b \in Present'
    <3> SUFFICES ASSUME NEW b \in Present PROVE b \in Present'
      OBVIOUS
    <3>1. b \in Iova /\ b[1] \in Region /\ dir[b[1]] # NoTable /\ b[2] \in leaf[dir[b[1]]]
      BY DEF Present, Iova
    <3>2. dir'[b[1]] = dir[b[1]] /\ dir[b[1]] # t /\ dir[b[1]] \in Table
      BY <1>3, <2>1, <2>3, <3>1 DEF TypeOK
    <3>3. leaf'[dir[b[1]]] = leaf[dir[b[1]]]
      BY <1>3, <3>2 DEF TypeOK
    <3> QED BY <3>1, <3>2, <3>3 DEF Present
  <2>9. NoStaleTranslation'
    BY <1>1, <2>8 DEF NoStaleTranslation
  <2> QED BY <2>2, <2>4, <2>6, <2>7, <2>9
<1> QED BY <1>2, <1>3 DEF MapLeaf

----------------------------------------------------------------------------
\* The unmap takes whole regions out of the tree and clears the entries of
\* the rest of its range.
LEMMA UnmapFastStep ==
  ASSUME PagingInv, NEW c \in Cpu, UnmapFast(c)
  PROVE  PagingInv'
<1> USE DEF PagingInv
<1> DEFINE gone == Covered(owned[c])
           cut(t) == {b[2] : b \in {b \in owned[c] : b[1] \notin gone /\ dir[b[1]] = t}}
<1>1. /\ phase[c] = "mapped"
      /\ freelist' = [freelist EXCEPT ![c] = {dir[g] : g \in gone} \ {NoTable}]
      /\ dir' = [g \in Region |-> IF g \in gone THEN NoTable ELSE dir[g]]
      /\ leaf' = [t \in Table |-> leaf[t] \ cut(t)]
      /\ phase' = [phase EXCEPT ![c] = "gathered"]
      /\ UNCHANGED <<pwc, iotlb, freeTables, owned>>
  BY DEF UnmapFast
<1>2. gone \subseteq Region /\ \A g \in Region : dir[g] \in Table \cup {NoTable}
  BY DEF Covered, TypeOK
<1>3. TypeOK'
  <2>1. freelist' \in [Cpu -> SUBSET Table]
    BY <1>1, <1>2 DEF TypeOK
  <2>2. leaf' \in [Table -> SUBSET Slot]
    BY <1>1 DEF TypeOK
  <2>3. dir' \in [Region -> Table \cup {NoTable}]
    BY <1>1, <1>2
  <2> QED BY <1>1, <2>1, <2>2, <2>3 DEF TypeOK
<1>4. Ownership'
  BY <1>1 DEF Ownership
<1> HIDE DEF cut
<1>5. /\ \A d \in Cpu : d # c => freelist'[d] = freelist[d] /\ phase'[d] = phase[d]
      /\ freelist'[c] = {dir[g] : g \in gone} \ {NoTable} /\ phase'[c] = "gathered"
      /\ \A g \in Region : dir'[g] = IF g \in gone THEN NoTable ELSE dir[g]
  BY <1>1 DEF TypeOK
<1>6. NoTable \notin freeTables /\ \A d \in Cpu : NoTable \notin freelist[d]
  BY TableAssumption DEF TypeOK
<1>7. TableInOnePlace'
  <2>1. \A g \in Region : dir'[g] \notin freeTables'
    BY <1>1, <1>5, <1>6 DEF TableInOnePlace
  <2>2. \A g, h \in Region : dir'[g] = dir'[h] /\ dir'[g] # NoTable => g = h
    BY <1>5 DEF TableInOnePlace
  <2>3. \A d \in Cpu : freelist'[d] \cap freeTables' = {}
    BY <1>1, <1>2, <1>5 DEF TableInOnePlace
  <2>4. \A d \in Cpu, g \in Region : dir'[g] \notin freelist'[d]
    <3> SUFFICES ASSUME NEW d \in Cpu, NEW g \in Region, dir'[g] \in freelist'[d]
                 PROVE  FALSE
      OBVIOUS
    <3>1. d = c
      BY <1>5, <1>6 DEF TableInOnePlace
    <3>2. PICK h \in gone : dir[h] = dir'[g] /\ dir[h] # NoTable
      BY <1>5, <3>1
    <3> QED BY <1>2, <1>5, <3>2 DEF TableInOnePlace
  <2>5. \A d \in Cpu : d # c => freelist'[c] \cap freelist'[d] = {}
    BY <1>2, <1>5 DEF TableInOnePlace
  <2>6. \A d, e \in Cpu : d # e => freelist'[d] \cap freelist'[e] = {}
    BY <1>5, <2>5 DEF TableInOnePlace
  <2> QED BY <2>1, <2>2, <2>3, <2>4, <2>6 DEF TableInOnePlace
<1>8. Unlinked'
  <2>1. \A d \in Cpu : Covered(owned[d])' = Covered(owned[d])
    BY <1>1 DEF Covered
  <2>2. ASSUME NEW d \in Cpu, d # c
        PROVE  /\ freelist'[d] # {} => Holding(d)' /\ Covered(owned[d]) # {}
               /\ Holding(d)' => \A g \in Covered(owned[d]) : dir'[g] = NoTable
    <3>1. Covered(owned[d]) \subseteq Region
      BY DEF Covered
    <3> QED BY <1>5, <2>2, <3>1 DEF Unlinked, Holding
  <2>3. /\ freelist'[c] # {} => Holding(c)' /\ Covered(owned[c]) # {}
        /\ Holding(c)' => \A g \in Covered(owned[c]) : dir'[g] = NoTable
    BY <1>2, <1>5 DEF Holding
  <2> QED BY <2>1, <2>2, <2>3 DEF Unlinked
<1>9. CachedIsCurrentOrPending'
  <2> SUFFICES ASSUME NEW g \in Region
               PROVE  (pwc'[g] \in {NoTable, dir'[g]}) \/ \E d \in Cpu : Pending(g, d)'
    BY DEF CachedIsCurrentOrPending
  <2>1. CASE pwc[g] = NoTable
    BY <1>1, <2>1
  <2>2. CASE pwc[g] = dir[g] /\ pwc[g] # NoTable
    <3>1. CASE g \in gone
      <4>1. pwc'[g] \in freelist'[c]
        BY <1>1, <1>5, <2>2, <3>1
      <4>2. g \in Covered(owned'[c])
        BY <1>1, <3>1
      <4> QED BY <1>5, <4>1, <4>2 DEF Pending, Covered
    <3>2. CASE g \notin gone
      BY <1>1, <1>5, <2>2, <3>2
    <3> QED BY <3>1, <3>2
  <2>3. ASSUME NEW d \in Cpu, Pending(g, d) PROVE Pending(g, d)'
    <3>1. d # c
      BY <1>1, <2>3 DEF Pending
    <3> QED BY <1>1, <1>5, <2>3, <3>1 DEF Pending, Covered
  <2> QED BY <2>1, <2>2, <2>3 DEF CachedIsCurrentOrPending
<1>10. \A b \in Present : b \in Present' \/ b \in owned[c]
  <2> SUFFICES ASSUME NEW b \in Present, b \notin owned[c] PROVE b \in Present'
    OBVIOUS
  <2>1. b \in Iova /\ b[1] \in Region /\ b[2] \in Slot /\ b = <<b[1], b[2]>>
        /\ dir[b[1]] # NoTable /\ b[2] \in leaf[dir[b[1]]]
    BY DEF Present, Iova
  <2>2. b[1] \notin gone
    BY <2>1 DEF Covered
  <2>3. dir'[b[1]] = dir[b[1]] /\ dir[b[1]] \in Table
    BY <1>2, <1>5, <2>1, <2>2
  <2>4. b[2] \notin cut(dir[b[1]])
    <3> SUFFICES ASSUME NEW e \in owned[c], dir[e[1]] = dir[b[1]], e[2] = b[2] PROVE FALSE
      BY DEF cut
    <3>1. e \in Iova
      BY DEF TypeOK
    <3>2. e[1] \in Region /\ e = <<e[1], e[2]>>
      BY <3>1 DEF Iova
    <3>3. e[1] = b[1]
      BY <2>1, <3>2 DEF TableInOnePlace
    <3> QED BY <2>1, <3>2, <3>3
  <2> QED BY <1>1, <2>1, <2>3, <2>4 DEF Present
<1>11. NoStaleTranslation'
  BY <1>1, <1>5, <1>10 DEF NoStaleTranslation
<1> QED BY <1>3, <1>4, <1>7, <1>8, <1>9, <1>11

----------------------------------------------------------------------------
\* An invalidation that leaves the cached entries alone leaves none pending.
LEMMA IotlbSyncStep ==
  ASSUME PagingInv, NEW c \in Cpu, IotlbSync(c)
  PROVE  PagingInv'
<1> USE DEF PagingInv
<1>1. /\ phase[c] = "gathered" /\ phase' = [phase EXCEPT ![c] = "synced"]
      /\ iotlb' = iotlb \ owned[c]
      /\ pwc' = [g \in Region |-> IF freelist[c] # {} /\ g \in Touched(owned[c])
                                    THEN NoTable ELSE pwc[g]]
      /\ UNCHANGED <<dir, leaf, freeTables, owned, freelist>>
  BY Zenon DEF IotlbSync, QiFlushIotlb, Hint
<1>2. TypeOK'
  BY <1>1 DEF TypeOK
<1>3. Ownership' /\ TableInOnePlace'
  BY <1>1 DEF Ownership, TableInOnePlace
<1>4. \A d \in Cpu : Holding(d)' = Holding(d) /\ Covered(owned[d])' = Covered(owned[d])
  BY <1>1 DEF Holding, Covered, TypeOK
<1>5. Unlinked'
  BY <1>1, <1>4 DEF Unlinked
<1>6. CachedIsCurrentOrPending'
  <2> SUFFICES ASSUME NEW g \in Region, pwc'[g] # NoTable
               PROVE  pwc'[g] = dir[g] \/ \E d \in Cpu : Pending(g, d)'
    BY <1>1 DEF CachedIsCurrentOrPending
  <2>1. pwc'[g] = pwc[g]
    BY <1>1
  <2>2. ASSUME NEW d \in Cpu, Pending(g, d) PROVE Pending(g, d)'
    <3>1. d # c
      BY <1>1, <2>1, <2>2, CoveredIsTouched DEF Pending
    <3> QED BY <1>1, <1>4, <2>1, <2>2, <3>1 DEF Pending, TypeOK
  <2> QED BY <2>1, <2>2 DEF CachedIsCurrentOrPending
<1>7. NoStaleTranslation'
  <2>1. Present' = Present
    BY <1>1 DEF Present
  <2> QED BY <1>1, <2>1 DEF NoStaleTranslation, TypeOK
<1> QED BY <1>2, <1>3, <1>5, <1>6, <1>7

LEMMA FinishStep ==
  ASSUME PagingInv, NEW c \in Cpu, Finish(c)
  PROVE  PagingInv'
<1> USE DEF PagingInv
<1>1. /\ phase[c] = "synced" /\ phase' = [phase EXCEPT ![c] = "idle"]
      /\ freeTables' = freeTables \cup freelist[c]
      /\ freelist' = [freelist EXCEPT ![c] = {}]
      /\ owned' = [owned EXCEPT ![c] = {}]
      /\ UNCHANGED <<dir, leaf, pwc, iotlb>>
  BY DEF Finish
<1>2. TypeOK' /\ Ownership'
  BY <1>1 DEF TypeOK, Ownership
<1>3. TableInOnePlace'
  <2>1. \A d \in Cpu : freelist'[d] = IF d = c THEN {} ELSE freelist[d]
    BY <1>1 DEF TypeOK
  <2>2. \A d \in Cpu : freelist'[d] \cap freeTables' = {}
    BY <1>1, <2>1 DEF TableInOnePlace
  <2> QED BY <1>1, <2>1, <2>2 DEF TableInOnePlace
<1>4. \A d \in Cpu : d # c => /\ freelist'[d] = freelist[d] /\ phase'[d] = phase[d]
                              /\ Covered(owned[d])' = Covered(owned[d])
  BY <1>1 DEF Covered, TypeOK
<1>5. freelist'[c] = {} /\ ~Holding(c)'
  BY <1>1 DEF Holding, TypeOK
<1>6. Unlinked'
  <2> SUFFICES ASSUME NEW d \in Cpu
               PROVE  /\ freelist'[d] # {} => Holding(d)' /\ Covered(owned[d])' # {}
                      /\ Holding(d)' => \A g \in Covered(owned[d])' : dir'[g] = NoTable
    BY DEF Unlinked
  <2>1. CASE d = c
    BY <1>5, <2>1
  <2>2. CASE d # c
    BY <1>1, <1>4, <2>2 DEF Unlinked, Holding
  <2> QED BY <2>1, <2>2
<1>7. CachedIsCurrentOrPending'
  <2>1. ASSUME NEW d \in Cpu, NEW g \in Region, Pending(g, d) PROVE Pending(g, d)'
    <3>1. d # c
      BY <1>1, <2>1 DEF Pending
    <3> QED BY <1>1, <1>4, <2>1, <3>1 DEF Pending
  <2> QED BY <1>1, <2>1 DEF CachedIsCurrentOrPending
<1>8. NoStaleTranslation'
  BY <1>1 DEF NoStaleTranslation, Present, TypeOK
<1> QED BY <1>2, <1>3, <1>6, <1>7, <1>8

\* A walk caches what it used; what it finds behind an unlinked table is an
\* IOVA of the CPU whose invalidation is still to come.
LEMMA DeviceWalkStep ==
  ASSUME PagingInv, NEW a \in Iova, DeviceWalk(a)
  PROVE  PagingInv'
<1> USE DEF PagingInv
<1> DEFINE t == IF pwc[a[1]] # NoTable THEN pwc[a[1]] ELSE dir[a[1]]
<1>1. /\ t # NoTable
      /\ pwc' = [pwc EXCEPT ![a[1]] = t]
      /\ iotlb' = IF a[2] \in leaf[t] THEN iotlb \cup {a} ELSE iotlb
      /\ UNCHANGED <<dir, leaf, freeTables, owned, phase, freelist>>
      /\ a[1] \in Region /\ a[2] \in Slot /\ a = <<a[1], a[2]>>
  BY DEF DeviceWalk, Iova
<1>2. TypeOK'
  BY <1>1 DEF TypeOK
<1>3. Ownership' /\ TableInOnePlace' /\ Unlinked'
  BY <1>1 DEF Ownership, TableInOnePlace, Unlinked, Holding, Covered
<1>4. \A g \in Region : pwc'[g] = pwc[g] \/ (g = a[1] /\ pwc[g] = NoTable /\ pwc'[g] = dir[g])
  BY <1>1 DEF TypeOK
<1>5. CachedIsCurrentOrPending'
  <2> SUFFICES ASSUME NEW g \in Region
               PROVE  (pwc'[g] \in {NoTable, dir[g]}) \/ \E c \in Cpu : Pending(g, c)'
    BY <1>1 DEF CachedIsCurrentOrPending
  <2>1. CASE pwc'[g] = pwc[g]
    BY <1>1, <2>1 DEF CachedIsCurrentOrPending, Pending, Covered
  <2> QED BY <1>4, <2>1
<1>6. Present' = Present
  BY <1>1 DEF Present
<1>7. NoStaleTranslation'
  <2>1. CASE iotlb' = iotlb
    BY <1>1, <1>6, <2>1 DEF NoStaleTranslation
  <2>2. CASE a[2] \in leaf[t] /\ iotlb' = iotlb \cup {a}
    <3>1. CASE t = dir[a[1]]
      <4>1. a \in Present
        BY <1>1, <2>2, <3>1 DEF Present
      <4> QED BY <1>1, <1>6, <2>2, <4>1 DEF NoStaleTranslation
    <3>2. CASE t # dir[a[1]]
      <4>1. PICK c \in Cpu : Pending(a[1], c)
        BY <1>1, <3>2 DEF CachedIsCurrentOrPending
      <4>2. a \in owned[c] /\ phase[c] = "gathered"
        BY <1>1, <4>1, CoveredIsTouched DEF Pending
      <4> QED BY <1>1, <1>6, <2>2, <4>2 DEF NoStaleTranslation
    <3> QED BY <3>1, <3>2
  <2> QED BY <1>1, <2>1, <2>2
<1> QED BY <1>2, <1>3, <1>5, <1>7

----------------------------------------------------------------------------
LEMMA NextPreserves == PagingInv /\ [Next]_vars => PagingInv'
<1> SUFFICES ASSUME PagingInv, [Next]_vars PROVE PagingInv'
  OBVIOUS
<1>1. CASE UNCHANGED vars
  BY <1>1 DEF vars, PagingInv, TypeOK, Ownership, TableInOnePlace, Unlinked, Holding,
     Covered, CachedIsCurrentOrPending, Pending, NoStaleTranslation, Present
<1>2. CASE Next
  BY <1>2, AllocStep, MapLeafStep, MapDoneStep, UnmapFastStep, IotlbSyncStep, FinishStep,
     DeviceWalkStep DEF Next
<1> QED BY <1>1, <1>2

\* The inductive invariant holds in every reachable state.
THEOREM PagingInvariant == Spec => []PagingInv
<1> QED BY InitEstablishes, NextPreserves, PTL DEF Spec

\* The page tables, their free list and the caches keep their types.
THEOREM PagingTypeOK == Spec => []TypeOK
<1>1. PagingInv => TypeOK
  BY DEF PagingInv
<1> QED BY <1>1, PagingInvariant, PTL

\* The IOMMU never walks a freed page-table page, nor one of another region.
THEOREM PagingNoFreedWalk == Spec => []NoFreedWalk
<1>1. ASSUME PagingInv PROVE NoFreedWalk
  <2> SUFFICES ASSUME NEW g \in Region, pwc[g] # NoTable
               PROVE  pwc[g] \notin freeTables /\ \A h \in Region \ {g} : dir[h] # pwc[g]
    BY DEF NoFreedWalk
  <2>1. CASE pwc[g] = dir[g]
    BY <1>1, <2>1 DEF PagingInv, TableInOnePlace
  <2>2. ASSUME NEW c \in Cpu, Pending(g, c)
        PROVE  pwc[g] \notin freeTables /\ \A h \in Region \ {g} : dir[h] # pwc[g]
    BY <1>1, <2>2 DEF PagingInv, TableInOnePlace, Pending
  <2> QED BY <1>1, <2>1, <2>2 DEF PagingInv, CachedIsCurrentOrPending
<1> QED BY <1>1, PagingInvariant, PTL

\* A mapped IOVA is walked through the table that is in the tree.
THEOREM PagingWalkIsCurrent == Spec => []WalkIsCurrent
<1>1. ASSUME PagingInv PROVE WalkIsCurrent
  <2> SUFFICES ASSUME NEW a \in Present PROVE pwc[a[1]] \in {NoTable, dir[a[1]]}
    BY DEF WalkIsCurrent
  <2>1. a[1] \in Region /\ dir[a[1]] # NoTable
    BY DEF Present, Iova
  <2>2. ASSUME NEW c \in Cpu, Pending(a[1], c) PROVE FALSE
    BY <1>1, <2>1, <2>2 DEF PagingInv, Unlinked, Holding, Pending
  <2> QED BY <1>1, <2>1, <2>2 DEF PagingInv, CachedIsCurrentOrPending
<1> QED BY <1>1, PagingInvariant, PTL

\* After the invalidation of an unmap no walk brings a translation of its
\* range back.
THEOREM PagingNoStaleTranslation == Spec => []NoStaleTranslation
<1>1. PagingInv => NoStaleTranslation
  BY DEF PagingInv
<1> QED BY <1>1, PagingInvariant, PTL

\* An entry that leads to a table in the tree is dropped only together with a
\* region that the same range covers whole, and whose table has left the tree.
THEOREM PagingHintPrecise == Spec => HintPrecise
<1> DEFINE Drop(g) ==
      pwc[g] # NoTable /\ pwc'[g] # pwc[g] =>
        \/ dir[g] # pwc[g]
        \/ \E c \in Cpu : /\ phase[c] = "gathered" /\ g \in Touched(owned[c])
                         /\ \E h \in Covered(owned[c]) : dir[h] = NoTable
<1>1. ASSUME PagingInv, [Next]_vars PROVE [\A g \in Region : Drop(g)]_vars
  <2> SUFFICES ASSUME Next, NEW g \in Region, pwc[g] # NoTable, pwc'[g] # pwc[g]
               PROVE  \E c \in Cpu : /\ phase[c] = "gathered" /\ g \in Touched(owned[c])
                                    /\ \E h \in Covered(owned[c]) : dir[h] = NoTable
    BY <1>1
  <2>1. ASSUME NEW c \in Cpu, IotlbSync(c)
        PROVE  /\ phase[c] = "gathered" /\ g \in Touched(owned[c])
               /\ \E h \in Covered(owned[c]) : dir[h] = NoTable
    <3>1. phase[c] = "gathered" /\ freelist[c] # {} /\ g \in Touched(owned[c])
      BY <1>1, <2>1 DEF IotlbSync, QiFlushIotlb, Hint, PagingInv, TypeOK
    <3> QED BY <1>1, <3>1 DEF PagingInv, Unlinked, Holding
  <2>2. ASSUME NEW a \in Iova, DeviceWalk(a) PROVE FALSE
    BY <1>1, <2>2 DEF DeviceWalk, PagingInv, TypeOK, Iova
  <2>3. ASSUME NEW c \in Cpu,
               Alloc(c) \/ MapDone(c) \/ UnmapFast(c) \/ Finish(c) \/ \E a \in Iova : MapLeaf(c, a)
        PROVE  FALSE
    BY <2>3 DEF Alloc, MapDone, UnmapFast, Finish, MapLeaf
  <2> QED BY <2>1, <2>2, <2>3 DEF Next
<1>2. PagingInv /\ [Next]_vars => [\A g \in Region : Drop(g)]_vars
  BY <1>1
<1> QED BY <1>2, PagingInvariant, PTL DEF Spec, HintPrecise
=============================================================================
