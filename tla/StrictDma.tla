----------------------------- MODULE StrictDma -----------------------------
(***************************************************************************)
(* What a receive path under batched strict protection promises: buffers   *)
(* are mapped in batches of consecutive IOVAs; the device reaches nothing  *)
(* but the batches; what it reaches changes only while a batch is being    *)
(* built or closed; and a page leaves the driver only if the batches that  *)
(* still show it are being closed, each of which is revoked before its     *)
(* addresses are free again.                                               *)
(***************************************************************************)
EXTENDS IovaSpace

CONSTANTS
  Page, NoPage,
  BatchPages    \* the pages of a batch

VARIABLES
  building,     \* the batches being mapped, by their first page frame
  posted,       \* the batches given to the device
  closing,      \* the batches being taken back
  reach,        \* the page the device can reach at each page frame
  driver        \* the pages in the hands of the driver

dmaVars == <<building, posted, closing, reach, driver>>

Held == building \cup posted \cup closing
Batch(lo) == [lo |-> lo, n |-> BatchPages]

DmaInit == /\ building = {} /\ posted = {} /\ closing = {}
           /\ reach = [a \in Pfn |-> NoPage]
           /\ driver = {}

Open(lo) == /\ Batch(lo) \in Ranges
            /\ \A h \in Held : Apart(Batch(lo), Batch(h))
            /\ building' = building \cup {lo}
            /\ UNCHANGED <<posted, closing, reach, driver>>

\* A page taken from the kernel is mapped where nothing can be reached.
Map(lo, a, page) == /\ lo \in building /\ a \in Span(Batch(lo))
                    /\ reach[a] = NoPage
                    /\ page \in Page \ driver
                    /\ reach' = [reach EXCEPT ![a] = page]
                    /\ driver' = driver \cup {page}
                    /\ UNCHANGED <<building, posted, closing>>

\* The whole batch is mapped, to pages of the driver.
Post(lo) == /\ lo \in building
            /\ \A a \in Span(Batch(lo)) : reach[a] \in driver
            /\ building' = building \ {lo} /\ posted' = posted \cup {lo}
            /\ UNCHANGED <<closing, reach, driver>>

Close(lo) == /\ lo \in posted
             /\ posted' = posted \ {lo} /\ closing' = closing \cup {lo}
             /\ UNCHANGED <<building, reach, driver>>

InClosing(a) == \E lo \in closing : a \in Span(Batch(lo))

\* A page goes back: the device sees it in batches being closed, if at all.
GoesBack(page) == /\ page \in driver
                  /\ \A a \in Pfn : reach[a] = page => InClosing(a)
                  /\ driver' = driver \ {page}

\* It does so before its batch has been revoked.
ReturnPage(page) == GoesBack(page) /\ UNCHANGED <<building, posted, closing, reach>>

\* Some of what the device could reach in the batch is out of its reach.
Revoke(lo) ==
  /\ lo \in closing
  /\ reach' \in [Pfn -> Page \cup {NoPage}]
  /\ \A a \in Pfn : reach'[a] = reach[a] \/ (a \in Span(Batch(lo)) /\ reach'[a] = NoPage)
  /\ UNCHANGED <<building, posted, closing, driver>>

\* All of it is: its addresses are free, and the last of its pages goes back.
Release(lo, page) == /\ lo \in closing
                     /\ \A a \in Span(Batch(lo)) : reach[a] = NoPage
                     /\ closing' = closing \ {lo}
                     /\ GoesBack(page)
                     /\ UNCHANGED <<building, posted, reach>>

DmaNext ==
  \/ \E lo \in Pfn : \/ Open(lo) \/ Post(lo) \/ Close(lo) \/ Revoke(lo)
                     \/ \E page \in Page : Release(lo, page)
                     \/ \E a \in Pfn, page \in Page : Map(lo, a, page)
  \/ \E page \in Page : ReturnPage(page)

DmaSpec == DmaInit /\ [][DmaNext]_dmaVars

----------------------------------------------------------------------------
\* No page frame is in two batches, the device reaches nothing outside them,
\* a posted batch shows pages of the driver only, and a page that has left the
\* driver is seen through a batch being closed and no other.
Protected ==
  /\ \A lo, h \in Held : lo # h => Apart(Batch(lo), Batch(h))
  /\ \A a \in Pfn : reach[a] # NoPage => \E lo \in Held : a \in Span(Batch(lo))
  /\ \A lo \in posted : \A a \in Span(Batch(lo)) : reach[a] \in driver
  /\ \A a \in Pfn : reach[a] \in Page \ driver => InClosing(a)
============================================================================
