------------------------------- MODULE UsbXfer -------------------------------
(***************************************************************************)
(* The asynchronous USB transfers of one controller (ctlra/usb.c).         *)
(*                                                                         *)
(* Every read or write the driver submits owns one heap block              *)
(* (usb_async_t), linked into a doubly linked list that hangs off the      *)
(* device. libusb owns the transfer until it has been reported to the      *)
(* completion callback, which unlinks and frees the block. Closing the     *)
(* device first drains the writes, then walks the list and cancels what is *)
(* left, handles events once more and drops the handles.                   *)
(*                                                                         *)
(* The library is single threaded: what interleaves is the kernel, which   *)
(* finishes transfers whenever it likes, and re-entrancy, because the      *)
(* driver's usb_read_cb (and the application's event_func under it)        *)
(* submits new transfers while the completion callback is still about to   *)
(* unlink its own block.                                                   *)
(***************************************************************************)
EXTENDS Integers, FiniteSets

CONSTANTS
  Blocks,      \* heap blocks malloc can return
  Null,        \* the C null pointer
  ReadMax,     \* CTLRA_ASYNC_READ_MAX (10 in the code)
  DrainMax,    \* bound of the drain loop of usb_close (10000)
  WalkMax,     \* bound of the loop of xfer_release (10000)
  FailKinds    \* the kinds of transfer whose submission libusb may refuse

Kinds == {"read", "write", "bulk"}

ASSUME BlocksAssumption == IsFiniteSet(Blocks) /\ Null \notin Blocks
ASSUME BoundsAssumption == /\ ReadMax \in Nat \ {0}
                           /\ DrainMax \in Nat
                           /\ WalkMax \in Nat /\ WalkMax >= 2 * ReadMax
ASSUME FailAssumption == FailKinds \subseteq Kinds

VARIABLES
  live,        \* blocks malloc'ed and not yet freed
  next, prev,  \* the links of usb_async_t
  head,        \* dev->usb_async_next
  reads,       \* the live blocks whose completion callback is the one of reads
  xfr,         \* libusb's view of the block's transfer
  infRead,     \* usb_xfer_counts[USB_XFER_INFLIGHT_READ]
  infWrite,    \* usb_xfer_counts[USB_XFER_INFLIGHT_WRITE]
  infCancel,   \* usb_xfer_counts[USB_XFER_INFLIGHT_CANCEL]
  banished,    \* dev->banished
  cb,          \* the block whose usb_read_cb is on the stack, or Null
  phase,       \* where ctlra_dev_disconnect / usb_close has got to
  nested,      \* usb_close runs inside a libusb callback
  cur, steps,  \* xfer_release's cursor; the counter of the running loop
  failed,      \* history: some submission has been refused
  fault        \* first memory error: "none", "badFree" or "useAfterFree"

links == <<live, next, prev, head, reads, xfr>>
counts == <<infRead, infWrite, infCancel>>
closing == <<phase, nested, cur, steps>>
vars == <<links, counts, closing, banished, cb, failed, fault>>

Finished == {"completed", "cancelled", "error"}
XfrStates == {"none", "submitted", "cancelling", "reporting"} \cup Finished
Phases == {"open", "neutral", "drain", "release", "final", "closed"}

TypeOK ==
  /\ live \in SUBSET Blocks
  /\ next \in [Blocks -> Blocks \cup {Null}]
  /\ prev \in [Blocks -> Blocks \cup {Null}]
  /\ head \in Blocks \cup {Null}
  /\ reads \in SUBSET Blocks
  /\ xfr \in [Blocks -> XfrStates]
  /\ infRead \in Nat /\ infWrite \in Nat /\ infCancel \in Nat
  /\ banished \in BOOLEAN
  /\ cb \in Blocks \cup {Null}
  /\ phase \in Phases
  /\ nested \in BOOLEAN
  /\ cur \in Blocks \cup {Null}
  /\ steps \in Nat
  /\ failed \in BOOLEAN
  /\ fault \in {"none", "badFree", "useAfterFree"}

Init ==
  /\ live = {} /\ reads = {} /\ head = Null
  /\ next = [b \in Blocks |-> Null]
  /\ prev = [b \in Blocks |-> Null]
  /\ xfr = [b \in Blocks |-> "none"]
  /\ infRead = 0 /\ infWrite = 0 /\ infCancel = 0
  /\ banished = FALSE
  /\ cb = Null
  /\ phase = "open" /\ nested = FALSE
  /\ cur = Null /\ steps = 0
  /\ failed = FALSE /\ fault = "none"

-----------------------------------------------------------------------------
\* Following a pointer of the list into a block that has been freed.
Deref(pointers, heap) ==
  IF pointers \subseteq heap \cup {Null} THEN "none" ELSE "useAfterFree"

\* Mutation: bulk writes escape the limit.
InflightNoBulk(k) ==
  IF k = "read" THEN infRead ELSE IF k = "bulk" THEN 0 ELSE infWrite

Inflight(k) == IF k = "read" THEN infRead ELSE infWrite

(***************************************************************************)
(* Submitting: interrupt_read, interrupt_write and bulk_write              *)
(***************************************************************************)

\* Who may call a submit function now: usb_read_cb at any time it is on the
\* stack; poll, while the device is connected and not banished; a flush, by the
\* application until its remove function returns and by the driver's
\* disconnect, which switches the lights off, before usb_close.
MaySubmit(k) ==
  \/ cb # Null
  \/ phase = "open" /\ ~banished
  \/ phase \in {"open", "neutral"} /\ k # "read"

\* Mutation: the old head is not linked back to the new one.
InsertNoBackLink(b, k) ==
  /\ next' = [next EXCEPT ![b] = head]
  /\ prev' = [prev EXCEPT ![b] = Null]
  /\ head' = b
  /\ reads' = IF k = "read" THEN reads \cup {b} ELSE reads

\* The new block goes in front of the list before libusb sees the transfer.
Insert(b, k) ==
  /\ next' = [next EXCEPT ![b] = head]
  /\ prev' = [(IF head = Null THEN prev ELSE [prev EXCEPT ![head] = b])
              EXCEPT ![b] = Null]
  /\ head' = b
  /\ reads' = IF k = "read" THEN reads \cup {b} ELSE reads

Submit(b, k) ==
  /\ fault = "none" /\ MaySubmit(k)
  /\ Inflight(k) < ReadMax
  /\ b \notin live
  /\ Insert(b, k)
  /\ live' = live \cup {b}
  /\ xfr' = [xfr EXCEPT ![b] = "submitted"]
  /\ infRead' = IF k = "read" THEN infRead + 1 ELSE infRead
  /\ infWrite' = IF k = "read" THEN infWrite ELSE infWrite + 1
  /\ fault' = Deref({head}, live')
  /\ UNCHANGED <<infCancel, closing, banished, cb, failed>>

\* Mutation: the bulk path does not free the block.
SubmitRefusedLeaks(b, k) ==
  /\ fault = "none" /\ MaySubmit(k)
  /\ k \in FailKinds \cap {"bulk"}
  /\ Inflight(k) < ReadMax
  /\ b \notin live
  /\ Insert(b, k)
  /\ failed' = TRUE
  /\ live' = live \cup {b} /\ fault' = Deref({head}, live')
  /\ UNCHANGED <<xfr, counts, closing, banished, cb>>

\* libusb refuses the transfer. The interrupt paths hand free() the address
\* of the payload inside the block; the bulk path frees the block and leaves
\* it in the list. No path takes it out of the list again.
SubmitRefused(b, k) ==
  /\ fault = "none" /\ MaySubmit(k)
  /\ k \in FailKinds
  /\ Inflight(k) < ReadMax
  /\ b \notin live
  /\ Insert(b, k)
  /\ failed' = TRUE
  /\ IF k = "bulk"
     THEN /\ live' = live
          /\ fault' = Deref({head}, live \cup {b})
     ELSE /\ live' = live \cup {b}
          /\ fault' = "badFree"
  /\ UNCHANGED <<xfr, counts, closing, banished, cb>>

(***************************************************************************)
(* libusb and the kernel (external)                                        *)
(***************************************************************************)

\* The kernel is done with a transfer. A cancel can come too late, or find the
\* device gone.
Finish(b) ==
  /\ fault = "none" /\ phase # "closed"
  /\ \E s \in Finished :
       /\ \/ xfr[b] = "cancelling"
          \/ xfr[b] = "submitted" /\ s # "cancelled"
       /\ xfr' = [xfr EXCEPT ![b] = s]
  /\ UNCHANGED <<live, next, prev, head, reads, counts, closing, banished, cb,
                 failed, fault>>

\* libusb reports finished transfers only from a handle_events call, one at a
\* time, and a call made from inside one of its callbacks reports nothing.
Handling ==
  /\ fault = "none" /\ cb = Null
  /\ \/ phase = "open"
     \/ phase \in {"drain", "final"} /\ ~nested

(***************************************************************************)
(* ctlra_usb_xfr_done_generic                                              *)
(***************************************************************************)

\* Mutation: the list head is left alone when the first block goes.
UnlinkKeepsHead(b) ==
  LET n == next[b]
      p == prev[b]
  IN /\ prev' = [(IF n = Null THEN prev ELSE [prev EXCEPT ![n] = p])
                 EXCEPT ![b] = Null]
     /\ next' = [(IF p = Null THEN next ELSE [next EXCEPT ![p] = n])
                 EXCEPT ![b] = Null]
     /\ head' = head
     /\ fault' = Deref({n, p}, live)

\* The common tail: count, unlink with the links as they are NOW, free. What
\* the freed block held is gone.
Unlink(b) ==
  LET n == next[b]
      p == prev[b]
  IN /\ prev' = [(IF n = Null THEN prev ELSE [prev EXCEPT ![n] = p])
                 EXCEPT ![b] = Null]
     /\ next' = [(IF p = Null THEN next ELSE [next EXCEPT ![p] = n])
                 EXCEPT ![b] = Null]
     /\ head' = IF p = Null THEN n ELSE head
     /\ fault' = Deref({n, p}, live)

\* Mutation: the callback of reads serves writes too.
RetireAsRead(b) ==
  /\ infRead' = infRead - 1
  /\ UNCHANGED infWrite
  /\ Unlink(b)
  /\ live' = live \ {b} /\ reads' = reads \ {b}
  /\ xfr' = [xfr EXCEPT ![b] = "none"]

Retire(b) ==
  /\ infRead' = IF b \in reads THEN infRead - 1 ELSE infRead
  /\ infWrite' = IF b \in reads THEN infWrite ELSE infWrite - 1
  /\ Unlink(b)
  /\ live' = live \ {b} /\ reads' = reads \ {b}
  /\ xfr' = [xfr EXCEPT ![b] = "none"]

\* COMPLETED: usb_read_cb is called, for reads and for writes alike.
DoneCompleted(b) ==
  /\ Handling
  /\ xfr[b] = "completed"
  /\ xfr' = [xfr EXCEPT ![b] = "reporting"]
  /\ cb' = b
  /\ UNCHANGED <<live, next, prev, head, reads, counts, closing, banished,
                 failed, fault>>

\* usb_read_cb returns; whatever it submitted is in front of the list now.
ReadCbReturns ==
  /\ fault = "none" /\ cb # Null
  /\ Retire(cb)
  /\ cb' = Null
  /\ UNCHANGED <<infCancel, closing, banished, failed>>

DoneCancelled(b) ==
  /\ Handling
  /\ xfr[b] = "cancelled"
  /\ infCancel' = infCancel - 1
  /\ Retire(b)
  /\ UNCHANGED <<closing, banished, cb, failed>>

\* Mutation: an error is taken for the answer to a cancel.
DoneErrorUncancels(b) ==
  /\ Handling
  /\ xfr[b] = "error"
  /\ banished' = TRUE
  /\ infCancel' = infCancel - 1
  /\ Retire(b)
  /\ UNCHANGED <<closing, cb, failed>>

\* Mutation: the error case returns before the common tail.
DoneErrorReturns(b) ==
  /\ Handling
  /\ xfr[b] = "error"
  /\ banished' = TRUE
  /\ UNCHANGED <<links, counts, closing, cb, failed, fault>>

\* Mutation: the device is not banished.
DoneErrorForgiven(b) ==
  /\ Handling
  /\ xfr[b] = "error"
  /\ Retire(b)
  /\ UNCHANGED <<infCancel, closing, banished, cb, failed>>

\* NO_DEVICE, ERROR, STALL, OVERFLOW
DoneError(b) ==
  /\ Handling
  /\ xfr[b] = "error"
  /\ banished' = TRUE
  /\ Retire(b)
  /\ UNCHANGED <<infCancel, closing, cb, failed>>

(***************************************************************************)
(* ctlra_dev_disconnect, the driver's disconnect, ctlra_dev_impl_usb_close *)
(***************************************************************************)

\* The application has been told (remove_func); the driver's disconnect runs.
\* From the hotplug callback (nested) the device may have been banished first.
Disconnect ==
  /\ fault = "none" /\ cb = Null /\ phase = "open"
  /\ phase' = "neutral"
  /\ nested' \in BOOLEAN
  /\ banished' \in {banished, banished \/ nested'}
  /\ UNCHANGED <<links, counts, cur, steps, cb, failed, fault>>

UsbClose ==
  /\ fault = "none" /\ phase = "neutral"
  /\ phase' = "drain" /\ steps' = 0
  /\ UNCHANGED <<links, counts, nested, cur, banished, cb, failed, fault>>

\* The condition of the drain loop.
DrainWaits == infWrite # 0 /\ steps < DrainMax

\* Mutation: wait_count is never incremented.
DrainAgainUncounted ==
  /\ fault = "none" /\ phase = "drain" /\ cb = Null
  /\ DrainWaits
  /\ UNCHANGED vars

\* One handle_events of the drain loop has returned and the loop goes on.
DrainAgain ==
  /\ fault = "none" /\ phase = "drain" /\ cb = Null
  /\ DrainWaits
  /\ steps' = steps + 1
  /\ UNCHANGED <<links, counts, phase, nested, cur, banished, cb, failed, fault>>

\* The drain loop ends and xfer_release starts at the head of the list.
DrainDone ==
  /\ fault = "none" /\ phase = "drain" /\ cb = Null
  /\ ~DrainWaits
  /\ phase' = IF head = Null THEN "final" ELSE "release"
  /\ cur' = head /\ steps' = 0
  /\ UNCHANGED <<links, counts, nested, banished, cb, failed, fault>>

\* Mutation: the break of the self-loop test is taken always.
WalkEndsAtOnce == TRUE

\* When the loop of xfer_release is left.
WalkEnds == next[cur] \in {cur, Null} \/ steps > WalkMax

\* One turn of xfer_release. A transfer the kernel has already finished can
\* no longer be cancelled; it is counted as a cancel in flight all the same.
ReleaseOne ==
  /\ fault = "none" /\ phase = "release"
  /\ xfr' = IF xfr[cur] = "submitted"
            THEN [xfr EXCEPT ![cur] = "cancelling"] ELSE xfr
  /\ infCancel' = infCancel + 1
  /\ fault' = Deref({cur}, live)
  /\ phase' = IF WalkEnds THEN "final" ELSE "release"
  /\ cur' = IF WalkEnds THEN Null ELSE next[cur]
  /\ steps' = IF WalkEnds THEN 0 ELSE steps + 1
  /\ UNCHANGED <<live, next, prev, head, reads, infRead, infWrite, nested,
                 banished, cb, failed>>

\* The last handle_events has returned and the handles are closed: libusb
\* drops what it still had, and no callback follows.
CloseHandles ==
  /\ fault = "none" /\ phase = "final" /\ cb = Null
  /\ phase' = "closed"
  /\ UNCHANGED <<links, counts, nested, cur, steps, banished, cb, failed, fault>>

-----------------------------------------------------------------------------
Done(b) == DoneCompleted(b) \/ DoneCancelled(b) \/ DoneError(b)

Next ==
  \/ \E b \in Blocks, k \in Kinds : Submit(b, k) \/ SubmitRefused(b, k)
  \/ \E b \in Blocks : Finish(b) \/ Done(b)
  \/ ReadCbReturns
  \/ Disconnect \/ UsbClose \/ DrainAgain \/ DrainDone \/ ReleaseOne
  \/ CloseHandles

Spec == Init /\ [][Next]_vars

(***************************************************************************)
(* Fairness. usb_read_cb returns, the close sequence runs to its end (the  *)
(* library is one thread that does not block in it), and an application    *)
(* that keeps calling ctlra_idle_iter has every finished transfer          *)
(* reported: the kernel hands finished transfers back in the order they    *)
(* finished, so none is passed over for ever, however often another one's  *)
(* callback comes first (strong fairness). Between two callbacks a         *)
(* handle_events call can return, which it does in the end however many    *)
(* transfers finish under it (strong fairness again). Nothing is assumed   *)
(* of the kernel, of the driver's submissions or of the cable.             *)
(***************************************************************************)
Fairness ==
  /\ \A b \in Blocks : SF_vars(Done(b))
  /\ WF_vars(ReadCbReturns)
  /\ WF_vars(UsbClose) /\ WF_vars(ReleaseOne)
  /\ SF_vars(DrainAgain) /\ SF_vars(DrainDone) /\ SF_vars(CloseHandles)

FairSpec == Spec /\ Fairness

-----------------------------------------------------------------------------
(***************************************************************************)
(* Properties. A refused submission breaks the list (see the violation     *)
(* runs), so the properties of the list are stated for executions without  *)
(* one; the counters survive a refused bulk write.                         *)
(***************************************************************************)

DoublyLinked ==
  /\ head = Null <=> live = {}
  /\ head # Null => head \in live
  /\ \A b \in live :
       /\ next[b] \in live \cup {Null} /\ prev[b] \in live \cup {Null}
       /\ next[b] # Null => prev[next[b]] = b
       /\ prev[b] # Null => next[prev[b]] = b
       /\ prev[b] = Null <=> head = b

\* The blocks a walk from the head finds: those in every set that holds the
\* head and follows the links.
FollowsLinks(S) ==
  head \in S \cup {Null} /\ \A a \in S : next[a] \in S \cup {Null}
Reached ==
  {b \in Blocks : \A S \in SUBSET Blocks : FollowsLinks(S) => b \in S}

\* impl.h:136 calls usb_async_next the "linked list of outstanding async
\* transfers". It is one: whatever usb_read_cb submits under a completion
\* callback, the links agree in both directions and a walk from the head
\* finds exactly the allocated blocks.
ListIsOutstanding == ~failed => DoublyLinked /\ Reached = live

\* The in-flight counters, which decide whether a submission is dropped and
\* how long usb_close waits, count exactly the blocks of their direction, the
\* one being reported included, and stay within the limit.
CountsAreBlocks ==
  fault # "badFree" => /\ infRead = Cardinality(reads)
                       /\ infWrite = Cardinality(live \ reads)
                       /\ infRead <= ReadMax /\ infWrite <= ReadMax

\* A block is allocated exactly while libusb or the completion callback still
\* uses the transfer in it: libusb never fills a freed buffer, and no block is
\* forgotten before the handles are closed.
BlockOutlivesTransfer ==
  fault # "badFree" => live = {b \in Blocks : xfr[b] # "none"}

\* The list code never follows a pointer into freed memory and never frees
\* anything but a block, as long as libusb accepts what is submitted.
NoMemoryFault == ~failed => fault = "none"

\* INFLIGHT_CANCEL, an unsigned counter that the cancelled callback
\* decrements, covers every cancelled transfer that is still to be reported.
CancelsCovered ==
  infCancel >= Cardinality({b \in live : xfr[b] \in {"cancelling", "cancelled"}})

\* When xfer_release leaves its loop no transfer is left that was neither
\* cancelled nor finished: the walk has missed no block.
ReleaseReachesAll ==
  [][phase = "release" /\ phase' = "final" /\ ~failed
       => \A b \in Blocks : xfr'[b] # "submitted"]_vars

\* The contract of the transfer layer. What is under way is what libusb holds or
\* is reporting, whether or not its block is still well linked.
Way ==
  [b \in Blocks |-> IF xfr[b] = "none" THEN "nothing"
                    ELSE IF b \in reads THEN "read" ELSE "write"]
Telling == {cb} \ {Null}
Device == IF phase = "open" THEN IF banished THEN "failed" ELSE "works"
          ELSE IF phase = "closed" THEN "closed" ELSE "closing"
Promise ==
  INSTANCE Transfers WITH
    Slots <- Blocks, Max <- ReadMax, way <- Way, telling <- Telling, state <- Device

\* Whatever the kernel, the driver and re-entrancy do, and whether or not libusb
\* refuses submissions, a transfer that was accepted is told to usb_read_cb
\* exactly once, no two at a time, unless the device fails or is closed first.
KeepsPromise == Promise!Spec

\* A finished transfer is reported, and its block freed, unless the handles
\* are closed first.
FinishedIsReported ==
  \A b \in Blocks : xfr[b] \in Finished
                       ~> xfr[b] = "none" \/ phase = "closed" \/ fault # "none"

\* usb_close comes to its end whether or not the device ever answers the
\* writes it waits for.
CloseCompletes == phase = "neutral" ~> phase = "closed" \/ fault # "none"

(***************************************************************************)
(* What the comments promise and the code does not keep                    *)
(***************************************************************************)

\* ctlra.h:251-253: the remove function is called "just before a device is
\* removed" so that the application can "free memory that was used by this
\* instance". Then no input may be decoded for the device any more.
NoEventAfterRemove ==
  [][phase # "open" /\ cb' \notin {cb, Null} => cb' \notin reads]_vars

\* usb.c:55, in the list validation: assert(current != current->next)
NoSelfLoop == \A b \in Blocks : b \in Reached => next[b] # b
=============================================================================
