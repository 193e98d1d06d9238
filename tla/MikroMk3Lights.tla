---------------------------- MODULE MikroMk3Lights ----------------------------
(***************************************************************************)
(* The lights of a Maschine Mikro MK3 (devices/ni_maschine_mikro_mk3.c).   *)
(*                                                                         *)
(* The driver keeps one image of all lights and one dirty flag. A flush    *)
(* queues a snapshot of the image as an asynchronous write. Writes in      *)
(* flight are limited; at the limit the USB layer drops the write and      *)
(* returns 0, which the driver takes for success, and it clears the flag.  *)
(* What repairs that is the completion of earlier flushes: the 81 bytes    *)
(* that were written come back to usb_read_cb, and the image is flushed    *)
(* again if they differ from it. The screen is drawn by connect and by     *)
(* disconnect only, and its writes count against the same limit.           *)
(*                                                                         *)
(* The application sets and flushes lights from its feedback function,     *)
(* hence never after its remove function has been called.                  *)
(***************************************************************************)
EXTENDS Integers, Sequences

CONSTANTS
  Images,     \* what the lights as a whole can show
  Dark,       \* all lights off
  WriteMax    \* CTLRA_ASYNC_READ_MAX (10): the limit on writes in flight

ASSUME ImagesAssumption == Dark \in Images
ASSUME LimitAssumption == WriteMax \in Nat /\ WriteMax > 2

VARIABLES
  lights,    \* dev->lights
  dirty,     \* dev->lights_dirty
  images,    \* snapshots in flight, the oldest first
  sent,      \* how many of them have reached the device
  screens,   \* screen writes in flight
  hw,        \* what the device shows
  banished,  \* dev->banished
  phase,     \* "open", "closing" (in usb_close) or "closed"
  off,       \* the flush of disconnect has been queued
  drained    \* usb_close has seen every write complete

wires == <<images, sent, screens, hw>>
ending == <<phase, off, drained>>
vars == <<lights, dirty, wires, banished, ending>>

TypeOK ==
  /\ lights \in Images /\ hw \in Images
  /\ images \in Seq(Images)
  /\ sent \in 0..Len(images)
  /\ screens \in Nat
  /\ Len(images) + screens <= WriteMax
  /\ phase \in {"open", "closing", "closed"}
  /\ dirty \in BOOLEAN /\ banished \in BOOLEAN
  /\ off \in BOOLEAN /\ drained \in BOOLEAN

\* connect: the image is dark and dirty, a screen image is on its way, and
\* the device shows whatever it did before.
Init ==
  /\ lights = Dark /\ dirty = TRUE
  /\ images = <<>> /\ sent = 0 /\ screens \in 0..2
  /\ hw \in Images
  /\ banished = FALSE
  /\ phase = "open" /\ off = FALSE /\ drained = FALSE

\* Mutant of HasRoom: one write too many.
HasRoomOffByOne == Len(images) + screens <= WriteMax

\* The limit of usb_interrupt_write and usb_bulk_write.
HasRoom == Len(images) + screens < WriteMax

\* Mutant of LightSet: a change does not set the flag.
LightSetClean(img) ==
  /\ phase = "open"
  /\ lights' = img
  /\ UNCHANGED <<dirty, wires, banished, ending>>

\* light_set: the flag is set by a change only.
LightSet(img) ==
  /\ phase = "open"
  /\ lights' = img
  /\ dirty' = (dirty \/ img # lights)
  /\ UNCHANGED <<wires, banished, ending>>

\* interrupt_write of a snapshot: queued, or dropped at the limit, which
\* passes for success.
Flushed(img) ==
  /\ dirty' = FALSE
  /\ images' = IF HasRoom THEN Append(images, img) ELSE images

\* light_flush. (One that libusb refuses leaves the flag set: a stutter.)
LightFlush(force) ==
  /\ phase = "open"
  /\ dirty \/ force
  /\ Flushed(lights)
  /\ UNCHANGED <<lights, sent, screens, hw, banished, ending>>

\* blit_to_screen: two writes, each of them queued, dropped or refused.
Blit == screens' \in {n \in screens..(screens + 2) : n <= WriteMax - Len(images')}

(***************************************************************************)
(* The device (external): the writes of its one output endpoint arrive in  *)
(* the order they were submitted in.                                       *)
(***************************************************************************)
Wire ==
  /\ phase # "closed" /\ sent < Len(images)
  /\ hw' = images[sent + 1] /\ sent' = sent + 1
  /\ UNCHANGED <<lights, dirty, images, screens, banished, ending>>

\* A write ends in an error: xfr_done banishes the device.
WireFails ==
  /\ phase # "closed"
  /\ \/ /\ images # <<>>
        /\ images' = Tail(images)
        /\ sent' = IF sent = 0 THEN 0 ELSE sent - 1
        /\ UNCHANGED screens
     \/ /\ screens > 0
        /\ screens' = screens - 1
        /\ UNCHANGED <<images, sent>>
  /\ banished' = TRUE
  /\ UNCHANGED <<lights, dirty, hw, ending>>

\* Mutant of Report: the answer is not compared with the image.
ReportIgnored ==
  /\ phase # "closed" /\ sent > 0
  /\ images' = Tail(images) /\ sent' = sent - 1
  /\ UNCHANGED <<lights, dirty, screens, hw, banished, ending>>

\* usb_read_cb, case 81: the oldest write completes with what it has written.
Report ==
  /\ phase # "closed" /\ sent > 0
  /\ dirty' = (dirty \/ Head(images) # lights)
  /\ images' = Tail(images) /\ sent' = sent - 1
  /\ UNCHANGED <<lights, screens, hw, banished, ending>>

\* A screen write completes with a size that no case of usb_read_cb has.
ScreenDone ==
  /\ phase # "closed" /\ screens > 0
  /\ screens' = screens - 1
  /\ UNCHANGED <<lights, dirty, images, sent, hw, banished, ending>>

(***************************************************************************)
(* disconnect                                                              *)
(***************************************************************************)

\* Mutant of Disconnect: the image is flushed before it is blanked.
DisconnectSwapped ==
  /\ phase = "open" /\ phase' = "closing"
  /\ lights' = Dark
  /\ \/ /\ banished
        /\ dirty' = TRUE /\ off' = FALSE
        /\ UNCHANGED <<images, screens>>
     \/ /\ ~banished
        /\ Flushed(lights) /\ off' = HasRoom /\ Blit
  /\ UNCHANGED <<sent, hw, banished, drained>>

\* The image is blanked, flushed by force and the screen is blanked, unless
\* the device is banished; libusb may refuse the flush.
Disconnect ==
  /\ phase = "open" /\ phase' = "closing"
  /\ lights' = Dark
  /\ \/ /\ banished
        /\ dirty' = TRUE /\ off' = FALSE
        /\ UNCHANGED <<images, screens>>
     \/ /\ ~banished
        /\ \/ Flushed(Dark) /\ off' = HasRoom
           \/ dirty' = TRUE /\ off' = FALSE /\ UNCHANGED images
        /\ Blit
  /\ UNCHANGED <<sent, hw, banished, drained>>

\* usb_close has no write left to wait for, or gives up waiting.
CloseDone ==
  /\ phase = "closing" /\ phase' = "closed"
  /\ drained' = (images = <<>> /\ screens = 0)
  /\ images' = <<>> /\ sent' = 0 /\ screens' = 0
  /\ UNCHANGED <<lights, dirty, hw, banished, off>>

-----------------------------------------------------------------------------
Next ==
  \/ \E img \in Images : LightSet(img)
  \/ \E force \in BOOLEAN : LightFlush(force)
  \/ Wire \/ WireFails \/ Report \/ ScreenDone
  \/ Disconnect \/ CloseDone

Spec == Init /\ [][Next]_vars

(***************************************************************************)
(* Fairness: the application flushes from its feedback function, which     *)
(* every idle iteration calls, and libusb does not refuse for ever; the    *)
(* device takes the writes it is sent, and idle iterations report them.    *)
(***************************************************************************)
FairSpec ==
  Spec /\ WF_vars(LightFlush(FALSE)) /\ WF_vars(Wire) /\ WF_vars(Report)

-----------------------------------------------------------------------------
(***************************************************************************)
(* Properties                                                              *)
(***************************************************************************)

\* A clean flag means the change is on its way or has arrived: the device
\* shows the image, or a write is in flight whose report will tell. It takes
\* the report of the last write, because a flush at the limit clears the flag
\* for a change it has dropped, and it takes the screen's share of the limit
\* to be less than all of it.
NotLost ==
  phase = "open" /\ ~banished /\ ~dirty => images # <<>> \/ hw = lights

\* usb.c:847-849 (usb_close waits for the writes that disable the lights):
\* when it has, and the flush of disconnect was queued, the lights are off,
\* whatever was in flight before.
DarkWhenClosed ==
  phase = "closed" /\ ~banished /\ off /\ drained => hw = Dark

\* Lights that stop changing are shown in the end, whatever was dropped.
LightsShown ==
  \A img \in Images :
    <>[](lights = img) => <>[](hw = img \/ banished \/ phase # "open")
=============================================================================
