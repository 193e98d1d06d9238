# Formal models of Ctlra

Ctlra is a C library that talks to hardware controllers (USB HID devices of
Native Instruments and 3Dconnexion, serial and virtual ones) and gives
applications buttons, encoders, sliders, grids, lights and screens. This
directory holds TLA+ models of its control logic, TLC configurations that check
them on small instances, and proofs checked with TLAPS. Paths below are relative
to the repository (`ctlra/usb.c`), `PROJECT.json` maps every definition to the
lines it stands for.

## 1. Inventory

The library is one thread. An application calls `ctlra_create`, `ctlra_probe`,
then `ctlra_idle_iter` again and again, then `ctlra_exit`. Everything else is a
callback: libusb calls the library (completed transfers, hotplug), the library
calls the driver, the driver calls the application (`event_func`) and the
application calls back into the driver (`light_set`, `light_flush`). There are
no locks. What makes the code hard is re-entrancy: every `handle_events` call can
change the device list and the list of transfers under its caller.

| part | state | operations | correct when |
|---|---|---|---|
| USB transfers, `ctlra/usb.c` | per device: a doubly linked list of heap blocks, three in-flight counters, `banished` | submit a read, interrupt write or bulk write; completion callbacks; `usb_close` (drain, cancel, handle events once more, close) | the list is the outstanding transfers, the counters count them, no block is freed early or touched late, closing ends and reaches every transfer |
| Hotplug, `ctlra/usb.c:118-236` | the device list | LEFT disconnects every instance of the model, ARRIVED connects one | instances follow the cable |
| Lifecycle, `ctlra/ctlra.c` | `dev_list`, `banished_list`, per device `banished` and the callbacks | probe, virtualize, connect, accept, idle iteration, banish, disconnect, exit | lists hold live devices, the remove function comes once and last, banished devices are let go of, exit leaves nothing |
| Registry and queries, `ctlra/ctlra.c`, `ctlra/impl.h` | a table of 64 drivers | register, look up by id, list vendors and devices | indices stay in range |
| Screen redraw, `ctlra/ctlra.c:462-551` | time of the last redraw | redraw when the interval has passed | not more often than asked |
| Driver lights, `ctlra/devices/*.c` | image of all lights, dirty flag(s) | `light_set`, `light_flush`, blank at disconnect | lights that stop changing are shown; dark after disconnect |
| Driver input, `ctlra/devices/*.c` | last value of every control | decode a report, emit events for what changed | one event per change, ids in range, wrap-around right |
| MIDI, `ctlra/midi.c`, `devices/midi_generic.c`, `devices/akai_apc.c` | ALSA handles | poll, translate | stateless; the generic driver's registration is commented out and the APC is in no build |
| AVTKA, `devices/avtka.c`; Cairo, `ctlra_cairo.c`; names, `event.c` | a window; none; none | draw, convert, look up | no control logic of their own |
| Examples, scripts | clients | | the environment of the models |

How the parts meet: lifecycle calls a driver's `poll` and `disconnect`; drivers
call the transfer layer to read, write and close; the transfer layer calls the
driver's `usb_read_cb`, and on an error sets `banished`, which the lifecycle
reads. `usb_close` handles libusb events, so closing one device can run the
hotplug callback and disconnect another.

The hard behaviours are listed, each at its line, under "hazards" in
`PROJECT.json`, with the properties that watch it or the reason why none does.

## 2. Modules

| module | models |
|---|---|
| `Transfers` | the contract of the transfer layer: what a driver may rely on about a transfer that was accepted |
| `UsbXfer` | one device's asynchronous transfers and `usb_close` |
| `MCUsbXfer` | its instance for TLC: blocks b1 to b3, interchangeable |
| `UsbXferProofs` | inductive invariant and theorems of `UsbXfer` |
| `CtlraSession` | the contract: what an application may rely on about an instance |
| `Ctlra` | the lifecycle of all instances of one context |
| `MCCtlra` | its instances for TLC: units, models, quirk tables |
| `Lists` | `Only`, the members of a list that pass a test, and lists without duplicates |
| `ListFacts` | lemmas on lists: appending, selecting, first and last |
| `CtlraProofs` | lemmas on the device lists, inductive invariant and theorems of `Ctlra`, and the proof that it implements `CtlraSession` |
| `MikroMk3Lights` | the lights of the Maschine Mikro MK3 driver |
| `MCMikroMk3Lights` | its instance for TLC: three images |
| `MikroMk3LightsProofs` | inductive invariant and theorems of `MikroMk3Lights` |
| `Controls` | what all drivers share: events, the loop over a table of controls, `ctlra_dev_encoder_wrap_16`, lists of pads, images of lights and the flush |
| `NiKontrolF1`, `NiKontrolZ1`, `NiKontrolX1Mk2`, `NiKontrolS2Mk2`, `NiKontrolS5`, `NiKontrolD2`, `NiMaschineJam`, `NiMaschineMikroMk2`, `NiMaschineMk3` | one driver each: its tables, `usb_read_cb`, `light_set`, `light_flush`, feedback, connect, disconnect |
| `NiMaschineMikroMk3`, `SpaceMouse`, `Firmata` | the decoders of these drivers |
| `DriverInput` | hands on a controller, its reports, the driver's decoder, and an application that keeps what it is told |
| `DriverInputProofs` | what each of the twelve decoders can tell, the wheels of the S2, and theorems of `DriverInput` |
| `DriverMemoryProofs` | what each of the twelve decoders remembers: the application's view is the driver's memory |
| `DriverLights` | an application setting lights, the driver's image and flushes, screens, the write limit, and a device that takes the writes |
| `DriverLightsFacts` | lemmas on the nine drivers of `DriverLights`: what each does to its image of the lights |
| `DriverLightsProofs` | inductive invariant and theorems of `DriverLights`, from these lemmas |

### UsbXfer

`live` is the set of allocated `usb_async_t` blocks, `next`, `prev` and `head`
their links as they are in memory, `reads` the blocks whose completion callback is
the one of reads; `xfr` is what libusb thinks of each transfer. `cb` is the block
whose `usb_read_cb` is on the stack: while it is set, only submissions and
the kernel move, and `ReadCbReturns` runs the tail of `xfr_done_generic` with
the links as they are then. `phase` follows `ctlra_dev_disconnect`
("neutral": the driver blanks its lights) through `usb_close` ("drain",
"release", "final", "closed"). `nested` says that the close runs inside a
libusb callback, in which case its `handle_events` calls report nothing.

`fault` records the first memory error and stops the model. A refused submission
(`SubmitRefused`) does what the code does: the interrupt paths free an invalid
pointer, the bulk path frees the block and leaves it linked. The history
variable `failed` separates those executions, because the list properties do not
survive them.

`Transfers` is the contract, and `UsbXfer` implements it (`KeepsPromise`): what
was accepted is told to `usb_read_cb` exactly once, one at a time, and never
after the handles are closed; it is lost only by a failure of the device or by its
closing; either direction has at most `ReadMax` under way. `Way` maps a block to
what libusb holds of it, whether or not it is still well linked, so the
contract is kept by executions with refused submissions too, up to the memory
error that stops them. Between `Tell` and `Told` the driver is on the stack and may
submit again, which the contract lets it do.

Abstractions: payloads, endpoints and sizes are left out; transfers never time
out, since all are submitted without a timeout; `malloc` succeeds; only the
build with asynchronous transfers is modelled. The four error statuses are one.
The application is assumed to leave disconnecting to the library: the public
`ctlra_dev_disconnect` called from inside a callback frees the device under it.
In `usb_close` the interval between two `handle_events` calls is where the drain
loop's condition is evaluated, so any number of callbacks may run per turn.

### Ctlra and CtlraSession

An instance (`inst`) is unborn, linked into `dev_list`, closing (in `usb_close`,
no longer in the list) or freed. `pc` says where the one thread is; libusb
callbacks run only where the code handles events (`pc` "usb" and "close"). The
close of a device inside a hotplug callback cannot report events and is part of
that callback's step. `closing` and `ret` are the return stack of `usb_close`,
`iter` the saved next pointer of `ctlra_exit`. The cable is the environment:
`Plug` and `Unplug` queue hotplug events in order.

Models with a quirk are constants: `LeftQuirk` (the Mikro MK2, disconnected
before the search of the list and without a null check) and `QuirkOf` (a
controller that shows as its hub). `crash` stops the model at a null
dereference, a step through a freed device or a double close that the C library
notices; a double close it does not notice is remembered in `doubleClosed`.

`CtlraSession` is the contract: each instance is offered once, works until it
fails or is removed, is removed once, and only working instances are asked for
feedback. `Ctlra` refines it (`ImplementsSession`): an instance counts as
removed from the moment its remove function has been called.

### MikroMk3Lights

The image of the lights is one value; `images` holds the snapshots in flight,
the first `sent` of which have reached the device. `Report` is the completion
of a flush: the written bytes come back to `usb_read_cb` (its case of 81 bytes)
and are compared with the image. `HasRoom` is the limit of the transfer layer,
shared with the two writes of a screen image. The application is assumed not to
touch lights after its remove function was called; an application that sets
lights from `event_func` can do so during the close (section 3, UsbXferLateEvent).

### The drivers

The drivers differ in tables and in the order of what they do, not in how they
are called, so a driver is a module of operators without variables. Its memory is
a record `m` (`hw` is `hw_values`, `enc` the last encoder positions, ...), and
`ReadCb(m, rep)` gives the memory after a report and the events handed to
`event_func`, in order. Its light memory is a record `l` with the image, an
array of bytes in the order of the struct (ranges that are no bytes of it are
never sent), and the flag `lights_dirty`; `LightSet`, `Blank`
and the feedback operators give the image after the call, `LightFlush` also the
writes it submits, each with its size, its handle and its bytes.

Tables are written as in the code: `ButtonRows` are event id, byte and mask,
`SliderRows` event id and byte, `ButtonItems` the light each button declares, and
`Names` and `Counts` how many names and controls of each type there are. Where
a decoder is a loop over such a table it is `ScanButtons` or `ScanSliders` of
`Controls`; what a driver does differently is spelled out in its module: the
touchstrips of the Jam and the D2, the jog wheels of the S2, the ten passes and the
medians of the Mikro MK2, the dials of the MK3, the two axes sliders of the mouse.

`DriverInput` puts a driver between a controller and an application. `hands` are
the touches tried (one control in all its postures, or two that share a byte
with neighbouring bits), `held` those held now, `owed` those not reported yet;
`knob` is an endless control with its position and the turn not reported yet.
`Report` builds the bytes the hardware sends, as far as the decoder tells them
apart, and hands them to the decoder; `Echo` is a completed write, which the
transfer layer hands to the same decoder. `view` is the application's picture of
the controller, built from events alone: of several events of a control in one
report the last one counts (`KeepAll`).

`Remembered` is the other side of that picture: what each driver keeps of its
controls (`hw_values`, its pads, its strips), as events would tell it. A driver
tells a change when a report differs from what it keeps, so a change that is kept
and not told is never repaired. `ViewIsMemory` says that there is none. Left
out of `Remembered` is what is kept in no memory or on purpose told otherwise: the
D2's strip, told with every report while it is touched; the Jam's strips 4 to 7 and the
buttons they overwrite (`Overwritten`, computed from the two layouts); the
Mk3's pedal, and its strip, whose first position is kept and not told; the mouse's
buttons with a mask other than 1, which a field of one bit cannot keep.

`DriverLights` puts a driver between an application that sets two lamps and a
device that shows them. `bus` are the writes in flight, shared by lights and
screens and limited to `WriteLimit`; what finds no room is dropped, and the driver
is told success. `phase` is that of `ctlra_idle_iter`: events, feedback functions
(which set and flush), redraw. `slow` chooses whether writes may stay in flight
over iterations. Both modules take one driver per behaviour (`driver`), so that
one run covers them all.

Two drivers light something by themselves while they decode a report. A finger on a
strip of the Jam changes that strip's lights, and the next flush sends them
(`StripTouched`, `ni_maschine_jam.c:479-486`). A pad of the Mikro MK2 writes the green
byte of its own lamp, 127 when it is pressed and 0 when it is let go, whatever the
application set there, and flushes at once (`PadTouched`,
`ni_maschine_mikro_mk2.c:318-336`). `held` are the pads the driver takes for pressed
and `overruled` the lamps written over like that, until `light_set` or disconnect
writes them again. Both touches happen in the event phase and, like reads in
`UsbXferLateEvent`, while `usb_close` waits for its writes, after disconnect has made
everything dark (`usb.c:850-854`). A touch stands for the reports that cause it:
ten passes with a median above 550 or below 100 for a pad. What
the application does in answer to events is not in this model: it sets lights in its
feedback function only, and none while the device is closed. The Z1's meters are
lights like others (`Metered`): setting one asks seven lamps for a value. The
compile-time options that light pads in the decoders of the Mk3 and the Jam are off
(`ni_maschine_mk3.c:45`, `ni_maschine_jam.c:567`) and not modelled.

Faults of the drivers that would hide everything else are named, each in one
definition, and left out by it: `KnownFault` (controls whose events are known to
be wrong), `Undeclared` (ids outside the counts of `info`), `Nameless` (ids without a
name), `Misdeclared`
(lights that `info` declares and `light_set` refuses), `Unsent` (lights no report
carries) and `LeftLit` (lights disconnect leaves on). They are lists of concrete
controls: one that joins them is found by the runs. The Jam's strips are shown by
a run of their own (`DriverInputJam`).

## 3. What is checked

| run | question | result |
|---|---|---|
| `UsbXferSafe` | list, counters, heap and cancel walk under re-entrancy and refusals; the contract of `Transfers` | holds |
| `UsbXferLive` | finished transfers are reported; closing ends | holds |
| `UsbXferLateEvent` | no input is decoded after the remove function | violated: the drain of `usb_close` reports reads |
| `UsbXferBulkRefused` | no node of the list is its own successor (`usb.c:55`) | violated: a refused bulk write leaves a freed block linked |
| `CtlraSafe` | lists, banishing, exit, the contract | holds |
| `CtlraLive` | instances follow the cable | holds |
| `CtlraErrorBanish` | banished devices are disconnected (`ctlra.c:553`) | violated: I/O errors do not put a device on the list |
| `CtlraDoubleClose` | the hotplug callback closes its handle once (`usb.c:226`) | violated: twice when nothing was accepted |
| `MikroMk3Lights` | no change of lights is lost; dark after a drained close | holds |
| `DriverInput` | the application's view of every control of twelve controllers is the hardware's, and at every moment what the driver remembers; events are changes, declared, named; turns are told once with their direction | holds, but for the controls listed in `KnownFault`, `Undeclared` and `Nameless` |
| `DriverInputJam` | touchstrips have slots of their own (`ni_maschine_jam.c:339`) | violated: strips 4 to 7 overwrite the last values of buttons, and a report tells buttons nobody touched |
| `DriverLights` | what was asked is shown, dark after disconnect, writes go to open handles, drops are repaired | holds, but for the lights listed in `Unsent` and `LeftLit`, and for the green byte of a pad of the Mikro MK2 touched since its lamp was written, which shows the touch |

Bounds. `UsbXferSafe` has three blocks with `ReadMax` = 2, so that a submission can
meet the limit in one direction while the other has room, a block can sit in the
middle of the list, and a freed block is reused; `DrainMax` = 1 lets the drain
loop both repeat and give up. The liveness run has two blocks. `CtlraSafe` has two
plugged-in units, one further plug, one serial and one virtual device, which is
enough for two instances closing at once, a stale exit cursor and a device
arriving during exit; `CtlraLive` allows two plugs and any number of pulls.
The units of `CtlraSafe` may also fail to open (`OpenFails`, claimed by another
program). `MaxPlugs` bounds only what the environment does. `MikroMk3Lights` has three
images and a limit of four (ten in the code): two screen writes leave room for
two snapshots.

`DriverInput` has no counters: its state is finite because a behaviour touches
one control, or two whose bits are next to one another, or turns one encoder.
Controls meet in a shared byte, in `hw_values` and in the order of events. Pairs of
neighbours are what a wrong mask or offset confuses; a wrong slot of `hw_values`
shows with one hand, because the next report tells events of controls nobody
touched (this is how `DriverInputJam` ends). An encoder makes one step between two
reports, the most `encoder_wrap_16` can tell: two steps are told as one. The
wheels of the S2 move 1 or 50 positions a step and the dials of the D2 and the
MK3 50, in rings of 1024 and 1000, so that every quadrant is crossed and every
wrap taken in both directions.

`DriverLights` has every pair of neighbouring
lights on a fast bus, and one pair that lies in two reports on a slow one (the first pad on the Mikro
MK2, which can overrule it); the
write limit is 5 (`CTLRA_ASYNC_READ_MAX` is 10), which
takes one flush of any driver and drops part of the next one while the bus is
slow: the Jam, with four reports a flush, meets it at the second flush, and at the
third in the code. Two settings (`MaxSets`) turn a light on and off or both lights on;
one other change (`MaxExtras`) is a meter, a digit display or a strip. Two touches of
a pad (`MaxTouches`) press and release one, or press two, and either may
fall before or after the setting of its lamp, the flush, and disconnect. `Touchable` are
the first pad, which is a lamp on the slow bus too, and the last one, at the end of the
image; of the Jam's strips, the first.

Deadlock is checked in `DriverInput`, where a controller reports for ever, and not in
the others: a closed device, a context after exit and a stopped
(crashed) model have no next step by design.

Fairness. `UsbXfer`: the close sequence and the callbacks run (one thread that
does not block), an application calls `ctlra_idle_iter` for ever, and the kernel
returns finished transfers in the order they finished, hence strong fairness of
the report of each block; strong fairness of the loop steps of `usb_close`
because callbacks can run between them only finitely long. Nothing is assumed of
the device: a write may stay unanswered for ever. `Ctlra`: library steps and the
application's idle calls are weakly fair, delivery of a queued hotplug event is
strongly fair; plugging, failing and exiting are never assumed.
`MikroMk3Lights`: the application flushes again and again, the device accepts
what it is sent, completions are reported.

`DriverLights`: an application calls `ctlra_idle_iter` for ever (weak fairness of its
phases), and the device takes its writes one after the other: strong fairness of
`Complete`, because with a slow bus it runs only in the event phase.
`FirstReportShown` needs no more; that the later reports of a flush are shown
(`AllShownWhenCaughtUp`) is conditional on the device catching up again and
again, since with a bus that stays full they can be dropped every time.

Properties that several actors have to cooperate to break, and where:
`ListIsOutstanding` (a callback that submits while its own block is being
unlinked), `CancelsCovered` (error racing a cancel), `ReleaseReachesAll` (the walk
against everything that happened before), `ListsHoldAlive` (hotplug under the
close of another device), `NotLost` (a flush dropped at the limit clears the
flag; only the comparison of an earlier report repairs it), `ViewIsHardware`
(two touches and releases between two reports, with echoes of writes in
between), `FirstReportShown` (flushes dropped behind screen writes),
`LightsShown` (one light written over by its neighbour, by a meter, or by a pad other
than its own), `DarkAfterClose` (an image queued behind the dark one).

`LightsShown` and `DarkAfterClose` do not say that a lamp is as the application
wants it, because the Mikro MK2 does not keep to that. They say what a lamp is *due* to show
(`Due`): as it was last asked for, zero once the device is closed, but for one byte, the green
of a pad touched since (`ByPad`), which tells whether the pad is pressed. The device itself
breaks the plainer statements in two ways. A pad set to white loses its green
when it is pressed and let go (white is three bytes, the release clears the second),
and stays so through every flush until the application sets it anew. And a
pad pressed while `usb_close` waits is lit by an image behind the dark one, is waited
for and arrives: the pad stays lit on a device that is let go of, without the warning
of `usb.c:857-861`, which is only printed when writes are left over. No text of the
repository claims otherwise for this driver, so both are listed as hazards and not as findings.

## 4. What is proved

With TLAPS, for every number of blocks and all limits (`BlocksAssumption`,
`BoundsAssumption`), from `UsbXfer!Spec`:

* `TypeCorrect`, `CountersCorrect`, `NoEarlyFree`, `CancelCounter`,
  `ListCorrect`, `ReleaseComplete`, `MemorySafe`, `PromiseKept`.

The inductive invariant has, beside the types, three parts. The books: every
counter is the cardinality of a set of blocks, which is what keeps a decrement
from going below zero. The shape of the list: that links agree in both directions
is not inductive, because it does not exclude a ring the head never reaches;
the proof gives every block a position, 0 for the head and one more with every
link, as a witness, and shows how `Insert` and `Unlink` change it
(`InsertShape`, `UnlinkShape`). The walk: no block at a position before the cursor
of `xfer_release` is still submitted. Positions are below the number of blocks, at
most twice `ReadMax`, so the assumption `WalkMax >= 2 * ReadMax` (10000 against
20 in the code) makes the loop's own bound harmless. The set of
blocks a walk from the head meets (`Reached`) is the smallest one that has the head
and follows the links. `ListCorrect` proves that it is the outstanding transfers:
they follow the links, and any smaller set that did would miss a block of
lowest position, whose predecessor it has (`LowestBlock`). `MemorySafe` is
`NoMemoryFault` for every instance.

`PromiseKept` is the refinement, `Spec => KeepsPromise`. The books of the
inductive invariant give the limits: a submission that found room by the counter
found it by the number of blocks (`AcceptStep`). Two more invariants are needed,
because the contract speaks of telling and of closing: `Quiet`, that no driver is
being told when the handles are closed, and `Closing`, that a transfer is
cancelled only while the device is being closed, so that losing it is no failure.
Each action is then a step of the contract or a stutter, one lemma for
each kind (`TellStep`, `ToldStep`, `CancelledStep`, `ErrorStep`, ...). A refused
submission is a stutter (`RefusedStep`).

From `MikroMk3Lights!Spec`, for any images and any limit above two: `TypeCorrect`,
`NoLightLost`, `DarkAtClose`. The invariant says that what the device shows is
the last snapshot that reached it, that connect's two screen writes are all the
screen ever takes of the limit while the device is open, and that a dark image
queued by disconnect is the last one of the queue. `NotLost` follows because a
flush can only be dropped with a snapshot in flight, whose report is still to come.

From `Ctlra!Spec`, for any finite sets of models, units and drivers, any quirks and
any number of plugs (`FiniteAssumption`, `PlugsAssumption`): `TypeCorrect`,
`ListsCorrect`, `BanishedGone`, `ExitComplete`. The parts of the invariant:

* `LifeInv`: the remove function of an instance has been called once exactly if
  it is unlinked.
* `ControlInv`: where the thread can be and what is on its stack there. The four
  properties speak of `pc`; without this they are not inductive.
* `ListsHoldAlive`, and `Sorted(devList)`: devices are appended with growing numbers
  and only unlinked, so the successor of a device has a larger number.
* `BanInv`: `banished_list` is empty outside the update and drain of one iteration.
* `WalkInv`: what was connected when `ctlra_exit` began and still is lies at or
  behind the cursor, and the cursor is never a device in `usb_close`. It needs
  the list to be sorted: a LEFT under the close may free the cursor, which is the
  crash of the model, but cannot put a device behind the walk.
* `BudgetInv`: the instances still to come, from the probe and from the ARRIVED
  events in the queue, are within the numbers `MaxInst` has. So the bound of the model
  never cuts a behaviour.

In `Ctlra` and the drivers lists are selected with `Only` of `Lists` (the places of a
set, counted), which is checked to be the library's `SelectSeq` by an assumption of `MCCtlra`;
`SelectSeq` itself is recursive and could not be reasoned about.

`SessionKept` is the refinement, `Spec => ImplementsSession`. `Standing` maps
an instance to what the application knows of it. `StandingIsFunction` and
`StandsStill` say what it does where nothing happens; the four step lemmas
(`FeedStep`, `OfferStep`, `FailStep`, `RemoveStep`) say which change of instances
is which step of the contract, and each group of actions is one of those or a
stutter.

From `DriverLights!Spec`, for any set of the nine drivers, any limit on writes and any
number of settings, touches and meters, of any pads and strips (`LightsAssumption`;
nothing is assumed of the tables of the drivers): `TypeCorrect`, `HandlesCorrect`, `LightsCorrect` and
`DarkCorrect`. The runs set two lamps of a controller; `AnyLampsCorrect`
proves the four properties for every set of lamps. The argument has two halves.

* `DriverLightsFacts` reads the drivers. For each of them it names the bytes of the
  image a light takes (`Spots`), and proves that `light_set` writes those and no
  others, and what it writes does not depend on what was there (`LightSetShape`); that the bytes of two lights have none in common
  (`SpotsApart`); that a flush changes no light of the image and sends every one,
  to a handle that is open, if it sends anything (`FlushShape`, `HandlesOpened`);
  that disconnect clears them all but those of `LeftLit` (`BlankShape`); and what
  meters, touches, connect and the screens do. Each fact is proved driver by
  driver and then stated once for all of them, with the driver as a parameter.
* `DriverLightsProofs` uses those facts and nothing else of the drivers. What the
  device shows now does not follow from the image, because writes are in flight
  and the newest may be refused. So the invariant says of the queue what the device
  *will* show at a byte (`Settles`): the byte in the last write that has it, or
  what it shows now if none has. `WholeInv`: after a flush that was taken as a whole
  every byte of a lamp settles to the image; the flushes of disconnect and of a pad
  touched after it count like any other. `ImageInv`: the image has every lamp as it is due
  (`Due`); `light_set`, a meter, a pad and disconnect change both sides at the same
  bytes, and the rest is kept because lamps have no bytes in common. It is what would
  fail if one light reached into its neighbour, or a pad into the red or blue of
  its lamp. After the close it leaves out the lights of `LeftLit`. When no lights are
  in flight, what is shown is what it settles to, and `LightsShown` and
  `DarkAfterClose` follow.

From `DriverInput!Spec`, for any set of drivers and of hands, and whatever the
hardware reports: `DeclaredCorrect` and `NamedCorrect`. They rest on
`AnyReportTellable`, which is about the decoders alone: for any bytes of a
report, of any size, and any contents of the driver's memory, the events are about
controls in `Tellable`, a set read off the driver's tables. No assumption is made
of either, so that no id can be made up from what a device sends. Each decoder is
a lemma of its own (`F1Tells` to `BoardTells`). A scan of a table
tells the rows of those places that moved, which `Only` selects
(`MovedIsPlaces`); what the drivers do beside scans (encoders, jog
wheels, strips, dials, pads) is spelled out in each lemma, and lists of events that
follow each other tell what each tells (`TellsBoth`). `TellableKnown`
then compares `Tellable` with `Counts` and `Names`, and `AnyReportKnown` joins
the two. The invariant of `Spec` is only that the events told last came from the
decoder (`ToldTellable`).

`OneStepTold` is about the stepped encoders of all drivers: in a row of any number of
them, one that has moved by a detent is told as one step in the direction it went,
from every position and across the wrap both ways (`WrapDirection`), and a row
at rest tells nothing. It is the step `TurnTold` rests on.

`ViewMemoryCorrect` (in `DriverMemoryProofs`) proves `ViewIsMemory`;
`AnyReportKept` is the part of it that needs no hardware: for any bytes of a report
and any values in the driver's memory, a view that agreed with what was
remembered agrees, after the events, with what is remembered then. All that is
asked of the memory is that its arrays have the places that connect allocates
(`Shaped`), which every decoder keeps. The argument is about lists of events:

* `Updates` says what a list of events makes of one control: the last event about it
  is what is remembered now, or none is about it and it is remembered as
  before. An application that keeps what it is told then has what is
  remembered (`KeptIsUpdated`); `Hears` says so of all controls of a driver.
* Lists that speak of different controls can follow one another, and a control that is
  told twice counts by its last event.
* A loop over a table of buttons, sliders or pads updates the controls of its
  rows and leaves other places of `hw_values` alone. Here the layout
  of `hw_values` enters: that tables of one driver share no place is false of the
  Jam's strips 4 to 7, and true of all that is not in `Overwritten`.
* Each driver has a lemma that puts its loops together in the order of the code.

`WheelCorrect` proves `WheelNear`: what is told of a wheel of the S2 follows the
wheel, never ahead of it and never four steps behind. The driver takes a quadrant
of 256 positions for one of 255, so with every quadrant a step is lost, and
around the circle of four it is made good. `JogDrift` says so of one report, from any
position and across every wrap: told and turned differ by the quadrants
passed. `WheelNear` is not inductive, since the drift could be at its end
while the quadrant is not. The invariant is `WheelFollowed`: the drift *is* the quadrant
the driver has the wheel in, negated, and the byte it remembers is the wheel's
position without the turn not reported yet. It needs to know what a report shows
of a wheel (`WheelReport`): with nothing else held, the fold that builds
a report is over one byte or none, which is as far as the provers can follow it.

The first attempt at the proof of `EventsNamed` failed, and rightly: the runs
touch the controls that `Touches` lists, and the decoders have code for two ids
beyond them that have no name. The pedal of the Mk3 is told as button 72 and its
names end at 71. The loop over the encoders of the S2
(`ni_kontrol_s2_mk2.c:525`) makes nine passes and skips the two wheels, which are
among the nine: the last two passes tell encoders 9 and 10, which `info` does not
have; 10 is the low half of the crossfader. They are in `Nameless` and
`Undeclared` now.

Only model-checked:

* `ViewIsHardware` of `DriverInput`, that the view is the hardware's. Its second
  half, from the memory to the view, is `ViewMemoryCorrect`; its first half is what a report
  shows of any number of touches, a sum over a set, and induction over data is out
  of the provers' reach. The same holds of the type invariant of `DriverInput` (a slider's
  range is that of such sums), of `TurnTold`, which is proved for one row of
  encoders (`OneStepTold`), and of `EventsAreChanges`, which asks that no other control
  is told than those touched. The constants of `DriverInput` are only the set of
  drivers and the switch for known faults, and the run has all drivers: of the model
  it leaves out nothing but those faults.
* `FirstReportShown` and `AllShownWhenCaughtUp`, that lights are shown in the end, and
  everything else about liveness, which is out of the prover's reach, as is ENABLED.

## 5. Not modelled, and the plan

Left out for good:

* Cairo pixel formats, event names, logging, statistics counters, the synchronous
  build: no control state of the library.
* AVTKA: a window of a GUI toolkit that is no part of the repository; `Ctlra` has
  it as the virtual instance of a probe.
* MIDI: translation without state, by drivers no application can reach.
* Screens as pixels. A redraw is the number of writes it submits and their handle;
  which rectangle they carry is arithmetic on one call's arguments.
* Pressures and velocities of pads: reported along with presses, kept nowhere a
  later report depends on, but for the medians of the Mikro MK2, which are
  modelled.
* Vendor and device queries and the registration table: they change nothing at
  run time.
* Examples and scripts: clients. What a client may do is the environment.

Not modelled yet:

* A connect that fails half way (two-interface controllers, handles left open).
* Several contexts: hotplug callbacks are never deregistered.
* The interval between redraws: `Redraw` may or may not find it is time.
* Input and lights in one model: a Jam's strip or a Mikro MK2's pad changes lights
  from inside the decoder, which `DriverLights` has as actions (`StripTouched`,
  `PadTouched`) without the reports that cause them. An application that sets lights
  from its `event_func`, in the event phase or during a close, is left out there too.

What would come next is connecting, composed with `Ctlra`: the hazards that no
property watches yet (`PROJECT.json`) lie there, and in several contexts at once.
