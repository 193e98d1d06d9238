----------------------------- MODULE DriverInput -----------------------------
(***************************************************************************)
(* Hands on a controller, the controller's reports, the decoder of its     *)
(* driver and the application that keeps what it was told.                 *)
(*                                                                         *)
(* The drivers differ in their tables and decoders (the Ni... modules and  *)
(* SpaceMouse, Firmata); the device, the bus and the application are the   *)
(* same for all. Completed writes come back to the decoder as well: the    *)
(* transfer layer hands it every completed transfer (usb.c:442).           *)
(***************************************************************************)
EXTENDS Controls

CONSTANTS Drivers,   \* the drivers in play
          Faulty     \* whether controls with known faults are touched too

F1 == INSTANCE NiKontrolF1
Z1 == INSTANCE NiKontrolZ1
X1 == INSTANCE NiKontrolX1Mk2
S2 == INSTANCE NiKontrolS2Mk2
S5 == INSTANCE NiKontrolS5
D2 == INSTANCE NiKontrolD2
Jam == INSTANCE NiMaschineJam
Mikro2 == INSTANCE NiMaschineMikroMk2
Mikro3 == INSTANCE NiMaschineMikroMk3
Mk3 == INSTANCE NiMaschineMk3
Mouse == INSTANCE SpaceMouse
Board == INSTANCE Firmata

AllDrivers ==
  {"f1", "z1", "x1", "s2", "s5", "d2", "jam", "mikro2", "mikro3", "mk3", "mouse",
   "firmata"}
ASSUME DriversAssumption == Drivers \subseteq AllDrivers /\ Faulty \in BOOLEAN

-----------------------------------------------------------------------------
(***************************************************************************)
(* The drivers                                                             *)
(***************************************************************************)

About(sizes, memory0, touches, sticky, knobs, counts, names, writes) ==
  [sizes |-> sizes, memory0 |-> memory0, touches |-> touches, sticky |-> sticky,
   knobs |-> knobs, counts |-> counts, names |-> names,
   echoes |-> {writes[i].size : i \in DOMAIN writes}]

\* The Mikro Mk3's writes are those of MikroMk3Lights: lights and screen.
Driver ==
  [f1     |-> About(F1!Sizes, F1!Memory0, F1!Touches, F1!Sticky, F1!Knobs, F1!Counts, F1!Names,
                    F1!LightFlush(F1!Lights0, TRUE).writes),
   z1     |-> About(Z1!Sizes, Z1!Memory0, Z1!Touches, Z1!Sticky, Z1!Knobs, Z1!Counts, Z1!Names,
                    Z1!LightFlush(Z1!Lights0, TRUE).writes),
   x1     |-> About(X1!Sizes, X1!Memory0, X1!Touches, X1!Sticky, X1!Knobs, X1!Counts, X1!Names,
                    X1!LightFlush(X1!Lights0, TRUE).writes),
   s2     |-> About(S2!Sizes, S2!Memory0, S2!Touches, S2!Sticky, S2!Knobs, S2!Counts, S2!Names,
                    S2!LightFlush(S2!Lights0, TRUE).writes),
   s5     |-> About(S5!Sizes, S5!Memory0, {}, {}, {}, S5!Counts, S5!Names,
                    S5!LightFlush(S5!Lights0, TRUE).writes),
   d2     |-> About(D2!Sizes, D2!Memory0, D2!Touches, D2!Sticky, D2!Knobs, D2!Counts, D2!Names,
                    D2!LightFlush(D2!Lights0, TRUE).writes),
   jam    |-> About(Jam!Sizes, Jam!Memory0, Jam!Touches, Jam!Sticky, Jam!Knobs, Jam!Counts, Jam!Names,
                    Jam!LightFlush(Jam!Lights0, TRUE).writes),
   mikro2 |-> About(Mikro2!Sizes, Mikro2!Memory0, Mikro2!Touches, Mikro2!Sticky, Mikro2!Knobs,
                    Mikro2!Counts, Mikro2!Names,
                    Mikro2!LightFlush(Mikro2!Lights0, TRUE).writes),
   mikro3 |-> About(Mikro3!Sizes, Mikro3!Memory0, Mikro3!Touches, Mikro3!Sticky, Mikro3!Knobs,
                    Mikro3!Counts, Mikro3!Names,
                    <<[size |-> 81], [size |-> 265]>>),
   mk3    |-> About(Mk3!Sizes, Mk3!Memory0, Mk3!Touches, Mk3!Sticky, Mk3!Knobs, Mk3!Counts, Mk3!Names,
                    Mk3!LightFlush(Mk3!Lights0, TRUE).writes),
   mouse  |-> About(Mouse!Sizes, Mouse!Memory0, Mouse!Touches, Mouse!Sticky, Mouse!Knobs,
                    Mouse!Counts, Mouse!Names,
                    Mouse!LightFlush(TRUE)),
   firmata |-> About(Board!Sizes, Board!Memory0, Board!Touches, Board!Sticky, Board!Knobs,
                     Board!Counts, Board!Names, Board!LightFlush(TRUE))]

\* Every control that info declares has a name, but for the Mk3's screens
\* and the slider of a Firmata board.
ASSUME ControlsAreNamed ==
  \A d \in Drivers, t \in {"button", "slider", "encoder", "feedback"} :
    Driver[d].counts[t] <= Driver[d].names[t] \/ <<d, t>> \in {<<"mk3", "feedback">>, <<"firmata", "slider">>}

\* dev->usb_read_cb
UsbReadCb(d, m, rep) ==
  CASE d = "f1"     -> F1!ReadCb(m, rep)
    [] d = "z1"     -> Z1!ReadCb(m, rep)
    [] d = "x1"     -> X1!ReadCb(m, rep)
    [] d = "s2"     -> S2!ReadCb(m, rep)
    [] d = "s5"     -> S5!ReadCb(m, rep)
    [] d = "d2"     -> D2!ReadCb(m, rep)
    [] d = "jam"    -> Jam!ReadCb(m, rep)
    [] d = "mikro2" -> Mikro2!ReadCb(m, rep)
    [] d = "mikro3" -> Mikro3!ReadCb(m, rep)
    [] d = "mk3"    -> Mk3!ReadCb(m, rep)
    [] d = "mouse"  -> Mouse!ReadCb(m, rep)
    [] d = "firmata" -> Board!ReadCb(m, rep)

(***************************************************************************)
(* The device (external)                                                   *)
(***************************************************************************)

ReportShown(d, size, hands, before, held) ==
  CASE d = "mikro3" -> Mikro3!ReportShown(size, hands, before, held)
    [] d = "mk3"    -> Mk3!ReportShown(size, hands, before, held)
    [] OTHER        -> Shown(size, held)
Shows(d, size) == IF d = "mikro3" THEN Mikro3!Shows(size) ELSE {size}

Key(e) == <<e.type, e.id, e.pos>>
Keys(touches) == UNION {{Key(e) : e \in t.evs} : t \in touches}

\* Controls the drivers are known to misreport: the Jam's strips 4 to 7, whose
\* memory is that of buttons; the Mk3's pedal and the mouse's buttons with a
\* mask other than 1, which get lost in a field of one bit; the mouse's axes,
\* whose return to rest is told for one direction only.
KnownFault(d, t) ==
  \/ d = "jam" /\ t.size = 49 /\ \E i \in 4..7 : Slider(i, 1023) \in t.evs \/ Slider(i, 300) \in t.evs
  \/ d = "mk3" /\ t.evs = {Button(72, 1)}
  \/ d = "mouse" /\ t.size = 7 /\ \E p \in t.bytes : p[2] # 1
  \/ d = "mouse" /\ t.size = 13 /\ \E e \in t.evs : e.id % 2 = 0

Touchable(d) == {t \in Driver[d].touches : Faulty \/ ~KnownFault(d, t)}

\* Two postures of one control, or of two that are next to one another in a byte.
Neighbours(t, u) ==
  /\ t.size = u.size
  /\ \/ Keys({t}) = Keys({u})
     \/ \E p \in t.bytes, q \in u.bytes : p[1] = q[1] /\ p[2] = 2 * q[2]

HandsOn(d) ==
  {{t} : t \in Touchable(d)}
  \cup {{p[1], p[2]} : p \in {q \in Touchable(d) \X Touchable(d) :
                               q[1] # q[2] /\ Neighbours(q[1], q[2])}}

-----------------------------------------------------------------------------
VARIABLES
  driver, hands,   \* the controller and the touches tried on it
  knob,            \* the endless control tried, its position, its unreported turn
  held, before,    \* the touches held, and those held at the report before
  owed,            \* touches that began or ended since they were last reported
  mem,             \* the memory of the driver
  view,            \* the application's view: what is pressed, and where sliders are
  told             \* the events of the last report

vars == <<driver, hands, knob, held, before, owed, mem, view, told>>

\* The wheels of the S2 and the dials without detents.
IsWheel(k) == k.ring = 1024
IsDial(k) == k.ring = 1000

\* Drivers that take the first position for the start of a turn may be plugged in
\* at any; a turn before it is told by none. So it is with the Mk3's strip.
Waiting == {"mikro3", "mk3"}
Starts(d, k) == IF d \in Waiting THEN {0, k.ring \div 2} ELSE {0}

Still == [knobs |-> {}, at |-> 0, turn |-> 0, drift |-> 0]
Init ==
  /\ driver \in Drivers
  /\ \/ hands \in HandsOn(driver) /\ knob = Still
     \/ \E k \in Driver[driver].knobs :
          /\ hands = {}
          /\ \E p \in Starts(driver, k) : knob = [Still EXCEPT !.knobs = {k}, !.at = p]
     \/ Driver[driver].touches = {} /\ hands = {} /\ knob = Still
  /\ held = {} /\ before = {} /\ owed = {}
  /\ mem = Driver[driver].memory0
  /\ view = {} /\ told = <<>>

-----------------------------------------------------------------------------
Touch_(t) ==
  /\ t \in hands \ held
  /\ Keys({t}) \cap Keys(held) = {}
  /\ driver = "mk3" /\ Key(Slider(0, 0)) \in Keys({t}) => mem.known
  /\ held' = held \cup {t} /\ owed' = owed \cup {t} /\ told' = <<>>
  /\ UNCHANGED <<driver, hands, knob, before, mem, view>>

Release(t) ==
  /\ t \in held
  /\ held' = held \ {t} /\ owed' = owed \cup {t} /\ told' = <<>>
  /\ UNCHANGED <<driver, hands, knob, before, mem, view>>

\* From one posture of a control to another.
Slide(t, u) ==
  /\ t \in held /\ u \in hands \ held /\ Keys({t}) = Keys({u})
  /\ held' = (held \ {t}) \cup {u} /\ owed' = owed \cup {t, u} /\ told' = <<>>
  /\ UNCHANGED <<driver, hands, knob, before, mem, view>>

\* One step between two reports.
Turn(k, by) ==
  /\ knob.turn = 0
  /\ driver \in Waiting => mem.known
  /\ knob' = [knob EXCEPT !.at = (@ + by) % k.ring, !.turn = by]
  /\ told' = <<>>
  /\ UNCHANGED <<driver, hands, held, before, owed, mem, view>>

\* What the application keeps of an event. Some drivers tell a square by the bit
\* it was masked with.
Normal(e) == IF e.type = "grid" THEN Grid(e.id, e.pos, Pressed(e.val)) ELSE e

\* Of several events of a control the last one counts.
KeepAll(v, evs) ==
  LET kept == {i \in DOMAIN evs : evs[i].type # "encoder"}
      last == {i \in kept : \A j \in kept : Key(evs[j]) = Key(evs[i]) => j <= i}
  IN {x \in v : \A i \in kept : Key(evs[i]) # Key(x)}
     \cup {x \in {Normal(evs[i]) : i \in last} : x.val # 0}

\* The S2 has two stepped encoders fewer than its decoder reads: the last one it
\* reads is the low half of the crossfader.
Phantom(e) == driver = "s2" /\ e.id = 10
Turned(evs) == Only(evs, {e \in Range(evs) : e.type = "encoder" /\ (Faulty \/ ~Phantom(e))})
SumOf(evs) == MapThenSumSet(LAMBDA i : evs[i].val, DOMAIN evs)

Hear(rep) ==
  LET r == UsbReadCb(driver, mem, rep)
  IN mem' = r.m /\ told' = r.ev /\ view' = KeepAll(view, r.ev)

\* The report of a size, with everything it shows.
Report(size) ==
  LET now == {TouchOf(k.size, KnobBytes(k, knob.at), {}) : k \in knob.knobs}
      seen == \E k \in knob.knobs : k.size \in Shows(driver, size)
  IN /\ Hear(ReportShown(driver, size, hands, before, held \cup now))
     /\ owed' = {t \in owed : t.size \notin Shows(driver, size)}
     /\ before' = IF 128 \in Shows(driver, size) THEN held ELSE before
     /\ knob' = IF seen
                THEN [knob EXCEPT !.turn = 0,
                        !.drift = IF \E k \in knob.knobs : IsWheel(k)
                                  THEN @ + SumOf(Turned(told')) - knob.turn ELSE 0]
                ELSE knob
     /\ UNCHANGED <<driver, hands, held>>

\* A completed write, whatever its bytes.
Echo(size) ==
  /\ Hear([size |-> size, b |-> [o \in 0..(size - 1) |-> 255]])
  /\ UNCHANGED <<driver, hands, knob, held, before, owed>>

Next ==
  \/ \E t \in hands : Touch_(t) \/ Release(t) \/ \E u \in hands : Slide(t, u)
  \/ \E k \in knob.knobs, by \in UNION {j.steps : j \in knob.knobs} : Turn(k, by) \/ Turn(k, -by)
  \/ \E size \in Driver[driver].sizes : Report(size)
  \/ \E size \in Driver[driver].echoes : Echo(size)

Spec == Init /\ [][Next]_vars

-----------------------------------------------------------------------------
(***************************************************************************)
(* Properties                                                              *)
(***************************************************************************)

\* Buttons and squares told are pressed or not, sliders are in their range, and
\* encoders tell no more than a turn.
TypeOK ==
  \A i \in DOMAIN told :
    LET e == told[i] IN
    /\ e.id \in 0..100 /\ e.pos \in 0..63
    /\ e.type = "button" => e.val \in {0, 1}
    /\ e.type = "slider" => e.val \in 0..32767
    /\ e.type = "encoder" => e.val \in -1000..1000

\* With every touch reported the application sees the controller as it is: what
\* is held is pressed or in its position, and nothing else is. A strip keeps the
\* position it was left in.
ViewIsHardware ==
  owed = {} =>
    LET truth == {Normal(e) : e \in UNION {t.evs : t \in held}}
        sticky(e) == <<e.type, e.id>> \in Driver[driver].sticky
    IN /\ truth \subseteq view
       /\ \A e \in view \ truth : sticky(e)

Sliders(n, base, hw) == {Slider(i, hw[base + i]) : i \in 0..(n - 1)}
Buttons(n, base, hw) == {Button(i, Pressed(hw[base + i])) : i \in 0..(n - 1)}
Pads(n, base, hw) == {Grid(0, i, Pressed(hw[base + i])) : i \in 0..(n - 1)}

\* The buttons of the Jam that the strips 4 to 7 overwrite.
Overwritten == {i \in 0..53 : \E s \in 4..7, k \in 0..2 : Jam!StripSlot(s) + k = Jam!ButtonBase + i}

\* What the drivers remember of their controls, as events would tell it. Left out
\* is what is told of no memory or apart from it: the D2's strip is told with every
\* report; of the Jam the buttons that the strips 4 to 7 overwrite, and these
\* strips; the Mk3's pedal and the mouse's buttons with a mask other than 1; the
\* Mk3's strip, whose first position is remembered and not told. Of the sliders of
\* an axis the memory says one, in the direction it was moved.
Remembered(d, m) ==
  CASE d = "f1" -> Sliders(8, 0, m.hw) \cup Buttons(13, 8, m.hw) \cup Pads(16, 21, m.hw)
    [] d = "z1" -> Sliders(14, 0, m.hw) \cup Buttons(5, 14, m.hw)
    [] d = "x1" -> Sliders(8, 0, m.hw) \cup Buttons(37, 8, m.hw) \cup {Slider(8, m.strip)}
    [] d = "s2" -> Sliders(23, 0, m.hw) \cup Buttons(51, 23, m.hw)
    [] d = "s5" -> {}
    [] d = "d2" -> Sliders(8, 4, m.hw) \cup Buttons(58, 12, m.hw)
                   \cup {Button(D2!TouchButton, m.touch)}
    [] d = "jam" -> {Slider(i, m.hw[Jam!StripSlot(i) + 1]) : i \in 0..3} \cup Pads(64, 0, m.grid)
                    \cup {Button(i, Pressed(m.hw[Jam!ButtonBase + i])) : i \in 0..53 \ Overwritten}
    [] d = "mikro2" -> Buttons(29, 0, m.hw) \cup Pads(16, 0, m.pads)
    [] d = "mikro3" -> Buttons(39, 0, m.hw) \cup {Slider(0, m.strip)}
                       \cup {Grid(0, Mikro3!PadPosition(i), Pressed(m.hit[i])) : i \in 0..15}
    [] d = "mk3" -> Buttons(72, 0, m.hw) \cup Pads(16, 0, m.hit)
    [] d = "mouse" -> {Mouse!AxisEvent(i, m.hw[i]) : i \in 0..5}
                      \cup {Button(i, Pressed(m.buttons[i])) : i \in {0, 3, 9}}
    [] d = "firmata" -> {Button(0, m.hw[0])}

\* What the application sees of a control is what its driver remembers of it. A
\* change that is remembered and not told, or told otherwise, would never be
\* repaired: the driver compares the next report with its memory and keeps quiet.
ViewIsMemory ==
  \A e \in Remembered(driver, mem) :
    {x \in view : Key(x) = Key(e)} = IF e.val = 0 THEN {} ELSE {e}

\* Every event is news and about something touched: no event for a control that
\* was left alone, none that repeats the last one of its control, and none for
\* the completion of a write. The D2 repeats the position of its touched strip.
EventsAreChanges ==
  [][\A i \in DOMAIN told' :
       told'[i].type # "encoder" =>
         LET v == KeepAll(view, SubSeq(told', 1, i - 1))
             strip == driver = "d2" /\ Key(told'[i]) = Key(Slider(D2!StripSlider, 0))
         IN /\ Key(told'[i]) \in Keys(hands)
            /\ strip \/ KeepAll(v, <<told'[i]>>) # v]_vars

\* Events whose ids are outside the counts of the driver's info: encoders of
\* drivers that declare none, footswitches, a pedal, an id shifted past its
\* count, the S2's two encoders that are none, and all of the mouse.
Undeclared ==
  {<<"f1", "encoder", 0>>, <<"jam", "encoder", 0>>, <<"jam", "button", 53>>,
   <<"mikro2", "encoder", 29>>, <<"mk3", "button", 72>>, <<"s2", "encoder", 9>>,
   <<"s2", "encoder", 10>>, <<"firmata", "button", 0>>}
  \cup {<<"x1", "encoder", i>> : i \in 0..2}
  \cup {<<"mouse", "button", i>> : i \in 0..14} \cup {<<"mouse", "slider", i>> : i \in 0..11}

\* An application that sizes its tables by ctlra_dev_get_info can index them with
\* the id of any event, but for the ones listed.
EventsDeclared ==
  \A i \in DOMAIN told :
    \/ <<driver, told[i].type, told[i].id>> \in Undeclared
    \/ told[i].id < Driver[driver].counts[told[i].type]

\* Events whose ids ctlra_info_get_name rejects: the S2's two encoders that are
\* none, and the Mk3's pedal, which is told as the button after the last one.
Nameless == {<<"s2", "encoder", 9>>, <<"s2", "encoder", 10>>, <<"mk3", "button", 72>>}
HasName(e) == e.type = "grid" \/ e.id < Driver[driver].names[e.type]

\* ctlra_info_get_name finds a name for the id of any event but for the ones
\* listed. Squares have no names.
EventsNamed ==
  \A i \in DOMAIN told :
    <<driver, told[i].type, told[i].id>> \in Nameless \/ HasName(told[i])

\* A step of an encoder is told once, at the next report, with its direction and
\* distance, across the wrap of its counter too; without a step nothing is told,
\* neither at the first report of a driver that waits for one. A dial without
\* detents tells nothing at its wrap; the D2's tells a full turn back.
TurnTold ==
  [][\A k \in knob.knobs :
       LET wraps == IsDial(k) /\ knob.at - knob.turn \notin 0..(k.ring - 1)
       IN IF knob.turn = 0 \/ knob'.turn # 0 THEN Turned(told') = <<>>
          ELSE IF IsWheel(k) THEN Len(Turned(told')) = 1 /\ Turned(told')[1].id = k.id
          ELSE IF ~wraps THEN Turned(told') = <<Encoder(k.id, knob.turn)>>
          ELSE driver = "d2" \/ Turned(told') = <<>>]_vars

\* The distances told of a wheel of the S2 never add up to more than the distance
\* turned, nor to four less, although its quadrants are taken for 255 and not 256.
WheelNear == knob.drift \in -3..0
===============================================================================
