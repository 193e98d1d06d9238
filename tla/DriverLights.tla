----------------------------- MODULE DriverLights -----------------------------
(***************************************************************************)
(* Lights and screens of the controllers between the application, the      *)
(* driver's image of the lights, and the writes the bus takes.             *)
(*                                                                         *)
(* An iteration of ctlra_idle_iter first reports completed writes and      *)
(* reads, then calls the application's feedback function, which sets       *)
(* lights and flushes them, then redraws screens. All writes of a device   *)
(* share one limit; a write beyond it is dropped, and the driver is not    *)
(* told apart from success (usb.c:643). MikroMk3Lights has the one driver  *)
(* that clears its dirty flag.                                             *)
(***************************************************************************)
EXTENDS Controls

CONSTANTS Drivers,     \* the drivers in play
          WriteLimit,  \* CTLRA_ASYNC_READ_MAX
          Touchable,   \* the strips and pads that are touched
          MaxSets,     \* bound: how often the application sets a light
          MaxExtras,   \* bound: meters, digits and strips that change lights
          MaxTouches   \* bound: pads pressed or released

F1 == INSTANCE NiKontrolF1
Z1 == INSTANCE NiKontrolZ1
X1 == INSTANCE NiKontrolX1Mk2
S2 == INSTANCE NiKontrolS2Mk2
S5 == INSTANCE NiKontrolS5
D2 == INSTANCE NiKontrolD2
Jam == INSTANCE NiMaschineJam
Mikro2 == INSTANCE NiMaschineMikroMk2
Mk3 == INSTANCE NiMaschineMk3

AllDrivers == {"f1", "z1", "x1", "s2", "s5", "d2", "jam", "mikro2", "mk3"}
ASSUME LightsAssumption ==
  /\ Drivers \subseteq AllDrivers /\ Touchable \subseteq 0..15
  /\ WriteLimit \in Nat \ {0} /\ MaxSets \in Nat /\ MaxExtras \in Nat
  /\ MaxTouches \in Nat

-----------------------------------------------------------------------------
(***************************************************************************)
(* The drivers                                                             *)
(***************************************************************************)

\* The image of connect with one light set in it, and the bytes that tell the
\* light lit from dark.
About(ids, items, grid, lights0, opens, reads, Set(_, _, _)) ==
  LET alone == [id \in ids |-> [st \in {Off, White} |-> Set(lights0, id, st).img]]
  IN [ids |-> ids, items |-> (Range(items) \ {NoLight}) \cup grid, lights0 |-> lights0,
      opens |-> opens, reads |-> reads, alone |-> alone,
      foot |-> [id \in ids |->
                  {p \in DOMAIN lights0.img : alone[id][White][p] # alone[id][Off][p]}]]
Driver ==
  [f1     |-> About(F1!LightIds, F1!ButtonItems, F1!GridLights, F1!Lights0,
                    F1!Opens, F1!PollHandle, F1!LightSet),
   z1     |-> About(Z1!LightIds, Z1!ButtonItems, {}, Z1!Lights0,
                    Z1!Opens, Z1!PollHandle, Z1!LightSet),
   x1     |-> About(X1!LightIds, X1!ButtonItems, {}, X1!Lights0,
                    X1!Opens, X1!PollHandle, X1!LightSet),
   s2     |-> About(S2!LightIds, S2!ButtonItems, {}, S2!Lights0,
                    S2!Opens, S2!PollHandle, S2!LightSet),
   s5     |-> About(S5!LightIds, <<>>, {}, S5!Lights0,
                    S5!Opens, S5!PollHandle, S5!LightSet),
   d2     |-> About(D2!LightIds, <<>>, {}, D2!Lights0,
                    D2!Opens, D2!PollHandle, D2!LightSet),
   jam    |-> About(Jam!LightIds, Jam!ButtonItems, Jam!GridLights, Jam!Lights0,
                    Jam!Opens, Jam!PollHandle, Jam!LightSet),
   mikro2 |-> About(Mikro2!LightIds, Mikro2!ButtonItems, Mikro2!GridLights, Mikro2!Lights0,
                    Mikro2!Opens, Mikro2!PollHandle, Mikro2!LightSet),
   mk3    |-> About(Mk3!LightIds, Mk3!ButtonItems, Mk3!GridLights, Mk3!Lights0,
                    Mk3!Opens, Mk3!PollHandle, Mk3!LightSet)]

\* What is set is a byte, and every light shows somewhere in the image.
ASSUME LightsAreBytes ==
  \A d \in Drivers :
    LET places == DOMAIN Driver[d].lights0.img
    IN /\ Driver[d].lights0.img \in [places -> 0..255]
       /\ Driver[d].alone \in [Driver[d].ids -> [{Off, White} -> [places -> 0..255]]]
       /\ Driver[d].foot \in [Driver[d].ids -> (SUBSET places) \ {{}}]

\* dev->light_set
LightSet(d, l, id, st) ==
  CASE d = "f1"     -> F1!LightSet(l, id, st)
    [] d = "z1"     -> Z1!LightSet(l, id, st)
    [] d = "x1"     -> X1!LightSet(l, id, st)
    [] d = "s2"     -> S2!LightSet(l, id, st)
    [] d = "s5"     -> S5!LightSet(l, id, st)
    [] d = "d2"     -> D2!LightSet(l, id, st)
    [] d = "jam"    -> Jam!LightSet(l, id, st)
    [] d = "mikro2" -> Mikro2!LightSet(l, id, st)
    [] d = "mk3"    -> Mk3!LightSet(l, id, st)

\* dev->light_flush
LightFlush(d, l, force) ==
  CASE d = "f1"     -> F1!LightFlush(l, force)
    [] d = "z1"     -> Z1!LightFlush(l, force)
    [] d = "x1"     -> X1!LightFlush(l, force)
    [] d = "s2"     -> S2!LightFlush(l, force)
    [] d = "s5"     -> S5!LightFlush(l, force)
    [] d = "d2"     -> D2!LightFlush(l, force)
    [] d = "jam"    -> Jam!LightFlush(l, force)
    [] d = "mikro2" -> Mikro2!LightFlush(l, force)
    [] d = "mk3"    -> Mk3!LightFlush(l, force)

\* dev->disconnect, before it flushes
Blank(d, l) ==
  CASE d = "f1"     -> F1!Blank(l)
    [] d = "z1"     -> Z1!Blank(l)
    [] d = "x1"     -> X1!Blank(l)
    [] d = "s2"     -> S2!Blank(l)
    [] d = "s5"     -> S5!Blank(l)
    [] d = "d2"     -> D2!Blank(l)
    [] d = "jam"    -> Jam!Blank(l)
    [] d = "mikro2" -> Mikro2!Blank(l)
    [] d = "mk3"    -> Mk3!Blank(l)

\* The writes of drawing every screen: ctlra asks for two (screen_redraw).
ScreenWrite(handle) == [size |-> 0, handle |-> handle, img |-> <<>>]
Screens(d) ==
  LET each(n, handle) == [k \in 1..n |-> ScreenWrite(handle)]
  IN CASE d = "mikro2" -> each(Mikro2!ScreenWrites, 0)
       [] d = "s5"     -> each(S5!ScreenFlush(0, 1) + S5!ScreenFlush(1, 1), S5!ScreenHandle)
       [] d = "d2"     -> each(D2!ScreenFlush(0, 1) + D2!ScreenFlush(1, 1), D2!ScreenHandle)
       [] d = "mk3"    -> each(Mk3!ScreenFlush(0, 1) + Mk3!ScreenFlush(1, 1), Mk3!ScreenHandle)
       [] OTHER        -> <<>>

\* What connect submits, and disconnect after the lights: the D2 clears its
\* screen once.
AtConnect(d) ==
  IF d = "s5" THEN LightFlush(d, Driver[d].lights0, TRUE).writes \o Screens(d)
  ELSE IF d \in {"mikro2", "mk3"} THEN Screens(d) ELSE <<>>
AtDisconnect(d) == IF d = "d2" THEN <<ScreenWrite(D2!ScreenHandle)>> ELSE Screens(d)

\* Lights the application changes by other ways than light_set: level meters, digits
\* and strips (feedback_set, feedback_digits, light_touchstrip).
ByFeedback(d, lit) ==
  CASE d = "z1" -> {Z1!FeedbackSet(lit, 1, 4)}
    [] d = "x1" -> {X1!FeedbackDigits(lit, 1, -12)}
    [] d = "d2" -> {D2!LightTouchstrip(lit, [i \in 0..24 |-> 255], [i \in 0..24 |-> 255])}
    [] OTHER    -> {}
\* What is asked of lamps by that: the Z1's meters are lights it sets.
Metered(d) ==
  IF d = "z1" THEN [id \in 7..13 |-> IF id - 7 < 4 THEN White ELSE Off] ELSE <<>>

-----------------------------------------------------------------------------
\* Where a light shows.
Footprint(d, id) == Driver[d].foot[id]

\* Lights that light_set accepts and no report carries: the Jam's squares.
Unsent(d) == IF d = "jam" THEN 65..123 ELSE {}
\* Lights the disconnect of the X1 leaves on: it takes the count of its lights
\* for the size of their bytes.
LeftLit(d) == IF d = "x1" THEN 24..34 ELSE {}

\* Lights that info declares and light_set refuses: the last of the Mk3's grid,
\* which ends one too late, and all of the Jam's.
Misdeclared(d) == CASE d = "mk3" -> {103} [] d = "jam" -> {255} [] OTHER -> {}
ASSUME ItemsHaveLights ==
  \A d \in Drivers : Driver[d].items \ Misdeclared(d) \subseteq Driver[d].ids \ Unsent(d)

Lamps(d) == Driver[d].ids \ Unsent(d)
\* Two lights at a time, next to one another.
Pairs(d) == {{id, id + 1} \cap Lamps(d) : id \in {i \in Lamps(d) : i % 2 = 0}}
\* Two lights of different reports, where there are two, or any two; of the Mikro Mk2
\* the first pad, which it lights itself.
Straddling(d) ==
  CASE d = "s2" -> {35, 36} [] d = "mk3" -> {61, 62} [] d = "mikro2" -> {28} [] OTHER -> {8, 9}

VARIABLES
  driver, lamps,  \* the controller, and the lights that are set
  slow,           \* writes may stay in flight over iterations
  l,              \* the driver's image of its lights
  bus,            \* the writes in flight, in the order the device takes them
  shown,          \* what the device shows at the places of the lamps
  want,           \* what the application last asked of a lamp
  held,           \* the pads the driver takes for pressed
  overruled,      \* the lamps a pad was pressed or released under since they were set
  whole,          \* the last flush was taken as a whole and nothing changed since
  phase,          \* of ctlra_idle_iter, or "closed"
  sets, extras    \* how often something was set

vars == <<driver, lamps, slow, l, bus, shown, want, held, overruled, whole, phase, sets, extras>>

\* A fast device has taken what was sent before the next step.
CaughtUp == slow \/ bus = <<>>

\* The part of an image at the places of the lamps.
Places == UNION {Footprint(driver, id) : id \in lamps}
PartOf(w) == [handle |-> w.handle, img |-> Restrict(w.img, DOMAIN w.img \cap Places)]

\* Mutant of Accepted: one write too many.
AcceptedOneMore(queue, writes) ==
  SubSeq(writes, 1, Min({Len(writes), WriteLimit + 1 - Len(queue)}))

\* The writes that find room below the limit, the first ones.
Accepted(queue, writes) == SubSeq(writes, 1, Min({Len(writes), WriteLimit - Len(queue)}))
Submit(queue, writes) ==
  queue \o [i \in 1..Len(Accepted(queue, writes)) |-> PartOf(writes[i])]

\* A flush of which nothing is dropped.
TakenWhole(queue, writes) == writes # <<>> /\ Accepted(queue, writes) = writes

None == [asked |-> FALSE]
\* A controller as connect leaves it, whichever of its lamps will be set.
Connected ==
  /\ lamps \subseteq Lamps(driver)
  /\ l = Driver[driver].lights0
  /\ bus = Submit(<<>>, AtConnect(driver))
  /\ shown = [p \in Places |-> 0]
  /\ want = [id \in lamps |-> None]
  /\ held = {} /\ overruled = {}
  /\ whole = FALSE /\ phase = "events" /\ sets = 0 /\ extras = 0

\* Two of them: any neighbours of a device that takes writes at once.
Init ==
  /\ driver \in Drivers /\ slow \in BOOLEAN
  /\ lamps \in IF slow THEN {Straddling(driver)} ELSE Pairs(driver)
  /\ Connected

-----------------------------------------------------------------------------
\* The device took the first write, and the transfer layer reports it.
Complete ==
  /\ bus # <<>>
  /\ slow => phase \in {"events", "closed"}
  /\ bus' = Tail(bus)
  /\ shown' = [p \in DOMAIN shown |-> IF p \in DOMAIN Head(bus).img THEN Head(bus).img[p] ELSE shown[p]]
  /\ UNCHANGED <<driver, lamps, slow, l, want, held, overruled, whole, phase, sets, extras>>

\* Touches the driver answers with light, in ctlra_idle_iter, and in usb_close, which
\* handles events, reads too, when disconnect has made its lights dark.
Touching ==
  /\ phase \in {"events", "closed"} /\ CaughtUp
  /\ extras' = extras + 1
  /\ UNCHANGED <<driver, lamps, slow, shown, want, phase, sets>>

\* A finger on a strip of the Jam: its lights wait for the next flush.
StripTouched ==
  /\ Touching /\ driver = "jam" /\ extras < MaxExtras
  /\ \E i \in Touchable \cap 0..7 : l' = Jam!TouchstripLed(l, i, Jam!StripLeds(512, 1023))
  /\ UNCHANGED <<bus, held, overruled, whole>>

\* A pad of the Mikro Mk2 pressed, or released: it lights up or goes dark at once,
\* whatever the application asked of it.
PadTouched ==
  /\ Touching /\ driver = "mikro2" /\ extras < MaxTouches
  /\ \E i \in Touchable :
       LET f == Mikro2!PadLit(l, i, i \notin held)
       IN /\ l' = f.l
          /\ bus' = Submit(bus, f.writes)
          /\ held' = IF i \in held THEN held \ {i} ELSE held \cup {i}
          /\ overruled' = overruled \cup ({28 + i} \cap lamps)
          /\ whole' = TakenWhole(bus, f.writes)

Poll ==
  /\ phase = "events" /\ CaughtUp /\ phase' = "feedback"
  /\ UNCHANGED <<driver, lamps, slow, l, bus, shown, want, held, overruled, whole, sets, extras>>

\* ctlra_dev_light_set in the feedback function: on, off, on.
Turned(id) == IF want[id] = White THEN Off ELSE White
SetLight(id, st) ==
  /\ phase = "feedback" /\ sets < MaxSets
  /\ sets' = sets + 1
  /\ l' = LightSet(driver, l, id, st)
  /\ want' = [want EXCEPT ![id] = st]
  /\ overruled' = overruled \ {id}
  /\ whole' = FALSE
  /\ UNCHANGED <<driver, lamps, slow, bus, shown, held, phase, extras>>

\* Meters, digits and strips.
SetFeedback ==
  /\ phase = "feedback" /\ extras < MaxExtras
  /\ extras' = extras + 1
  /\ l' \in ByFeedback(driver, l)
  /\ want' = [id \in lamps |-> IF id \in DOMAIN Metered(driver) THEN Metered(driver)[id] ELSE want[id]]
  /\ whole' = FALSE
  /\ UNCHANGED <<driver, lamps, slow, bus, shown, held, overruled, phase, sets>>

\* ctlra_dev_light_flush at the end of the feedback function.
FlushLights ==
  LET f == LightFlush(driver, l, FALSE)
  IN /\ phase = "feedback" /\ phase' = "redraw"
     /\ l' = f.l
     /\ bus' = Submit(bus, f.writes)
     /\ whole' = TakenWhole(bus, f.writes)
     /\ UNCHANGED <<driver, lamps, slow, shown, want, held, overruled, sets, extras>>

\* The screens are redrawn, when it is time and the application drew.
Redraw ==
  /\ phase = "redraw" /\ CaughtUp /\ phase' = "events"
  /\ \E drawn \in BOOLEAN : bus' = IF drawn THEN Submit(bus, Screens(driver)) ELSE bus
  /\ UNCHANGED <<driver, lamps, slow, l, shown, want, held, overruled, whole, sets, extras>>

\* disconnect of a device that is still there.
Disconnect ==
  LET f == LightFlush(driver, Blank(driver, l), TRUE)
      writes == f.writes \o AtDisconnect(driver)
  IN /\ phase = "events" /\ CaughtUp /\ phase' = "closed"
     /\ l' = f.l
     /\ bus' = Submit(bus, writes)
     /\ overruled' = {}
     /\ whole' = TakenWhole(bus, f.writes)
     /\ UNCHANGED <<driver, lamps, slow, shown, want, held, sets, extras>>

\* ctlra_dev_impl_usb_close gives up waiting and cancels what is in flight.
Cancel ==
  /\ phase = "closed" /\ bus # <<>>
  /\ bus' = <<>> /\ whole' = FALSE
  /\ UNCHANGED <<driver, lamps, slow, l, shown, want, held, overruled, phase, sets, extras>>

Next ==
  \/ Complete
  \/ StripTouched
  \/ PadTouched
  \/ Poll
  \/ \E id \in lamps : SetLight(id, Turned(id))
  \/ SetFeedback
  \/ FlushLights
  \/ Redraw
  \/ Disconnect
  \/ Cancel

\* The application calls ctlra_idle_iter for ever; the device takes writes.
Fairness ==
  /\ WF_vars(Poll) /\ WF_vars(FlushLights) /\ WF_vars(Redraw)
  /\ SF_vars(Complete)
Spec == Init /\ [][Next]_vars /\ Fairness

-----------------------------------------------------------------------------
(***************************************************************************)
(* Properties                                                              *)
(***************************************************************************)

\* The writes in flight never exceed the limit, and bytes stay bytes.
TypeOK ==
  /\ Len(bus) <= WriteLimit
  /\ \A p \in DOMAIN shown : shown[p] \in 0..255

\* A lamp as the application asked for it, or as connect left it.
Asked(id) ==
  IF want[id] = None THEN Driver[driver].lights0.img
  ELSE Driver[driver].alone[id][want[id]]

\* The green byte of a pad that was pressed or released since its lamp was set, or
\* made dark by disconnect, tells whether the pad is pressed.
ByPad(id, p) == id \in overruled /\ p = Mikro2!PadAt(id) + 1
Green(id) == IF id - 28 \in held THEN 127 ELSE 0

\* What a lamp is to show at one of its places.
Due(id, p) ==
  IF ByPad(id, p) THEN Green(id) ELSE IF phase = "closed" THEN 0 ELSE Asked(id)[p]
ShownAsDue(ids, places) ==
  \A id \in ids : \A p \in Footprint(driver, id) \cap places : shown[p] = Due(id, p)

\* The Jam's connect fills its image and the X1's its digits without setting the
\* flag: before the first light is set they are not sent.
Set == {id \in lamps : want[id] # None} \cup overruled

LightsInFlight == \E i \in DOMAIN bus : DOMAIN bus[i].img # {}

\* A flush that was taken as a whole shows every lamp as it was last asked for by
\* light_set or a meter, but for the green of a pad that was touched after that,
\* which shows the touch: every light can be told lit from dark, no light is part of
\* another, and a pad lights no light but its own.
LightsShown ==
  phase # "closed" /\ whole /\ ~LightsInFlight => ShownAsDue(lamps, Places)

\* Every write goes to a handle that connect has opened, and so does every read.
HandlesOpen ==
  \A handle \in {Driver[driver].reads} \cup {bus[i].handle : i \in DOMAIN bus} :
    \E n \in DOMAIN Driver[driver].opens : Driver[driver].opens[n][2] = handle

\* A controller whose last writes were taken is dark, but for the X1, and for the
\* green of a pad of the Mikro Mk2 that was pressed while it was being closed.
DarkAfterClose ==
  phase = "closed" /\ bus = <<>> /\ whole =>
    \A id \in lamps \ LeftLit(driver) : \A p \in Footprint(driver, id) :
      shown[p] = IF ByPad(id, p) /\ id - 28 \in held THEN 127 ELSE 0

FirstReport == DOMAIN LightFlush(driver, l, TRUE).writes[1].img

\* The lamps in the first report of a flush are shown in the end although flushes
\* are dropped at the limit: no driver takes a dropped flush for a done one.
FirstReportShown ==
  <>[](phase # "closed" => ShownAsDue(Set, FirstReport))

\* Where the device has caught up again and again when the feedback function
\* runs, so are those in the other reports.
AllShownWhenCaughtUp ==
  []<>(phase = "feedback" /\ bus = <<>>) => <>[](phase # "closed" => ShownAsDue(Set, Places))
===============================================================================
