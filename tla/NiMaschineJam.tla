---------------------------- MODULE NiMaschineJam ----------------------------
(***************************************************************************)
(* Native Instruments Maschine Jam (devices/ni_maschine_jam.c).            *)
(***************************************************************************)
EXTENDS Controls

ButtonRows ==
  << <<0, 2, 1>>, <<1, 3, 2>>, <<2, 3, 4>>, <<3, 3, 8>>, <<4, 3, 16>>, <<5, 3, 32>>,
     <<6, 3, 64>>, <<7, 3, 128>>, <<8, 4, 1>>, <<9, 4, 2>>, <<10, 13, 128>>, <<11, 14, 1>>,
     <<12, 14, 2>>, <<13, 14, 4>>, <<14, 14, 8>>, <<15, 15, 2>>, <<16, 15, 4>>,
     <<17, 15, 8>>, <<18, 15, 16>>, <<19, 15, 32>>, <<20, 15, 64>>, <<21, 15, 128>>,
     <<22, 16, 1>>, <<23, 16, 2>>, <<24, 16, 4>>, <<25, 15, 1>>, <<26, 14, 128>>,
     <<27, 14, 64>>, <<28, 14, 32>>, <<29, 14, 16>>, <<30, 13, 64>>, <<31, 16, 8>>,
     <<32, 16, 16>>, <<33, 13, 16>>, <<34, 13, 32>>, <<35, 13, 4>>, <<36, 13, 8>>,
     <<37, 2, 2>>, <<38, 2, 4>>, <<39, 2, 8>>, <<40, 2, 16>>, <<41, 2, 32>>, <<42, 2, 64>>,
     <<43, 2, 128>>, <<44, 3, 1>>, <<45, 12, 4>>, <<46, 12, 8>>, <<47, 12, 16>>,
     <<48, 12, 32>>, <<49, 12, 64>>, <<50, 12, 128>>, <<51, 13, 1>>, <<52, 13, 2>>,
     <<53, 16, 32>> >>
\* The columns of a grid row: six bits of its byte, two of the next one.
GridBit(i) ==
  LET r == i \div 8
      c == i % 8
  IN IF c < 6 THEN <<4 + r, 2^(c + 2)>> ELSE <<5 + r, 2^(c - 6)>>

SliderItems == 8
\* The groups and the footswitch are declared with light 0.
ButtonItems ==
  << 1, 2, 3, 4, 5, 6, 7, 8, 9, 10, 18, 19, 20, 21, 22, 28, 29, 30, 31, 32, 33, 34, 35, 36,
     37, 27, 26, 25, 24, 23, 17, NoLight, NoLight, 13, 15, 11, 12, 0, 0, 0, 0, 0, 0, 0, 0,
     0, 0, 0, 0, 0, 0, 0, 0 >>

\* One list of names: the sliders follow the 54 buttons. info declares one
\* button less than there is (the footswitch), and not the encoder.
ControlNames == 62
ButtonCount == 54
Names == [button |-> ControlNames, slider |-> ControlNames - ButtonCount, encoder |-> 1,
          grid |-> 0,
          feedback |-> 0]
Counts == [button |-> ButtonCount - 1, slider |-> SliderItems, encoder |-> 0, grid |-> 1,
           feedback |-> 0]
GridLights == {255}

-----------------------------------------------------------------------------
Sizes == {49, 17}

\* Mutant of ButtonBase: the strips take a slot each, as in the tables.
ButtonBaseOfTables == 8

\* hw_values: 24 slots for 8 touchstrips, then the buttons; the grid is kept in
\* the array grid_get_data hands out. leds: the light bytes of the strips.
ButtonBase == 24
Memory0 ==
  [hw |-> [s \in 0..77 |-> 0], grid |-> [i \in 0..63 |-> 0], enc |-> [i \in {0} |-> 0],
   leds |-> [i \in 0..7 |-> [k \in 0..10 |-> 0]]]

\* The strip's bar as far as the first touch fills its lights, dimmer from the light
\* it ends in to the second touch.
StripLeds(t1, t2) ==
  [k \in 0..10 |-> IF 1023 * (k + 1) <= 11 * t1 THEN 30
                   ELSE IF 1023 * k < 11 * t2 THEN 20 ELSE 0]

\* Strip i in a report: when it was touched, and where by one and two fingers.
StripWords(b, i) == <<Word(b, 1 + 6 * i), Word(b, 3 + 6 * i), Word(b, 5 + 6 * i)>>

\* The slots of strip i in hw_values: its offset in the report, not in SLIDERS.
StripSlot(i) == 1 + 6 * i

\* A strip is told if it is touched and anything about it is new.
StripMoved(m, b, i) ==
  /\ StripWords(b, i)[2] # 0
  /\ \E k \in 0..2 : m.hw[StripSlot(i) + k] # StripWords(b, i)[k + 1]

\* The loop over the strips. No two of them share slots.
ReadStrips(m, b) ==
  LET moved == {i \in 0..7 : StripMoved(m, b, i)}
      told == Only(<<0, 1, 2, 3, 4, 5, 6, 7>>, moved)
      new == UNION {{<<StripSlot(i) + k, StripWords(b, i)[k + 1]>> : k \in 0..2} : i \in moved}
  IN [m |-> [m EXCEPT !.hw = Put(@, new),
                      !.leds = [i \in 0..7 |->
                                  IF i \in moved
                                  THEN StripLeds(StripWords(b, i)[2], StripWords(b, i)[3])
                                  ELSE @[i]]],
      ev |-> [n \in 1..Len(told) |-> Slider(told[n], StripWords(b, told[n])[2])]]

\* A square is told with its masked bit for "pressed".
ReadButtons(m, b) ==
  LET g == Scan(64, 0, LAMBDA i : Masked(b[GridBit(i)[1]], GridBit(i)[2]),
                LAMBDA i, v : Grid(0, i, v), m.grid)
      k == ScanButtons(ButtonRows, ButtonBase, b, m.hw)
      enc == [i \in {0} |-> Low(b[1])]
  IN [m |-> [m EXCEPT !.grid = g.hw, !.hw = k.hw, !.enc = enc],
      ev |-> g.ev \o k.ev \o Steps(1, enc, m.enc, 0)]

ReadCb(m, rep) ==
  CASE rep.size = 49 -> ReadStrips(m, rep.b)
    [] rep.size = 17 -> ReadButtons(m, rep.b)
    [] OTHER         -> Silent(m)

\* The device (external). A strip tells when it was last touched.
Touches ==
  ButtonTouches(17, ButtonRows)
  \cup {Touch(17, {GridBit(i)}, Grid(0, i, GridBit(i)[2])) : i \in 0..63}
  \cup {Touch(49, WordAt(1 + 6 * i, 7) \cup WordAt(3 + 6 * i, v), Slider(i, v)) :
          i \in 0..7, v \in {300, 1023}}
Sticky == {<<"slider", i>> : i \in 0..7}
Knobs == {Knob(0, 16, {1}, 17, 1, "low")}

-----------------------------------------------------------------------------
\* The image: lights_interface and lights from 0, as far as light_set reaches,
\* and touchstrips from 125 (89 bytes, and the byte after them that a flush of
\* 90 sends). The squares' lights are set but in no report.
LightIds == 0..123
StripPlaces == 125..213
\* connect fills as many bytes as there are lights, from lights_interface on.
Lights0 ==
  [img |-> [i \in 0..214 |-> IF i < 123 THEN 6 ELSE 0], dirty |-> FALSE]

\* light_set: no light is ever quite off.
LightBytes(id, st) ==
  LET bright == st.w % 128
  IN {<<1 + id, IF (bright \div 2) % 2 = 1 THEN bright ELSE bright + 2>>}
LightSet(l, id, st) ==
  IF id > 123 THEN l ELSE [img |-> Put(l.img, LightBytes(id, st)), dirty |-> TRUE]

\* What a strip's touch does to its 11 lights (usb_read_cb).
TouchstripLed(l, i, leds) ==
  [l EXCEPT !.img = Put(@, {<<126 + 11 * i + k, leds[k]>> : k \in 0..10})]

\* light_flush: buttons, strips, the buttons again, and the strips once more as
\* the grid's report.
LightFlush(l, force) ==
  LET sent == Put(l.img, {<<0, 128>>, <<125, 130>>})
      buttons == Write(66, 0, sent, 0..65)
      grid == Put(sent, {<<125, 129>>})
  IN Flush([l EXCEPT !.img = IF l.dirty \/ force THEN grid ELSE @], force,
           <<buttons, Write(90, 0, sent, 125..214), buttons, Write(81, 0, grid, 125..205)>>)

Blank(l) == [l EXCEPT !.img = Blanked(l.img, 1..213)]

Opens == << <<0, 0>> >>
PollHandle == 0
===============================================================================
