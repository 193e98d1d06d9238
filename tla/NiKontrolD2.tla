----------------------------- MODULE NiKontrolD2 -----------------------------
(***************************************************************************)
(* Native Instruments Kontrol D2 (devices/ni_kontrol_d2.c).                *)
(***************************************************************************)
EXTENDS Controls

ButtonRows ==
  << <<0, 5, 1>>, <<1, 5, 2>>, <<2, 5, 4>>, <<3, 5, 8>>, <<4, 2, 128>>, <<5, 3, 4>>,
     <<6, 3, 2>>, <<7, 3, 1>>, <<8, 9, 64>>, <<9, 9, 128>>, <<10, 10, 16>>, <<11, 10, 32>>,
     <<12, 2, 64>>, <<13, 2, 32>>, <<14, 2, 16>>, <<15, 2, 1>>, <<16, 4, 64>>, <<17, 3, 8>>,
     <<18, 3, 16>>, <<19, 3, 32>>, <<20, 3, 64>>, <<21, 9, 2>>, <<22, 9, 4>>, <<23, 9, 8>>,
     <<24, 9, 16>>, <<25, 2, 8>>, <<26, 9, 32>>, <<27, 4, 128>>, <<28, 4, 32>>,
     <<29, 4, 1>>, <<30, 6, 16>>, <<31, 9, 1>>, <<32, 4, 16>>, <<33, 4, 8>>, <<34, 4, 4>>,
     <<35, 4, 2>>, <<36, 10, 1>>, <<37, 10, 2>>, <<38, 10, 4>>, <<39, 10, 8>>, <<40, 7, 8>>,
     <<41, 7, 1>>, <<42, 6, 1>>, <<43, 6, 2>>, <<44, 7, 32>>, <<45, 7, 64>>, <<46, 7, 128>>,
     <<47, 7, 2>>, <<48, 8, 8>>, <<49, 8, 4>>, <<50, 8, 2>>, <<51, 8, 1>>, <<52, 7, 16>>,
     <<53, 7, 4>>, <<54, 8, 128>>, <<55, 8, 64>>, <<56, 8, 32>>, <<57, 8, 16>> >>

\* Mutant of TouchButton: the strip's touch has an id past the names.
TouchButtonPastNames == 59

\* The touchstrip is a button beyond the table, and the last slider.
TouchButton == 58
StripSlider == 8

ButtonNames == 59
SliderNames == 9
EncoderNames == 6
Names == [button |-> ButtonNames, slider |-> SliderNames, encoder |-> EncoderNames, grid |-> 0,
          feedback |-> 0]
\* Mutant of Counts: the buttons are counted by their table, as in the info left
\* out by #if 0.
CountsOfTables == [button |-> Len(ButtonRows), slider |-> 9, encoder |-> 6, grid |-> 0,
                   feedback |-> 0]

\* connect: nothing is declared but the counts.
Counts == [button |-> 59, slider |-> 9, encoder |-> 6, grid |-> 0,
           feedback |-> 0]

-----------------------------------------------------------------------------
Sizes == {25, 17}

\* hw_values: 12 slots for the faders (the first four unused), then buttons.
Memory0 ==
  [hw |-> [s \in 0..69 |-> 0], dial |-> [i \in 0..3 |-> 0], enc |-> [i \in {0, 1} |-> 0],
   touch |-> 0]

\* The dials above the screen, in thousandths of a turn: a wrap is told as a
\* full turn back.
ReadDials(m, b) ==
  LET now == [i \in 0..3 |-> Word(b, 2 * i + 1)]
      d == Scan(4, 0, LAMBDA i : now[i], LAMBDA i, v : Encoder(i, v - m.dial[i]), m.dial)
      s == Scan(8, 4, LAMBDA i : Word(b, 2 * i + 9), LAMBDA i, v : Slider(i, v), m.hw)
  IN [m |-> [m EXCEPT !.hw = s.hw, !.dial = d.hw], ev |-> d.ev \o s.ev]

\* Mutant of ReadStrip: the touch is told again with every report.
ReadStripEachTime(touch, v) ==
  <<Button(TouchButton, Pressed(v))>> \o (IF v > 0 THEN <<Slider(StripSlider, v)>> ELSE <<>>)

\* The strip tells that it is touched, and its position with every report.
ReadStrip(touch, v) ==
  (IF Pressed(v) # touch THEN <<Button(TouchButton, Pressed(v))>> ELSE <<>>)
  \o (IF v > 0 THEN <<Slider(StripSlider, v)>> ELSE <<>>)

ReadButtons(m, b) ==
  LET k == ScanButtons(ButtonRows, 12, b, m.hw)
      enc == [i \in {0, 1} |-> IF i = 0 THEN High(b[1]) ELSE Low(b[1])]
  IN [m |-> [m EXCEPT !.hw = k.hw, !.enc = enc, !.touch = Pressed(Word(b, 13))],
      ev |-> k.ev \o Steps(2, enc, m.enc, 4) \o ReadStrip(m.touch, Word(b, 13))]

\* usb_read_cb
ReadCb(m, rep) ==
  CASE rep.size = 25 -> ReadDials(m, rep.b)
    [] rep.size = 17 -> ReadButtons(m, rep.b)
    [] OTHER         -> Silent(m)

\* The device (external).
Touches ==
  ButtonTouches(17, ButtonRows)
  \cup {Touch(25, WordAt(2 * i + 9, v), Slider(i, v)) : i \in 0..7, v \in SliderPositions}
  \cup {TouchOf(17, WordAt(13, v), {Button(TouchButton, 1), Slider(StripSlider, v)}) :
          v \in {300, 1023}}
Sticky == {<<"slider", StripSlider>>}
Knobs ==
  {Knob(4, 16, {1}, 17, 1, "high"), Knob(5, 16, {1}, 17, 1, "low")}
  \cup {Knob(i, 1000, {50}, 25, 2 * i + 1, "word") : i \in 0..3}

-----------------------------------------------------------------------------
\* The image: lights_endpoint and lights[122] from 0.
LightIds == 0..45
Lights0 == [img |-> Dark(0..122), dirty |-> FALSE]

\* light_set: each light has its bytes, lights[] starts at 1.
LightBytes(id, st) ==
  LET bright == st.w % 128
  IN CASE id \in 0..7   -> {<<3 * id + 1, st.b>>, <<3 * id + 2, st.g>>, <<3 * id + 3, st.r>>}
       [] id \in 8..27  -> {<<id + 17, bright>>}
       [] id \in 28..31 -> {<<2 * id - 11, bright>>, <<2 * id - 10, st.b>>}
       [] id = 32       -> {<<53, bright>>}
       [] id = 33       -> {<<54, bright>>, <<55, st.b>>}
       [] id = 34       -> {<<56, bright>>}
       [] id = 35       -> {<<57, st.g>>, <<58, st.r>>}
       [] id \in 36..37 -> {<<id + 23, bright>>}
       [] id \in 38..41 -> {<<id + 81, bright>>}
       [] id \in 42..45 -> {<<id + 19, bright>>, <<id + 23, st.b>>}
       [] OTHER         -> {}
LightSet(l, id, st) == [img |-> Put(l.img, LightBytes(id, st)), dirty |-> TRUE]

\* light_touchstrip: 25 lights, blue and orange.
LightTouchstrip(l, orange, blue) ==
  [img |-> Put(l.img, UNION {{<<69 + i, blue[i]>>, <<94 + i, orange[i]>>} : i \in 0..24}),
   dirty |-> TRUE]

LightFlush(l, force) ==
  LET img == IF l.dirty \/ force THEN Put(l.img, {<<0, 128>>}) ELSE l.img
  IN Flush([l EXCEPT !.img = img], force, <<Write(123, 0, img, 0..122)>>)

Blank(l) == [l EXCEPT !.img = Blanked(l.img, 1..122)]

\* screen_get_data: every flush sends the whole screen; disconnect clears it.
ScreenHandle == 1
ScreenFlush(screen, flush) == IF flush = 0 THEN 0 ELSE 1

\* Mutant of Opens: the screen's interface is not opened.
OpensLights == << <<0, 0>> >>

Opens == << <<0, 0>>, <<1, 1>> >>
PollHandle == 0
===============================================================================
