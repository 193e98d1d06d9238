----------------------------- MODULE NiMaschineMk3 -----------------------------
(***************************************************************************)
(* Native Instruments Maschine Mk3 (devices/ni_maschine_mk3.c), built as   *)
(* it is without CTLRA_MK3_PADS.                                           *)
(***************************************************************************)
EXTENDS Controls

\* An event has its row's index; the rows' own ids are all alike.
ButtonRows ==
  << <<0, 1, 1>>, <<1, 1, 8>>, <<2, 1, 4>>, <<3, 1, 32>>, <<4, 1, 16>>, <<5, 1, 64>>,
     <<6, 2, 1>>, <<7, 2, 2>>, <<8, 2, 4>>, <<9, 2, 8>>, <<10, 2, 16>>, <<11, 2, 32>>,
     <<12, 2, 64>>, <<13, 2, 128>>, <<14, 3, 1>>, <<15, 3, 2>>, <<16, 3, 4>>, <<17, 3, 8>>,
     <<18, 3, 16>>, <<19, 3, 32>>, <<20, 4, 1>>, <<21, 4, 2>>, <<22, 4, 4>>, <<23, 4, 8>>,
     <<24, 4, 16>>, <<25, 4, 32>>, <<26, 4, 64>>, <<27, 4, 128>>, <<28, 5, 2>>,
     <<29, 5, 4>>, <<30, 5, 8>>, <<31, 5, 16>>, <<32, 5, 32>>, <<33, 5, 64>>,
     <<34, 5, 128>>, <<35, 6, 1>>, <<36, 6, 2>>, <<37, 6, 4>>, <<38, 6, 8>>, <<39, 6, 16>>,
     <<40, 6, 32>>, <<41, 6, 64>>, <<42, 6, 128>>, <<43, 7, 1>>, <<44, 7, 2>>, <<45, 7, 4>>,
     <<46, 7, 8>>, <<47, 7, 16>>, <<48, 7, 32>>, <<49, 8, 1>>, <<50, 8, 2>>, <<51, 8, 4>>,
     <<52, 8, 8>>, <<53, 8, 16>>, <<54, 8, 32>>, <<55, 9, 1>>, <<56, 9, 2>>, <<57, 9, 4>>,
     <<58, 9, 8>>, <<59, 9, 16>>, <<60, 9, 32>>, <<61, 9, 64>>, <<62, 1, 128>>,
     <<63, 9, 128>>, <<64, 10, 128>>, <<65, 10, 64>>, <<66, 10, 32>>, <<67, 10, 16>>,
     <<68, 10, 8>>, <<69, 10, 4>>, <<70, 10, 2>>, <<71, 10, 1>> >>

SliderItems == 1
FeedbackItems == 2
ButtonItems ==
  << NoLight, 60, 58, 59, 61, 44, 29, 30, 31, 32, 33, 34, 35, 36, 28, 20, 21, 23, 22, 24,
     46, 47, 48, 49, 45, 50, 51, 52, 53, 54, 55, 56, 57, 25, 26, 27, 37, 38, 39, 40, 41, 42,
     43, 11, 9, 7, 5, 3, 1, 0, 2, 4, 6, 8, 10, 12, 13, 14, 15, 16, 17, 18, 19, NoLight,
     NoLight, NoLight, NoLight, NoLight, NoLight, NoLight, NoLight, NoLight >>
EncoderItems == 9

\* The pedal is told as the button after the last one.
ButtonNames == 72
EncoderNames == 9
Names == [button |-> ButtonNames, slider |-> 1, encoder |-> EncoderNames, grid |-> 0,
          feedback |-> 0]
Counts == [button |-> 72, slider |-> SliderItems, encoder |-> EncoderItems, grid |-> 1,
           feedback |-> FeedbackItems]
GridLights == 87..103

-----------------------------------------------------------------------------
Sizes == {128, 42}

\* known: the first positions of the encoders and the strip have been read.
Memory0 ==
  [hw |-> [s \in 0..71 |-> 0], dial |-> [i \in 0..7 |-> 0], enc |-> [i \in {0} |-> 0],
   known |-> FALSE, strip |-> 0, pedal |-> 0, hit |-> [i \in 0..15 |-> 0]]

ReadPads(m, b, at) ==
  LET s == PadSet(b, at, LAMBDA i : i, m.hit)
  IN [m |-> [m EXCEPT !.hit = s.hw], ev |-> s.ev]

ReadPadSets(m, b) ==
  LET first == ReadPads(m, b, 0)
      second == ReadPads(first.m, b, 64)
  IN [m |-> second.m, ev |-> first.ev \o second.ev]

\* The pedal's bit is kept as it is masked, and assigned to a field of one bit.
PedalOf(b) == Masked(b[3], 64)
ReadPedal(m, b) ==
  IF PedalOf(b) = m.pedal THEN <<>> ELSE <<Button(72, PedalOf(b) % 2)>>

\* An endless dial, in thousandths of its turn: a jump is a wrap, not told.
DialMoved(d) == d # 0 /\ d \in -700..700

ReadDials(m, b) ==
  LET d(i) == Word(b, 12 + 2 * i) - m.dial[i]
      moved == Only([i \in 1..8 |-> i - 1], {i \in 0..7 : m.known /\ DialMoved(d(i))})
  IN [n \in 1..Len(moved) |-> Encoder(moved[n] + 1, d(moved[n]))]

ReadMain(m, enc) == IF m.known THEN Steps(1, enc, m.enc, 0) ELSE <<>>

\* The strip reads 0 when it is let go of.
ReadControls(m, b) ==
  LET v == Word(b, 30)
      touched == m.known /\ v # 0 /\ v # m.strip
      enc == [i \in {0} |-> Low(b[11])]
      k == ScanButtons(ButtonRows, 0, b, m.hw)
  IN [m |-> [m EXCEPT !.hw = k.hw, !.enc = enc, !.known = TRUE, !.pedal = PedalOf(b),
                      !.dial = [i \in 0..7 |-> Word(b, 12 + 2 * i)],
                      !.strip = IF touched \/ ~m.known THEN v ELSE @],
      ev |-> ReadPedal(m, b) \o (IF touched THEN <<Slider(0, v)>> ELSE <<>>)
             \o k.ev \o ReadDials(m, b) \o ReadMain(m, enc)]

\* usb_read_cb; the 81 bytes it names are never written by this driver.
ReadCb(m, rep) ==
  CASE rep.size = 128 -> ReadPadSets(m, rep.b)
    [] rep.size = 42  -> ReadControls(m, rep.b)
    [] OTHER          -> Silent(m)

\* The device (external). The bytes of a pad's touch name the pad.
Touches ==
  ButtonTouches(42, ButtonRows)
  \cup {Touch(42, {<<3, 64>>}, Button(72, 1))}
  \cup {Touch(42, WordAt(30, v), Slider(0, v)) : v \in {300, 1023}}
  \cup {Touch(128, {<<0, i>>}, Grid(0, i, 1)) : i \in 0..15}
Sticky == {<<"slider", 0>>}
Knobs ==
  {Knob(0, 16, {1}, 42, 11, "low")}
  \cup {Knob(i + 1, 1000, {50}, 42, 12 + 2 * i, "word") : i \in 0..7}

PadsOf(touches) == {CHOOSE i \in 0..15 : <<0, i>> \in t.bytes : t \in {u \in touches : u.size = 128}}
ReportShown(size, hands, before, held) ==
  LET list(now, at) == PadList(at, PadsOf(now), PadsOf(hands \ now))
  IN IF size = 128 THEN ReportOf(128, list(before, 0) \cup list(held, 64))
     ELSE Shown(size, held)

-----------------------------------------------------------------------------
\* The image: lights_endpoint and lights[62] from 0, lights_pads_endpoint and
\* lights_pads[80] from 100: 25 lights of the strip, 16 pads, padding. 63 to 99 are
\* no bytes.
LightIds == 0..102
Coloured == {5} \cup (29..36) \cup (58..61)
Lights0 == [img |-> Dark(0..180), dirty |-> TRUE, padsDirty |-> FALSE]

\* The hue of a colour in 16 steps; white and off are special.
Hue(st) ==
  LET top == Max({st.r, st.g, st.b})
      span == top - Min({st.r, st.g, st.b})
      part(x) == IF x < 0 THEN -((-43 * x) \div span) ELSE (43 * x) \div span
      h == (IF top = st.r THEN part(st.g - st.b)
            ELSE IF top = st.g THEN 85 + part(st.b - st.r)
            ELSE 171 + part(st.r - st.g)) % 256
  IN IF st = Off THEN 0 ELSE IF span = 0 THEN 255 ELSE h \div 16 + 1

\* light_set: colour and two bits of brightness, or five bits of brightness.
LightBytes(id, st) ==
  LET bright == st.w \div 8
      colour == (4 * Hue(st)) % 256
  IN IF id >= 62 THEN {<<101 + id - 62, colour + (bright % 4)>>}
     ELSE IF id \in Coloured THEN {<<1 + id, colour + ((bright \div 4) % 4)>>}
     ELSE {<<1 + id, bright>>}
LightSet(l, id, st) ==
  IF id >= 103 THEN l
  ELSE IF id >= 62 THEN [l EXCEPT !.img = Put(@, LightBytes(id, st)), !.padsDirty = TRUE]
  ELSE [l EXCEPT !.img = Put(@, LightBytes(id, st)), !.dirty = TRUE]

\* light_flush: the flag of the pads is not looked at.
LightFlush(l, force) ==
  LET img == IF l.dirty \/ force THEN Put(l.img, {<<0, 128>>, <<100, 129>>}) ELSE l.img
  IN Flush([l EXCEPT !.img = img], force,
           <<Write(63, 0, img, 0..62), Write(63, 0, img, 100..162)>>)

Blank(l) ==
  [img |-> Blanked(l.img, (1..62) \cup (101..180)), dirty |-> TRUE, padsDirty |-> TRUE]

\* screen_get_data with flush 1 to 3 of a screen: one bulk write on the second
\* handle, whether the whole screen or a zone; with 0 it is the pixels' address.
ScreenHandle == 1
ScreenFlush(screen, flush) ==
  IF screen > 1 \/ flush = 0 THEN 0 ELSE 1

Opens == << <<4, 0>>, <<5, 1>> >>
PollHandle == 0
===============================================================================
