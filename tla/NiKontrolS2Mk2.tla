---------------------------- MODULE NiKontrolS2Mk2 ----------------------------
(***************************************************************************)
(* Native Instruments Kontrol S2 Mk2 (devices/ni_kontrol_s2_mk2.c).        *)
(***************************************************************************)
EXTENDS Controls

\* Words from byte 1, here without the 4 that usb_read_cb adds. The ids of the
\* rows are not used (some are there twice): an event has its row's index.
SliderRows == [n \in 1..23 |-> <<n - 1, 2 * n - 1>>]
\* Bytes 9 to 15 from their lowest bit up; bits 0 and 1 of byte 13 are no buttons.
ButtonRows ==
  [n \in 1..51 |->
     LET bit == IF n <= 32 THEN n - 1 ELSE n + 1
     IN <<n - 1, 9 + bit \div 8, 2^(bit % 8)>>]

SliderItems == 23
ButtonItems == [n \in 1..51 |-> NoLight]
EncoderItems == 9

SliderNames == 23
EncoderNames == 9
ButtonNames == 51
Names == [button |-> ButtonNames, slider |-> SliderNames, encoder |-> EncoderNames, grid |-> 0,
          feedback |-> 0]
Counts == [button |-> Len(ButtonItems), slider |-> SliderItems, encoder |-> EncoderItems, grid |-> 0,
           feedback |-> 0]

-----------------------------------------------------------------------------
Sizes == {17, 51}
Memory0 ==
  [hw |-> [s \in 0..73 |-> 0], enc |-> [i \in 0..8 |-> 0],
   jog |-> [i \in 0..1 |-> [pos |-> 0, value |-> 0, quadrant |-> 0, full |-> 0]]]

\* Mutant of JogFull: a wrap downwards is not a turn of the quadrant.
JogFullUpOnly(j, diff) ==
  255 * ((IF diff < -200 THEN j.quadrant + 1 ELSE j.quadrant) % 4) + ((j.value + diff) % 256)

\* The position on the full circle of four quadrants of 255.
JogFull(j, diff) ==
  255 * ((j.quadrant + (IF diff < -200 THEN 1 ELSE IF diff > 200 THEN 3 ELSE 0)) % 4)
  + ((j.value + diff) % 256)

\* One jog wheel: the wrap of its byte moves to another quadrant, the wrap of
\* the circle is taken out of the delta.
Jog(j, new) ==
  LET diff == new - j.pos
      full == JogFull(j, diff)
      raw == j.full - full
  IN [jog |-> [pos |-> new, value |-> (j.value + diff) % 256, full |-> full,
               quadrant |-> (j.quadrant + (IF diff < -200 THEN 1
                                           ELSE IF diff > 200 THEN 3 ELSE 0)) % 4],
      delta |-> -(IF raw > 800 THEN raw - 1024 ELSE IF raw < -800 THEN raw + 1024 ELSE raw)]

ReadJogs(m, b) ==
  LET turned == Moved(2, 0, [i \in 0..1 |-> b[1 + 4 * i]], [i \in 0..1 |-> m.jog[i].pos])
      k == ScanButtons(ButtonRows, 23, b, m.hw)
  IN [m |-> [m EXCEPT !.hw = k.hw,
                      !.jog = [i \in 0..1 |-> Jog(m.jog[i], b[1 + 4 * i]).jog]],
      ev |-> [n \in 1..Len(turned) |->
                Encoder(turned[n], Jog(m.jog[turned[n]], b[1 + 4 * turned[n]]).delta)]
             \o k.ev]

\* Nine nibbles from byte 1 on, told with ids 2 to 10.
ReadDials(m, b) ==
  LET enc == [i \in 0..8 |-> IF i % 2 = 0 THEN Low(b[1 + i \div 2]) ELSE High(b[1 + i \div 2])]
      s == ScanSliders(SliderRows, 4, b, m.hw)
  IN [m |-> [m EXCEPT !.hw = s.hw, !.enc = enc], ev |-> Steps(9, enc, m.enc, 2) \o s.ev]

ReadCb(m, rep) ==
  CASE rep.size = 17 -> ReadJogs(m, rep.b)
    [] rep.size = 51 -> ReadDials(m, rep.b)
    [] OTHER         -> Silent(m)

\* The device (external): seven stepped encoders, then the sliders.
Touches == ButtonTouches(17, ButtonRows) \cup SliderTouches(51, SliderRows, 4)
Sticky == {}
Knobs ==
  {Knob(2 + i, 16, {1}, 51, 1 + i \div 2, IF i % 2 = 0 THEN "low" ELSE "high") : i \in 0..6}
  \cup {Knob(i, 1024, {1, 50}, 17, 1 + 4 * i, "byte") : i \in 0..1}

-----------------------------------------------------------------------------
\* The image: lights, then at 100 the decks'. 64 to 99 are no bytes.
LightIds == 0..51
Places == 0..63
DeckPlaces == 100..131
Lights0 == [img |-> Dark(0..131), dirty |-> FALSE]

\* light_set: 8 cues of three bytes, then 8 single lights of the decks. The
\* mask of the brightness is 0x7F * 2.
LightBytes(id, st) ==
  LET bright == 2 * (st.w \div 2)
      cue == 100 + 3 * (id - 36)
  IN IF id < 36 THEN {<<id, bright>>}
     ELSE IF id < 44 THEN {<<cue, st.r>>, <<cue + 1, st.g>>, <<cue + 2, st.b>>}
     ELSE IF id < 52 THEN {<<100 + id - 20, bright>>}
     ELSE {}
LightSet(l, id, st) == [img |-> Put(l.img, LightBytes(id, st)), dirty |-> TRUE]

\* Mutant of LightFlush: the lights of the decks are forgotten.
LightFlushOnce(l, force) == Flush(l, force, <<Write(65, 0, l.img, Places)>>)

LightFlush(l, force) ==
  Flush(l, force, <<Write(65, 0, l.img, Places), Write(33, 0, l.img, DeckPlaces)>>)
Blank(l) == [l EXCEPT !.img = Blanked(l.img, Places \cup DeckPlaces)]

Opens == << <<3, 0>> >>
PollHandle == 0
===============================================================================
