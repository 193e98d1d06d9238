-------------------------- MODULE NiMaschineMikroMk2 --------------------------
(***************************************************************************)
(* Native Instruments Maschine Mikro Mk2                                   *)
(* (devices/ni_maschine_mikro_mk2.c).                                      *)
(***************************************************************************)
EXTENDS Controls, TLC

\* Bytes 1 to 4 from their highest bit down; byte 2 has five buttons.
ButtonRows ==
  [n \in 1..29 |->
     LET bit == IF n <= 13 THEN n - 1 ELSE n + 2
     IN <<n - 1, 1 + bit \div 8, 2^(7 - (bit % 8))>>]

ButtonItems ==
  << 12, 13, 14, 15, 16, 17, 18, 19, 8, 9, 10, 11, NoLight, 0, 1, 2, 3, 4, 5, 6, 7, 20, 21,
     22, 23, 24, 25, 26, 27 >>
FeedbackItems == 1

\* One list of names for every type. The encoder has the id after the buttons'.
ControlNames == 30
EncoderRotate == 29
Names == [t \in {"button", "slider", "encoder", "grid", "feedback"} |-> ControlNames]
Counts == [button |-> ControlNames - 1, slider |-> 0, encoder |-> 1, grid |-> 1,
           feedback |-> FeedbackItems]
GridLights == 28..43

-----------------------------------------------------------------------------
Sizes == {65, 6}

\* The pads' pad_idx advance together (idx); pressures are kept sorted in place.
Memory0 ==
  [hw |-> [s \in 0..28 |-> 0], enc |-> [i \in {0} |-> 0], idx |-> 0,
   pressures |-> [i \in 0..15 |-> [k \in 1..8 |-> 0]], pads |-> [i \in 0..15 |-> 0]]

PadValue(b, i) == b[2 * i + 1] + 256 * Low(b[2 * i + 2])

\* qsort_median sorts the pad's history in place.
Sorted(history) == SortSeq(history, LAMBDA x, y : x < y)
Median(history) == history[5]

\* One pass over the pads, with a different threshold for press and release.
PadPass(m, b) ==
  LET history == [i \in 0..15 |-> Sorted([m.pressures[i] EXCEPT ![m.idx + 1] = PadValue(b, i)])]
      on(i) == IF Median(history[i]) > 550 THEN 1
               ELSE IF Median(history[i]) < 100 THEN 0 ELSE m.pads[i]
      s == Scan(16, 0, LAMBDA i : on(i), LAMBDA i, v : Grid(0, i, v), m.pads)
  IN [m |-> [m EXCEPT !.idx = (@ + 1) % 8, !.pressures = history, !.pads = s.hw], ev |-> s.ev]

\* Mutant of Passes: once, as for the other drivers.
PassesOnce == 1
\* usb_read_cb goes over the same data so many times.
Passes == 11

ReadPads(m, b) ==
  LET after[n \in 0..Passes] ==
        IF n = 0 THEN Silent(m)
        ELSE LET r == after[n - 1]
                 s == PadPass(r.m, b)
             IN [m |-> s.m, ev |-> r.ev \o s.ev]
  IN after[Passes]

\* Further passes over these bytes find nothing new.
ReadButtons(m, b) ==
  LET enc == [i \in {0} |-> Low(b[5])]
      k == ScanButtons(ButtonRows, 0, b, m.hw)
  IN [m |-> [m EXCEPT !.hw = k.hw, !.enc = enc],
      ev |-> Steps(1, enc, m.enc, EncoderRotate) \o k.ev]

ReadCb(m, rep) ==
  CASE rep.size = 65 -> ReadPads(m, rep.b)
    [] rep.size = 6  -> ReadButtons(m, rep.b)
    [] OTHER         -> Silent(m)

\* The device (external). A pad is tried just above the threshold.
Touches ==
  ButtonTouches(6, ButtonRows)
  \cup {Touch(65, WordAt(2 * i + 1, 551), Grid(0, i, 1)) : i \in 0..15}
Sticky == {}
Knobs == {Knob(EncoderRotate, 16, {1}, 6, 5, "low")}

-----------------------------------------------------------------------------
\* The image: lights_endpoint, then lights[80].
LightIds == 0..43
Lights0 == [img |-> Dark(0..80), dirty |-> FALSE]

\* The first of a pad's three bytes.
PadAt(id) == 1 + 28 + 3 * (id - 28) + 2

\* light_set: the group button and the pads have three bytes. The id after the
\* last pad passes the tests and lands on a pad.
LightBytes(id, st) ==
  LET rgb(at) == {<<at, st.r % 128>>, <<at + 1, st.g % 128>>, <<at + 2, st.b % 128>>}
  IN IF id = 8 THEN rgb(9)
     ELSE IF id \in 28..43 THEN rgb(PadAt(id))
     ELSE {<<IF id > 8 THEN id + 3 ELSE id + 1, st.w % 128>>}
LightSet(l, id, st) ==
  IF id > 44 THEN l ELSE [img |-> Put(l.img, LightBytes(id, st)), dirty |-> TRUE]

LightFlush(l, force) ==
  LET img == IF l.dirty \/ force THEN Put(l.img, {<<0, 128>>}) ELSE l.img
  IN Flush([l EXCEPT !.img = img], force, <<Write(81, 0, img, 0..80)>>)

\* Mutant of PadLit: one byte too far.
PadLitBlue(l, i, on) ==
  LightFlush([img |-> Put(l.img, {<<1 + 28 + 4 + 3 * i, IF on THEN 127 ELSE 0>>}), dirty |-> TRUE],
             TRUE)
\* What a pad's press or release does to its green byte (usb_read_cb).
PadLit(l, i, on) ==
  LightFlush([img |-> Put(l.img, {<<1 + 28 + 3 + 3 * i, IF on THEN 127 ELSE 0>>}), dirty |-> TRUE],
             TRUE)

Blank(l) == [l EXCEPT !.img = Blanked(l.img, 1..80)]

\* blit_to_screen: four segments.
ScreenWrites == 4

Opens == << <<0, 0>> >>
PollHandle == 0
===============================================================================
