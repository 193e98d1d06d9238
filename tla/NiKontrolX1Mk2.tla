---------------------------- MODULE NiKontrolX1Mk2 ----------------------------
(***************************************************************************)
(* Native Instruments Kontrol X1 Mk2 (devices/ni_kontrol_x1_mk2.c).        *)
(***************************************************************************)
EXTENDS Controls

SliderRows ==
  << <<0, 1>>, <<1, 3>>, <<2, 5>>, <<3, 7>>, <<4, 9>>, <<5, 11>>, <<6, 13>>, <<7, 15>> >>
\* Bytes 19 to 22 from their highest bit down, then five bits of byte 23.
ButtonRows ==
  [n \in 1..37 |-> <<n - 1, 19 + (n - 1) \div 8,
                     IF n <= 32 THEN 2^(7 - ((n - 1) % 8)) ELSE 2^(37 - n)>>]

SliderItems == 9
ButtonItems ==
  <<0, 1, 2, 3, 4, 5, 6, 7, 8, 9, 14, 15, 16, 17, 18, NoLight, 21, 22, 25, 26, 29, 30, 33, 34,
    19, 20, 23, 24, 27, 28, 31, 32, NoLight, NoLight, NoLight, NoLight, NoLight>>
FeedbackItems == 3

\* The encoders have names and are not declared.
SliderNames == 9
EncoderNames == 3
ButtonNames == 37
FeedbackNames == 3
Names == [button |-> ButtonNames, slider |-> SliderNames, encoder |-> EncoderNames, grid |-> 0,
          feedback |-> FeedbackNames]
Counts == [button |-> 37, slider |-> SliderItems, encoder |-> 0, grid |-> 0,
           feedback |-> FeedbackItems]

-----------------------------------------------------------------------------
Sizes == {31}
Memory0 == [hw |-> [s \in 0..44 |-> 0], enc |-> [i \in 0..2 |-> 0], strip |-> 0]

\* The touchstrip reads 0 when it is not touched, and at times in a slide.
ReadCb(m, rep) ==
  IF rep.size # 31 THEN Silent(m)
  ELSE LET b == rep.b
           enc == [i \in 0..2 |-> <<Low(b[17]), High(b[17]), Low(b[18])>>[i + 1]]
           v == Word(b, 27)
           touched == v # m.strip /\ v # 0
           s == ScanSliders(SliderRows, 0, b, m.hw)
           k == ScanButtons(ButtonRows, 8, b, s.hw)
       IN [m |-> [hw |-> k.hw, enc |-> enc, strip |-> IF touched THEN v ELSE m.strip],
           ev |-> s.ev \o Steps(3, enc, m.enc, 0) \o k.ev
                  \o (IF touched THEN <<Slider(8, v)>> ELSE <<>>)]

\* The device (external). The strip stays where it was left.
Touches ==
  ButtonTouches(31, ButtonRows) \cup SliderTouches(31, SliderRows, 0)
  \cup {Touch(31, WordAt(27, v), Slider(8, v)) : v \in {300, 1023}}
Sticky == {<<"slider", 8>>}
Knobs == {Knob(0, 16, {1}, 31, 17, "low"), Knob(1, 16, {1}, 31, 17, "high"),
          Knob(2, 16, {1}, 31, 18, "low")}

-----------------------------------------------------------------------------
\* The image: lights (35 lights, 16 more bytes for the colours), then at 100
\* the report of the digits and the strip (lights_81). 51 to 99 are no bytes.
LightIds == 0..34
Places == 0..50
Strip == 100..190
\* connect dims the segments and the orange half of the strip.
Lights0 ==
  [img |-> [i \in 0..190 |->
              IF i \in 101..148 \/ (i > 148 /\ i % 2 = 1) THEN 1 ELSE 0],
   dirty |-> FALSE]

\* light_set: the hotcues 19 to 26 take three bytes each.
LightBytes(id, st) ==
  LET hot == id + 2 * (id - 19)
  IN IF id \in 19..26 THEN {<<hot, st.r>>, <<hot + 1, st.g>>, <<hot + 2, st.b>>}
     ELSE {<<IF id >= 27 THEN id + 16 ELSE id, st.w % 128>>}
LightSet(l, id, st) ==
  IF id >= 35 THEN l ELSE [img |-> Put(l.img, LightBytes(id, st)), dirty |-> TRUE]

LightFlush(l, force) ==
  LET img == IF l.dirty \/ force THEN Put(l.img, {<<100, 129>>}) ELSE l.img
  IN Flush([l EXCEPT !.img = img], force,
           <<Write(52, 0, img, Places), Write(91, 0, img, Strip)>>)

\* feedback_digits: three digits without leading zeros; the sign goes into the
\* first of them, which is blank for two digits and less.
Segments == <<63, 48, 91, 121, 116, 109, 111, 56, 127, 124>>
Digit(v, d) == (v \div 10^(2 - d)) % 10
DigitShown(v, neg, d) ==
  LET n == Digit(v, d)
      bits == {i \in 0..7 : (Segments[n + 1] \div 2^i) % 2 = 1}
              \cup (IF neg /\ d = 0 THEN {0, 7} ELSE {})
      hidden == n = 0 /\ (d = 0 \/ (d = 1 /\ Digit(v, 0) = 0))
  IN IF hidden THEN {} ELSE bits

FeedbackDigits(l, display, value) ==
  LET v == IF value < 0 THEN -value ELSE value
      first == 101 + 24 * display
  IN IF display > 1 THEN l
     ELSE [l EXCEPT !.img =
             Put(@, UNION {{<<first + d * 8 + 7 - i,
                              IF i \in DigitShown(v, value < 0, d) THEN 255 ELSE 1>> :
                              i \in 0..7} : d \in 0..2})]

\* disconnect: the memset of lights takes the count of lights for its size.
Blank(l) == [l EXCEPT !.img = Blanked(l.img, (0..34) \cup Strip)]

Opens == << <<0, 0>> >>
PollHandle == 0
===============================================================================
