------------------------------ MODULE SpaceMouse ------------------------------
(***************************************************************************)
(* 3Dconnexion SpaceMouse Pro (devices/3dconnexion.c).                     *)
(***************************************************************************)
EXTENDS Controls

ButtonRows ==
  << <<0, 1, 1>>, <<1, 3, 128>>, <<2, 4, 2>>, <<3, 4, 1>>, <<4, 3, 64>>, <<5, 2, 16>>,
     <<6, 2, 32>>, <<7, 2, 64>>, <<8, 2, 128>>, <<9, 2, 1>>, <<10, 1, 4>>, <<11, 1, 16>>,
     <<12, 1, 32>>, <<13, 4, 4>>, <<14, 1, 2>> >>

ButtonNames == 15
SliderNames == 12
Names == [button |-> ButtonNames, slider |-> SliderNames, encoder |-> 0, grid |-> 0,
          feedback |-> 0]
\* connect fills the counts and then overwrites them with an info without any.
Counts == [button |-> 0, slider |-> 0, encoder |-> 0, grid |-> 0,
           feedback |-> 0]

-----------------------------------------------------------------------------
Sizes == {7, 13}
Memory0 == [hw |-> [i \in 0..5 |-> 0], buttons |-> [i \in 0..14 |-> 0]]

\* The masked bit is assigned to the field "pressed" of one bit.
ReadButtons(m, b) ==
  LET k == Scan(15, 0, LAMBDA i : Masked(b[Row(ButtonRows, i)[2]], Row(ButtonRows, i)[3]),
                LAMBDA i, v : Button(i, v % 2), m.buttons)
  IN [m |-> [m EXCEPT !.buttons = k.hw], ev |-> k.ev]

\* Two's complement of 16 bits, and its negation in as many.
Signed(word) == IF word >= 32768 THEN word - 65536 ELSE word
Negated(v) == IF v = -32768 THEN v ELSE -v

\* An axis has two sliders, one for either direction; the one it leaves is not
\* told that it went back to rest.
AxisEvent(i, v) ==
  IF v < 0 THEN Slider(2 * i, Negated(v)) ELSE Slider(2 * i + 1, v)

ReadAxes(m, b) ==
  LET a == Scan(6, 0, LAMBDA i : Signed(Word(b, 2 * i + 1)), AxisEvent, m.hw)
  IN [m |-> [m EXCEPT !.hw = a.hw], ev |-> a.ev]

\* usb_read_cb
ReadCb(m, rep) ==
  CASE rep.size = 7  -> ReadButtons(m, rep.b)
    [] rep.size = 13 -> ReadAxes(m, rep.b)
    [] OTHER         -> Silent(m)

\* The device (external).
Touches ==
  ButtonTouches(7, ButtonRows)
  \cup {Touch(13, WordAt(2 * i + 1, v % 65536),
              IF v < 0 THEN Slider(2 * i, -v) ELSE Slider(2 * i + 1, v)) :
          i \in 0..5, v \in {-300, 300}}
Sticky == {}
Knobs == {}

\* light_flush does nothing, as light_set.
LightFlush(force) == <<>>
===============================================================================
