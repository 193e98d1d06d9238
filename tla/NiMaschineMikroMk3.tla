-------------------------- MODULE NiMaschineMikroMk3 --------------------------
(***************************************************************************)
(* Native Instruments Maschine Mikro Mk3, its input                        *)
(* (devices/ni_maschine_mikro_mk3.c; MikroMk3Lights has its lights).       *)
(***************************************************************************)
EXTENDS Controls

\* Bytes 1 to 5 from their lowest bit up.
ButtonRows == [n \in 1..39 |-> <<n - 1, 1 + (n - 1) \div 8, 2^((n - 1) % 8)>>]

ButtonNames == 39
Names == [button |-> ButtonNames, slider |-> 1, encoder |-> 1, grid |-> 0,
          feedback |-> 0]
Counts == [button |-> 39, slider |-> 1, encoder |-> 1, grid |-> 1,
           feedback |-> 0]

-----------------------------------------------------------------------------
Sizes == {78, 128, 14}

\* known: the encoder's position has been read once (encoder_init).
Memory0 ==
  [hw |-> [s \in 0..38 |-> 0], enc |-> [i \in {0} |-> 0], known |-> FALSE, strip |-> 0,
   hit |-> [i \in 0..15 |-> 0]]

\* pads_decode_set: the rows of pads are counted from the other side.
PadPosition(i) == (3 - i \div 4) * 4 + (i % 4)
ReadPads(m, b, at) ==
  LET s == PadSet(b, at, PadPosition, m.hit)
  IN [m |-> [m EXCEPT !.hit = s.hw], ev |-> s.ev]

\* Both samples of a message.
ReadPadSets(m, b) ==
  LET first == ReadPads(m, b, 0)
      second == ReadPads(first.m, b, 64)
  IN [m |-> second.m, ev |-> first.ev \o second.ev]

\* The first position is not told.
Turned(m, enc) == IF m.known THEN Steps(1, enc, m.enc, 0) ELSE <<>>

\* decode_button, of the bytes from at on.
DecodeButton(m, rep, at) ==
  LET b == [o \in 0..13 |-> rep[at + o]]
      v == Word(b, 10)
      touched == v # 0 /\ v # m.strip
      enc == [i \in {0} |-> Low(b[7])]
      k == ScanButtons(ButtonRows, 0, b, m.hw)
  IN [m |-> [m EXCEPT !.hw = k.hw, !.enc = enc, !.known = TRUE,
                      !.strip = IF touched THEN v ELSE @],
      ev |-> (IF touched THEN <<Slider(0, v)>> ELSE <<>>) \o k.ev \o Turned(m, enc)]

\* usb_read_cb; its case of 81 bytes is MikroMk3Lights!Report.
ReadCb(m, rep) ==
  CASE rep.size = 78 ->
         LET first == DecodeButton(m, rep.b, 64)
             second == ReadPads(first.m, rep.b, 0)
         IN [m |-> second.m, ev |-> first.ev \o second.ev]
    [] rep.size = 128 -> ReadPadSets(m, rep.b)
    [] rep.size = 14  -> DecodeButton(m, rep.b, 0)
    [] OTHER          -> Silent(m)

\* The device (external). The bytes of a pad's touch name the pad.
Touches ==
  ButtonTouches(14, ButtonRows)
  \cup {Touch(14, WordAt(10, v), Slider(0, v)) : v \in {55, 200}}
  \cup {Touch(128, {<<0, i>>}, Grid(0, PadPosition(i), 1)) : i \in 0..15}
Sticky == {<<"slider", 0>>}

\* The pads of two samples, the buttons, or the pads of one and the buttons.
PadsOf(touches) == {CHOOSE i \in 0..15 : <<0, i>> \in t.bytes : t \in {u \in touches : u.size = 128}}
ButtonBytes(held, at) ==
  {<<p[1] + at, p[2]>> : p \in UNION {t.bytes : t \in {u \in held : u.size = 14}}}
ReportShown(size, hands, before, held) ==
  LET list(now, at) == PadList(at, PadsOf(now), PadsOf(hands \ now))
  IN CASE size = 128 -> ReportOf(128, list(before, 0) \cup list(held, 64))
       [] size = 78  -> ReportOf(78, list(held, 0) \cup ButtonBytes(held, 64))
       [] OTHER      -> Shown(size, held)
\* Which touches a report tells of, by the size they are declared with.
Shows(size) == IF size = 78 THEN {14, 128} ELSE {size}
Knobs == {Knob(0, 16, {1}, 14, 7, "low")}
===============================================================================
