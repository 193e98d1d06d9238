----------------------------- MODULE NiKontrolZ1 -----------------------------
(***************************************************************************)
(* Native Instruments Kontrol Z1 (devices/ni_kontrol_z1.c).                *)
(***************************************************************************)
EXTENDS Controls

SliderRows ==
  << <<0, 1>>, <<1, 3>>, <<2, 5>>, <<3, 7>>, <<4, 9>>, <<5, 11>>, <<6, 13>>, <<7, 15>>,
     <<8, 17>>, <<9, 19>>, <<10, 21>>, <<11, 23>>, <<12, 25>>, <<13, 27>> >>
ButtonRows == << <<0, 29, 16>>, <<1, 29, 1>>, <<2, 29, 2>>, <<3, 29, 4>>, <<4, 29, 8>> >>

SliderItems == 14
ButtonItems == <<14, 15, 18, 16, 19>>
MeterItems == 2

SliderNames == 14
ButtonNames == 5
MeterNames == 2
Names == [button |-> ButtonNames, slider |-> SliderNames, encoder |-> 0, grid |-> 0,
          feedback |-> MeterNames]
Counts == [button |-> Len(ButtonItems), slider |-> SliderItems, encoder |-> 0, grid |-> 0,
           feedback |-> MeterItems]

-----------------------------------------------------------------------------
Sizes == {30}
Memory0 == [hw |-> [s \in 0..18 |-> 0]]

ReadCb(m, rep) ==
  IF rep.size # 30 THEN Silent(m)
  ELSE LET s == ScanSliders(SliderRows, 0, rep.b, m.hw)
           k == ScanButtons(ButtonRows, 14, rep.b, s.hw)
       IN [m |-> [hw |-> k.hw], ev |-> s.ev \o k.ev]

\* The device (external).
Touches == ButtonTouches(30, ButtonRows) \cup SliderTouches(30, SliderRows, 0)
Sticky == {}
Knobs == {}

-----------------------------------------------------------------------------
\* enum NI_KONTROL_Z1_LEDS: the FX buttons own the id after theirs.
FxOn == {16, 19}
LightIds == 0..20 \ {17, 20}
Lights0 == [img |-> Dark(0..20), dirty |-> FALSE]

\* light_set: the FX buttons have an orange and a blue byte.
LightBytes(id, st) ==
  IF id \in FxOn THEN {<<id, st.r>>, <<id + 1, st.b>>} ELSE {<<id, st.w % 128>>}
LightSet(l, id, st) ==
  IF id \notin LightIds THEN l
  ELSE [img |-> Put(l.img, LightBytes(id, st)), dirty |-> TRUE]

\* feedback_set: light_set of the seven lights of a meter, of which so many show.
FeedbackSet(l, meter, sevenths) ==
  IF meter > 1 THEN l
  ELSE [img |-> Put(l.img, {<<7 * meter + i, IF i < sevenths THEN 127 ELSE 0>> : i \in 0..6}),
        dirty |-> TRUE]

LightFlush(l, force) == Flush(l, force, <<Write(22, 0, l.img, 0..20)>>)
Blank(l) == [l EXCEPT !.img = Blanked(l.img, 0..20)]

Opens == << <<3, 0>> >>
PollHandle == 0
===============================================================================
