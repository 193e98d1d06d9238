----------------------------- MODULE NiKontrolS5 -----------------------------
(***************************************************************************)
(* Native Instruments Kontrol S5 (devices/ni_kontrol_s5.c): lights and     *)
(* screens; its reports are named on the terminal and decoded no further.  *)
(***************************************************************************)
EXTENDS Controls

\* Every control of every type has the name "Not Implemented".
Names == [button |-> 0, slider |-> 0, encoder |-> 0, grid |-> 0,
          feedback |-> 0]
Counts == Names

Sizes == {30, 79}
Memory0 == [hw |-> <<>>]
ReadCb(m, rep) == Silent(m)
Touches == {Touch(30, {<<1, 1>>}, Button(0, 1)), Touch(79, WordAt(1, 300), Slider(0, 300))}

-----------------------------------------------------------------------------
\* The image: lights_endpoint and lights[106] from 0, and the byte after them.
LightIds == 0..105
\* connect turns every light on, and flushes.
Lights0 == [img |-> [i \in 0..107 |-> IF i \in 1..106 THEN 255 ELSE 0], dirty |-> TRUE]

\* light_set: the low byte of the status, and no flag is set. A light 106 is
\* let through, into the byte after the array.
LightBytes(id, st) == {<<1 + id, st.b>>}
LightSet(l, id, st) ==
  IF id > 106 THEN l ELSE [l EXCEPT !.img = Put(@, LightBytes(id, st))]

\* light_flush: the same lights as left, right and mixer.
LightFlush(l, force) ==
  LET as(side) == Put(l.img, {<<0, side>>})
      img == IF l.dirty \/ force THEN as(130) ELSE l.img
  IN Flush([l EXCEPT !.img = img], force,
           <<Write(107, 0, as(128), 0..106), Write(107, 0, as(129), 0..106),
             Write(107, 0, as(130), 0..106)>>)

Blank(l) == [img |-> Blanked(l.img, 1..106), dirty |-> TRUE]

\* screen_get_data
ScreenHandle == 1
ScreenFlush(screen, flush) == IF screen > 1 \/ flush # 1 THEN 0 ELSE 1

Opens == << <<3, 0>>, <<4, 1>> >>
PollHandle == 0
===============================================================================
