----------------------------- MODULE NiKontrolF1 -----------------------------
(***************************************************************************)
(* Native Instruments Kontrol F1 (devices/ni_kontrol_f1.c).                *)
(***************************************************************************)
EXTENDS Controls

\* <<id, byte>> and <<id, byte, mask>>
SliderRows ==
  << <<0, 6>>, <<1, 8>>, <<2, 10>>, <<3, 12>>, <<4, 14>>, <<5, 16>>, <<6, 18>>, <<7, 20>> >>
ButtonRows ==
  << <<0, 3, 128>>, <<1, 3, 64>>, <<2, 3, 32>>, <<3, 3, 16>>, <<4, 3, 8>>, <<5, 3, 4>>,
     <<6, 4, 128>>, <<7, 4, 64>>, <<8, 4, 32>>, <<9, 4, 16>>, <<10, 4, 8>>, <<11, 4, 4>>,
     <<12, 4, 2>> >>
GridMask(i) == 2^(7 - (i % 8))

\* The items: how many sliders, and the light of every button (fb_id).
SliderItems == 8
ButtonItems == <<19, 18, 17, 16, 15, NoLight, 42, 41, 40, 39, 22, 21, 20>>

\* get_name knows so many names, info declares so many controls: the encoder
\* has a name but is not declared.
SliderNames == 8
ButtonNames == 13
Names == [button |-> ButtonNames, slider |-> SliderNames, encoder |-> 1, grid |-> 0,
          feedback |-> 0]
Counts == [button |-> Len(ButtonItems), slider |-> SliderItems, encoder |-> 0, grid |-> 1,
           feedback |-> 0]
GridLights == 23..38

-----------------------------------------------------------------------------
Sizes == {22}

\* hw_values (sliders, buttons, grid) and the encoder, cleared by calloc.
Memory0 == [hw |-> [s \in 0..36 |-> 0], enc |-> [i \in {0} |-> 0]]

\* usb_read_cb
ReadCb(m, rep) ==
  IF rep.size # 22 THEN Silent(m)
  ELSE LET b == rep.b
           enc == [i \in {0} |-> Low(b[5])]
           s == ScanSliders(SliderRows, 0, b, m.hw)
           g == Scan(16, 21, LAMBDA i : Masked(b[1 + i \div 8], GridMask(i)),
                     LAMBDA i, v : Grid(0, i, Pressed(v)), s.hw)
           k == ScanButtons(ButtonRows, 8, b, g.hw)
       IN [m |-> [hw |-> k.hw, enc |-> enc],
           ev |-> s.ev \o Steps(1, enc, m.enc, 0) \o g.ev \o k.ev]

\* The device (external).
Touches ==
  ButtonTouches(22, ButtonRows) \cup SliderTouches(22, SliderRows, 0)
  \cup {Touch(22, {<<1 + i \div 8, GridMask(i)>>}, Grid(0, i, 1)) : i \in 0..15}
Sticky == {}
Knobs == {Knob(0, 16, {1}, 22, 5, "low")}

-----------------------------------------------------------------------------
\* The image: lights[79] and the byte of padding after it, which the second
\* byte of the last light is written to and which every flush sends.
Lights0 == [img |-> Dark(0..79), dirty |-> FALSE]
LightIds == 0..42

\* Mutant of LightSet: a pad's offset is doubled, though it has three bytes.
LightSetDoubled(l, id, st) ==
  LET n == id + 1
      bytes == {<<n, st.b % 128>>, <<n + 1, st.r % 128>>, <<n + 2, st.g % 128>>}
  IN [img |-> Put(l.img, IF n \in 24..39 THEN {<<p[1] + n - 24, p[2]>> : p \in bytes}
                         ELSE {<<n, st.w % 128>>}), dirty |-> TRUE]

\* light_set: single lights, pads of three bytes, the lowest buttons of two.
LightBytes(id, st) ==
  LET n == id + 1
      bright == st.w % 128
      pad == n + 2 * (n - 24)
      stop == 72 + 2 * (n - 40)
  IN IF n < 24 THEN {<<n, bright>>}
     ELSE IF n < 40
     THEN {<<pad, st.b % 128>>, <<pad + 1, st.r % 128>>, <<pad + 2, st.g % 128>>}
     ELSE {<<stop, bright>>, <<stop + 1, bright>>}
LightSet(l, id, st) ==
  IF id + 1 > 43 THEN l ELSE [img |-> Put(l.img, LightBytes(id, st)), dirty |-> TRUE]

\* light_flush: one report, and the flag stays set.
LightFlush(l, force) ==
  LET img == IF l.dirty \/ force THEN Put(l.img, {<<0, 128>>}) ELSE l.img
  IN Flush([l EXCEPT !.img = img], force, <<Write(81, 0, img, 0..79)>>)

\* Mutant of Blank: the count of lights is taken for the size of their bytes.
BlankCount(l) == [l EXCEPT !.img = Blanked(l.img, 1..43)]

\* disconnect: the memset reaches one byte past the array.
Blank(l) == [l EXCEPT !.img = Put(Blanked(l.img, 1..79), {<<0, 128>>})]

\* connect: <<interface, handle>>, and the handle poll reads from.
Opens == << <<0, 0>> >>
PollHandle == 0
===============================================================================
