------------------------------- MODULE Controls -------------------------------
(***************************************************************************)
(* What the drivers of ctlra/devices share: reports, the events of         *)
(* event.h, the loop over a table of controls, and images of lights.       *)
(*                                                                         *)
(* A report is a record [size, b] with b its bytes, counted from 0. A      *)
(* driver's usb_read_cb is an operator ReadCb(m, rep) from its memory and  *)
(* a report to [m, ev]: the new memory and the events it hands to          *)
(* event_func, in order. A driver's light_flush is an operator from its    *)
(* light memory to the same memory and the writes it submits.              *)
(***************************************************************************)
EXTENDS Integers, Sequences, FiniteSets, SequencesExt, FiniteSetsExt, Functions, Lists

\* An event: val is "pressed" of a button or square, the raw position of a
\* slider, the delta of an encoder. pos is the square of a grid.
Button(id, v) == [type |-> "button", id |-> id, pos |-> 0, val |-> v]
Slider(id, v) == [type |-> "slider", id |-> id, pos |-> 0, val |-> v]
Encoder(id, d) == [type |-> "encoder", id |-> id, pos |-> 0, val |-> d]
Grid(id, p, v) == [type |-> "grid", id |-> id, pos |-> p, val |-> v]

\* The 16 bit little endian word at offset o, as the drivers cast it.
Word(b, o) == b[o] + 256 * b[o + 1]

\* n & mask, for a mask of one bit.
Masked(n, mask) == IF (n \div mask) % 2 = 1 THEN mask ELSE 0

Low(byte) == byte % 16
High(byte) == byte \div 16

\* Mutant of Pressed: the masked byte is told as it is.
PressedRaw(v) == v

Pressed(v) == IF v > 0 THEN 1 ELSE 0

\* Row i of a C array.
Row(t, i) == t[i + 1]

Silent(m) == [m |-> m, ev |-> <<>>]

\* Those of n controls, in order, whose values now are not the ones remembered
\* in hw from slot base on.
Moved(n, base, now, hw) ==
  Only([i \in 1..n |-> i - 1], {i \in 0..(n - 1) : hw[base + i] # now[i]})

\* A loop over n controls: a value that differs from the remembered one is
\* remembered and told.
Scan(n, base, Value(_), Tell(_, _), hw) ==
  LET now == [i \in 0..(n - 1) |-> Value(i)]
      moved == Moved(n, base, now, hw)
  IN [hw |-> [s \in DOMAIN hw |->
                IF s - base \in DOMAIN now THEN now[s - base] ELSE hw[s]],
      ev |-> [k \in 1..Len(moved) |-> Tell(moved[k], now[moved[k]])]]

\* The loops most drivers have over a table of buttons and one of sliders.
ScanButtons(rows, base, b, hw) ==
  Scan(Len(rows), base,
       LAMBDA i : Masked(b[Row(rows, i)[2]], Row(rows, i)[3]),
       LAMBDA i, v : Button(i, Pressed(v)), hw)

ScanSliders(rows, shift, b, hw) ==
  Scan(Len(rows), 0, LAMBDA i : Word(b, Row(rows, i)[2] + shift),
       LAMBDA i, v : Slider(i, v), hw)

\* Mutant of EncoderWrap16: the wrap from 0 back to 15 is forgotten.
EncoderWrapForward(newer, older) ==
  IF newer > older \/ (newer = 0 /\ older = 15) THEN 1 ELSE -1

\* ctlra_dev_encoder_wrap_16: one detent up or down, whatever the distance.
EncoderWrap16(newer, older) ==
  IF newer = 15 /\ older = 0 THEN -1
  ELSE IF newer > older \/ (newer = 0 /\ older = 15) THEN 1
  ELSE -1

\* The loop over n stepped encoders: now[i] against old[i], told with id base + i.
Steps(n, now, old, base) ==
  LET moved == Moved(n, 0, now, old)
  IN [k \in 1..Len(moved) |->
        Encoder(base + moved[k], EncoderWrap16(now[moved[k]], old[moved[k]]))]

\* The list of pads in a message of a Mk3: pad, two bytes of pressure. It ends
\* at the first entry for pad 0 whose middle byte is zero.
PadEntries(b, at) ==
  LET over == {k \in 0..15 : b[at + 1 + 3 * k] = 0 /\ b[at + 2 + 3 * k] = 0}
  IN 0..(IF over = {} THEN 15 ELSE Min(over) - 1)
PadPressure(b, at, k) == 256 * Low(b[at + 2 + 3 * k]) + b[at + 3 + 3 * k]

\* A set of pads: pads not listed keep their state, the last entry counts.
PadsHit(b, at, hit) ==
  LET listed(i) == {k \in PadEntries(b, at) : b[at + 1 + 3 * k] = i}
  IN [i \in 0..15 |-> IF listed(i) = {} THEN hit[i]
                      ELSE Pressed(PadPressure(b, at, Max(listed(i))) - 128)]

PadSet(b, at, Pos(_), hit) ==
  Scan(16, 0, LAMBDA i : PadsHit(b, at, hit)[i], LAMBDA i, v : Grid(0, Pos(i), v), hit)

(***************************************************************************)
(* The device (external)                                                   *)
(***************************************************************************)

\* A posture of a control off its rest: the report that shows it, the bytes it
\* sets there, and the events that tell it.
TouchOf(size, bytes, evs) == [size |-> size, bytes |-> bytes, evs |-> evs]
Touch(size, bytes, ev) == TouchOf(size, bytes, {ev})

WordAt(o, v) == {<<o, v % 256>>, <<o + 1, v \div 256>>}

\* Sliders are tried at one position that needs both bytes, and at the top.
SliderPositions == {300, 4095}

\* An endless control: a ring of positions, as coded in a report at a byte.
Knob(id, ring, steps, size, at, code) ==
  [id |-> id, ring |-> ring, steps |-> steps, size |-> size, at |-> at, code |-> code]

KnobBytes(k, p) ==
  CASE k.code = "low"  -> {<<k.at, p>>}
    [] k.code = "high" -> {<<k.at, 16 * p>>}
    [] k.code = "byte" -> {<<k.at, p % 256>>}
    [] k.code = "word" -> WordAt(k.at, p)

\* The report of a size that shows a set of <<offset, value>> pairs.
ReportOf(size, bytes) ==
  [size |-> size,
   b |-> [o \in 0..(size - 1) |->
            MapThenSumSet(LAMBDA p : p[2], {p \in bytes : p[1] = o})]]

\* The postures of a table of buttons <<id, byte, mask>>, and of a table of
\* sliders <<id, byte>>.
ButtonTouches(size, rows) ==
  {Touch(size, {<<rows[i][2], rows[i][3]>>}, Button(i - 1, 1)) : i \in DOMAIN rows}

\* A list of pads: those of a set pressed, those of another released.
PadList(at, down, up) ==
  LET pads == SetToSortSeq(down \cup up, <)
  IN UNION {{<<at + 3 * k - 2, pads[k]>>, <<at + 3 * k - 1, IF pads[k] \in down THEN 65 ELSE 48>>} :
              k \in DOMAIN pads}

\* What a report of a size shows of the touches held, where nothing else is said.
Shown(size, held) == ReportOf(size, UNION {t.bytes : t \in {u \in held : u.size = size}})

SliderTouches(size, rows, shift) ==
  {Touch(size, WordAt(rows[i][2] + shift, v), Slider(i - 1, v)) :
     i \in DOMAIN rows, v \in SliderPositions}

(***************************************************************************)
(* Lights                                                                  *)
(***************************************************************************)

\* The status of a light, one channel per byte of the 32 bit colour.
Colour(w, r, g, b) == [w |-> w, r |-> r, g |-> g, b |-> b]
Off == Colour(0, 0, 0, 0)
White == Colour(255, 255, 255, 255)

NoLight == -1

\* The bytes of an array written in one statement each.
Put(img, bytes) ==
  LET new == [o \in {p[1] : p \in bytes} |-> (CHOOSE p \in bytes : p[1] = o)[2]]
  IN [i \in DOMAIN img |-> IF i \in DOMAIN new THEN new[i] ELSE img[i]]

Dark(places) == [i \in places |-> 0]
Blanked(img, places) == [i \in DOMAIN img |-> IF i \in places THEN 0 ELSE img[i]]

\* Mutant of Flush: the flag is cleared, whether the writes find room or not.
FlushClears(l, force, writes) ==
  [l |-> [l EXCEPT !.dirty = FALSE], writes |-> IF l.dirty \/ force THEN writes ELSE <<>>]

\* What a flush does that sends the given writes of its whole image, unless
\* nothing is dirty and nobody insists. No driver of these clears its flag.
Flush(l, force, writes) ==
  [l |-> l, writes |-> IF l.dirty \/ force THEN writes ELSE <<>>]

\* One submitted write: its size, its handle and the part of the image in it.
Write(size, handle, img, places) ==
  [size |-> size, handle |-> handle, img |-> Restrict(img, places)]
===============================================================================
