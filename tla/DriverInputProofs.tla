--------------------------- MODULE DriverInputProofs ---------------------------
(***************************************************************************)
(* What the decoders can tell at all, for any report, whatever its bytes,  *)
(* and in any state of a driver's memory: every event of a decoder is of a *)
(* control that its driver has. DriverInput's runs try the touches of a    *)
(* device that works; these theorems do not ask the device to. The last    *)
(* part is about a wheel that is turned: what is told of it follows it.    *)
(***************************************************************************)
EXTENDS DriverInput, ListFacts

(***************************************************************************)
(* The operators the drivers share, as each of them instantiates them      *)
(***************************************************************************)

\* A driver's loop over a table leaves out what has not changed, as any other's.
LEMMA SameOnly ==
  ASSUME NEW s, NEW S
  PROVE  Jam!Only(s, S) = Only(s, S) /\ Mk3!Only(s, S) = Only(s, S)
  BY Zenon DEF Jam!Only, Mk3!Only, Only, Jam!Cardinality, Mk3!Cardinality, Cardinality

\* Which controls have changed does not depend on the driver.
LEMMA SameMoved ==
  ASSUME NEW n, NEW base, NEW now, NEW hw
  PROVE  /\ F1!Moved(n, base, now, hw) = Moved(n, base, now, hw)
         /\ S2!Moved(n, base, now, hw) = Moved(n, base, now, hw)
         /\ D2!Moved(n, base, now, hw) = Moved(n, base, now, hw)
         /\ Jam!Moved(n, base, now, hw) = Moved(n, base, now, hw)
         /\ Mikro2!Moved(n, base, now, hw) = Moved(n, base, now, hw)
         /\ Mikro3!Moved(n, base, now, hw) = Moved(n, base, now, hw)
         /\ Mk3!Moved(n, base, now, hw) = Moved(n, base, now, hw)
         /\ Mouse!Moved(n, base, now, hw) = Moved(n, base, now, hw)
         /\ Board!Moved(n, base, now, hw) = Moved(n, base, now, hw)
  BY Zenon DEF F1!Moved, S2!Moved, D2!Moved, Jam!Moved, Mikro2!Moved, Mikro3!Moved, Mk3!Moved,
     Mouse!Moved, Board!Moved, Moved, F1!Only, S2!Only, D2!Only, Jam!Only, Mikro2!Only,
     Mikro3!Only, Mk3!Only, Mouse!Only, Board!Only, Only, F1!Cardinality, S2!Cardinality,
     D2!Cardinality, Jam!Cardinality, Mikro2!Cardinality, Mikro3!Cardinality, Mk3!Cardinality,
     Mouse!Cardinality, Board!Cardinality, Cardinality

\* Nor does what the loop over a table of buttons tells and remembers.
LEMMA SameButtons ==
  ASSUME NEW rows, NEW base, NEW b, NEW hw
  PROVE  /\ F1!ScanButtons(rows, base, b, hw) = ScanButtons(rows, base, b, hw)
         /\ Z1!ScanButtons(rows, base, b, hw) = ScanButtons(rows, base, b, hw)
         /\ X1!ScanButtons(rows, base, b, hw) = ScanButtons(rows, base, b, hw)
         /\ S2!ScanButtons(rows, base, b, hw) = ScanButtons(rows, base, b, hw)
         /\ D2!ScanButtons(rows, base, b, hw) = ScanButtons(rows, base, b, hw)
         /\ Jam!ScanButtons(rows, base, b, hw) = ScanButtons(rows, base, b, hw)
         /\ Mikro2!ScanButtons(rows, base, b, hw) = ScanButtons(rows, base, b, hw)
         /\ Mikro3!ScanButtons(rows, base, b, hw) = ScanButtons(rows, base, b, hw)
         /\ Mk3!ScanButtons(rows, base, b, hw) = ScanButtons(rows, base, b, hw)
  BY Zenon DEF ScanButtons, Scan, Moved, Only, Cardinality, Masked, Row, Button, Pressed,
     F1!ScanButtons, F1!Scan, F1!Moved, F1!Only, F1!Cardinality, F1!Masked, F1!Row, F1!Button,
     F1!Pressed, Z1!ScanButtons, Z1!Scan, Z1!Moved, Z1!Only, Z1!Cardinality, Z1!Masked, Z1!Row,
     Z1!Button, Z1!Pressed, X1!ScanButtons, X1!Scan, X1!Moved, X1!Only, X1!Cardinality, X1!Masked,
     X1!Row, X1!Button, X1!Pressed, S2!ScanButtons, S2!Scan, S2!Moved, S2!Only, S2!Cardinality,
     S2!Masked, S2!Row, S2!Button, S2!Pressed, D2!ScanButtons, D2!Scan, D2!Moved, D2!Only,
     D2!Cardinality, D2!Masked, D2!Row, D2!Button, D2!Pressed, Jam!ScanButtons, Jam!Scan,
     Jam!Moved, Jam!Only, Jam!Cardinality, Jam!Masked, Jam!Row, Jam!Button, Jam!Pressed,
     Mikro2!ScanButtons, Mikro2!Scan, Mikro2!Moved, Mikro2!Only, Mikro2!Cardinality, Mikro2!Masked,
     Mikro2!Row, Mikro2!Button, Mikro2!Pressed, Mikro3!ScanButtons, Mikro3!Scan, Mikro3!Moved,
     Mikro3!Only, Mikro3!Cardinality, Mikro3!Masked, Mikro3!Row, Mikro3!Button, Mikro3!Pressed,
     Mk3!ScanButtons, Mk3!Scan, Mk3!Moved, Mk3!Only, Mk3!Cardinality, Mk3!Masked, Mk3!Row,
     Mk3!Button, Mk3!Pressed

\* Nor that over a table of sliders.
LEMMA SameSliders ==
  ASSUME NEW rows, NEW shift, NEW b, NEW hw
  PROVE  /\ F1!ScanSliders(rows, shift, b, hw) = ScanSliders(rows, shift, b, hw)
         /\ Z1!ScanSliders(rows, shift, b, hw) = ScanSliders(rows, shift, b, hw)
         /\ X1!ScanSliders(rows, shift, b, hw) = ScanSliders(rows, shift, b, hw)
         /\ S2!ScanSliders(rows, shift, b, hw) = ScanSliders(rows, shift, b, hw)
  BY Zenon DEF ScanSliders, Scan, Moved, Only, Cardinality, Word, Row, Slider, F1!ScanSliders,
     F1!Scan, F1!Moved, F1!Only, F1!Cardinality, F1!Word, F1!Row, F1!Slider, Z1!ScanSliders,
     Z1!Scan, Z1!Moved, Z1!Only, Z1!Cardinality, Z1!Word, Z1!Row, Z1!Slider, X1!ScanSliders,
     X1!Scan, X1!Moved, X1!Only, X1!Cardinality, X1!Word, X1!Row, X1!Slider, S2!ScanSliders,
     S2!Scan, S2!Moved, S2!Only, S2!Cardinality, S2!Word, S2!Row, S2!Slider

\* Nor that over the stepped encoders.
LEMMA SameSteps ==
  ASSUME NEW n, NEW now, NEW old, NEW base
  PROVE  /\ F1!Steps(n, now, old, base) = Steps(n, now, old, base)
         /\ X1!Steps(n, now, old, base) = Steps(n, now, old, base)
         /\ S2!Steps(n, now, old, base) = Steps(n, now, old, base)
         /\ D2!Steps(n, now, old, base) = Steps(n, now, old, base)
         /\ Jam!Steps(n, now, old, base) = Steps(n, now, old, base)
         /\ Mikro2!Steps(n, now, old, base) = Steps(n, now, old, base)
         /\ Mikro3!Steps(n, now, old, base) = Steps(n, now, old, base)
         /\ Mk3!Steps(n, now, old, base) = Steps(n, now, old, base)
  BY Zenon DEF Steps, Moved, Only, Cardinality, Encoder, EncoderWrap16, F1!Steps, F1!Moved,
     F1!Only, F1!Cardinality, F1!Encoder, F1!EncoderWrap16, X1!Steps, X1!Moved, X1!Only,
     X1!Cardinality, X1!Encoder, X1!EncoderWrap16, S2!Steps, S2!Moved, S2!Only, S2!Cardinality,
     S2!Encoder, S2!EncoderWrap16, D2!Steps, D2!Moved, D2!Only, D2!Cardinality, D2!Encoder,
     D2!EncoderWrap16, Jam!Steps, Jam!Moved, Jam!Only, Jam!Cardinality, Jam!Encoder,
     Jam!EncoderWrap16, Mikro2!Steps, Mikro2!Moved, Mikro2!Only, Mikro2!Cardinality,
     Mikro2!Encoder, Mikro2!EncoderWrap16, Mikro3!Steps, Mikro3!Moved, Mikro3!Only,
     Mikro3!Cardinality, Mikro3!Encoder, Mikro3!EncoderWrap16, Mk3!Steps, Mk3!Moved, Mk3!Only,
     Mk3!Cardinality, Mk3!Encoder, Mk3!EncoderWrap16

-----------------------------------------------------------------------------
(***************************************************************************)
(* Lists of events about given controls                                    *)
(***************************************************************************)

\* s is a list of events, and every one is about a control in K.
Tells(s, K) ==
  \E E : s \in Seq(E) /\ \A e \in E : Key(e) \in K

\* The controls of a type with given ids, and the squares of the grid.
Of(type, ids) == {<<type, i, 0>> : i \in ids}
Squares(places) == {<<"grid", 0, p>> : p \in places}

\* Nothing told is about nothing else.
LEMMA TellsNothing ==
  ASSUME NEW K
  PROVE  Tells(<<>>, K)
<1> DEFINE E == {}
<1>1. <<>> \in Seq(E)
  OBVIOUS
<1>2. \A d \in E : Key(d) \in K
  OBVIOUS
<1> HIDE DEF E
<1> QED  BY <1>1, <1>2 DEF Tells

\* One event, and one that is told under a condition.
LEMMA TellsOne ==
  ASSUME NEW K, NEW e, Key(e) \in K
  PROVE  Tells(<<e>>, K)
<1> DEFINE E == {e}
<1>1. <<e>> \in Seq(E)
  OBVIOUS
<1>2. \A d \in E : Key(d) \in K
  OBVIOUS
<1> HIDE DEF E
<1> QED  BY <1>1, <1>2 DEF Tells

\* A loop's events are about what each of its turns tells of.
LEMMA TellsEach ==
  ASSUME NEW K, NEW n \in Nat, NEW f, f = [k \in 1..n |-> f[k]],
         \A k \in 1..n : Key(f[k]) \in K
  PROVE  Tells(f, K)
<1> DEFINE E == {f[k] : k \in 1..n}
<1>1. f \in [1..n -> E]
  OBVIOUS
<1>2. f \in Seq(E)
  BY <1>1, SeqDef
<1>3. \A e \in E : Key(e) \in K
  OBVIOUS
<1> QED  BY <1>2, <1>3 DEF Tells

\* What is told one after the other.
LEMMA TellsBoth ==
  ASSUME NEW K, NEW s, NEW t, Tells(s, K), Tells(t, K)
  PROVE  Tells(s \o t, K)
<1>1. PICK E : s \in Seq(E) /\ \A e \in E : Key(e) \in K
  BY DEF Tells
<1>2. PICK F : t \in Seq(F) /\ \A e \in F : Key(e) \in K
  BY DEF Tells
<1>3. s \in Seq(E \cup F) /\ t \in Seq(E \cup F)
  <2>1. Len(s) \in Nat /\ s \in [1..Len(s) -> E] /\ Len(t) \in Nat /\ t \in [1..Len(t) -> F]
    BY <1>1, <1>2, LenProperties
  <2>2. s \in [1..Len(s) -> E \cup F] /\ t \in [1..Len(t) -> E \cup F]
    BY <2>1
  <2> QED  BY <2>1, <2>2, SeqDef
<1>4. s \o t \in Seq(E \cup F)
  BY <1>3, ConcatProperties
<1>5. \A e \in E \cup F : Key(e) \in K
  BY <1>1, <1>2
<1> QED  BY <1>4, <1>5 DEF Tells

\* What is told under a condition.
LEMMA TellsIf ==
  ASSUME NEW K, NEW c, NEW s, Tells(s, K)
  PROVE  Tells(IF c THEN s ELSE <<>>, K) /\ Tells(IF c THEN <<>> ELSE s, K)
  BY TellsNothing

\* What a decoder tells that returns a memory and these events.
LEMMA TellsOf ==
  ASSUME NEW K, NEW r, NEW ev, Tells(ev, K), \E mem1 : r = [m |-> mem1, ev |-> ev]
  PROVE  Tells(r.ev, K)
<1>1. PICK mem1 : r = [m |-> mem1, ev |-> ev]
  OBVIOUS
<1>2. r.ev = ev
  BY <1>1
<1> QED  BY <1>2

\* What has moved are controls of the table.
LEMMA MovedShape ==
  ASSUME NEW n \in Nat, NEW base, NEW now, NEW hw
  PROVE  Moved(n, base, now, hw) \in Seq(0..(n - 1))
<1> DEFINE rows == [i \in 1..n |-> i - 1]
<1>1. rows \in [1..n -> 0..(n - 1)]
  OBVIOUS
<1>2. rows \in Seq(0..(n - 1))
  BY <1>1, SeqDef
<1> QED  BY <1>2, OnlyShape DEF Moved

\* The k-th that has moved is a control of the table.
LEMMA MovedPlace ==
  ASSUME NEW n \in Nat, NEW s \in Seq(0..(n - 1))
  PROVE  Len(s) \in Nat /\ \A k \in 1..Len(s) : s[k] \in 0..(n - 1)
  BY LenProperties

\* The same of the loops that the drivers have for themselves.
LEMMA DriverMoved ==
  ASSUME NEW n \in Nat, NEW base, NEW now, NEW hw
  PROVE  /\ F1!Moved(n, base, now, hw) \in Seq(0..(n - 1))
         /\ S2!Moved(n, base, now, hw) \in Seq(0..(n - 1))
         /\ D2!Moved(n, base, now, hw) \in Seq(0..(n - 1))
         /\ Jam!Moved(n, base, now, hw) \in Seq(0..(n - 1))
         /\ Mikro2!Moved(n, base, now, hw) \in Seq(0..(n - 1))
         /\ Mikro3!Moved(n, base, now, hw) \in Seq(0..(n - 1))
         /\ Mk3!Moved(n, base, now, hw) \in Seq(0..(n - 1))
         /\ Mouse!Moved(n, base, now, hw) \in Seq(0..(n - 1))
         /\ Board!Moved(n, base, now, hw) \in Seq(0..(n - 1))
<1>1. Moved(n, base, now, hw) \in Seq(0..(n - 1))
  BY MovedShape
<1> QED  BY <1>1, SameMoved, ZenonT(40)

\* The loop over a table of buttons tells of buttons of the table,
LEMMA TableOfButtonsTold ==
  ASSUME NEW K, NEW rows, NEW base, NEW b, NEW hw,
         NEW n \in Nat, Len(rows) = n, Of("button", 0..(n - 1)) \subseteq K
  PROVE  Tells(ScanButtons(rows, base, b, hw).ev, K)
<1> DEFINE now == [i \in 0..(Len(rows) - 1) |-> Masked(b[Row(rows, i)[2]], Row(rows, i)[3])]
           moved == Moved(Len(rows), base, now, hw)
           ev == [k \in 1..Len(moved) |-> Button(moved[k], Pressed(now[moved[k]]))]
<1>1. ScanButtons(rows, base, b, hw).ev = ev
  BY Zenon DEF ScanButtons, Scan
<1>2. Len(moved) \in Nat /\ \A k \in 1..Len(moved) : moved[k] \in 0..(Len(rows) - 1)
  BY MovedShape, MovedPlace
<1>3. \A k \in 1..Len(moved) : Key(ev[k]) \in K
  <2> HIDE DEF moved, now
  <2> QED  BY <1>2 DEF Key, Button, Of
<1>4. Tells(ev, K)
  <2> HIDE DEF moved, now
  <2> QED  BY <1>2, <1>3, TellsEach
<1> QED  BY <1>1, <1>4

\* whichever driver it belongs to.
LEMMA ButtonsTold ==
  ASSUME NEW K, NEW rows, NEW base, NEW b, NEW hw,
         NEW n \in Nat, Len(rows) = n, Of("button", 0..(n - 1)) \subseteq K
  PROVE  /\ Tells(F1!ScanButtons(rows, base, b, hw).ev, K)
         /\ Tells(Z1!ScanButtons(rows, base, b, hw).ev, K)
         /\ Tells(X1!ScanButtons(rows, base, b, hw).ev, K)
         /\ Tells(S2!ScanButtons(rows, base, b, hw).ev, K)
         /\ Tells(D2!ScanButtons(rows, base, b, hw).ev, K)
         /\ Tells(Jam!ScanButtons(rows, base, b, hw).ev, K)
         /\ Tells(Mikro2!ScanButtons(rows, base, b, hw).ev, K)
         /\ Tells(Mikro3!ScanButtons(rows, base, b, hw).ev, K)
         /\ Tells(Mk3!ScanButtons(rows, base, b, hw).ev, K)
<1>1. Tells(ScanButtons(rows, base, b, hw).ev, K)
  BY TableOfButtonsTold
<1> QED  BY <1>1, SameButtons, ZenonT(40)

\* The loop over a table of sliders tells of sliders of the table,
LEMMA TableOfSlidersTold ==
  ASSUME NEW K, NEW rows, NEW shift, NEW b, NEW hw,
         NEW n \in Nat, Len(rows) = n, Of("slider", 0..(n - 1)) \subseteq K
  PROVE  Tells(ScanSliders(rows, shift, b, hw).ev, K)
<1> DEFINE now == [i \in 0..(Len(rows) - 1) |-> Word(b, Row(rows, i)[2] + shift)]
           moved == Moved(Len(rows), 0, now, hw)
           ev == [k \in 1..Len(moved) |-> Slider(moved[k], now[moved[k]])]
<1>1. ScanSliders(rows, shift, b, hw).ev = ev
  BY Zenon DEF ScanSliders, Scan
<1>2. Len(moved) \in Nat /\ \A k \in 1..Len(moved) : moved[k] \in 0..(Len(rows) - 1)
  BY MovedShape, MovedPlace
<1>3. \A k \in 1..Len(moved) : Key(ev[k]) \in K
  <2> HIDE DEF moved, now
  <2> QED  BY <1>2 DEF Key, Slider, Of
<1>4. Tells(ev, K)
  <2> HIDE DEF moved, now
  <2> QED  BY <1>2, <1>3, TellsEach
<1> QED  BY <1>1, <1>4

\* whichever driver it belongs to.
LEMMA SlidersTold ==
  ASSUME NEW K, NEW rows, NEW shift, NEW b, NEW hw,
         NEW n \in Nat, Len(rows) = n, Of("slider", 0..(n - 1)) \subseteq K
  PROVE  /\ Tells(F1!ScanSliders(rows, shift, b, hw).ev, K)
         /\ Tells(Z1!ScanSliders(rows, shift, b, hw).ev, K)
         /\ Tells(X1!ScanSliders(rows, shift, b, hw).ev, K)
         /\ Tells(S2!ScanSliders(rows, shift, b, hw).ev, K)
<1>1. Tells(ScanSliders(rows, shift, b, hw).ev, K)
  BY TableOfSlidersTold
<1> QED  BY <1>1, SameSliders, Zenon

\* The loop over stepped encoders tells of encoders from the base on,
LEMMA RowOfStepsTold ==
  ASSUME NEW K, NEW n \in Nat, NEW now, NEW old, NEW base \in Nat,
         Of("encoder", base..(base + n - 1)) \subseteq K
  PROVE  Tells(Steps(n, now, old, base), K)
<1> DEFINE moved == Moved(n, 0, now, old)
           ev == [k \in 1..Len(moved) |->
                    Encoder(base + moved[k], EncoderWrap16(now[moved[k]], old[moved[k]]))]
<1>1. Steps(n, now, old, base) = ev
  BY Zenon DEF Steps
<1>2. Len(moved) \in Nat /\ \A k \in 1..Len(moved) : moved[k] \in 0..(n - 1)
  BY MovedShape, MovedPlace
<1>3. \A k \in 1..Len(moved) : Key(ev[k]) \in K
  <2> HIDE DEF moved
  <2> QED  BY <1>2 DEF Key, Encoder, Of
<1>4. Tells(ev, K)
  <2> HIDE DEF moved
  <2> QED  BY <1>2, <1>3, TellsEach
<1> QED  BY <1>1, <1>4

\* whichever driver they belong to.
LEMMA StepsTold ==
  ASSUME NEW K, NEW n \in Nat, NEW now, NEW old, NEW base \in Nat,
         Of("encoder", base..(base + n - 1)) \subseteq K
  PROVE  /\ Tells(F1!Steps(n, now, old, base), K)
         /\ Tells(X1!Steps(n, now, old, base), K)
         /\ Tells(S2!Steps(n, now, old, base), K)
         /\ Tells(D2!Steps(n, now, old, base), K)
         /\ Tells(Jam!Steps(n, now, old, base), K)
         /\ Tells(Mikro2!Steps(n, now, old, base), K)
         /\ Tells(Mikro3!Steps(n, now, old, base), K)
         /\ Tells(Mk3!Steps(n, now, old, base), K)
<1>1. Tells(Steps(n, now, old, base), K)
  BY RowOfStepsTold
<1> QED  BY <1>1, SameSteps, ZenonT(40)

-----------------------------------------------------------------------------
(***************************************************************************)
(* One detent of a stepped encoder                                         *)
(***************************************************************************)

\* ctlra_dev_encoder_wrap_16 knows the direction of one detent at every position
\* of the ring of 16, at its wrap too, where the difference has the other sign.
LEMMA WrapDirection ==
  ASSUME NEW p \in 0..15
  PROVE  /\ EncoderWrap16((p + 1) % 16, p) = 1
         /\ EncoderWrap16((p - 1) % 16, p) = -1
         /\ (p + 1) % 16 # p /\ (p - 1) % 16 # p
<1>1. CASE p = 15
  BY <1>1 DEF EncoderWrap16
<1>2. CASE p = 0
  BY <1>2 DEF EncoderWrap16
<1>3. CASE p \in 1..14
  <2>1. (p + 1) % 16 = p + 1 /\ (p - 1) % 16 = p - 1
    BY <1>3
  <2> QED  BY <1>3, <2>1 DEF EncoderWrap16
<1> QED  BY <1>1, <1>2, <1>3

\* The places at which the values of n controls are not the remembered ones.
Changed(n, now, old) == {i \in 0..(n - 1) : old[0 + i] # now[i]}

\* When one control alone has changed, it alone has moved;
LEMMA MovedOne ==
  ASSUME NEW n \in Nat, NEW now, NEW old, NEW j \in 0..(n - 1), Changed(n, now, old) = {j}
  PROVE  Moved(n, 0, now, old) = <<j>>
<1> DEFINE rows == [i \in 1..n |-> i - 1]
           changed == {i \in 0..(n - 1) : old[0 + i] # now[i]}
           kept == {a \in DOMAIN rows : rows[a] \in changed}
<1>1. changed = {j}
  BY Zenon DEF Changed
<1>2. kept = {j + 1} /\ rows[j + 1] = j
  <2> HIDE DEF changed
  <2> QED  BY <1>1
<1>3. Cardinality(kept) = 1
  BY <1>2, FS_Singleton
<1>4. \A a \in kept : kept \cap 1..a = kept
  <2> HIDE DEF kept
  <2> QED  BY <1>2
<1>5. (CHOOSE a \in kept : Cardinality(kept \cap 1..a) = 1) = j + 1
  <2> HIDE DEF kept
  <2>1. \E a \in kept : Cardinality(kept \cap 1..a) = 1
    BY <1>2, <1>3, <1>4
  <2> QED  BY <1>2, <2>1
<1>6. Only(rows, changed)
        = [k \in 1..Cardinality(kept) |-> rows[CHOOSE a \in kept : Cardinality(kept \cap 1..a) = k]]
  BY Zenon DEF Only
<1>7. Only(rows, changed) = [k \in 1..1 |-> j]
  <2> HIDE DEF rows, changed, kept
  <2>1. \A k \in 1..1 : k = 1
    OBVIOUS
  <2>2. ASSUME NEW k \in 1..1
        PROVE  rows[CHOOSE a \in kept : Cardinality(kept \cap 1..a) = k] = j
    <3>1. k = 1
      BY <2>1
    <3> QED  BY <1>2, <1>5, <3>1, Zenon
  <2>3. [k \in 1..1 |-> rows[CHOOSE a \in kept : Cardinality(kept \cap 1..a) = k]]
          = [k \in 1..1 |-> j]
    BY <2>2, Zenon
  <2> QED  BY <1>3, <1>6, <2>3, Zenon
<1>8. Only(rows, changed) = <<j>>
  <2> HIDE DEF rows, changed
  <2> QED  BY <1>7
<1> QED  BY <1>8, Zenon DEF Moved

\* and when none has, nothing has.
LEMMA MovedNone ==
  ASSUME NEW n \in Nat, NEW now, NEW old, \A i \in 0..(n - 1) : old[i] = now[i]
  PROVE  Moved(n, 0, now, old) = <<>>
<1> DEFINE rows == [i \in 1..n |-> i - 1]
           changed == {i \in 0..(n - 1) : old[0 + i] # now[i]}
           kept == {a \in DOMAIN rows : rows[a] \in changed}
<1>1. kept = {}
  OBVIOUS
<1>2. Cardinality(kept) = 0
  BY <1>1, FS_EmptySet
<1>3. Only(rows, changed)
        = [k \in 1..Cardinality(kept) |-> rows[CHOOSE a \in kept : Cardinality(kept \cap 1..a) = k]]
  BY Zenon DEF Only
<1>4. Only(rows, changed) = <<>>
  <2> HIDE DEF rows, changed, kept
  <2> QED  BY <1>2, <1>3
<1> QED  BY <1>4, Zenon DEF Moved

\* A row of n encoders that has turned by one detent at one of them tells one step
\* of that encoder in the direction it went, wherever it was; a row at rest tells
\* nothing.
THEOREM OneStepTold ==
  ASSUME NEW n \in Nat, NEW base \in Nat, NEW old \in [0..(n - 1) -> 0..15]
  PROVE  /\ Steps(n, old, old, base) = <<>>
         /\ \A j \in 0..(n - 1), by \in {1, -1} :
              Steps(n, [old EXCEPT ![j] = (@ + by) % 16], old, base)
                = <<Encoder(base + j, by)>>
<1>1. Steps(n, old, old, base) = <<>>
  <2>1. Moved(n, 0, old, old) = <<>>
    BY MovedNone
  <2> QED  BY <2>1 DEF Steps
<1>2. ASSUME NEW j \in 0..(n - 1), NEW by \in {1, -1}
      PROVE  Steps(n, [old EXCEPT ![j] = (@ + by) % 16], old, base)
               = <<Encoder(base + j, by)>>
  <2> DEFINE now == [old EXCEPT ![j] = (@ + by) % 16]
             dir == EncoderWrap16(now[j], old[j])
             moved == Moved(n, 0, now, old)
  <2>1. now[j] = (old[j] + by) % 16 /\ old[j] \in 0..15
    OBVIOUS
  <2>2. dir = by /\ now[j] # old[j]
    <3> HIDE DEF now
    <3>1. CASE by = 1
      <4> DEFINE p == old[j]
      <4>1. now[j] = (p + 1) % 16 /\ p \in 0..15
        BY <2>1, <3>1
      <4>2. EncoderWrap16((p + 1) % 16, p) = 1 /\ (p + 1) % 16 # p
        <5> HIDE DEF p
        <5> QED  BY <4>1, WrapDirection, Zenon
      <4> QED  BY <3>1, <4>1, <4>2
    <3>2. CASE by = -1
      <4> DEFINE p == old[j]
      <4>1. now[j] = (p - 1) % 16 /\ p \in 0..15
        <5>1. p + by = p - 1
          BY <2>1, <3>2
        <5> QED  BY <2>1, <5>1
      <4>2. EncoderWrap16((p - 1) % 16, p) = -1 /\ (p - 1) % 16 # p
        <5> HIDE DEF p
        <5> QED  BY <4>1, WrapDirection, Zenon
      <4> QED  BY <3>2, <4>1, <4>2
    <3> QED  BY <3>1, <3>2
  <2>3. now[j] # old[j]
    BY <2>2
  <2>4. \A i \in 0..(n - 1) : i # j => now[i] = old[i]
    OBVIOUS
  <2>5. moved = <<j>>
    <3> HIDE DEF now
    <3>1. \A i \in 0..(n - 1) : 0 + i = i
      OBVIOUS
    <3>2. \A i : i \in Changed(n, now, old) <=> i = j
      BY <2>3, <2>4, <3>1 DEF Changed
    <3>3. Changed(n, now, old) = {j}
      BY <3>2
    <3> QED  BY <3>3, MovedOne, Zenon
  <2>6. Steps(n, now, old, base)
          = [k \in 1..Len(moved) |->
               Encoder(base + moved[k], EncoderWrap16(now[moved[k]], old[moved[k]]))]
    BY Zenon DEF Steps
  <2>7. Len(moved) = 1 /\ moved[1] = j
    <3> HIDE DEF moved
    <3> QED  BY <2>5
  <2>8. Steps(n, now, old, base) = [k \in 1..1 |-> Encoder(base + j, by)]
    <3>1. \A k \in 1..1 : moved[k] = j
      <4> HIDE DEF moved
      <4> QED  BY <2>7
    <3> HIDE DEF moved, now
    <3> QED  BY <2>2, <2>6, <2>7, <3>1
  <2>9. Steps(n, now, old, base) = <<Encoder(base + j, by)>>
    <3> HIDE DEF now
    <3> QED  BY <2>8
  <2> QED  BY <2>9
<1> QED  BY <1>1, <1>2

-----------------------------------------------------------------------------
(***************************************************************************)
(* What each driver tells                                                  *)
(***************************************************************************)

\* The controls whose events a driver's decoder has code for.
Tellable ==
  [f1      |-> Of("slider", 0..7) \cup Of("encoder", {0}) \cup Squares(0..15)
               \cup Of("button", 0..12),
   z1      |-> Of("slider", 0..13) \cup Of("button", 0..4),
   x1      |-> Of("slider", 0..8) \cup Of("encoder", 0..2) \cup Of("button", 0..36),
   s2      |-> Of("slider", 0..22) \cup Of("encoder", 0..10) \cup Of("button", 0..50),
   s5      |-> {},
   d2      |-> Of("slider", 0..8) \cup Of("encoder", 0..5) \cup Of("button", 0..58),
   jam     |-> Of("slider", 0..7) \cup Of("encoder", {0}) \cup Squares(0..63)
               \cup Of("button", 0..53),
   mikro2  |-> Squares(0..15) \cup Of("encoder", {29}) \cup Of("button", 0..28),
   mikro3  |-> Of("slider", {0}) \cup Of("encoder", {0}) \cup Squares(0..15)
               \cup Of("button", 0..38),
   mk3     |-> Of("slider", {0}) \cup Of("encoder", 0..8) \cup Squares(0..15)
               \cup Of("button", 0..72),
   mouse   |-> Of("slider", 0..11) \cup Of("button", 0..14),
   firmata |-> Of("button", {0})]

\* How long the tables of buttons and sliders are.
LEMMA TableSizes ==
  /\ Len(F1!ButtonRows) = 13 /\ Len(F1!SliderRows) = 8
  /\ Len(Z1!ButtonRows) = 5 /\ Len(Z1!SliderRows) = 14
  /\ Len(X1!ButtonRows) = 37 /\ Len(X1!SliderRows) = 8
  /\ Len(S2!ButtonRows) = 51 /\ Len(S2!SliderRows) = 23
  /\ Len(D2!ButtonRows) = 58 /\ Len(Jam!ButtonRows) = 54
  /\ Len(Mikro2!ButtonRows) = 29 /\ Len(Mikro3!ButtonRows) = 39
  /\ Len(Mk3!ButtonRows) = 72
<1>1. Len(F1!ButtonRows) = 13 /\ Len(F1!SliderRows) = 8
  BY DEF F1!ButtonRows, F1!SliderRows
<1>2. Len(Z1!ButtonRows) = 5 /\ Len(Z1!SliderRows) = 14
  BY DEF Z1!ButtonRows, Z1!SliderRows
<1>3. Len(X1!ButtonRows) = 37 /\ Len(X1!SliderRows) = 8
  BY DEF X1!ButtonRows, X1!SliderRows
<1>4. Len(S2!ButtonRows) = 51 /\ Len(S2!SliderRows) = 23
  BY DEF S2!ButtonRows, S2!SliderRows
<1>5. Len(D2!ButtonRows) = 58
  BY DEF D2!ButtonRows
<1>6. Len(Jam!ButtonRows) = 54
  BY DEF Jam!ButtonRows
<1>7. Len(Mikro2!ButtonRows) = 29 /\ Len(Mikro3!ButtonRows) = 39
  BY DEF Mikro2!ButtonRows, Mikro3!ButtonRows
<1>8. Len(Mk3!ButtonRows) = 72
  BY DEF Mk3!ButtonRows
<1> QED  BY <1>1, <1>2, <1>3, <1>4, <1>5, <1>6, <1>7, <1>8

\* The Kontrol F1: faders, encoder, grid and buttons.
LEMMA F1Tells ==
  ASSUME NEW m, NEW rep
  PROVE  Tells(F1!ReadCb(m, rep).ev, Tellable["f1"])
<1> DEFINE K == Tellable["f1"]
           b == rep.b
           s == F1!ScanSliders(F1!SliderRows, 0, b, m.hw)
           enc == [i \in {0} |-> F1!Low(b[5])]
           now == [i \in 0..(16 - 1) |-> F1!Masked(b[1 + i \div 8], F1!GridMask(i))]
           moved == F1!Moved(16, 21, now, s.hw)
           squares == [k \in 1..Len(moved) |-> F1!Grid(0, moved[k], F1!Pressed(now[moved[k]]))]
           hw == [t \in DOMAIN s.hw |-> IF t - 21 \in DOMAIN now THEN now[t - 21] ELSE s.hw[t]]
           buttons == F1!ScanButtons(F1!ButtonRows, 8, b, hw)
<1>1. K = Of("slider", 0..7) \cup Of("encoder", {0}) \cup Squares(0..15) \cup Of("button", 0..12)
  BY DEF Tellable
<1> HIDE DEF K
<1>2. Tells(s.ev, K)
  <2>1. Of("slider", 0..(8 - 1)) \subseteq K
    BY <1>1
  <2> QED  BY <2>1, SlidersTold, TableSizes
<1>3. Tells(F1!Steps(1, enc, m.enc, 0), K)
  <2>1. Of("encoder", 0..(0 + 1 - 1)) \subseteq K
    BY <1>1 DEF Of
  <2> HIDE DEF enc
  <2> QED  BY <2>1, StepsTold
<1>4. Tells(squares, K)
  <2>1. moved \in Seq(0..(16 - 1))
    BY DriverMoved
  <2> HIDE DEF moved, now
  <2>2. Len(moved) \in Nat /\ \A k \in 1..Len(moved) : moved[k] \in 0..(16 - 1)
    BY <2>1, MovedPlace
  <2>3. \A k \in 1..Len(moved) : Key(squares[k]) \in K
    BY <1>1, <2>2 DEF F1!Grid, Key, Squares
  <2> QED  BY <2>2, <2>3, TellsEach
<1>5. Tells(buttons.ev, K)
  <2>1. Of("button", 0..(13 - 1)) \subseteq K
    BY <1>1
  <2> HIDE DEF hw
  <2> QED  BY <2>1, ButtonsTold, TableSizes
<1>6. CASE rep.size = 22
  <2> DEFINE ev == s.ev \o F1!Steps(1, enc, m.enc, 0) \o squares \o buttons.ev
  <2>1. \E mem1 : F1!ReadCb(m, rep) = [m |-> mem1, ev |-> ev]
    BY <1>6, Zenon DEF F1!ReadCb, F1!Scan
  <2> HIDE DEF s, enc, squares, buttons
  <2>2. Tells(ev, K)
    BY <1>2, <1>3, <1>4, <1>5, TellsBoth
  <2> HIDE DEF ev
  <2> QED  BY <2>1, <2>2, TellsOf DEF K
<1>7. CASE rep.size # 22
  BY <1>7, TellsNothing DEF F1!ReadCb, F1!Silent
<1> QED  BY <1>6, <1>7

\* The Kontrol Z1: faders and buttons.
LEMMA Z1Tells ==
  ASSUME NEW m, NEW rep
  PROVE  Tells(Z1!ReadCb(m, rep).ev, Tellable["z1"])
<1> DEFINE K == Tellable["z1"]
           s == Z1!ScanSliders(Z1!SliderRows, 0, rep.b, m.hw)
           buttons == Z1!ScanButtons(Z1!ButtonRows, 14, rep.b, s.hw)
<1>1. Of("slider", 0..(14 - 1)) \subseteq K /\ Of("button", 0..(5 - 1)) \subseteq K
  BY DEF Tellable
<1> HIDE DEF K
<1>2. Tells(s.ev, K)
  BY <1>1, SlidersTold, TableSizes
<1>3. Tells(buttons.ev, K)
  <2> HIDE DEF s
  <2> QED  BY <1>1, ButtonsTold, TableSizes
<1>4. CASE rep.size = 30
  <2> DEFINE ev == s.ev \o buttons.ev
  <2>1. \E mem1 : Z1!ReadCb(m, rep) = [m |-> mem1, ev |-> ev]
    BY <1>4, Zenon DEF Z1!ReadCb
  <2> HIDE DEF s, buttons
  <2>2. Tells(ev, K)
    BY <1>2, <1>3, TellsBoth
  <2> HIDE DEF ev
  <2> QED  BY <2>1, <2>2, TellsOf DEF K
<1>5. CASE rep.size # 30
  BY <1>5, TellsNothing DEF Z1!ReadCb, Z1!Silent
<1> QED  BY <1>4, <1>5

\* The Kontrol X1 Mk2: dials, encoders, buttons and the strip.
LEMMA X1Tells ==
  ASSUME NEW m, NEW rep
  PROVE  Tells(X1!ReadCb(m, rep).ev, Tellable["x1"])
<1> DEFINE K == Tellable["x1"]
           b == rep.b
           enc == [i \in 0..2 |-> <<X1!Low(b[17]), X1!High(b[17]), X1!Low(b[18])>>[i + 1]]
           v == X1!Word(b, 27)
           s == X1!ScanSliders(X1!SliderRows, 0, b, m.hw)
           buttons == X1!ScanButtons(X1!ButtonRows, 8, b, s.hw)
           strip == IF v # m.strip /\ v # 0 THEN <<X1!Slider(8, v)>> ELSE <<>>
<1>1. /\ Of("slider", 0..(8 - 1)) \subseteq K /\ Of("button", 0..(37 - 1)) \subseteq K
      /\ Of("encoder", 0..(0 + 3 - 1)) \subseteq K /\ <<"slider", 8, 0>> \in K
  BY DEF Tellable, Of
<1> HIDE DEF K
<1>2. Tells(s.ev, K)
  BY <1>1, SlidersTold, TableSizes
<1>3. Tells(X1!Steps(3, enc, m.enc, 0), K)
  <2> HIDE DEF enc
  <2> QED  BY <1>1, StepsTold
<1>4. Tells(buttons.ev, K)
  <2> HIDE DEF s
  <2> QED  BY <1>1, ButtonsTold, TableSizes
<1>5. Tells(strip, K)
  <2>1. Key(X1!Slider(8, v)) \in K
    BY <1>1 DEF Key, X1!Slider
  <2>2. Tells(<<X1!Slider(8, v)>>, K)
    BY <2>1, TellsOne
  <2> QED  BY <2>2, TellsIf
<1>6. CASE rep.size = 31
  <2> DEFINE ev == s.ev \o X1!Steps(3, enc, m.enc, 0) \o buttons.ev \o strip
  <2>1. \E mem1 : X1!ReadCb(m, rep) = [m |-> mem1, ev |-> ev]
    BY <1>6, Zenon DEF X1!ReadCb
  <2> HIDE DEF s, enc, buttons, strip
  <2>2. Tells(ev, K)
    BY <1>2, <1>3, <1>4, <1>5, TellsBoth
  <2> HIDE DEF ev
  <2> QED  BY <2>1, <2>2, TellsOf DEF K
<1>7. CASE rep.size # 31
  BY <1>7, TellsNothing DEF X1!ReadCb, X1!Silent
<1> QED  BY <1>6, <1>7

\* The Kontrol S2 Mk2: wheels and buttons in one report, stepped encoders and
\* faders in the other.
LEMMA S2Tells ==
  ASSUME NEW m, NEW rep
  PROVE  Tells(S2!ReadCb(m, rep).ev, Tellable["s2"])
<1> DEFINE K == Tellable["s2"]
           b == rep.b
<1>1. /\ Of("slider", 0..(23 - 1)) \subseteq K /\ Of("button", 0..(51 - 1)) \subseteq K
      /\ Of("encoder", 2..(2 + 9 - 1)) \subseteq K /\ Of("encoder", 0..1) \subseteq K
  BY DEF Tellable, Of
<1> HIDE DEF K, b
<1>2. Tells(S2!ReadJogs(m, b).ev, K)
  <2> DEFINE turned == S2!Moved(2, 0, [i \in 0..1 |-> b[1 + 4 * i]], [i \in 0..1 |-> m.jog[i].pos])
             wheels == [n \in 1..Len(turned) |->
                          S2!Encoder(turned[n],
                                     S2!Jog(m.jog[turned[n]], b[1 + 4 * turned[n]]).delta)]
             buttons == S2!ScanButtons(S2!ButtonRows, 23, b, m.hw)
             ev == wheels \o buttons.ev
  <2>1. \E mem1 : S2!ReadJogs(m, b) = [m |-> mem1, ev |-> ev]
    BY Zenon DEF S2!ReadJogs
  <2>2. Tells(buttons.ev, K)
    BY <1>1, ButtonsTold, TableSizes
  <2>3. turned \in Seq(0..(2 - 1))
    BY DriverMoved
  <2> HIDE DEF turned, buttons
  <2>4. Len(turned) \in Nat /\ \A n \in 1..Len(turned) : turned[n] \in 0..(2 - 1)
    BY <2>3, MovedPlace
  <2>5. \A n \in 1..Len(turned) : Key(wheels[n]) \in K
    BY <1>1, <2>4 DEF S2!Encoder, Key, Of
  <2>6. Tells(wheels, K)
    BY <2>4, <2>5, TellsEach
  <2> HIDE DEF wheels
  <2>7. Tells(ev, K)
    BY <2>2, <2>6, TellsBoth
  <2> HIDE DEF ev
  <2> QED  BY <2>1, <2>7, TellsOf
<1>3. Tells(S2!ReadDials(m, b).ev, K)
  <2> DEFINE enc == [i \in 0..8 |-> IF i % 2 = 0 THEN S2!Low(b[1 + i \div 2])
                                    ELSE S2!High(b[1 + i \div 2])]
             s == S2!ScanSliders(S2!SliderRows, 4, b, m.hw)
             ev == S2!Steps(9, enc, m.enc, 2) \o s.ev
  <2>1. \E mem1 : S2!ReadDials(m, b) = [m |-> mem1, ev |-> ev]
    BY Zenon DEF S2!ReadDials
  <2>2. Tells(s.ev, K)
    BY <1>1, SlidersTold, TableSizes
  <2> HIDE DEF enc, s
  <2>3. Tells(S2!Steps(9, enc, m.enc, 2), K)
    BY <1>1, StepsTold
  <2>4. Tells(ev, K)
    BY <2>2, <2>3, TellsBoth
  <2> HIDE DEF ev
  <2> QED  BY <2>1, <2>4, TellsOf
<1>4. CASE rep.size = 17
  BY <1>2, <1>4 DEF S2!ReadCb, b, K
<1>5. CASE rep.size = 51
  BY <1>3, <1>5 DEF S2!ReadCb, b, K
<1>6. CASE rep.size \notin {17, 51}
  BY <1>6, TellsNothing DEF S2!ReadCb, S2!Silent
<1> QED  BY <1>4, <1>5, <1>6

\* The Kontrol S5 tells nothing.
LEMMA S5Tells ==
  ASSUME NEW m, NEW rep
  PROVE  Tells(S5!ReadCb(m, rep).ev, Tellable["s5"])
  BY TellsNothing DEF S5!ReadCb, S5!Silent

\* The Kontrol D2: dials and faders in one report, buttons, stepped encoders and
\* the strip in the other.
LEMMA D2Tells ==
  ASSUME NEW m, NEW rep
  PROVE  Tells(D2!ReadCb(m, rep).ev, Tellable["d2"])
<1> DEFINE K == Tellable["d2"]
           b == rep.b
<1>1. /\ Of("slider", 0..(8 - 1)) \subseteq K /\ Of("button", 0..(58 - 1)) \subseteq K
      /\ Of("encoder", 4..(4 + 2 - 1)) \subseteq K /\ Of("encoder", 0..(4 - 1)) \subseteq K
      /\ <<"slider", 8, 0>> \in K /\ <<"button", 58, 0>> \in K
  BY DEF Tellable, Of
<1> HIDE DEF K, b
<1>2. Tells(D2!ReadDials(m, b).ev, K)
  <2> DEFINE now == [i \in 0..3 |-> D2!Word(b, 2 * i + 1)]
             dial == [i \in 0..(4 - 1) |-> now[i]]
             turned == D2!Moved(4, 0, dial, m.dial)
             dials == [n \in 1..Len(turned) |->
                         D2!Encoder(turned[n], dial[turned[n]] - m.dial[turned[n]])]
             fader == [i \in 0..(8 - 1) |-> D2!Word(b, 2 * i + 9)]
             slid == D2!Moved(8, 4, fader, m.hw)
             faders == [n \in 1..Len(slid) |-> D2!Slider(slid[n], fader[slid[n]])]
             ev == dials \o faders
  <2>1. \E mem1 : D2!ReadDials(m, b) = [m |-> mem1, ev |-> ev]
    BY Zenon DEF D2!ReadDials, D2!Scan
  <2>2. turned \in Seq(0..(4 - 1)) /\ slid \in Seq(0..(8 - 1))
    <3> HIDE DEF dial, fader
    <3> QED  BY DriverMoved
  <2> HIDE DEF turned, slid, dial, fader
  <2>3. /\ Len(turned) \in Nat /\ \A n \in 1..Len(turned) : turned[n] \in 0..(4 - 1)
        /\ Len(slid) \in Nat /\ \A n \in 1..Len(slid) : slid[n] \in 0..(8 - 1)
    BY <2>2, MovedPlace
  <2>4. \A n \in 1..Len(turned) : Key(dials[n]) \in K
    BY <1>1, <2>3 DEF D2!Encoder, Key, Of
  <2>5. \A n \in 1..Len(slid) : Key(faders[n]) \in K
    BY <1>1, <2>3 DEF D2!Slider, Key, Of
  <2>6. Tells(dials, K)
    BY <2>3, <2>4, TellsEach
  <2>7. Tells(faders, K)
    BY <2>3, <2>5, TellsEach
  <2> HIDE DEF dials, faders
  <2>8. Tells(ev, K)
    BY <2>6, <2>7, TellsBoth
  <2> HIDE DEF ev
  <2> QED  BY <2>1, <2>8, TellsOf
<1>3. ASSUME NEW touch, NEW v
      PROVE  Tells(D2!ReadStrip(touch, v), K)
  <2> DEFINE touched == <<D2!Button(D2!TouchButton, D2!Pressed(v))>>
             position == <<D2!Slider(D2!StripSlider, v)>>
  <2>1. Tells(touched, K)
    <3>1. Key(D2!Button(D2!TouchButton, D2!Pressed(v))) \in K
      BY <1>1 DEF Key, D2!Button, D2!TouchButton
    <3> QED  BY <3>1, TellsOne
  <2>2. Tells(position, K)
    <3>1. Key(D2!Slider(D2!StripSlider, v)) \in K
      BY <1>1 DEF Key, D2!Slider, D2!StripSlider
    <3> QED  BY <3>1, TellsOne
  <2> HIDE DEF touched, position
  <2>3. Tells(IF D2!Pressed(v) # touch THEN touched ELSE <<>>, K)
    BY <2>1, TellsIf
  <2>4. Tells(IF v > 0 THEN position ELSE <<>>, K)
    BY <2>2, TellsIf
  <2>5. D2!ReadStrip(touch, v)
        = (IF D2!Pressed(v) # touch THEN touched ELSE <<>>) \o (IF v > 0 THEN position ELSE <<>>)
    BY Zenon DEF D2!ReadStrip, touched, position
  <2> QED  BY <2>3, <2>4, <2>5, TellsBoth
<1>4. Tells(D2!ReadButtons(m, b).ev, K)
  <2> DEFINE enc == [i \in {0, 1} |-> IF i = 0 THEN D2!High(b[1]) ELSE D2!Low(b[1])]
             buttons == D2!ScanButtons(D2!ButtonRows, 12, b, m.hw)
             strip == D2!ReadStrip(m.touch, D2!Word(b, 13))
             ev == buttons.ev \o D2!Steps(2, enc, m.enc, 4) \o strip
  <2>1. \E mem1 : D2!ReadButtons(m, b) = [m |-> mem1, ev |-> ev]
    BY Zenon DEF D2!ReadButtons
  <2>2. Tells(buttons.ev, K)
    BY <1>1, ButtonsTold, TableSizes
  <2>3. Tells(strip, K)
    BY <1>3
  <2> HIDE DEF enc, buttons, strip
  <2>4. Tells(D2!Steps(2, enc, m.enc, 4), K)
    BY <1>1, StepsTold
  <2>5. Tells(ev, K)
    BY <2>2, <2>3, <2>4, TellsBoth
  <2> HIDE DEF ev
  <2> QED  BY <2>1, <2>5, TellsOf
<1>5. CASE rep.size = 25
  BY <1>2, <1>5 DEF D2!ReadCb, b, K
<1>6. CASE rep.size = 17
  BY <1>4, <1>6 DEF D2!ReadCb, b, K
<1>7. CASE rep.size \notin {25, 17}
  BY <1>7, TellsNothing DEF D2!ReadCb, D2!Silent
<1> QED  BY <1>5, <1>6, <1>7

\* The Maschine Jam: strips in one report; grid, buttons and the encoder in the
\* other.
LEMMA JamTells ==
  ASSUME NEW m, NEW rep
  PROVE  Tells(Jam!ReadCb(m, rep).ev, Tellable["jam"])
<1> DEFINE K == Tellable["jam"]
           b == rep.b
<1>1. /\ Of("slider", 0..7) \subseteq K /\ Of("button", 0..(54 - 1)) \subseteq K
      /\ Of("encoder", 0..(0 + 1 - 1)) \subseteq K /\ Squares(0..(64 - 1)) \subseteq K
  BY DEF Tellable, Of
<1> HIDE DEF K, b
<1>2. Tells(Jam!ReadStrips(m, b).ev, K)
  <2> DEFINE strips == <<0, 1, 2, 3, 4, 5, 6, 7>>
             moved == {i \in 0..7 : Jam!StripMoved(m, b, i)}
             told_ == Jam!Only(strips, moved)
             ev == [n \in 1..Len(told_) |-> Jam!Slider(told_[n], Jam!StripWords(b, told_[n])[2])]
  <2>1. \E mem1 : Jam!ReadStrips(m, b) = [m |-> mem1, ev |-> ev]
    BY Zenon DEF Jam!ReadStrips
  <2>2. told_ \in Seq(0..(8 - 1))
    <3>1. strips \in Seq(0..(8 - 1))
      OBVIOUS
    <3> HIDE DEF strips, moved
    <3>2. Only(strips, moved) \in Seq(0..(8 - 1))
      BY <3>1, OnlyShape
    <3> QED  BY <3>2, SameOnly, Zenon
  <2> HIDE DEF told_
  <2>3. Len(told_) \in Nat /\ \A n \in 1..Len(told_) : told_[n] \in 0..(8 - 1)
    BY <2>2, MovedPlace
  <2>4. \A n \in 1..Len(told_) : Key(ev[n]) \in K
    BY <1>1, <2>3 DEF Jam!Slider, Key, Of
  <2>5. Tells(ev, K)
    BY <2>3, <2>4, TellsEach
  <2> HIDE DEF ev
  <2> QED  BY <2>1, <2>5, TellsOf
<1>3. Tells(Jam!ReadButtons(m, b).ev, K)
  <2> DEFINE now == [i \in 0..(64 - 1) |-> Jam!Masked(b[Jam!GridBit(i)[1]], Jam!GridBit(i)[2])]
             moved == Jam!Moved(64, 0, now, m.grid)
             squares == [n \in 1..Len(moved) |-> Jam!Grid(0, moved[n], now[moved[n]])]
             buttons == Jam!ScanButtons(Jam!ButtonRows, Jam!ButtonBase, b, m.hw)
             enc == [i \in {0} |-> Jam!Low(b[1])]
             ev == squares \o buttons.ev \o Jam!Steps(1, enc, m.enc, 0)
  <2>1. \E mem1 : Jam!ReadButtons(m, b) = [m |-> mem1, ev |-> ev]
    BY Zenon DEF Jam!ReadButtons, Jam!Scan
  <2>2. Tells(buttons.ev, K)
    BY <1>1, ButtonsTold, TableSizes
  <2>3. moved \in Seq(0..(64 - 1))
    <3> HIDE DEF now
    <3> QED  BY DriverMoved
  <2> HIDE DEF moved, now, buttons, enc
  <2>4. Len(moved) \in Nat /\ \A n \in 1..Len(moved) : moved[n] \in 0..(64 - 1)
    BY <2>3, MovedPlace
  <2>5. \A n \in 1..Len(moved) : Key(squares[n]) \in K
    BY <1>1, <2>4 DEF Jam!Grid, Key, Squares
  <2>6. Tells(squares, K)
    BY <2>4, <2>5, TellsEach
  <2>7. Tells(Jam!Steps(1, enc, m.enc, 0), K)
    BY <1>1, StepsTold
  <2> HIDE DEF squares
  <2>8. Tells(ev, K)
    BY <2>2, <2>6, <2>7, TellsBoth
  <2> HIDE DEF ev
  <2> QED  BY <2>1, <2>8, TellsOf
<1>4. CASE rep.size = 49
  BY <1>2, <1>4 DEF Jam!ReadCb, b, K
<1>5. CASE rep.size = 17
  BY <1>3, <1>5 DEF Jam!ReadCb, b, K
<1>6. CASE rep.size \notin {49, 17}
  BY <1>6, TellsNothing DEF Jam!ReadCb, Jam!Silent
<1> QED  BY <1>4, <1>5, <1>6

\* The 3D mouse: buttons in one report, both directions of its axes in the other.
LEMMA MouseTells ==
  ASSUME NEW m, NEW rep
  PROVE  Tells(Mouse!ReadCb(m, rep).ev, Tellable["mouse"])
<1> DEFINE K == Tellable["mouse"]
           b == rep.b
<1>1. Of("slider", 0..11) \subseteq K /\ Of("button", 0..(15 - 1)) \subseteq K
  BY DEF Tellable
<1> HIDE DEF K, b
<1>2. Tells(Mouse!ReadButtons(m, b).ev, K)
  <2> DEFINE now == [i \in 0..(15 - 1) |-> Mouse!Masked(b[Mouse!Row(Mouse!ButtonRows, i)[2]],
                                                        Mouse!Row(Mouse!ButtonRows, i)[3])]
             moved == Mouse!Moved(15, 0, now, m.buttons)
             ev == [n \in 1..Len(moved) |-> Mouse!Button(moved[n], now[moved[n]] % 2)]
  <2>1. \E mem1 : Mouse!ReadButtons(m, b) = [m |-> mem1, ev |-> ev]
    BY Zenon DEF Mouse!ReadButtons, Mouse!Scan
  <2>2. moved \in Seq(0..(15 - 1))
    <3> HIDE DEF now
    <3> QED  BY DriverMoved
  <2> HIDE DEF moved, now
  <2>3. Len(moved) \in Nat /\ \A n \in 1..Len(moved) : moved[n] \in 0..(15 - 1)
    BY <2>2, MovedPlace
  <2>4. \A n \in 1..Len(moved) : Key(ev[n]) \in K
    BY <1>1, <2>3 DEF Mouse!Button, Key, Of
  <2>5. Tells(ev, K)
    BY <2>3, <2>4, TellsEach
  <2> HIDE DEF ev
  <2> QED  BY <2>1, <2>5, TellsOf
<1>3. Tells(Mouse!ReadAxes(m, b).ev, K)
  <2> DEFINE now == [i \in 0..(6 - 1) |-> Mouse!Signed(Mouse!Word(b, 2 * i + 1))]
             moved == Mouse!Moved(6, 0, now, m.hw)
             ev == [n \in 1..Len(moved) |-> Mouse!AxisEvent(moved[n], now[moved[n]])]
  <2>1. \E mem1 : Mouse!ReadAxes(m, b) = [m |-> mem1, ev |-> ev]
    BY Zenon DEF Mouse!ReadAxes, Mouse!Scan
  <2>2. moved \in Seq(0..(6 - 1))
    <3> HIDE DEF now
    <3> QED  BY DriverMoved
  <2> HIDE DEF moved, now
  <2>3. Len(moved) \in Nat /\ \A n \in 1..Len(moved) : moved[n] \in 0..(6 - 1)
    BY <2>2, MovedPlace
  <2>4. ASSUME NEW i \in 0..(6 - 1), NEW v
        PROVE  Key(Mouse!AxisEvent(i, v)) \in K
    <3>1. Key(Mouse!AxisEvent(i, v)) \in {<<"slider", 2 * i, 0>>, <<"slider", 2 * i + 1, 0>>}
      BY DEF Mouse!AxisEvent, Mouse!Slider, Key
    <3> QED  BY <1>1, <3>1 DEF Of
  <2>5. \A n \in 1..Len(moved) : Key(ev[n]) \in K
    BY <2>3, <2>4
  <2>6. Tells(ev, K)
    BY <2>3, <2>5, TellsEach
  <2> HIDE DEF ev
  <2> QED  BY <2>1, <2>6, TellsOf
<1>4. CASE rep.size = 7
  BY <1>2, <1>4 DEF Mouse!ReadCb, b, K
<1>5. CASE rep.size = 13
  BY <1>3, <1>5 DEF Mouse!ReadCb, b, K
<1>6. CASE rep.size \notin {7, 13}
  BY <1>6, TellsNothing DEF Mouse!ReadCb, Mouse!Silent
<1> QED  BY <1>4, <1>5, <1>6

\* The footswitch of a Firmata board.
LEMMA BoardTells ==
  ASSUME NEW m, NEW rep
  PROVE  Tells(Board!ReadCb(m, rep).ev, Tellable["firmata"])
<1> DEFINE K == Tellable["firmata"]
           now == [i \in 0..(1 - 1) |-> Board!Pressed(Board!Word(rep.b, 0) - 512)]
           moved == Board!Moved(1, 0, now, m.hw)
           ev == [n \in 1..Len(moved) |-> Board!Button(moved[n], now[moved[n]])]
<1>1. <<"button", 0, 0>> \in K
  BY DEF Tellable, Of
<1> HIDE DEF K
<1>2. \E mem1 : Board!ReadCb(m, rep) = [m |-> mem1, ev |-> ev]
  BY Zenon DEF Board!ReadCb, Board!Scan
<1>3. moved \in Seq(0..(1 - 1))
  <2> HIDE DEF now
  <2> QED  BY DriverMoved
<1> HIDE DEF moved, now
<1>4. Len(moved) \in Nat /\ \A n \in 1..Len(moved) : moved[n] \in 0..(1 - 1)
  BY <1>3, MovedPlace
<1>5. \A n \in 1..Len(moved) : Key(ev[n]) \in K
  BY <1>1, <1>4 DEF Board!Button, Key
<1>6. Tells(ev, K)
  BY <1>4, <1>5, TellsEach
<1> HIDE DEF ev
<1> QED  BY <1>2, <1>6, TellsOf DEF K

\* The Maschine Mikro Mk3: buttons, strip and encoder, and pads, in reports of
\* the one, of the other and of both.
LEMMA Mikro3Tells ==
  ASSUME NEW m, NEW rep
  PROVE  Tells(Mikro3!ReadCb(m, rep).ev, Tellable["mikro3"])
<1> DEFINE K == Tellable["mikro3"]
<1>1. /\ <<"slider", 0, 0>> \in K /\ Of("button", 0..(39 - 1)) \subseteq K
      /\ Of("encoder", 0..(0 + 1 - 1)) \subseteq K /\ Squares(0..15) \subseteq K
  BY DEF Tellable, Of
<1> HIDE DEF K
<1>2. ASSUME NEW mem0, NEW b, NEW at
      PROVE  Tells(Mikro3!ReadPads(mem0, b, at).ev, K)
  <2> DEFINE now == [i \in 0..(16 - 1) |-> Mikro3!PadsHit(b, at, mem0.hit)[i]]
             moved == Mikro3!Moved(16, 0, now, mem0.hit)
             ev == [n \in 1..Len(moved) |->
                      Mikro3!Grid(0, Mikro3!PadPosition(moved[n]), now[moved[n]])]
  <2>1. \E mem1 : Mikro3!ReadPads(mem0, b, at) = [m |-> mem1, ev |-> ev]
    BY Zenon DEF Mikro3!ReadPads, Mikro3!PadSet, Mikro3!Scan
  <2>2. moved \in Seq(0..(16 - 1))
    <3> HIDE DEF now
    <3> QED  BY DriverMoved
  <2> HIDE DEF moved, now
  <2>3. Len(moved) \in Nat /\ \A n \in 1..Len(moved) : moved[n] \in 0..(16 - 1)
    BY <2>2, MovedPlace
  <2>4. ASSUME NEW i \in 0..(16 - 1), NEW v
        PROVE  Key(Mikro3!Grid(0, Mikro3!PadPosition(i), v)) \in K
    <3>1. Mikro3!PadPosition(i) \in 0..15
      BY DEF Mikro3!PadPosition
    <3> QED  BY <1>1, <3>1 DEF Mikro3!Grid, Key, Squares
  <2>5. \A n \in 1..Len(moved) : Key(ev[n]) \in K
    BY <2>3, <2>4
  <2>6. Tells(ev, K)
    BY <2>3, <2>5, TellsEach
  <2> HIDE DEF ev
  <2> QED  BY <2>1, <2>6, TellsOf
<1>3. ASSUME NEW r, NEW at
      PROVE  Tells(Mikro3!DecodeButton(m, r, at).ev, K)
  <2> DEFINE b == [o \in 0..13 |-> r[at + o]]
             v == Mikro3!Word(b, 10)
             enc == [i \in {0} |-> Mikro3!Low(b[7])]
             touch == <<Mikro3!Slider(0, v)>>
             strip == IF v # 0 /\ v # m.strip THEN touch ELSE <<>>
             buttons == Mikro3!ScanButtons(Mikro3!ButtonRows, 0, b, m.hw)
             turned == IF m.known THEN Mikro3!Steps(1, enc, m.enc, 0) ELSE <<>>
             ev == strip \o buttons.ev \o turned
  <2>1. \E mem1 : Mikro3!DecodeButton(m, r, at) = [m |-> mem1, ev |-> ev]
    BY Zenon DEF Mikro3!DecodeButton, Mikro3!Turned
  <2>2. Tells(strip, K)
    <3>1. Key(Mikro3!Slider(0, v)) \in K
      BY <1>1 DEF Mikro3!Slider, Key
    <3>2. Tells(touch, K)
      BY <3>1, TellsOne
    <3> HIDE DEF touch, v
    <3> QED  BY <3>2, TellsIf
  <2>3. Tells(buttons.ev, K)
    <3> HIDE DEF b
    <3> QED  BY <1>1, ButtonsTold, TableSizes
  <2>4. Tells(turned, K)
    <3> HIDE DEF enc
    <3>1. Tells(Mikro3!Steps(1, enc, m.enc, 0), K)
      BY <1>1, StepsTold
    <3> QED  BY <3>1, TellsIf
  <2> HIDE DEF strip, buttons, turned
  <2>5. Tells(ev, K)
    BY <2>2, <2>3, <2>4, TellsBoth
  <2> HIDE DEF ev
  <2> QED  BY <2>1, <2>5, TellsOf
<1>4. CASE rep.size = 78
  <2> DEFINE first == Mikro3!DecodeButton(m, rep.b, 64)
             second == Mikro3!ReadPads(first.m, rep.b, 0)
             ev == first.ev \o second.ev
  <2>1. Mikro3!ReadCb(m, rep) = [m |-> second.m, ev |-> ev]
    BY <1>4 DEF Mikro3!ReadCb
  <2>2. Tells(first.ev, K) /\ Tells(second.ev, K)
    BY <1>2, <1>3
  <2> HIDE DEF first, second
  <2>3. Tells(ev, K)
    BY <2>2, TellsBoth
  <2> HIDE DEF ev
  <2> QED  BY <2>1, <2>3 DEF K
<1>5. CASE rep.size = 128
  <2> DEFINE first == Mikro3!ReadPads(m, rep.b, 0)
             second == Mikro3!ReadPads(first.m, rep.b, 64)
             ev == first.ev \o second.ev
  <2>1. Mikro3!ReadCb(m, rep) = [m |-> second.m, ev |-> ev]
    BY <1>5 DEF Mikro3!ReadCb, Mikro3!ReadPadSets
  <2>2. Tells(first.ev, K) /\ Tells(second.ev, K)
    BY <1>2
  <2> HIDE DEF first, second
  <2>3. Tells(ev, K)
    BY <2>2, TellsBoth
  <2> HIDE DEF ev
  <2> QED  BY <2>1, <2>3 DEF K
<1>6. CASE rep.size = 14
  BY <1>3, <1>6 DEF Mikro3!ReadCb, K
<1>7. CASE rep.size \notin {78, 128, 14}
  BY <1>7, TellsNothing DEF Mikro3!ReadCb, Mikro3!Silent
<1> QED  BY <1>4, <1>5, <1>6, <1>7

\* The Maschine Mk3: pads in one report; the pedal, the strip, buttons, dials
\* and the encoder in the other.
LEMMA Mk3Tells ==
  ASSUME NEW m, NEW rep
  PROVE  Tells(Mk3!ReadCb(m, rep).ev, Tellable["mk3"])
<1> DEFINE K == Tellable["mk3"]
           b == rep.b
<1>1. /\ <<"slider", 0, 0>> \in K /\ Of("button", 0..(72 - 1)) \subseteq K
      /\ <<"button", 72, 0>> \in K /\ Of("encoder", 0..(0 + 1 - 1)) \subseteq K
      /\ Of("encoder", 1..8) \subseteq K /\ Squares(0..15) \subseteq K
  BY DEF Tellable, Of
<1> HIDE DEF K, b
<1>2. ASSUME NEW mem0, NEW at
      PROVE  Tells(Mk3!ReadPads(mem0, b, at).ev, K)
  <2> DEFINE now == [i \in 0..(16 - 1) |-> Mk3!PadsHit(b, at, mem0.hit)[i]]
             moved == Mk3!Moved(16, 0, now, mem0.hit)
             ev == [n \in 1..Len(moved) |-> Mk3!Grid(0, moved[n], now[moved[n]])]
  <2>1. \E mem1 : Mk3!ReadPads(mem0, b, at) = [m |-> mem1, ev |-> ev]
    BY Zenon DEF Mk3!ReadPads, Mk3!PadSet, Mk3!Scan
  <2>2. moved \in Seq(0..(16 - 1))
    <3> HIDE DEF now
    <3> QED  BY DriverMoved
  <2> HIDE DEF moved, now
  <2>3. Len(moved) \in Nat /\ \A n \in 1..Len(moved) : moved[n] \in 0..(16 - 1)
    BY <2>2, MovedPlace
  <2>4. \A n \in 1..Len(moved) : Key(ev[n]) \in K
    BY <1>1, <2>3 DEF Mk3!Grid, Key, Squares
  <2>5. Tells(ev, K)
    BY <2>3, <2>4, TellsEach
  <2> HIDE DEF ev
  <2> QED  BY <2>1, <2>5, TellsOf
<1>3. Tells(Mk3!ReadPedal(m, b), K)
  <2> DEFINE pedal == <<Mk3!Button(72, Mk3!PedalOf(b) % 2)>>
  <2>1. Key(Mk3!Button(72, Mk3!PedalOf(b) % 2)) \in K
    BY <1>1 DEF Mk3!Button, Key
  <2>2. Tells(pedal, K)
    BY <2>1, TellsOne
  <2>3. Mk3!ReadPedal(m, b) = IF Mk3!PedalOf(b) = m.pedal THEN <<>> ELSE pedal
    BY DEF Mk3!ReadPedal
  <2> HIDE DEF pedal
  <2> QED  BY <2>2, <2>3, TellsIf
<1>4. Tells(Mk3!ReadDials(m, b), K)
  <2> DEFINE rows == [i \in 1..8 |-> i - 1]
             turned == {i \in 0..7 :
                          m.known /\ Mk3!DialMoved(Mk3!Word(b, 12 + 2 * i) - m.dial[i])}
             moved == Mk3!Only(rows, turned)
             ev == [n \in 1..Len(moved) |->
                      Mk3!Encoder(moved[n] + 1,
                                  Mk3!Word(b, 12 + 2 * moved[n]) - m.dial[moved[n]])]
  <2>1. Mk3!ReadDials(m, b) = ev
    BY Zenon DEF Mk3!ReadDials
  <2>2. moved \in Seq(0..(8 - 1))
    <3>1. rows \in [1..8 -> 0..(8 - 1)]
      OBVIOUS
    <3>2. rows \in Seq(0..(8 - 1))
      BY <3>1, SeqDef
    <3> HIDE DEF rows, turned
    <3>3. Only(rows, turned) \in Seq(0..(8 - 1))
      BY <3>2, OnlyShape
    <3> QED  BY <3>3, SameOnly, Zenon
  <2> HIDE DEF moved
  <2>3. Len(moved) \in Nat /\ \A n \in 1..Len(moved) : moved[n] \in 0..(8 - 1)
    BY <2>2, MovedPlace
  <2>4. ASSUME NEW i \in 0..(8 - 1), NEW d
        PROVE  Key(Mk3!Encoder(i + 1, d)) \in K
    <3>1. i + 1 \in 1..8
      OBVIOUS
    <3> QED  BY <1>1, <3>1 DEF Mk3!Encoder, Key, Of
  <2>5. \A n \in 1..Len(moved) : Key(ev[n]) \in K
    BY <2>3, <2>4
  <2>6. Tells(ev, K)
    BY <2>3, <2>5, TellsEach
  <2> QED  BY <2>1, <2>6
<1>5. ASSUME NEW enc
      PROVE  Tells(Mk3!ReadMain(m, enc), K)
  <2>1. Tells(Mk3!Steps(1, enc, m.enc, 0), K)
    BY <1>1, StepsTold
  <2> QED  BY <2>1, TellsIf DEF Mk3!ReadMain
<1>6. Tells(Mk3!ReadControls(m, b).ev, K)
  <2> DEFINE v == Mk3!Word(b, 30)
             enc == [i \in {0} |-> Mk3!Low(b[11])]
             touch == <<Mk3!Slider(0, v)>>
             strip == IF m.known /\ v # 0 /\ v # m.strip THEN touch ELSE <<>>
             buttons == Mk3!ScanButtons(Mk3!ButtonRows, 0, b, m.hw)
             ev == Mk3!ReadPedal(m, b) \o strip \o buttons.ev \o Mk3!ReadDials(m, b)
                   \o Mk3!ReadMain(m, enc)
  <2>1. \E mem1 : Mk3!ReadControls(m, b) = [m |-> mem1, ev |-> ev]
    BY Zenon DEF Mk3!ReadControls
  <2>2. Tells(strip, K)
    <3>1. Key(Mk3!Slider(0, v)) \in K
      BY <1>1 DEF Mk3!Slider, Key
    <3>2. Tells(touch, K)
      BY <3>1, TellsOne
    <3> HIDE DEF touch, v
    <3> QED  BY <3>2, TellsIf
  <2>3. Tells(buttons.ev, K)
    BY <1>1, ButtonsTold, TableSizes
  <2> HIDE DEF strip, buttons, enc
  <2>4. Tells(ev, K)
    BY <1>3, <1>4, <1>5, <2>2, <2>3, TellsBoth
  <2> HIDE DEF ev
  <2> QED  BY <2>1, <2>4, TellsOf
<1>7. CASE rep.size = 128
  <2> DEFINE first == Mk3!ReadPads(m, b, 0)
             second == Mk3!ReadPads(first.m, b, 64)
             ev == first.ev \o second.ev
  <2>1. Mk3!ReadCb(m, rep) = [m |-> second.m, ev |-> ev]
    BY <1>7 DEF Mk3!ReadCb, Mk3!ReadPadSets, b
  <2>2. Tells(first.ev, K) /\ Tells(second.ev, K)
    BY <1>2
  <2> HIDE DEF first, second
  <2>3. Tells(ev, K)
    BY <2>2, TellsBoth
  <2> HIDE DEF ev
  <2> QED  BY <2>1, <2>3 DEF K
<1>8. CASE rep.size = 42
  BY <1>6, <1>8 DEF Mk3!ReadCb, b, K
<1>9. CASE rep.size \notin {128, 42}
  BY <1>9, TellsNothing DEF Mk3!ReadCb, Mk3!Silent
<1> QED  BY <1>7, <1>8, <1>9

\* The Maschine Mikro Mk2: eleven passes over the pads of the one report, the
\* encoder and the buttons of the other.
LEMMA Mikro2Tells ==
  ASSUME NEW m, NEW rep
  PROVE  Tells(Mikro2!ReadCb(m, rep).ev, Tellable["mikro2"])
<1> DEFINE K == Tellable["mikro2"]
           b == rep.b
<1>1. /\ Of("button", 0..(29 - 1)) \subseteq K /\ Of("encoder", 29..(29 + 1 - 1)) \subseteq K
      /\ Squares(0..15) \subseteq K
  BY DEF Tellable, Of
<1> HIDE DEF K, b
<1>2. ASSUME NEW mem0
      PROVE  Tells(Mikro2!PadPass(mem0, b).ev, K)
  <2> DEFINE history == [i \in 0..15 |->
                           Mikro2!Sorted([mem0.pressures[i] EXCEPT
                                            ![mem0.idx + 1] = Mikro2!PadValue(b, i)])]
             on(i) == IF Mikro2!Median(history[i]) > 550 THEN 1
                      ELSE IF Mikro2!Median(history[i]) < 100 THEN 0 ELSE mem0.pads[i]
             now == [i \in 0..(16 - 1) |-> on(i)]
             moved == Mikro2!Moved(16, 0, now, mem0.pads)
             ev == [n \in 1..Len(moved) |-> Mikro2!Grid(0, moved[n], now[moved[n]])]
  <2>1. \E mem1 : Mikro2!PadPass(mem0, b) = [m |-> mem1, ev |-> ev]
    BY Zenon DEF Mikro2!PadPass, Mikro2!Scan
  <2>2. moved \in Seq(0..(16 - 1))
    <3> HIDE DEF now
    <3> QED  BY DriverMoved
  <2> HIDE DEF moved, now
  <2>3. Len(moved) \in Nat /\ \A n \in 1..Len(moved) : moved[n] \in 0..(16 - 1)
    BY <2>2, MovedPlace
  <2>4. \A n \in 1..Len(moved) : Key(ev[n]) \in K
    BY <1>1, <2>3 DEF Mikro2!Grid, Key, Squares
  <2>5. Tells(ev, K)
    BY <2>3, <2>4, TellsEach
  <2> HIDE DEF ev
  <2> QED  BY <2>1, <2>5, TellsOf
<1>3. Tells(Mikro2!ReadPads(m, b).ev, K)
  <2> DEFINE Pass(r) == [m |-> Mikro2!PadPass(r.m, b).m, ev |-> r.ev \o Mikro2!PadPass(r.m, b).ev]
             r0 == [m |-> m, ev |-> <<>>]
             r1 == Pass(r0)
             r2 == Pass(r1)
             r3 == Pass(r2)
             r4 == Pass(r3)
             r5 == Pass(r4)
             r6 == Pass(r5)
             r7 == Pass(r6)
             r8 == Pass(r7)
             r9 == Pass(r8)
             r10 == Pass(r9)
             r11 == Pass(r10)
             passed == [n \in 0..11 |-> <<r0, r1, r2, r3, r4, r5, r6, r7, r8, r9, r10, r11>>[n + 1]]
             IsAfter(f) == f = [n \in 0..11 |-> IF n = 0 THEN r0 ELSE Pass(f[n - 1])]
             after == CHOOSE f : IsAfter(f)
  <2>1. Mikro2!ReadPads(m, b) = after[11]
    BY Zenon DEF Mikro2!ReadPads, Mikro2!Passes, Mikro2!Silent
  <2>2. ASSUME NEW r, Tells(r.ev, K)
        PROVE  Tells(Pass(r).ev, K)
    BY <1>2, <2>2, TellsBoth
  <2>3. Tells(r0.ev, K)
    BY TellsNothing
  <2> HIDE DEF Pass, r0
  <2>4. IsAfter(passed)
    <3> HIDE DEF r1, r2, r3, r4, r5, r6, r7, r8, r9, r10, r11
    <3>1. /\ passed[0] = r0 /\ passed[1] = r1 /\ passed[2] = r2 /\ passed[3] = r3
          /\ passed[4] = r4 /\ passed[5] = r5 /\ passed[6] = r6 /\ passed[7] = r7
          /\ passed[8] = r8 /\ passed[9] = r9 /\ passed[10] = r10 /\ passed[11] = r11
      OBVIOUS
    <3>2. passed = [n \in 0..11 |-> passed[n]]
      OBVIOUS
    <3> HIDE DEF passed
    <3>3. /\ passed[1] = Pass(passed[0]) /\ passed[2] = Pass(passed[1])
          /\ passed[3] = Pass(passed[2]) /\ passed[4] = Pass(passed[3])
          /\ passed[5] = Pass(passed[4]) /\ passed[6] = Pass(passed[5])
          /\ passed[7] = Pass(passed[6]) /\ passed[8] = Pass(passed[7])
          /\ passed[9] = Pass(passed[8]) /\ passed[10] = Pass(passed[9])
          /\ passed[11] = Pass(passed[10])
      BY <3>1 DEF r1, r2, r3, r4, r5, r6, r7, r8, r9, r10, r11
    <3>4. \A n \in 0..11 : passed[n] = IF n = 0 THEN r0 ELSE Pass(passed[n - 1])
      BY <3>1, <3>3
    <3> QED  BY <3>2, <3>4
  <2>5. IsAfter(after)
    <3> HIDE DEF IsAfter
    <3> QED  BY <2>4
  <2> HIDE DEF after
  <2>6. after[0] = r0 /\ \A n \in 1..11 : after[n] = Pass(after[n - 1])
    BY <2>5
  <2>7. \A n \in 1..11 : Tells(after[n - 1].ev, K) => Tells(after[n].ev, K)
    BY <2>2, <2>6
  <2>8. Tells(after[11].ev, K)
    <3>1. Tells(after[0].ev, K)
      BY <2>3, <2>6
    <3>2. Tells(after[1].ev, K) /\ Tells(after[2].ev, K) /\ Tells(after[3].ev, K)
      BY <2>7, <3>1
    <3>3. Tells(after[4].ev, K) /\ Tells(after[5].ev, K) /\ Tells(after[6].ev, K)
      BY <2>7, <3>2
    <3>4. Tells(after[7].ev, K) /\ Tells(after[8].ev, K) /\ Tells(after[9].ev, K)
      BY <2>7, <3>3
    <3> QED  BY <2>7, <3>4
  <2> QED  BY <2>1, <2>8
<1>4. Tells(Mikro2!ReadButtons(m, b).ev, K)
  <2> DEFINE enc == [i \in {0} |-> Mikro2!Low(b[5])]
             buttons == Mikro2!ScanButtons(Mikro2!ButtonRows, 0, b, m.hw)
             ev == Mikro2!Steps(1, enc, m.enc, 29) \o buttons.ev
  <2>1. \E mem1 : Mikro2!ReadButtons(m, b) = [m |-> mem1, ev |-> ev]
    BY Zenon DEF Mikro2!ReadButtons, Mikro2!EncoderRotate
  <2>2. Tells(buttons.ev, K)
    BY <1>1, ButtonsTold, TableSizes
  <2> HIDE DEF enc, buttons
  <2>3. Tells(Mikro2!Steps(1, enc, m.enc, 29), K)
    BY <1>1, StepsTold
  <2>4. Tells(ev, K)
    BY <2>2, <2>3, TellsBoth
  <2> HIDE DEF ev
  <2> QED  BY <2>1, <2>4, TellsOf
<1>5. CASE rep.size = 65
  BY <1>3, <1>5 DEF Mikro2!ReadCb, b, K
<1>6. CASE rep.size = 6
  BY <1>4, <1>6 DEF Mikro2!ReadCb, b, K
<1>7. CASE rep.size \notin {65, 6}
  BY <1>7, TellsNothing DEF Mikro2!ReadCb, Mikro2!Silent
<1> QED  BY <1>5, <1>6, <1>7

-----------------------------------------------------------------------------
(***************************************************************************)
(* Every driver                                                            *)
(***************************************************************************)

\* Any report, in any state of a driver's memory, has the driver tell of its
\* controls only: usb_read_cb never makes an id up from the bytes it reads.
THEOREM AnyReportTellable ==
  ASSUME NEW d \in AllDrivers, NEW m, NEW rep
  PROVE  Tells(UsbReadCb(d, m, rep).ev, Tellable[d])
<1>1. CASE d = "f1"       BY <1>1, F1Tells DEF UsbReadCb
<1>2. CASE d = "z1"       BY <1>2, Z1Tells DEF UsbReadCb
<1>3. CASE d = "x1"       BY <1>3, X1Tells DEF UsbReadCb
<1>4. CASE d = "s2"       BY <1>4, S2Tells DEF UsbReadCb
<1>5. CASE d = "s5"       BY <1>5, S5Tells DEF UsbReadCb
<1>6. CASE d = "d2"       BY <1>6, D2Tells DEF UsbReadCb
<1>7. CASE d = "jam"      BY <1>7, JamTells DEF UsbReadCb
<1>8. CASE d = "mikro2"   BY <1>8, Mikro2Tells DEF UsbReadCb
<1>9. CASE d = "mikro3"   BY <1>9, Mikro3Tells DEF UsbReadCb
<1>10. CASE d = "mk3"     BY <1>10, Mk3Tells DEF UsbReadCb
<1>11. CASE d = "mouse"   BY <1>11, MouseTells DEF UsbReadCb
<1>12. CASE d = "firmata" BY <1>12, BoardTells DEF UsbReadCb
<1> QED  BY <1>1, <1>2, <1>3, <1>4, <1>5, <1>6, <1>7, <1>8, <1>9, <1>10, <1>11, <1>12
         DEF AllDrivers

\* An application's tables have room for a control, or it is one that is known to
\* be outside of them (EventsDeclared).
IsDeclared(d, k) ==
  <<d, k[1], k[2]>> \in Undeclared \/ k[2] < Driver[d].counts[k[1]]

\* ctlra_info_get_name has a name for a control, or it need not (EventsNamed).
IsNamed(d, k) ==
  \/ <<d, k[1], k[2]>> \in Nameless
  \/ k[1] = "grid" \/ k[2] < Driver[d].names[k[1]]

\* What info says of each driver.
LEMMA InfoOf ==
  /\ Driver["f1"].counts = F1!Counts /\ Driver["f1"].names = F1!Names
  /\ Driver["z1"].counts = Z1!Counts /\ Driver["z1"].names = Z1!Names
  /\ Driver["x1"].counts = X1!Counts /\ Driver["x1"].names = X1!Names
  /\ Driver["s2"].counts = S2!Counts /\ Driver["s2"].names = S2!Names
  /\ Driver["s5"].counts = S5!Counts /\ Driver["s5"].names = S5!Names
  /\ Driver["d2"].counts = D2!Counts /\ Driver["d2"].names = D2!Names
  /\ Driver["jam"].counts = Jam!Counts /\ Driver["jam"].names = Jam!Names
  /\ Driver["mikro2"].counts = Mikro2!Counts /\ Driver["mikro2"].names = Mikro2!Names
  /\ Driver["mikro3"].counts = Mikro3!Counts /\ Driver["mikro3"].names = Mikro3!Names
  /\ Driver["mk3"].counts = Mk3!Counts /\ Driver["mk3"].names = Mk3!Names
  /\ Driver["mouse"].counts = Mouse!Counts /\ Driver["mouse"].names = Mouse!Names
  /\ Driver["firmata"].counts = Board!Counts /\ Driver["firmata"].names = Board!Names
  BY ZenonT(40) DEF Driver, About

\* Every control that a driver tells of is declared and has a name, or is known
\* not to.
LEMMA TellableKnown ==
  ASSUME NEW d \in AllDrivers, NEW k \in Tellable[d]
  PROVE  IsDeclared(d, k) /\ IsNamed(d, k)
<1>1. CASE d = "f1"
  <2>1. /\ Driver["f1"].counts["slider"] = 8 /\ Driver["f1"].counts["button"] = 13
        /\ Driver["f1"].counts["encoder"] = 0 /\ Driver["f1"].counts["grid"] = 1
        /\ Driver["f1"].names["slider"] = 8 /\ Driver["f1"].names["button"] = 13
        /\ Driver["f1"].names["encoder"] = 1
    BY InfoOf DEF F1!Counts, F1!Names, F1!ButtonItems, F1!SliderItems, F1!SliderNames,
       F1!ButtonNames
  <2>2. <<"f1", "encoder", 0>> \in Undeclared
    BY DEF Undeclared
  <2> QED  BY <1>1, <2>1, <2>2 DEF Tellable, IsDeclared, IsNamed, Of, Squares
<1>2. CASE d = "z1"
  <2>1. /\ Driver["z1"].counts["slider"] = 14 /\ Driver["z1"].counts["button"] = 5
        /\ Driver["z1"].names["slider"] = 14 /\ Driver["z1"].names["button"] = 5
    BY InfoOf DEF Z1!Counts, Z1!Names, Z1!ButtonItems, Z1!SliderItems, Z1!SliderNames,
       Z1!ButtonNames
  <2> QED  BY <1>2, <2>1 DEF Tellable, IsDeclared, IsNamed, Of, Squares
<1>3. CASE d = "x1"
  <2>1. /\ Driver["x1"].counts["slider"] = 9 /\ Driver["x1"].counts["button"] = 37
        /\ Driver["x1"].counts["encoder"] = 0 /\ Driver["x1"].names["slider"] = 9
        /\ Driver["x1"].names["button"] = 37 /\ Driver["x1"].names["encoder"] = 3
    BY InfoOf DEF X1!Counts, X1!Names, X1!SliderItems, X1!SliderNames, X1!ButtonNames,
       X1!EncoderNames
  <2>2. \A i \in 0..2 : <<"x1", "encoder", i>> \in Undeclared
    BY DEF Undeclared
  <2> QED  BY <1>3, <2>1, <2>2 DEF Tellable, IsDeclared, IsNamed, Of, Squares
<1>4. CASE d = "s2"
  <2>1. /\ Driver["s2"].counts["slider"] = 23 /\ Driver["s2"].counts["button"] = 51
        /\ Driver["s2"].counts["encoder"] = 9 /\ Driver["s2"].names["slider"] = 23
        /\ Driver["s2"].names["button"] = 51 /\ Driver["s2"].names["encoder"] = 9
    BY InfoOf DEF S2!Counts, S2!Names, S2!ButtonItems, S2!SliderItems, S2!EncoderItems,
       S2!SliderNames, S2!ButtonNames, S2!EncoderNames
  <2>2. \A i \in 9..10 : <<"s2", "encoder", i>> \in Undeclared
    BY DEF Undeclared
  <2>3. \A i \in 9..10 : <<"s2", "encoder", i>> \in Nameless
    BY DEF Nameless
  <2>4. ASSUME NEW i \in 0..22, k = <<"slider", i, 0>>
        PROVE  IsDeclared(d, k) /\ IsNamed(d, k)
    BY <1>4, <2>1, <2>2, <2>3, <2>4 DEF IsDeclared, IsNamed
  <2>5. ASSUME NEW i \in 0..10, k = <<"encoder", i, 0>>
        PROVE  IsDeclared(d, k) /\ IsNamed(d, k)
    BY <1>4, <2>1, <2>2, <2>3, <2>5 DEF IsDeclared, IsNamed
  <2>6. ASSUME NEW i \in 0..50, k = <<"button", i, 0>>
        PROVE  IsDeclared(d, k) /\ IsNamed(d, k)
    BY <1>4, <2>1, <2>2, <2>3, <2>6 DEF IsDeclared, IsNamed
  <2> QED  BY <1>4, <2>4, <2>5, <2>6 DEF Tellable, Of, Squares
<1>5. CASE d = "d2"
  <2>1. /\ Driver["d2"].counts["slider"] = 9 /\ Driver["d2"].counts["button"] = 59
        /\ Driver["d2"].counts["encoder"] = 6 /\ Driver["d2"].names["slider"] = 9
        /\ Driver["d2"].names["button"] = 59 /\ Driver["d2"].names["encoder"] = 6
    BY InfoOf DEF D2!Counts, D2!Names, D2!SliderNames, D2!ButtonNames, D2!EncoderNames
  <2> QED  BY <1>5, <2>1 DEF Tellable, IsDeclared, IsNamed, Of, Squares
<1>6. CASE d = "jam"
  <2>1. /\ Driver["jam"].counts["slider"] = 8 /\ Driver["jam"].counts["button"] = 53
        /\ Driver["jam"].counts["encoder"] = 0 /\ Driver["jam"].counts["grid"] = 1
        /\ Driver["jam"].names["slider"] = 8 /\ Driver["jam"].names["button"] = 62
        /\ Driver["jam"].names["encoder"] = 1
    BY InfoOf DEF Jam!Counts, Jam!Names, Jam!ButtonCount, Jam!SliderItems, Jam!ControlNames
  <2>2. /\ <<"jam", "encoder", 0>> \in Undeclared
        /\ <<"jam", "button", 53>> \in Undeclared
    BY DEF Undeclared
  <2> QED  BY <1>6, <2>1, <2>2 DEF Tellable, IsDeclared, IsNamed, Of, Squares
<1>7. CASE d = "mikro2"
  <2>1. /\ Driver["mikro2"].counts["button"] = 29 /\ Driver["mikro2"].counts["encoder"] = 1
        /\ Driver["mikro2"].counts["grid"] = 1 /\ Driver["mikro2"].names["button"] = 30
        /\ Driver["mikro2"].names["encoder"] = 30
    BY InfoOf DEF Mikro2!Counts, Mikro2!Names, Mikro2!ControlNames
  <2>2. <<"mikro2", "encoder", 29>> \in Undeclared
    BY DEF Undeclared
  <2> QED  BY <1>7, <2>1, <2>2 DEF Tellable, IsDeclared, IsNamed, Of, Squares
<1>8. CASE d = "mikro3"
  <2>1. /\ Driver["mikro3"].counts["slider"] = 1 /\ Driver["mikro3"].counts["button"] = 39
        /\ Driver["mikro3"].counts["encoder"] = 1 /\ Driver["mikro3"].counts["grid"] = 1
        /\ Driver["mikro3"].names["slider"] = 1 /\ Driver["mikro3"].names["button"] = 39
        /\ Driver["mikro3"].names["encoder"] = 1
    BY InfoOf DEF Mikro3!Counts, Mikro3!Names, Mikro3!ButtonNames
  <2> QED  BY <1>8, <2>1 DEF Tellable, IsDeclared, IsNamed, Of, Squares
<1>9. CASE d = "mk3"
  <2>1. /\ Driver["mk3"].counts["slider"] = 1 /\ Driver["mk3"].counts["button"] = 72
        /\ Driver["mk3"].counts["encoder"] = 9 /\ Driver["mk3"].counts["grid"] = 1
        /\ Driver["mk3"].names["slider"] = 1 /\ Driver["mk3"].names["button"] = 72
        /\ Driver["mk3"].names["encoder"] = 9
    BY InfoOf DEF Mk3!Counts, Mk3!Names, Mk3!SliderItems, Mk3!EncoderItems, Mk3!ButtonNames,
       Mk3!EncoderNames
  <2>2. <<"mk3", "button", 72>> \in Undeclared
    BY DEF Undeclared
  <2>3. <<"mk3", "button", 72>> \in Nameless
    BY DEF Nameless
  <2>4. ASSUME NEW i \in {0}, k = <<"slider", i, 0>>
        PROVE  IsDeclared(d, k) /\ IsNamed(d, k)
    BY <1>9, <2>1, <2>2, <2>3, <2>4 DEF IsDeclared, IsNamed
  <2>5. ASSUME NEW i \in 0..8, k = <<"encoder", i, 0>>
        PROVE  IsDeclared(d, k) /\ IsNamed(d, k)
    BY <1>9, <2>1, <2>2, <2>3, <2>5 DEF IsDeclared, IsNamed
  <2>6. ASSUME NEW i \in 0..72, k = <<"button", i, 0>>
        PROVE  IsDeclared(d, k) /\ IsNamed(d, k)
    BY <1>9, <2>1, <2>2, <2>3, <2>6 DEF IsDeclared, IsNamed
  <2>7. ASSUME NEW i \in 0..15, k = <<"grid", 0, i>>
        PROVE  IsDeclared(d, k) /\ IsNamed(d, k)
    BY <1>9, <2>1, <2>2, <2>3, <2>7 DEF IsDeclared, IsNamed
  <2> QED  BY <1>9, <2>4, <2>5, <2>6, <2>7 DEF Tellable, Of, Squares
<1>10. CASE d = "mouse"
  <2>1. /\ Driver["mouse"].names["slider"] = 12 /\ Driver["mouse"].names["button"] = 15
    BY InfoOf DEF Mouse!Counts, Mouse!Names, Mouse!SliderNames, Mouse!ButtonNames
  <2>2. /\ \A i \in 0..14 : <<"mouse", "button", i>> \in Undeclared
        /\ \A i \in 0..11 : <<"mouse", "slider", i>> \in Undeclared
    BY DEF Undeclared
  <2>3. ASSUME NEW i \in 0..11, k = <<"slider", i, 0>>
        PROVE  IsDeclared(d, k) /\ IsNamed(d, k)
    BY <1>10, <2>1, <2>2, <2>3, SMTT(30) DEF IsDeclared, IsNamed
  <2>4. ASSUME NEW i \in 0..14, k = <<"button", i, 0>>
        PROVE  IsDeclared(d, k) /\ IsNamed(d, k)
    BY <1>10, <2>1, <2>2, <2>4, SMTT(30) DEF IsDeclared, IsNamed
  <2> QED  BY <1>10, <2>3, <2>4 DEF Tellable, Of, Squares
<1>11. CASE d = "firmata"
  <2>1. /\ Driver["firmata"].names["button"] = 1
    BY InfoOf DEF Board!Counts, Board!Names
  <2>2. <<"firmata", "button", 0>> \in Undeclared
    BY DEF Undeclared
  <2> QED  BY <1>11, <2>1, <2>2 DEF Tellable, IsDeclared, IsNamed, Of, Squares
<1>12. CASE d = "s5"
  BY <1>12 DEF Tellable
<1> QED  BY <1>1, <1>2, <1>3, <1>4, <1>5, <1>6, <1>7, <1>8, <1>9, <1>10, <1>11, <1>12
         DEF AllDrivers

\* Any report has the driver tell of controls only that an application can look
\* up by the counts and the names of the driver's info, but for those known.
THEOREM AnyReportKnown ==
  ASSUME NEW d \in AllDrivers, NEW m, NEW rep,
         NEW i \in DOMAIN UsbReadCb(d, m, rep).ev
  PROVE  LET k == Key(UsbReadCb(d, m, rep).ev[i])
         IN IsDeclared(d, k) /\ IsNamed(d, k)
<1> DEFINE ev == UsbReadCb(d, m, rep).ev
<1>1. PICK E : ev \in Seq(E) /\ \A e \in E : Key(e) \in Tellable[d]
  BY AnyReportTellable, Zenon DEF Tells
<1> HIDE DEF ev
<1>2. i \in DOMAIN ev
  BY DEF ev
<1>3. ev[i] \in E
  <2>1. Len(ev) \in Nat /\ DOMAIN ev = 1..Len(ev)
    BY <1>1, LenProperties
  <2> QED  BY <1>1, <1>2, <2>1, ElementOfSeq
<1>4. Key(ev[i]) \in Tellable[d]
  BY <1>1, <1>3
<1> QED  BY <1>4, TellableKnown, Zenon DEF ev

-----------------------------------------------------------------------------
\* The events of the last report are about controls of the driver.
ToldTellable == driver \in AllDrivers /\ Tells(told, Tellable[driver])

\* At first nothing is told.
LEMMA TellableInit == Init => ToldTellable
  BY DriversAssumption, TellsNothing, Zenon DEF Init, ToldTellable

\* Only what the decoder returns is told.
LEMMA TellableStep == ToldTellable /\ [Next]_vars => ToldTellable'
<1> SUFFICES ASSUME ToldTellable, [Next]_vars
             PROVE  ToldTellable'
  OBVIOUS
<1>1. driver' = driver
  BY Zenon DEF Next, Touch_, Release, Slide, Turn, Report, Echo, vars
<1>2. ASSUME told' = <<>> PROVE ToldTellable'
  BY <1>1, <1>2, TellsNothing, Zenon DEF ToldTellable
<1>3. ASSUME NEW rep, Hear(rep) PROVE ToldTellable'
  <2>1. told' = UsbReadCb(driver, mem, rep).ev
    BY <1>3, Zenon DEF Hear
  <2> QED  BY <1>1, <2>1, AnyReportTellable, Zenon DEF ToldTellable
<1>4. ASSUME NEW t \in hands, Touch_(t) PROVE ToldTellable'
  BY <1>2, <1>4, Zenon DEF Touch_
<1>5. ASSUME NEW t \in hands, Release(t) PROVE ToldTellable'
  BY <1>2, <1>5, Zenon DEF Release
<1>6. ASSUME NEW t \in hands, NEW u \in hands, Slide(t, u) PROVE ToldTellable'
  BY <1>2, <1>6, Zenon DEF Slide
<1>7. ASSUME NEW k, NEW by, Turn(k, by) PROVE ToldTellable'
  BY <1>2, <1>7, Zenon DEF Turn
<1>8. ASSUME NEW size, Report(size) PROVE ToldTellable'
  BY <1>3, <1>8, Zenon DEF Report
<1>9. ASSUME NEW size, Echo(size) PROVE ToldTellable'
  BY <1>3, <1>9, Zenon DEF Echo
<1>10. ASSUME UNCHANGED vars PROVE ToldTellable'
  BY <1>10, Zenon DEF vars, ToldTellable
<1> QED  BY <1>4, <1>5, <1>6, <1>7, <1>8, <1>9, <1>10, Zenon DEF Next

\* A list of events about controls of the driver has ids that are declared and
\* named.
LEMMA TellableIsKnown == ToldTellable => EventsDeclared /\ EventsNamed
<1> SUFFICES ASSUME ToldTellable, NEW i \in DOMAIN told
             PROVE  /\ \/ <<driver, told[i].type, told[i].id>> \in Undeclared
                       \/ told[i].id < Driver[driver].counts[told[i].type]
                    /\ \/ <<driver, told[i].type, told[i].id>> \in Nameless
                       \/ HasName(told[i])
  BY Zenon DEF EventsDeclared, EventsNamed
<1>1. PICK E : told \in Seq(E) /\ \A e \in E : Key(e) \in Tellable[driver]
  BY Zenon DEF ToldTellable, Tells
<1>2. told[i] \in E
  <2>1. Len(told) \in Nat /\ DOMAIN told = 1..Len(told)
    BY <1>1, LenProperties
  <2> QED  BY <1>1, <2>1, ElementOfSeq
<1> DEFINE k == Key(told[i])
<1>3. IsDeclared(driver, k) /\ IsNamed(driver, k)
  BY <1>1, <1>2, TellableKnown, Zenon DEF ToldTellable
<1>4. k[1] = told[i].type /\ k[2] = told[i].id
  BY DEF Key
<1> QED  BY <1>3, <1>4, Zenon DEF IsDeclared, IsNamed, HasName

\* The ids of events are declared by the driver's info, but for those listed.
THEOREM DeclaredCorrect == Spec => []EventsDeclared
  BY TellableInit, TellableStep, TellableIsKnown, PTL DEF Spec

\* ctlra_info_get_name has a name for the ids of events, but for those listed.
THEOREM NamedCorrect == Spec => []EventsNamed
  BY TellableInit, TellableStep, TellableIsKnown, PTL DEF Spec

-----------------------------------------------------------------------------
(***************************************************************************)
(* The wheels of the Kontrol S2                                            *)
(*                                                                         *)
(* One report first (JogDrift), then what a report of a wheel shows, then  *)
(* the invariant that ties the two together (WheelFollowed).               *)
(***************************************************************************)

\* The memory that each connect allocates.
LEMMA FirstMemory ==
  /\ Driver["f1"].memory0 = F1!Memory0 /\ Driver["z1"].memory0 = Z1!Memory0
  /\ Driver["x1"].memory0 = X1!Memory0 /\ Driver["s2"].memory0 = S2!Memory0
  /\ Driver["s5"].memory0 = S5!Memory0 /\ Driver["d2"].memory0 = D2!Memory0
  /\ Driver["jam"].memory0 = Jam!Memory0 /\ Driver["mikro2"].memory0 = Mikro2!Memory0
  /\ Driver["mikro3"].memory0 = Mikro3!Memory0 /\ Driver["mk3"].memory0 = Mk3!Memory0
  /\ Driver["mouse"].memory0 = Mouse!Memory0 /\ Driver["firmata"].memory0 = Board!Memory0
  BY ZenonT(40) DEF Driver, About

\* What the driver keeps of a wheel: its byte, and the place of that byte on a
\* circle of four quadrants of 255.
WheelOf(j) ==
  /\ j.pos \in 0..255 /\ j.value = j.pos /\ j.quadrant \in 0..3
  /\ j.full = 255 * j.quadrant + j.value

\* From one byte to the next the driver tells a wrap from a turn.
LEMMA TurnOfByte ==
  ASSUME NEW p \in 0..255, NEW by \in -55..55
  PROVE  LET diff == ((p + by) % 256) - p
         IN /\ (p + by) % 256 \in 0..255 /\ (p + diff) % 256 = (p + by) % 256
            /\ \/ diff = by
               \/ diff = by - 256 /\ diff < -200
               \/ diff = by + 256 /\ diff > 200
<1> DEFINE new == (p + by) % 256
<1>1. CASE p + by < 0
  <2>1. new = p + by + 256
    BY <1>1
  <2> QED  BY <1>1, <2>1
<1>2. CASE p + by \in 0..255
  <2>1. new = p + by
    BY <1>2
  <2> QED  BY <1>2, <2>1
<1>3. CASE p + by > 255
  <2>1. new = p + by - 256
    BY <1>3
  <2> QED  BY <1>3, <2>1
<1> QED  BY <1>1, <1>2, <1>3

\* The next quadrant, and the one before.
LEMMA NextQuadrant ==
  ASSUME NEW q \in 0..3
  PROVE  /\ (q + 0) % 4 = q
         /\ (q + 1) % 4 = IF q = 3 THEN 0 ELSE q + 1
         /\ (q + 3) % 4 = IF q = 0 THEN 3 ELSE q - 1
<1>1. q = 0 \/ q = 1 \/ q = 2 \/ q = 3
  OBVIOUS
<1> QED  BY <1>1

\* What is told of a turn of less than a quarter of a quadrant differs from it by
\* the quadrants that were passed: the distances told of a wheel add up to the
\* distance turned, but for the number of the quadrant it is in. So they are never
\* further off than three, however long it is turned and whichever way
\* (WheelNear), although a quadrant of 256 is taken for one of 255.
THEOREM JogDrift ==
  ASSUME NEW j, WheelOf(j), NEW by \in -55..55
  PROVE  LET r == S2!Jog(j, (j.pos + by) % 256)
         IN /\ WheelOf(r.jog) /\ r.jog.pos = (j.pos + by) % 256 /\ r.delta \in Int
            /\ r.delta + r.jog.quadrant = by + j.quadrant
<1> DEFINE p == j.pos
           q == j.quadrant
           new == (p + by) % 256
           diff == new - p
           move == IF diff < -200 THEN 1 ELSE IF diff > 200 THEN 3 ELSE 0
           full == 255 * ((q + move) % 4) + new
           raw == (255 * q + p) - full
           r == S2!Jog(j, new)
<1>1. p \in 0..255 /\ q \in 0..3 /\ j.value = p /\ j.full = 255 * q + p
  BY DEF WheelOf
<1>2. /\ new \in 0..255 /\ (p + diff) % 256 = new
      /\ \/ diff = by
         \/ diff = by - 256 /\ diff < -200
         \/ diff = by + 256 /\ diff > 200
  BY <1>1, TurnOfByte
<1>3. /\ r.jog = [pos |-> new, value |-> new, full |-> full, quadrant |-> (q + move) % 4]
      /\ r.delta = -(IF raw > 800 THEN raw - 1024 ELSE IF raw < -800 THEN raw + 1024 ELSE raw)
  <2>1. S2!JogFull(j, diff) = full
    BY <1>1, <1>2 DEF S2!JogFull
  <2> QED  BY <1>1, <1>2, <2>1 DEF S2!Jog
<1>4. (q + move) % 4 = CASE diff < -200 -> (IF q = 3 THEN 0 ELSE q + 1)
                        [] diff > 200 -> (IF q = 0 THEN 3 ELSE q - 1)
                        [] OTHER -> q
  BY <1>1, <1>2, NextQuadrant
<1>5. (q + move) % 4 \in 0..3
  BY <1>1, <1>2, <1>4
<1>6. WheelOf(r.jog) /\ r.jog.pos = new /\ r.jog.quadrant = (q + move) % 4
  <2> HIDE DEF move, new, q, r
  <2> QED  BY <1>2, <1>3, <1>5 DEF WheelOf
<1>7. r.delta + ((q + move) % 4) = by + q /\ r.delta \in Int
  <2> DEFINE to == (q + move) % 4
             back == -(IF raw > 800 THEN raw - 1024 ELSE IF raw < -800 THEN raw + 1024 ELSE raw)
  <2>1. full = 255 * to + new /\ raw = (255 * q + p) - full
    BY Zenon
  <2>2. \/ new - p = by /\ to = q
        \/ new - p = by - 256 /\ to = IF q = 3 THEN 0 ELSE q + 1
        \/ new - p = by + 256 /\ to = IF q = 0 THEN 3 ELSE q - 1
    <3> HIDE DEF move, new, p, q
    <3> QED  BY <1>1, <1>2, <1>4
  <2>3. p \in 0..255 /\ new \in 0..255 /\ q \in 0..3 /\ to \in 0..3
    BY <1>1, <1>2, <1>5, Zenon
  <2>4. r.delta = back
    BY <1>3, Zenon
  <2> HIDE DEF to, move, new, p, q, full, r
  <2>5. raw = (255 * q + p) - (255 * to + new)
    BY <2>1, Zenon
  <2> HIDE DEF raw
  <2>6. back + to = by + q /\ back \in Int
    BY <2>2, <2>3, <2>5
  <2> HIDE DEF back
  <2>7. r.delta + to = by + q /\ r.delta \in Int
    BY <2>4, <2>6, Zenon
  <2> QED  BY <2>7, Zenon DEF to
<1> QED  BY <1>6, <1>7

\* A wheel begins in the first quadrant.
LEMMA WheelsFirst == \A i \in 0..1 : WheelOf(S2!Memory0.jog[i]) /\ S2!Memory0.jog[i].quadrant = 0
  BY DEF S2!Memory0, WheelOf

\* The bytes set at one place of a report, added up, and so the turns told.
Together(bytes) == MapThenSumSet(LAMBDA p : p[2], bytes)

\* Nothing is 0, and one byte alone is itself.
LEMMA BytesTogether ==
  /\ Together({}) = 0
  /\ \A q : q[2] \in Int => Together({q}) = q[2]
<1> DEFINE one(s) == CHOOSE x \in s : TRUE
           Add(g, s) == IF s = {} THEN 0 ELSE one(s)[2] + g[s \ {one(s)}]
           sums(S) == CHOOSE g : g = [s \in SUBSET S |-> Add(g, s)]
<1>1. \A S : Together(S) = sums(S)[S]
  BY Zenon DEF Together, MapThenSumSet, MapThenFoldSet
<1>2. Together({}) = 0
  <2> DEFINE h == [s \in SUBSET {} |-> 0]
  <2>1. h = [s \in SUBSET {} |-> Add(h, s)]
    OBVIOUS
  <2>2. sums({}) = [s \in SUBSET {} |-> Add(sums({}), s)]
    BY <2>1
  <2> QED  BY <1>1, <2>2
<1>3. ASSUME NEW q, q[2] \in Int
      PROVE  Together({q}) = q[2]
  <2> DEFINE h == [s \in SUBSET {q} |-> IF s = {} THEN 0 ELSE q[2]]
             f == sums({q})
  <2>1. \A s \in SUBSET {q} : s = {} \/ (s = {q} /\ one(s) = q /\ s \ {q} = {})
    OBVIOUS
  <2>2. ASSUME NEW s \in SUBSET {q} PROVE h[s] = Add(h, s)
    <3>1. CASE s = {}
      BY <3>1
    <3>2. CASE s = {q}
      BY <2>1, <3>2, <1>3
    <3> QED  BY <2>1, <3>1, <3>2
  <2>3. h = [s \in SUBSET {q} |-> Add(h, s)]
    BY <2>2
  <2>4. f = [s \in SUBSET {q} |-> Add(f, s)]
    BY <2>3
  <2> HIDE DEF f
  <2>5. f[{}] = 0
    BY <2>4
  <2>6. f[{q}] = Add(f, {q})
    BY <2>4
  <2>7. f[{q}] = q[2]
    BY <2>1, <2>5, <2>6, <1>3
  <2> QED  BY <1>1, <2>7 DEF f
<1> QED  BY <1>2, <1>3

\* And so it is with the turns told.
LEMMA TurnsTogether ==
  /\ SumOf(<<>>) = 0
  /\ \A e : e.val \in Int => SumOf(<<e>>) = e.val
<1> DEFINE one(s) == CHOOSE x \in s : TRUE
           Add(g, s, e) == IF s = {} THEN 0 ELSE e[one(s)].val + g[s \ {one(s)}]
           sums(e) == CHOOSE g : g = [s \in SUBSET DOMAIN e |-> Add(g, s, e)]
<1>1. \A e : SumOf(e) = sums(e)[DOMAIN e]
  BY Zenon DEF SumOf, MapThenSumSet, MapThenFoldSet
<1>2. SumOf(<<>>) = 0
  <2> DEFINE h == [s \in SUBSET DOMAIN <<>> |-> 0]
             f == sums(<<>>)
  <2>1. DOMAIN <<>> = {}
    OBVIOUS
  <2>2. \A s \in SUBSET DOMAIN <<>> : s = {}
    BY <2>1
  <2>3. h = [s \in SUBSET DOMAIN <<>> |-> Add(h, s, <<>>)]
    BY <2>2
  <2>4. f = [s \in SUBSET DOMAIN <<>> |-> Add(f, s, <<>>)]
    BY <2>3
  <2> HIDE DEF f
  <2>5. f[{}] = 0
    BY <2>1, <2>4
  <2> QED  BY <1>1, <2>1, <2>5 DEF f
<1>3. ASSUME NEW e, e.val \in Int
      PROVE  SumOf(<<e>>) = e.val
  <2> DEFINE t == <<e>>
             h == [s \in SUBSET DOMAIN t |-> IF s = {} THEN 0 ELSE e.val]
             f == sums(t)
  <2>1. DOMAIN t = {1} /\ t[1] = e
    OBVIOUS
  <2> HIDE DEF t
  <2>2. \A s \in SUBSET DOMAIN t : s = {} \/ (s = {1} /\ one(s) = 1 /\ s \ {1} = {})
    BY <2>1
  <2>3. ASSUME NEW s \in SUBSET DOMAIN t PROVE h[s] = Add(h, s, t)
    <3>1. CASE s = {}
      BY <3>1
    <3>2. CASE s = {1}
      BY <2>1, <2>2, <3>2, <1>3
    <3> QED  BY <2>2, <3>1, <3>2
  <2>4. h = [s \in SUBSET DOMAIN t |-> Add(h, s, t)]
    BY <2>3
  <2>5. f = [s \in SUBSET DOMAIN t |-> Add(f, s, t)]
    BY <2>4
  <2> HIDE DEF f
  <2>6. f[{}] = 0
    BY <2>5
  <2>7. f[{1}] = Add(f, {1}, t)
    BY <2>1, <2>5
  <2>8. f[{1}] = e.val
    BY <2>1, <2>2, <2>6, <2>7, <1>3
  <2> QED  BY <1>1, <2>1, <2>8 DEF f, t
<1> QED  BY <1>2, <1>3

\* The two wheels, as the device codes them.
Wheel(i) == Knob(i, 1024, {1, 50}, 17, 1 + 4 * i, "byte")

\* No driver but the S2 has wheels, and it has these.
LEMMA WheelsAre ==
  ASSUME NEW d \in AllDrivers, NEW k \in Driver[d].knobs, IsWheel(k)
  PROVE  d = "s2" /\ \E i \in 0..1 : k = Wheel(i)
<1>1. /\ Driver["f1"].knobs = F1!Knobs /\ Driver["z1"].knobs = Z1!Knobs
      /\ Driver["x1"].knobs = X1!Knobs /\ Driver["s2"].knobs = S2!Knobs
      /\ Driver["s5"].knobs = {} /\ Driver["d2"].knobs = D2!Knobs
      /\ Driver["jam"].knobs = Jam!Knobs /\ Driver["mikro2"].knobs = Mikro2!Knobs
      /\ Driver["mikro3"].knobs = Mikro3!Knobs /\ Driver["mk3"].knobs = Mk3!Knobs
      /\ Driver["mouse"].knobs = Mouse!Knobs /\ Driver["firmata"].knobs = Board!Knobs
  BY ZenonT(40) DEF Driver, About
<1>2. /\ \A x \in F1!Knobs : x.ring # 1024
      /\ \A x \in Z1!Knobs : x.ring # 1024
      /\ \A x \in X1!Knobs : x.ring # 1024
      /\ \A x \in D2!Knobs : x.ring # 1024
      /\ \A x \in Jam!Knobs : x.ring # 1024
      /\ \A x \in Mikro2!Knobs : x.ring # 1024
      /\ \A x \in Mikro3!Knobs : x.ring # 1024
      /\ \A x \in Mk3!Knobs : x.ring # 1024
      /\ \A x \in Mouse!Knobs : x.ring # 1024
      /\ \A x \in Board!Knobs : x.ring # 1024
  BY DEF F1!Knobs, F1!Knob, Z1!Knobs, Z1!Knob, X1!Knobs, X1!Knob, D2!Knobs, D2!Knob, Jam!Knobs,
     Jam!Knob, Mikro2!Knobs, Mikro2!Knob, Mikro3!Knobs, Mikro3!Knob, Mk3!Knobs, Mk3!Knob,
     Mouse!Knobs, Board!Knobs
<1>3. d = "s2"
  BY <1>1, <1>2 DEF AllDrivers, IsWheel
<1>4. \A x \in S2!Knobs : x.ring = 1024 => \E i \in 0..1 : x = Wheel(i)
  BY DEF S2!Knobs, S2!Knob, Wheel, Knob
<1> QED  BY <1>1, <1>3, <1>4 DEF IsWheel

\* The S2 decodes reports of 17 and of 51 bytes, and writes neither.
LEMMA WheelEchoes ==
  /\ \A size \in Driver["s2"].echoes : size # 17 /\ size # 51
  /\ \A size \in Driver["s2"].sizes : size = 17 \/ size = 51
<1> DEFINE writes == S2!LightFlush(S2!Lights0, TRUE).writes
<1>1. /\ Driver["s2"].echoes = {writes[i].size : i \in DOMAIN writes}
      /\ Driver["s2"].sizes = S2!Sizes
  BY ZenonT(40) DEF Driver, About
<1>2. DOMAIN writes = 1..2 /\ writes[1].size = 65 /\ writes[2].size = 33
  BY DEF S2!LightFlush, S2!Flush, S2!Write
<1> HIDE DEF writes
<1> QED  BY <1>1, <1>2 DEF S2!Sizes

\* A report of 17 bytes that shows one byte of a wheel.
LEMMA WheelReport ==
  ASSUME NEW i \in 0..1, NEW p \in 0..1023
  PROVE  LET rep == Shown(17, {TouchOf(17, KnobBytes(Wheel(i), p), {})})
         IN rep.size = 17 /\ rep.b[1 + 4 * i] = p % 256 /\ rep.b[1 + 4 * (1 - i)] = 0
<1> DEFINE byte == <<1 + 4 * i, p % 256>>
           touch == TouchOf(17, KnobBytes(Wheel(i), p), {})
           bytes == UNION {t.bytes : t \in {u \in {touch} : u.size = 17}}
           rep == Shown(17, {touch})
<1>1. touch.size = 17 /\ touch.bytes = {byte}
  BY DEF TouchOf, KnobBytes, Wheel, Knob
<1> HIDE DEF touch
<1>2. bytes = {byte}
  BY <1>1
<1>3. rep = [size |-> 17, b |-> [o \in 0..(17 - 1) |-> Together({q \in bytes : q[1] = o})]]
  BY Zenon DEF Shown, ReportOf, Together
<1> HIDE DEF bytes, rep
<1>4. {q \in bytes : q[1] = 1 + 4 * i} = {byte} /\ {q \in bytes : q[1] = 1 + 4 * (1 - i)} = {}
  BY <1>2
<1>5. Together({byte}) = p % 256 /\ Together({}) = 0
  <2>1. byte[2] \in Int /\ byte[2] = p % 256
    OBVIOUS
  <2> HIDE DEF byte
  <2> QED  BY <2>1, BytesTogether
<1> HIDE DEF byte
<1>6. rep.size = 17
  BY <1>3
<1>7. ASSUME NEW o \in 0..(17 - 1)
      PROVE  rep.b[o] = Together({q \in bytes : q[1] = o})
  BY <1>3
<1>8. rep.b[1 + 4 * i] = p % 256 /\ rep.b[1 + 4 * (1 - i)] = 0
  <2>1. 1 + 4 * i \in 0..(17 - 1) /\ 1 + 4 * (1 - i) \in 0..(17 - 1)
    OBVIOUS
  <2>2. /\ rep.b[1 + 4 * i] = Together({q \in bytes : q[1] = 1 + 4 * i})
        /\ rep.b[1 + 4 * (1 - i)] = Together({q \in bytes : q[1] = 1 + 4 * (1 - i)})
    BY <1>7, <2>1, Zenon
  <2>3. /\ Together({q \in bytes : q[1] = 1 + 4 * i}) = Together({byte})
        /\ Together({q \in bytes : q[1] = 1 + 4 * (1 - i)}) = Together({})
    BY <1>4, Zenon
  <2> QED  BY <1>5, <2>2, <2>3, Zenon
<1> QED  BY <1>6, <1>8, Zenon DEF rep, touch

\* Of a list with one encoder and buttons after it, the encoder is kept; of one
\* with buttons alone, nothing.
LEMMA EncoderAlone ==
  ASSUME NEW B, NEW t \in Seq(B), \A e \in B : e.type # "encoder"
  PROVE  /\ Turned(t) = <<>>
         /\ \A i \in 0..1 : \A n : Turned(<<Encoder(i, n)>> \o t) = <<Encoder(i, n)>>
<1>1. ASSUME NEW s, NEW S, \A a \in DOMAIN s : s[a] \notin S
      PROVE  Only(s, S) = <<>>
  <2> DEFINE kept == {a \in DOMAIN s : s[a] \in S}
  <2>1. kept = {}
    BY <1>1
  <2>2. Cardinality(kept) = 0
    BY <2>1, FS_EmptySet
  <2>3. Only(s, S) = [n \in 1..Cardinality(kept) |->
                        s[CHOOSE a \in kept : Cardinality(kept \cap 1..a) = n]]
    BY Zenon DEF Only
  <2> HIDE DEF kept
  <2> QED  BY <2>2, <2>3
<1>2. ASSUME NEW s, NEW S, 1 \in DOMAIN s, s[1] \in S, \A a \in DOMAIN s : a # 1 => s[a] \notin S
      PROVE  Only(s, S) = <<s[1]>>
  <2> DEFINE kept == {a \in DOMAIN s : s[a] \in S}
  <2>1. kept = {1}
    BY <1>2
  <2>2. Only(s, S) = [n \in 1..Cardinality(kept) |->
                        s[CHOOSE a \in kept : Cardinality(kept \cap 1..a) = n]]
    BY Zenon DEF Only
  <2> HIDE DEF kept
  <2>3. Cardinality(kept) = 1
    BY <2>1, FS_Singleton
  <2>4. kept \cap 1..1 = kept
    BY <2>1
  <2>5. (CHOOSE a \in kept : Cardinality(kept \cap 1..a) = 1) = 1
    BY <2>1, <2>3, <2>4
  <2>6. ASSUME NEW n \in 1..1
        PROVE  s[CHOOSE a \in kept : Cardinality(kept \cap 1..a) = n] = s[1]
    <3>1. n = 1
      OBVIOUS
    <3> QED  BY <2>5, <3>1, Zenon
  <2>7. [n \in 1..1 |-> s[CHOOSE a \in kept : Cardinality(kept \cap 1..a) = n]]
          = [n \in 1..1 |-> s[1]]
    BY <2>6, Zenon
  <2>8. [n \in 1..1 |-> s[1]] = <<s[1]>>
    OBVIOUS
  <2> QED  BY <2>2, <2>3, <2>7, <2>8, Zenon
<1> DEFINE S(s) == {e \in Range(s) : e.type = "encoder" /\ (Faulty \/ ~Phantom(e))}
<1>3. \A a \in DOMAIN t : t[a] \in B
  OBVIOUS
<1>4. Turned(t) = <<>>
  <2>1. \A a \in DOMAIN t : t[a] \notin S(t)
    BY <1>3
  <2> HIDE DEF S
  <2> QED  BY <1>1, <2>1, Zenon DEF Turned, S
<1>5. ASSUME NEW i \in 0..1, NEW n
      PROVE  Turned(<<Encoder(i, n)>> \o t) = <<Encoder(i, n)>>
  <2> DEFINE s == <<Encoder(i, n)>> \o t
  <2>1. /\ 1 \in DOMAIN s /\ s[1] = Encoder(i, n)
        /\ \A a \in DOMAIN s : a # 1 => s[a] \in B
    OBVIOUS
  <2>2. Encoder(i, n).type = "encoder" /\ ~Phantom(Encoder(i, n))
    BY DEF Encoder, Phantom
  <2> HIDE DEF s
  <2>3. s[1] \in S(s) /\ \A a \in DOMAIN s : a # 1 => s[a] \notin S(s)
    BY <2>1, <2>2 DEF Range
  <2> HIDE DEF S
  <2>4. Only(s, S(s)) = <<s[1]>>
    BY <1>2, <2>1, <2>3, Zenon
  <2>5. Turned(s) = <<s[1]>>
    BY <2>4, Zenon DEF Turned, S
  <2> QED  BY <2>1, <2>5, Zenon DEF s
<1> QED  BY <1>4, <1>5

\* A wheel that is where it was is told no distance.
LEMMA JogStill ==
  ASSUME NEW j, WheelOf(j)
  PROVE  S2!Jog(j, j.pos).delta = 0 /\ S2!Jog(j, j.pos).jog.quadrant = j.quadrant
<1>1. /\ j.pos \in 0..255 /\ j.value = j.pos /\ j.quadrant \in 0..3
      /\ j.full = 255 * j.quadrant + j.value
  BY DEF WheelOf
<1>2. j.pos - j.pos = 0 /\ (j.quadrant + 0) % 4 = j.quadrant /\ (j.pos + 0) % 256 = j.pos
  BY <1>1, NextQuadrant
<1>3. S2!JogFull(j, j.pos - j.pos) = j.full
  BY <1>1, <1>2 DEF S2!JogFull
<1> QED  BY <1>1, <1>2, <1>3 DEF S2!Jog

\* A report of 17 bytes in which wheel i alone is off its rest, at a byte that is a
\* turn by by from the one remembered.
LEMMA WheelTurned ==
  ASSUME NEW i \in 0..1, NEW m, NEW b, NEW by \in -55..55,
         WheelOf(m.jog[i]), m.jog[1 - i].pos = 0, {"hw", "jog"} \subseteq DOMAIN m,
         b[1 + 4 * i] = (m.jog[i].pos + by) % 256, b[1 + 4 * (1 - i)] = 0
  PROVE  LET r == S2!ReadJogs(m, b)
         IN /\ WheelOf(r.m.jog[i]) /\ r.m.jog[i].pos = b[1 + 4 * i]
            /\ r.m.jog[1 - i].pos = 0 /\ {"hw", "jog"} \subseteq DOMAIN r.m
            /\ SumOf(Turned(r.ev)) \in Int
            /\ SumOf(Turned(r.ev)) + r.m.jog[i].quadrant = by + m.jog[i].quadrant
<1> DEFINE now == [n \in 0..1 |-> b[1 + 4 * n]]
           old == [n \in 0..1 |-> m.jog[n].pos]
           turned == S2!Moved(2, 0, now, old)
           k == S2!ScanButtons(S2!ButtonRows, 23, b, m.hw)
           jog == [n \in 0..1 |-> S2!Jog(m.jog[n], b[1 + 4 * n]).jog]
           turns == [n \in 1..Len(turned) |->
                       S2!Encoder(turned[n], S2!Jog(m.jog[turned[n]], b[1 + 4 * turned[n]]).delta)]
           j == S2!Jog(m.jog[i], b[1 + 4 * i])
           r == S2!ReadJogs(m, b)
<1>1. r.m = [m EXCEPT !.hw = k.hw, !.jog = jog] /\ r.ev = turns \o k.ev
  BY DEF S2!ReadJogs
<1>2. r.m.jog = jog /\ {"hw", "jog"} \subseteq DOMAIN r.m
  <2> HIDE DEF r, k, jog
  <2> QED  BY <1>1
<1>3. /\ WheelOf(j.jog) /\ j.jog.pos = b[1 + 4 * i] /\ j.delta \in Int
      /\ j.delta + j.jog.quadrant = by + m.jog[i].quadrant
  <2>1. LET s == S2!Jog(m.jog[i], (m.jog[i].pos + by) % 256)
        IN /\ WheelOf(s.jog) /\ s.jog.pos = (m.jog[i].pos + by) % 256 /\ s.delta \in Int
           /\ s.delta + s.jog.quadrant = by + m.jog[i].quadrant
    BY JogDrift
  <2> QED  BY <2>1, Zenon
<1>4. b[1 + 4 * i] = m.jog[i].pos => j.delta = 0 /\ j.jog.quadrant = m.jog[i].quadrant
  BY JogStill, Zenon
<1>5. jog[i] = j.jog /\ jog[1 - i].pos = 0
  BY DEF S2!Jog
<1>6. turned = Moved(2, 0, now, old)
  <2> HIDE DEF now, old
  <2> QED  BY SameMoved
<1>7. \E B : k.ev \in Seq(B) /\ \A e \in B : e.type # "encoder"
  <2> DEFINE K == Of("button", 0..(51 - 1))
  <2>1. Tells(k.ev, K)
    <3> HIDE DEF K
    <3>1. Of("button", 0..(51 - 1)) \subseteq K
      BY DEF K
    <3> QED  BY <3>1, ButtonsTold, TableSizes
  <2>2. \A e : Key(e) \in K => e.type # "encoder"
    BY DEF Key, Of
  <2> HIDE DEF K
  <2> QED  BY <2>1, <2>2, Zenon DEF Tells
<1> HIDE DEF jog, k, r
<1>8. CASE b[1 + 4 * i] = m.jog[i].pos
  <2>1. turned = <<>>
    <3>1. \A n \in 0..(2 - 1) : old[n] = now[n]
      BY <1>8
    <3> HIDE DEF now, old, turned
    <3>2. Moved(2, 0, now, old) = <<>>
      BY <3>1, MovedNone
    <3> QED  BY <1>6, <3>2, Zenon
  <2> HIDE DEF turned
  <2>2. turns = <<>>
    BY <2>1
  <2> HIDE DEF turns
  <2>3. r.ev = k.ev
    BY <1>1, <1>7, <2>2
  <2>4. SumOf(Turned(r.ev)) = 0
    BY <1>7, <2>3, EncoderAlone, TurnsTogether
  <2> QED  BY <1>2, <1>3, <1>4, <1>5, <1>8, <2>4 DEF r
<1>9. CASE b[1 + 4 * i] # m.jog[i].pos
  <2>1. turned = <<i>>
    <3>1. Changed(2, now, old) = {i}
      BY <1>9 DEF Changed
    <3> HIDE DEF now, old, turned
    <3>2. 2 \in Nat /\ i \in 0..(2 - 1)
      OBVIOUS
    <3>3. Moved(2, 0, now, old) = <<i>>
      BY <3>1, <3>2, MovedOne, Zenon
    <3> QED  BY <1>6, <3>3, Zenon
  <2> HIDE DEF turned
  <2>2. turns = <<Encoder(i, j.delta)>>
    BY <2>1 DEF S2!Encoder, Encoder
  <2> HIDE DEF turns, j
  <2>3. Turned(r.ev) = <<Encoder(i, j.delta)>>
    <3>1. PICK B : k.ev \in Seq(B) /\ \A e \in B : e.type # "encoder"
      BY <1>7
    <3>2. Turned(<<Encoder(i, j.delta)>> \o k.ev) = <<Encoder(i, j.delta)>>
      BY <3>1, EncoderAlone
    <3> QED  BY <1>1, <2>2, <3>2, Zenon
  <2>4. SumOf(Turned(r.ev)) = j.delta
    <3>1. Encoder(i, j.delta).val = j.delta
      BY DEF Encoder
    <3> QED  BY <1>3, <2>3, <3>1, TurnsTogether
  <2> QED  BY <1>2, <1>3, <1>5, <2>4, Zenon DEF r
<1> QED  BY <1>8, <1>9

\* One step between two reports moves the byte by as much as the wheel was turned.
LEMMA ByteOfTurn ==
  ASSUME NEW at \in 0..1023, NEW turn \in -50..50
  PROVE  at % 256 = (((at - turn) % 256) + turn) % 256
OBVIOUS

-----------------------------------------------------------------------------
\* The drift of a wheel that is being turned is the quadrant the driver has it in.
WheelHeld(i) ==
  /\ driver = "s2" /\ hands = {} /\ held = {} /\ knob.knobs = {Wheel(i)}
  /\ knob.at \in 0..1023 /\ knob.turn \in -50..50
  /\ {"hw", "jog"} \subseteq DOMAIN mem
  /\ WheelOf(mem.jog[i]) /\ mem.jog[1 - i].pos = 0
  /\ mem.jog[i].pos = (knob.at - knob.turn) % 256
  /\ knob.drift = -mem.jog[i].quadrant

\* Nothing but a wheel drifts.
WheelFollowed ==
  /\ driver \in AllDrivers
  /\ DOMAIN knob = {"knobs", "at", "turn", "drift"}
  /\ \/ (\A k \in knob.knobs : ~IsWheel(k)) /\ knob.drift = 0
     \/ \E i \in 0..1 : WheelHeld(i)

\* At first nothing is turned, and a wheel is in its first quadrant.
LEMMA FollowedInit == Init => WheelFollowed
<1> SUFFICES ASSUME Init
             PROVE  WheelFollowed
  OBVIOUS
<1>1. driver \in AllDrivers
  BY DriversAssumption, Zenon DEF Init
<1>2. CASE knob = Still
  BY <1>1, <1>2 DEF Still, WheelFollowed
<1>3. ASSUME NEW k \in Driver[driver].knobs, hands = {}, NEW p \in Starts(driver, k),
             knob = [Still EXCEPT !.knobs = {k}, !.at = p]
      PROVE  WheelFollowed
  <2>1. knob = [knobs |-> {k}, at |-> p, turn |-> 0, drift |-> 0]
    BY <1>3 DEF Still
  <2>2. DOMAIN knob = {"knobs", "at", "turn", "drift"} /\ knob.knobs = {k} /\ knob.drift = 0
    BY <2>1
  <2>3. CASE ~IsWheel(k)
    BY <1>1, <2>2, <2>3, Zenon DEF WheelFollowed
  <2>4. CASE IsWheel(k)
    <3>1. PICK i \in 0..1 : driver = "s2" /\ k = Wheel(i)
      BY <1>1, <1>3, <2>4, WheelsAre
    <3>2. p = 0
      BY <3>1 DEF Starts, Waiting
    <3>3. knob.at = 0 /\ knob.turn = 0 /\ held = {} /\ mem = S2!Memory0
      BY <2>1, <3>1, <3>2, FirstMemory DEF Init
    <3>4. /\ {"hw", "jog"} \subseteq DOMAIN mem /\ WheelOf(mem.jog[i])
          /\ mem.jog[i].quadrant = 0 /\ mem.jog[i].pos = 0 /\ mem.jog[1 - i].pos = 0
      BY <3>3 DEF S2!Memory0, WheelOf
    <3>5. WheelHeld(i)
      BY <1>3, <2>2, <3>1, <3>3, <3>4 DEF WheelHeld
    <3> QED  BY <1>1, <2>2, <3>5, Zenon DEF WheelFollowed
  <2> QED  BY <2>3, <2>4
<1> QED  BY <1>2, <1>3, Zenon DEF Init

\* A report of the wheels tells the turn; the other reports leave them alone.
LEMMA FollowedReport ==
  ASSUME NEW i \in 0..1, WheelHeld(i), NEW size \in Driver[driver].sizes, Report(size),
         DOMAIN knob = {"knobs", "at", "turn", "drift"}
  PROVE  DOMAIN knob' = {"knobs", "at", "turn", "drift"} /\ WheelHeld(i)'
<1> DEFINE w == Wheel(i)
           now == {TouchOf(k.size, KnobBytes(k, knob.at), {}) : k \in knob.knobs}
           rep == ReportShown(driver, size, hands, before, held \cup now)
           r == UsbReadCb(driver, mem, rep)
           seen == \E k \in knob.knobs : k.size \in Shows(driver, size)
           drifts == \E k \in knob.knobs : IsWheel(k)
<1>0. w.size = 17 /\ IsWheel(w)
  BY DEF Wheel, Knob, IsWheel
<1>1. /\ driver = "s2" /\ hands = {} /\ held = {} /\ knob.knobs = {w}
      /\ knob.at \in 0..1023 /\ knob.turn \in -50..50 /\ {"hw", "jog"} \subseteq DOMAIN mem
      /\ WheelOf(mem.jog[i]) /\ mem.jog[1 - i].pos = 0
      /\ mem.jog[i].pos = (knob.at - knob.turn) % 256 /\ knob.drift = -mem.jog[i].quadrant
  BY Zenon DEF WheelHeld
<1>2. /\ mem' = r.m /\ told' = r.ev
      /\ knob' = IF seen
                 THEN [knob EXCEPT !.turn = 0,
                         !.drift = IF drifts THEN @ + SumOf(Turned(told')) - knob.turn ELSE 0]
                 ELSE knob
      /\ driver' = driver /\ hands' = hands /\ held' = held
  BY Zenon DEF Report, Hear
<1> HIDE DEF w
<1>3. rep = Shown(size, {TouchOf(17, KnobBytes(w, knob.at), {})})
  <2>1. now = {TouchOf(17, KnobBytes(w, knob.at), {})}
    BY <1>0, <1>1
  <2> HIDE DEF now
  <2>2. held \cup now = now
    BY <1>1
  <2>3. \A S : ReportShown("s2", size, hands, before, S) = Shown(size, S)
    BY DEF ReportShown
  <2> QED  BY <1>1, <2>1, <2>2, <2>3, Zenon
<1>4. Shows(driver, size) = {size}
  BY <1>1 DEF Shows
<1>5. r = S2!ReadCb(mem, rep)
  BY <1>1 DEF UsbReadCb
<1>6. rep.size = size
  BY <1>3 DEF Shown, ReportOf
<1> HIDE DEF rep, r
<1>7. CASE size = 17
  <2> DEFINE j == S2!ReadJogs(mem, rep.b)
  <2>1. rep.b[1 + 4 * i] = knob.at % 256 /\ rep.b[1 + 4 * (1 - i)] = 0
    <3> DEFINE shown == Shown(17, {TouchOf(17, KnobBytes(Wheel(i), knob.at), {})})
    <3>1. shown.b[1 + 4 * i] = knob.at % 256 /\ shown.b[1 + 4 * (1 - i)] = 0
      <4>1. knob.at \in 0..1023
        BY <1>1, Zenon
      <4>2. \A p \in 0..1023 :
              LET s == Shown(17, {TouchOf(17, KnobBytes(Wheel(i), p), {})})
              IN s.b[1 + 4 * i] = p % 256 /\ s.b[1 + 4 * (1 - i)] = 0
        BY WheelReport, Zenon
      <4> QED  BY <4>1, <4>2, Zenon
    <3> QED  BY <1>3, <1>7, <3>1, Zenon DEF w
  <2>2. r = j
    BY <1>5, <1>6, <1>7 DEF S2!ReadCb
  <2>3. knob.at % 256 = (mem.jog[i].pos + knob.turn) % 256
    <3> DEFINE at == knob.at
               turn == knob.turn
               pos == mem.jog[i].pos
    <3>1. at \in 0..1023 /\ turn \in -50..50 /\ pos = (at - turn) % 256
      BY <1>1, Zenon
    <3> HIDE DEF at, turn, pos
    <3>2. at % 256 = (pos + turn) % 256
      BY <3>1, ByteOfTurn
    <3> QED  BY <3>2, Zenon DEF at, turn, pos
  <2>4. /\ WheelOf(j.m.jog[i]) /\ j.m.jog[i].pos = knob.at % 256
        /\ j.m.jog[1 - i].pos = 0 /\ {"hw", "jog"} \subseteq DOMAIN j.m
        /\ SumOf(Turned(j.ev)) \in Int
        /\ SumOf(Turned(j.ev)) + j.m.jog[i].quadrant = knob.turn + mem.jog[i].quadrant
    <3>1. knob.turn \in -55..55
      BY <1>1
    <3>2. rep.b[1 + 4 * i] = (mem.jog[i].pos + knob.turn) % 256
      BY <2>1, <2>3
    <3>0. WheelOf(mem.jog[i]) /\ mem.jog[1 - i].pos = 0 /\ {"hw", "jog"} \subseteq DOMAIN mem
      BY <1>1, Zenon
    <3>4. rep.b[1 + 4 * (1 - i)] = 0
      BY <2>1, Zenon
    <3>3. LET s == S2!ReadJogs(mem, rep.b)
          IN /\ WheelOf(s.m.jog[i]) /\ s.m.jog[i].pos = rep.b[1 + 4 * i]
             /\ s.m.jog[1 - i].pos = 0 /\ {"hw", "jog"} \subseteq DOMAIN s.m
             /\ SumOf(Turned(s.ev)) \in Int
             /\ SumOf(Turned(s.ev)) + s.m.jog[i].quadrant = knob.turn + mem.jog[i].quadrant
      <4> DEFINE by == knob.turn
                 b == rep.b
      <4> SUFFICES ASSUME by \in -55..55, b[1 + 4 * i] = (mem.jog[i].pos + by) % 256,
                          b[1 + 4 * (1 - i)] = 0
                   PROVE  LET s == S2!ReadJogs(mem, b)
                          IN /\ WheelOf(s.m.jog[i]) /\ s.m.jog[i].pos = b[1 + 4 * i]
                             /\ s.m.jog[1 - i].pos = 0 /\ {"hw", "jog"} \subseteq DOMAIN s.m
                             /\ SumOf(Turned(s.ev)) \in Int
                             /\ SumOf(Turned(s.ev)) + s.m.jog[i].quadrant
                                  = by + mem.jog[i].quadrant
        BY <3>1, <3>2, <3>4, Zenon
      <4> HIDE DEF by, b
      <4> QED  BY <3>0, WheelTurned
    <3> QED  BY <2>1, <3>3, Zenon
  <2> HIDE DEF j
  <2>5. knob' = [knob EXCEPT !.turn = 0, !.drift = knob.drift + SumOf(Turned(told')) - knob.turn]
    <3>1. seen /\ drifts
      BY <1>0, <1>1, <1>4, <1>7
    <3> QED  BY <1>2, <3>1
  <2>6. /\ DOMAIN knob' = {"knobs", "at", "turn", "drift"}
        /\ knob'.knobs = {w} /\ knob'.at = knob.at /\ knob'.turn = 0
        /\ knob'.drift = knob.drift + SumOf(Turned(told')) - knob.turn
    BY <1>1, <2>5
  <2>7. knob'.drift = -j.m.jog[i].quadrant
    <3>1. mem.jog[i].quadrant \in 0..3 /\ j.m.jog[i].quadrant \in 0..3
      BY <1>1, <2>4 DEF WheelOf
    <3>2. told' = j.ev
      BY <1>2, <2>2
    <3> DEFINE s == SumOf(Turned(told'))
               q == mem.jog[i].quadrant
               q2 == j.m.jog[i].quadrant
               d == knob.drift
               d2 == knob'.drift
               turn == knob.turn
    <3>3. /\ s \in Int /\ s + q2 = turn + q
      BY <2>4, <3>2, Zenon
    <3>4. d = -q /\ turn \in -50..50
      BY <1>1, Zenon
    <3>5. d2 = d + s - turn
      BY <2>6, Zenon
    <3>6. q \in 0..3 /\ q2 \in 0..3
      BY <3>1, Zenon
    <3> HIDE DEF s, q, q2, d, d2, turn
    <3>7. d2 = -q2
      BY <3>3, <3>4, <3>5, <3>6
    <3> QED  BY <3>7, Zenon DEF d2, q2
  <2> QED  BY <1>1, <1>2, <2>2, <2>4, <2>6, <2>7 DEF WheelHeld, w
<1>8. CASE size = 51
  <2>1. ~seen
    BY <1>0, <1>1, <1>4, <1>8
  <2>2. r = S2!ReadDials(mem, rep.b)
    BY <1>5, <1>6, <1>8 DEF S2!ReadCb
  <2>3. r.m.jog = mem.jog /\ {"hw", "jog"} \subseteq DOMAIN r.m
    BY <1>1, <2>2 DEF S2!ReadDials
  <2> QED  BY <1>1, <1>2, <2>1, <2>3 DEF WheelHeld, w
<1> QED  BY <1>1, <1>7, <1>8, WheelEchoes

\* Every step keeps it.
LEMMA FollowedStep == WheelFollowed /\ [Next]_vars => WheelFollowed'
<1> SUFFICES ASSUME WheelFollowed, [Next]_vars
             PROVE  WheelFollowed'
  OBVIOUS
<1> DEFINE fields == DOMAIN knob = {"knobs", "at", "turn", "drift"}
<1>1. driver' = driver /\ driver \in AllDrivers /\ fields
  <2>1. driver' = driver
    BY Zenon DEF Next, Touch_, Release, Slide, Turn, Report, Echo, vars
  <2> QED  BY <2>1, Zenon DEF WheelFollowed
<1>2. ASSUME (\A k \in knob.knobs : ~IsWheel(k)) /\ knob.drift = 0
      PROVE  WheelFollowed'
  <2>1. ASSUME UNCHANGED knob PROVE WheelFollowed'
    BY <1>1, <1>2, <2>1, Zenon DEF WheelFollowed, IsWheel
  <2>2. ASSUME NEW k, NEW by, Turn(k, by) PROVE WheelFollowed'
    <3>1. knob'.knobs = knob.knobs /\ knob'.drift = 0 /\ DOMAIN knob' = DOMAIN knob
      BY <1>1, <1>2, <2>2 DEF Turn
    <3>2. \A x \in knob'.knobs : ~IsWheel(x)
      BY <1>2, <3>1, Zenon
    <3>3. DOMAIN knob' = {"knobs", "at", "turn", "drift"}
      BY <1>1, <3>1, Zenon
    <3> QED  BY <1>1, <3>1, <3>2, <3>3, Zenon DEF WheelFollowed, IsWheel
  <2>3. ASSUME NEW size, Report(size) PROVE WheelFollowed'
    <3>1. ~ \E k \in knob.knobs : IsWheel(k)
      BY <1>2, Zenon
    <3>2. \/ knob' = knob
          \/ knob' = [knob EXCEPT !.turn = 0, !.drift = 0]
      BY <2>3, <3>1 DEF Report
    <3>3. knob'.knobs = knob.knobs /\ knob'.drift = 0 /\ DOMAIN knob' = DOMAIN knob
      BY <1>1, <1>2, <3>2
    <3> QED  BY <1>1, <1>2, <3>3, Zenon DEF WheelFollowed, IsWheel
  <2> QED  BY <2>1, <2>2, <2>3, Zenon DEF Next, Touch_, Release, Slide, Echo, vars
<1>3. ASSUME NEW i \in 0..1, WheelHeld(i)
      PROVE  WheelFollowed'
  <2>1. hands = {} /\ knob.knobs = {Wheel(i)} /\ driver = "s2"
    BY <1>3, Zenon DEF WheelHeld
  <2>2. ASSUME NEW by \in -50..50, Turn(Wheel(i), by)
        PROVE  WheelFollowed'
    <3> DEFINE at == (knob.at + by) % 1024
    <3>1. knob.turn = 0 /\ UNCHANGED <<driver, hands, held, mem>>
      BY <2>2, Zenon DEF Turn
    <3>2. knob' = [knob EXCEPT !.at = at, !.turn = by]
      <4>1. Wheel(i).ring = 1024
        BY DEF Wheel, Knob
      <4> QED  BY <2>2, <4>1 DEF Turn
    <3>3. at \in 0..1023 /\ (at - by) % 256 = knob.at % 256
      <4> DEFINE now == knob.at
      <4>1. now \in 0..1023
        BY <1>3, Zenon DEF WheelHeld
      <4> HIDE DEF now
      <4>2. (now + by) % 1024 \in 0..1023 /\ (((now + by) % 1024) - by) % 256 = now % 256
        <5>1. by \in -50..50
          BY <2>2
        <5>2. CASE now + by < 0
          <6>1. (now + by) % 1024 = now + by + 1024
            BY <4>1, <5>1, <5>2
          <6> QED  BY <4>1, <5>1, <5>2, <6>1
        <5>3. CASE now + by \in 0..1023
          <6>1. (now + by) % 1024 = now + by
            BY <4>1, <5>1, <5>3
          <6> QED  BY <4>1, <5>1, <5>3, <6>1
        <5>4. CASE now + by > 1023
          <6>1. (now + by) % 1024 = now + by - 1024
            BY <4>1, <5>1, <5>4
          <6> QED  BY <4>1, <5>1, <5>4, <6>1
        <5> QED  BY <4>1, <5>1, <5>2, <5>3, <5>4
      <4> QED  BY <4>2, Zenon DEF now
    <3> HIDE DEF at
    <3>4. /\ DOMAIN knob' = {"knobs", "at", "turn", "drift"} /\ knob'.knobs = knob.knobs
          /\ knob'.at = at /\ knob'.turn = by /\ knob'.drift = knob.drift
      BY <1>1, <3>2
    <3>5. (knob.at - knob.turn) % 256 = knob.at % 256
      BY <1>3, <3>1 DEF WheelHeld
    <3>6. WheelHeld(i)'
      BY <1>3, <3>1, <3>3, <3>4, <3>5 DEF WheelHeld
    <3> QED  BY <1>1, <3>4, <3>6, Zenon DEF WheelFollowed
  <2>3. ASSUME NEW k \in knob.knobs, NEW by \in UNION {j.steps : j \in knob.knobs},
               Turn(k, by) \/ Turn(k, -by)
        PROVE  WheelFollowed'
    <3>1. by \in {1, 50}
      BY <2>1, <2>3 DEF Wheel, Knob
    <3>2. by \in -50..50 /\ -by \in -50..50
      BY <3>1
    <3>3. k = Wheel(i)
      BY <2>1, <2>3
    <3> QED  BY <2>2, <2>3, <3>2, <3>3, Zenon
  <2>4. ASSUME NEW size \in Driver[driver].sizes, Report(size) PROVE WheelFollowed'
    BY <1>1, <1>3, <2>4, FollowedReport, Zenon DEF WheelFollowed
  <2>5. ASSUME NEW size \in Driver[driver].echoes, Echo(size) PROVE WheelFollowed'
    <3> DEFINE rep == [size |-> size, b |-> [o \in 0..(size - 1) |-> 255]]
    <3>1. mem' = UsbReadCb(driver, mem, rep).m /\ UNCHANGED <<driver, hands, held, knob>>
      BY <2>5, Zenon DEF Echo, Hear
    <3>2. rep.size = size /\ size # 17 /\ size # 51
      BY <2>1, <2>5, WheelEchoes
    <3> HIDE DEF rep
    <3>3. UsbReadCb(driver, mem, rep) = S2!ReadCb(mem, rep)
      BY <2>1 DEF UsbReadCb
    <3>4. mem' = mem
      BY <3>1, <3>2, <3>3 DEF S2!ReadCb, S2!Silent
    <3>5. WheelHeld(i)'
      BY <1>3, <3>1, <3>4, Zenon DEF WheelHeld
    <3>6. DOMAIN knob' = {"knobs", "at", "turn", "drift"}
      BY <1>1, <3>1, Zenon
    <3> QED  BY <1>1, <3>5, <3>6, Zenon DEF WheelFollowed
  <2>6. ASSUME UNCHANGED vars PROVE WheelFollowed'
    BY <1>1, <1>3, <2>6, Zenon DEF vars, WheelFollowed, WheelHeld
  <2> QED  BY <2>1, <2>3, <2>4, <2>5, <2>6, Zenon DEF Next
<1> QED  BY <1>2, <1>3, Zenon DEF WheelFollowed

\* The distances told of a wheel never drift from the distance turned by more than
\* the three quadrants a wheel can stand beyond its first.
THEOREM WheelCorrect == Spec => []WheelNear
<1>1. WheelFollowed => WheelNear
  BY DEF WheelFollowed, WheelHeld, WheelOf, WheelNear
<1> QED  BY <1>1, FollowedInit, FollowedStep, PTL DEF Spec
===============================================================================
