-------------------------- MODULE DriverLightsFacts ---------------------------
(***************************************************************************)
(* What each driver of DriverLights does to its image of the lights,       *)
(* driver by driver and then for all of them: which bytes a light takes,   *)
(* and that it takes no other (LightSetShape), that a flush sends all      *)
(* lights as they are to a handle that is open (FlushShape), that          *)
(* disconnect clears them (BlankShape), and what meters, touches and       *)
(* screens do (FeedbackShape, StripShape, PadShape, ScreensShape).         *)
(* DriverLightsProofs uses nothing else of the drivers.                    *)
(***************************************************************************)
EXTENDS DriverLights, SequenceTheorems, TLAPS

\* What an image holds at each of its places.
Byte == 0..255

\* The bytes of a driver's image, and its light memory.
Extent(d) ==
  CASE d = "f1" -> 0..79 [] d = "z1" -> 0..20 [] d = "x1" -> 0..190
    [] d = "s2" -> 0..131 [] d = "s5" -> 0..107 [] d = "d2" -> 0..122
    [] d = "jam" -> 0..214 [] d = "mikro2" -> 0..80 [] d = "mk3" -> 0..180
Memory(d) ==
  IF d = "mk3" THEN [img : [Extent(d) -> Byte], dirty : BOOLEAN, padsDirty : BOOLEAN]
  ELSE [img : [Extent(d) -> Byte], dirty : BOOLEAN]

\* The lights of a driver, and the bytes each of them takes.
Ids(d) ==
  CASE d = "f1" -> 0..42 [] d = "z1" -> 0..20 \ {17, 20} [] d = "x1" -> 0..34
    [] d = "s2" -> 0..51 [] d = "s5" -> 0..105 [] d = "d2" -> 0..45
    [] d = "jam" -> 0..123 [] d = "mikro2" -> 0..43 [] d = "mk3" -> 0..102
Spots(d, id) ==
  CASE d = "f1"     -> IF id < 23 THEN {id + 1}
                       ELSE IF id < 39 THEN (3 * id - 45)..(3 * id - 43)
                       ELSE {2 * id - 6, 2 * id - 5}
    [] d = "z1"     -> IF id \in {16, 19} THEN {id, id + 1} ELSE {id}
    [] d = "x1"     -> IF id \in 19..26 THEN (3 * id - 38)..(3 * id - 36)
                       ELSE IF id >= 27 THEN {id + 16} ELSE {id}
    [] d = "s2"     -> IF id < 36 THEN {id}
                       ELSE IF id < 44 THEN (3 * id - 8)..(3 * id - 6) ELSE {id + 80}
    [] d = "s5"     -> {id + 1}
    [] d = "d2"     -> IF id < 8 THEN (3 * id + 1)..(3 * id + 3)
                       ELSE IF id < 28 THEN {id + 17}
                       ELSE IF id < 32 THEN {2 * id - 11, 2 * id - 10}
                       ELSE IF id = 32 THEN {53}
                       ELSE IF id = 33 THEN {54, 55}
                       ELSE IF id = 34 THEN {56}
                       ELSE IF id = 35 THEN {57, 58}
                       ELSE IF id < 38 THEN {id + 23}
                       ELSE IF id < 42 THEN {id + 81} ELSE {id + 19, id + 23}
    [] d = "jam"    -> {id + 1}
    [] d = "mikro2" -> IF id < 8 THEN {id + 1}
                       ELSE IF id = 8 THEN 9..11
                       ELSE IF id < 28 THEN {id + 3} ELSE (3 * id - 53)..(3 * id - 51)
    [] d = "mk3"    -> IF id < 62 THEN {id + 1} ELSE {id + 39}

(***************************************************************************)
(* Images                                                                  *)
(***************************************************************************)

\* A set of bytes to be written: one value at least for every place.
Covers(bytes, at) ==
  /\ \A p \in bytes : p[1] \in at /\ p[2] \in Byte
  /\ \A i \in at : \E p \in bytes : p[1] = i

\* Put writes the places its set of bytes names, whatever they were.
LEMMA PutShape ==
  ASSUME NEW D, NEW img \in [D -> Byte], NEW bytes, NEW at, Covers(bytes, at)
  PROVE  /\ Put(img, bytes) \in [D -> Byte]
         /\ \A i \in D \ at : Put(img, bytes)[i] = img[i]
         /\ \A i \in D \cap at : Put(img, bytes)[i] = (CHOOSE p \in bytes : p[1] = i)[2]
<1> DEFINE new == [o \in {p[1] : p \in bytes} |-> (CHOOSE p \in bytes : p[1] = o)[2]]
<1>1. DOMAIN new = at
  BY DEF Covers
<1>2. \A i \in at : new[i] = (CHOOSE p \in bytes : p[1] = i)[2] /\ new[i] \in Byte
  BY DEF Covers
<1>3. Put(img, bytes) = [i \in D |-> IF i \in at THEN new[i] ELSE img[i]]
  <2>1. DOMAIN img = D
    OBVIOUS
  <2> QED BY <1>1, <2>1 DEF Put
<1> HIDE DEF new
<1> QED BY <1>1, <1>2, <1>3

\* What a Put leaves in its places does not depend on the image.
LEMMA PutSame ==
  ASSUME NEW D, NEW img \in [D -> Byte], NEW img0 \in [D -> Byte], NEW bytes, NEW at,
         Covers(bytes, at)
  PROVE  \A i \in D \cap at : Put(img, bytes)[i] = Put(img0, bytes)[i]
  BY PutShape

\* Blanked clears the places it is given and no other.
LEMMA BlankedShape ==
  ASSUME NEW D, NEW img \in [D -> Byte], NEW at
  PROVE  /\ Blanked(img, at) \in [D -> Byte]
         /\ \A i \in D \cap at : Blanked(img, at)[i] = 0
         /\ \A i \in D \ at : Blanked(img, at)[i] = img[i]
  BY DEF Blanked, Byte

\* All drivers write their images with the same operators.
LEMMA SamePut ==
  ASSUME NEW img, NEW bytes
  PROVE  /\ F1!Put(img, bytes) = Put(img, bytes) /\ Z1!Put(img, bytes) = Put(img, bytes)
         /\ X1!Put(img, bytes) = Put(img, bytes) /\ S2!Put(img, bytes) = Put(img, bytes)
         /\ S5!Put(img, bytes) = Put(img, bytes) /\ D2!Put(img, bytes) = Put(img, bytes)
         /\ Jam!Put(img, bytes) = Put(img, bytes) /\ Mikro2!Put(img, bytes) = Put(img, bytes)
         /\ Mk3!Put(img, bytes) = Put(img, bytes)
  BY DEF Put, F1!Put, Z1!Put, X1!Put, S2!Put, S5!Put, D2!Put, Jam!Put, Mikro2!Put, Mk3!Put

\* And blank them so.
LEMMA SameBlanked ==
  ASSUME NEW img, NEW at
  PROVE  /\ F1!Blanked(img, at) = Blanked(img, at) /\ Z1!Blanked(img, at) = Blanked(img, at)
         /\ X1!Blanked(img, at) = Blanked(img, at) /\ S2!Blanked(img, at) = Blanked(img, at)
         /\ S5!Blanked(img, at) = Blanked(img, at) /\ D2!Blanked(img, at) = Blanked(img, at)
         /\ Jam!Blanked(img, at) = Blanked(img, at)
         /\ Mikro2!Blanked(img, at) = Blanked(img, at)
         /\ Mk3!Blanked(img, at) = Blanked(img, at)
  BY DEF Blanked, F1!Blanked, Z1!Blanked, X1!Blanked, S2!Blanked, S5!Blanked, D2!Blanked,
         Jam!Blanked, Mikro2!Blanked, Mk3!Blanked

(***************************************************************************)
(* light_set                                                               *)
(***************************************************************************)

\* The channels of the two states that are asked for.
LEMMA Channels ==
  ASSUME NEW st \in {Off, White}
  PROVE  /\ st.w \in {0, 255} /\ st.r \in {0, 255} /\ st.g \in {0, 255} /\ st.b \in {0, 255}
         /\ st.w % 128 \in Byte /\ st.r % 128 \in Byte /\ st.g % 128 \in Byte
         /\ st.b % 128 \in Byte
         /\ 2 * (st.w \div 2) \in Byte
         /\ st.w \in Byte /\ st.r \in Byte /\ st.g \in Byte /\ st.b \in Byte
  BY DEF Off, White, Colour, Byte

\* Lights of one, two and three bytes.
LEMMA CoverOne ==
  ASSUME NEW a, NEW v \in Byte
  PROVE  Covers({<<a, v>>}, {a})
  BY DEF Covers

\* The bytes light_set of the Kontrol F1 writes are those of Spots.
LEMMA CoversF1 ==
  ASSUME NEW id \in 0..42, NEW st \in {Off, White}
  PROVE  Covers(F1!LightBytes(id, st), Spots("f1", id))
<1>1. CASE id < 23
  <2>1. Spots("f1", id) = {id + 1}
    BY <1>1 DEF Spots
  <2>2. F1!LightBytes(id, st) = {<<id + 1, st.w % 128>>}
    BY <1>1 DEF F1!LightBytes
  <2>3. st.w % 128 \in Byte
    BY Channels
  <2> QED BY <2>1, <2>2, <2>3, CoverOne
<1>2. CASE id \in 23..38
  <2>1. Spots("f1", id) = (3 * id - 45)..(3 * id - 43)
    BY <1>2 DEF Spots
  <2>2. F1!LightBytes(id, st) =
          {<<3 * id - 45, st.b % 128>>, <<3 * id - 44, st.r % 128>>, <<3 * id - 43, st.g % 128>>}
    BY <1>2 DEF F1!LightBytes
  <2>3. st.b % 128 \in Byte /\ st.r % 128 \in Byte /\ st.g % 128 \in Byte
    BY Channels
  <2> QED BY <2>1, <2>2, <2>3 DEF Covers
<1>3. CASE id \in 39..42
  <2>1. Spots("f1", id) = {2 * id - 6, 2 * id - 5}
    BY <1>3 DEF Spots
  <2>2. F1!LightBytes(id, st) = {<<2 * id - 6, st.w % 128>>, <<2 * id - 5, st.w % 128>>}
    BY <1>3 DEF F1!LightBytes
  <2>3. st.w % 128 \in Byte
    BY Channels
  <2> QED BY <2>1, <2>2, <2>3 DEF Covers
<1> QED BY <1>1, <1>2, <1>3

\* The bytes light_set of the Kontrol Z1 writes are those of Spots.
LEMMA CoversZ1 ==
  ASSUME NEW id \in 0..20 \ {17, 20}, NEW st \in {Off, White}
  PROVE  Covers(Z1!LightBytes(id, st), Spots("z1", id))
<1>1. CASE id \in {16, 19}
  <2>1. Spots("z1", id) = {id, id + 1}
    BY <1>1 DEF Spots
  <2>2. Z1!LightBytes(id, st) = {<<id, st.r>>, <<id + 1, st.b>>}
    BY <1>1 DEF Z1!LightBytes, Z1!FxOn
  <2>3. st.r \in Byte /\ st.b \in Byte
    BY Channels
  <2> QED BY <2>1, <2>2, <2>3 DEF Covers
<1>2. CASE id \notin {16, 19}
  <2>1. Spots("z1", id) = {id}
    BY <1>2 DEF Spots
  <2>2. Z1!LightBytes(id, st) = {<<id, st.w % 128>>}
    BY <1>2 DEF Z1!LightBytes, Z1!FxOn
  <2>3. st.w % 128 \in Byte
    BY Channels
  <2> QED BY <2>1, <2>2, <2>3, CoverOne
<1> QED BY <1>1, <1>2

\* The bytes light_set of the Kontrol X1 Mk2 writes are those of Spots.
LEMMA CoversX1 ==
  ASSUME NEW id \in 0..34, NEW st \in {Off, White}
  PROVE  Covers(X1!LightBytes(id, st), Spots("x1", id))
<1>1. CASE id < 19
  <2>1. Spots("x1", id) = {id}
    BY <1>1 DEF Spots
  <2>2. X1!LightBytes(id, st) = {<<id, st.w % 128>>}
    BY <1>1 DEF X1!LightBytes
  <2>3. st.w % 128 \in Byte
    BY Channels
  <2> QED BY <2>1, <2>2, <2>3, CoverOne
<1>2. CASE id \in 19..26
  <2>1. Spots("x1", id) = (3 * id - 38)..(3 * id - 36)
    BY <1>2 DEF Spots
  <2>2. X1!LightBytes(id, st) = {<<3 * id - 38, st.r>>, <<3 * id - 37, st.g>>, <<3 * id - 36, st.b>>}
    BY <1>2 DEF X1!LightBytes
  <2>3. st.r \in Byte /\ st.g \in Byte /\ st.b \in Byte
    BY Channels
  <2> QED BY <2>1, <2>2, <2>3 DEF Covers
<1>3. CASE id \in 27..34
  <2>1. Spots("x1", id) = {id + 16}
    BY <1>3 DEF Spots
  <2>2. X1!LightBytes(id, st) = {<<id + 16, st.w % 128>>}
    BY <1>3 DEF X1!LightBytes
  <2>3. st.w % 128 \in Byte
    BY Channels
  <2> QED BY <2>1, <2>2, <2>3, CoverOne
<1> QED BY <1>1, <1>2, <1>3

\* The bytes light_set of the Kontrol S2 Mk2 writes are those of Spots.
LEMMA CoversS2 ==
  ASSUME NEW id \in 0..51, NEW st \in {Off, White}
  PROVE  Covers(S2!LightBytes(id, st), Spots("s2", id))
<1>1. CASE id < 36
  <2>1. Spots("s2", id) = {id}
    BY <1>1 DEF Spots
  <2>2. S2!LightBytes(id, st) = {<<id, 2 * (st.w \div 2)>>}
    BY <1>1 DEF S2!LightBytes
  <2>3. 2 * (st.w \div 2) \in Byte
    BY Channels
  <2> QED BY <2>1, <2>2, <2>3, CoverOne
<1>2. CASE id \in 36..43
  <2>1. Spots("s2", id) = (3 * id - 8)..(3 * id - 6)
    BY <1>2 DEF Spots
  <2>2. S2!LightBytes(id, st) = {<<3 * id - 8, st.r>>, <<3 * id - 7, st.g>>, <<3 * id - 6, st.b>>}
    BY <1>2 DEF S2!LightBytes
  <2>3. st.r \in Byte /\ st.g \in Byte /\ st.b \in Byte
    BY Channels
  <2> QED BY <2>1, <2>2, <2>3 DEF Covers
<1>3. CASE id \in 44..51
  <2>1. Spots("s2", id) = {id + 80}
    BY <1>3 DEF Spots
  <2>2. S2!LightBytes(id, st) = {<<id + 80, 2 * (st.w \div 2)>>}
    BY <1>3 DEF S2!LightBytes
  <2>3. 2 * (st.w \div 2) \in Byte
    BY Channels
  <2> QED BY <2>1, <2>2, <2>3, CoverOne
<1> QED BY <1>1, <1>2, <1>3

\* The bytes light_set of the Kontrol S5 writes are those of Spots.
LEMMA CoversS5 ==
  ASSUME NEW id \in 0..105, NEW st \in {Off, White}
  PROVE  Covers(S5!LightBytes(id, st), Spots("s5", id))
<1>1. Spots("s5", id) = {id + 1}
  BY DEF Spots
<1>2. S5!LightBytes(id, st) = {<<id + 1, st.b>>}
  BY DEF S5!LightBytes
<1>3. st.b \in Byte
  BY Channels
<1> QED BY <1>1, <1>2, <1>3, CoverOne

\* The bytes light_set of the Kontrol D2 writes are those of Spots.
LEMMA CoversD2 ==
  ASSUME NEW id \in 0..45, NEW st \in {Off, White}
  PROVE  Covers(D2!LightBytes(id, st), Spots("d2", id))
<1>1. CASE id < 8
  <2>1. Spots("d2", id) = (3 * id + 1)..(3 * id + 3)
    BY <1>1 DEF Spots
  <2>2. D2!LightBytes(id, st) = {<<3 * id + 1, st.b>>, <<3 * id + 2, st.g>>, <<3 * id + 3, st.r>>}
    BY <1>1 DEF D2!LightBytes
  <2>3. st.b \in Byte /\ st.g \in Byte /\ st.r \in Byte
    BY Channels
  <2> QED BY <2>1, <2>2, <2>3 DEF Covers
<1>2. CASE id \in 8..27
  <2>1. Spots("d2", id) = {id + 17}
    BY <1>2 DEF Spots
  <2>2. D2!LightBytes(id, st) = {<<id + 17, st.w % 128>>}
    BY <1>2 DEF D2!LightBytes
  <2>3. st.w % 128 \in Byte
    BY Channels
  <2> QED BY <2>1, <2>2, <2>3, CoverOne
<1>3. CASE id \in 28..31
  <2>1. Spots("d2", id) = {2 * id - 11, 2 * id - 10}
    BY <1>3 DEF Spots
  <2>2. D2!LightBytes(id, st) = {<<2 * id - 11, st.w % 128>>, <<2 * id - 10, st.b>>}
    BY <1>3 DEF D2!LightBytes
  <2>3. st.w % 128 \in Byte /\ st.b \in Byte
    BY Channels
  <2> QED BY <2>1, <2>2, <2>3 DEF Covers
<1>4. CASE id = 32
  <2>1. Spots("d2", id) = {53}
    BY <1>4 DEF Spots
  <2>2. D2!LightBytes(id, st) = {<<53, st.w % 128>>}
    BY <1>4 DEF D2!LightBytes
  <2>3. st.w % 128 \in Byte
    BY Channels
  <2> QED BY <2>1, <2>2, <2>3, CoverOne
<1>5. CASE id = 33
  <2>1. Spots("d2", id) = {54, 55}
    BY <1>5 DEF Spots
  <2>2. D2!LightBytes(id, st) = {<<54, st.w % 128>>, <<55, st.b>>}
    BY <1>5 DEF D2!LightBytes
  <2>3. st.w % 128 \in Byte /\ st.b \in Byte
    BY Channels
  <2> QED BY <2>1, <2>2, <2>3 DEF Covers
<1>6. CASE id = 34
  <2>1. Spots("d2", id) = {56}
    BY <1>6 DEF Spots
  <2>2. D2!LightBytes(id, st) = {<<56, st.w % 128>>}
    BY <1>6 DEF D2!LightBytes
  <2>3. st.w % 128 \in Byte
    BY Channels
  <2> QED BY <2>1, <2>2, <2>3, CoverOne
<1>7. CASE id = 35
  <2>1. Spots("d2", id) = {57, 58}
    BY <1>7 DEF Spots
  <2>2. D2!LightBytes(id, st) = {<<57, st.g>>, <<58, st.r>>}
    BY <1>7 DEF D2!LightBytes
  <2>3. st.g \in Byte /\ st.r \in Byte
    BY Channels
  <2> QED BY <2>1, <2>2, <2>3 DEF Covers
<1>8. CASE id \in 36..37
  <2>1. Spots("d2", id) = {id + 23}
    BY <1>8 DEF Spots
  <2>2. D2!LightBytes(id, st) = {<<id + 23, st.w % 128>>}
    BY <1>8 DEF D2!LightBytes
  <2>3. st.w % 128 \in Byte
    BY Channels
  <2> QED BY <2>1, <2>2, <2>3, CoverOne
<1>9. CASE id \in 38..41
  <2>1. Spots("d2", id) = {id + 81}
    BY <1>9 DEF Spots
  <2>2. D2!LightBytes(id, st) = {<<id + 81, st.w % 128>>}
    BY <1>9 DEF D2!LightBytes
  <2>3. st.w % 128 \in Byte
    BY Channels
  <2> QED BY <2>1, <2>2, <2>3, CoverOne
<1>10. CASE id \in 42..45
  <2>1. Spots("d2", id) = {id + 19, id + 23}
    BY <1>10 DEF Spots
  <2>2. D2!LightBytes(id, st) = {<<id + 19, st.w % 128>>, <<id + 23, st.b>>}
    BY <1>10 DEF D2!LightBytes
  <2>3. st.w % 128 \in Byte /\ st.b \in Byte
    BY Channels, <1>10 DEF Byte
  <2> QED BY <2>1, <2>2, <2>3 DEF Covers
<1> QED BY <1>1, <1>2, <1>3, <1>4, <1>5, <1>6, <1>7, <1>8, <1>9, <1>10

\* The bytes light_set of the Maschine Mikro Mk2 writes are those of Spots.
LEMMA CoversMikro2 ==
  ASSUME NEW id \in 0..43, NEW st \in {Off, White}
  PROVE  Covers(Mikro2!LightBytes(id, st), Spots("mikro2", id))
<1>1. CASE id < 8
  <2>1. Spots("mikro2", id) = {id + 1}
    BY <1>1 DEF Spots
  <2>2. Mikro2!LightBytes(id, st) = {<<id + 1, st.w % 128>>}
    BY <1>1 DEF Mikro2!LightBytes
  <2>3. st.w % 128 \in Byte
    BY Channels
  <2> QED BY <2>1, <2>2, <2>3, CoverOne
<1>2. CASE id = 8
  <2>1. Spots("mikro2", id) = 9..11
    BY <1>2 DEF Spots
  <2>2. Mikro2!LightBytes(id, st) = {<<9, st.r % 128>>, <<10, st.g % 128>>, <<11, st.b % 128>>}
    BY <1>2 DEF Mikro2!LightBytes
  <2>3. st.r % 128 \in Byte /\ st.g % 128 \in Byte /\ st.b % 128 \in Byte
    BY Channels
  <2> QED BY <2>1, <2>2, <2>3 DEF Covers
<1>3. CASE id \in 9..27
  <2>1. Spots("mikro2", id) = {id + 3}
    BY <1>3 DEF Spots
  <2>2. Mikro2!LightBytes(id, st) = {<<id + 3, st.w % 128>>}
    BY <1>3 DEF Mikro2!LightBytes
  <2>3. st.w % 128 \in Byte
    BY Channels
  <2> QED BY <2>1, <2>2, <2>3, CoverOne
<1>4. CASE id \in 28..43
  <2>1. Spots("mikro2", id) = (3 * id - 53)..(3 * id - 51)
    BY <1>4 DEF Spots
  <2>2. Mikro2!LightBytes(id, st) =
          {<<3 * id - 53, st.r % 128>>, <<3 * id - 52, st.g % 128>>, <<3 * id - 51, st.b % 128>>}
    BY <1>4 DEF Mikro2!LightBytes, Mikro2!PadAt
  <2>3. st.r % 128 \in Byte /\ st.g % 128 \in Byte /\ st.b % 128 \in Byte
    BY Channels
  <2> QED BY <2>1, <2>2, <2>3 DEF Covers
<1> QED BY <1>1, <1>2, <1>3, <1>4

\* The bytes light_set of the Maschine Jam writes are those of Spots.
LEMMA CoversJam ==
  ASSUME NEW id \in 0..123, NEW st \in {Off, White}
  PROVE  Covers(Jam!LightBytes(id, st), Spots("jam", id))
<1> DEFINE bright == st.w % 128
           least == IF (bright \div 2) % 2 = 1 THEN bright ELSE bright + 2
<1>1. Spots("jam", id) = {id + 1}
  BY DEF Spots
<1>2. Jam!LightBytes(id, st) = {<<id + 1, least>>}
  BY DEF Jam!LightBytes
<1>3. least \in Byte
  <2>1. bright \in {0, 127}
    BY Channels
  <2> QED BY <2>1 DEF Byte
<1> HIDE DEF bright, least
<1> QED BY <1>1, <1>2, <1>3, CoverOne

\* The hues of the two states are those of no colour and of white.
LEMMA Hues == Mk3!Hue(Off) = 0 /\ Mk3!Hue(White) = 255
<1>1. Mk3!Hue(Off) = 0
  BY DEF Mk3!Hue, Mk3!Off, Off, Mk3!Colour, Colour
<1>2. White # Off /\ White.r = 255 /\ White.g = 255 /\ White.b = 255
  BY DEF White, Off, Colour
<1>3. Mk3!Max({White.r, White.g, White.b}) = 255 /\ Mk3!Min({White.r, White.g, White.b}) = 255
  BY <1>2 DEF Mk3!Max, Mk3!Min
<1> QED BY <1>1, <1>2, <1>3 DEF Mk3!Hue, Mk3!Off, Off, Mk3!Colour, Colour

\* The bytes light_set of the Maschine Mk3 writes are those of Spots.
LEMMA CoversMk3 ==
  ASSUME NEW id \in 0..102, NEW st \in {Off, White}
  PROVE  Covers(Mk3!LightBytes(id, st), Spots("mk3", id))
<1> DEFINE bright == st.w \div 8
           colour == (4 * Mk3!Hue(st)) % 256
<1>1. /\ bright \in 0..31 /\ colour \in {0, 252}
      /\ bright % 4 \in 0..3 /\ (bright \div 4) % 4 \in 0..3
  <2>1. st.w \in {0, 255} /\ Mk3!Hue(st) \in {0, 255}
    BY Channels, Hues
  <2> QED BY <2>1
<1>2. Spots("mk3", id) = {IF id < 62 THEN id + 1 ELSE id + 39}
  BY DEF Spots
<1>3. \E v \in Byte : Mk3!LightBytes(id, st) = {<<IF id < 62 THEN id + 1 ELSE id + 39, v>>}
  <2>1. bright \in Byte /\ colour + (bright % 4) \in Byte /\ colour + ((bright \div 4) % 4) \in Byte
    BY <1>1 DEF Byte
  <2> HIDE DEF bright, colour
  <2>2. Mk3!LightBytes(id, st) =
          IF id >= 62 THEN {<<101 + id - 62, colour + (bright % 4)>>}
          ELSE IF id \in Mk3!Coloured THEN {<<1 + id, colour + ((bright \div 4) % 4)>>}
          ELSE {<<1 + id, bright>>}
    BY DEF Mk3!LightBytes, bright, colour
  <2>3. CASE id >= 62
    BY <2>1, <2>2, <2>3
  <2>4. CASE id < 62
    BY <2>1, <2>2, <2>4
  <2> QED BY <2>3, <2>4
<1> QED BY <1>2, <1>3, CoverOne

(***************************************************************************)
(* The table of drivers                                                    *)
(***************************************************************************)

\* A light memory, but for the Mk3's, is an image and a flag.
LEMMA PlainMemory ==
  ASSUME NEW d \in AllDrivers, d # "mk3", NEW img \in [Extent(d) -> Byte], NEW flag \in BOOLEAN
  PROVE  [img |-> img, dirty |-> flag] \in Memory(d)
  BY DEF Memory

\* The table Driver says of a driver what its own module says.
Describes(d) ==
  /\ Driver[d].ids = Ids(d) /\ Driver[d].lights0 \in Memory(d)
  /\ Driver[d].alone = [id \in Ids(d) |-> [st \in {Off, White} |->
                          LightSet(d, Driver[d].lights0, id, st).img]]
  /\ Driver[d].foot = [id \in Ids(d) |->
                         {p \in DOMAIN Driver[d].lights0.img :
                            Driver[d].alone[id][White][p] # Driver[d].alone[id][Off][p]}]

\* The table on the Kontrol F1.
LEMMA DescribesF1 == Describes("f1")
<1>1. /\ Driver["f1"].ids = F1!LightIds /\ Driver["f1"].lights0 = F1!Lights0
      /\ Driver["f1"].alone = [id \in F1!LightIds |-> [st \in {Off, White} |->
                                 F1!LightSet(F1!Lights0, id, st).img]]
      /\ Driver["f1"].foot =
           [id \in F1!LightIds |->
              {p \in DOMAIN F1!Lights0.img :
                 Driver["f1"].alone[id][White][p] # Driver["f1"].alone[id][Off][p]}]
  BY ZenonT(40) DEF Driver, About
<1>2. F1!LightIds = Ids("f1")
  BY DEF F1!LightIds, Ids
<1>3. \A id, st : F1!LightSet(F1!Lights0, id, st) = LightSet("f1", F1!Lights0, id, st)
  BY DEF LightSet
<1>4. F1!Lights0 \in Memory("f1")
  <2>1. F1!Lights0.img \in [0..79 -> Byte]
    BY DEF F1!Lights0, F1!Dark, Byte
  <2>2. Extent("f1") = 0..79
    BY DEF Extent
  <2>3. F1!Lights0 = [img |-> F1!Lights0.img, dirty |-> FALSE]
    BY DEF F1!Lights0
  <2> QED BY <2>1, <2>2, <2>3, PlainMemory DEF AllDrivers
<1> QED BY <1>1, <1>2, <1>3, <1>4 DEF Describes

\* The table on the Kontrol Z1.
LEMMA DescribesZ1 == Describes("z1")
<1>1. /\ Driver["z1"].ids = Z1!LightIds /\ Driver["z1"].lights0 = Z1!Lights0
      /\ Driver["z1"].alone = [id \in Z1!LightIds |-> [st \in {Off, White} |->
                                 Z1!LightSet(Z1!Lights0, id, st).img]]
      /\ Driver["z1"].foot =
           [id \in Z1!LightIds |->
              {p \in DOMAIN Z1!Lights0.img :
                 Driver["z1"].alone[id][White][p] # Driver["z1"].alone[id][Off][p]}]
  BY ZenonT(40) DEF Driver, About
<1>2. Z1!LightIds = Ids("z1")
  BY DEF Z1!LightIds, Ids
<1>3. \A id, st : Z1!LightSet(Z1!Lights0, id, st) = LightSet("z1", Z1!Lights0, id, st)
  BY DEF LightSet
<1>4. Z1!Lights0 \in Memory("z1")
  <2>1. Z1!Lights0.img \in [0..20 -> Byte]
    BY DEF Z1!Lights0, Z1!Dark, Byte
  <2>2. Extent("z1") = 0..20
    BY DEF Extent
  <2>3. Z1!Lights0 = [img |-> Z1!Lights0.img, dirty |-> FALSE]
    BY DEF Z1!Lights0
  <2> QED BY <2>1, <2>2, <2>3, PlainMemory DEF AllDrivers
<1> QED BY <1>1, <1>2, <1>3, <1>4 DEF Describes

\* The table on the Kontrol X1 Mk2.
LEMMA DescribesX1 == Describes("x1")
<1>1. /\ Driver["x1"].ids = X1!LightIds /\ Driver["x1"].lights0 = X1!Lights0
      /\ Driver["x1"].alone = [id \in X1!LightIds |-> [st \in {Off, White} |->
                                 X1!LightSet(X1!Lights0, id, st).img]]
      /\ Driver["x1"].foot =
           [id \in X1!LightIds |->
              {p \in DOMAIN X1!Lights0.img :
                 Driver["x1"].alone[id][White][p] # Driver["x1"].alone[id][Off][p]}]
  BY ZenonT(40) DEF Driver, About
<1>2. X1!LightIds = Ids("x1")
  BY DEF X1!LightIds, Ids
<1>3. \A id, st : X1!LightSet(X1!Lights0, id, st) = LightSet("x1", X1!Lights0, id, st)
  BY DEF LightSet
<1>4. X1!Lights0 \in Memory("x1")
  <2>1. X1!Lights0.img \in [0..190 -> Byte]
    BY DEF X1!Lights0, Byte
  <2>2. Extent("x1") = 0..190
    BY DEF Extent
  <2>3. X1!Lights0 = [img |-> X1!Lights0.img, dirty |-> FALSE]
    BY DEF X1!Lights0
  <2> QED BY <2>1, <2>2, <2>3, PlainMemory DEF AllDrivers
<1> QED BY <1>1, <1>2, <1>3, <1>4 DEF Describes

\* The table on the Kontrol S2 Mk2.
LEMMA DescribesS2 == Describes("s2")
<1>1. /\ Driver["s2"].ids = S2!LightIds /\ Driver["s2"].lights0 = S2!Lights0
      /\ Driver["s2"].alone = [id \in S2!LightIds |-> [st \in {Off, White} |->
                                 S2!LightSet(S2!Lights0, id, st).img]]
      /\ Driver["s2"].foot =
           [id \in S2!LightIds |->
              {p \in DOMAIN S2!Lights0.img :
                 Driver["s2"].alone[id][White][p] # Driver["s2"].alone[id][Off][p]}]
  BY ZenonT(40) DEF Driver, About
<1>2. S2!LightIds = Ids("s2")
  BY DEF S2!LightIds, Ids
<1>3. \A id, st : S2!LightSet(S2!Lights0, id, st) = LightSet("s2", S2!Lights0, id, st)
  BY DEF LightSet
<1>4. S2!Lights0 \in Memory("s2")
  <2>1. S2!Lights0.img \in [0..131 -> Byte]
    BY DEF S2!Lights0, S2!Dark, Byte
  <2>2. Extent("s2") = 0..131
    BY DEF Extent
  <2>3. S2!Lights0 = [img |-> S2!Lights0.img, dirty |-> FALSE]
    BY DEF S2!Lights0
  <2> QED BY <2>1, <2>2, <2>3, PlainMemory DEF AllDrivers
<1> QED BY <1>1, <1>2, <1>3, <1>4 DEF Describes

\* The table on the Kontrol S5.
LEMMA DescribesS5 == Describes("s5")
<1>1. /\ Driver["s5"].ids = S5!LightIds /\ Driver["s5"].lights0 = S5!Lights0
      /\ Driver["s5"].alone = [id \in S5!LightIds |-> [st \in {Off, White} |->
                                 S5!LightSet(S5!Lights0, id, st).img]]
      /\ Driver["s5"].foot =
           [id \in S5!LightIds |->
              {p \in DOMAIN S5!Lights0.img :
                 Driver["s5"].alone[id][White][p] # Driver["s5"].alone[id][Off][p]}]
  BY ZenonT(40) DEF Driver, About
<1>2. S5!LightIds = Ids("s5")
  BY DEF S5!LightIds, Ids
<1>3. \A id, st : S5!LightSet(S5!Lights0, id, st) = LightSet("s5", S5!Lights0, id, st)
  BY DEF LightSet
<1>4. S5!Lights0 \in Memory("s5")
  <2>1. S5!Lights0.img \in [0..107 -> Byte]
    BY DEF S5!Lights0, Byte
  <2>2. Extent("s5") = 0..107
    BY DEF Extent
  <2>3. S5!Lights0 = [img |-> S5!Lights0.img, dirty |-> TRUE]
    BY DEF S5!Lights0
  <2> QED BY <2>1, <2>2, <2>3, PlainMemory DEF AllDrivers
<1> QED BY <1>1, <1>2, <1>3, <1>4 DEF Describes

\* The table on the Kontrol D2.
LEMMA DescribesD2 == Describes("d2")
<1>1. /\ Driver["d2"].ids = D2!LightIds /\ Driver["d2"].lights0 = D2!Lights0
      /\ Driver["d2"].alone = [id \in D2!LightIds |-> [st \in {Off, White} |->
                                 D2!LightSet(D2!Lights0, id, st).img]]
      /\ Driver["d2"].foot =
           [id \in D2!LightIds |->
              {p \in DOMAIN D2!Lights0.img :
                 Driver["d2"].alone[id][White][p] # Driver["d2"].alone[id][Off][p]}]
  BY ZenonT(40) DEF Driver, About
<1>2. D2!LightIds = Ids("d2")
  BY DEF D2!LightIds, Ids
<1>3. \A id, st : D2!LightSet(D2!Lights0, id, st) = LightSet("d2", D2!Lights0, id, st)
  BY DEF LightSet
<1>4. D2!Lights0 \in Memory("d2")
  <2>1. D2!Lights0.img \in [0..122 -> Byte]
    BY DEF D2!Lights0, D2!Dark, Byte
  <2>2. Extent("d2") = 0..122
    BY DEF Extent
  <2>3. D2!Lights0 = [img |-> D2!Lights0.img, dirty |-> FALSE]
    BY DEF D2!Lights0
  <2> QED BY <2>1, <2>2, <2>3, PlainMemory DEF AllDrivers
<1> QED BY <1>1, <1>2, <1>3, <1>4 DEF Describes

\* The table on the Maschine Jam.
LEMMA DescribesJam == Describes("jam")
<1>1. /\ Driver["jam"].ids = Jam!LightIds /\ Driver["jam"].lights0 = Jam!Lights0
      /\ Driver["jam"].alone = [id \in Jam!LightIds |-> [st \in {Off, White} |->
                                 Jam!LightSet(Jam!Lights0, id, st).img]]
      /\ Driver["jam"].foot =
           [id \in Jam!LightIds |->
              {p \in DOMAIN Jam!Lights0.img :
                 Driver["jam"].alone[id][White][p] # Driver["jam"].alone[id][Off][p]}]
  BY ZenonT(40) DEF Driver, About
<1>2. Jam!LightIds = Ids("jam")
  BY DEF Jam!LightIds, Ids
<1>3. \A id, st : Jam!LightSet(Jam!Lights0, id, st) = LightSet("jam", Jam!Lights0, id, st)
  BY DEF LightSet
<1>4. Jam!Lights0 \in Memory("jam")
  <2>1. Jam!Lights0.img \in [0..214 -> Byte]
    BY DEF Jam!Lights0, Byte
  <2>2. Extent("jam") = 0..214
    BY DEF Extent
  <2>3. Jam!Lights0 = [img |-> Jam!Lights0.img, dirty |-> FALSE]
    BY DEF Jam!Lights0
  <2> QED BY <2>1, <2>2, <2>3, PlainMemory DEF AllDrivers
<1> QED BY <1>1, <1>2, <1>3, <1>4 DEF Describes

\* The table on the Maschine Mikro Mk2.
LEMMA DescribesMikro2 == Describes("mikro2")
<1>1. /\ Driver["mikro2"].ids = Mikro2!LightIds /\ Driver["mikro2"].lights0 = Mikro2!Lights0
      /\ Driver["mikro2"].alone = [id \in Mikro2!LightIds |-> [st \in {Off, White} |->
                                 Mikro2!LightSet(Mikro2!Lights0, id, st).img]]
      /\ Driver["mikro2"].foot =
           [id \in Mikro2!LightIds |->
              {p \in DOMAIN Mikro2!Lights0.img :
                 Driver["mikro2"].alone[id][White][p] # Driver["mikro2"].alone[id][Off][p]}]
  BY ZenonT(40) DEF Driver, About
<1>2. Mikro2!LightIds = Ids("mikro2")
  BY DEF Mikro2!LightIds, Ids
<1>3. \A id, st : Mikro2!LightSet(Mikro2!Lights0, id, st) = LightSet("mikro2", Mikro2!Lights0, id, st)
  BY DEF LightSet
<1>4. Mikro2!Lights0 \in Memory("mikro2")
  <2>1. Mikro2!Lights0.img \in [0..80 -> Byte]
    BY DEF Mikro2!Lights0, Mikro2!Dark, Byte
  <2>2. Extent("mikro2") = 0..80
    BY DEF Extent
  <2>3. Mikro2!Lights0 = [img |-> Mikro2!Lights0.img, dirty |-> FALSE]
    BY DEF Mikro2!Lights0
  <2> QED BY <2>1, <2>2, <2>3, PlainMemory DEF AllDrivers
<1> QED BY <1>1, <1>2, <1>3, <1>4 DEF Describes

\* The table on the Maschine Mk3.
LEMMA DescribesMk3 == Describes("mk3")
<1>1. /\ Driver["mk3"].ids = Mk3!LightIds /\ Driver["mk3"].lights0 = Mk3!Lights0
      /\ Driver["mk3"].alone = [id \in Mk3!LightIds |-> [st \in {Off, White} |->
                                 Mk3!LightSet(Mk3!Lights0, id, st).img]]
      /\ Driver["mk3"].foot =
           [id \in Mk3!LightIds |->
              {p \in DOMAIN Mk3!Lights0.img :
                 Driver["mk3"].alone[id][White][p] # Driver["mk3"].alone[id][Off][p]}]
  BY ZenonT(40) DEF Driver, About
<1>2. Mk3!LightIds = Ids("mk3")
  BY DEF Mk3!LightIds, Ids
<1>3. \A id, st : Mk3!LightSet(Mk3!Lights0, id, st) = LightSet("mk3", Mk3!Lights0, id, st)
  BY DEF LightSet
<1>4. Mk3!Lights0 \in Memory("mk3")
  <2>1. Mk3!Lights0.img \in [0..180 -> Byte]
    BY DEF Mk3!Lights0, Mk3!Dark, Byte
  <2>2. Extent("mk3") = 0..180
    BY DEF Extent
  <2>3. Mk3!Lights0 = [img |-> Mk3!Lights0.img, dirty |-> TRUE, padsDirty |-> FALSE]
    BY DEF Mk3!Lights0
  <2>4. Memory("mk3") = [img : [0..180 -> Byte], dirty : BOOLEAN, padsDirty : BOOLEAN]
    BY <2>2 DEF Memory
  <2> QED BY <2>1, <2>3, <2>4
<1> QED BY <1>1, <1>2, <1>3, <1>4 DEF Describes

\* So it does for all of them.
LEMMA TableDescribes == \A d \in AllDrivers : Describes(d)
  BY DescribesF1, DescribesZ1, DescribesX1, DescribesS2, DescribesS5, DescribesD2,
     DescribesJam, DescribesMikro2, DescribesMk3 DEF AllDrivers

\* The bytes of a driver's lights.
Lit(d) ==
  CASE d = "f1" -> 1..79 [] d = "z1" -> 0..20 [] d = "x1" -> 0..50
    [] d = "s2" -> (0..63) \cup (100..131) [] d = "s5" -> 1..106
    [] d = "d2" -> (1..68) \cup (119..122) [] d = "jam" -> 1..65
    [] d = "mikro2" -> 1..80 [] d = "mk3" -> (1..62) \cup (101..162)

\* No two lights share a byte.
LEMMA SpotsApart ==
  ASSUME NEW d \in AllDrivers, NEW i \in Ids(d), NEW j \in Ids(d), i # j
  PROVE  Spots(d, i) \cap Spots(d, j) = {}
<1>1. CASE d = "f1"
  BY <1>1 DEF Spots, Ids
<1>2. CASE d = "z1"
  BY <1>2 DEF Spots, Ids
<1>3. CASE d = "x1"
  BY <1>3 DEF Spots, Ids
<1>4. CASE d = "s2"
  BY <1>4 DEF Spots, Ids
<1>5. CASE d = "s5"
  BY <1>5 DEF Spots, Ids
<1>6. CASE d = "d2"
  BY <1>6 DEF Spots, Ids
<1>7. CASE d = "jam"
  BY <1>7 DEF Spots, Ids
<1>8. CASE d = "mikro2"
  BY <1>8 DEF Spots, Ids
<1>9. CASE d = "mk3"
  BY <1>9 DEF Spots, Ids
<1> QED BY <1>1, <1>2, <1>3, <1>4, <1>5, <1>6, <1>7, <1>8, <1>9 DEF AllDrivers

\* The lights that reports carry.
LEMMA SpotsLit ==
  ASSUME NEW d \in AllDrivers, NEW id \in Ids(d) \ Unsent(d)
  PROVE  Spots(d, id) \subseteq Lit(d)
<1>1. CASE d \in {"f1", "z1", "x1"}
  BY <1>1 DEF Spots, Ids, Lit
<1>2. CASE d \in {"s2", "s5", "d2"}
  BY <1>2 DEF Spots, Ids, Lit
<1>3. CASE d \in {"jam", "mikro2", "mk3"}
  BY <1>3 DEF Spots, Ids, Lit, Unsent
<1> QED BY <1>1, <1>2, <1>3 DEF AllDrivers

\* Lights are bytes of the image.
LEMMA LitExtent ==
  ASSUME NEW d \in AllDrivers PROVE Lit(d) \subseteq Extent(d)
  BY DEF Lit, Extent, AllDrivers

\* light_set writes the bytes of its light and none else, whatever they were.
SetsOnly(d, m, id, st) ==
  LET after == LightSet(d, m, id, st)
  IN /\ after \in Memory(d)
     /\ \A p \in Extent(d) \ Spots(d, id) : after.img[p] = m.img[p]
     /\ \A p \in Extent(d) \cap Spots(d, id) :
          after.img[p] = LightSet(d, Driver[d].lights0, id, st).img[p]

\* What a light memory has.
LEMMA MemoryShape ==
  ASSUME NEW d \in AllDrivers, NEW m \in Memory(d)
  PROVE  m.img \in [Extent(d) -> Byte] /\ m.dirty \in BOOLEAN
  BY DEF Memory

\* Setting a light of d to st is one Put of such bytes.
IsPut(d, id, st, bytes) ==
  \A lit \in Memory(d) : \E flag \in BOOLEAN :
    LightSet(d, lit, id, st) = [img |-> Put(lit.img, bytes), dirty |-> flag]

\* Such a Put is all that is asked of light_set.
LEMMA PutLight ==
  ASSUME NEW d \in AllDrivers, d # "mk3", NEW m \in Memory(d), NEW id, NEW st, NEW bytes,
         Driver[d].lights0 \in Memory(d), Covers(bytes, Spots(d, id)), IsPut(d, id, st, bytes)
  PROVE  SetsOnly(d, m, id, st)
<1> DEFINE m0 == Driver[d].lights0
           at == Spots(d, id)
           D == Extent(d)
<1>1. m.img \in [D -> Byte] /\ m0.img \in [D -> Byte] /\ m0 \in Memory(d)
  BY MemoryShape
<1> HIDE DEF m0, at, D
<1>2. /\ Put(m.img, bytes) \in [D -> Byte]
      /\ \A i \in D \ at : Put(m.img, bytes)[i] = m.img[i]
  BY <1>1, PutShape DEF at
<1>3. \A i \in D \cap at : Put(m.img, bytes)[i] = Put(m0.img, bytes)[i]
  BY <1>1, PutSame DEF at
<1>4. PICK flag \in BOOLEAN : LightSet(d, m, id, st) = [img |-> Put(m.img, bytes), dirty |-> flag]
  BY DEF IsPut
<1>5. LightSet(d, m0, id, st).img = Put(m0.img, bytes)
  <2>1. \E flag0 \in BOOLEAN : LightSet(d, m0, id, st) = [img |-> Put(m0.img, bytes), dirty |-> flag0]
    BY <1>1 DEF IsPut
  <2> QED BY <2>1
<1>6. LightSet(d, m, id, st) \in Memory(d) /\ LightSet(d, m, id, st).img = Put(m.img, bytes)
  <2> DEFINE img == Put(m.img, bytes)
  <2>1. img \in [Extent(d) -> Byte]
    BY <1>2 DEF D
  <2> HIDE DEF img
  <2>2. [img |-> img, dirty |-> flag] \in Memory(d)
    BY <2>1, PlainMemory
  <2> QED BY <1>4, <2>2 DEF img
<1> QED BY <1>2, <1>3, <1>5, <1>6 DEF SetsOnly, m0, at, D

\* light_set of the Kontrol F1.
LEMMA SetF1 ==
  ASSUME NEW m \in Memory("f1"), NEW id \in Ids("f1"), NEW st \in {Off, White}
  PROVE  SetsOnly("f1", m, id, st)
<1> DEFINE bytes == F1!LightBytes(id, st)
<1>1. id \in 0..42 /\ Covers(bytes, Spots("f1", id))
  BY CoversF1 DEF Ids
<1>2. \A lit : LightSet("f1", lit, id, st) = F1!LightSet(lit, id, st)
  BY DEF LightSet
<1>3. \A lit : F1!LightSet(lit, id, st) = [img |-> F1!Put(lit.img, bytes), dirty |-> TRUE]
  BY <1>1 DEF F1!LightSet
<1> HIDE DEF bytes
<1>4. IsPut("f1", id, st, bytes)
  BY <1>2, <1>3, SamePut DEF IsPut
<1>5. Driver["f1"].lights0 \in Memory("f1") /\ "f1" \in AllDrivers
  BY DescribesF1 DEF Describes, AllDrivers
<1> QED BY <1>1, <1>4, <1>5, PutLight

\* light_set of the Kontrol Z1.
LEMMA SetZ1 ==
  ASSUME NEW m \in Memory("z1"), NEW id \in Ids("z1"), NEW st \in {Off, White}
  PROVE  SetsOnly("z1", m, id, st)
<1> DEFINE bytes == Z1!LightBytes(id, st)
<1>1. id \in 0..20 \ {17, 20} /\ Covers(bytes, Spots("z1", id))
  BY CoversZ1 DEF Ids
<1>2. \A lit : LightSet("z1", lit, id, st) = Z1!LightSet(lit, id, st)
  BY DEF LightSet
<1>3. \A lit : Z1!LightSet(lit, id, st) = [img |-> Z1!Put(lit.img, bytes), dirty |-> TRUE]
  BY <1>1 DEF Z1!LightSet, Z1!LightIds
<1> HIDE DEF bytes
<1>4. IsPut("z1", id, st, bytes)
  BY <1>2, <1>3, SamePut DEF IsPut
<1>5. Driver["z1"].lights0 \in Memory("z1") /\ "z1" \in AllDrivers
  BY DescribesZ1 DEF Describes, AllDrivers
<1> QED BY <1>1, <1>4, <1>5, PutLight

\* light_set of the Kontrol X1 Mk2.
LEMMA SetX1 ==
  ASSUME NEW m \in Memory("x1"), NEW id \in Ids("x1"), NEW st \in {Off, White}
  PROVE  SetsOnly("x1", m, id, st)
<1> DEFINE bytes == X1!LightBytes(id, st)
<1>1. id \in 0..34 /\ Covers(bytes, Spots("x1", id))
  BY CoversX1 DEF Ids
<1>2. \A lit : LightSet("x1", lit, id, st) = X1!LightSet(lit, id, st)
  BY DEF LightSet
<1>3. \A lit : X1!LightSet(lit, id, st) = [img |-> X1!Put(lit.img, bytes), dirty |-> TRUE]
  BY <1>1 DEF X1!LightSet
<1> HIDE DEF bytes
<1>4. IsPut("x1", id, st, bytes)
  BY <1>2, <1>3, SamePut DEF IsPut
<1>5. Driver["x1"].lights0 \in Memory("x1") /\ "x1" \in AllDrivers
  BY DescribesX1 DEF Describes, AllDrivers
<1> QED BY <1>1, <1>4, <1>5, PutLight

\* light_set of the Kontrol S2 Mk2.
LEMMA SetS2 ==
  ASSUME NEW m \in Memory("s2"), NEW id \in Ids("s2"), NEW st \in {Off, White}
  PROVE  SetsOnly("s2", m, id, st)
<1> DEFINE bytes == S2!LightBytes(id, st)
<1>1. id \in 0..51 /\ Covers(bytes, Spots("s2", id))
  BY CoversS2 DEF Ids
<1>2. \A lit : LightSet("s2", lit, id, st) = S2!LightSet(lit, id, st)
  BY DEF LightSet
<1>3. \A lit : S2!LightSet(lit, id, st) = [img |-> S2!Put(lit.img, bytes), dirty |-> TRUE]
  BY <1>1 DEF S2!LightSet
<1> HIDE DEF bytes
<1>4. IsPut("s2", id, st, bytes)
  BY <1>2, <1>3, SamePut DEF IsPut
<1>5. Driver["s2"].lights0 \in Memory("s2") /\ "s2" \in AllDrivers
  BY DescribesS2 DEF Describes, AllDrivers
<1> QED BY <1>1, <1>4, <1>5, PutLight

\* light_set of the Kontrol S5.
LEMMA SetS5 ==
  ASSUME NEW m \in Memory("s5"), NEW id \in Ids("s5"), NEW st \in {Off, White}
  PROVE  SetsOnly("s5", m, id, st)
<1> DEFINE bytes == S5!LightBytes(id, st)
<1>1. id \in 0..105 /\ Covers(bytes, Spots("s5", id))
  BY CoversS5 DEF Ids
<1>2. \A lit : LightSet("s5", lit, id, st) = S5!LightSet(lit, id, st)
  BY DEF LightSet
<1>3. \A lit \in Memory("s5") :
        S5!LightSet(lit, id, st) = [img |-> S5!Put(lit.img, bytes), dirty |-> lit.dirty]
  BY <1>1 DEF S5!LightSet, Memory
<1> HIDE DEF bytes
<1>4. IsPut("s5", id, st, bytes)
  BY <1>2, <1>3, SamePut, MemoryShape DEF IsPut, AllDrivers
<1>5. Driver["s5"].lights0 \in Memory("s5") /\ "s5" \in AllDrivers
  BY DescribesS5 DEF Describes, AllDrivers
<1> QED BY <1>1, <1>4, <1>5, PutLight

\* light_set of the Kontrol D2.
LEMMA SetD2 ==
  ASSUME NEW m \in Memory("d2"), NEW id \in Ids("d2"), NEW st \in {Off, White}
  PROVE  SetsOnly("d2", m, id, st)
<1> DEFINE bytes == D2!LightBytes(id, st)
<1>1. id \in 0..45 /\ Covers(bytes, Spots("d2", id))
  BY CoversD2 DEF Ids
<1>2. \A lit : LightSet("d2", lit, id, st) = D2!LightSet(lit, id, st)
  BY DEF LightSet
<1>3. \A lit : D2!LightSet(lit, id, st) = [img |-> D2!Put(lit.img, bytes), dirty |-> TRUE]
  BY <1>1 DEF D2!LightSet
<1> HIDE DEF bytes
<1>4. IsPut("d2", id, st, bytes)
  BY <1>2, <1>3, SamePut DEF IsPut
<1>5. Driver["d2"].lights0 \in Memory("d2") /\ "d2" \in AllDrivers
  BY DescribesD2 DEF Describes, AllDrivers
<1> QED BY <1>1, <1>4, <1>5, PutLight

\* light_set of the Maschine Jam.
LEMMA SetJam ==
  ASSUME NEW m \in Memory("jam"), NEW id \in Ids("jam"), NEW st \in {Off, White}
  PROVE  SetsOnly("jam", m, id, st)
<1> DEFINE bytes == Jam!LightBytes(id, st)
<1>1. id \in 0..123 /\ Covers(bytes, Spots("jam", id))
  BY CoversJam DEF Ids
<1>2. \A lit : LightSet("jam", lit, id, st) = Jam!LightSet(lit, id, st)
  BY DEF LightSet
<1>3. \A lit : Jam!LightSet(lit, id, st) = [img |-> Jam!Put(lit.img, bytes), dirty |-> TRUE]
  BY <1>1 DEF Jam!LightSet
<1> HIDE DEF bytes
<1>4. IsPut("jam", id, st, bytes)
  BY <1>2, <1>3, SamePut DEF IsPut
<1>5. Driver["jam"].lights0 \in Memory("jam") /\ "jam" \in AllDrivers
  BY DescribesJam DEF Describes, AllDrivers
<1> QED BY <1>1, <1>4, <1>5, PutLight

\* light_set of the Maschine Mikro Mk2.
LEMMA SetMikro2 ==
  ASSUME NEW m \in Memory("mikro2"), NEW id \in Ids("mikro2"), NEW st \in {Off, White}
  PROVE  SetsOnly("mikro2", m, id, st)
<1> DEFINE bytes == Mikro2!LightBytes(id, st)
<1>1. id \in 0..43 /\ Covers(bytes, Spots("mikro2", id))
  BY CoversMikro2 DEF Ids
<1>2. \A lit : LightSet("mikro2", lit, id, st) = Mikro2!LightSet(lit, id, st)
  BY DEF LightSet
<1>3. \A lit : Mikro2!LightSet(lit, id, st) = [img |-> Mikro2!Put(lit.img, bytes), dirty |-> TRUE]
  BY <1>1 DEF Mikro2!LightSet
<1> HIDE DEF bytes
<1>4. IsPut("mikro2", id, st, bytes)
  BY <1>2, <1>3, SamePut DEF IsPut
<1>5. Driver["mikro2"].lights0 \in Memory("mikro2") /\ "mikro2" \in AllDrivers
  BY DescribesMikro2 DEF Describes, AllDrivers
<1> QED BY <1>1, <1>4, <1>5, PutLight

\* The Mk3's light memory has a second flag.
LEMMA Mk3Memory ==
  ASSUME NEW m \in Memory("mk3")
  PROVE  /\ m = [img |-> m.img, dirty |-> m.dirty, padsDirty |-> m.padsDirty]
         /\ m.dirty \in BOOLEAN /\ m.padsDirty \in BOOLEAN
<1> DEFINE images == [Extent("mk3") -> Byte]
<1>1. m \in [img : images, dirty : BOOLEAN, padsDirty : BOOLEAN]
  BY DEF Memory
<1> HIDE DEF images
<1> QED BY <1>1

\* light_set of the Maschine Mk3.
LEMMA SetMk3 ==
  ASSUME NEW m \in Memory("mk3"), NEW id \in Ids("mk3"), NEW st \in {Off, White}
  PROVE  SetsOnly("mk3", m, id, st)
<1> DEFINE bytes == Mk3!LightBytes(id, st)
           m0 == Driver["mk3"].lights0
           at == Spots("mk3", id)
           D == Extent("mk3")
<1>1. id \in 0..102 /\ Covers(bytes, at)
  BY CoversMk3 DEF Ids
<1>2. \A lit : LightSet("mk3", lit, id, st) = Mk3!LightSet(lit, id, st)
  BY DEF LightSet
<1>3. Memory("mk3") = [img : [D -> Byte], dirty : BOOLEAN, padsDirty : BOOLEAN]
  BY DEF Memory
<1>4. \A lit \in Memory("mk3") : \E a, b \in BOOLEAN :
        Mk3!LightSet(lit, id, st) = [img |-> Mk3!Put(lit.img, bytes), dirty |-> a, padsDirty |-> b]
  <2> SUFFICES ASSUME NEW lit \in Memory("mk3")
               PROVE  \E a, b \in BOOLEAN :
                        Mk3!LightSet(lit, id, st) =
                          [img |-> Mk3!Put(lit.img, bytes), dirty |-> a, padsDirty |-> b]
    OBVIOUS
  <2>1. /\ lit = [img |-> lit.img, dirty |-> lit.dirty, padsDirty |-> lit.padsDirty]
        /\ lit.dirty \in BOOLEAN /\ lit.padsDirty \in BOOLEAN
    BY Mk3Memory
  <2>2. CASE id >= 62
    <3>1. Mk3!LightSet(lit, id, st) =
            [lit EXCEPT !.img = Mk3!Put(lit.img, bytes), !.padsDirty = TRUE]
      BY <1>1, <2>2 DEF Mk3!LightSet
    <3>2. Mk3!LightSet(lit, id, st) =
            [img |-> Mk3!Put(lit.img, bytes), dirty |-> lit.dirty, padsDirty |-> TRUE]
      BY <2>1, <3>1
    <3> QED BY <2>1, <3>2
  <2>3. CASE id < 62
    <3>1. Mk3!LightSet(lit, id, st) = [lit EXCEPT !.img = Mk3!Put(lit.img, bytes), !.dirty = TRUE]
      BY <1>1, <2>3 DEF Mk3!LightSet
    <3>2. Mk3!LightSet(lit, id, st) =
            [img |-> Mk3!Put(lit.img, bytes), dirty |-> TRUE, padsDirty |-> lit.padsDirty]
      BY <2>1, <3>1
    <3> QED BY <2>1, <3>2
  <2> QED BY <1>1, <2>2, <2>3
<1>5. m0 \in Memory("mk3")
  BY DescribesMk3 DEF Describes
<1>6. m.img \in [D -> Byte] /\ m0.img \in [D -> Byte]
  BY <1>5, MemoryShape DEF AllDrivers
<1> HIDE DEF bytes, m0, at, D
<1>7. /\ Put(m.img, bytes) \in [D -> Byte]
      /\ \A i \in D \ at : Put(m.img, bytes)[i] = m.img[i]
  BY <1>1, <1>6, PutShape
<1>8. \A i \in D \cap at : Put(m.img, bytes)[i] = Put(m0.img, bytes)[i]
  BY <1>1, <1>6, PutSame
<1>9. LightSet("mk3", m0, id, st).img = Put(m0.img, bytes)
  BY <1>2, <1>4, <1>5, SamePut
<1>10. LightSet("mk3", m, id, st).img = Put(m.img, bytes) /\ LightSet("mk3", m, id, st) \in Memory("mk3")
  BY <1>2, <1>3, <1>4, <1>7, SamePut
<1> QED BY <1>7, <1>8, <1>9, <1>10 DEF SetsOnly, m0, at, D

\* So it is for all of them.
LEMMA LightSetShape ==
  ASSUME NEW d \in AllDrivers, NEW m \in Memory(d), NEW id \in Ids(d), NEW st \in {Off, White}
  PROVE  SetsOnly(d, m, id, st)
  BY SetF1, SetZ1, SetX1, SetS2, SetS5, SetD2, SetJam, SetMikro2, SetMk3 DEF AllDrivers

\* The handles connect opens.
Handles(d) == IF d \in {"s5", "d2", "mk3"} THEN {0, 1} ELSE {0}

\* The tables of the drivers say which, and reports are read from one of them.
LEMMA HandlesOpened ==
  ASSUME NEW d \in AllDrivers
  PROVE  /\ \A handle \in Handles(d) :
              \E n \in DOMAIN Driver[d].opens : Driver[d].opens[n][2] = handle
         /\ Driver[d].reads \in Handles(d)
<1> DEFINE Good(opens, reads) ==
             /\ \A handle \in Handles(d) : \E n \in DOMAIN opens : opens[n][2] = handle
             /\ reads \in Handles(d)
<1>OfOne. \A a \in Int : Handles(d) = {0} => Good(<< <<a, 0>> >>, 0)
  <2> SUFFICES ASSUME NEW a \in Int, Handles(d) = {0} PROVE Good(<< <<a, 0>> >>, 0)
    OBVIOUS
  <2>1. 1 \in DOMAIN << <<a, 0>> >> /\ << <<a, 0>> >>[1][2] = 0
    OBVIOUS
  <2> QED BY <2>1
<1>OfTwo. \A a, b \in Int : Handles(d) = {0, 1} => Good(<< <<a, 0>>, <<b, 1>> >>, 0)
  <2> SUFFICES ASSUME NEW a \in Int, NEW b \in Int, Handles(d) = {0, 1}
               PROVE  Good(<< <<a, 0>>, <<b, 1>> >>, 0)
    OBVIOUS
  <2> DEFINE opens == << <<a, 0>>, <<b, 1>> >>
  <2>1. {1, 2} \subseteq DOMAIN opens /\ opens[1][2] = 0 /\ opens[2][2] = 1
    OBVIOUS
  <2> HIDE DEF opens
  <2>2. Good(opens, 0)
    BY <2>1
  <2> QED BY <2>2 DEF opens
<1> SUFFICES Good(Driver[d].opens, Driver[d].reads)
  OBVIOUS
<1> HIDE DEF Good
<1>1. CASE d = "f1"
  <2>1. Driver["f1"].opens = << <<0, 0>> >> /\ Driver["f1"].reads = 0
    BY DEF Driver, About, F1!Opens, F1!PollHandle
  <2>2. Handles("f1") = {0}
    BY DEF Handles
  <2> QED BY <1>1, <1>OfOne, <2>1, <2>2
<1>2. CASE d = "z1"
  <2>1. Driver["z1"].opens = << <<3, 0>> >> /\ Driver["z1"].reads = 0
    BY DEF Driver, About, Z1!Opens, Z1!PollHandle
  <2>2. Handles("z1") = {0}
    BY DEF Handles
  <2> QED BY <1>2, <1>OfOne, <2>1, <2>2
<1>3. CASE d = "x1"
  <2>1. Driver["x1"].opens = << <<0, 0>> >> /\ Driver["x1"].reads = 0
    BY DEF Driver, About, X1!Opens, X1!PollHandle
  <2>2. Handles("x1") = {0}
    BY DEF Handles
  <2> QED BY <1>3, <1>OfOne, <2>1, <2>2
<1>4. CASE d = "s2"
  <2>1. Driver["s2"].opens = << <<3, 0>> >> /\ Driver["s2"].reads = 0
    BY DEF Driver, About, S2!Opens, S2!PollHandle
  <2>2. Handles("s2") = {0}
    BY DEF Handles
  <2> QED BY <1>4, <1>OfOne, <2>1, <2>2
<1>5. CASE d = "s5"
  <2>1. Driver["s5"].opens = << <<3, 0>>, <<4, 1>> >> /\ Driver["s5"].reads = 0
    BY DEF Driver, About, S5!Opens, S5!PollHandle
  <2>2. Handles("s5") = {0, 1}
    BY DEF Handles
  <2> QED BY <1>5, <1>OfTwo, <2>1, <2>2
<1>6. CASE d = "d2"
  <2>1. Driver["d2"].opens = << <<0, 0>>, <<1, 1>> >> /\ Driver["d2"].reads = 0
    BY DEF Driver, About, D2!Opens, D2!PollHandle
  <2>2. Handles("d2") = {0, 1}
    BY DEF Handles
  <2> QED BY <1>6, <1>OfTwo, <2>1, <2>2
<1>7. CASE d = "jam"
  <2>1. Driver["jam"].opens = << <<0, 0>> >> /\ Driver["jam"].reads = 0
    BY DEF Driver, About, Jam!Opens, Jam!PollHandle
  <2>2. Handles("jam") = {0}
    BY DEF Handles
  <2> QED BY <1>7, <1>OfOne, <2>1, <2>2
<1>8. CASE d = "mikro2"
  <2>1. Driver["mikro2"].opens = << <<0, 0>> >> /\ Driver["mikro2"].reads = 0
    BY DEF Driver, About, Mikro2!Opens, Mikro2!PollHandle
  <2>2. Handles("mikro2") = {0}
    BY DEF Handles
  <2> QED BY <1>8, <1>OfOne, <2>1, <2>2
<1>9. CASE d = "mk3"
  <2>1. Driver["mk3"].opens = << <<4, 0>>, <<5, 1>> >> /\ Driver["mk3"].reads = 0
    BY DEF Driver, About, Mk3!Opens, Mk3!PollHandle
  <2>2. Handles("mk3") = {0, 1}
    BY DEF Handles
  <2> QED BY <1>9, <1>OfTwo, <2>1, <2>2
<1> QED BY <1>1, <1>2, <1>3, <1>4, <1>5, <1>6, <1>7, <1>8, <1>9 DEF AllDrivers

\* Writes to these handles, and those that carry lights as the image has them.
Writes(d) ==
  [size : Nat, handle : Handles(d), img : UNION {[S -> Byte] : S \in SUBSET Extent(d)}]
Carrying(d, img) ==
  {w \in Writes(d) : \A p \in Lit(d) \cap DOMAIN w.img : w.img[p] = img[p]}

\* A write of some places of an image carries its lights.
LEMMA WriteOf ==
  ASSUME NEW d \in AllDrivers, NEW img \in [Extent(d) -> Byte],
         NEW size \in Nat, NEW handle \in Handles(d), NEW places \in SUBSET Extent(d)
  PROVE  Write(size, handle, img, places) \in Carrying(d, img)
         /\ DOMAIN Write(size, handle, img, places).img = places
<1> DEFINE part == Restrict(img, places)
<1>1. part \in [places -> Byte] /\ \A p \in places : part[p] = img[p]
  BY DEF Restrict
<1>2. DOMAIN part = places
  BY <1>1
<1>3. Write(size, handle, img, places) = [size |-> size, handle |-> handle, img |-> part]
  BY DEF Write
<1> HIDE DEF part
<1>4. part \in UNION {[S -> Byte] : S \in SUBSET Extent(d)}
  BY <1>1
<1> QED BY <1>1, <1>2, <1>3, <1>4 DEF Carrying, Writes

\* So does a write of an image that has the same lights.
LEMMA WriteShape ==
  ASSUME NEW d \in AllDrivers, NEW img0, NEW img \in [Extent(d) -> Byte],
         \A p \in Lit(d) : img[p] = img0[p],
         NEW size \in Nat, NEW handle \in Handles(d), NEW places \in SUBSET Extent(d)
  PROVE  Write(size, handle, img, places) \in Carrying(d, img0)
         /\ DOMAIN Write(size, handle, img, places).img = places
<1>1. Carrying(d, img) = Carrying(d, img0)
  BY DEF Carrying
<1> QED BY <1>1, WriteOf

\* All drivers write with the same operator.
LEMMA SameWrite ==
  ASSUME NEW size, NEW handle, NEW img, NEW places
  PROVE  /\ F1!Write(size, handle, img, places) = Write(size, handle, img, places)
         /\ Z1!Write(size, handle, img, places) = Write(size, handle, img, places)
         /\ X1!Write(size, handle, img, places) = Write(size, handle, img, places)
         /\ S2!Write(size, handle, img, places) = Write(size, handle, img, places)
         /\ S5!Write(size, handle, img, places) = Write(size, handle, img, places)
         /\ D2!Write(size, handle, img, places) = Write(size, handle, img, places)
         /\ Jam!Write(size, handle, img, places) = Write(size, handle, img, places)
         /\ Mikro2!Write(size, handle, img, places) = Write(size, handle, img, places)
         /\ Mk3!Write(size, handle, img, places) = Write(size, handle, img, places)
  BY DEF Write, Restrict, F1!Write, F1!Restrict, Z1!Write, Z1!Restrict, X1!Write, X1!Restrict,
         S2!Write, S2!Restrict, S5!Write, S5!Restrict, D2!Write, D2!Restrict,
         Jam!Write, Jam!Restrict, Mikro2!Write, Mikro2!Restrict, Mk3!Write, Mk3!Restrict

(***************************************************************************)
(* light_flush                                                             *)
(***************************************************************************)

\* A flush leaves the lights of the image alone and sends them as they are, all
\* of them if it sends anything, and it does if it is forced.
FlushSends(d, m, force) ==
  LET f == LightFlush(d, m, force)
  IN /\ f.l \in Memory(d) /\ \A p \in Lit(d) : f.l.img[p] = m.img[p]
     /\ f.writes \in Seq(Carrying(d, m.img))
     /\ f.writes # <<>> => \A p \in Lit(d) : \E k \in 1..Len(f.writes) : p \in DOMAIN f.writes[k].img
     /\ force => f.writes # <<>>

\* Another image in a light memory.
LEMMA NewImage ==
  ASSUME NEW d \in AllDrivers, NEW m \in Memory(d), NEW img \in [Extent(d) -> Byte]
  PROVE  /\ [m EXCEPT !.img = img] \in Memory(d)
         /\ [m EXCEPT !.img = img].img = img /\ [m EXCEPT !.img = img].dirty = m.dirty
<1>1. CASE d = "mk3"
  BY <1>1 DEF Memory
<1>2. CASE d # "mk3"
  BY <1>2 DEF Memory
<1> QED BY <1>1, <1>2

\* A flush that may stamp the image and then sends it in the writes ws.
LEMMA FlushLemma ==
  ASSUME NEW d \in AllDrivers, NEW m \in Memory(d), NEW force \in BOOLEAN,
         NEW img \in [Extent(d) -> Byte], \A p \in Lit(d) : img[p] = m.img[p],
         NEW ws \in Seq(Carrying(d, m.img)), ws # <<>>,
         \A p \in Lit(d) : \E k \in 1..Len(ws) : p \in DOMAIN ws[k].img,
         LightFlush(d, m, force) =
           [l |-> [m EXCEPT !.img = img], writes |-> IF m.dirty \/ force THEN ws ELSE <<>>]
  PROVE  FlushSends(d, m, force)
<1>1. [m EXCEPT !.img = img] \in Memory(d) /\ [m EXCEPT !.img = img].img = img
  BY NewImage
<1> DEFINE l1 == [m EXCEPT !.img = img]
<1> HIDE DEF l1
<1>2. LightFlush(d, m, force) = [l |-> l1, writes |-> IF m.dirty \/ force THEN ws ELSE <<>>]
  BY DEF l1
<1>3. l1 \in Memory(d) /\ l1.img = img
  BY <1>1 DEF l1
<1>4. CASE m.dirty \/ force
  BY <1>2, <1>3, <1>4 DEF FlushSends
<1>5. CASE ~(m.dirty \/ force)
  BY <1>2, <1>3, <1>5 DEF FlushSends
<1> QED BY <1>4, <1>5

\* Stamps at places that are no lights leave the lights alone.
LEMMA Stamped ==
  ASSUME NEW d \in AllDrivers, NEW img \in [Extent(d) -> Byte], NEW bytes, NEW at,
         Covers(bytes, at), at \cap Lit(d) = {}
  PROVE  /\ Put(img, bytes) \in [Extent(d) -> Byte]
         /\ \A p \in Lit(d) : Put(img, bytes)[p] = img[p]
<1>1. Lit(d) \subseteq Extent(d) \ at
  BY LitExtent
<1> QED BY <1>1, PutShape

\* A flush of one write.
LEMMA OneWrite ==
  ASSUME NEW d \in AllDrivers, NEW m \in Memory(d), NEW force \in BOOLEAN,
         NEW img \in [Extent(d) -> Byte], \A p \in Lit(d) : img[p] = m.img[p],
         NEW w \in Carrying(d, m.img), Lit(d) \subseteq DOMAIN w.img,
         LightFlush(d, m, force) =
           [l |-> [m EXCEPT !.img = img], writes |-> IF m.dirty \/ force THEN <<w>> ELSE <<>>]
  PROVE  FlushSends(d, m, force)
<1> DEFINE ws == <<w>>
<1>1. ws \in Seq(Carrying(d, m.img)) /\ ws # <<>> /\ Len(ws) = 1 /\ ws[1] = w
  OBVIOUS
<1> HIDE DEF ws
<1>2. \A p \in Lit(d) : \E k \in 1..Len(ws) : p \in DOMAIN ws[k].img
  BY <1>1
<1>3. LightFlush(d, m, force) =
           [l |-> [m EXCEPT !.img = img], writes |-> IF m.dirty \/ force THEN ws ELSE <<>>]
  BY DEF ws
<1> QED BY <1>1, <1>2, <1>3, FlushLemma

\* A flush of two writes.
LEMMA TwoWrites ==
  ASSUME NEW d \in AllDrivers, NEW m \in Memory(d), NEW force \in BOOLEAN,
         NEW img \in [Extent(d) -> Byte], \A p \in Lit(d) : img[p] = m.img[p],
         NEW v \in Carrying(d, m.img), NEW w \in Carrying(d, m.img),
         Lit(d) \subseteq DOMAIN v.img \cup DOMAIN w.img,
         LightFlush(d, m, force) =
           [l |-> [m EXCEPT !.img = img], writes |-> IF m.dirty \/ force THEN <<v, w>> ELSE <<>>]
  PROVE  FlushSends(d, m, force)
<1> DEFINE ws == <<v, w>>
<1>1. /\ ws \in Seq(Carrying(d, m.img)) /\ ws # <<>> /\ Len(ws) = 2
      /\ ws[1] = v /\ ws[2] = w
  OBVIOUS
<1> HIDE DEF ws
<1>2. \A p \in Lit(d) : \E k \in 1..Len(ws) : p \in DOMAIN ws[k].img
  BY <1>1
<1>3. LightFlush(d, m, force) =
           [l |-> [m EXCEPT !.img = img], writes |-> IF m.dirty \/ force THEN ws ELSE <<>>]
  BY DEF ws
<1> QED BY <1>1, <1>2, <1>3, FlushLemma

\* light_flush of the Kontrol F1.
LEMMA FlushF1 ==
  ASSUME NEW m \in Memory("f1"), NEW force \in BOOLEAN
  PROVE  FlushSends("f1", m, force)
<1> DEFINE img == IF m.dirty \/ force THEN Put(m.img, {<<0, 128>>}) ELSE m.img
           w == Write(81, 0, img, 0..79)
           dirty1 == [m EXCEPT !.img = img].dirty
<1>1. "f1" \in AllDrivers /\ m.img \in [Extent("f1") -> Byte] /\ m.dirty \in BOOLEAN
  BY MemoryShape DEF AllDrivers
<1>2. img \in [Extent("f1") -> Byte] /\ \A p \in Lit("f1") : img[p] = m.img[p]
  <2>1. {0} \cap Lit("f1") = {}
    BY DEF Lit
  <2>2. Covers({<<0, 128>>}, {0})
    BY DEF Covers, Byte
  <2> QED BY <1>1, <2>1, <2>2, Stamped
<1>3. LightFlush("f1", m, force) = F1!LightFlush(m, force)
  BY DEF LightFlush
<1>4. F1!LightFlush(m, force) =
        [l |-> [m EXCEPT !.img = img], writes |-> IF dirty1 \/ force THEN <<w>> ELSE <<>>]
  BY SamePut, SameWrite DEF F1!LightFlush, F1!Flush
<1>5. dirty1 = m.dirty
  BY DEF Memory
<1>6. w \in Carrying("f1", m.img) /\ DOMAIN w.img = 0..79
  <2>1. 0..79 \in SUBSET Extent("f1") /\ 0 \in Handles("f1") /\ 81 \in Nat
    BY DEF Extent, Handles
  <2> HIDE DEF img
  <2> QED BY <1>1, <1>2, <2>1, WriteShape
<1>7. Lit("f1") \subseteq 0..79
  BY DEF Lit
<1> HIDE DEF img, w, dirty1
<1> QED BY <1>1, <1>2, <1>3, <1>4, <1>5, <1>6, <1>7, OneWrite

\* light_flush of the Kontrol Z1.
LEMMA FlushZ1 ==
  ASSUME NEW m \in Memory("z1"), NEW force \in BOOLEAN
  PROVE  FlushSends("z1", m, force)
<1> DEFINE w == Write(22, 0, m.img, 0..20)
           dirty1 == [m EXCEPT !.img = m.img].dirty
<1>1. "z1" \in AllDrivers /\ m.img \in [Extent("z1") -> Byte] /\ m.dirty \in BOOLEAN
  BY MemoryShape DEF AllDrivers
<1>2. LightFlush("z1", m, force) = Z1!LightFlush(m, force)
  BY DEF LightFlush
<1>3. Z1!LightFlush(m, force) =
        [l |-> [m EXCEPT !.img = m.img], writes |-> IF dirty1 \/ force THEN <<w>> ELSE <<>>]
  <2>1. Z1!LightFlush(m, force) = [l |-> m, writes |-> IF m.dirty \/ force THEN <<w>> ELSE <<>>]
    BY SameWrite DEF Z1!LightFlush, Z1!Flush
  <2>2. m = [m EXCEPT !.img = m.img] /\ dirty1 = m.dirty
    BY DEF Memory
  <2> QED BY <2>1, <2>2
<1>4. dirty1 = m.dirty
  BY DEF Memory
<1>5. w \in Carrying("z1", m.img) /\ DOMAIN w.img = 0..20
  <2>1. 0..20 \in SUBSET Extent("z1") /\ 0 \in Handles("z1") /\ 22 \in Nat
    BY DEF Extent, Handles
  <2> QED BY <1>1, <2>1, WriteOf
<1>6. Lit("z1") \subseteq 0..20
  BY DEF Lit
<1> HIDE DEF w, dirty1
<1> DEFINE img == m.img
<1>7. img \in [Extent("z1") -> Byte] /\ \A p \in Lit("z1") : img[p] = m.img[p]
  BY <1>1
<1>8. LightFlush("z1", m, force) =
        [l |-> [m EXCEPT !.img = img], writes |-> IF m.dirty \/ force THEN <<w>> ELSE <<>>]
  BY <1>2, <1>3, <1>4
<1> HIDE DEF img
<1> QED BY <1>1, <1>5, <1>6, <1>7, <1>8, OneWrite

\* light_flush of the Kontrol X1 Mk2.
LEMMA FlushX1 ==
  ASSUME NEW m \in Memory("x1"), NEW force \in BOOLEAN
  PROVE  FlushSends("x1", m, force)
<1> DEFINE img == IF m.dirty \/ force THEN Put(m.img, {<<100, 129>>}) ELSE m.img
           v == Write(52, 0, img, 0..50)
           w == Write(91, 0, img, 100..190)
           dirty1 == [m EXCEPT !.img = img].dirty
<1>1. "x1" \in AllDrivers /\ m.img \in [Extent("x1") -> Byte] /\ m.dirty \in BOOLEAN
  BY MemoryShape DEF AllDrivers
<1>2. img \in [Extent("x1") -> Byte] /\ \A p \in Lit("x1") : img[p] = m.img[p]
  <2>1. {100} \cap Lit("x1") = {}
    BY DEF Lit
  <2>2. Covers({<<100, 129>>}, {100})
    BY DEF Covers, Byte
  <2> QED BY <1>1, <2>1, <2>2, Stamped
<1>3. LightFlush("x1", m, force) = X1!LightFlush(m, force)
  BY DEF LightFlush
<1>4. X1!LightFlush(m, force) =
        [l |-> [m EXCEPT !.img = img], writes |-> IF dirty1 \/ force THEN <<v, w>> ELSE <<>>]
  BY SamePut, SameWrite DEF X1!LightFlush, X1!Flush, X1!Places, X1!Strip
<1>5. dirty1 = m.dirty
  BY DEF Memory
<1>6. v \in Carrying("x1", m.img) /\ DOMAIN v.img = 0..50
  <2>1. 0..50 \in SUBSET Extent("x1") /\ 0 \in Handles("x1") /\ 52 \in Nat
    BY DEF Extent, Handles
  <2> HIDE DEF img
  <2> QED BY <1>1, <1>2, <2>1, WriteShape
<1>7. w \in Carrying("x1", m.img) /\ DOMAIN w.img = 100..190
  <2>1. 100..190 \in SUBSET Extent("x1") /\ 0 \in Handles("x1") /\ 91 \in Nat
    BY DEF Extent, Handles
  <2> HIDE DEF img
  <2> QED BY <1>1, <1>2, <2>1, WriteShape
<1>8. Lit("x1") \subseteq (0..50) \cup (100..190)
  BY DEF Lit
<1> HIDE DEF img, v, w, dirty1
<1>9. Lit("x1") \subseteq DOMAIN v.img \cup DOMAIN w.img
  BY <1>6, <1>7, <1>8
<1>10. LightFlush("x1", m, force) =
         [l |-> [m EXCEPT !.img = img], writes |-> IF m.dirty \/ force THEN <<v, w>> ELSE <<>>]
  BY <1>3, <1>4, <1>5
<1> QED BY <1>1, <1>2, <1>6, <1>7, <1>9, <1>10, TwoWrites

\* light_flush of the Kontrol S2 Mk2.
LEMMA FlushS2 ==
  ASSUME NEW m \in Memory("s2"), NEW force \in BOOLEAN
  PROVE  FlushSends("s2", m, force)
<1> DEFINE v == Write(65, 0, m.img, 0..63)
           w == Write(33, 0, m.img, 100..131)
           dirty1 == [m EXCEPT !.img = m.img].dirty
<1>1. "s2" \in AllDrivers /\ m.img \in [Extent("s2") -> Byte] /\ m.dirty \in BOOLEAN
  BY MemoryShape DEF AllDrivers
<1>2. LightFlush("s2", m, force) = S2!LightFlush(m, force)
  BY DEF LightFlush
<1>3. S2!LightFlush(m, force) =
        [l |-> [m EXCEPT !.img = m.img], writes |-> IF dirty1 \/ force THEN <<v, w>> ELSE <<>>]
  <2>1. S2!LightFlush(m, force) = [l |-> m, writes |-> IF m.dirty \/ force THEN <<v, w>> ELSE <<>>]
    BY SameWrite DEF S2!LightFlush, S2!Flush, S2!Places, S2!DeckPlaces
  <2>2. m = [m EXCEPT !.img = m.img] /\ dirty1 = m.dirty
    BY DEF Memory
  <2> QED BY <2>1, <2>2
<1>4. dirty1 = m.dirty
  BY DEF Memory
<1>5. v \in Carrying("s2", m.img) /\ DOMAIN v.img = 0..63
  <2> DEFINE at == 0..63
  <2>1. at \in SUBSET Extent("s2") /\ 0 \in Handles("s2") /\ 65 \in Nat
    BY DEF Extent, Handles
  <2>2. v = Write(65, 0, m.img, at)
    OBVIOUS
  <2> HIDE DEF v, w, dirty1, at
  <2>3. Write(65, 0, m.img, at) \in Carrying("s2", m.img)
        /\ DOMAIN Write(65, 0, m.img, at).img = at
    BY <1>1, <2>1, WriteOf
  <2>4. v \in Carrying("s2", m.img) /\ DOMAIN v.img = at
    BY <2>2, <2>3
  <2> QED BY <2>4 DEF at
<1>6. w \in Carrying("s2", m.img) /\ DOMAIN w.img = 100..131
  <2> DEFINE at == 100..131
  <2>1. at \in SUBSET Extent("s2") /\ 0 \in Handles("s2") /\ 33 \in Nat
    BY DEF Extent, Handles
  <2>2. w = Write(33, 0, m.img, at)
    OBVIOUS
  <2> HIDE DEF v, w, dirty1, at
  <2>3. Write(33, 0, m.img, at) \in Carrying("s2", m.img)
        /\ DOMAIN Write(33, 0, m.img, at).img = at
    BY <1>1, <2>1, WriteOf
  <2>4. w \in Carrying("s2", m.img) /\ DOMAIN w.img = at
    BY <2>2, <2>3
  <2> QED BY <2>4 DEF at
<1>7. Lit("s2") \subseteq (0..63) \cup (100..131)
  BY DEF Lit
<1> HIDE DEF v, w, dirty1
<1>8. Lit("s2") \subseteq DOMAIN v.img \cup DOMAIN w.img
  BY <1>5, <1>6, <1>7
<1> DEFINE img == m.img
<1>9. img \in [Extent("s2") -> Byte] /\ \A p \in Lit("s2") : img[p] = m.img[p]
  BY <1>1
<1>10. LightFlush("s2", m, force) =
         [l |-> [m EXCEPT !.img = img], writes |-> IF m.dirty \/ force THEN <<v, w>> ELSE <<>>]
  BY <1>2, <1>3, <1>4
<1> HIDE DEF img
<1> QED BY <1>1, <1>5, <1>6, <1>8, <1>9, <1>10, TwoWrites

\* light_flush of the Kontrol D2.
LEMMA FlushD2 ==
  ASSUME NEW m \in Memory("d2"), NEW force \in BOOLEAN
  PROVE  FlushSends("d2", m, force)
<1> DEFINE img == IF m.dirty \/ force THEN Put(m.img, {<<0, 128>>}) ELSE m.img
           w == Write(123, 0, img, 0..122)
           dirty1 == [m EXCEPT !.img = img].dirty
<1>1. "d2" \in AllDrivers /\ m.img \in [Extent("d2") -> Byte] /\ m.dirty \in BOOLEAN
  BY MemoryShape DEF AllDrivers
<1>2. img \in [Extent("d2") -> Byte] /\ \A p \in Lit("d2") : img[p] = m.img[p]
  <2>1. {0} \cap Lit("d2") = {}
    BY DEF Lit
  <2>2. Covers({<<0, 128>>}, {0})
    BY DEF Covers, Byte
  <2> QED BY <1>1, <2>1, <2>2, Stamped
<1>3. LightFlush("d2", m, force) = D2!LightFlush(m, force)
  BY DEF LightFlush
<1>4. D2!LightFlush(m, force) =
        [l |-> [m EXCEPT !.img = img], writes |-> IF dirty1 \/ force THEN <<w>> ELSE <<>>]
  BY SamePut, SameWrite DEF D2!LightFlush, D2!Flush
<1>5. dirty1 = m.dirty
  BY DEF Memory
<1>6. w \in Carrying("d2", m.img) /\ DOMAIN w.img = 0..122
  <2>1. 0..122 \in SUBSET Extent("d2") /\ 0 \in Handles("d2") /\ 123 \in Nat
    BY DEF Extent, Handles
  <2> HIDE DEF img
  <2> QED BY <1>1, <1>2, <2>1, WriteShape
<1>7. Lit("d2") \subseteq 0..122
  BY DEF Lit
<1> HIDE DEF img, w, dirty1
<1> QED BY <1>1, <1>2, <1>3, <1>4, <1>5, <1>6, <1>7, OneWrite

\* light_flush of the Maschine Mikro Mk2.
LEMMA FlushMikro2 ==
  ASSUME NEW m \in Memory("mikro2"), NEW force \in BOOLEAN
  PROVE  FlushSends("mikro2", m, force)
<1> DEFINE img == IF m.dirty \/ force THEN Put(m.img, {<<0, 128>>}) ELSE m.img
           w == Write(81, 0, img, 0..80)
           dirty1 == [m EXCEPT !.img = img].dirty
<1>1. "mikro2" \in AllDrivers /\ m.img \in [Extent("mikro2") -> Byte] /\ m.dirty \in BOOLEAN
  BY MemoryShape DEF AllDrivers
<1>2. img \in [Extent("mikro2") -> Byte] /\ \A p \in Lit("mikro2") : img[p] = m.img[p]
  <2>1. {0} \cap Lit("mikro2") = {}
    BY DEF Lit
  <2>2. Covers({<<0, 128>>}, {0})
    BY DEF Covers, Byte
  <2> QED BY <1>1, <2>1, <2>2, Stamped
<1>3. LightFlush("mikro2", m, force) = Mikro2!LightFlush(m, force)
  BY DEF LightFlush
<1>4. Mikro2!LightFlush(m, force) =
        [l |-> [m EXCEPT !.img = img], writes |-> IF dirty1 \/ force THEN <<w>> ELSE <<>>]
  BY SamePut, SameWrite DEF Mikro2!LightFlush, Mikro2!Flush
<1>5. dirty1 = m.dirty
  BY DEF Memory
<1>6. w \in Carrying("mikro2", m.img) /\ DOMAIN w.img = 0..80
  <2>1. 0..80 \in SUBSET Extent("mikro2") /\ 0 \in Handles("mikro2") /\ 81 \in Nat
    BY DEF Extent, Handles
  <2> HIDE DEF img
  <2> QED BY <1>1, <1>2, <2>1, WriteShape
<1>7. Lit("mikro2") \subseteq 0..80
  BY DEF Lit
<1> HIDE DEF img, w, dirty1
<1> QED BY <1>1, <1>2, <1>3, <1>4, <1>5, <1>6, <1>7, OneWrite

\* light_flush of the Maschine Mk3.
LEMMA FlushMk3 ==
  ASSUME NEW m \in Memory("mk3"), NEW force \in BOOLEAN
  PROVE  FlushSends("mk3", m, force)
<1> DEFINE img == IF m.dirty \/ force THEN Put(m.img, {<<0, 128>>, <<100, 129>>}) ELSE m.img
           v == Write(63, 0, img, 0..62)
           w == Write(63, 0, img, 100..162)
           dirty1 == [m EXCEPT !.img = img].dirty
<1>1. "mk3" \in AllDrivers /\ m.img \in [Extent("mk3") -> Byte] /\ m.dirty \in BOOLEAN
  BY MemoryShape DEF AllDrivers
<1>2. img \in [Extent("mk3") -> Byte] /\ \A p \in Lit("mk3") : img[p] = m.img[p]
  <2>1. {0, 100} \cap Lit("mk3") = {}
    BY DEF Lit
  <2>2. Covers({<<0, 128>>, <<100, 129>>}, {0, 100})
    BY DEF Covers, Byte
  <2> QED BY <1>1, <2>1, <2>2, Stamped
<1>3. LightFlush("mk3", m, force) = Mk3!LightFlush(m, force)
  BY DEF LightFlush
<1>4. Mk3!LightFlush(m, force) =
        [l |-> [m EXCEPT !.img = img], writes |-> IF dirty1 \/ force THEN <<v, w>> ELSE <<>>]
  BY SamePut, SameWrite DEF Mk3!LightFlush, Mk3!Flush
<1>5. dirty1 = m.dirty
  BY DEF Memory
<1>6. v \in Carrying("mk3", m.img) /\ DOMAIN v.img = 0..62
  <2>1. 0..62 \in SUBSET Extent("mk3") /\ 0 \in Handles("mk3") /\ 63 \in Nat
    BY DEF Extent, Handles
  <2> HIDE DEF img
  <2> QED BY <1>1, <1>2, <2>1, WriteShape
<1>7. w \in Carrying("mk3", m.img) /\ DOMAIN w.img = 100..162
  <2>1. 100..162 \in SUBSET Extent("mk3") /\ 0 \in Handles("mk3") /\ 63 \in Nat
    BY DEF Extent, Handles
  <2> HIDE DEF img
  <2> QED BY <1>1, <1>2, <2>1, WriteShape
<1>8. Lit("mk3") \subseteq (0..62) \cup (100..162)
  BY DEF Lit
<1> HIDE DEF img, v, w, dirty1
<1>9. Lit("mk3") \subseteq DOMAIN v.img \cup DOMAIN w.img
  BY <1>6, <1>7, <1>8
<1>10. LightFlush("mk3", m, force) =
         [l |-> [m EXCEPT !.img = img], writes |-> IF m.dirty \/ force THEN <<v, w>> ELSE <<>>]
  BY <1>3, <1>4, <1>5
<1> QED BY <1>1, <1>2, <1>6, <1>7, <1>9, <1>10, TwoWrites

\* light_flush of the Kontrol S5.
LEMMA FlushS5 ==
  ASSUME NEW m \in Memory("s5"), NEW force \in BOOLEAN
  PROVE  FlushSends("s5", m, force)
<1> DEFINE as(side) == Put(m.img, {<<0, side>>})
           img == IF m.dirty \/ force THEN as(130) ELSE m.img
           w(side) == Write(107, 0, as(side), 0..106)
           ws == <<w(128), w(129), w(130)>>
           dirty1 == [m EXCEPT !.img = img].dirty
<1>1. "s5" \in AllDrivers /\ m.img \in [Extent("s5") -> Byte] /\ m.dirty \in BOOLEAN
  BY MemoryShape DEF AllDrivers
<1>2. \A v \in Byte : as(v) \in [Extent("s5") -> Byte] /\ \A p \in Lit("s5") : as(v)[p] = m.img[p]
  <2>1. {0} \cap Lit("s5") = {}
    BY DEF Lit
  <2>2. \A v \in Byte : Covers({<<0, v>>}, {0})
    BY DEF Covers
  <2> QED BY <1>1, <2>1, <2>2, Stamped
<1>3. LightFlush("s5", m, force) = S5!LightFlush(m, force)
  BY DEF LightFlush
<1>4. S5!LightFlush(m, force) =
        [l |-> [m EXCEPT !.img = img], writes |-> IF dirty1 \/ force THEN ws ELSE <<>>]
  BY SamePut, SameWrite DEF S5!LightFlush, S5!Flush
<1>5. dirty1 = m.dirty
  BY DEF Memory
<1>6. \A v \in Byte : w(v) \in Carrying("s5", m.img) /\ DOMAIN w(v).img = 0..106
  <2>1. 0..106 \in SUBSET Extent("s5") /\ 0 \in Handles("s5") /\ 107 \in Nat
    BY DEF Extent, Handles
  <2> SUFFICES ASSUME NEW v \in Byte
               PROVE  w(v) \in Carrying("s5", m.img) /\ DOMAIN w(v).img = 0..106
    OBVIOUS
  <2> DEFINE new == as(v)
  <2>2. new \in [Extent("s5") -> Byte] /\ \A p \in Lit("s5") : new[p] = m.img[p]
    BY <1>2
  <2> HIDE DEF new
  <2>3. /\ Write(107, 0, new, 0..106) \in Carrying("s5", m.img)
        /\ DOMAIN Write(107, 0, new, 0..106).img = 0..106
    BY <1>1, <2>1, <2>2, WriteShape
  <2> QED BY <2>3 DEF new
<1>7. 128 \in Byte /\ 129 \in Byte /\ 130 \in Byte
  BY DEF Byte
<1>8. img \in [Extent("s5") -> Byte] /\ \A p \in Lit("s5") : img[p] = m.img[p]
  BY <1>1, <1>2, <1>7
<1>9. Lit("s5") \subseteq 0..106
  BY DEF Lit
<1> HIDE DEF img, w, dirty1
<1>10. ws \in Seq(Carrying("s5", m.img)) /\ ws # <<>> /\ Len(ws) = 3 /\ ws[1] = w(128)
  BY <1>6, <1>7
<1> HIDE DEF ws
<1>11. \A p \in Lit("s5") : \E k \in 1..Len(ws) : p \in DOMAIN ws[k].img
  BY <1>6, <1>7, <1>9, <1>10
<1>12. LightFlush("s5", m, force) =
         [l |-> [m EXCEPT !.img = img], writes |-> IF m.dirty \/ force THEN ws ELSE <<>>]
  BY <1>3, <1>4, <1>5
<1> QED BY <1>1, <1>8, <1>10, <1>11, <1>12, FlushLemma

\* light_flush of the Maschine Jam.
LEMMA FlushJam ==
  ASSUME NEW m \in Memory("jam"), NEW force \in BOOLEAN
  PROVE  FlushSends("jam", m, force)
<1> DEFINE sent == Put(m.img, {<<0, 128>>, <<125, 130>>})
           grid == Put(sent, {<<125, 129>>})
           img == IF m.dirty \/ force THEN grid ELSE m.img
           buttons == Write(66, 0, sent, 0..65)
           strips == Write(90, 0, sent, 125..214)
           squares == Write(81, 0, grid, 125..205)
           ws == <<buttons, strips, buttons, squares>>
           dirty1 == [m EXCEPT !.img = img].dirty
<1>1. "jam" \in AllDrivers /\ m.img \in [Extent("jam") -> Byte] /\ m.dirty \in BOOLEAN
  BY MemoryShape DEF AllDrivers
<1>2. /\ sent \in [Extent("jam") -> Byte] /\ \A p \in Lit("jam") : sent[p] = m.img[p]
      /\ grid \in [Extent("jam") -> Byte] /\ \A p \in Lit("jam") : grid[p] = m.img[p]
  <2>1. {0, 125} \cap Lit("jam") = {} /\ {125} \cap Lit("jam") = {}
    BY DEF Lit
  <2>2. Covers({<<0, 128>>, <<125, 130>>}, {0, 125}) /\ Covers({<<125, 129>>}, {125})
    BY DEF Covers, Byte
  <2>3. sent \in [Extent("jam") -> Byte] /\ \A p \in Lit("jam") : sent[p] = m.img[p]
    BY <1>1, <2>1, <2>2, Stamped
  <2> HIDE DEF sent
  <2>4. grid \in [Extent("jam") -> Byte] /\ \A p \in Lit("jam") : grid[p] = sent[p]
    BY <1>1, <2>1, <2>2, <2>3, Stamped
  <2> QED BY <2>3, <2>4
<1>3. LightFlush("jam", m, force) = Jam!LightFlush(m, force)
  BY DEF LightFlush
<1>4. Jam!LightFlush(m, force) =
        [l |-> [m EXCEPT !.img = img], writes |-> IF dirty1 \/ force THEN ws ELSE <<>>]
  BY SamePut, SameWrite DEF Jam!LightFlush, Jam!Flush
<1>5. dirty1 = m.dirty
  BY DEF Memory
<1>6. 0 \in Handles("jam") /\ 66 \in Nat /\ 90 \in Nat /\ 81 \in Nat
  BY DEF Handles
<1> HIDE DEF sent, grid
<1>7. buttons \in Carrying("jam", m.img) /\ DOMAIN buttons.img = 0..65
  <2>1. 0..65 \in SUBSET Extent("jam")
    BY DEF Extent
  <2> QED BY <1>1, <1>2, <1>6, <2>1, WriteShape
<1>8. strips \in Carrying("jam", m.img)
  <2>1. 125..214 \in SUBSET Extent("jam")
    BY DEF Extent
  <2> QED BY <1>1, <1>2, <1>6, <2>1, WriteShape
<1>9. squares \in Carrying("jam", m.img)
  <2>1. 125..205 \in SUBSET Extent("jam")
    BY DEF Extent
  <2> QED BY <1>1, <1>2, <1>6, <2>1, WriteShape
<1>10. img \in [Extent("jam") -> Byte] /\ \A p \in Lit("jam") : img[p] = m.img[p]
  BY <1>1, <1>2
<1>11. Lit("jam") \subseteq 0..65
  BY DEF Lit
<1> HIDE DEF img, buttons, strips, squares, dirty1
<1>12. ws \in Seq(Carrying("jam", m.img)) /\ ws # <<>> /\ Len(ws) = 4 /\ ws[1] = buttons
  BY <1>7, <1>8, <1>9
<1> HIDE DEF ws
<1>13. \A p \in Lit("jam") : \E k \in 1..Len(ws) : p \in DOMAIN ws[k].img
  BY <1>7, <1>11, <1>12
<1>14. LightFlush("jam", m, force) =
         [l |-> [m EXCEPT !.img = img], writes |-> IF m.dirty \/ force THEN ws ELSE <<>>]
  BY <1>3, <1>4, <1>5
<1> QED BY <1>1, <1>10, <1>12, <1>13, <1>14, FlushLemma

\* So it is for all of them.
LEMMA FlushShape ==
  ASSUME NEW d \in AllDrivers, NEW m \in Memory(d), NEW force \in BOOLEAN
  PROVE  FlushSends(d, m, force)
  BY FlushF1, FlushZ1, FlushX1, FlushS2, FlushS5, FlushD2, FlushJam, FlushMikro2, FlushMk3
  DEF AllDrivers

(***************************************************************************)
(* disconnect                                                              *)
(***************************************************************************)

\* The lights that disconnect turns off.
Cleared(d) == IF d = "x1" THEN 0..34 ELSE Lit(d)

BlanksAll(d, m) ==
  Blank(d, m) \in Memory(d) /\ \A p \in Cleared(d) : Blank(d, m).img[p] = 0

\* Lamps whose bytes the disconnect of the X1 reaches.
LEMMA SpotsCleared ==
  ASSUME NEW d \in AllDrivers, NEW id \in (Ids(d) \ Unsent(d)) \ LeftLit(d)
  PROVE  Spots(d, id) \subseteq Cleared(d)
<1>1. CASE d = "x1"
  BY <1>1 DEF Spots, Ids, Cleared, LeftLit
<1>2. CASE d # "x1"
  BY <1>2, SpotsLit DEF Cleared
<1> QED BY <1>1, <1>2

\* Blanking at least these places of the image.
LEMMA BlankLemma ==
  ASSUME NEW d \in AllDrivers, NEW m \in Memory(d), NEW places,
         Cleared(d) \subseteq places, Blank(d, m) = [m EXCEPT !.img = Blanked(m.img, places)]
  PROVE  BlanksAll(d, m)
<1> DEFINE img == Blanked(m.img, places)
<1>1. m.img \in [Extent(d) -> Byte]
  BY MemoryShape
<1>2. Cleared(d) \subseteq Extent(d)
  <2>1. CASE d = "x1"
    <3>1. Cleared(d) = 0..34 /\ Extent(d) = 0..190
      BY <2>1 DEF Cleared, Extent
    <3> QED BY <3>1
  <2>2. CASE d # "x1"
    <3>1. Cleared(d) = Lit(d)
      BY <2>2 DEF Cleared
    <3> QED BY <3>1, LitExtent
  <2> QED BY <2>1, <2>2
<1>3. img \in [Extent(d) -> Byte] /\ \A p \in Cleared(d) : img[p] = 0
  BY <1>2, <1>1, BlankedShape
<1> HIDE DEF img
<1>4. Blank(d, m) \in Memory(d) /\ Blank(d, m).img = img
  <2> DEFINE m1 == [m EXCEPT !.img = img]
  <2>1. Blank(d, m) = m1
    BY DEF img
  <2>2. m1 \in Memory(d) /\ m1.img = img
    BY <1>3, NewImage
  <2> HIDE DEF m1
  <2> QED BY <2>1, <2>2
<1> QED BY <1>3, <1>4 DEF BlanksAll

\* disconnect of the Kontrol Z1 clears its image.
LEMMA BlankZ1 == \A m \in Memory("z1") : BlanksAll("z1", m)
<1> SUFFICES ASSUME NEW m \in Memory("z1") PROVE BlanksAll("z1", m)
  OBVIOUS
<1> DEFINE places == 0..20
<1>1. Blank("z1", m) = [m EXCEPT !.img = Z1!Blanked(m.img, places)]
  BY DEF Blank, Z1!Blank
<1>2. Cleared("z1") \subseteq places /\ "z1" \in AllDrivers
  BY DEF Cleared, Lit, AllDrivers
<1> HIDE DEF places
<1>3. Blank("z1", m) = [m EXCEPT !.img = Blanked(m.img, places)]
  BY <1>1, SameBlanked
<1> QED BY <1>2, <1>3, BlankLemma

\* disconnect of the Kontrol X1 Mk2 clears its image.
LEMMA BlankX1 == \A m \in Memory("x1") : BlanksAll("x1", m)
<1> SUFFICES ASSUME NEW m \in Memory("x1") PROVE BlanksAll("x1", m)
  OBVIOUS
<1> DEFINE places == (0..34) \cup (100..190)
<1>1. Blank("x1", m) = [m EXCEPT !.img = X1!Blanked(m.img, places)]
  BY DEF Blank, X1!Blank, X1!Strip
<1>2. Cleared("x1") \subseteq places /\ "x1" \in AllDrivers
  BY DEF Cleared, Lit, AllDrivers
<1> HIDE DEF places
<1>3. Blank("x1", m) = [m EXCEPT !.img = Blanked(m.img, places)]
  BY <1>1, SameBlanked
<1> QED BY <1>2, <1>3, BlankLemma

\* disconnect of the Kontrol S2 Mk2 clears its image.
LEMMA BlankS2 == \A m \in Memory("s2") : BlanksAll("s2", m)
<1> SUFFICES ASSUME NEW m \in Memory("s2") PROVE BlanksAll("s2", m)
  OBVIOUS
<1> DEFINE places == (0..63) \cup (100..131)
<1>1. Blank("s2", m) = [m EXCEPT !.img = S2!Blanked(m.img, places)]
  BY DEF Blank, S2!Blank, S2!Places, S2!DeckPlaces
<1>2. Cleared("s2") \subseteq places /\ "s2" \in AllDrivers
  BY DEF Cleared, Lit, AllDrivers
<1> HIDE DEF places
<1>3. Blank("s2", m) = [m EXCEPT !.img = Blanked(m.img, places)]
  BY <1>1, SameBlanked
<1> QED BY <1>2, <1>3, BlankLemma

\* disconnect of the Kontrol D2 clears its image.
LEMMA BlankD2 == \A m \in Memory("d2") : BlanksAll("d2", m)
<1> SUFFICES ASSUME NEW m \in Memory("d2") PROVE BlanksAll("d2", m)
  OBVIOUS
<1> DEFINE places == 1..122
<1>1. Blank("d2", m) = [m EXCEPT !.img = D2!Blanked(m.img, places)]
  BY DEF Blank, D2!Blank
<1>2. Cleared("d2") \subseteq places /\ "d2" \in AllDrivers
  BY DEF Cleared, Lit, AllDrivers
<1> HIDE DEF places
<1>3. Blank("d2", m) = [m EXCEPT !.img = Blanked(m.img, places)]
  BY <1>1, SameBlanked
<1> QED BY <1>2, <1>3, BlankLemma

\* disconnect of the Maschine Jam clears its image.
LEMMA BlankJam == \A m \in Memory("jam") : BlanksAll("jam", m)
<1> SUFFICES ASSUME NEW m \in Memory("jam") PROVE BlanksAll("jam", m)
  OBVIOUS
<1> DEFINE places == 1..213
<1>1. Blank("jam", m) = [m EXCEPT !.img = Jam!Blanked(m.img, places)]
  BY DEF Blank, Jam!Blank
<1>2. Cleared("jam") \subseteq places /\ "jam" \in AllDrivers
  BY DEF Cleared, Lit, AllDrivers
<1> HIDE DEF places
<1>3. Blank("jam", m) = [m EXCEPT !.img = Blanked(m.img, places)]
  BY <1>1, SameBlanked
<1> QED BY <1>2, <1>3, BlankLemma

\* disconnect of the Maschine Mikro Mk2 clears its image.
LEMMA BlankMikro2 == \A m \in Memory("mikro2") : BlanksAll("mikro2", m)
<1> SUFFICES ASSUME NEW m \in Memory("mikro2") PROVE BlanksAll("mikro2", m)
  OBVIOUS
<1> DEFINE places == 1..80
<1>1. Blank("mikro2", m) = [m EXCEPT !.img = Mikro2!Blanked(m.img, places)]
  BY DEF Blank, Mikro2!Blank
<1>2. Cleared("mikro2") \subseteq places /\ "mikro2" \in AllDrivers
  BY DEF Cleared, Lit, AllDrivers
<1> HIDE DEF places
<1>3. Blank("mikro2", m) = [m EXCEPT !.img = Blanked(m.img, places)]
  BY <1>1, SameBlanked
<1> QED BY <1>2, <1>3, BlankLemma

\* disconnect of the Kontrol F1 clears its image.
LEMMA BlankF1 == \A m \in Memory("f1") : BlanksAll("f1", m)
<1> SUFFICES ASSUME NEW m \in Memory("f1") PROVE BlanksAll("f1", m)
  OBVIOUS
<1> DEFINE dark == Blanked(m.img, 1..79)
           img == Put(dark, {<<0, 128>>})
<1>1. "f1" \in AllDrivers /\ m.img \in [Extent("f1") -> Byte]
  BY MemoryShape DEF AllDrivers
<1>2. Cleared("f1") = Lit("f1") /\ Lit("f1") \subseteq 1..79 /\ Lit("f1") \subseteq Extent("f1")
  BY DEF Cleared, Lit, Extent
<1>3. dark \in [Extent("f1") -> Byte] /\ \A p \in Lit("f1") : dark[p] = 0
  BY <1>1, <1>2, BlankedShape
<1>4. F1!Blank(m) = [m EXCEPT !.img = img]
  BY SamePut, SameBlanked DEF F1!Blank
<1> HIDE DEF dark
<1>5. img \in [Extent("f1") -> Byte] /\ \A p \in Lit("f1") : img[p] = 0
  <2>1. {0} \cap Lit("f1") = {}
    BY DEF Lit
  <2>2. Covers({<<0, 128>>}, {0})
    BY DEF Covers, Byte
  <2> QED BY <1>1, <1>3, <2>1, <2>2, Stamped
<1> HIDE DEF img
<1>6. Blank("f1", m) = [m EXCEPT !.img = img]
  BY <1>4 DEF Blank
<1> DEFINE m1 == [m EXCEPT !.img = img]
<1>7. m1 \in Memory("f1") /\ m1.img = img
  BY <1>1, <1>5, NewImage
<1>8. Blank("f1", m) = m1
  BY <1>6
<1> HIDE DEF m1
<1> QED BY <1>2, <1>5, <1>7, <1>8 DEF BlanksAll

\* disconnect of the Kontrol S5 clears its image.
LEMMA BlankS5 == \A m \in Memory("s5") : BlanksAll("s5", m)
<1> SUFFICES ASSUME NEW m \in Memory("s5") PROVE BlanksAll("s5", m)
  OBVIOUS
<1> DEFINE img == Blanked(m.img, 1..106)
<1>1. "s5" \in AllDrivers /\ m.img \in [Extent("s5") -> Byte]
  BY MemoryShape DEF AllDrivers
<1>2. Cleared("s5") \subseteq 1..106 /\ Cleared("s5") \subseteq Extent("s5")
  BY DEF Cleared, Lit, Extent
<1>3. img \in [Extent("s5") -> Byte] /\ \A p \in Cleared("s5") : img[p] = 0
  BY <1>1, <1>2, BlankedShape
<1>4. S5!Blank(m) = [img |-> img, dirty |-> TRUE]
  BY SameBlanked DEF S5!Blank
<1> HIDE DEF img
<1>5. Blank("s5", m) = [img |-> img, dirty |-> TRUE]
  BY <1>4 DEF Blank
<1>6. Blank("s5", m) \in Memory("s5")
  BY <1>1, <1>3, <1>5, PlainMemory
<1> QED BY <1>3, <1>5, <1>6 DEF BlanksAll

\* disconnect of the Maschine Mk3 clears its image.
LEMMA BlankMk3 == \A m \in Memory("mk3") : BlanksAll("mk3", m)
<1> SUFFICES ASSUME NEW m \in Memory("mk3") PROVE BlanksAll("mk3", m)
  OBVIOUS
<1> DEFINE places == (1..62) \cup (101..180)
           img == Blanked(m.img, places)
<1>1. "mk3" \in AllDrivers /\ m.img \in [Extent("mk3") -> Byte]
  BY MemoryShape DEF AllDrivers
<1>2. Cleared("mk3") \subseteq places /\ Cleared("mk3") \subseteq Extent("mk3")
  BY DEF Cleared, Lit, Extent
<1>4. Mk3!Blank(m) = [img |-> Mk3!Blanked(m.img, places), dirty |-> TRUE, padsDirty |-> TRUE]
  BY DEF Mk3!Blank
<1> HIDE DEF places
<1>3. img \in [Extent("mk3") -> Byte] /\ \A p \in Cleared("mk3") : img[p] = 0
  BY <1>1, <1>2, BlankedShape
<1>5. Mk3!Blank(m) = [img |-> img, dirty |-> TRUE, padsDirty |-> TRUE]
  BY <1>4, SameBlanked
<1> HIDE DEF img
<1>6. Blank("mk3", m) = [img |-> img, dirty |-> TRUE, padsDirty |-> TRUE]
  BY <1>5 DEF Blank
<1>7. Blank("mk3", m) \in Memory("mk3")
  <2> DEFINE images == [Extent("mk3") -> Byte]
  <2>1. Memory("mk3") = [img : images, dirty : BOOLEAN, padsDirty : BOOLEAN]
    BY DEF Memory
  <2>2. img \in images
    BY <1>3
  <2> HIDE DEF images
  <2> QED BY <1>6, <2>1, <2>2
<1> QED BY <1>3, <1>6, <1>7 DEF BlanksAll

\* So it is for all of them.
LEMMA BlankShape ==
  ASSUME NEW d \in AllDrivers, NEW m \in Memory(d)
  PROVE  BlanksAll(d, m)
  BY BlankF1, BlankZ1, BlankX1, BlankS2, BlankS5, BlankD2, BlankJam, BlankMikro2, BlankMk3
  DEF AllDrivers

(***************************************************************************)
(* Lights changed by other ways, screens, connect                          *)
(***************************************************************************)

\* feedback_set, feedback_digits and light_touchstrip keep the light memory in
\* shape. The Z1 sets the lights of a meter, that have their own id for a byte, as
\* light_set does. All other lights are kept.
FeedbackKeeps(d, m) ==
  \A after \in ByFeedback(d, m) :
    /\ after \in Memory(d) /\ \A p \in Lit(d) \ DOMAIN Metered(d) : after.img[p] = m.img[p]
    /\ \A id \in DOMAIN Metered(d) :
         /\ id \in Ids(d) /\ Spots(d, id) = {id} /\ Metered(d)[id] \in {Off, White}
         /\ after.img[id] = LightSet(d, Driver[d].lights0, id, Metered(d)[id]).img[id]

\* A set of bytes that has one value for a place.
Gives(bytes, i, v) == \A p \in bytes : p[1] = i => p[2] = v

\* Put writes that value.
LEMMA PutOne ==
  ASSUME NEW D, NEW img \in [D -> Byte], NEW bytes, NEW at, Covers(bytes, at),
         NEW i \in D, i \in at, NEW v, Gives(bytes, i, v)
  PROVE  Put(img, bytes)[i] = v
<1>1. \E p \in bytes : p[1] = i
  BY DEF Covers
<1> QED BY <1>1, PutShape DEF Gives

\* What light_set makes of a light of a meter.
LEMMA MeterLight ==
  ASSUME NEW id \in 7..13, NEW st \in {Off, White}
  PROVE  LightSet("z1", Driver["z1"].lights0, id, st).img[id] = st.w % 128
<1> DEFINE lit == Driver["z1"].lights0
           bytes == {<<id, st.w % 128>>}
<1>1. lit \in Memory("z1") /\ "z1" \in AllDrivers
  BY DescribesZ1 DEF Describes, AllDrivers
<1>2. lit.img \in [Extent("z1") -> Byte] /\ id \in Extent("z1")
  BY <1>1, MemoryShape DEF Extent
<1>3. Z1!LightBytes(id, st) = bytes
  BY DEF Z1!LightBytes, Z1!FxOn
<1>4. id \in Z1!LightIds
  BY DEF Z1!LightIds
<1> HIDE DEF lit
<1>5. LightSet("z1", lit, id, st) = [img |-> Put(lit.img, bytes), dirty |-> TRUE]
  <2>1. LightSet("z1", lit, id, st) = Z1!LightSet(lit, id, st)
    BY DEF LightSet
  <2> HIDE DEF bytes
  <2>2. Z1!LightSet(lit, id, st) = [img |-> Z1!Put(lit.img, bytes), dirty |-> TRUE]
    BY <1>3, <1>4 DEF Z1!LightSet
  <2> QED BY <2>1, <2>2, SamePut
<1>6. st.w % 128 \in Byte
  BY Channels
<1>7. Covers(bytes, {id})
  BY <1>6, CoverOne
<1>8. Gives(bytes, id, st.w % 128) /\ id \in {id}
  BY DEF Gives
<1> HIDE DEF bytes
<1>9. Put(lit.img, bytes)[id] = st.w % 128
  BY <1>2, <1>7, <1>8, PutOne
<1> QED BY <1>5, <1>9 DEF lit

\* The feedback of the Kontrol Z1.
LEMMA FeedbackZ1 ==
  ASSUME NEW m \in Memory("z1")
  PROVE  FeedbackKeeps("z1", m)
<1> DEFINE value(i) == IF i < 4 THEN 127 ELSE 0
           bytes == {<<7 * 1 + i, value(i)>> : i \in 0..6}
           img == Put(m.img, bytes)
           m1 == [img |-> img, dirty |-> TRUE]
<1>1. "z1" \in AllDrivers /\ m.img \in [Extent("z1") -> Byte]
  BY MemoryShape DEF AllDrivers
<1>2. ByFeedback("z1", m) = {Z1!FeedbackSet(m, 1, 4)}
  BY DEF ByFeedback
<1>3. Z1!FeedbackSet(m, 1, 4) = m1
  <2>1. Z1!FeedbackSet(m, 1, 4) = [img |-> Z1!Put(m.img, bytes), dirty |-> TRUE]
    BY DEF Z1!FeedbackSet
  <2> HIDE DEF bytes
  <2> QED BY <2>1, SamePut
<1>4. Covers(bytes, 7..13)
  <2>1. \A p \in bytes : p[1] \in 7..13 /\ p[2] \in Byte
    BY DEF Byte
  <2>2. \A i \in 7..13 : \E p \in bytes : p[1] = i
    <3> SUFFICES ASSUME NEW i \in 7..13 PROVE \E p \in bytes : p[1] = i
      OBVIOUS
    <3>1. i - 7 \in 0..6 /\ 7 * 1 + (i - 7) = i
      OBVIOUS
    <3>2. <<7 * 1 + (i - 7), value(i - 7)>> \in bytes
      BY <3>1
    <3> HIDE DEF bytes
    <3> QED BY <3>1, <3>2
  <2> QED BY <2>1, <2>2 DEF Covers
<1>5. \A p \in bytes : p[1] \in Int /\ p[2] = value(p[1] - 7)
  OBVIOUS
<1> HIDE DEF bytes, value
<1>6. /\ img \in [Extent("z1") -> Byte]
      /\ \A p \in Extent("z1") \ 7..13 : img[p] = m.img[p]
  BY <1>1, <1>4, PutShape
<1>7. \A id \in 7..13 : img[id] = value(id - 7)
  <2> SUFFICES ASSUME NEW id \in 7..13 PROVE img[id] = value(id - 7)
    OBVIOUS
  <2>1. id \in Extent("z1")
    BY DEF Extent
  <2>2. Gives(bytes, id, value(id - 7))
    BY <1>5 DEF Gives
  <2>3. Put(m.img, bytes)[id] = value(id - 7)
    BY <1>1, <1>4, <2>1, <2>2, PutOne
  <2> QED BY <2>3
<1> HIDE DEF img
<1>8. m1 \in Memory("z1") /\ m1.img = img
  BY <1>1, <1>6, PlainMemory
<1>9. DOMAIN Metered("z1") = 7..13
  BY DEF Metered
<1>10. \A p \in Lit("z1") \ 7..13 : img[p] = m.img[p]
  BY <1>1, <1>6, LitExtent
<1>11. ASSUME NEW id \in 7..13
       PROVE  /\ id \in Ids("z1") /\ Spots("z1", id) = {id} /\ Metered("z1")[id] \in {Off, White}
              /\ img[id] = LightSet("z1", Driver["z1"].lights0, id, Metered("z1")[id]).img[id]
  <2> DEFINE st == Metered("z1")[id]
  <2>1. id \in Ids("z1") /\ Spots("z1", id) = {id}
    BY DEF Ids, Spots
  <2>2. st = IF id - 7 < 4 THEN White ELSE Off
    BY DEF Metered
  <2>3. White.w % 128 = 127 /\ Off.w % 128 = 0
    BY DEF Off, White, Colour
  <2>4. st.w % 128 = value(id - 7)
    BY <2>2, <2>3 DEF value
  <2>5. st \in {Off, White}
    BY <2>2
  <2> HIDE DEF st
  <2>6. LightSet("z1", Driver["z1"].lights0, id, st).img[id] = st.w % 128
    BY <2>5, MeterLight
  <2> QED BY <1>7, <2>1, <2>4, <2>5, <2>6 DEF st
<1>12. ByFeedback("z1", m) = {m1}
  BY <1>2, <1>3
<1> HIDE DEF m1
<1> QED BY <1>8, <1>9, <1>10, <1>11, <1>12 DEF FeedbackKeeps

\* The feedback of the Kontrol X1 Mk2.
LEMMA FeedbackX1 ==
  ASSUME NEW m \in Memory("x1")
  PROVE  FeedbackKeeps("x1", m)
<1> DEFINE v == IF -12 < 0 THEN -(-12) ELSE -12
           bit(d, i) == <<101 + 24 * 1 + d * 8 + 7 - i,
                          IF i \in X1!DigitShown(v, -12 < 0, d) THEN 255 ELSE 1>>
           bytes == UNION {{bit(d, i) : i \in 0..7} : d \in 0..2}
           img == Put(m.img, bytes)
<1>1. "x1" \in AllDrivers /\ m.img \in [Extent("x1") -> Byte]
  BY MemoryShape DEF AllDrivers
<1>2. ByFeedback("x1", m) = {X1!FeedbackDigits(m, 1, -12)}
  BY DEF ByFeedback
<1>3. X1!FeedbackDigits(m, 1, -12) = [m EXCEPT !.img = img]
  BY SamePut DEF X1!FeedbackDigits
<1>4. Covers(bytes, 125..148)
  <2>1. \A d \in 0..2, i \in 0..7 : bit(d, i)[1] = 132 + d * 8 - i /\ bit(d, i)[2] \in Byte
    BY DEF Byte
  <2> HIDE DEF bit
  <2>2. \A d \in 0..2, i \in 0..7 : bit(d, i) \in bytes
    <3> SUFFICES ASSUME NEW d \in 0..2, NEW i \in 0..7 PROVE bit(d, i) \in bytes
      OBVIOUS
    <3>1. bit(d, i) \in {bit(d, j) : j \in 0..7}
      OBVIOUS
    <3> QED BY <3>1
  <2>3. \A p \in bytes : \E d \in 0..2, i \in 0..7 : p = bit(d, i)
    OBVIOUS
  <2> HIDE DEF bytes
  <2>4. \A p \in bytes : p[1] \in 125..148 /\ p[2] \in Byte
    BY <2>1, <2>3
  <2>5. \A i \in 125..148 : \E p \in bytes : p[1] = i
    <3> SUFFICES ASSUME NEW i \in 125..148 PROVE \E p \in bytes : p[1] = i
      OBVIOUS
    <3>1. CASE i \in 125..132
      <4>1. 0 \in 0..2 /\ 132 - i \in 0..7
        BY <3>1
      <4> QED BY <4>1, <2>1, <2>2
    <3>2. CASE i \in 133..140
      <4>1. 1 \in 0..2 /\ 140 - i \in 0..7
        BY <3>2
      <4> QED BY <4>1, <2>1, <2>2
    <3>3. CASE i \in 141..148
      <4>1. 2 \in 0..2 /\ 148 - i \in 0..7
        BY <3>3
      <4> QED BY <4>1, <2>1, <2>2
    <3> QED BY <3>1, <3>2, <3>3
  <2> QED BY <2>4, <2>5 DEF Covers
<1> HIDE DEF bytes
<1>5. img \in [Extent("x1") -> Byte] /\ \A p \in Lit("x1") : img[p] = m.img[p]
  <2>1. (125..148) \cap Lit("x1") = {}
    BY DEF Lit
  <2> QED BY <1>1, <1>4, <2>1, Stamped
<1> HIDE DEF img
<1> DEFINE m1 == [m EXCEPT !.img = img]
<1>6. m1 \in Memory("x1") /\ m1.img = img
  BY <1>1, <1>5, NewImage
<1>7. ByFeedback("x1", m) = {m1}
  BY <1>2, <1>3
<1> HIDE DEF m1
<1>8. DOMAIN Metered("x1") = {}
  BY DEF Metered
<1> QED BY <1>5, <1>6, <1>7, <1>8 DEF FeedbackKeeps

\* The feedback of the Kontrol D2.
LEMMA FeedbackD2 ==
  ASSUME NEW m \in Memory("d2")
  PROVE  FeedbackKeeps("d2", m)
<1> DEFINE full == [i \in 0..24 |-> 255]
           bytes == UNION {{<<69 + i, full[i]>>, <<94 + i, full[i]>>} : i \in 0..24}
           img == Put(m.img, bytes)
<1>1. "d2" \in AllDrivers /\ m.img \in [Extent("d2") -> Byte]
  BY MemoryShape DEF AllDrivers
<1>2. ByFeedback("d2", m) = {D2!LightTouchstrip(m, full, full)}
  BY DEF ByFeedback
<1>3. D2!LightTouchstrip(m, full, full) = [img |-> img, dirty |-> TRUE]
  <2>1. D2!LightTouchstrip(m, full, full) = [img |-> D2!Put(m.img, bytes), dirty |-> TRUE]
    BY Zenon DEF D2!LightTouchstrip
  <2> HIDE DEF bytes, full
  <2> QED BY <2>1, SamePut
<1>4. Covers(bytes, 69..118)
  <2>1. \A p \in bytes : \E i \in 0..24 : p = <<69 + i, 255>> \/ p = <<94 + i, 255>>
    OBVIOUS
  <2>2. \A i \in 0..24 : <<69 + i, 255>> \in bytes /\ <<94 + i, 255>> \in bytes
    OBVIOUS
  <2> HIDE DEF bytes
  <2>3. \A p \in bytes : p[1] \in 69..118 /\ p[2] \in Byte
    BY <2>1 DEF Byte
  <2>4. \A i \in 69..118 : \E p \in bytes : p[1] = i
    <3> SUFFICES ASSUME NEW i \in 69..118 PROVE \E p \in bytes : p[1] = i
      OBVIOUS
    <3>1. CASE i \in 69..93
      <4>1. i - 69 \in 0..24 /\ 69 + (i - 69) = i
        BY <3>1
      <4>2. <<i, 255>> \in bytes
        BY <4>1, <2>2
      <4> QED BY <4>2
    <3>2. CASE i \in 94..118
      <4>1. i - 94 \in 0..24 /\ 94 + (i - 94) = i
        BY <3>2
      <4>2. <<i, 255>> \in bytes
        BY <4>1, <2>2
      <4> QED BY <4>2
    <3> QED BY <3>1, <3>2
  <2> QED BY <2>3, <2>4 DEF Covers
<1> HIDE DEF bytes, full
<1>5. img \in [Extent("d2") -> Byte] /\ \A p \in Lit("d2") : img[p] = m.img[p]
  <2>1. (69..118) \cap Lit("d2") = {}
    BY DEF Lit
  <2> QED BY <1>1, <1>4, <2>1, Stamped
<1> HIDE DEF img
<1> DEFINE m1 == [img |-> img, dirty |-> TRUE]
<1>6. m1 \in Memory("d2") /\ m1.img = img
  BY <1>1, <1>5, PlainMemory
<1>7. ByFeedback("d2", m) = {m1}
  BY <1>2, <1>3
<1> HIDE DEF m1
<1>8. DOMAIN Metered("d2") = {}
  BY DEF Metered
<1> QED BY <1>5, <1>6, <1>7, <1>8 DEF FeedbackKeeps

\* So it is for all of them.
LEMMA FeedbackShape ==
  ASSUME NEW d \in AllDrivers, NEW m \in Memory(d)
  PROVE  FeedbackKeeps(d, m)
<1>1. CASE d \in {"z1", "x1", "d2"}
  BY <1>1, FeedbackZ1, FeedbackX1, FeedbackD2
<1>2. CASE d \notin {"z1", "x1", "d2"}
  BY <1>2 DEF ByFeedback, FeedbackKeeps
<1> QED BY <1>1, <1>2

\* A strip of the Maschine Jam (usb_read_cb) keeps the light memory in shape and
\* lights no light but its own.
LEMMA StripShape ==
  ASSUME NEW m \in Memory("jam"), NEW n \in 0..7
  PROVE  LET after == Jam!TouchstripLed(m, n, Jam!StripLeds(512, 1023))
         IN after \in Memory("jam") /\ \A p \in Lit("jam") : after.img[p] = m.img[p]
<1> DEFINE leds == Jam!StripLeds(512, 1023)
           bytes == {<<126 + 11 * n + k, leds[k]>> : k \in 0..10}
           at == (126 + 11 * n)..(136 + 11 * n)
           img == Put(m.img, bytes)
<1>1. "jam" \in AllDrivers /\ m.img \in [Extent("jam") -> Byte]
  BY MemoryShape DEF AllDrivers
<1>2. Jam!TouchstripLed(m, n, leds) = [m EXCEPT !.img = img]
  BY SamePut DEF Jam!TouchstripLed
<1>3. Covers(bytes, at)
  <2>1. \A k \in 0..10 : leds[k] \in Byte
    BY DEF Jam!StripLeds, Byte
  <2> HIDE DEF leds
  <2>2. \A p \in bytes : p[1] \in at /\ p[2] \in Byte
    BY <2>1
  <2>3. \A i \in at : \E p \in bytes : p[1] = i
    <3> SUFFICES ASSUME NEW i \in at PROVE \E p \in bytes : p[1] = i
      OBVIOUS
    <3>1. i - (126 + 11 * n) \in 0..10 /\ 126 + 11 * n + (i - (126 + 11 * n)) = i
      OBVIOUS
    <3>2. <<126 + 11 * n + (i - (126 + 11 * n)), leds[i - (126 + 11 * n)]>> \in bytes
      BY <3>1
    <3> HIDE DEF bytes
    <3> QED BY <3>1, <3>2
  <2> HIDE DEF bytes, at
  <2> QED BY <2>2, <2>3 DEF Covers
<1>4. at \cap Lit("jam") = {}
  BY DEF Lit
<1> HIDE DEF bytes, at, leds
<1>5. img \in [Extent("jam") -> Byte] /\ \A p \in Lit("jam") : img[p] = m.img[p]
  BY <1>1, <1>3, <1>4, Stamped
<1> HIDE DEF img
<1> DEFINE m1 == [m EXCEPT !.img = img]
<1>6. m1 \in Memory("jam") /\ m1.img = img
  BY <1>1, <1>5, NewImage
<1>7. Jam!TouchstripLed(m, n, Jam!StripLeds(512, 1023)) = m1
  BY <1>2 DEF leds
<1> HIDE DEF m1
<1> QED BY <1>5, <1>6, <1>7

\* A pad of the Maschine Mikro Mk2 (usb_read_cb) changes one byte, the green of its
\* own light, and sends the image it leaves.
PadSends(m, i, on) ==
  LET f == Mikro2!PadLit(m, i, on)
      at == Mikro2!PadAt(28 + i) + 1
  IN /\ f.l \in Memory("mikro2") /\ f.l.img[at] = (IF on THEN 127 ELSE 0)
     /\ \A p \in Lit("mikro2") \ {at} : f.l.img[p] = m.img[p]
     /\ f.writes \in Seq(Carrying("mikro2", f.l.img))
     /\ \A p \in Lit("mikro2") : \E k \in 1..Len(f.writes) : p \in DOMAIN f.writes[k].img
     /\ 28 + i \in Ids("mikro2") /\ at \in Spots("mikro2", 28 + i)

\* So it is for every pad and both ways.
LEMMA PadShape ==
  ASSUME NEW m \in Memory("mikro2"), NEW i \in 0..15, NEW on \in BOOLEAN
  PROVE  PadSends(m, i, on)
<1> DEFINE at == 32 + 3 * i
           v == IF on THEN 127 ELSE 0
           bytes == {<<at, v>>}
           img == Put(m.img, bytes)
           m1 == [img |-> img, dirty |-> TRUE]
<1>1. "mikro2" \in AllDrivers /\ m.img \in [Extent("mikro2") -> Byte]
  BY MemoryShape DEF AllDrivers
<1>2. /\ at \in Lit("mikro2") /\ at \in Extent("mikro2") /\ Mikro2!PadAt(28 + i) + 1 = at
      /\ 28 + i \in Ids("mikro2") /\ at \in Spots("mikro2", 28 + i)
  <2>1. Mikro2!PadAt(28 + i) + 1 = at
    BY DEF Mikro2!PadAt
  <2>2. at \in Lit("mikro2") /\ at \in Extent("mikro2") /\ 28 + i \in Ids("mikro2")
    BY DEF Lit, Extent, Ids
  <2>3. Spots("mikro2", 28 + i) = (3 * (28 + i) - 53)..(3 * (28 + i) - 51)
    BY DEF Spots
  <2> QED BY <2>1, <2>2, <2>3
<1>3. Mikro2!PadLit(m, i, on) = Mikro2!LightFlush(m1, TRUE)
  <2>1. 1 + 28 + 3 + 3 * i = at
    OBVIOUS
  <2> HIDE DEF at
  <2>2. {<<1 + 28 + 3 + 3 * i, IF on THEN 127 ELSE 0>>} = bytes
    BY <2>1
  <2>3. Mikro2!PadLit(m, i, on) =
          Mikro2!LightFlush([img |-> Mikro2!Put(m.img, bytes), dirty |-> TRUE], TRUE)
    BY <2>2 DEF Mikro2!PadLit
  <2> HIDE DEF bytes
  <2> QED BY <2>3, SamePut
<1>4. v \in Byte
  BY DEF Byte
<1> HIDE DEF at, v
<1>5. Covers(bytes, {at})
  BY <1>4, CoverOne
<1>6. img[at] = v
  <2>1. Gives(bytes, at, v) /\ at \in {at}
    BY DEF Gives
  <2> HIDE DEF bytes
  <2> QED BY <1>1, <1>2, <1>5, <2>1, PutOne
<1> HIDE DEF bytes
<1>7. img \in [Extent("mikro2") -> Byte] /\ \A p \in Extent("mikro2") \ {at} : img[p] = m.img[p]
  BY <1>1, <1>5, PutShape
<1> HIDE DEF img
<1>8. m1 \in Memory("mikro2") /\ m1.img = img
  BY <1>1, <1>7, PlainMemory
<1> HIDE DEF m1
<1> DEFINE f == LightFlush("mikro2", m1, TRUE)
<1>9. Mikro2!PadLit(m, i, on) = f
  BY <1>3 DEF LightFlush
<1>10. /\ f.l \in Memory("mikro2") /\ \A p \in Lit("mikro2") : f.l.img[p] = m1.img[p]
       /\ f.writes \in Seq(Carrying("mikro2", m1.img))
       /\ \A p \in Lit("mikro2") : \E k \in 1..Len(f.writes) : p \in DOMAIN f.writes[k].img
  BY <1>8, FlushMikro2 DEF FlushSends
<1> HIDE DEF f
<1>11. Carrying("mikro2", m1.img) = Carrying("mikro2", f.l.img)
  BY <1>10 DEF Carrying
<1>12. \A p \in Lit("mikro2") \ {at} : f.l.img[p] = m.img[p]
  BY <1>1, <1>7, <1>8, <1>10, LitExtent
<1>13. f.l.img[at] = v
  BY <1>2, <1>6, <1>8, <1>10
<1> QED BY <1>2, <1>9, <1>10, <1>11, <1>12, <1>13 DEF PadSends, v

\* Writes for screens carry no lights.
LEMMA ScreenShape ==
  ASSUME NEW d \in AllDrivers, NEW handle \in Handles(d), NEW img
  PROVE  ScreenWrite(handle) \in Carrying(d, img) /\ DOMAIN ScreenWrite(handle).img = {}
<1>1. <<>> \in [{} -> Byte] /\ DOMAIN <<>> = {}
  OBVIOUS
<1>2. <<>> \in UNION {[S -> Byte] : S \in SUBSET Extent(d)}
  BY <1>1
<1> QED BY <1>1, <1>2 DEF ScreenWrite, Carrying, Writes

\* So do those of drawing all screens, and of disconnect.
LEMMA ScreensShape ==
  ASSUME NEW d \in AllDrivers, NEW img
  PROVE  Screens(d) \in Seq(Carrying(d, img)) /\ AtDisconnect(d) \in Seq(Carrying(d, img))
<1> DEFINE C == Carrying(d, img)
           each(n, handle) == [k \in 1..n |-> ScreenWrite(handle)]
<1>1. \A n \in Nat, handle \in Handles(d) : each(n, handle) \in Seq(C)
  BY ScreenShape
<1>2. <<>> \in Seq(C)
  OBVIOUS
<1> HIDE DEF C
<1>3. Screens(d) \in Seq(C)
  <2>1. CASE d = "mikro2"
    <3>1. Screens(d) = each(4, 0)
      BY <2>1 DEF Screens, Mikro2!ScreenWrites
    <3>2. 4 \in Nat /\ 0 \in Handles(d)
      BY <2>1 DEF Handles
    <3> QED BY <1>1, <3>1, <3>2
  <2>2. CASE d = "s5"
    <3>1. Screens(d) = each(2, 1)
      BY <2>2 DEF Screens, S5!ScreenFlush, S5!ScreenHandle
    <3>2. 2 \in Nat /\ 1 \in Handles(d)
      BY <2>2 DEF Handles
    <3> QED BY <1>1, <3>1, <3>2
  <2>3. CASE d = "d2"
    <3>1. Screens(d) = each(2, 1)
      BY <2>3 DEF Screens, D2!ScreenFlush, D2!ScreenHandle
    <3>2. 2 \in Nat /\ 1 \in Handles(d)
      BY <2>3 DEF Handles
    <3> QED BY <1>1, <3>1, <3>2
  <2>4. CASE d = "mk3"
    <3>1. Screens(d) = each(2, 1)
      BY <2>4 DEF Screens, Mk3!ScreenFlush, Mk3!ScreenHandle
    <3>2. 2 \in Nat /\ 1 \in Handles(d)
      BY <2>4 DEF Handles
    <3> QED BY <1>1, <3>1, <3>2
  <2>5. CASE d \notin {"mikro2", "s5", "d2", "mk3"}
    BY <1>2, <2>5 DEF Screens
  <2> QED BY <2>1, <2>2, <2>3, <2>4, <2>5
<1>4. AtDisconnect(d) \in Seq(C)
  <2>1. CASE d = "d2"
    <3>1. AtDisconnect(d) = <<ScreenWrite(1)>>
      BY <2>1 DEF AtDisconnect, D2!ScreenHandle
    <3>2. 1 \in Handles(d)
      BY <2>1 DEF Handles
    <3>3. ScreenWrite(1) \in C
      BY <3>2, ScreenShape DEF C
    <3> QED BY <3>1, <3>3
  <2>2. CASE d # "d2"
    BY <1>3, <2>2 DEF AtDisconnect
  <2> QED BY <2>1, <2>2
<1> QED BY <1>3, <1>4 DEF C

\* What connect submits shows the lights as it leaves them.
LEMMA ConnectShape ==
  ASSUME NEW d \in AllDrivers
  PROVE  AtConnect(d) \in Seq(Carrying(d, Driver[d].lights0.img))
<1> DEFINE m == Driver[d].lights0
           C == Carrying(d, m.img)
<1>1. m \in Memory(d)
  BY TableDescribes DEF Describes
<1>2. Screens(d) \in Seq(C)
  BY ScreensShape
<1>3. LightFlush(d, m, TRUE).writes \in Seq(C)
  BY <1>1, FlushShape DEF FlushSends
<1> HIDE DEF C
<1> SUFFICES AtConnect(d) \in Seq(C)
  BY DEF C
<1>4. CASE d = "s5"
  <2>1. AtConnect(d) = LightFlush(d, m, TRUE).writes \o Screens(d)
    BY <1>4 DEF AtConnect
  <2> QED BY <1>2, <1>3, <2>1, ConcatProperties
<1>5. CASE d # "s5"
  <2>1. AtConnect(d) = Screens(d) \/ AtConnect(d) = <<>>
    BY <1>5 DEF AtConnect
  <2>2. <<>> \in Seq(C)
    OBVIOUS
  <2> QED BY <1>2, <2>1, <2>2
<1> QED BY <1>4, <1>5
===============================================================================
