-------------------------- MODULE DriverLightsProofs --------------------------
(***************************************************************************)
(* The safety properties of DriverLights hold for every set of drivers,    *)
(* every limit on writes, and whichever lamps of a controller are set.     *)
(*                                                                         *)
(* The device shows what it took last, so the invariant has to say of the  *)
(* writes in flight what the device will show once it has taken them       *)
(* (Settles): after a flush that was taken as a whole, of the application, *)
(* of a pad or of disconnect, the driver's image (WholeInv).  That the     *)
(* image is what is due (ImageInv), what the application asked for or,     *)
(* when disconnect is through, the dark, but for the pads touched since,   *)
(* rests on the bytes of the lights being apart and on a pad's press and   *)
(* light_set meaning the same byte.                                        *)
(***************************************************************************)
EXTENDS DriverLightsFacts

\* Writes in flight: what is left of a write at the places of the lamps.
Part == UNION {[S -> Byte] : S \in SUBSET Places}
InFlight == [handle : Handles(driver), img : Part]

TypeInv ==
  /\ driver \in AllDrivers /\ lamps \subseteq Lamps(driver) /\ l \in Memory(driver)
  /\ bus \in Seq(InFlight) /\ Len(bus) <= WriteLimit
  /\ shown \in [Places -> Byte] /\ want \in [lamps -> {None, Off, White}]
  /\ overruled # {} => driver = "mikro2"

\* The lamps that disconnect reaches, when it is through.
Governed == IF phase = "closed" THEN lamps \ LeftLit(driver) ELSE lamps

\* The image has every such lamp as is due.
ImageInv ==
  \A id \in Governed : \A p \in Footprint(driver, id) : l.img[p] = Due(id, p)

\* When the writes in the queue have been taken, the device, that shows dev,
\* will show v at p.
Settles(queue, dev, p, v) ==
  \E n \in 0..Len(queue) :
    /\ \A i \in (n + 1)..Len(queue) : p \in DOMAIN queue[i].img => queue[i].img[p] = v
    /\ n = 0 => dev[p] = v
    /\ n # 0 => p \in DOMAIN queue[n].img /\ queue[n].img[p] = v

\* A flush that was taken as a whole will be seen.
WholeInv == whole => \A p \in Places : Settles(bus, shown, p, l.img[p])

IInv == TypeInv /\ ImageInv /\ WholeInv

-----------------------------------------------------------------------------
(***************************************************************************)
(* Where lights show                                                       *)
(***************************************************************************)

\* A light shows in bytes of its own.
LEMMA FootprintSpots ==
  ASSUME NEW d \in AllDrivers, NEW id \in Ids(d)
  PROVE  Footprint(d, id) \subseteq Spots(d, id) \cap Extent(d)
<1> DEFINE m == Driver[d].lights0
           alone(st) == LightSet(d, m, id, st).img
<1>1. m \in Memory(d) /\ m.img \in [Extent(d) -> Byte]
  BY TableDescribes, MemoryShape DEF Describes
<1>2. \A st \in {Off, White} : Driver[d].alone[id][st] = alone(st)
  <2>1. Driver[d].alone = [i \in Ids(d) |-> [st \in {Off, White} |->
                             LightSet(d, Driver[d].lights0, i, st).img]]
    BY TableDescribes DEF Describes
  <2> QED BY <2>1
<1>3. Driver[d].foot[id] =
        {p \in DOMAIN m.img : Driver[d].alone[id][White][p] # Driver[d].alone[id][Off][p]}
  BY TableDescribes DEF Describes
<1>4. \A st \in {Off, White} : \A p \in Extent(d) \ Spots(d, id) : alone(st)[p] = m.img[p]
  BY <1>1, LightSetShape DEF SetsOnly
<1> HIDE DEF m, alone
<1>5. Footprint(d, id) = {p \in Extent(d) : alone(White)[p] # alone(Off)[p]}
  BY <1>1, <1>2, <1>3 DEF Footprint
<1> QED BY <1>4, <1>5

\* The image of connect with a light set in it, as the table has it.
LEMMA AloneImage ==
  ASSUME NEW d \in AllDrivers, NEW id \in Ids(d), NEW st \in {Off, White}
  PROVE  Driver[d].alone[id][st] = LightSet(d, Driver[d].lights0, id, st).img
<1>1. Driver[d].alone = [i \in Ids(d) |-> [s \in {Off, White} |->
                           LightSet(d, Driver[d].lights0, i, s).img]]
  BY TableDescribes DEF Describes
<1> QED BY <1>1

\* What is asked of a lamp is not nothing.
LEMMA AskedStates == None \notin {Off, White}
<1>1. \A st \in {Off, White} : "asked" \notin DOMAIN st
  BY DEF Off, White, Colour
<1>2. "asked" \in DOMAIN None
  BY DEF None
<1> QED BY <1>1, <1>2

\* Lamps show in bytes that reports carry, and but for the X1 disconnect clears
\* them.
LEMMA FootprintLit ==
  ASSUME NEW d \in AllDrivers, NEW id \in Lamps(d)
  PROVE  /\ Footprint(d, id) \subseteq Lit(d)
         /\ id \notin LeftLit(d) => Footprint(d, id) \subseteq Cleared(d)
<1>1. id \in Ids(d) \ Unsent(d)
  BY TableDescribes DEF Describes, Lamps
<1> QED BY <1>1, FootprintSpots, SpotsLit, SpotsCleared

\* So reports carry all the places of the lamps.
LEMMA PlacesLit ==
  ASSUME driver \in AllDrivers, lamps \subseteq Lamps(driver)
  PROVE  Places \subseteq Lit(driver) /\ Lit(driver) \subseteq Extent(driver)
  BY FootprintLit, LitExtent DEF Places

(***************************************************************************)
(* Submitting                                                              *)
(***************************************************************************)

\* The lesser of two numbers.
LEMMA MinOfTwo ==
  ASSUME NEW a \in Int, NEW b \in Int
  PROVE  Min({a, b}) = IF a <= b THEN a ELSE b
  BY DEF Min

\* The writes that find room are the first ones, and all of them if they fit.
LEMMA AcceptedShape ==
  ASSUME NEW S, NEW ws \in Seq(S), NEW queue, Len(queue) \in Nat, Len(queue) <= WriteLimit
  PROVE  LET n == Len(Accepted(queue, ws))
         IN /\ n \in 0..Len(ws) /\ Len(queue) + n <= WriteLimit
            /\ Len(queue) + Len(ws) <= WriteLimit => n = Len(ws)
            /\ Len(queue) + Len(ws) > WriteLimit => Len(queue) + n = WriteLimit
<1> DEFINE room == WriteLimit - Len(queue)
           m == IF Len(ws) <= room THEN Len(ws) ELSE room
<1>1. WriteLimit \in Nat /\ room \in Nat /\ Len(ws) \in Nat /\ m \in 0..Len(ws)
  BY LightsAssumption
<1>2. Min({Len(ws), room}) = m
  BY <1>1, MinOfTwo
<1>3. Accepted(queue, ws) = SubSeq(ws, 1, m)
  BY <1>2 DEF Accepted
<1>4. Len(SubSeq(ws, 1, m)) = m
  <2>1. \A i \in 1..m : ws[i] \in S
    BY <1>1
  <2> HIDE DEF m
  <2> QED BY <1>1, <2>1, SubSeqProperties
<1> QED BY <1>1, <1>3, <1>4

\* A part of a write has its bytes at the places of the lamps.
LEMMA PartShape ==
  ASSUME driver \in AllDrivers, NEW w \in Writes(driver)
  PROVE  /\ PartOf(w) \in InFlight /\ DOMAIN PartOf(w).img = DOMAIN w.img \cap Places
         /\ \A p \in DOMAIN w.img \cap Places : PartOf(w).img[p] = w.img[p]
<1> DEFINE at == DOMAIN w.img \cap Places
           img == Restrict(w.img, at)
<1>1. w.handle \in Handles(driver) /\ w.img \in UNION {[S -> Byte] : S \in SUBSET Extent(driver)}
  BY DEF Writes
<1>2. \A p \in at : w.img[p] \in Byte
  BY <1>1
<1>3. img \in [at -> Byte] /\ \A p \in at : img[p] = w.img[p]
  BY <1>2 DEF Restrict
<1>4. at \in SUBSET Places /\ DOMAIN img = at
  BY <1>3
<1>5. PartOf(w) = [handle |-> w.handle, img |-> img]
  BY DEF PartOf
<1> HIDE DEF at, img
<1>6. img \in Part
  BY <1>3, <1>4 DEF Part
<1> QED BY <1>1, <1>3, <1>4, <1>5, <1>6 DEF InFlight, at

\* What Submit appends to the queue.
LEMMA SubmitShape ==
  ASSUME driver \in AllDrivers, NEW queue \in Seq(InFlight), Len(queue) <= WriteLimit,
         NEW ws \in Seq(Writes(driver))
  PROVE  LET n == Len(Accepted(queue, ws))
             after == Submit(queue, ws)
         IN /\ after \in Seq(InFlight) /\ Len(after) = Len(queue) + n /\ Len(after) <= WriteLimit
            /\ \A i \in 1..Len(queue) : after[i] = queue[i]
            /\ \A i \in 1..n : i \in 1..Len(ws) /\ after[Len(queue) + i] = PartOf(ws[i])
<1> DEFINE n == Len(Accepted(queue, ws))
           more == [i \in 1..n |-> PartOf(ws[i])]
<1>1. n \in 0..Len(ws) /\ Len(queue) + n <= WriteLimit
  BY AcceptedShape
<1>2. Submit(queue, ws) = queue \o more
  BY DEF Submit
<1> HIDE DEF n
<1>3. \A i \in 1..n : i \in 1..Len(ws) /\ PartOf(ws[i]) \in InFlight
  <2>1. \A i \in 1..n : i \in 1..Len(ws) /\ ws[i] \in Writes(driver)
    BY <1>1
  <2> QED BY <2>1, PartShape
<1>4. more \in Seq(InFlight) /\ Len(more) = n /\ \A i \in 1..n : more[i] = PartOf(ws[i])
  BY <1>1, <1>3
<1> HIDE DEF more
<1>5. /\ queue \o more \in Seq(InFlight) /\ Len(queue \o more) = Len(queue) + n
      /\ \A i \in 1..Len(queue) : (queue \o more)[i] = queue[i]
      /\ \A i \in 1..n : (queue \o more)[Len(queue) + i] = more[i]
  BY <1>4, <1>1
<1> QED BY <1>1, <1>2, <1>3, <1>4, <1>5 DEF n

\* What carries the lights of an image submits them.
LEMMA CarriedPart ==
  ASSUME driver \in AllDrivers, lamps \subseteq Lamps(driver), NEW img,
         NEW w \in Carrying(driver, img)
  PROVE  /\ w \in Writes(driver)
         /\ \A p \in DOMAIN PartOf(w).img : PartOf(w).img[p] = img[p]
         /\ \A p \in Places : p \in DOMAIN w.img => p \in DOMAIN PartOf(w).img
<1>1. w \in Writes(driver) /\ \A p \in Lit(driver) \cap DOMAIN w.img : w.img[p] = img[p]
  BY DEF Carrying
<1> QED BY <1>1, PartShape, PlacesLit

\* Writes that carry an image are writes.
LEMMA CarriedSeq ==
  ASSUME NEW d, NEW img, NEW ws \in Seq(Carrying(d, img))
  PROVE  ws \in Seq(Writes(d))
  BY DEF Carrying

(***************************************************************************)
(* Settling                                                                *)
(***************************************************************************)

\* What will be seen stays so when writes are submitted that agree with it.
LEMMA SettlesOn ==
  ASSUME driver \in AllDrivers, lamps \subseteq Lamps(driver),
         NEW queue \in Seq(InFlight), Len(queue) <= WriteLimit,
         NEW img, NEW ws \in Seq(Carrying(driver, img)),
         NEW dev, NEW p \in Places, Settles(queue, dev, p, img[p])
  PROVE  Settles(Submit(queue, ws), dev, p, img[p])
<1> DEFINE n == Len(Accepted(queue, ws))
           after == Submit(queue, ws)
           v == img[p]
<1>1. /\ Len(after) = Len(queue) + n /\ Len(queue) \in Nat /\ n \in Nat
      /\ \A i \in 1..Len(queue) : after[i] = queue[i]
      /\ \A i \in 1..n : i \in 1..Len(ws) /\ after[Len(queue) + i] = PartOf(ws[i])
  <2>1. ws \in Seq(Writes(driver))
    BY CarriedSeq
  <2>2. n \in Nat
    BY <2>1, AcceptedShape
  <2> QED BY <2>1, <2>2, SubmitShape
<1>2. \A i \in 1..n : p \in DOMAIN after[Len(queue) + i].img => after[Len(queue) + i].img[p] = v
  <2>1. \A i \in 1..n : ws[i] \in Carrying(driver, img)
    BY <1>1
  <2> QED BY <1>1, <2>1, CarriedPart
<1>3. PICK k \in 0..Len(queue) :
        /\ \A i \in (k + 1)..Len(queue) : p \in DOMAIN queue[i].img => queue[i].img[p] = v
        /\ k = 0 => dev[p] = v
        /\ k # 0 => p \in DOMAIN queue[k].img /\ queue[k].img[p] = v
  BY DEF Settles
<1> HIDE DEF n, after, v
<1>4. \A i \in (k + 1)..Len(after) : p \in DOMAIN after[i].img => after[i].img[p] = v
  <2> SUFFICES ASSUME NEW i \in (k + 1)..Len(after), p \in DOMAIN after[i].img
               PROVE  after[i].img[p] = v
    OBVIOUS
  <2>1. CASE i <= Len(queue)
    <3>1. i \in 1..Len(queue) /\ i \in (k + 1)..Len(queue)
      BY <1>1, <2>1
    <3> QED BY <1>1, <1>3, <3>1
  <2>2. CASE i > Len(queue)
    <3>1. i - Len(queue) \in 1..n /\ Len(queue) + (i - Len(queue)) = i
      BY <1>1, <2>2
    <3> QED BY <1>2, <3>1
  <2> QED BY <1>1, <2>1, <2>2
<1>5. k # 0 => p \in DOMAIN after[k].img /\ after[k].img[p] = v
  BY <1>1, <1>3
<1>6. k \in 0..Len(after)
  BY <1>1
<1>7. Settles(after, dev, p, v)
  BY <1>3, <1>4, <1>5, <1>6 DEF Settles
<1> QED BY <1>7 DEF after, v

\* Writes that agree on an image and of which one that was taken carries p
\* settle what is seen there.
LEMMA SettlesBy ==
  ASSUME driver \in AllDrivers, lamps \subseteq Lamps(driver),
         NEW queue \in Seq(InFlight), Len(queue) <= WriteLimit,
         NEW img, NEW ws \in Seq(Carrying(driver, img)),
         NEW dev, NEW p \in Places,
         NEW j \in 1..Len(Accepted(queue, ws)), p \in DOMAIN ws[j].img
  PROVE  Settles(Submit(queue, ws), dev, p, img[p])
<1> DEFINE n == Len(Accepted(queue, ws))
           after == Submit(queue, ws)
           v == img[p]
           k == Len(queue) + j
<1>1. /\ Len(after) = Len(queue) + n /\ Len(queue) \in Nat /\ n \in Nat
      /\ \A i \in 1..n : i \in 1..Len(ws) /\ after[Len(queue) + i] = PartOf(ws[i])
  <2>1. ws \in Seq(Writes(driver))
    BY CarriedSeq
  <2>2. n \in Nat
    BY <2>1, AcceptedShape
  <2> QED BY <2>1, <2>2, SubmitShape
<1>2. /\ \A i \in 1..n : p \in DOMAIN after[Len(queue) + i].img => after[Len(queue) + i].img[p] = v
      /\ p \in DOMAIN after[k].img
  <2>1. \A i \in 1..n : ws[i] \in Carrying(driver, img)
    BY <1>1
  <2> QED BY <1>1, <2>1, CarriedPart
<1>3. j \in 1..n
  OBVIOUS
<1> HIDE DEF n, after, v
<1>4. \A i \in (k + 1)..Len(after) : p \in DOMAIN after[i].img => after[i].img[p] = v
  <2> SUFFICES ASSUME NEW i \in (k + 1)..Len(after), p \in DOMAIN after[i].img
               PROVE  after[i].img[p] = v
    OBVIOUS
  <2>1. i - Len(queue) \in 1..n /\ Len(queue) + (i - Len(queue)) = i
    BY <1>1, <1>3
  <2> QED BY <1>2, <2>1
<1>5. after[k].img[p] = v
  BY <1>2, <1>3
<1>6. k \in 0..Len(after) /\ k # 0
  BY <1>1, <1>3
<1>7. Settles(after, dev, p, v)
  BY <1>2, <1>4, <1>5, <1>6 DEF Settles
<1> QED BY <1>7 DEF after, v

\* What will be seen stays so when the device takes a write.
LEMMA SettlesTail ==
  ASSUME NEW queue \in Seq(InFlight), queue # <<>>,
         NEW dev \in [Places -> Byte], NEW p \in Places, NEW v, Settles(queue, dev, p, v)
  PROVE  Settles(Tail(queue),
                 [q \in DOMAIN dev |-> IF q \in DOMAIN Head(queue).img
                                       THEN Head(queue).img[q] ELSE dev[q]], p, v)
<1> DEFINE rest == Tail(queue)
           dev1 == [q \in DOMAIN dev |-> IF q \in DOMAIN Head(queue).img
                                         THEN Head(queue).img[q] ELSE dev[q]]
<1>1. /\ Len(queue) \in Nat /\ Len(rest) = Len(queue) - 1 /\ Len(queue) >= 1
      /\ \A i \in 1..Len(rest) : rest[i] = queue[i + 1]
      /\ Head(queue) = queue[1]
  BY HeadTailProperties
<1>2. dev1[p] = IF p \in DOMAIN queue[1].img THEN queue[1].img[p] ELSE dev[p]
  BY <1>1
<1>3. PICK k \in 0..Len(queue) :
        /\ \A i \in (k + 1)..Len(queue) : p \in DOMAIN queue[i].img => queue[i].img[p] = v
        /\ k = 0 => dev[p] = v
        /\ k # 0 => p \in DOMAIN queue[k].img /\ queue[k].img[p] = v
  BY DEF Settles
<1> HIDE DEF rest, dev1
<1>4. CASE k <= 1
  <2>1. dev1[p] = v
    BY <1>1, <1>2, <1>3, <1>4
  <2>2. \A i \in (0 + 1)..Len(rest) : p \in DOMAIN rest[i].img => rest[i].img[p] = v
    <3> SUFFICES ASSUME NEW i \in (0 + 1)..Len(rest), p \in DOMAIN rest[i].img
                 PROVE  rest[i].img[p] = v
      OBVIOUS
    <3>1. i \in 1..Len(rest) /\ i + 1 \in (k + 1)..Len(queue)
      BY <1>1, <1>4
    <3> QED BY <1>1, <1>3, <3>1
  <2>3. 0 \in 0..Len(rest)
    BY <1>1
  <2>4. Settles(rest, dev1, p, v)
    BY <2>1, <2>2, <2>3 DEF Settles
  <2> QED BY <2>4 DEF rest, dev1
<1>5. CASE k > 1
  <2>1. k - 1 \in 1..Len(rest) /\ k - 1 \in 0..Len(rest) /\ k - 1 # 0 /\ (k - 1) + 1 = k
    BY <1>1, <1>5
  <2>2. p \in DOMAIN rest[k - 1].img /\ rest[k - 1].img[p] = v
    BY <1>1, <1>3, <1>5, <2>1
  <2>3. \A i \in ((k - 1) + 1)..Len(rest) : p \in DOMAIN rest[i].img => rest[i].img[p] = v
    <3> SUFFICES ASSUME NEW i \in ((k - 1) + 1)..Len(rest), p \in DOMAIN rest[i].img
                 PROVE  rest[i].img[p] = v
      OBVIOUS
    <3>1. i \in 1..Len(rest) /\ i + 1 \in (k + 1)..Len(queue)
      BY <1>1, <1>5
    <3> QED BY <1>1, <1>3, <3>1
  <2>4. Settles(rest, dev1, p, v)
    BY <2>1, <2>2, <2>3 DEF Settles
  <2> QED BY <2>4 DEF rest, dev1
<1> QED BY <1>4, <1>5

(***************************************************************************)
(* The invariant                                                           *)
(***************************************************************************)

\* A controller and any set of its lamps.
AnyInit == driver \in Drivers /\ slow \in BOOLEAN /\ Connected

\* The lamps of Init are such a set.
LEMMA InitAny == Init => AnyInit
  BY DEF Init, AnyInit

\* connect establishes the invariant: the image is what nobody has asked to change.
LEMMA InitInv == AnyInit => IInv
<1> SUFFICES ASSUME AnyInit PROVE IInv
  OBVIOUS
<1>1. /\ driver \in AllDrivers /\ lamps \subseteq Lamps(driver)
      /\ l = Driver[driver].lights0 /\ l \in Memory(driver)
  BY LightsAssumption, TableDescribes DEF AnyInit, Connected, Describes
<1>2. bus \in Seq(InFlight) /\ Len(bus) <= WriteLimit
  <2>1. AtConnect(driver) \in Seq(Writes(driver))
    BY <1>1, ConnectShape, CarriedSeq
  <2>2. <<>> \in Seq(InFlight) /\ Len(<<>>) <= WriteLimit
    BY LightsAssumption
  <2>3. bus = Submit(<<>>, AtConnect(driver))
    BY DEF AnyInit, Connected
  <2> QED BY <1>1, <2>1, <2>2, <2>3, SubmitShape
<1>3. shown \in [Places -> Byte] /\ want \in [lamps -> {None, Off, White}] /\ overruled = {}
  BY DEF AnyInit, Connected, Byte
<1>4. ImageInv
  <2>1. phase = "events" /\ \A id \in lamps : want[id] = None
    BY DEF AnyInit, Connected
  <2> QED BY <1>1, <1>3, <2>1 DEF ImageInv, Governed, Due, ByPad, Asked
<1>5. WholeInv
  BY DEF AnyInit, Connected, WholeInv
<1> QED BY <1>1, <1>2, <1>3, <1>4, <1>5 DEF IInv, TypeInv

\* No step changes the lamps.
LEMMA SameLamps ==
  ASSUME UNCHANGED <<driver, lamps>>
  PROVE  Places' = Places /\ InFlight' = InFlight
<1>1. Places' = Places
  BY DEF Places
<1> QED BY <1>1 DEF InFlight, Part

\* What a step has to show of the types.
LEMMA TypeKept ==
  ASSUME TypeInv, UNCHANGED <<driver, lamps>>, l' \in Memory(driver),
         bus' \in Seq(InFlight), Len(bus') <= WriteLimit, shown' \in [Places -> Byte],
         want' \in [lamps -> {None, Off, White}], overruled' # {} => driver = "mikro2"
  PROVE  TypeInv'
  BY SameLamps DEF TypeInv

\* What is submitted keeps the queue in shape.
LEMMA QueueKept ==
  ASSUME TypeInv, NEW img, NEW ws \in Seq(Carrying(driver, img)), bus' = Submit(bus, ws)
  PROVE  bus' \in Seq(InFlight) /\ Len(bus') <= WriteLimit
<1>1. ws \in Seq(Writes(driver))
  BY CarriedSeq
<1> QED BY <1>1, SubmitShape DEF TypeInv

\* Where a lamp shows is a place of the lamps.
LEMMA LampPlaces ==
  ASSUME NEW id \in lamps
  PROVE  Footprint(driver, id) \subseteq Places
  BY DEF Places

\* The phases before the close owe the same.
LEMMA DueKept ==
  ASSUME UNCHANGED <<driver, lamps, want, held, overruled>>,
         phase' = phase \/ (phase # "closed" /\ phase' # "closed")
  PROVE  Governed' = Governed /\ \A id, p : Due(id, p)' = Due(id, p)
<1>1. (phase' = "closed") = (phase = "closed")
  OBVIOUS
<1> QED BY <1>1 DEF Governed, Due, ByPad, Green, Asked

\* An image that stays as it is where lamps show is still as due.
LEMMA ImageKept ==
  ASSUME ImageInv, UNCHANGED <<driver, lamps, want, held, overruled>>,
         phase' = phase \/ (phase # "closed" /\ phase' # "closed"),
         \A p \in Places : l'.img[p] = l.img[p]
  PROVE  ImageInv'
<1> SUFFICES ASSUME NEW id \in Governed', NEW p \in Footprint(driver, id)
             PROVE  l'.img[p] = Due(id, p)'
  BY DEF ImageInv, Footprint
<1>1. id \in Governed /\ Due(id, p)' = Due(id, p)
  BY DueKept
<1>2. p \in Places
  BY <1>1, LampPlaces DEF Governed
<1> QED BY <1>1, <1>2 DEF ImageInv

\* A flush that is taken as a whole will be seen.
LEMMA WholeFlush ==
  ASSUME driver \in AllDrivers, lamps \subseteq Lamps(driver),
         NEW queue \in Seq(InFlight), Len(queue) <= WriteLimit,
         NEW img, NEW ws \in Seq(Carrying(driver, img)), TakenWhole(queue, ws),
         \A p \in Lit(driver) : \E k \in 1..Len(ws) : p \in DOMAIN ws[k].img,
         NEW dev, NEW p \in Places
  PROVE  Settles(Submit(queue, ws), dev, p, img[p])
<1>1. PICK k \in 1..Len(ws) : p \in DOMAIN ws[k].img
  BY PlacesLit
<1>2. k \in 1..Len(Accepted(queue, ws))
  BY <1>1 DEF TakenWhole
<1> QED BY <1>1, <1>2, SettlesBy

\* A write taken: what will be seen stays the same.
LEMMA CompleteInv == IInv /\ Complete => IInv'
<1> SUFFICES ASSUME IInv, Complete PROVE IInv'
  OBVIOUS
<1>1. /\ TypeInv /\ driver \in AllDrivers
      /\ UNCHANGED <<driver, lamps, l, want, held, overruled, whole, phase>>
      /\ bus \in Seq(InFlight) /\ bus # <<>> /\ Len(bus) <= WriteLimit
      /\ shown \in [Places -> Byte] /\ bus' = Tail(bus)
      /\ shown' = [p \in DOMAIN shown |-> IF p \in DOMAIN Head(bus).img
                                          THEN Head(bus).img[p] ELSE shown[p]]
  BY DEF IInv, TypeInv, Complete
<1>2. TypeInv'
  <2>1. bus' \in Seq(InFlight) /\ Len(bus') <= WriteLimit /\ Head(bus) \in InFlight
    <3>1. Len(Tail(bus)) = Len(bus) - 1 /\ Len(bus) \in Nat /\ WriteLimit \in Nat
      BY <1>1, HeadTailProperties, LightsAssumption
    <3> QED BY <1>1, <3>1, HeadTailProperties
  <2>2. \A p \in DOMAIN Head(bus).img : Head(bus).img[p] \in Byte
    BY <2>1 DEF InFlight, Part
  <2>3. shown' \in [Places -> Byte]
    BY <1>1, <2>2
  <2>4. /\ l' \in Memory(driver) /\ want' \in [lamps -> {None, Off, White}]
        /\ overruled' # {} => driver = "mikro2"
    BY <1>1 DEF TypeInv
  <2> QED BY <1>1, <2>1, <2>3, <2>4, TypeKept
<1>3. ImageInv'
  BY <1>1, ImageKept DEF IInv
<1>4. \A p \in Places : \A v : Settles(bus, shown, p, v) => Settles(bus', shown', p, v)
  BY <1>1, SettlesTail
<1>5. WholeInv'
  BY <1>1, <1>4, SameLamps DEF IInv, WholeInv
<1> QED BY <1>2, <1>3, <1>5 DEF IInv

\* A strip of the Jam changes no lamp.
LEMMA StripTouchedInv == IInv /\ StripTouched => IInv'
<1> SUFFICES ASSUME IInv, StripTouched PROVE IInv'
  OBVIOUS
<1>1. /\ TypeInv /\ driver = "jam" /\ driver \in AllDrivers /\ l \in Memory(driver)
      /\ lamps \subseteq Lamps(driver)
      /\ UNCHANGED <<driver, lamps, bus, shown, want, held, overruled, whole, phase>>
  BY DEF IInv, TypeInv, StripTouched, Touching
<1>2. PICK i \in 0..7 : l' = Jam!TouchstripLed(l, i, Jam!StripLeds(512, 1023))
  BY DEF StripTouched
<1>3. l' \in Memory(driver) /\ \A p \in Lit(driver) : l'.img[p] = l.img[p]
  BY <1>1, <1>2, StripShape
<1>4. \A p \in Places : l'.img[p] = l.img[p]
  BY <1>1, <1>3, PlacesLit
<1>5. TypeInv'
  <2>1. /\ bus' \in Seq(InFlight) /\ Len(bus') <= WriteLimit /\ shown' \in [Places -> Byte]
        /\ want' \in [lamps -> {None, Off, White}] /\ (overruled' # {} => driver = "mikro2")
    BY <1>1 DEF TypeInv
  <2> QED BY <1>1, <1>3, <2>1, TypeKept
<1>6. ImageInv'
  BY <1>1, <1>4, ImageKept DEF IInv
<1>7. WholeInv'
  <2>1. Places' = Places
    BY <1>1, SameLamps
  <2> QED BY <1>1, <1>4, <2>1 DEF IInv, WholeInv
<1> QED BY <1>5, <1>6, <1>7 DEF IInv

\* A pad of the Mikro Mk2: the one byte that changes is its lamp's green, as is due
\* from now on; what the pad sends is the whole image.
LEMMA PadTouchedInv == IInv /\ PadTouched => IInv'
<1> SUFFICES ASSUME IInv, PadTouched PROVE IInv'
  OBVIOUS
<1>1. /\ TypeInv /\ driver = "mikro2" /\ driver \in AllDrivers /\ l \in Memory("mikro2")
      /\ lamps \subseteq Lamps(driver) /\ bus \in Seq(InFlight) /\ Len(bus) <= WriteLimit
      /\ UNCHANGED <<driver, lamps, shown, want, phase>>
  BY DEF IInv, TypeInv, PadTouched, Touching
<1>2. PICK i \in Touchable :
        LET f == Mikro2!PadLit(l, i, i \notin held)
        IN /\ l' = f.l /\ bus' = Submit(bus, f.writes) /\ whole' = TakenWhole(bus, f.writes)
           /\ held' = IF i \in held THEN held \ {i} ELSE held \cup {i}
           /\ overruled' = overruled \cup ({28 + i} \cap lamps)
  BY DEF PadTouched
<1> DEFINE on == i \notin held
           f == Mikro2!PadLit(l, i, on)
           at == Mikro2!PadAt(28 + i) + 1
<1>3. i \in 0..15 /\ on \in BOOLEAN
  BY LightsAssumption
<1>4. l' = f.l /\ bus' = Submit(bus, f.writes) /\ whole' = TakenWhole(bus, f.writes)
  BY <1>2
<1>5. /\ f.l \in Memory(driver) /\ f.l.img[at] = (IF on THEN 127 ELSE 0)
      /\ \A p \in Lit(driver) \ {at} : f.l.img[p] = l.img[p]
      /\ f.writes \in Seq(Carrying(driver, f.l.img))
      /\ \A p \in Lit(driver) : \E k \in 1..Len(f.writes) : p \in DOMAIN f.writes[k].img
      /\ 28 + i \in Ids(driver) /\ at \in Spots(driver, 28 + i)
  <2>1. PadSends(l, i, on)
    BY <1>1, <1>3, PadShape
  <2>2. driver = "mikro2"
    BY <1>1
  <2> QED BY <2>1, <2>2 DEF PadSends
<1> HIDE DEF f
<1>6. TypeInv'
  <2>1. bus' \in Seq(InFlight) /\ Len(bus') <= WriteLimit
    BY <1>1, <1>4, <1>5, QueueKept
  <2>2. shown' \in [Places -> Byte] /\ want' \in [lamps -> {None, Off, White}]
    BY <1>1 DEF TypeInv
  <2> QED BY <1>1, <1>4, <1>5, <2>1, <2>2, TypeKept
<1>7. ImageInv'
  <2> SUFFICES ASSUME NEW id \in Governed', NEW p \in Footprint(driver, id)
               PROVE  l'.img[p] = Due(id, p)'
    BY <1>1 DEF ImageInv, Footprint
  <2>1. id \in Governed /\ id \in lamps /\ l.img[p] = Due(id, p)
    BY <1>1 DEF Governed, IInv, ImageInv
  <2>2. id \in Ids(driver)
    BY <1>1, <2>1, TableDescribes DEF Lamps, Describes
  <2>3. p \in Lit(driver) /\ p \in Spots(driver, id)
    BY <1>1, <2>1, <2>2, FootprintSpots, FootprintLit
  <2>4. CASE id = 28 + i /\ p = at
    <3>1. ByPad(id, p)'
      BY <1>2, <2>1, <2>4 DEF ByPad
    <3>2. Green(id)' = IF on THEN 127 ELSE 0
      <4>1. id - 28 = i
        BY <1>3, <2>4
      <4> QED BY <1>2, <4>1 DEF Green
    <3> QED BY <1>4, <1>5, <2>4, <3>1, <3>2 DEF Due
  <2>5. CASE id = 28 + i /\ p # at
    <3>1. l'.img[p] = l.img[p]
      BY <1>4, <1>5, <2>3, <2>5
    <3>2. ~ByPad(id, p) /\ ~ByPad(id, p)'
      BY <2>5 DEF ByPad
    <3>3. Asked(id)' = Asked(id)
      BY <1>1 DEF Asked
    <3> QED BY <1>1, <2>1, <3>1, <3>2, <3>3 DEF Due
  <2>6. CASE id # 28 + i
    <3>1. p # at
      BY <1>1, <1>5, <2>2, <2>3, <2>6, SpotsApart
    <3>2. l'.img[p] = l.img[p]
      BY <1>4, <1>5, <2>3, <3>1
    <3>3. ByPad(id, p)' = ByPad(id, p)
      BY <1>2, <2>6 DEF ByPad
    <3>4. ByPad(id, p) => Green(id)' = Green(id)
      <4>1. id \in Nat
        <5>1. id \in Ids("mikro2")
          BY <1>1, <2>2
        <5> QED BY <5>1 DEF Ids
      <4>2. id - 28 # i
        BY <1>3, <2>6, <4>1
      <4> QED BY <1>2, <4>2 DEF Green
    <3>5. Asked(id)' = Asked(id)
      BY <1>1 DEF Asked
    <3> QED BY <1>1, <2>1, <3>2, <3>3, <3>4, <3>5 DEF Due
  <2> QED BY <2>4, <2>5, <2>6
<1>8. WholeInv'
  <2> SUFFICES ASSUME whole', NEW p \in Places PROVE Settles(bus', shown', p, l'.img[p])
    BY <1>1, SameLamps DEF WholeInv
  <2>1. TakenWhole(bus, f.writes)
    BY <1>4
  <2>2. Settles(Submit(bus, f.writes), shown, p, f.l.img[p])
    BY <1>1, <1>5, <2>1, WholeFlush
  <2> QED BY <1>1, <1>4, <2>2
<1> QED BY <1>6, <1>7, <1>8 DEF IInv

\* light_set: the lamp becomes what is asked, and no other changes, because their
\* bytes are apart.
LEMMA SetLightInv ==
  ASSUME NEW id \in lamps, NEW st \in {Off, White}, IInv, SetLight(id, st)
  PROVE  IInv'
<1>1. /\ TypeInv /\ driver \in AllDrivers /\ l \in Memory(driver)
      /\ lamps \subseteq Lamps(driver) /\ want \in [lamps -> {None, Off, White}]
      /\ UNCHANGED <<driver, lamps, bus, shown, held, phase>> /\ phase = "feedback"
      /\ whole' = FALSE /\ overruled' = overruled \ {id}
      /\ l' = LightSet(driver, l, id, st) /\ want' = [want EXCEPT ![id] = st]
  BY DEF IInv, TypeInv, SetLight
<1>2. \A j \in lamps : j \in Ids(driver)
  BY <1>1, TableDescribes DEF Lamps, Describes
<1>3. /\ l' \in Memory(driver)
      /\ \A p \in Extent(driver) \ Spots(driver, id) : l'.img[p] = l.img[p]
      /\ \A p \in Extent(driver) \cap Spots(driver, id) :
           l'.img[p] = LightSet(driver, Driver[driver].lights0, id, st).img[p]
  BY <1>1, <1>2, LightSetShape DEF SetsOnly
<1>4. TypeInv'
  <2>1. bus' \in Seq(InFlight) /\ Len(bus') <= WriteLimit /\ shown' \in [Places -> Byte]
    BY <1>1 DEF TypeInv
  <2>2. want' \in [lamps -> {None, Off, White}] /\ (overruled' # {} => driver = "mikro2")
    BY <1>1 DEF TypeInv
  <2> QED BY <1>1, <1>3, <2>1, <2>2, TypeKept
<1>5. ImageInv'
  <2> SUFFICES ASSUME NEW j \in lamps, NEW p \in Footprint(driver, j)
               PROVE  l'.img[p] = Due(j, p)'
    BY <1>1 DEF ImageInv, Governed, Footprint
  <2>1. p \in Spots(driver, j) /\ p \in Extent(driver)
    BY <1>1, <1>2, FootprintSpots
  <2>2. CASE j = id
    <3>1. l'.img[p] = LightSet(driver, Driver[driver].lights0, id, st).img[p]
      BY <1>3, <2>1, <2>2
    <3>2. Driver[driver].alone[id][st] = LightSet(driver, Driver[driver].lights0, id, st).img
      BY <1>1, <1>2, AloneImage
    <3>3. want'[id] = st /\ st # None
      BY <1>1, AskedStates
    <3>4. Asked(id)' = Driver[driver].alone[id][st]
      BY <1>1, <3>3 DEF Asked
    <3>5. ~ByPad(id, p)' /\ phase' # "closed"
      BY <1>1 DEF ByPad
    <3> QED BY <2>2, <3>1, <3>2, <3>4, <3>5 DEF Due
  <2>3. CASE j # id
    <3>1. l'.img[p] = l.img[p]
      BY <1>1, <1>2, <1>3, <2>1, <2>3, SpotsApart
    <3>2. Due(j, p)' = Due(j, p)
      BY <1>1, <2>3 DEF Due, ByPad, Green, Asked
    <3>3. l.img[p] = Due(j, p)
      BY <1>1 DEF IInv, ImageInv, Governed
    <3> QED BY <3>1, <3>2, <3>3
  <2> QED BY <2>2, <2>3
<1>6. WholeInv'
  BY <1>1 DEF WholeInv
<1> QED BY <1>4, <1>5, <1>6 DEF IInv

\* Meters set lamps as light_set does; digits and strips leave them alone.
LEMMA SetFeedbackInv == IInv /\ SetFeedback => IInv'
<1> SUFFICES ASSUME IInv, SetFeedback PROVE IInv'
  OBVIOUS
<1> DEFINE metered == DOMAIN Metered(driver)
<1>1. /\ TypeInv /\ driver \in AllDrivers /\ l \in Memory(driver) /\ lamps \subseteq Lamps(driver)
      /\ UNCHANGED <<driver, lamps, bus, shown, held, overruled, phase>> /\ phase = "feedback"
      /\ whole' = FALSE /\ l' \in ByFeedback(driver, l)
      /\ want' = [id \in lamps |-> IF id \in metered THEN Metered(driver)[id] ELSE want[id]]
  BY DEF IInv, TypeInv, SetFeedback
<1>2. /\ l' \in Memory(driver) /\ \A p \in Lit(driver) \ metered : l'.img[p] = l.img[p]
      /\ \A id \in metered :
           /\ id \in Ids(driver) /\ Spots(driver, id) = {id} /\ Metered(driver)[id] \in {Off, White}
           /\ l'.img[id] =
                LightSet(driver, Driver[driver].lights0, id, Metered(driver)[id]).img[id]
  BY <1>1, FeedbackShape DEF FeedbackKeeps
<1>3. metered # {} => driver = "z1"
  BY DEF Metered
<1> HIDE DEF metered
<1>4. TypeInv'
  <2>1. bus' \in Seq(InFlight) /\ Len(bus') <= WriteLimit /\ shown' \in [Places -> Byte]
    BY <1>1 DEF TypeInv
  <2>2. want' \in [lamps -> {None, Off, White}] /\ (overruled' # {} => driver = "mikro2")
    BY <1>1, <1>2 DEF TypeInv
  <2> QED BY <1>1, <1>2, <2>1, <2>2, TypeKept
<1>5. ImageInv'
  <2> SUFFICES ASSUME NEW j \in lamps, NEW p \in Footprint(driver, j)
               PROVE  l'.img[p] = Due(j, p)'
    BY <1>1 DEF ImageInv, Governed, Footprint
  <2>1. j \in Ids(driver)
    BY <1>1, TableDescribes DEF Lamps, Describes
  <2>2. p \in Spots(driver, j) /\ p \in Lit(driver)
    BY <1>1, <2>1, FootprintSpots, FootprintLit
  <2>3. CASE j \in metered
    <3> DEFINE st == Metered(driver)[j]
    <3>1. p = j /\ st \in {Off, White} /\ want'[j] = st
      BY <1>1, <1>2, <2>2, <2>3
    <3>2. l'.img[p] = LightSet(driver, Driver[driver].lights0, j, st).img[p]
      BY <1>2, <2>3, <3>1
    <3> HIDE DEF st
    <3>3. Driver[driver].alone[j][st] = LightSet(driver, Driver[driver].lights0, j, st).img
      BY <1>1, <2>1, <3>1, AloneImage
    <3>4. Asked(j)' = Driver[driver].alone[j][st]
      BY <1>1, <3>1, AskedStates DEF Asked
    <3>5. ~ByPad(j, p)' /\ phase' # "closed"
      BY <1>1, <1>3, <2>3 DEF ByPad, TypeInv
    <3> QED BY <3>2, <3>3, <3>4, <3>5 DEF Due
  <2>4. CASE j \notin metered
    <3>1. p \notin metered
      <4> SUFFICES ASSUME p \in metered PROVE FALSE
        OBVIOUS
      <4>1. p \in Ids(driver) /\ p \in Spots(driver, p) /\ p # j
        BY <1>2, <2>4
      <4> QED BY <1>1, <2>1, <2>2, <4>1, SpotsApart
    <3>2. l'.img[p] = l.img[p]
      BY <1>2, <2>2, <3>1
    <3>3. Due(j, p)' = Due(j, p)
      <4>1. want'[j] = want[j]
        BY <1>1, <2>4
      <4> QED BY <1>1, <4>1 DEF Due, ByPad, Green, Asked
    <3>4. l.img[p] = Due(j, p)
      BY <1>1 DEF IInv, ImageInv, Governed
    <3> QED BY <3>2, <3>3, <3>4
  <2> QED BY <2>3, <2>4
<1>6. WholeInv'
  BY <1>1 DEF WholeInv
<1> QED BY <1>4, <1>5, <1>6 DEF IInv

\* light_flush: if it was taken as a whole, the last writes of every place show the
\* image.
LEMMA FlushLightsInv == IInv /\ FlushLights => IInv'
<1> SUFFICES ASSUME IInv, FlushLights PROVE IInv'
  OBVIOUS
<1> DEFINE f == LightFlush(driver, l, FALSE)
<1>1. /\ TypeInv /\ driver \in AllDrivers /\ l \in Memory(driver) /\ lamps \subseteq Lamps(driver)
      /\ bus \in Seq(InFlight) /\ Len(bus) <= WriteLimit
      /\ UNCHANGED <<driver, lamps, shown, want, held, overruled>>
      /\ phase = "feedback" /\ phase' = "redraw"
      /\ l' = f.l /\ bus' = Submit(bus, f.writes) /\ whole' = TakenWhole(bus, f.writes)
  BY DEF IInv, TypeInv, FlushLights
<1>2. /\ f.l \in Memory(driver) /\ \A p \in Lit(driver) : f.l.img[p] = l.img[p]
      /\ f.writes \in Seq(Carrying(driver, l.img))
      /\ f.writes # <<>> => \A p \in Lit(driver) :
           \E k \in 1..Len(f.writes) : p \in DOMAIN f.writes[k].img
  BY <1>1, FlushShape DEF FlushSends
<1> HIDE DEF f
<1>3. TypeInv'
  <2>1. bus' \in Seq(InFlight) /\ Len(bus') <= WriteLimit
    BY <1>1, <1>2, QueueKept
  <2>2. /\ shown' \in [Places -> Byte] /\ want' \in [lamps -> {None, Off, White}]
        /\ overruled' # {} => driver = "mikro2"
    BY <1>1 DEF TypeInv
  <2> QED BY <1>1, <1>2, <2>1, <2>2, TypeKept
<1>4. \A p \in Places : l'.img[p] = l.img[p]
  BY <1>1, <1>2, PlacesLit
<1>5. ImageInv'
  BY <1>1, <1>4, ImageKept DEF IInv
<1>6. WholeInv'
  <2> SUFFICES ASSUME whole', NEW p \in Places PROVE Settles(bus', shown', p, l'.img[p])
    BY <1>1, SameLamps DEF WholeInv
  <2>1. TakenWhole(bus, f.writes)
    BY <1>1
  <2>2. \A q \in Lit(driver) : \E k \in 1..Len(f.writes) : q \in DOMAIN f.writes[k].img
    BY <1>2, <2>1 DEF TakenWhole
  <2>3. Settles(Submit(bus, f.writes), shown, p, l.img[p])
    BY <1>1, <1>2, <2>1, <2>2, WholeFlush
  <2> QED BY <1>1, <1>4, <2>3
<1> QED BY <1>3, <1>5, <1>6 DEF IInv

\* Screens that are drawn after a flush cover nothing of it.
LEMMA RedrawInv == IInv /\ Redraw => IInv'
<1> SUFFICES ASSUME IInv, Redraw PROVE IInv'
  OBVIOUS
<1>1. /\ TypeInv /\ driver \in AllDrivers /\ l \in Memory(driver) /\ lamps \subseteq Lamps(driver)
      /\ bus \in Seq(InFlight) /\ Len(bus) <= WriteLimit
      /\ UNCHANGED <<driver, lamps, l, shown, want, held, overruled, whole>>
      /\ phase = "redraw" /\ phase' = "events"
      /\ bus' = bus \/ bus' = Submit(bus, Screens(driver))
  BY DEF IInv, TypeInv, Redraw
<1>2. Screens(driver) \in Seq(Carrying(driver, l.img))
  BY <1>1, ScreensShape
<1>3. TypeInv'
  <2>1. bus' \in Seq(InFlight) /\ Len(bus') <= WriteLimit
    BY <1>1, <1>2, QueueKept
  <2>2. /\ l' \in Memory(driver) /\ shown' \in [Places -> Byte]
        /\ want' \in [lamps -> {None, Off, White}] /\ (overruled' # {} => driver = "mikro2")
    BY <1>1 DEF TypeInv
  <2> QED BY <1>1, <2>1, <2>2, TypeKept
<1>4. ImageInv'
  BY <1>1, ImageKept DEF IInv
<1>5. WholeInv'
  <2> SUFFICES ASSUME whole, NEW p \in Places PROVE Settles(bus', shown', p, l.img[p])
    BY <1>1, SameLamps DEF WholeInv
  <2>1. Settles(bus, shown, p, l.img[p])
    BY <1>1 DEF IInv, WholeInv
  <2> QED BY <1>1, <1>2, <2>1, SettlesOn
<1> QED BY <1>3, <1>4, <1>5 DEF IInv

\* disconnect: if its flush was taken, the last writes of every place show the image,
\* dark where disconnect reaches; the screens behind it cover nothing of it.
LEMMA DisconnectInv == IInv /\ Disconnect => IInv'
<1> SUFFICES ASSUME IInv, Disconnect PROVE IInv'
  OBVIOUS
<1> DEFINE m == Blank(driver, l)
           f == LightFlush(driver, m, TRUE)
           more == AtDisconnect(driver)
           writes == f.writes \o more
<1>1. /\ TypeInv /\ driver \in AllDrivers /\ l \in Memory(driver) /\ lamps \subseteq Lamps(driver)
      /\ bus \in Seq(InFlight) /\ Len(bus) <= WriteLimit
      /\ UNCHANGED <<driver, lamps, shown, want>> /\ phase' = "closed"
      /\ l' = f.l /\ bus' = Submit(bus, writes)
      /\ overruled' = {} /\ whole' = TakenWhole(bus, f.writes)
  BY DEF IInv, TypeInv, Disconnect
<1>2. m \in Memory(driver) /\ \A p \in Cleared(driver) : m.img[p] = 0
  BY <1>1, BlankShape DEF BlanksAll
<1>3. /\ f.l \in Memory(driver) /\ f.writes \in Seq(Carrying(driver, m.img))
      /\ \A p \in Lit(driver) : f.l.img[p] = m.img[p]
      /\ \A p \in Lit(driver) : \E k \in 1..Len(f.writes) : p \in DOMAIN f.writes[k].img
  BY <1>1, <1>2, FlushShape DEF FlushSends
<1>4. more \in Seq(Carrying(driver, m.img))
  BY <1>1, ScreensShape
<1> HIDE DEF m, f, more
<1>5. /\ writes \in Seq(Carrying(driver, m.img)) /\ Len(writes) = Len(f.writes) + Len(more)
      /\ \A k \in 1..Len(f.writes) : k \in 1..Len(writes) /\ writes[k] = f.writes[k]
  BY <1>3, <1>4
<1> HIDE DEF writes
<1>6. TypeInv'
  <2>1. bus' \in Seq(InFlight) /\ Len(bus') <= WriteLimit
    BY <1>1, <1>5, QueueKept
  <2>2. shown' \in [Places -> Byte] /\ want' \in [lamps -> {None, Off, White}]
    BY <1>1 DEF TypeInv
  <2> QED BY <1>1, <1>3, <2>1, <2>2, TypeKept
<1>7. ImageInv'
  <2> SUFFICES ASSUME NEW id \in lamps \ LeftLit(driver), NEW p \in Footprint(driver, id)
               PROVE  l'.img[p] = Due(id, p)'
    BY <1>1 DEF ImageInv, Governed, Footprint
  <2>1. p \in Lit(driver) /\ p \in Cleared(driver)
    BY <1>1, FootprintLit
  <2>2. Due(id, p)' = 0
    BY <1>1 DEF Due, ByPad
  <2> QED BY <1>1, <1>2, <1>3, <2>1, <2>2
<1>8. WholeInv'
  <2> SUFFICES ASSUME whole', NEW p \in Places PROVE Settles(bus', shown', p, l'.img[p])
    BY <1>1, SameLamps DEF WholeInv
  <2>1. p \in Lit(driver) /\ l'.img[p] = m.img[p]
    BY <1>1, <1>3, PlacesLit
  <2>2. PICK k \in 1..Len(f.writes) : p \in DOMAIN f.writes[k].img
    BY <1>3, <2>1
  <2>3. k \in 1..Len(Accepted(bus, writes))
    <3>1. Len(bus) \in Nat /\ WriteLimit \in Nat
      BY <1>1, LightsAssumption
    <3>2. Len(bus) + Len(f.writes) <= WriteLimit
      <4>1. Len(Accepted(bus, f.writes)) = Len(f.writes)
        BY <1>1 DEF TakenWhole
      <4> QED BY <1>1, <1>3, <3>1, <4>1, AcceptedShape
    <3>3. Len(Accepted(bus, writes)) >= Len(f.writes)
      <4>1. /\ Len(Accepted(bus, writes)) \in 0..Len(writes)
            /\ Len(bus) + Len(writes) <= WriteLimit => Len(Accepted(bus, writes)) = Len(writes)
            /\ Len(bus) + Len(writes) > WriteLimit =>
                 Len(bus) + Len(Accepted(bus, writes)) = WriteLimit
        BY <1>1, <1>5, <3>1, AcceptedShape
      <4>2. Len(f.writes) \in Nat /\ Len(more) \in Nat
        BY <1>3, <1>4
      <4> QED BY <1>5, <3>1, <3>2, <4>1, <4>2
    <3> QED BY <1>1, <1>5, <3>1, <3>3, AcceptedShape
  <2>4. p \in DOMAIN writes[k].img
    BY <1>5, <2>2
  <2>5. Settles(Submit(bus, writes), shown, p, m.img[p])
    BY <1>1, <1>5, <2>3, <2>4, SettlesBy
  <2> QED BY <1>1, <2>1, <2>5
<1> QED BY <1>6, <1>7, <1>8 DEF IInv

\* Of cancelled writes nothing is promised.
LEMMA CancelInv == IInv /\ Cancel => IInv'
<1> SUFFICES ASSUME IInv, Cancel PROVE IInv'
  OBVIOUS
<1>1. /\ TypeInv /\ UNCHANGED <<driver, lamps, l, shown, want, held, overruled, phase>>
      /\ bus' = <<>> /\ whole' = FALSE
  BY DEF IInv, Cancel
<1>2. TypeInv'
  <2>1. bus' \in Seq(InFlight) /\ Len(bus') <= WriteLimit
    BY <1>1, LightsAssumption
  <2>2. /\ l' \in Memory(driver) /\ shown' \in [Places -> Byte]
        /\ want' \in [lamps -> {None, Off, White}] /\ (overruled' # {} => driver = "mikro2")
    BY <1>1 DEF TypeInv
  <2> QED BY <1>1, <2>1, <2>2, TypeKept
<1>3. ImageInv'
  BY <1>1, ImageKept DEF IInv
<1>4. WholeInv'
  BY <1>1 DEF WholeInv
<1> QED BY <1>2, <1>3, <1>4 DEF IInv

\* Poll and steps of nobody.
LEMMA IdleInv ==
  ASSUME IInv, UNCHANGED <<driver, lamps, l, bus, shown, want, held, overruled, whole>>,
         phase' = phase \/ (phase = "events" /\ phase' = "feedback")
  PROVE  IInv'
<1>1. TypeInv'
  BY TypeKept DEF IInv, TypeInv
<1>2. ImageInv'
  BY ImageKept DEF IInv
<1>3. WholeInv'
  BY SameLamps DEF IInv, WholeInv
<1> QED BY <1>1, <1>2, <1>3 DEF IInv

\* Every step keeps the invariant.
LEMMA NextInv == IInv /\ [Next]_vars => IInv'
<1> SUFFICES ASSUME IInv, [Next]_vars PROVE IInv'
  OBVIOUS
<1>1. CASE \E id \in lamps : SetLight(id, Turned(id))
  BY <1>1, SetLightInv DEF Turned
<1>2. CASE Poll
  BY <1>2, IdleInv DEF Poll
<1>3. CASE UNCHANGED vars
  BY <1>3, IdleInv DEF vars
<1> QED BY <1>1, <1>2, <1>3, CompleteInv, StripTouchedInv, PadTouchedInv, SetFeedbackInv,
           FlushLightsInv, RedrawInv, DisconnectInv, CancelInv DEF Next

(***************************************************************************)
(* What follows                                                            *)
(***************************************************************************)

\* Types and limit are part of the invariant.
LEMMA TypeFollows == IInv => TypeOK
  BY DEF IInv, TypeInv, TypeOK, Byte

\* A write in flight has a handle of the driver, and those are open.
LEMMA HandlesFollow == IInv => HandlesOpen
<1> SUFFICES ASSUME IInv,
                    NEW handle \in {Driver[driver].reads} \cup {bus[i].handle : i \in DOMAIN bus}
             PROVE  \E n \in DOMAIN Driver[driver].opens : Driver[driver].opens[n][2] = handle
  BY DEF HandlesOpen
<1>1. driver \in AllDrivers /\ bus \in Seq(InFlight)
  BY DEF IInv, TypeInv
<1>2. \A i \in DOMAIN bus : bus[i].handle \in Handles(driver)
  <2>1. \A i \in DOMAIN bus : bus[i] \in InFlight
    BY <1>1
  <2>2. \A w \in InFlight : w.handle \in Handles(driver)
    BY DEF InFlight
  <2> QED BY <2>1, <2>2
<1>3. handle \in Handles(driver)
  BY <1>1, <1>2, HandlesOpened
<1> QED BY <1>1, <1>3, HandlesOpened

\* Where nothing in flight carries p, what settles there is seen.
LEMMA Settled ==
  ASSUME NEW queue \in Seq(InFlight), NEW dev, NEW p, NEW v, Settles(queue, dev, p, v),
         \A i \in 1..Len(queue) : p \notin DOMAIN queue[i].img
  PROVE  dev[p] = v
  BY DEF Settles

\* What was promised is seen when no light is in flight any more.
LEMMA ShownFollows == IInv => LightsShown
<1> SUFFICES ASSUME IInv, phase # "closed", whole, ~LightsInFlight,
                    NEW id \in lamps, NEW p \in Footprint(driver, id) \cap Places
             PROVE  shown[p] = Due(id, p)
  BY DEF LightsShown, ShownAsDue
<1>1. bus \in Seq(InFlight) /\ Settles(bus, shown, p, l.img[p])
  BY DEF IInv, TypeInv, WholeInv
<1>2. \A i \in 1..Len(bus) : p \notin DOMAIN bus[i].img
  BY <1>1 DEF LightsInFlight
<1>3. l.img[p] = Due(id, p)
  BY DEF IInv, ImageInv, Governed
<1> QED BY <1>1, <1>2, <1>3, Settled

\* So is the dark after disconnect.
LEMMA DarkFollows == IInv => DarkAfterClose
<1> SUFFICES ASSUME IInv, phase = "closed", bus = <<>>, whole,
                    NEW id \in lamps \ LeftLit(driver), NEW p \in Footprint(driver, id)
             PROVE  shown[p] = IF ByPad(id, p) /\ id - 28 \in held THEN 127 ELSE 0
  BY DEF DarkAfterClose
<1>1. p \in Places
  BY LampPlaces
<1>2. bus \in Seq(InFlight) /\ Settles(bus, shown, p, l.img[p])
  BY <1>1 DEF IInv, TypeInv, WholeInv
<1>3. \A i \in 1..Len(bus) : p \notin DOMAIN bus[i].img
  OBVIOUS
<1>4. shown[p] = l.img[p]
  BY <1>2, <1>3, Settled
<1>5. l.img[p] = Due(id, p)
  BY DEF IInv, ImageInv, Governed
<1> QED BY <1>4, <1>5 DEF Due, Green

(***************************************************************************)
(* Theorems                                                                *)
(***************************************************************************)

\* Whichever set of lamps of a controller the application sets, how often and in
\* which order, and whichever pads and strips are touched, also while the device is
\* being closed: the writes in flight never exceed CTLRA_ASYNC_READ_MAX and go to
\* handles that connect has opened; after a flush that the transfer layer has taken
\* lights show as they were asked for, but for the pads touched since; disconnect
\* leaves the device dark, but for the pads pressed since.
THEOREM AnyLampsCorrect ==
  AnyInit /\ [][Next]_vars => [](TypeOK /\ HandlesOpen /\ LightsShown /\ DarkAfterClose)
<1>1. IInv => TypeOK /\ HandlesOpen /\ LightsShown /\ DarkAfterClose
  BY TypeFollows, HandlesFollow, ShownFollows, DarkFollows
<1> QED BY <1>1, InitInv, NextInv, PTL

\* ctlra_dev_impl_usb_*_write: screens, forced flushes and what a touch lights share
\* the limit of writes in flight, and whatever finds no room is dropped.
THEOREM TypeCorrect == Spec => []TypeOK
  BY InitAny, AnyLampsCorrect, PTL DEF Spec

\* Every driver reads from and writes lights and screens to handles that its
\* connect has opened.
THEOREM HandlesCorrect == Spec => []HandlesOpen
  BY InitAny, AnyLampsCorrect, PTL DEF Spec

\* ctlra_dev_light_set and ctlra_dev_light_flush: a flush that was taken as a whole
\* shows every lamp as it was last asked for, whatever else is set, touched, drawn
\* or still in flight; only a touch of the Mikro Mk2's pads overrules it, in the
\* green of the pad's own light, until the light is set again.
THEOREM LightsCorrect == Spec => []LightsShown
  BY InitAny, AnyLampsCorrect, PTL DEF Spec

\* A disconnect whose writes were taken leaves every lamp dark but those of the X1
\* it does not reach, and the green of a Mikro Mk2's pad that is pressed while
\* ctlra_dev_impl_usb_close handles events: that pad stays lit.
THEOREM DarkCorrect == Spec => []DarkAfterClose
  BY InitAny, AnyLampsCorrect, PTL DEF Spec
===============================================================================
