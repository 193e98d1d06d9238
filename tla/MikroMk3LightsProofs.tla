------------------------- MODULE MikroMk3LightsProofs -------------------------
(***************************************************************************)
(* What MikroMk3Lights guarantees for every limit and every set of images. *)
(***************************************************************************)
EXTENDS MikroMk3Lights, TLAPS

\* What the device shows is the last of the writes in flight that reached it.
HwIsSent == sent > 0 => hw = images[sent]

\* While the device is open, connect's two screen writes are all there are.
ScreenBounded == phase = "open" => screens <= 2

\* Once disconnect has queued the dark image, it is the last thing the device
\* will be sent, or what it shows.
DarkIsLast ==
  off /\ ~banished =>
    /\ phase # "open"
    /\ phase = "closing" => IF images = <<>> THEN hw = Dark
                             ELSE images[Len(images)] = Dark

IInv == TypeOK /\ HwIsSent /\ ScreenBounded /\ DarkIsLast /\ DarkWhenClosed

\* The inductive invariant holds initially.
LEMMA InitIInv == Init => IInv
<1> SUFFICES ASSUME Init PROVE IInv
  OBVIOUS
<1>1. images \in Seq(Images) /\ Len(images) = 0
  BY DEF Init
<1>2. lights \in Images /\ hw \in Images /\ sent \in 0..Len(images)
  BY <1>1, ImagesAssumption DEF Init
<1>3. screens \in Nat /\ screens <= 2 /\ Len(images) + screens <= WriteMax
  BY <1>1, LimitAssumption DEF Init
<1>4. TypeOK
  BY <1>1, <1>2, <1>3 DEF Init, TypeOK
<1>5. HwIsSent
  BY DEF Init, HwIsSent
<1>6. ScreenBounded
  BY <1>3, LimitAssumption DEF Init, ScreenBounded
<1>7. DarkIsLast
  BY DEF Init, DarkIsLast
<1>8. DarkWhenClosed
  BY DEF Init, DarkWhenClosed
<1> QED BY <1>4, <1>5, <1>6, <1>7, <1>8 DEF IInv

\* Appending to a sequence: length, elements, type.
LEMMA AppendShape ==
  ASSUME NEW s \in Seq(Images), NEW e \in Images
  PROVE  /\ Append(s, e) \in Seq(Images) /\ Append(s, e) # <<>>
         /\ Len(Append(s, e)) = Len(s) + 1
         /\ Append(s, e)[Len(s) + 1] = e
         /\ \A n \in 1..Len(s) : Append(s, e)[n] = s[n]
  OBVIOUS

\* Dropping the front of a sequence: length, elements, type.
LEMMA TailShape ==
  ASSUME NEW s \in Seq(Images), s # <<>>
  PROVE  /\ Tail(s) \in Seq(Images) /\ Len(Tail(s)) = Len(s) - 1
         /\ Len(s) \in Nat \ {0}
         /\ \A n \in 1..(Len(s) - 1) : Tail(s)[n] = s[n + 1]
         /\ Head(s) = s[1] /\ s[1] \in Images
  OBVIOUS

\* A sequence of more than one keeps something when its front goes.
LEMMA TailNonEmpty ==
  ASSUME NEW s \in Seq(Images), s # <<>>, Len(s) # 1
  PROVE  Tail(s) # <<>>
<1>1. Len(Tail(s)) # 0
  BY TailShape
<1>2. Len(<<>>) = 0
  OBVIOUS
<1> QED BY <1>1, <1>2

\* Every step preserves the inductive invariant.
LEMMA StepIInv == IInv /\ [Next]_vars => IInv'
<1> SUFFICES ASSUME IInv, [Next]_vars PROVE IInv'
  OBVIOUS
<1> USE ImagesAssumption, LimitAssumption
<1>0. Len(images) \in Nat /\ images \in Seq(Images)
  BY DEF IInv, TypeOK
<1>1. ASSUME NEW img \in Images, LightSet(img) PROVE IInv'
  BY <1>1 DEF IInv, TypeOK, HwIsSent, ScreenBounded, DarkIsLast, DarkWhenClosed,
              LightSet, wires, ending
<1>2. ASSUME NEW force \in BOOLEAN, LightFlush(force) PROVE IInv'
  <2>1. CASE HasRoom
    <3>1. images' = Append(images, lights) /\ dirty' = FALSE
      BY <1>2, <2>1 DEF LightFlush, Flushed
    <3>2. TypeOK'
      <4>1. images' \in Seq(Images) /\ Len(images') = Len(images) + 1
        BY <1>0, <3>1, AppendShape DEF IInv, TypeOK
      <4>2. Len(images') + screens' <= WriteMax
        BY <1>0, <1>2, <2>1, <4>1 DEF IInv, TypeOK, LightFlush, HasRoom
      <4>3. sent' \in 0..Len(images')
        BY <1>0, <1>2, <4>1 DEF IInv, TypeOK, LightFlush
      <4>4. dirty' \in BOOLEAN
        BY <3>1
      <4> QED
        BY <1>2, <4>1, <4>2, <4>3, <4>4 DEF IInv, TypeOK, LightFlush, ending
    <3>3. HwIsSent'
      BY <1>0, <1>2, <3>1, AppendShape DEF IInv, TypeOK, HwIsSent, LightFlush
    <3>4. (ScreenBounded /\ DarkIsLast /\ DarkWhenClosed)'
      BY <1>2 DEF IInv, ScreenBounded, DarkIsLast, DarkWhenClosed, LightFlush, ending
    <3> QED BY <3>2, <3>3, <3>4 DEF IInv
  <2>2. CASE ~HasRoom
    BY <1>2, <2>2
    DEF IInv, TypeOK, HwIsSent, ScreenBounded, DarkIsLast, DarkWhenClosed,
        LightFlush, Flushed, ending
  <2> QED BY <2>1, <2>2
<1>3. CASE Wire
  BY <1>0, <1>3
  DEF IInv, TypeOK, HwIsSent, ScreenBounded, DarkIsLast, DarkWhenClosed,
      Wire, ending
<1>4. CASE WireFails
  <2>1. CASE images # <<>> /\ images' = Tail(images) /\ screens' = screens
             /\ sent' = IF sent = 0 THEN 0 ELSE sent - 1
    BY <1>0, <1>4, <2>1, TailShape
    DEF IInv, TypeOK, HwIsSent, ScreenBounded, DarkIsLast, DarkWhenClosed,
        WireFails, ending
  <2>2. CASE screens > 0 /\ screens' = screens - 1 /\ UNCHANGED <<images, sent>>
    BY <1>0, <1>4, <2>2
    DEF IInv, TypeOK, HwIsSent, ScreenBounded, DarkIsLast, DarkWhenClosed,
        WireFails, ending
  <2> QED BY <1>4, <2>1, <2>2 DEF WireFails
<1>5. CASE Report
  <2>1. images # <<>> /\ sent > 0 /\ sent <= Len(images)
    BY <1>5 DEF Report, IInv, TypeOK
  <2>2. (TypeOK /\ HwIsSent /\ ScreenBounded /\ DarkWhenClosed)'
    BY <1>0, <1>5, <2>1, TailShape
    DEF IInv, TypeOK, HwIsSent, ScreenBounded, DarkWhenClosed, Report, ending
  <2>3. DarkIsLast'
    <3>1. CASE Len(images) = 1
      BY <1>0, <1>5, <2>1, <3>1, TailShape
      DEF IInv, TypeOK, HwIsSent, DarkIsLast, Report, ending
    <3>2. CASE Len(images) # 1
      <4>1. images' = Tail(images) /\ images' # <<>>
        BY <1>0, <1>5, <2>1, <3>2, TailNonEmpty DEF Report
      <4>2. images'[Len(images')] = images[Len(images)]
        BY <1>0, <2>1, <3>2, <4>1, TailShape
      <4> QED BY <1>5, <2>1, <4>1, <4>2 DEF IInv, DarkIsLast, Report, ending
    <3> QED BY <3>1, <3>2
  <2> QED BY <2>2, <2>3 DEF IInv
<1>6. CASE ScreenDone
  BY <1>0, <1>6
  DEF IInv, TypeOK, HwIsSent, ScreenBounded, DarkIsLast, DarkWhenClosed,
      ScreenDone, ending
<1>7. CASE Disconnect
  <2>1. CASE banished
    BY <1>0, <1>7, <2>1
    DEF IInv, TypeOK, HwIsSent, ScreenBounded, DarkIsLast, DarkWhenClosed,
        Disconnect
  <2>2. CASE ~banished /\ off'
    <3>1. HasRoom /\ images' = Append(images, Dark) /\ dirty' = FALSE
      BY <1>7, <2>2 DEF Disconnect, Flushed
    <3>0. off' = TRUE
      BY <1>7, <2>2 DEF Disconnect, HasRoom
    <3>2. /\ images' \in Seq(Images) /\ Len(images') = Len(images) + 1
          /\ images' # <<>> /\ images'[Len(images')] = Dark
          /\ \A n \in 1..Len(images) : images'[n] = images[n]
      BY <1>0, <3>1, AppendShape DEF IInv, TypeOK
    <3>3. screens' \in Nat /\ Len(images') + screens' <= WriteMax
      BY <1>0, <1>7, <2>2, <3>2 DEF Disconnect, Blit, IInv, TypeOK
    <3>4. TypeOK'
      <4>1. sent' \in 0..Len(images')
        BY <1>0, <1>7, <3>2 DEF Disconnect, IInv, TypeOK
      <4>2. lights' = Dark /\ phase' = "closing" /\ hw' = hw
        BY <1>7 DEF Disconnect
      <4>3. dirty' \in BOOLEAN /\ banished' = banished /\ drained' = drained
        BY <1>7, <3>1 DEF Disconnect
      <4>4. off' \in BOOLEAN
        BY <3>0
      <4> QED
        BY <3>2, <3>3, <4>1, <4>2, <4>3, <4>4 DEF IInv, TypeOK
    <3>5. HwIsSent'
      BY <1>7, <3>2 DEF Disconnect, IInv, TypeOK, HwIsSent
    <3>6. (ScreenBounded /\ DarkIsLast /\ DarkWhenClosed)'
      BY <1>7, <3>2 DEF Disconnect, ScreenBounded, DarkIsLast, DarkWhenClosed
    <3> QED BY <3>4, <3>5, <3>6 DEF IInv
  <2>3. CASE ~banished /\ ~off'
    <3>1. images' = images /\ dirty' \in BOOLEAN /\ off' = FALSE
      <4>1. CASE Flushed(Dark) /\ off' = HasRoom
        <5>1. ~HasRoom
          BY <2>3, <4>1
        <5>2. HasRoom \in BOOLEAN
          BY DEF HasRoom
        <5>3. off' = FALSE
          BY <4>1, <5>1, <5>2
        <5> QED BY <4>1, <5>1, <5>3 DEF Flushed
      <4>2. CASE dirty' = TRUE /\ off' = FALSE /\ UNCHANGED images
        BY <4>2
      <4> QED BY <1>7, <2>3, <4>1, <4>2 DEF Disconnect
    <3>2. screens' \in Nat /\ Len(images') + screens' <= WriteMax
      BY <1>0, <1>7, <2>3, <3>1 DEF Disconnect, Blit, IInv, TypeOK
    <3>3. TypeOK'
      BY <1>0, <1>7, <3>1, <3>2 DEF Disconnect, IInv, TypeOK
    <3> QED
      BY <1>7, <3>1, <3>3
      DEF Disconnect, IInv, HwIsSent, ScreenBounded, DarkIsLast, DarkWhenClosed
  <2> QED BY <2>1, <2>2, <2>3
<1>8. CASE CloseDone
  BY <1>0, <1>8
  DEF IInv, TypeOK, HwIsSent, ScreenBounded, DarkIsLast, DarkWhenClosed,
      CloseDone
<1>9. CASE UNCHANGED vars
  BY <1>9
  DEF IInv, TypeOK, HwIsSent, ScreenBounded, DarkIsLast, DarkWhenClosed,
      vars, wires, ending
<1> QED
  BY <1>1, <1>2, <1>3, <1>4, <1>5, <1>6, <1>7, <1>8, <1>9 DEF Next

\* The inductive invariant holds in every reachable state.
THEOREM Inductive == Spec => []IInv
  BY InitIInv, StepIInv, PTL DEF Spec

\* Every variable keeps its type and the writes in flight keep to the limit.
THEOREM TypeCorrect == Spec => []TypeOK
<1>1. IInv => TypeOK
  BY DEF IInv
<1> QED BY Inductive, <1>1, PTL

\* When usb_close has waited for the last write of an orderly disconnect, the
\* lights are off, however many images were in flight before.
THEOREM DarkAtClose == Spec => []DarkWhenClosed
<1>1. IInv => DarkWhenClosed
  BY DEF IInv
<1> QED BY Inductive, <1>1, PTL

\* One step keeps a clean flag truthful.
LEMMA StepNotLost == IInv /\ NotLost /\ [Next]_vars => NotLost'
<1> SUFFICES ASSUME IInv, NotLost, [Next]_vars PROVE NotLost'
  OBVIOUS
<1> USE ImagesAssumption, LimitAssumption
<1>0. Len(images) \in Nat /\ images \in Seq(Images)
  BY DEF IInv, TypeOK
<1>1. ASSUME NEW img \in Images, LightSet(img) PROVE NotLost'
  BY <1>1 DEF NotLost, LightSet, wires, ending
<1>2. ASSUME NEW force \in BOOLEAN, LightFlush(force) PROVE NotLost'
  <2>1. CASE HasRoom
    BY <1>0, <1>2, <2>1, AppendShape DEF LightFlush, Flushed, NotLost, IInv, TypeOK
  <2>2. CASE ~HasRoom
    <3>1. images # <<>>
      BY <1>0, <1>2, <2>2
      DEF LightFlush, HasRoom, IInv, ScreenBounded, TypeOK
    <3> QED BY <1>2, <2>2, <3>1 DEF LightFlush, Flushed, NotLost
  <2> QED BY <2>1, <2>2
<1>3. CASE Wire
  BY <1>0, <1>3 DEF NotLost, Wire, ending, IInv, TypeOK
<1>4. CASE WireFails
  BY <1>4 DEF NotLost, WireFails
<1>5. CASE Report
  <2>1. images # <<>> /\ sent > 0 /\ sent <= Len(images)
    BY <1>5 DEF Report, IInv, TypeOK
  <2>2. CASE Len(images) = 1
    <3>1. hw = Head(images)
      BY <1>0, <2>1, <2>2, TailShape DEF IInv, TypeOK, HwIsSent
    <3>2. dirty \in BOOLEAN
      BY DEF IInv, TypeOK
    <3> QED BY <1>5, <3>1, <3>2 DEF NotLost, Report, ending
  <2>3. CASE Len(images) # 1
    <3>1. Tail(images) # <<>>
      BY <1>0, <2>1, <2>3, TailNonEmpty
    <3> QED BY <1>5, <3>1 DEF NotLost, Report
  <2> QED BY <2>2, <2>3
<1>6. CASE ScreenDone
  BY <1>6 DEF NotLost, ScreenDone, ending
<1>7. CASE Disconnect
  BY <1>7 DEF NotLost, Disconnect
<1>8. CASE CloseDone
  BY <1>8 DEF NotLost, CloseDone
<1>9. CASE UNCHANGED vars
  BY <1>9 DEF NotLost, vars, wires, ending
<1> QED
  BY <1>1, <1>2, <1>3, <1>4, <1>5, <1>6, <1>7, <1>8, <1>9 DEF Next

\* No change of a light is lost silently, whatever the limit and however many
\* flushes are dropped at it.
THEOREM NoLightLost == Spec => []NotLost
<1>1. Init => NotLost
  BY DEF Init, NotLost
<1>2. IInv /\ NotLost /\ [Next]_vars => NotLost'
  BY StepNotLost
<1> QED BY <1>1, <1>2, Inductive, PTL DEF Spec
=============================================================================
