----------------------------- MODULE CtlraProofs -----------------------------
(***************************************************************************)
(* What Ctlra guarantees for every set of units, models and drivers: the   *)
(* device lists, banishing, ctlra_exit, and the contract of CtlraSession.  *)
(***************************************************************************)
EXTENDS Ctlra, ListFacts

(***************************************************************************)
(* The list of devices                                                     *)
(***************************************************************************)

\* The device the walk of ctlra_exit goes on to: of the devices behind i none
\* is passed over.
LEMMA SuccessorShape ==
  ASSUME devList \in Seq(Nat), Sorted(devList), NEW i \in Range(devList)
  PROVE  /\ Successor(i) \in (Range(devList) \cup {0}) \ {i} \/ i = 0
         /\ \A j \in Range(devList) : i < j => Successor(i) # 0 /\ Successor(i) <= j
<1> DEFINE later == {b \in DOMAIN devList : b > 1 /\ devList[b - 1] = i}
<1>1. /\ Len(devList) \in Nat /\ DOMAIN devList = 1..Len(devList)
      /\ \A a \in 1..Len(devList) : devList[a] \in Nat /\ devList[a] \in Range(devList)
  BY RangeShape, ElementOfSeq
<1>2. Successor(i) = IF later = {} THEN 0 ELSE devList[CHOOSE b \in later : TRUE]
  BY DEF Successor
<1>3. PICK a \in 1..Len(devList) : devList[a] = i
  BY RangeShape
<1>4. ASSUME NEW b \in later PROVE b = a + 1 /\ b \in 1..Len(devList)
  <2>1. b \in 1..Len(devList) /\ b - 1 \in 1..Len(devList) /\ devList[b - 1] = i
    BY <1>1
  <2>2. ~(b - 1 < a) /\ ~(a < b - 1)
    BY <1>1, <1>3, <2>1 DEF Sorted
  <2> QED BY <1>1, <2>1, <2>2
<1>5. CASE later = {}
  <2>1. Successor(i) = 0
    BY <1>2, <1>5
  <2>2. ASSUME NEW j \in Range(devList), i < j PROVE FALSE
    <3>1. PICK c \in 1..Len(devList) : devList[c] = j
      BY RangeShape
    <3>2. ~(c < a) /\ c # a
      <4>1. devList[a] < devList[c] /\ devList[a] \in Nat /\ devList[c] \in Nat
        BY <1>1, <1>3, <2>2, <3>1
      <4>2. ~(devList[c] < devList[a]) /\ devList[c] # devList[a]
        BY <4>1
      <4> QED BY <1>1, <4>2 DEF Sorted
    <3>3. a + 1 \in DOMAIN devList /\ a + 1 > 1 /\ (a + 1) - 1 = a
      BY <1>1, <3>2
    <3>4. a + 1 \in later
      BY <1>3, <3>3
    <3> QED BY <1>5, <3>4
  <2> QED BY <1>1, <1>3, <2>1, <2>2
<1>6. CASE later # {}
  <2>1. (CHOOSE b \in later : TRUE) \in later
    BY <1>6
  <2>2. Successor(i) = devList[a + 1] /\ a + 1 \in 1..Len(devList)
    BY <1>2, <1>4, <1>6, <2>1
  <2>3. i < Successor(i) /\ Successor(i) \in Range(devList)
    BY <1>1, <1>3, <2>2 DEF Sorted
  <2>4. ASSUME NEW j \in Range(devList), i < j PROVE Successor(i) <= j
    <3>1. PICK c \in 1..Len(devList) : devList[c] = j
      BY RangeShape
    <3>2. ~(c < a) /\ c # a
      <4>1. devList[a] < devList[c] /\ devList[a] \in Nat /\ devList[c] \in Nat
        BY <1>1, <1>3, <2>4, <3>1
      <4>2. ~(devList[c] < devList[a]) /\ devList[c] # devList[a]
        BY <4>1
      <4> QED BY <1>1, <4>2 DEF Sorted
    <3>3. a + 1 < c \/ a + 1 = c
      BY <1>1, <3>2
    <3>4. CASE a + 1 = c
      BY <1>1, <2>2, <3>1, <3>4
    <3>5. CASE a + 1 < c
      <4>1. devList[a + 1] < devList[c]
        BY <1>1, <2>2, <3>5 DEF Sorted
      <4> QED BY <1>1, <2>2, <3>1, <4>1
    <3> QED BY <3>3, <3>4, <3>5
  <2>5. Successor(i) \in Nat /\ i \in Nat
    BY <1>1, <1>3, <2>2
  <2> QED BY <2>3, <2>4, <2>5
<1> QED BY <1>5, <1>6

(***************************************************************************)
(* The queue of hotplug events                                             *)
(***************************************************************************)
Events == {"arrived", "left"} \X Units
Arrivals(s) == {n \in DOMAIN s : s[n][1] = "arrived"}

\* The events in a queue can be counted.
LEMMA ArrivalsFinite ==
  ASSUME NEW s \in Seq(Events)
  PROVE  /\ IsFiniteSet(Arrivals(s)) /\ Cardinality(Arrivals(s)) \in Nat
         /\ Arrivals(s) \subseteq 1..Len(s)
<1>1. Arrivals(s) \in SUBSET (1..Len(s)) /\ Len(s) \in Nat
  BY DEF Arrivals
<1>2. IsFiniteSet(1..Len(s))
  BY <1>1, FS_Interval
<1>3. IsFiniteSet(Arrivals(s))
  BY <1>1, <1>2, FS_Subset
<1> QED BY <1>1, <1>3, FS_CardinalityType

\* Queueing an event adds it to the count if it is an arrival.
LEMMA ArrivalsAppend ==
  ASSUME NEW s \in Seq(Events), NEW e \in Events
  PROVE  /\ Append(s, e) \in Seq(Events)
         /\ Cardinality(Arrivals(Append(s, e))) =
              IF e[1] = "arrived" THEN Cardinality(Arrivals(s)) + 1
              ELSE Cardinality(Arrivals(s))
<1> DEFINE t == Append(s, e)
<1>1. /\ t \in Seq(Events) /\ Len(t) = Len(s) + 1 /\ Len(s) \in Nat
      /\ \A a \in 1..Len(s) : t[a] = s[a]
      /\ t[Len(s) + 1] = e
      /\ DOMAIN t = 1..(Len(s) + 1) /\ DOMAIN s = 1..Len(s)
  BY AppendProperties
<1> HIDE DEF t
<1>2. IsFiniteSet(Arrivals(s)) /\ Len(s) + 1 \notin Arrivals(s)
  BY <1>1, ArrivalsFinite
<1>3. CASE e[1] = "arrived"
  <2>1. Arrivals(t) = Arrivals(s) \cup {Len(s) + 1}
    BY <1>1, <1>3 DEF Arrivals
  <2>2. Cardinality(Arrivals(t)) = Cardinality(Arrivals(s)) + 1
    BY <1>2, <2>1, FS_AddElement
  <2> QED BY <1>1, <1>3, <2>2 DEF t
<1>4. CASE e[1] # "arrived"
  <2>1. Arrivals(t) = Arrivals(s)
    BY <1>1, <1>4 DEF Arrivals
  <2> QED BY <1>1, <1>4, <2>1 DEF t
<1> QED BY <1>3, <1>4

\* Handling the first event takes it out of the count.
LEMMA ArrivalsTail ==
  ASSUME NEW s \in Seq(Events), s # <<>>
  PROVE  /\ Tail(s) \in Seq(Events)
         /\ Cardinality(Arrivals(Tail(s))) =
              IF Head(s)[1] = "arrived" THEN Cardinality(Arrivals(s)) - 1
              ELSE Cardinality(Arrivals(s))
<1> DEFINE t == Tail(s)
           rest == Arrivals(s) \ {1}
           shift == [n \in Arrivals(t) |-> n + 1]
<1>1. /\ t \in Seq(Events) /\ Len(t) = Len(s) - 1 /\ Len(s) \in Nat \ {0}
      /\ \A a \in 1..Len(t) : t[a] = s[a + 1]
      /\ Head(s) = s[1]
      /\ DOMAIN t = 1..(Len(s) - 1) /\ DOMAIN s = 1..Len(s)
  BY HeadTailProperties, EmptySeq, LenProperties
<1> HIDE DEF t
<1>2. \A n \in 1..(Len(s) - 1) : n \in Arrivals(t) <=> n + 1 \in rest
  BY <1>1 DEF Arrivals
<1>3. Arrivals(t) \subseteq 1..(Len(s) - 1) /\ rest \subseteq 2..Len(s)
  BY <1>1 DEF Arrivals
<1>4. shift \in Bijection(Arrivals(t), rest)
  <2>1. shift \in [Arrivals(t) -> rest]
    BY <1>2, <1>3
  <2>2. \A a, b \in Arrivals(t) : shift[a] = shift[b] => a = b
    BY <1>1, <1>3
  <2>3. ASSUME NEW r \in rest PROVE \E n \in Arrivals(t) : shift[n] = r
    <3>1. r - 1 \in 1..(Len(s) - 1) /\ (r - 1) + 1 = r
      BY <1>1, <1>3
    <3>2. r - 1 \in Arrivals(t)
      BY <1>2, <3>1
    <3> QED BY <3>1, <3>2
  <2> QED BY <2>1, <2>2, <2>3
      DEF Bijection, Injection, IsInjective, Surjection
<1>5. IsFiniteSet(Arrivals(t)) /\ IsFiniteSet(Arrivals(s))
  BY <1>1, ArrivalsFinite
<1>6. ExistsBijection(Arrivals(t), rest)
  BY <1>4 DEF ExistsBijection
<1>7. Cardinality(rest) = Cardinality(Arrivals(t))
  BY <1>5, <1>6, FS_Bijection
<1>8. Cardinality(rest) = IF 1 \in Arrivals(s) THEN Cardinality(Arrivals(s)) - 1
                          ELSE Cardinality(Arrivals(s))
  BY <1>5, FS_RemoveElement
<1>9. 1 \in Arrivals(s) <=> Head(s)[1] = "arrived"
  BY <1>1 DEF Arrivals
<1> QED BY <1>1, <1>7, <1>8, <1>9 DEF t


(***************************************************************************)
(* The inductive invariant                                                 *)
(***************************************************************************)

\* The remove function of an instance has been called exactly if it has been
\* unlinked, and what has no number yet does not exist.
LifeInv ==
  \A i \in Ids :
    /\ inst[i].st = "unborn" <=> i > born
    /\ inst[i].removals = IF inst[i].st \in {"closing", "freed"} THEN 1 ELSE 0

\* Where the thread can be, and what it has on its stack there.
ControlInv ==
  /\ pc = "close" <=> closing # 0
  /\ pc = "close" => (ret = "exit" <=> exiting)
  /\ pc \in {"exit", "done"} => exiting
  /\ pc \in {"created", "probe", "app"} => ~exiting
  /\ mark <= born

\* Only poll puts devices on banished_list, and the same iteration empties it;
\* every serial device that is banished is on it.
BanInv ==
  /\ pc \notin {"update", "drain"} => banList = <<>>
  /\ \A i \in Linked : inst[i].kind = "serial" /\ inst[i].banished
                         => i \in Range(banList)

\* The walk of ctlra_exit has everything before it that was connected when it
\* began; its cursor may be freed under it, but is never a device in usb_close.
WalkInv ==
  exiting /\ pc \in {"exit", "close"} =>
    /\ \A i \in Linked : i <= mark => iter # 0 /\ iter <= i
    /\ iter # 0 => inst[iter].st \in {"linked", "freed"}

\* Probing and hotplug still have so many instances to make.
Pending ==
  CASE pc = "created" -> Cardinality(Drivers) + Cardinality(Virtual)
    [] pc = "probe" \/ (pc = "close" /\ ret = "probe") ->
         Cardinality(todo) + Cardinality(Virtual)
    [] OTHER -> 0

\* Every instance was made by a driver of the probe, by the virtual device or by
\* one arrival, so that MaxInst numbers are enough.
BudgetInv ==
  born + Pending + Cardinality(Arrivals(events))
    <= Cardinality(Drivers) + Cardinality(Virtual) + plugs

IInv ==
  /\ TypeOK /\ LifeInv /\ ControlInv /\ ListsHoldAlive /\ Sorted(devList)
  /\ BanInv /\ WalkInv /\ BudgetInv /\ ExitDisconnectsAll

(***************************************************************************)
(* Instances and dev_list                                                  *)
(***************************************************************************)

\* The part of the invariant that is about instances and dev_list alone.
DevInv ==
  /\ inst \in [Ids -> Instances] /\ born \in 0..MaxInst
  /\ devList \in Seq(Ids) /\ LifeInv
  /\ Linked = {i \in Ids : inst[i].st = "linked"}
  /\ NoDuplicates(devList) /\ Sorted(devList)

\* There are finitely many drivers, so there is a largest number.
LEMMA Bounds ==
  /\ Cardinality(Drivers) \in Nat /\ Cardinality(Virtual) \in Nat
  /\ MaxPlugs \in Nat /\ MaxInst \in Nat
  /\ MaxInst = Cardinality(Drivers) + Cardinality(Virtual) + MaxPlugs
  BY FiniteAssumption, PlugsAssumption, FS_CardinalityType DEF MaxInst

\* Lists of instances are lists of numbers.
LEMMA IdLists ==
  ASSUME NEW s \in Seq(Ids)
  PROVE  s \in Seq(Nat) /\ Range(s) \subseteq Ids
<1>1. Ids \subseteq Nat
  BY Bounds DEF Ids
<1> QED BY <1>1, SeqMonotonic, RangeOfSeq

\* The invariant has everything DevInv asks for.
LEMMA DevInvHolds == IInv => DevInv
  BY DEF IInv, DevInv, TypeOK, ListsHoldAlive

\* What Admit does: a new instance, last in dev_list if it was accepted.
LEMMA AdmitShape ==
  ASSUME DevInv, NEW m \in Models \cup SerialDrivers, NEW kind \in {"usb", "serial", "virtual"},
         NEW u \in Units \cup {None}, NEW accepted \in BOOLEAN, NEW st \in {"closing", "freed"},
         born < MaxInst, Admit(m, kind, u, accepted, st)
  PROVE  /\ DevInv'
         /\ born + 1 \in Ids /\ born' = born + 1 /\ banList' = banList
         /\ Linked' = IF accepted THEN Linked \cup {born + 1} ELSE Linked
         /\ \A i \in Ids : i # born + 1 => inst'[i] = inst[i]
         /\ inst[born + 1].st = "unborn" /\ born + 1 \notin Linked
         /\ inst'[born + 1].st = (IF accepted THEN "linked" ELSE st)
         /\ inst'[born + 1].kind = kind /\ ~inst'[born + 1].banished
         /\ inst'[born + 1].removals = (IF accepted THEN 0 ELSE 1)
<1> DEFINE new == NewInstance(m, kind, u, IF accepted THEN "linked" ELSE st)
<1>1. born + 1 \in Ids /\ born \in Nat /\ Ids \subseteq Nat
  BY Bounds DEF DevInv, Ids
<1>2. /\ new \in Instances /\ new.st = (IF accepted THEN "linked" ELSE st)
      /\ new.kind = kind /\ ~new.banished /\ new.removals = (IF accepted THEN 0 ELSE 1)
  <2> DEFINE st0 == IF accepted THEN "linked" ELSE st
  <2>1. (st0 = "linked") = accepted /\ st0 \in {"linked", "closing", "freed"}
    OBVIOUS
  <2> HIDE DEF st0
  <2>2. NewInstance(m, kind, u, st0) =
          [st |-> st0, model |-> m, unit |-> u, kind |-> kind, banished |-> FALSE,
           removals |-> IF st0 = "linked" THEN 0 ELSE 1, unexpected |-> FALSE]
    BY DEF NewInstance
  <2>3. new = NewInstance(m, kind, u, st0)
    BY DEF st0
  <2> HIDE DEF new
  <2>4. /\ new \in Instances /\ new.st = st0 /\ new.kind = kind
        /\ ~new.banished /\ new.removals = (IF accepted THEN 0 ELSE 1)
    BY <2>1, <2>2, <2>3 DEF Instances
  <2> QED BY <2>4 DEF st0
<1>3. inst' = [inst EXCEPT ![born + 1] = new] /\ born' = born + 1 /\ banList' = banList
  BY DEF Admit
<1> HIDE DEF new
<1>4. /\ inst' \in [Ids -> Instances] /\ born' \in 0..MaxInst
      /\ inst'[born + 1] = new
      /\ \A i \in Ids : i # born + 1 => inst'[i] = inst[i]
  BY <1>1, <1>2, <1>3, Bounds DEF DevInv
<1>5. inst[born + 1].st = "unborn" /\ born + 1 \notin Linked
  BY <1>1 DEF DevInv, LifeInv
<1>6. LifeInv'
  BY <1>1, <1>2, <1>3, <1>4 DEF LifeInv, DevInv
<1>7. devList \in Seq(Nat) /\ Linked = Range(devList)
  BY IdLists DEF DevInv, Linked
<1>8. CASE accepted
  <2>1. devList' = Append(devList, born + 1)
    BY <1>8 DEF Admit
  <2>2. devList' \in Seq(Ids)
    BY <1>1, <2>1, AppendProperties DEF DevInv
  <2>3. Linked' = Linked \cup {born + 1} /\ NoDuplicates(devList')
    BY <1>1, <1>5, <1>7, <2>1, AppendList DEF Linked, DevInv
  <2>4. \A y \in Linked : y < born + 1
    BY <1>1 DEF DevInv, LifeInv
  <2>5. Sorted(devList')
    BY <1>1, <1>7, <2>1, <2>4, AppendList DEF DevInv
  <2>6. Linked' = {i \in Ids : inst'[i].st = "linked"}
    BY <1>1, <1>2, <1>4, <1>8, <2>3 DEF DevInv
  <2>7. DevInv'
    BY <1>4, <1>6, <2>2, <2>3, <2>5, <2>6 DEF DevInv
  <2> QED BY <1>1, <1>2, <1>3, <1>4, <1>5, <1>8, <2>3, <2>7
<1>9. CASE ~accepted
  <2>1. devList' = devList /\ Linked' = Linked
    BY <1>9 DEF Admit, Linked
  <2>2. Linked' = {i \in Ids : inst'[i].st = "linked"}
    BY <1>1, <1>2, <1>4, <1>5, <1>9, <2>1 DEF DevInv
  <2>3. DevInv'
    BY <1>4, <1>6, <2>1, <2>2 DEF DevInv
  <2> QED BY <1>1, <1>2, <1>3, <1>4, <1>5, <1>9, <2>1, <2>3
<1> QED BY <1>8, <1>9

\* What disconnecting the instances of S does: they leave dev_list, and their
\* remove function has been called.
LEMMA UnlinkShape ==
  ASSUME DevInv, NEW S, S \subseteq Linked,
         inst' \in [Ids -> Instances], born' = born,
         \A i \in Ids \ S : inst'[i] = inst[i],
         \A i \in S : inst'[i].st \in {"closing", "freed"} /\ inst'[i].removals = 1,
         devList' = Only(devList, Linked \ S)
  PROVE  DevInv' /\ Linked' = Linked \ S
<1>1. devList \in Seq(Nat) /\ Linked = Range(devList) /\ Linked \subseteq Ids
  BY IdLists DEF DevInv, Linked
<1>2. Linked' = Linked \ S /\ NoDuplicates(devList') /\ Sorted(devList')
  BY <1>1, OnlyList DEF DevInv, Linked
<1>3. devList' \in Seq(Ids)
  BY OnlyShape DEF DevInv
<1>4. LifeInv'
  <2> SUFFICES ASSUME NEW i \in Ids
               PROVE  /\ inst'[i].st = "unborn" <=> i > born
                      /\ inst'[i].removals =
                           IF inst'[i].st \in {"closing", "freed"} THEN 1 ELSE 0
    BY DEF LifeInv
  <2>1. CASE i \in S
    <3>1. inst[i].st = "linked"
      BY <2>1 DEF DevInv
    <3> QED BY <2>1, <3>1 DEF DevInv, LifeInv
  <2>2. CASE i \notin S
    BY <2>2 DEF DevInv, LifeInv
  <2> QED BY <2>1, <2>2
<1>5. Linked' = {i \in Ids : inst'[i].st = "linked"}
  BY <1>1, <1>2 DEF DevInv
<1> QED BY <1>2, <1>3, <1>4, <1>5 DEF DevInv

\* Changing the banished flags of instances is all that TransferFails and a
\* failing poll do to them.
LEMMA BanishShape ==
  ASSUME DevInv, NEW S, S \subseteq Linked,
         inst' = [i \in Ids |-> IF i \in S THEN [inst[i] EXCEPT !.banished = TRUE]
                                ELSE inst[i]],
         born' = born, devList' = devList
  PROVE  /\ DevInv' /\ Linked' = Linked
         /\ \A i \in Ids : /\ inst'[i].st = inst[i].st /\ inst'[i].kind = inst[i].kind
                           /\ inst'[i].removals = inst[i].removals
                           /\ inst'[i].banished = (i \in S \/ inst[i].banished)
<1>1. Linked' = Linked
  BY DEF Linked
<1>2. \A i \in Ids : /\ inst'[i] \in Instances
                    /\ inst'[i].st = inst[i].st /\ inst'[i].kind = inst[i].kind
                    /\ inst'[i].removals = inst[i].removals
                    /\ inst'[i].banished = (i \in S \/ inst[i].banished)
  BY DEF DevInv, Instances
<1>3. inst' \in [Ids -> Instances]
  BY <1>2
<1>4. LifeInv' /\ Linked' = {i \in Ids : inst'[i].st = "linked"}
  BY <1>1, <1>2 DEF DevInv, LifeInv
<1> QED BY <1>1, <1>2, <1>3, <1>4 DEF DevInv

\* A step that leaves the instances and both lists alone.
LEMMA DevicesUnchanged ==
  ASSUME IInv, UNCHANGED devices
  PROVE  /\ DevInv /\ DevInv' /\ Linked' = Linked /\ LifeInv' /\ Sorted(devList)'
         /\ inst' = inst /\ born' = born /\ devList' = devList /\ banList' = banList
         /\ Linked \subseteq Ids
  BY DevInvHolds DEF DevInv, LifeInv, Linked, Sorted, NoDuplicates, devices

\* What the budget is made of are numbers.
LEMMA Counts ==
  ASSUME IInv
  PROVE  /\ born \in Nat /\ plugs \in Nat /\ Pending \in Nat
         /\ IsFiniteSet(todo) /\ Cardinality(todo) \in Nat
         /\ events \in Seq(Events) /\ Cardinality(Arrivals(events)) \in Nat
<1>1. IsFiniteSet(todo) /\ Cardinality(todo) \in Nat
  <2>1. todo \in SUBSET Drivers
    BY DEF IInv, TypeOK
  <2>2. IsFiniteSet(todo)
    BY <2>1, FiniteAssumption, FS_Subset
  <2> QED BY <2>2, FS_CardinalityType
<1>2. born \in Nat /\ plugs \in Nat
  BY Bounds DEF IInv, TypeOK
<1>3. Pending \in Nat
  BY <1>1, Bounds DEF Pending
<1>4. events \in Seq(Events)
  BY DEF IInv, TypeOK, Events
<1> QED BY <1>1, <1>2, <1>3, <1>4, ArrivalsFinite

(***************************************************************************)
(* One lemma per action: it preserves the inductive invariant              *)
(***************************************************************************)

\* Init ctlra_create's state satisfies it.
LEMMA InitIInv == Init => IInv
<1> SUFFICES ASSUME Init PROVE IInv
  OBVIOUS
<1>1. inst \in [Ids -> Instances] /\ \A i \in Ids : inst[i] = Unborn
  BY DEF Init, Unborn, Instances
<1>2. Ids \subseteq Nat \ {0} /\ 0 \in 0..MaxInst /\ 0 \in 0..MaxPlugs
  BY Bounds DEF Ids
<1>3. TypeOK
  <2>1. /\ plugged \subseteq Units /\ plugs \in 0..MaxPlugs
        /\ inst \in [Ids -> Instances] /\ born \in 0..MaxInst
        /\ mark \in 0..MaxInst /\ closing \in Ids \cup {0} /\ iter \in Ids \cup {0}
    BY <1>1, <1>2 DEF Init
  <2>2. /\ events \in Seq({"arrived", "left"} \X Units)
        /\ devList \in Seq(Ids) /\ banList \in Seq(Ids)
    BY EmptySeq DEF Init
  <2> QED BY <2>1, <2>2 DEF Init, TypeOK
<1>4. Linked = {} /\ Range(banList) = {} /\ NoDuplicates(devList) /\ NoDuplicates(banList)
      /\ Sorted(devList)
  BY DEF Init, Linked, Range, NoDuplicates, Sorted
<1>5. LifeInv
  BY <1>1, <1>2 DEF LifeInv, Unborn, Init
<1>6. ListsHoldAlive
  BY <1>1, <1>4 DEF ListsHoldAlive, Unborn, Init
<1>7. Arrivals(events) = {}
  BY DEF Init, Arrivals
<1>8. BudgetInv
  <2>1. Cardinality(Arrivals(events)) = 0
    BY <1>7, FS_EmptySet
  <2> QED BY <2>1, Bounds DEF Init, BudgetInv, Pending
<1>9. ControlInv /\ BanInv /\ WalkInv /\ ExitDisconnectsAll
  BY <1>4 DEF Init, ControlInv, BanInv, WalkInv, ExitDisconnectsAll
<1> QED BY <1>3, <1>4, <1>5, <1>6, <1>8, <1>9 DEF IInv

\* The cable only queues events.
LEMMA PlugKeeps ==
  ASSUME IInv, NEW u \in Units, Plug(u) \/ Unplug(u)
  PROVE  IInv'
<1>1. UNCHANGED <<devices, control, fed, ghosts>>
  BY DEF Plug, Unplug
<1>2. /\ events' \in Seq(Events) /\ plugs' \in 0..MaxPlugs /\ plugged' \subseteq Units
      /\ Cardinality(Arrivals(events')) \in Nat
      /\ Cardinality(Arrivals(events')) - plugs' <= Cardinality(Arrivals(events)) - plugs
  <2>1. CASE Plug(u)
    <3>1. /\ events' = Append(events, <<"arrived", u>>) /\ <<"arrived", u>> \in Events
          /\ plugs' = plugs + 1 /\ plugs < MaxPlugs /\ plugged' = plugged \cup {u}
      BY <2>1 DEF Plug, Events
    <3>2. /\ events' \in Seq(Events)
          /\ Cardinality(Arrivals(events')) = Cardinality(Arrivals(events)) + 1
      BY <3>1, Counts, ArrivalsAppend
    <3>3. plugs \in 0..MaxPlugs /\ plugged \subseteq Units
      BY DEF IInv, TypeOK
    <3>4. Cardinality(Arrivals(events)) \in Nat /\ plugs \in Nat /\ MaxPlugs \in Nat
      BY Counts, Bounds
    <3>5. plugs' \in 0..MaxPlugs
      BY <3>1, <3>3, <3>4
    <3>6. /\ Cardinality(Arrivals(events')) \in Nat
          /\ Cardinality(Arrivals(events')) - plugs' <= Cardinality(Arrivals(events)) - plugs
      BY <3>1, <3>2, <3>4
    <3> QED BY <3>1, <3>2, <3>3, <3>5, <3>6
  <2>2. CASE Unplug(u)
    <3>1. /\ events' = Append(events, <<"left", u>>) /\ <<"left", u>> \in Events
          /\ plugs' = plugs /\ plugged' = plugged \ {u}
      BY <2>2 DEF Unplug, Events
    <3>2. /\ events' \in Seq(Events)
          /\ Cardinality(Arrivals(events')) = Cardinality(Arrivals(events))
      BY <3>1, Counts, ArrivalsAppend
    <3>3. plugs \in 0..MaxPlugs /\ plugged \subseteq Units
      BY DEF IInv, TypeOK
    <3>4. Cardinality(Arrivals(events)) \in Nat /\ plugs \in Nat
      BY Counts
    <3> QED BY <3>1, <3>2, <3>3, <3>4
  <2> QED BY <2>1, <2>2
<1>4. TypeOK'
  BY <1>1, <1>2 DEF IInv, TypeOK, devices, control, ghosts, Events
<1>5. BudgetInv'
  <2>1. Pending' = Pending /\ born' = born
    BY <1>1 DEF Pending, control, devices
  <2>2. born + Pending + Cardinality(Arrivals(events))
          <= Cardinality(Drivers) + Cardinality(Virtual) + plugs
    BY DEF IInv, BudgetInv
  <2>3. /\ born \in Nat /\ Pending \in Nat /\ plugs \in Nat /\ plugs' \in Nat
        /\ Cardinality(Arrivals(events)) \in Nat
        /\ Cardinality(Drivers) \in Nat /\ Cardinality(Virtual) \in Nat
    BY <1>2, Counts, Bounds
  <2>4. /\ Cardinality(Arrivals(events')) \in Nat
        /\ Cardinality(Arrivals(events')) - plugs' <= Cardinality(Arrivals(events)) - plugs
    BY <1>2
  <2>5. born + Pending + Cardinality(Arrivals(events'))
          <= Cardinality(Drivers) + Cardinality(Virtual) + plugs'
    BY <2>2, <2>3, <2>4
  <2> QED BY <2>1, <2>5 DEF BudgetInv
<1> QED
  BY <1>1, <1>4, <1>5, DevicesUnchanged
  DEF IInv, ControlInv, ListsHoldAlive, BanInv, WalkInv, ExitDisconnectsAll,
      control, devices, ghosts, NoDuplicates, Linked, Range

\* The budget holds while nothing is plugged or made and nothing becomes pending.
LEMMA BudgetKept ==
  ASSUME IInv, UNCHANGED <<plugs, events, born>>, Pending' <= Pending, Pending' \in Nat
  PROVE  BudgetInv'
<1>1. born + Pending + Cardinality(Arrivals(events))
        <= Cardinality(Drivers) + Cardinality(Virtual) + plugs
  BY DEF IInv, BudgetInv
<1>2. /\ born \in Nat /\ Pending \in Nat /\ plugs \in Nat
      /\ Cardinality(Arrivals(events)) \in Nat
      /\ Cardinality(Drivers) \in Nat /\ Cardinality(Virtual) \in Nat
  BY Counts, Bounds
<1>3. born + Pending' + Cardinality(Arrivals(events))
        <= Cardinality(Drivers) + Cardinality(Virtual) + plugs
  BY <1>1, <1>2
<1> QED BY <1>3 DEF BudgetInv

\* The steps between the phases of an iteration touch no device.
LEMMA PhaseKeeps ==
  ASSUME IInv, Probe \/ IdleIter \/ UsbDone \/ UpdateAll \/ DrainDone \/ Exit \/ ExitDone
  PROVE  IInv'
<1>1. UNCHANGED <<cable, devices, closing, ret, ghosts>>
  BY DEF Probe, IdleIter, UsbDone, UpdateAll, DrainDone, Exit, ExitDone
<1>2. /\ DevInv /\ DevInv' /\ Linked' = Linked /\ LifeInv' /\ Sorted(devList)'
      /\ inst' = inst /\ born' = born /\ devList' = devList /\ banList' = banList
      /\ Linked \subseteq Ids
  BY <1>1, DevicesUnchanged
<1>3. devList # <<>> => Head(devList) \in Linked /\ \A i \in Linked : Head(devList) <= i
  <2> SUFFICES ASSUME devList # <<>>
               PROVE  Head(devList) \in Linked /\ \A i \in Linked : Head(devList) <= i
    OBVIOUS
  <2>1. devList \in Seq(Nat) /\ Len(devList) \in Nat \ {0} /\ Head(devList) = devList[1]
    BY <1>2, IdLists, EmptySeq DEF DevInv
  <2>2. Head(devList) \in Linked
    BY <2>1, RangeShape DEF Linked
  <2>3. ASSUME NEW i \in Linked PROVE Head(devList) <= i
    <3>1. PICK a \in 1..Len(devList) : devList[a] = i
      BY <2>1, RangeShape DEF Linked
    <3>2. /\ devList[1] \in Nat /\ i \in Nat /\ DOMAIN devList = 1..Len(devList)
          /\ a = 1 \/ devList[1] < devList[a]
      BY <1>2, <2>1, <3>1, RangeShape DEF DevInv, Sorted
    <3> QED BY <2>1, <3>1, <3>2
  <2> QED BY <2>2, <2>3
<1>4. TypeOK'
  <2>1. /\ pc' \in {"created", "probe", "app", "usb", "poll", "update", "drain",
                    "exit", "close", "done"}
        /\ todo' \subseteq Drivers /\ fed' \subseteq Ids /\ exiting' \in BOOLEAN
        /\ iter' \in Ids \cup {0} /\ mark' \in 0..MaxInst
    BY <1>2, <1>3
    DEF IInv, TypeOK, Probe, IdleIter, UsbDone, UpdateAll, DrainDone, Exit, ExitDone
  <2> QED BY <1>1, <2>1 DEF IInv, TypeOK, cable, devices, ghosts
<1>5. ListsHoldAlive'
  BY <1>1, <1>2 DEF IInv, ListsHoldAlive, NoDuplicates, Range
<1>6. ControlInv'
  BY <1>1, <1>2 DEF IInv, TypeOK, ControlInv, Probe, IdleIter, UsbDone, UpdateAll, DrainDone,
                  Exit, ExitDone
<1>7. BanInv'
  BY <1>1, <1>2 DEF IInv, BanInv, Range, Probe, IdleIter, UsbDone, UpdateAll, DrainDone,
                  Exit, ExitDone
<1>8. WalkInv'
  <2>1. CASE DrainDone
    <3> SUFFICES ASSUME exiting
                 PROVE  /\ \A i \in Linked : iter' # 0 /\ iter' <= i
                        /\ iter' # 0 => inst[iter'].st = "linked"
      BY <1>2, <2>1 DEF WalkInv, DrainDone
    <3>1. iter' = IF devList # <<>> THEN Head(devList) ELSE 0
      BY <2>1 DEF DrainDone
    <3>2. devList = <<>> => Linked = {}
      BY DEF Linked, Range
    <3>3. \A i \in Linked : i # 0 /\ inst[i].st = "linked"
      BY <1>2 DEF DevInv, Ids
    <3> QED BY <1>3, <3>1, <3>2, <3>3
  <2>2. CASE ~DrainDone
    BY <2>2
    DEF WalkInv, Probe, IdleIter, UsbDone, UpdateAll, Exit, ExitDone
  <2> QED BY <2>1, <2>2
<1>9. BudgetInv'
  <2>1. Pending' <= Pending /\ Pending' \in Nat
    BY <1>1, Counts, Bounds
    DEF IInv, ControlInv, Pending, Probe, IdleIter, UsbDone, UpdateAll, DrainDone,
        Exit, ExitDone
  <2> QED BY <1>1, <1>2, <2>1, BudgetKept DEF cable
<1>10. ExitDisconnectsAll'
  <2> SUFFICES ASSUME pc' = "done", NEW i \in 1..mark'
               PROVE  inst'[i].st = "freed" /\ inst'[i].removals = 1
    BY DEF ExitDisconnectsAll
  <2>1. pc = "exit" /\ iter = 0 /\ mark' = mark /\ exiting
    BY DEF Probe, IdleIter, UsbDone, UpdateAll, DrainDone, Exit, ExitDone, IInv, ControlInv
  <2>2. i \in Ids /\ i <= mark /\ ~(i > born)
    BY <2>1, Bounds DEF IInv, TypeOK, ControlInv, Ids
  <2>3. i \notin Linked
    BY <2>1, <2>2 DEF IInv, WalkInv
  <2>4. inst[i].st = "freed"
    BY <1>2, <2>1, <2>2, <2>3
    DEF IInv, TypeOK, Instances, LifeInv, ListsHoldAlive, ControlInv
  <2> QED BY <1>2, <2>2, <2>4 DEF IInv, LifeInv
<1> QED BY <1>2, <1>4, <1>5, <1>6, <1>7, <1>8, <1>9, <1>10 DEF IInv

\* A failed transfer marks the device of a USB driver, which no list is about.
LEMMA TransferFailsKeeps ==
  ASSUME IInv, NEW i \in Ids, TransferFails(i)
  PROVE  IInv'
<1>1. /\ UNCHANGED <<cable, born, devList, banList, control, ghosts>> /\ fed' = {}
      /\ inst[i].st = "linked" /\ inst[i].kind = "usb" /\ pc \in {"usb", "close"}
  BY DEF TransferFails, Handling
<1>2. DevInv /\ i \in Linked
  BY <1>1, DevInvHolds DEF DevInv
<1>3. inst' = [j \in Ids |-> IF j \in {i} THEN [inst[j] EXCEPT !.banished = TRUE] ELSE inst[j]]
  BY <1>2 DEF TransferFails, DevInv
<1>4. /\ DevInv' /\ Linked' = Linked
      /\ \A j \in Ids : /\ inst'[j].st = inst[j].st /\ inst'[j].kind = inst[j].kind
                        /\ inst'[j].removals = inst[j].removals
                        /\ inst'[j].banished = (j \in {i} \/ inst[j].banished)
  <2>1. born' = born /\ devList' = devList /\ {i} \subseteq Linked
    BY <1>1, <1>2
  <2> QED BY <1>2, <1>3, <2>1, BanishShape
<1>5. TypeOK' /\ ListsHoldAlive'
  <2>1. TypeOK'
    BY <1>1, <1>4 DEF IInv, TypeOK, DevInv, control, cable, ghosts
  <2>2. {j \in Ids : inst'[j].st = "closing"} = {j \in Ids : inst[j].st = "closing"}
    BY <1>4
  <2>3. ListsHoldAlive'
    BY <1>1, <1>4, <2>2 DEF IInv, DevInv, ListsHoldAlive, NoDuplicates, Range, control
  <2> QED BY <2>1, <2>3
<1>6. ControlInv' /\ ExitDisconnectsAll'
  BY <1>1 DEF IInv, ControlInv, ExitDisconnectsAll, control
<1>7. BanInv' /\ WalkInv'
  BY <1>1, <1>2, <1>4 DEF IInv, TypeOK, BanInv, WalkInv, DevInv, control
<1>8. BudgetInv'
  BY <1>1, Counts, BudgetKept DEF Pending, control, cable
<1> QED BY <1>4, <1>5, <1>6, <1>7, <1>8 DEF IInv, DevInv

\* usb_close returns: the device it was about is in no list any more.
LEMMA CloseDoneKeeps ==
  ASSUME IInv, CloseDone
  PROVE  IInv'
<1>1. /\ UNCHANGED <<cable, born, devList, banList, todo, ret, exiting, iter, mark, ghosts>>
      /\ pc = "close" /\ pc' = ret /\ closing' = 0 /\ fed' = {}
      /\ inst' = [inst EXCEPT ![closing].st = "freed"]
  BY DEF CloseDone
<1>2. DevInv /\ closing \in Ids /\ inst[closing].st = "closing" /\ ret \in {"probe", "exit"}
  BY <1>1, DevInvHolds DEF IInv, TypeOK, ControlInv, ListsHoldAlive
<1>3. /\ \A j \in Ids : inst'[j] \in Instances /\ inst'[j].kind = inst[j].kind
                        /\ inst'[j].removals = inst[j].removals
                        /\ inst'[j].banished = inst[j].banished
                        /\ inst'[j].st = IF j = closing THEN "freed" ELSE inst[j].st
      /\ inst' \in [Ids -> Instances]
  BY <1>1, <1>2 DEF DevInv, Instances
<1>4. Linked' = Linked
  BY <1>1 DEF Linked
<1>5. LifeInv' /\ Linked' = {j \in Ids : inst'[j].st = "linked"}
  BY <1>1, <1>2, <1>3, <1>4 DEF DevInv, LifeInv
<1>6. TypeOK' /\ ListsHoldAlive'
  <2>1. {j \in Ids : inst'[j].st = "closing"} = {}
    BY <1>2, <1>3 DEF IInv, ListsHoldAlive
  <2> QED
    BY <1>1, <1>2, <1>3, <1>4, <1>5, <2>1
    DEF IInv, TypeOK, ListsHoldAlive, NoDuplicates, Range, cable, ghosts
<1>7. ControlInv' /\ ExitDisconnectsAll'
  BY <1>1, <1>2 DEF IInv, ControlInv, ExitDisconnectsAll
<1>8. BanInv' /\ WalkInv'
  BY <1>1, <1>2, <1>3, <1>4 DEF IInv, TypeOK, ControlInv, BanInv, WalkInv, DevInv
<1>9. BudgetInv'
  <2>1. Pending' <= Pending /\ Pending' \in Nat
    BY <1>1, <1>2, Counts, Bounds DEF Pending
  <2> QED BY <1>1, <2>1, BudgetKept DEF cable
<1> QED BY <1>1, <1>5, <1>6, <1>7, <1>8, <1>9 DEF IInv, Sorted

\* Polling puts the serial devices that fail on banished_list, in dev_list's order.
LEMMA PollAllKeeps ==
  ASSUME IInv, PollAll
  PROVE  IInv'
<1>1. /\ UNCHANGED <<cable, born, devList, todo, closing, ret, exiting, iter, mark, ghosts>>
      /\ pc = "poll" /\ pc' = "update" /\ fed' = {}
  BY DEF PollAll
<1>2. PICK S \in SUBSET {i \in Linked : inst[i].kind = "serial" /\ ~inst[i].banished} :
        /\ inst' = [i \in Ids |-> IF i \in S THEN [inst[i] EXCEPT !.banished = TRUE]
                                  ELSE inst[i]]
        /\ banList' = banList \o Only(devList, S)
  BY DEF PollAll
<1>3. DevInv /\ banList = <<>> /\ S \subseteq Linked
  BY <1>1, DevInvHolds DEF IInv, BanInv
<1>4. /\ DevInv' /\ Linked' = Linked
      /\ \A j \in Ids : /\ inst'[j].st = inst[j].st /\ inst'[j].kind = inst[j].kind
                        /\ inst'[j].removals = inst[j].removals
                        /\ inst'[j].banished = (j \in S \/ inst[j].banished)
  BY <1>1, <1>2, <1>3, BanishShape
<1>5. /\ banList' \in Seq(Ids) /\ Range(banList') = S /\ NoDuplicates(banList')
  <2>1. Only(devList, S) \in Seq(Ids) /\ devList \in Seq(Nat)
    BY <1>3, IdLists, OnlyShape DEF DevInv
  <2>2. banList' = Only(devList, S)
    BY <1>2, <1>3, <2>1, ConcatEmptySeq
  <2>3. Range(Only(devList, S)) = S /\ NoDuplicates(Only(devList, S))
    BY <1>3, <2>1, OnlyList DEF DevInv, Linked
  <2> QED BY <2>1, <2>2, <2>3
<1>6. TypeOK'
  BY <1>1, <1>4, <1>5 DEF IInv, TypeOK, DevInv, cable, ghosts
<1>7. ListsHoldAlive'
  BY <1>1, <1>3, <1>4, <1>5 DEF IInv, ListsHoldAlive, DevInv
<1>8. ControlInv' /\ ExitDisconnectsAll' /\ WalkInv'
  BY <1>1 DEF IInv, ControlInv, ExitDisconnectsAll, WalkInv
<1>9. BanInv'
  <2>1. \A i \in Linked : inst[i].kind = "serial" => ~inst[i].banished
    BY <1>3 DEF IInv, BanInv, Range
  <2> QED BY <1>1, <1>3, <1>4, <1>5, <2>1 DEF BanInv, DevInv
<1>10. BudgetInv'
  BY <1>1, Counts, BudgetKept DEF Pending, cable
<1> QED BY <1>4, <1>6, <1>7, <1>8, <1>9, <1>10 DEF IInv, DevInv

\* ctlra_dev_disconnect of one device of dev_list.
LEMMA UnlinkOne ==
  ASSUME DevInv, NEW i \in Linked, NEW st \in {"closing", "freed"}, Unlink(i, st)
  PROVE  /\ DevInv' /\ Linked' = Linked \ {i} /\ born' = born /\ i \in Ids
         /\ \A j \in Ids \ {i} : inst'[j] = inst[j]
         /\ inst'[i].st = st /\ inst'[i].removals = 1
         /\ inst'[i].banished = inst[i].banished
<1>1. i \in Ids /\ inst[i] \in Instances /\ inst[i].st = "linked" /\ inst[i].removals = 0
  BY DEF DevInv, LifeInv
<1>2. /\ inst' = [inst EXCEPT ![i].st = st, ![i].removals = @ + 1,
                              ![i].unexpected = inst[i].banished]
      /\ devList' = Only(devList, Linked \ {i}) /\ born' = born
  BY DEF Unlink
<1>3. /\ inst' \in [Ids -> Instances]
      /\ \A j \in Ids \ {i} : inst'[j] = inst[j]
      /\ inst'[i].st = st /\ inst'[i].removals = 1
      /\ inst'[i].banished = inst[i].banished
  BY <1>1, <1>2 DEF DevInv, Instances
<1>4. DevInv' /\ Linked' = Linked \ {i}
  <2>1. \A j \in {i} : inst'[j].st \in {"closing", "freed"} /\ inst'[j].removals = 1
    BY <1>3
  <2> QED BY <1>2, <1>3, <2>1, UnlinkShape
<1> QED BY <1>1, <1>2, <1>3, <1>4

\* Draining takes the first device off banished_list and disconnects it.
LEMMA DrainOneKeeps ==
  ASSUME IInv, DrainOne
  PROVE  IInv'
<1> DEFINE h == Head(banList)
<1>1. /\ UNCHANGED <<cable, control, ghosts>> /\ fed' = {} /\ pc = "drain"
      /\ banList # <<>> /\ banList' = Tail(banList) /\ Unlink(h, "freed")
  BY DEF DrainOne
<1>2. DevInv /\ banList \in Seq(Ids) /\ banList \in Seq(Nat)
  BY DevInvHolds, IdLists DEF IInv, TypeOK
<1>3. /\ h \in Linked /\ banList' \in Seq(Ids) /\ NoDuplicates(banList')
      /\ Range(banList') = Range(banList) \ {h}
  BY <1>1, <1>2, TailList, HeadTailProperties DEF IInv, ListsHoldAlive
<1> HIDE DEF h
<1>4. /\ DevInv' /\ Linked' = Linked \ {h} /\ born' = born /\ h \in Ids
      /\ \A j \in Ids \ {h} : inst'[j] = inst[j]
      /\ inst'[h].st = "freed" /\ inst'[h].removals = 1
  BY <1>1, <1>2, <1>3, UnlinkOne
<1>5. TypeOK'
  BY <1>1, <1>3, <1>4 DEF IInv, TypeOK, DevInv, control, cable, ghosts
<1>6. ListsHoldAlive'
  <2>1. {j \in Ids : inst'[j].st = "closing"} = {j \in Ids : inst[j].st = "closing"}
    BY <1>2, <1>3, <1>4 DEF DevInv
  <2> QED BY <1>1, <1>3, <1>4, <2>1 DEF IInv, ListsHoldAlive, DevInv, control
<1>7. ControlInv' /\ ExitDisconnectsAll' /\ WalkInv'
  BY <1>1, <1>4 DEF IInv, ControlInv, ExitDisconnectsAll, WalkInv, control
<1>8. BanInv'
  BY <1>1, <1>3, <1>4 DEF IInv, BanInv, DevInv, control
<1>9. BudgetInv'
  BY <1>1, <1>4, Counts, BudgetKept DEF Pending, control, cable
<1> QED BY <1>4, <1>5, <1>6, <1>7, <1>8, <1>9 DEF IInv, DevInv

\* One turn of ctlra_exit: the cursor moves on before its device is unlinked.
LEMMA ExitOneKeeps ==
  ASSUME IInv, ExitOne
  PROVE  IInv'
<1>1. /\ UNCHANGED <<cable, todo, exiting, mark, doubleClosed, banList>> /\ fed' = {}
      /\ pc = "exit" /\ iter # 0
  BY DEF ExitOne, devices
<1>2. /\ DevInv /\ iter \in Ids /\ inst[iter].st \in {"linked", "freed"} /\ exiting
      /\ banList = <<>> /\ closing = 0
  BY <1>1, DevInvHolds DEF IInv, TypeOK, ControlInv, WalkInv, BanInv
<1>3. CASE inst[iter].st = "freed"
  <2>1. crash' = "freedDev" /\ UNCHANGED <<devices, pc, closing, ret, iter>>
    BY <1>3 DEF ExitOne
  <2>2. DevInv' /\ Linked' = Linked /\ inst' = inst /\ born' = born /\ devList' = devList
    BY <2>1, DevicesUnchanged
  <2>3. TypeOK' /\ ListsHoldAlive'
    BY <1>1, <2>1, <2>2
    DEF IInv, TypeOK, ListsHoldAlive, NoDuplicates, Range, cable
  <2>4. ControlInv' /\ ExitDisconnectsAll' /\ BanInv' /\ WalkInv'
    BY <1>1, <2>1, <2>2
    DEF IInv, ControlInv, ExitDisconnectsAll, BanInv, Range, WalkInv
  <2>5. BudgetInv'
    BY <1>1, <2>1, <2>2, Counts, BudgetKept DEF Pending, cable
  <2> QED BY <2>2, <2>3, <2>4, <2>5 DEF IInv, DevInv
<1>4. CASE inst[iter].st = "linked"
  <2> DEFINE usb == inst[iter].kind = "usb"
  <2>1. /\ iter' = Successor(iter) /\ crash' = crash
        /\ Unlink(iter, IF usb THEN "closing" ELSE "freed")
        /\ usb => pc' = "close" /\ closing' = iter /\ ret' = "exit"
        /\ ~usb => UNCHANGED <<pc, closing, ret>>
    BY <1>4 DEF ExitOne
  <2>2. iter \in Linked /\ iter # 0 /\ Linked \subseteq Ids
    BY <1>2, <1>4 DEF DevInv, Ids
  <2>3. /\ DevInv' /\ Linked' = Linked \ {iter} /\ born' = born
        /\ \A j \in Ids \ {iter} : inst'[j] = inst[j]
        /\ inst'[iter].st = (IF usb THEN "closing" ELSE "freed")
        /\ inst'[iter].removals = 1
    BY <1>2, <2>1, <2>2, UnlinkOne
  <2>4. /\ iter' \in Linked' \cup {0}
        /\ \A j \in Linked : iter < j => iter' # 0 /\ iter' <= j
    <3>1. devList \in Seq(Nat) /\ iter \in Range(devList) /\ Sorted(devList)
      BY <1>2, <2>2, IdLists DEF DevInv, Linked
    <3> QED BY <2>1, <2>2, <2>3, <3>1, SuccessorShape DEF Linked
  <2>5. TypeOK'
    BY <1>1, <1>2, <2>1, <2>2, <2>3, <2>4 DEF IInv, TypeOK, DevInv, cable
  <2>6. ListsHoldAlive'
    <3>1. {j \in Ids : inst'[j].st = "closing"} = IF usb THEN {iter} ELSE {}
      BY <1>2, <2>2, <2>3 DEF IInv, ListsHoldAlive
    <3> QED BY <1>1, <1>2, <2>1, <2>2, <2>3, <3>1
            DEF IInv, ListsHoldAlive, DevInv, Range, NoDuplicates
  <2>7. ControlInv' /\ ExitDisconnectsAll'
    BY <1>1, <1>2, <2>1, <2>2, <2>3 DEF IInv, ControlInv, ExitDisconnectsAll
  <2>8. BanInv'
    BY <1>1, <1>2, <2>1, <2>2, <2>3 DEF IInv, BanInv
  <2>9. WalkInv'
    <3>1. \A j \in Linked' : j <= mark => iter < j
      <4> SUFFICES ASSUME NEW j \in Linked', j <= mark PROVE iter < j
        OBVIOUS
      <4>1. j \in Linked /\ j # iter /\ j \in 1..MaxInst /\ iter \in 1..MaxInst
        BY <2>2, <2>3 DEF Ids
      <4>2. iter <= j
        BY <1>1, <1>2, <4>1 DEF IInv, WalkInv
      <4> QED BY <4>1, <4>2, Bounds
    <3>2. iter' # 0 => inst'[iter'].st = "linked"
      BY <2>3, <2>4 DEF DevInv
    <3> QED BY <1>1, <2>3, <2>4, <3>1, <3>2 DEF WalkInv
  <2>10. BudgetInv'
    <3>1. Pending' <= Pending /\ Pending' \in Nat
      BY <1>1, <1>2, <2>1, Counts DEF Pending
    <3> QED BY <1>1, <2>3, <3>1, BudgetKept DEF cable
  <2> QED BY <2>3, <2>5, <2>6, <2>7, <2>8, <2>9, <2>10 DEF IInv, DevInv
<1> QED BY <1>2, <1>3, <1>4

\* A hotplug event is handled: the budget pays for one instance per arrival.
LEMMA EventHandled ==
  ASSUME IInv, events # <<>>, events' = Tail(events), plugs' = plugs, Pending' = Pending,
         born' = born \/ (Head(events)[1] = "arrived" /\ born' = born + 1)
  PROVE  events' \in Seq(Events) /\ BudgetInv'
<1>1. /\ born \in Nat /\ Pending \in Nat /\ plugs \in Nat
      /\ Cardinality(Arrivals(events)) \in Nat
      /\ Cardinality(Drivers) \in Nat /\ Cardinality(Virtual) \in Nat
  BY Counts, Bounds
<1>2. born + Pending + Cardinality(Arrivals(events))
        <= Cardinality(Drivers) + Cardinality(Virtual) + plugs
  BY DEF IInv, BudgetInv
<1>3. /\ events' \in Seq(Events)
      /\ Cardinality(Arrivals(events')) =
           IF Head(events)[1] = "arrived" THEN Cardinality(Arrivals(events)) - 1
           ELSE Cardinality(Arrivals(events))
  BY Counts, ArrivalsTail
<1>4. born' + Pending + Cardinality(Arrivals(events'))
        <= Cardinality(Drivers) + Cardinality(Virtual) + plugs
  <2>1. CASE born' = born
    BY <1>1, <1>2, <1>3, <2>1
  <2>2. CASE Head(events)[1] = "arrived" /\ born' = born + 1
    BY <1>1, <1>2, <1>3, <2>2
  <2> QED BY <2>1, <2>2
<1> QED BY <1>3, <1>4 DEF BudgetInv

\* While an arrival is queued there is a number left for its instance.
LEMMA RoomForArrival ==
  ASSUME IInv, events # <<>>, Head(events)[1] = "arrived"
  PROVE  born < MaxInst
<1>1. /\ born \in Nat /\ Pending \in Nat /\ plugs \in Nat /\ plugs <= MaxPlugs
      /\ MaxPlugs \in Nat /\ Cardinality(Arrivals(events)) \in Nat
      /\ Cardinality(Drivers) \in Nat /\ Cardinality(Virtual) \in Nat
      /\ MaxInst = Cardinality(Drivers) + Cardinality(Virtual) + MaxPlugs
  BY Counts, Bounds DEF IInv, TypeOK
<1>2. born + Pending + Cardinality(Arrivals(events))
        <= Cardinality(Drivers) + Cardinality(Virtual) + plugs
  BY DEF IInv, BudgetInv
<1>3. Cardinality(Arrivals(Tail(events))) = Cardinality(Arrivals(events)) - 1
  BY Counts, ArrivalsTail
<1>4. Cardinality(Arrivals(Tail(events))) \in Nat
  BY Counts, ArrivalsTail, ArrivalsFinite
<1>5. Cardinality(Arrivals(events)) >= 1
  BY <1>1, <1>3, <1>4
<1> QED BY <1>1, <1>2, <1>5

\* What a disconnection inside a callback makes of an instance.
Freed(r, told) == [r EXCEPT !.st = "freed", !.removals = @ + 1,
                            !.banished = told, !.unexpected = told]
LEMMA FreedShape ==
  ASSUME NEW r \in Instances, r.removals = 0, NEW told \in BOOLEAN
  PROVE  /\ Freed(r, told) \in Instances /\ Freed(r, told).st = "freed"
         /\ Freed(r, told).removals = 1 /\ Freed(r, told).kind = r.kind
<1>1. /\ Freed(r, told).st = "freed" /\ Freed(r, told).removals = 1
      /\ Freed(r, told).kind = r.kind
  BY DEF Instances, Freed
<1>2. ASSUME NEW n \in 0..1
      PROVE  [r EXCEPT !.st = "freed", !.removals = n,
                       !.banished = told, !.unexpected = told] \in Instances
  <2> DEFINE h == [r EXCEPT !.st = "freed", !.removals = n]
  <2>1. h \in Instances
    BY DEF Instances
  <2>2. [h EXCEPT !.banished = told, !.unexpected = told] \in Instances
    <3> HIDE DEF h
    <3> QED BY <2>1 DEF Instances
  <2> QED BY <2>2 DEF Instances
<1>3. r.removals + 1 \in 0..1
  OBVIOUS
<1> QED BY <1>1, <1>2, <1>3 DEF Freed

\* A device left: all instances of its model are disconnected in one callback.
LEMMA LeftKeeps ==
  ASSUME IInv, NEW u \in Units, Left(u)
  PROVE  IInv'
<1> DEFINE m == ModelOf[u]
           quirk == m \in LeftQuirk
           told == [i \in Ids |-> IF quirk /\ i = First(m) THEN inst[i].banished ELSE TRUE]
<1>1. /\ UNCHANGED <<plugged, plugs, control, doubleClosed>> /\ fed' = {}
      /\ events # <<>> /\ Head(events) = <<"left", u>> /\ events' = Tail(events)
      /\ pc \in {"usb", "close"} /\ crash = "no"
  BY DEF Left, Handling, Running
<1>2. DevInv /\ banList = <<>>
  BY <1>1, DevInvHolds DEF IInv, BanInv
<1>3. \/ crash' = "nullDeref" /\ UNCHANGED devices
      \/ /\ inst' = Disconnected(Matching(m), told)
         /\ devList' = Only(devList, Linked \ Matching(m))
         /\ UNCHANGED <<born, banList, crash>>
  BY DEF Left
<1> HIDE DEF told
<1>4. /\ DevInv' /\ Linked' \subseteq Linked /\ born' = born /\ banList' = banList
      /\ \A i \in Ids : \/ inst'[i] = inst[i]
                        \/ inst[i].st = "linked" /\ inst'[i].st = "freed"
                           /\ inst'[i].kind = inst[i].kind
      /\ \A i \in Linked' : inst'[i] = inst[i]
      /\ crash' \in {"no", "nullDeref"}
  <2>1. CASE crash' = "nullDeref" /\ UNCHANGED devices
    <3>1. DevInv' /\ Linked' = Linked /\ Linked \subseteq Ids
      BY <2>1, DevicesUnchanged
    <3> QED BY <2>1, <3>1 DEF devices
  <2>2. CASE /\ inst' = Disconnected(Matching(m), told)
             /\ devList' = Only(devList, Linked \ Matching(m))
             /\ UNCHANGED <<born, banList, crash>>
    <3>1. Matching(m) \subseteq Linked /\ Linked \subseteq Ids
      BY <1>2 DEF Matching, DevInv
    <3>2. \A i \in Ids : told[i] \in BOOLEAN
      BY <1>2 DEF told, DevInv, Instances
    <3>3. \A i \in Ids \ Matching(m) : inst'[i] = inst[i]
      BY <2>2 DEF Disconnected
    <3>4. ASSUME NEW i \in Matching(m)
          PROVE  /\ inst'[i] \in Instances /\ inst'[i].st = "freed" /\ inst'[i].removals = 1
                 /\ inst'[i].kind = inst[i].kind /\ inst[i].st = "linked"
      <4>1. /\ i \in Ids /\ inst[i] \in Instances /\ inst[i].removals = 0
            /\ inst[i].st = "linked" /\ told[i] \in BOOLEAN
        BY <1>2, <3>1, <3>2 DEF DevInv, LifeInv
      <4>2. inst'[i] = Freed(inst[i], told[i])
        BY <2>2, <4>1 DEF Disconnected, Freed
      <4> QED BY <4>1, <4>2, FreedShape
    <3>5. inst' \in [Ids -> Instances]
      <4>1. \A i \in Ids : inst'[i] \in Instances
        BY <1>2, <3>3, <3>4 DEF DevInv
      <4>2. inst' = [i \in Ids |-> inst'[i]]
        BY <2>2 DEF Disconnected
      <4> QED BY <4>1, <4>2
    <3>6. DevInv' /\ Linked' = Linked \ Matching(m)
      <4>1. born' = born
        BY <2>2
      <4>2. \A i \in Matching(m) :
              inst'[i].st \in {"closing", "freed"} /\ inst'[i].removals = 1
        BY <3>4
      <4> QED BY <1>2, <2>2, <3>1, <3>3, <3>5, <4>1, <4>2, UnlinkShape
    <3> QED BY <1>1, <2>2, <3>1, <3>3, <3>4, <3>6
  <2> QED BY <1>3, <2>1, <2>2
<1>5. TypeOK' /\ BudgetInv'
  <2>1. Pending' = Pending /\ Head(events)[1] = "left"
    BY <1>1 DEF Pending, control
  <2>2. events' \in Seq(Events) /\ BudgetInv'
    BY <1>1, <1>4, <2>1, EventHandled
  <2> QED BY <1>1, <1>4, <2>2 DEF IInv, TypeOK, DevInv, control, Events
<1>6. ListsHoldAlive'
  <2>1. {i \in Ids : inst'[i].st = "closing"} = {i \in Ids : inst[i].st = "closing"}
    BY <1>4
  <2>2. Range(banList') = {} /\ NoDuplicates(banList')
    BY <1>2, <1>4 DEF Range, NoDuplicates
  <2> QED BY <1>1, <1>4, <2>1, <2>2 DEF IInv, ListsHoldAlive, DevInv, control
<1>7. ControlInv' /\ ExitDisconnectsAll'
  BY <1>1, <1>4 DEF IInv, ControlInv, ExitDisconnectsAll, control
<1>8. BanInv' /\ WalkInv'
  BY <1>1, <1>2, <1>4 DEF IInv, BanInv, WalkInv, TypeOK, control, DevInv, Range
<1> QED BY <1>4, <1>5, <1>6, <1>7, <1>8 DEF IInv, DevInv

\* What may be plugged in is a unit with a model, and so is what may be opened.
LEMMA OpenableUnits ==
  ASSUME IInv, NEW m
  PROVE  Openable(m) \subseteq Units
  BY DEF Openable, IInv, TypeOK

\* A new device that is accepted, or freed at once, keeps everything but the
\* budget, wherever the thread is when it is made.
LEMMA AdmitKept ==
  ASSUME IInv, NEW m \in Models \cup SerialDrivers, NEW kind \in {"usb", "serial", "virtual"},
         NEW u \in Units \cup {None}, NEW accepted \in BOOLEAN,
         born < MaxInst, Admit(m, kind, u, accepted, "freed"),
         UNCHANGED <<closing, ret, exiting, iter, mark>>,
         pc \in {"probe", "usb", "close"}, pc' = pc \/ (pc = "probe" /\ pc' = "app")
  PROVE  /\ DevInv' /\ ListsHoldAlive' /\ ControlInv' /\ BanInv' /\ WalkInv'
         /\ ExitDisconnectsAll' /\ banList' = banList /\ born' = born + 1
<1>1. DevInv /\ banList = <<>> /\ "freed" \in {"closing", "freed"}
  BY DevInvHolds DEF IInv, BanInv
<1>2. /\ DevInv'
      /\ born + 1 \in Ids /\ born' = born + 1 /\ banList' = banList
      /\ Linked' = IF accepted THEN Linked \cup {born + 1} ELSE Linked
      /\ \A i \in Ids : i # born + 1 => inst'[i] = inst[i]
      /\ inst[born + 1].st = "unborn" /\ born + 1 \notin Linked
      /\ inst'[born + 1].st = (IF accepted THEN "linked" ELSE "freed")
      /\ ~inst'[born + 1].banished
  BY <1>1, AdmitShape
<1>3. ListsHoldAlive'
  <2>1. {i \in Ids : inst'[i].st = "closing"} = {i \in Ids : inst[i].st = "closing"}
    BY <1>2
  <2>2. Range(banList') = {} /\ NoDuplicates(banList')
    BY <1>1, <1>2 DEF Range, NoDuplicates
  <2> QED BY <1>2, <2>1, <2>2 DEF IInv, ListsHoldAlive, DevInv
<1>4. ControlInv'
  <2>1. mark <= born + 1
    BY Bounds DEF IInv, ControlInv, TypeOK
  <2> QED BY <1>2, <2>1 DEF IInv, ControlInv
<1>5. BanInv'
  BY <1>1, <1>2 DEF IInv, BanInv, DevInv, Range
<1>6. WalkInv'
  <2> SUFFICES ASSUME exiting, pc = "close"
               PROVE  /\ \A i \in Linked' : i <= mark => iter # 0 /\ iter <= i
                      /\ iter # 0 => inst'[iter].st \in {"linked", "freed"}
    BY DEF WalkInv, IInv, ControlInv
  <2>1. ~(born + 1 <= mark)
    BY Bounds DEF IInv, ControlInv, TypeOK
  <2>2. iter # 0 => iter # born + 1 /\ iter \in Ids
    BY <1>2 DEF IInv, WalkInv, TypeOK
  <2> QED BY <1>2, <2>1, <2>2 DEF IInv, WalkInv
<1>7. ExitDisconnectsAll'
  BY DEF ExitDisconnectsAll
<1> QED BY <1>2, <1>3, <1>4, <1>5, <1>6, <1>7

\* A device arrived: connected, refused or impossible to open.
LEMMA ArrivedKeeps ==
  ASSUME IInv, NEW u \in Units, Arrived(u)
  PROVE  IInv'
<1> DEFINE m == QuirkOf[ModelOf[u]]
<1>1. /\ UNCHANGED <<plugged, plugs, control>> /\ fed' = {} /\ pc \in {"usb", "close"}
      /\ events # <<>> /\ Head(events) = <<"arrived", u>> /\ events' = Tail(events)
      /\ crash' \in {"no", "doubleClose"} /\ doubleClosed' \in BOOLEAN
  BY DEF Arrived, Handling, Running, ghosts, IInv, TypeOK
<1>2. m \in Models
  BY UnitsAssumption
<1>3. \/ UNCHANGED devices
      \/ \E v \in Openable(m), accepted \in BOOLEAN : Admit(m, "usb", v, accepted, "freed")
  BY DEF Arrived
<1> HIDE DEF m
<1>4. Head(events)[1] = "arrived" /\ born < MaxInst /\ Pending' = Pending
  BY <1>1, RoomForArrival DEF Pending, control
<1>5. CASE UNCHANGED devices
  <2>1. DevInv' /\ Linked' = Linked /\ inst' = inst /\ born' = born /\ devList' = devList
        /\ banList' = banList
    BY <1>5, DevicesUnchanged
  <2>2. events' \in Seq(Events) /\ BudgetInv'
    BY <1>1, <1>4, <2>1, EventHandled
  <2>3. TypeOK' /\ ListsHoldAlive'
    BY <1>1, <2>1, <2>2
    DEF IInv, TypeOK, ListsHoldAlive, NoDuplicates, Range, control, Events
  <2>4. ControlInv' /\ BanInv' /\ WalkInv' /\ ExitDisconnectsAll'
    BY <1>1, <2>1
    DEF IInv, ControlInv, BanInv, Range, WalkInv, ExitDisconnectsAll, control
  <2> QED BY <2>1, <2>2, <2>3, <2>4 DEF IInv, DevInv
<1>6. ASSUME NEW v \in Openable(m), NEW accepted \in BOOLEAN,
             Admit(m, "usb", v, accepted, "freed")
      PROVE  IInv'
  <2>1. v \in Units \cup {None} /\ m \in Models \cup SerialDrivers
    BY <1>2, OpenableUnits
  <2>2. /\ DevInv' /\ ListsHoldAlive' /\ ControlInv' /\ BanInv' /\ WalkInv'
        /\ ExitDisconnectsAll' /\ banList' = banList /\ born' = born + 1
    <3>1. UNCHANGED <<closing, ret, exiting, iter, mark>> /\ pc' = pc
      BY <1>1 DEF control
    <3> QED BY <1>1, <1>4, <1>6, <2>1, <3>1, AdmitKept
  <2>3. events' \in Seq(Events) /\ BudgetInv'
    BY <1>1, <1>4, <2>2, EventHandled
  <2>4. TypeOK'
    BY <1>1, <2>2, <2>3 DEF IInv, TypeOK, DevInv, control, Events
  <2> QED BY <2>2, <2>3, <2>4 DEF IInv, DevInv
<1> QED BY <1>3, <1>5, <1>6

\* The budget holds after a probe step that makes one instance for what it
\* strikes off the pending ones, and there was a number left for it.
LEMMA BudgetSpent ==
  ASSUME IInv, UNCHANGED <<plugs, events>>, born' \in {born, born + 1},
         Pending' \in Nat, Pending' < Pending
  PROVE  born < MaxInst /\ BudgetInv'
<1>1. /\ born \in Nat /\ Pending \in Nat /\ plugs \in Nat /\ plugs <= MaxPlugs
      /\ MaxPlugs \in Nat /\ Cardinality(Arrivals(events)) \in Nat
      /\ Cardinality(Drivers) \in Nat /\ Cardinality(Virtual) \in Nat
      /\ MaxInst = Cardinality(Drivers) + Cardinality(Virtual) + MaxPlugs
  BY Counts, Bounds DEF IInv, TypeOK
<1>2. born + Pending + Cardinality(Arrivals(events))
        <= Cardinality(Drivers) + Cardinality(Virtual) + plugs
  BY DEF IInv, BudgetInv
<1>3. born < MaxInst
  BY <1>1, <1>2
<1>4. born' + Pending' + Cardinality(Arrivals(events))
        <= Cardinality(Drivers) + Cardinality(Virtual) + plugs
  BY <1>1, <1>2
<1> QED BY <1>3, <1>4 DEF BudgetInv

\* The driver with the virtual device comes last in the probe.
LEMMA ProbeVirtualKeeps ==
  ASSUME IInv, ProbeVirtual
  PROVE  IInv'
<1>1. /\ UNCHANGED <<cable, todo, closing, ret, exiting, iter, mark, ghosts>>
      /\ fed' = {} /\ pc = "probe" /\ todo = {} /\ pc' = "app"
  BY DEF ProbeVirtual
<1>2. \/ UNCHANGED devices
      \/ \E m \in Virtual, accepted \in BOOLEAN : Admit(m, "virtual", None, accepted, "freed")
  BY DEF ProbeVirtual, Answers
<1>3. Pending' = 0 /\ Pending = Cardinality(Virtual) /\ ~exiting
  <2>1. Cardinality(todo) = 0
    BY <1>1, FS_EmptySet
  <2> QED BY <1>1, <2>1, Bounds DEF Pending, IInv, ControlInv
<1>4. CASE UNCHANGED devices
  <2>1. DevInv' /\ Linked' = Linked /\ inst' = inst /\ born' = born /\ devList' = devList
        /\ banList' = banList
    BY <1>4, DevicesUnchanged
  <2>2. BudgetInv'
    BY <1>1, <1>3, <2>1, Counts, Bounds, BudgetKept DEF cable
  <2>3. TypeOK' /\ ListsHoldAlive'
    BY <1>1, <2>1
    DEF IInv, TypeOK, ListsHoldAlive, NoDuplicates, Range, cable, ghosts
  <2>4. ControlInv' /\ BanInv' /\ WalkInv' /\ ExitDisconnectsAll'
    BY <1>1, <1>3, <2>1
    DEF IInv, ControlInv, BanInv, Range, WalkInv, ExitDisconnectsAll
  <2> QED BY <2>1, <2>2, <2>3, <2>4 DEF IInv, DevInv
<1>5. ASSUME NEW m \in Virtual, NEW accepted \in BOOLEAN,
             Admit(m, "virtual", None, accepted, "freed")
      PROVE  IInv'
  <2>1. m \in Models \cup SerialDrivers /\ None \in Units \cup {None}
    BY DriversAssumption
  <2>2. Cardinality(Virtual) # 0
    BY FiniteAssumption, FS_EmptySet
  <2>3. born < MaxInst /\ BudgetInv'
    <3>1. born' = born + 1
      BY <1>5 DEF Admit
    <3>2. Pending' \in Nat /\ Pending' < Pending
      BY <1>3, <2>2, Bounds
    <3> QED BY <1>1, <3>1, <3>2, BudgetSpent DEF cable
  <2>4. /\ DevInv' /\ ListsHoldAlive' /\ ControlInv' /\ BanInv' /\ WalkInv'
        /\ ExitDisconnectsAll' /\ banList' = banList /\ born' = born + 1
    <3>1. UNCHANGED <<closing, ret, exiting, iter, mark>>
      BY <1>1
    <3> QED BY <1>1, <1>5, <2>1, <2>3, <3>1, AdmitKept
  <2>5. TypeOK'
    BY <1>1, <2>4 DEF IInv, TypeOK, DevInv, cable, ghosts
  <2> QED BY <2>3, <2>4, <2>5 DEF IInv, DevInv
<1> QED BY <1>2, <1>4, <1>5

\* A refused USB device is unlinked at once and closed outside any callback.
LEMMA RefusedKept ==
  ASSUME IInv, NEW m \in Models, NEW u \in Units, born < MaxInst, pc = "probe",
         Admit(m, "usb", u, FALSE, "closing"),
         UNCHANGED <<exiting, iter, mark>>,
         pc' = "close", closing' = born + 1, ret' = "probe"
  PROVE  /\ DevInv' /\ ListsHoldAlive' /\ ControlInv' /\ BanInv' /\ WalkInv'
         /\ ExitDisconnectsAll' /\ banList' = banList /\ born' = born + 1
         /\ born + 1 \in Ids
<1>1. DevInv /\ banList = <<>> /\ ~exiting /\ closing = 0
  BY DevInvHolds DEF IInv, BanInv, ControlInv
<1>2. /\ DevInv'
      /\ born + 1 \in Ids /\ born' = born + 1 /\ banList' = banList
      /\ Linked' = Linked
      /\ \A i \in Ids : i # born + 1 => inst'[i] = inst[i]
      /\ born + 1 \notin Linked
      /\ inst'[born + 1].st = "closing"
  <2>1. /\ "closing" \in {"closing", "freed"} /\ "usb" \in {"usb", "serial", "virtual"}
        /\ m \in Models \cup SerialDrivers /\ u \in Units \cup {None} /\ FALSE \in BOOLEAN
    OBVIOUS
  <2> QED BY <1>1, <2>1, AdmitShape
<1>3. ListsHoldAlive'
  <2>1. {i \in Ids : inst'[i].st = "closing"} = {born + 1}
    BY <1>1, <1>2 DEF IInv, ListsHoldAlive
  <2>2. Range(banList') = {} /\ NoDuplicates(banList')
    BY <1>1, <1>2 DEF Range, NoDuplicates
  <2>3. born + 1 # 0
    BY <1>2 DEF Ids
  <2> QED BY <1>2, <2>1, <2>2, <2>3 DEF ListsHoldAlive, DevInv
<1>4. ControlInv'
  <2>1. mark <= born + 1 /\ born + 1 # 0
    BY Bounds DEF IInv, ControlInv, TypeOK
  <2> QED BY <1>1, <1>2, <2>1 DEF ControlInv
<1>5. BanInv'
  BY <1>1, <1>2 DEF IInv, BanInv, DevInv, Range
<1>6. WalkInv' /\ ExitDisconnectsAll'
  BY <1>1 DEF WalkInv, ExitDisconnectsAll
<1> QED BY <1>2, <1>3, <1>4, <1>5, <1>6

\* One driver of the probe, with the device it finds or without.
LEMMA ProbeDriverKeeps ==
  ASSUME IInv, NEW m \in Drivers, ProbeDriver(m)
  PROVE  IInv'
<1> DEFINE kind == IF m \in UsbDrivers THEN "usb" ELSE "serial"
           found == IF m \in UsbDrivers THEN Openable(m) ELSE {None}
<1>1. /\ UNCHANGED <<cable, exiting, iter, mark, ghosts>>
      /\ fed' = {} /\ pc = "probe" /\ m \in todo /\ todo' = todo \ {m}
  BY DEF ProbeDriver
<1>2. \/ UNCHANGED <<devices, pc, closing, ret>>
      \/ \E u \in found, accepted \in BOOLEAN : ProbeAdmit(m, kind, u, accepted)
  BY DEF ProbeDriver, Answers
<1>3. /\ Cardinality(todo') \in Nat /\ Cardinality(todo') < Cardinality(todo)
      /\ todo' \subseteq Drivers /\ Cardinality(todo) \in Nat
  <2>1. IsFiniteSet(todo) /\ Cardinality(todo) \in Nat
    BY Counts
  <2>2. IsFiniteSet(todo') /\ Cardinality(todo') = Cardinality(todo) - 1
    BY <1>1, <2>1, FS_RemoveElement
  <2>3. Cardinality(todo') \in Nat
    BY <2>2, FS_CardinalityType
  <2> QED BY <1>1, <2>1, <2>2, <2>3 DEF IInv, TypeOK
<1>4. ASSUME pc' = "probe" \/ (pc' = "close" /\ ret' = "probe")
      PROVE  Pending' \in Nat /\ Pending' < Pending
  <2>1. /\ Pending' = Cardinality(todo') + Cardinality(Virtual)
        /\ Pending = Cardinality(todo) + Cardinality(Virtual)
    BY <1>1, <1>4 DEF Pending
  <2> QED BY <1>3, <2>1, Bounds
<1>5. CASE UNCHANGED <<devices, pc, closing, ret>>
  <2>1. DevInv' /\ Linked' = Linked /\ inst' = inst /\ born' = born /\ devList' = devList
        /\ banList' = banList
    BY <1>5, DevicesUnchanged
  <2>2. BudgetInv'
    <3>1. Pending' \in Nat /\ Pending' < Pending
      BY <1>1, <1>4, <1>5
    <3> QED BY <1>1, <2>1, <3>1, BudgetSpent DEF cable
  <2>3. TypeOK' /\ ListsHoldAlive'
    BY <1>1, <1>3, <1>5, <2>1
    DEF IInv, TypeOK, ListsHoldAlive, NoDuplicates, Range, cable, ghosts
  <2>4. ControlInv' /\ BanInv' /\ WalkInv' /\ ExitDisconnectsAll'
    BY <1>1, <1>5, <2>1
    DEF IInv, ControlInv, BanInv, Range, WalkInv, ExitDisconnectsAll
  <2> QED BY <2>1, <2>2, <2>3, <2>4 DEF IInv, DevInv
<1>6. ASSUME NEW u \in found, NEW accepted \in BOOLEAN, ProbeAdmit(m, kind, u, accepted)
      PROVE  IInv'
  <2>1. /\ m \in Models \cup SerialDrivers /\ u \in Units \cup {None}
        /\ kind \in {"usb", "serial", "virtual"}
        /\ kind = "usb" => m \in Models /\ u \in Units
    BY DriversAssumption, OpenableUnits DEF Drivers
  <2> HIDE DEF kind, found
  <2>2. /\ Admit(m, kind, u, accepted, IF kind = "usb" THEN "closing" ELSE "freed")
        /\ IF accepted \/ kind # "usb"
           THEN UNCHANGED <<pc, closing, ret>>
           ELSE pc' = "close" /\ closing' = born + 1 /\ ret' = "probe"
    BY <1>6 DEF ProbeAdmit
  <2>3. born < MaxInst /\ BudgetInv'
    <3>1. born' = born + 1
      BY <2>2 DEF Admit
    <3>2. Pending' \in Nat /\ Pending' < Pending
      BY <1>1, <1>4, <2>2
    <3> QED BY <1>1, <3>1, <3>2, BudgetSpent DEF cable
  <2>4. CASE accepted \/ kind # "usb"
    <3>1. UNCHANGED <<closing, ret, exiting, iter, mark>> /\ pc' = pc
      BY <1>1, <2>2, <2>4
    <3>2. Admit(m, kind, u, accepted, "freed")
      BY <2>2, <2>4 DEF Admit
    <3>3. /\ DevInv' /\ ListsHoldAlive' /\ ControlInv' /\ BanInv' /\ WalkInv'
          /\ ExitDisconnectsAll' /\ banList' = banList /\ born' = born + 1
      BY <1>1, <2>1, <2>3, <3>1, <3>2, AdmitKept
    <3>4. TypeOK'
      BY <1>1, <1>3, <3>1, <3>3 DEF IInv, TypeOK, DevInv, cable, ghosts
    <3> QED BY <2>3, <3>3, <3>4 DEF IInv, DevInv
  <2>5. CASE ~accepted /\ kind = "usb"
    <3>1. /\ pc' = "close" /\ closing' = born + 1 /\ ret' = "probe"
          /\ Admit(m, "usb", u, FALSE, "closing")
      BY <2>2, <2>5
    <3>2. /\ DevInv' /\ ListsHoldAlive' /\ ControlInv' /\ BanInv' /\ WalkInv'
          /\ ExitDisconnectsAll' /\ banList' = banList /\ born' = born + 1
          /\ born + 1 \in Ids
      <4>1. m \in Models /\ u \in Units /\ UNCHANGED <<exiting, iter, mark>>
        BY <1>1, <2>1, <2>5
      <4> QED BY <1>1, <2>3, <3>1, <4>1, RefusedKept
    <3>3. TypeOK'
      BY <1>1, <1>3, <3>1, <3>2 DEF IInv, TypeOK, DevInv, cable, ghosts
    <3> QED BY <2>3, <3>2, <3>3 DEF IInv, DevInv
  <2> QED BY <2>4, <2>5
<1> QED BY <1>2, <1>5, <1>6

\* Every step of the context, and a stutter, preserves the invariant.
LEMMA StepIInv == IInv /\ [Next]_vars => IInv'
<1> SUFFICES ASSUME IInv, [Next]_vars PROVE IInv'
  OBVIOUS
<1>1. CASE UNCHANGED vars
  <2>1. UNCHANGED <<plugged, events, plugs, inst, born, devList, banList, pc, todo, closing,
                    ret, exiting, iter, mark, fed, doubleClosed, crash>>
    BY <1>1 DEF vars, cable, devices, control, ghosts
  <2>2. TypeOK' /\ ControlInv'
    BY <2>1 DEF IInv, TypeOK, ControlInv
  <2>3. LifeInv' /\ ListsHoldAlive' /\ Sorted(devList)'
    BY <2>1 DEF IInv, LifeInv, ListsHoldAlive, Sorted, Linked, Range, NoDuplicates
  <2>4. BanInv' /\ WalkInv' /\ BudgetInv' /\ ExitDisconnectsAll'
    BY <2>1 DEF IInv, BanInv, WalkInv, BudgetInv, Pending, ExitDisconnectsAll, Linked, Range
  <2> QED BY <2>2, <2>3, <2>4 DEF IInv
<1>2. CASE \E u \in Units : Plug(u) \/ Unplug(u) \/ Hotplug(u)
  BY <1>2, PlugKeeps, LeftKeeps, ArrivedKeeps DEF Hotplug
<1>3. CASE \E i \in Ids : TransferFails(i)
  BY <1>3, TransferFailsKeeps
<1>4. CASE Library \/ IdleIter \/ Exit
  BY <1>4, PhaseKeeps, ProbeDriverKeeps, ProbeVirtualKeeps, PollAllKeeps, DrainOneKeeps,
     ExitOneKeeps, CloseDoneKeeps DEF Library
<1> QED BY <1>1, <1>2, <1>3, <1>4 DEF Next

\* The inductive invariant holds in every reachable state.
LEMMA Inductive == Spec => []IInv
<1>1. Init => IInv
  BY InitIInv
<1>2. IInv /\ [Next]_vars => IInv'
  BY StepIInv
<1> QED BY <1>1, <1>2, PTL DEF Spec

(***************************************************************************)
(* The theorems                                                            *)
(***************************************************************************)

\* Every variable stays in its range: in particular no instance is told twice
\* that it is removed, and MaxInst numbers are enough for all of them.
THEOREM TypeCorrect == Spec => []TypeOK
<1>1. IInv => TypeOK
  BY DEF IInv
<1> QED BY <1>1, Inductive, PTL

\* dev_list and banished_list hold allocated devices, each once, whatever
\* hotplug does while another device is being closed (ctlra.c, usb.c).
THEOREM ListsCorrect == Spec => []ListsHoldAlive
<1>1. IInv => ListsHoldAlive
  BY DEF IInv
<1> QED BY <1>1, Inductive, PTL

\* ctlra_idle_iter returns with banished_list empty and no banished serial device.
THEOREM BanishedGone == Spec => []BanishedDrained
<1>1. IInv => BanishedDrained
  BY DEF IInv, BanInv, BanishedDrained, Range
<1> QED BY <1>1, Inductive, PTL

\* ctlra_exit leaves no device the application had when it called it, although
\* hotplug may free the devices under its cursor.
THEOREM ExitComplete == Spec => []ExitDisconnectsAll
<1>1. IInv => ExitDisconnectsAll
  BY DEF IInv
<1> QED BY <1>1, Inductive, PTL

-----------------------------------------------------------------------------
(***************************************************************************)
(* The contract                                                            *)
(*                                                                         *)
(* Every step of the library, of libusb's callbacks and of the cable       *)
(* offers one instance, fails some, removes some, feeds the working ones,  *)
(* or is not seen by the application.                                      *)
(***************************************************************************)

\* What the invariant says of a single instance.
Sane(r) ==
  /\ r \in Instances
  /\ r.removals = IF r.st \in {"closing", "freed"} THEN 1 ELSE 0

\* How an instance stands, by its state in the library.
LEMMA Stands ==
  ASSUME NEW r, Sane(r)
  PROVE  /\ r.st = "unborn" => StandingOf(r) = "absent"
         /\ r.st \in {"closing", "freed"} => StandingOf(r) = "removed"
         /\ r.st = "linked" /\ r.banished => StandingOf(r) = "failed"
         /\ r.st = "linked" /\ ~r.banished => StandingOf(r) = "working"
<1>1. r.st = "unborn" => StandingOf(r) = "absent"
  BY DEF StandingOf
<1>2. ASSUME r.st \in {"closing", "freed"} PROVE StandingOf(r) = "removed"
  <2>1. r.removals > 0 /\ r.st # "unborn"
    BY <1>2 DEF Sane
  <2> QED BY <2>1 DEF StandingOf
<1>3. ASSUME r.st = "linked" PROVE ~(r.removals > 0) /\ r.st # "unborn"
  BY <1>3 DEF Sane
<1>4. r.st = "linked" /\ r.banished => StandingOf(r) = "failed"
  BY <1>3 DEF StandingOf
<1>5. r.st = "linked" /\ ~r.banished => StandingOf(r) = "working"
  BY <1>3 DEF StandingOf
<1> QED BY <1>1, <1>2, <1>4, <1>5

\* The invariant says it of all of them, and of the linked ones what they are.
LEMMA AllSane ==
  ASSUME DevInv
  PROVE  \A i \in Ids : /\ Sane(inst[i]) /\ Standing[i] = StandingOf(inst[i])
                        /\ i \in Linked <=> inst[i].st = "linked"
  BY DEF DevInv, LifeInv, Sane, Standing

\* So it does after a step that keeps it.
LEMMA AllSaneAfter ==
  ASSUME DevInv'
  PROVE  \A i \in Ids : /\ Sane(inst'[i]) /\ Standing'[i] = StandingOf(inst'[i])
                        /\ i \in Linked' <=> inst'[i].st = "linked"
  BY DEF DevInv, LifeInv, Sane, Standing

\* How the instances stand is a function, before a step and after it.
LEMMA StandingIsFunction ==
  /\ Standing = [i \in Ids |-> Standing[i]]
  /\ Standing' = [i \in Ids |-> Standing'[i]]
  BY DEF Standing

\* An instance that is left alone stands as it did.
LEMMA StandsStill ==
  ASSUME NEW i \in Ids, inst'[i] = inst[i]
  PROVE  Standing'[i] = Standing[i]
  BY DEF Standing

\* A step that changes no instance and feeds at most the working ones.
LEMMA FeedStep ==
  ASSUME inst' = inst, fed' \subseteq {i \in Ids : Standing[i] = "working"}
  PROVE  Session!Next
<1>1. Standing' = Standing
  BY DEF Standing
<1>2. fed' \in SUBSET Ids /\ Session!Feed(fed')
  BY <1>1 DEF Session!Feed, Session!In
<1> QED BY <1>2 DEF Session!Next

\* A step that makes an instance of the library known to the application.
LEMMA OfferStep ==
  ASSUME DevInv, NEW k \in Ids, inst[k].st = "unborn",
         Standing'[k] \in {"working", "removed"},
         \A i \in Ids \ {k} : inst'[i] = inst[i], fed' = {}
  PROVE  Session!Next
<1>1. Standing[k] = "absent"
  BY Stands, AllSane
<1>2. \A i \in Ids \ {k} : Standing'[i] = Standing[i]
  BY StandsStill
<1>3. Standing' = [Standing EXCEPT ![k] = Standing'[k]]
  BY <1>2, StandingIsFunction
<1>4. Session!Offer(k, Standing'[k])
  BY <1>1, <1>3 DEF Session!Offer, Session!In
<1> QED BY <1>4 DEF Session!Next

\* A step that fails the working instances of S.
LEMMA FailStep ==
  ASSUME DevInv, DevInv', NEW S, S \subseteq Linked, S \subseteq Ids,
         \A i \in S : ~inst[i].banished /\ inst'[i].banished,
         \A i \in Ids \ S : inst'[i] = inst[i],
         Linked' = Linked, fed' = {}
  PROVE  Session!Next
<1>1. \A i \in S : Standing[i] = "working" /\ Standing'[i] = "failed"
  <2>1. \A i \in S : inst[i].st = "linked" /\ inst'[i].st = "linked"
    BY AllSane, AllSaneAfter
  <2> QED BY <2>1, Stands, AllSane, AllSaneAfter
<1>2. \A i \in Ids \ S : Standing'[i] = Standing[i]
  BY StandsStill
<1>3. Standing' = [i \in Ids |-> IF i \in S THEN "failed" ELSE Standing[i]]
  BY <1>1, <1>2, StandingIsFunction
<1>4. S \in SUBSET Ids /\ Session!Fail(S)
  BY <1>1, <1>3 DEF Session!Fail, Session!In
<1> QED BY <1>4 DEF Session!Next

\* A step that unlinks the instances of S.
LEMMA RemoveStep ==
  ASSUME DevInv, DevInv', NEW S, S \subseteq Linked, S \subseteq Ids,
         \A i \in S : inst'[i].st \in {"closing", "freed"},
         \A i \in Ids \ S : inst'[i] = inst[i], fed' = {}
  PROVE  Session!Next
<1>1. \A i \in S : Standing[i] \in {"working", "failed"} /\ Standing'[i] = "removed"
  <2>1. \A i \in S : inst[i].st = "linked" /\ i \notin Linked'
    BY AllSane, AllSaneAfter
  <2> QED BY <2>1, Stands, AllSane, AllSaneAfter
<1>2. \A i \in Ids \ S : Standing'[i] = Standing[i]
  BY StandsStill
<1>3. Standing' = [i \in Ids |-> IF i \in S THEN "removed" ELSE Standing[i]]
  BY <1>1, <1>2, StandingIsFunction
<1>4. S \in SUBSET Ids /\ Session!Remove(S)
  BY <1>1, <1>3 DEF Session!Remove, Session!In
<1> QED BY <1>4 DEF Session!Next

(***************************************************************************)
(* One lemma per action: what the application sees of it                   *)
(***************************************************************************)

\* The contract leaves an instance that is not fed room for any other step.
LEMMA NoneFed ==
  ASSUME inst' = inst, fed' = {}
  PROVE  Session!Next
  BY FeedStep

\* A device that is made is offered, and the application's answer is final.
LEMMA AdmitOffers ==
  ASSUME DevInv, NEW m \in Models \cup SerialDrivers, NEW kind \in {"usb", "serial", "virtual"},
         NEW u \in Units \cup {None}, NEW accepted \in BOOLEAN, NEW st \in {"closing", "freed"},
         born < MaxInst, Admit(m, kind, u, accepted, st), fed' = {}
  PROVE  Session!Next
<1>1. /\ DevInv'
      /\ born + 1 \in Ids /\ inst[born + 1].st = "unborn"
      /\ \A i \in Ids : i # born + 1 => inst'[i] = inst[i]
      /\ inst'[born + 1].st = (IF accepted THEN "linked" ELSE st)
      /\ ~inst'[born + 1].banished
  BY AdmitShape
<1>2. Standing'[born + 1] \in {"working", "removed"}
  <2>1. CASE accepted
    BY <1>1, <2>1, Stands, AllSaneAfter
  <2>2. CASE ~accepted
    BY <1>1, <2>2, Stands, AllSaneAfter
  <2> QED BY <2>1, <2>2
<1> QED BY <1>1, <1>2, OfferStep

\* Between the phases nothing is seen, but that update feeds the working ones.
LEMMA PhaseSeen ==
  ASSUME IInv, Probe \/ IdleIter \/ UsbDone \/ UpdateAll \/ DrainDone \/ Exit \/ ExitDone
  PROVE  Session!Next
<1>1. inst' = inst /\ DevInv
  BY DevInvHolds
  DEF devices, Probe, IdleIter, UsbDone, UpdateAll, DrainDone, Exit, ExitDone
<1>2. fed' \subseteq {i \in Ids : Standing[i] = "working"}
  <2>1. CASE UpdateAll
    <3>1. fed' = {i \in Linked : ~inst[i].banished} /\ Linked \subseteq Ids
      BY <1>1, <2>1 DEF UpdateAll, DevInv
    <3>2. \A i \in Linked : Standing[i] = StandingOf(inst[i]) /\ Sane(inst[i])
                            /\ inst[i].st = "linked"
      BY <1>1, <3>1, AllSane
    <3> QED BY <3>1, <3>2, Stands
  <2>2. CASE ~UpdateAll
    BY <2>2 DEF Probe, IdleIter, UsbDone, DrainDone, Exit, ExitDone
  <2> QED BY <2>1, <2>2
<1> QED BY <1>1, <1>2, FeedStep

\* A driver of the probe, or the virtual device, offers one instance or none.
LEMMA ProbeSeen ==
  ASSUME IInv, (\E m \in Drivers : ProbeDriver(m)) \/ ProbeVirtual
  PROVE  Session!Next
<1>1. fed' = {} /\ DevInv
  BY DevInvHolds DEF ProbeDriver, ProbeVirtual
<1>2. CASE inst' = inst
  BY <1>1, <1>2, NoneFed
<1>3. ASSUME inst' # inst
      PROVE  /\ born' = born + 1
             /\ \E m \in Models \cup SerialDrivers, kind \in {"usb", "serial", "virtual"},
                   u \in Units \cup {None}, accepted \in BOOLEAN, st \in {"closing", "freed"} :
                  Admit(m, kind, u, accepted, st)
  <2>1. CASE ProbeVirtual
    <3>1. PICK m \in Virtual, accepted \in BOOLEAN :
            Admit(m, "virtual", None, accepted, "freed")
      BY <1>3, <2>1 DEF ProbeVirtual, Answers, devices
    <3>2. m \in Models \cup SerialDrivers
      BY DriversAssumption
    <3> QED BY <3>1, <3>2 DEF Admit
  <2>2. ASSUME NEW m \in Drivers, ProbeDriver(m)
        PROVE  /\ born' = born + 1
               /\ \E kind \in {"usb", "serial", "virtual"}, u \in Units \cup {None},
                     accepted \in BOOLEAN, st \in {"closing", "freed"} :
                    Admit(m, kind, u, accepted, st)
    <3>1. PICK u \in (IF m \in UsbDrivers THEN Openable(m) ELSE {None}),
               accepted \in BOOLEAN :
            ProbeAdmit(m, IF m \in UsbDrivers THEN "usb" ELSE "serial", u, accepted)
      BY <1>3, <2>2 DEF ProbeDriver, Answers, devices
    <3> DEFINE kind == IF m \in UsbDrivers THEN "usb" ELSE "serial"
               st == IF kind = "usb" THEN "closing" ELSE "freed"
    <3>2. Admit(m, kind, u, accepted, st)
      BY <3>1 DEF ProbeAdmit
    <3>3. u \in Units \cup {None} /\ kind \in {"usb", "serial", "virtual"}
          /\ st \in {"closing", "freed"}
      BY <3>1, OpenableUnits
    <3> HIDE DEF kind, st
    <3> QED BY <3>2, <3>3 DEF Admit
  <2>3. Drivers \subseteq Models \cup SerialDrivers
    BY DriversAssumption DEF Drivers
  <2> QED BY <2>1, <2>2, <2>3
<1>4. ASSUME inst' # inst PROVE born < MaxInst
  <2>1. IInv'
    BY ProbeDriverKeeps, ProbeVirtualKeeps
  <2>2. born' = born + 1 /\ born \in Nat /\ born' \in 0..MaxInst
    BY <1>3, <1>4, <2>1, Counts DEF IInv, TypeOK
  <2> QED BY <2>2, Bounds
<1>5. CASE inst' # inst
  BY <1>1, <1>3, <1>4, <1>5, AdmitOffers
<1> QED BY <1>2, <1>5

\* A failed transfer, and a poll that fails: the device stops working.
LEMMA FailSeen ==
  ASSUME IInv, (\E i \in Ids : TransferFails(i)) \/ PollAll
  PROVE  Session!Next
<1>1. fed' = {} /\ DevInv /\ DevInv' /\ Linked' = Linked /\ Linked \subseteq Ids
  <2>1. devList' = devList
    BY DEF TransferFails, PollAll
  <2>2. IInv'
    BY TransferFailsKeeps, PollAllKeeps
  <2>3. DevInv /\ DevInv'
    BY <2>2, DevInvHolds DEF IInv, DevInv, TypeOK, ListsHoldAlive
  <2> QED BY <2>1, <2>3 DEF TransferFails, PollAll, Linked, DevInv
<1>2. \E S \in SUBSET Linked :
        /\ \A i \in S : ~inst[i].banished /\ inst'[i].banished
        /\ \A i \in Ids \ S : inst'[i] = inst[i]
  <2>1. ASSUME NEW j \in Ids, TransferFails(j)
        PROVE  /\ {j} \in SUBSET Linked
               /\ \A i \in {j} : ~inst[i].banished /\ inst'[i].banished
               /\ \A i \in Ids \ {j} : inst'[i] = inst[i]
    BY <1>1, <2>1 DEF TransferFails, DevInv, Instances
  <2>2. ASSUME PollAll
        PROVE  \E S \in SUBSET Linked :
                 /\ \A i \in S : ~inst[i].banished /\ inst'[i].banished
                 /\ \A i \in Ids \ S : inst'[i] = inst[i]
    <3>1. PICK S \in SUBSET {i \in Linked : inst[i].kind = "serial" /\ ~inst[i].banished} :
            inst' = [i \in Ids |-> IF i \in S THEN [inst[i] EXCEPT !.banished = TRUE]
                                   ELSE inst[i]]
      BY <2>2 DEF PollAll
    <3>2. \A i \in S : ~inst[i].banished /\ inst'[i].banished
      BY <1>1, <3>1 DEF DevInv, Instances
    <3> QED BY <3>1, <3>2
  <2> QED BY <2>1, <2>2
<1> QED BY <1>1, <1>2, FailStep

\* Disconnecting, by hotplug, from the banished list or at exit, removes.
LEMMA RemoveSeen ==
  ASSUME IInv, (\E u \in Units : Left(u)) \/ DrainOne \/ ExitOne
  PROVE  Session!Next
<1>1. fed' = {} /\ DevInv /\ DevInv' /\ Linked \subseteq Ids
  <2>1. IInv'
    BY LeftKeeps, DrainOneKeeps, ExitOneKeeps
  <2>2. DevInv /\ DevInv'
    BY <2>1, DevInvHolds DEF IInv, DevInv, TypeOK, ListsHoldAlive
  <2> QED BY <2>2 DEF Left, DrainOne, ExitOne, DevInv
<1>2. CASE inst' = inst
  BY <1>1, <1>2, NoneFed
<1>3. ASSUME inst' # inst
      PROVE  \E S \in SUBSET Linked :
               /\ \A i \in S : inst'[i].st \in {"closing", "freed"}
               /\ \A i \in Ids \ S : inst'[i] = inst[i]
  <2>1. ASSUME NEW u \in Units, Left(u)
        PROVE  \E S \in SUBSET Linked :
                 /\ \A i \in S : inst'[i].st \in {"closing", "freed"}
                 /\ \A i \in Ids \ S : inst'[i] = inst[i]
    <3>1. PICK told : inst' = Disconnected(Matching(ModelOf[u]), told)
      BY <1>3, <2>1 DEF Left, devices
    <3>2. Matching(ModelOf[u]) \subseteq Linked
      BY DEF Matching
    <3>3. ASSUME NEW i \in Matching(ModelOf[u]) PROVE inst'[i].st = "freed"
      <4>1. i \in Ids /\ inst[i] \in Instances
        BY <1>1, <3>2 DEF DevInv
      <4>2. inst'[i] = Freed(inst[i], told[i])
        BY <3>1, <4>1 DEF Disconnected, Freed
      <4> QED BY <4>1, <4>2 DEF Freed, Instances
    <3>4. \A i \in Ids \ Matching(ModelOf[u]) : inst'[i] = inst[i]
      BY <3>1 DEF Disconnected
    <3> QED BY <3>2, <3>3, <3>4
  <2>2. ASSUME NEW j \in Linked, NEW st \in {"closing", "freed"}, Unlink(j, st)
        PROVE  \E S \in SUBSET Linked :
                 /\ \A i \in S : inst'[i].st \in {"closing", "freed"}
                 /\ \A i \in Ids \ S : inst'[i] = inst[i]
    <3>1. inst'[j].st = st /\ \A i \in Ids \ {j} : inst'[i] = inst[i]
      BY <1>1, <2>2, UnlinkOne
    <3> QED BY <3>1
  <2>3. CASE DrainOne
    <3>1. Head(banList) \in Linked
      <4>1. banList \in Seq(Ids) /\ banList # <<>> /\ Range(banList) \subseteq Linked
        BY <2>3 DEF DrainOne, IInv, TypeOK, ListsHoldAlive
      <4> QED BY <4>1, HeadTailProperties, RangeShape
    <3>2. Unlink(Head(banList), "freed")
      BY <2>3 DEF DrainOne
    <3> QED BY <2>2, <3>1, <3>2
  <2>4. CASE ExitOne
    <3>1. pc = "exit" /\ iter # 0 /\ inst[iter].st # "freed" /\ iter \in Ids
      BY <1>3, <2>4 DEF ExitOne, devices, IInv, TypeOK
    <3>2. iter \in Linked
      BY <1>1, <3>1 DEF IInv, WalkInv, ControlInv, DevInv
    <3>3. Unlink(iter, IF inst[iter].kind = "usb" THEN "closing" ELSE "freed")
      BY <2>4, <3>1 DEF ExitOne
    <3> QED BY <2>2, <3>2, <3>3
  <2> QED BY <2>1, <2>3, <2>4
<1>4. CASE inst' # inst
  BY <1>1, <1>3, <1>4, RemoveStep
<1> QED BY <1>2, <1>4

\* The end of usb_close is none of the application's business: the instance
\* was removed when it began.
LEMMA CloseSeen ==
  ASSUME IInv, CloseDone
  PROVE  Session!Next
<1>1. /\ fed' = {} /\ closing \in Ids /\ inst[closing].st = "closing"
      /\ inst' = [inst EXCEPT ![closing].st = "freed"] /\ DevInv
  BY DevInvHolds DEF CloseDone, IInv, TypeOK, ControlInv, ListsHoldAlive
<1>2. DevInv'
  <2>1. IInv'
    BY CloseDoneKeeps
  <2> QED BY <2>1 DEF IInv, DevInv, TypeOK, ListsHoldAlive
<1>3. Standing' = Standing
  <2>1. /\ \A i \in Ids \ {closing} : inst'[i] = inst[i]
        /\ inst'[closing].st = "freed"
    BY <1>1 DEF DevInv, Instances
  <2>2. Standing[closing] = "removed" /\ Standing'[closing] = "removed"
    BY <1>1, <1>2, <2>1, Stands, AllSane, AllSaneAfter
  <2> QED BY <2>1, <2>2, StandsStill, StandingIsFunction
<1>4. Session!Feed({})
  BY <1>1, <1>3 DEF Session!Feed
<1> QED BY <1>4 DEF Session!Next

\* A device that arrives is offered, unless it cannot be opened or has no driver.
LEMMA ArrivedSeen ==
  ASSUME IInv, NEW u \in Units, Arrived(u)
  PROVE  Session!Next
<1>1. /\ fed' = {} /\ DevInv /\ QuirkOf[ModelOf[u]] \in Models
      /\ events # <<>> /\ Head(events) = <<"arrived", u>>
  BY DevInvHolds, UnitsAssumption DEF Arrived
<1>2. \/ inst' = inst
      \/ \E v \in Openable(QuirkOf[ModelOf[u]]), accepted \in BOOLEAN :
           Admit(QuirkOf[ModelOf[u]], "usb", v, accepted, "freed")
  BY DEF Arrived, devices
<1>3. born < MaxInst
  BY <1>1, RoomForArrival
<1> QED BY <1>1, <1>2, <1>3, NoneFed, AdmitOffers, OpenableUnits

\* The cable is not seen before libusb reports it.
LEMMA CableUnseen ==
  ASSUME UNCHANGED <<inst, fed>>
  PROVE  UNCHANGED Session!vars
  BY DEF Session!vars, Standing

(***************************************************************************)
(* The refinement                                                          *)
(***************************************************************************)

\* The contract of the public header (ctlra.h, impl.h): an instance is offered
\* once, removed once and last, and feedback is asked of working ones only,
\* whatever hotplug, failed transfers, banishing and ctlra_exit do in between.
THEOREM SessionKept == Spec => ImplementsSession
<1>1. Init => Session!Init
  BY DEF Init, Session!Init, Standing, StandingOf, Unborn
<1>2. ASSUME IInv, [Next]_vars
      PROVE  [Session!Next]_(Session!vars)
  <2>1. CASE UNCHANGED vars
    BY <2>1, CableUnseen DEF vars, devices
  <2>2. CASE \E u \in Units : Plug(u) \/ Unplug(u)
    BY <2>2, CableUnseen DEF Plug, Unplug, devices
  <2>3. CASE \E u \in Units : Hotplug(u)
    BY <1>2, <2>3, RemoveSeen, ArrivedSeen DEF Hotplug
  <2>4. CASE \E i \in Ids : TransferFails(i)
    BY <1>2, <2>4, FailSeen
  <2>5. CASE Library \/ IdleIter \/ Exit
    BY <1>2, <2>5, PhaseSeen, ProbeSeen, FailSeen, RemoveSeen, CloseSeen DEF Library
  <2> QED BY <1>2, <2>1, <2>2, <2>3, <2>4, <2>5 DEF Next
<1> QED BY <1>1, <1>2, Inductive, PTL DEF Spec, ImplementsSession, Session!Spec
=============================================================================
