-------------------------------- MODULE Ctlra --------------------------------
(***************************************************************************)
(* The life of the device instances of one ctlra context: probing, hotplug *)
(* (ctlra/usb.c), the idle loop, banishing, disconnecting and ctlra_exit   *)
(* (ctlra/ctlra.c), with the cable as the environment.                     *)
(*                                                                         *)
(* The library is one thread. It gives way to libusb in two places only,   *)
(* where hotplug callbacks and failed transfers can change the device list *)
(* under it: in the idle iteration (pc = "usb") and in the usb_close of a  *)
(* device that is not itself closed from inside a libusb callback          *)
(* (pc = "close").                                                         *)
(***************************************************************************)
EXTENDS Integers, Sequences, FiniteSets, SequencesExt, Lists

CONSTANTS
  Units,          \* pieces of hardware that can be plugged in
  Models,         \* USB vendor and product ids
  ModelOf,        \* the model of each unit
  QuirkOf,        \* hotplug_cb: the model an arriving model is handled as
  LeftQuirk,      \* models disconnected by the quirk of the LEFT event
  UsbDrivers,     \* models with a registered USB driver
  SerialDrivers,  \* drivers that are not USB (firmata)
  Virtual,        \* models named by CTLRA_VIRTUAL_DEVICE: none or one
  AppRefuses,     \* the application may refuse a device
  OpenFails,      \* a device may be impossible to open (claimed elsewhere)
  MaxPlugs,       \* bound on the times a unit is plugged in
  None

Drivers == UsbDrivers \cup SerialDrivers
MaxInst == Cardinality(Drivers) + Cardinality(Virtual) + MaxPlugs
Ids == 1..MaxInst

ASSUME UnitsAssumption == /\ \A u \in Units : ModelOf[u] \in Models
                          /\ QuirkOf \in [Models -> Models]
                          /\ None \notin Units
ASSUME DriversAssumption == /\ UsbDrivers \cup LeftQuirk \cup Virtual \subseteq Models
                            /\ SerialDrivers \cap Models = {}
                            /\ Cardinality(Virtual) <= 1
ASSUME OptionsAssumption == {AppRefuses, OpenFails} \subseteq BOOLEAN
ASSUME FiniteAssumption == IsFiniteSet(Drivers) /\ IsFiniteSet(Virtual)
ASSUME PlugsAssumption == MaxPlugs \in Nat

VARIABLES
  plugged, events, plugs,  \* the cable, libusb's hotplug events, plugs so far
  inst,                    \* the instances (struct ctlra_dev_t)
  born,                    \* instances made so far
  devList, banList,        \* ctlra->dev_list, ctlra->banished_list
  pc, todo,                \* where the thread is; drivers still to be probed
  closing, ret,            \* the device in usb_close and where that returns to
  exiting, iter, mark,     \* ctlra_exit: running, its cursor, born at its start
  fed,                     \* instances whose feedback_func the last pass called
  doubleClosed, crash      \* history: a handle closed twice; how it crashed

cable == <<plugged, events, plugs>>
devices == <<inst, born, devList, banList>>
control == <<pc, todo, closing, ret, exiting, iter, mark>>
ghosts == <<doubleClosed, crash>>
vars == <<cable, devices, control, fed, ghosts>>

Unborn == [st |-> "unborn", model |-> None, unit |-> None, kind |-> "usb",
           banished |-> FALSE, removals |-> 0, unexpected |-> FALSE]
Instances ==
  [st : {"unborn", "linked", "closing", "freed"},
   model : Models \cup SerialDrivers \cup {None}, unit : Units \cup {None},
   kind : {"usb", "serial", "virtual"}, banished : BOOLEAN,
   removals : 0..1, unexpected : BOOLEAN]

TypeOK ==
  /\ plugged \subseteq Units /\ plugs \in 0..MaxPlugs
  /\ events \in Seq({"arrived", "left"} \X Units)
  /\ inst \in [Ids -> Instances] /\ born \in 0..MaxInst
  /\ devList \in Seq(Ids) /\ banList \in Seq(Ids)
  /\ pc \in {"created", "probe", "app", "usb", "poll", "update", "drain",
             "exit", "close", "done"}
  /\ todo \subseteq Drivers
  /\ closing \in Ids \cup {0} /\ ret \in {"probe", "exit"}
  /\ exiting \in BOOLEAN /\ iter \in Ids \cup {0} /\ mark \in 0..MaxInst
  /\ fed \subseteq Ids
  /\ doubleClosed \in BOOLEAN
  /\ crash \in {"no", "nullDeref", "freedDev", "doubleClose"}

\* ctlra_create has returned: libusb is up, nothing is connected.
Init ==
  /\ plugged \in SUBSET Units /\ events = <<>> /\ plugs = 0
  /\ inst = [i \in Ids |-> Unborn] /\ born = 0
  /\ devList = <<>> /\ banList = <<>>
  /\ pc = "created" /\ todo = {}
  /\ closing = 0 /\ ret = "probe"
  /\ exiting = FALSE /\ iter = 0 /\ mark = 0
  /\ fed = {}
  /\ doubleClosed = FALSE /\ crash = "no"

Running == crash = "no"
Linked == Range(devList)
Alive == {i \in Ids : inst[i].st \in {"linked", "closing"}}
\* Mutant of Claimed: a freed instance keeps its interface.
ClaimedForever == {inst[i].unit : i \in {j \in Ids : inst[j].kind = "usb"}}
Claimed == {inst[i].unit : i \in {j \in Alive : inst[j].kind = "usb"}}

(***************************************************************************)
(* The cable (external)                                                    *)
(***************************************************************************)
Plug(u) ==
  /\ Running /\ pc # "done" /\ u \notin plugged /\ plugs < MaxPlugs
  /\ plugged' = plugged \cup {u}
  /\ plugs' = plugs + 1
  /\ events' = Append(events, <<"arrived", u>>)
  /\ UNCHANGED <<devices, control, fed, ghosts>>

Unplug(u) ==
  /\ Running /\ pc # "done" /\ u \in plugged
  /\ plugged' = plugged \ {u}
  /\ events' = Append(events, <<"left", u>>)
  /\ UNCHANGED <<plugs, devices, control, fed, ghosts>>

(***************************************************************************)
(* Connecting: ctlra_dev_connect with the driver's connect under it        *)
(***************************************************************************)

\* usb_open takes the first unit of the model on the bus, in libusb's order,
\* and claims its interface, which fails when an instance has it already.
Openable(m) == {u \in plugged : ModelOf[u] = m} \ Claimed
OpenCanFail(m) ==
  OpenFails \/ {u \in plugged : ModelOf[u] = m} \subseteq Claimed
            \/ \E u \in plugged : ModelOf[u] = m /\ u \in Claimed

NewInstance(m, kind, u, st) ==
  [st |-> st, model |-> m, unit |-> u, kind |-> kind, banished |-> FALSE,
   removals |-> IF st = "linked" THEN 0 ELSE 1, unexpected |-> FALSE]

\* Mutant of Admit: a refused device is left in dev_list.
AdmitKeeps(m, kind, u, accepted, st) ==
  /\ born' = born + 1
  /\ inst' = [inst EXCEPT ![born + 1] =
                NewInstance(m, kind, u, IF accepted THEN "linked" ELSE st)]
  /\ devList' = Append(devList, born + 1)
  /\ UNCHANGED banList

\* A new instance: at the end of dev_list if the application accepts it, else
\* disconnected again, its remove function called, with st what is left of it.
Admit(m, kind, u, accepted, st) ==
  /\ born' = born + 1
  /\ inst' = [inst EXCEPT ![born + 1] =
                NewInstance(m, kind, u, IF accepted THEN "linked" ELSE st)]
  /\ devList' = IF accepted THEN Append(devList, born + 1) ELSE devList
  /\ UNCHANGED banList

Answers == IF AppRefuses THEN BOOLEAN ELSE {TRUE}

(***************************************************************************)
(* ctlra_probe                                                             *)
(***************************************************************************)
Probe ==
  /\ Running /\ pc = "created"
  /\ pc' = "probe" /\ todo' = Drivers /\ fed' = {}
  /\ UNCHANGED <<cable, devices, closing, ret, exiting, iter, mark, ghosts>>

\* A refused USB device goes through usb_close, outside any callback.
ProbeAdmit(m, kind, u, accepted) ==
  /\ Admit(m, kind, u, accepted, IF kind = "usb" THEN "closing" ELSE "freed")
  /\ IF accepted \/ kind # "usb"
     THEN UNCHANGED <<pc, closing, ret>>
     ELSE pc' = "close" /\ closing' = born + 1 /\ ret' = "probe"

ProbeDriver(m) ==
  /\ Running /\ pc = "probe" /\ m \in todo
  /\ todo' = todo \ {m}
  /\ \/ \E u \in (IF m \in UsbDrivers THEN Openable(m) ELSE {None}),
           accepted \in Answers :
          ProbeAdmit(m, IF m \in UsbDrivers THEN "usb" ELSE "serial", u, accepted)
     \/ /\ m \in SerialDrivers \/ OpenCanFail(m)
        /\ UNCHANGED <<devices, pc, closing, ret>>
  /\ fed' = {}
  /\ UNCHANGED <<cable, exiting, iter, mark, ghosts>>

\* All drivers are through; ctlra_dev_virtualize when the environment asks.
ProbeVirtual ==
  /\ Running /\ pc = "probe" /\ todo = {}
  /\ IF Virtual = {} THEN UNCHANGED devices
     ELSE \E m \in Virtual, accepted \in Answers :
            Admit(m, "virtual", None, accepted, "freed")
  /\ pc' = "app" /\ fed' = {}
  /\ UNCHANGED <<cable, todo, closing, ret, exiting, iter, mark, ghosts>>

(***************************************************************************)
(* libusb callbacks: failed transfers and ctlra_usb_impl_hotplug_cb        *)
(***************************************************************************)
Handling == Running /\ pc \in {"usb", "close"}

\* A transfer of an open device fails: xfr_done sets dev->banished, no more.
TransferFails(i) ==
  /\ Handling
  /\ inst[i].st = "linked" /\ inst[i].kind = "usb" /\ ~inst[i].banished
  /\ inst' = [inst EXCEPT ![i].banished = TRUE]
  /\ fed' = {}
  /\ UNCHANGED <<cable, born, devList, banList, control, ghosts>>

\* The devices of S are disconnected, closed and freed within one callback:
\* the remove function is told dev->banished, nothing else happens meanwhile.
Disconnected(S, banished) ==
  [i \in Ids |-> IF i \in S
                 THEN [inst[i] EXCEPT !.st = "freed", !.removals = @ + 1,
                                      !.banished = banished[i],
                                      !.unexpected = banished[i]]
                 ELSE inst[i]]

\* Mutant of Matching: compares with a product id that no driver sets.
MatchingOnPid(m) == {i \in Linked : m = None}

Matching(m) == {i \in Linked : inst[i].model = m}
First(m) == CHOOSE i \in Matching(m) :
              \A j \in Matching(m) : \E a, b \in DOMAIN devList :
                 devList[a] = i /\ devList[b] = j /\ a <= b

\* LEFT: every instance of the model is banished and disconnected, whichever
\* unit it is. For a quirk model the first one found is disconnected as it
\* is before that, without a look at whether there is one.
Left(u) ==
  /\ Handling /\ events # <<>> /\ Head(events) = <<"left", u>>
  /\ LET m == ModelOf[u]
         quirk == m \in LeftQuirk
     IN IF quirk /\ Matching(m) = {}
        THEN /\ crash' = "nullDeref"
             /\ UNCHANGED devices
        ELSE /\ inst' = Disconnected(Matching(m),
                          [i \in Ids |-> IF quirk /\ i = First(m)
                                         THEN inst[i].banished ELSE TRUE])
             /\ devList' = Only(devList, Linked \ Matching(m))
             /\ UNCHANGED <<born, banList, crash>>
  /\ events' = Tail(events) /\ fed' = {}
  /\ UNCHANGED <<plugged, plugs, control, doubleClosed>>

\* ARRIVED: the unit is opened for its serial number; a model with a driver
\* is connected and offered. The handle is closed at the end, and before
\* that too when nothing was accepted: closing a closed handle crashes the
\* process or goes unnoticed.
Arrived(u) ==
  /\ Handling /\ events # <<>> /\ Head(events) = <<"arrived", u>>
  /\ LET m == QuirkOf[ModelOf[u]]
     IN \/ /\ u \notin plugged \/ m \notin UsbDrivers \/ OpenFails
           /\ UNCHANGED <<devices, ghosts>>
        \/ /\ u \in plugged /\ m \in UsbDrivers
           /\ \/ \E v \in Openable(m) : Admit(m, "usb", v, TRUE, "freed")
                                        /\ UNCHANGED ghosts
              \/ /\ \/ AppRefuses /\ \E v \in Openable(m) :
                                       Admit(m, "usb", v, FALSE, "freed")
                    \/ OpenCanFail(m) /\ UNCHANGED devices
                 /\ doubleClosed' = TRUE
                 /\ crash' \in {"no", "doubleClose"}
  /\ events' = Tail(events) /\ fed' = {}
  /\ UNCHANGED <<plugged, plugs, control>>

(***************************************************************************)
(* ctlra_idle_iter                                                         *)
(***************************************************************************)
IdleIter ==
  /\ Running /\ pc = "app"
  /\ pc' = "usb" /\ fed' = {}
  /\ UNCHANGED <<cable, devices, todo, closing, ret, exiting, iter, mark, ghosts>>

UsbDone ==
  /\ Running /\ pc = "usb"
  /\ pc' = "poll" /\ fed' = {}
  /\ UNCHANGED <<cable, devices, todo, closing, ret, exiting, iter, mark, ghosts>>

\* Every device that is not banished is polled. The serial devices of S fail
\* and are banished by ctlra_dev_impl_banish, which appends to banished_list.
PollAll ==
  /\ Running /\ pc = "poll"
  /\ \E S \in SUBSET {i \in Linked : inst[i].kind = "serial"
                                        /\ ~inst[i].banished} :
       /\ inst' = [i \in Ids |-> IF i \in S
                                 THEN [inst[i] EXCEPT !.banished = TRUE]
                                 ELSE inst[i]]
       /\ banList' = banList \o Only(devList, S)
  /\ pc' = "update" /\ fed' = {}
  /\ UNCHANGED <<cable, born, devList, todo, closing, ret, exiting, iter, mark,
                 ghosts>>

\* Mutant of UpdateAll: banished devices are fed too.
UpdateAllBanished ==
  /\ Running /\ pc = "update"
  /\ fed' = Linked
  /\ pc' = "drain"
  /\ UNCHANGED <<cable, devices, todo, closing, ret, exiting, iter, mark, ghosts>>

\* Then the feedback function of every device that is not banished.
UpdateAll ==
  /\ Running /\ pc = "update"
  /\ fed' = {i \in Linked : ~inst[i].banished}
  /\ pc' = "drain"
  /\ UNCHANGED <<cable, devices, todo, closing, ret, exiting, iter, mark, ghosts>>

\* Mutant of Unlink: the device stays in dev_list.
UnlinkStays(i, st) ==
  /\ inst' = [inst EXCEPT ![i].st = st, ![i].removals = @ + 1,
                          ![i].unexpected = inst[i].banished]
  /\ UNCHANGED <<devList, born>>

\* ctlra_dev_disconnect of one device, up to the driver's disconnect.
Unlink(i, st) ==
  /\ devList' = Only(devList, Linked \ {i})
  /\ inst' = [inst EXCEPT ![i].st = st, ![i].removals = @ + 1,
                          ![i].unexpected = inst[i].banished]
  /\ UNCHANGED born

\* The banished devices are disconnected from the front of banished_list.
DrainOne ==
  /\ Running /\ pc = "drain" /\ banList # <<>>
  /\ Unlink(Head(banList), "freed")
  /\ banList' = Tail(banList) /\ fed' = {}
  /\ UNCHANGED <<cable, control, ghosts>>

\* Mutant of DrainDone: one banished device a call.
DrainDoneEarly ==
  /\ Running /\ pc = "drain"
  /\ pc' = IF exiting THEN "exit" ELSE "app"
  /\ iter' = IF exiting /\ devList # <<>> THEN Head(devList) ELSE 0
  /\ fed' = {}
  /\ UNCHANGED <<cable, devices, todo, closing, ret, exiting, mark, ghosts>>

\* Back to the application, or on with ctlra_exit.
DrainDone ==
  /\ Running /\ pc = "drain" /\ banList = <<>>
  /\ pc' = IF exiting THEN "exit" ELSE "app"
  /\ iter' = IF exiting /\ devList # <<>> THEN Head(devList) ELSE 0
  /\ fed' = {}
  /\ UNCHANGED <<cable, devices, todo, closing, ret, exiting, mark, ghosts>>

(***************************************************************************)
(* ctlra_exit                                                              *)
(***************************************************************************)
Exit ==
  /\ Running /\ pc = "app"
  /\ exiting' = TRUE /\ mark' = born
  /\ pc' = "usb" /\ fed' = {}
  /\ UNCHANGED <<cable, devices, todo, closing, ret, iter, ghosts>>

\* Mutant of Successor: the next pointer is read after the device is unlinked.
SuccessorLost(i) == IF i \in Linked THEN 0 ELSE i

\* The device after i in dev_list, 0 at the end.
Successor(i) ==
  LET later == {b \in DOMAIN devList : b > 1 /\ devList[b - 1] = i}
  IN IF later = {} THEN 0 ELSE devList[CHOOSE b \in later : TRUE]

\* The next pointer is saved, then the device is disconnected; a USB device
\* spends its usb_close handling events, and the saved pointer may go stale.
ExitOne ==
  /\ Running /\ pc = "exit" /\ iter # 0
  /\ IF inst[iter].st = "freed"
     THEN crash' = "freedDev" /\ UNCHANGED <<devices, pc, closing, ret, iter>>
     ELSE /\ iter' = Successor(iter)
          /\ Unlink(iter, IF inst[iter].kind = "usb" THEN "closing" ELSE "freed")
          /\ IF inst[iter].kind = "usb"
             THEN pc' = "close" /\ closing' = iter /\ ret' = "exit"
             ELSE UNCHANGED <<pc, closing, ret>>
          /\ UNCHANGED <<banList, crash>>
  /\ fed' = {}
  /\ UNCHANGED <<cable, todo, exiting, mark, doubleClosed>>

ExitDone ==
  /\ Running /\ pc = "exit" /\ iter = 0
  /\ pc' = "done" /\ fed' = {}
  /\ UNCHANGED <<cable, devices, todo, closing, ret, exiting, iter, mark, ghosts>>

\* usb_close returns and the driver frees the device.
CloseDone ==
  /\ Running /\ pc = "close"
  /\ inst' = [inst EXCEPT ![closing].st = "freed"]
  /\ pc' = ret /\ closing' = 0 /\ fed' = {}
  /\ UNCHANGED <<cable, born, devList, banList, todo, ret, exiting, iter, mark,
                 ghosts>>

-----------------------------------------------------------------------------
Library ==
  \/ Probe \/ (\E m \in Drivers : ProbeDriver(m)) \/ ProbeVirtual
  \/ UsbDone \/ PollAll \/ UpdateAll \/ DrainOne \/ DrainDone
  \/ ExitOne \/ ExitDone \/ CloseDone

Hotplug(u) == Left(u) \/ Arrived(u)

Next ==
  \/ \E u \in Units : Plug(u) \/ Unplug(u) \/ Hotplug(u)
  \/ \E i \in Ids : TransferFails(i)
  \/ Library \/ IdleIter \/ Exit

Spec == Init /\ [][Next]_vars

(***************************************************************************)
(* Fairness: the library's own steps are taken (it is one thread and does  *)
(* not block), the application goes on calling ctlra_idle_iter until it    *)
(* exits, and libusb delivers a queued hotplug event in one of the         *)
(* infinitely many handle_events calls that follow (strong fairness: a     *)
(* single call may return before it). Plugging, failing and exiting are    *)
(* never assumed.                                                          *)
(***************************************************************************)
Fairness ==
  /\ WF_vars(Library) /\ WF_vars(IdleIter)
  /\ SF_vars(\E u \in Units : Hotplug(u))

FairSpec == Spec /\ Fairness

-----------------------------------------------------------------------------
(***************************************************************************)
(* Properties                                                              *)
(***************************************************************************)

\* The two intrusive lists hold allocated devices only, each once; every
\* allocated device is in dev_list, or is the one in usb_close and then is in
\* no list, so that no callback can find it and disconnect it again.
ListsHoldAlive ==
  /\ Linked = {i \in Ids : inst[i].st = "linked"}
  /\ Range(banList) \subseteq Linked
  /\ NoDuplicates(devList) /\ NoDuplicates(banList)
  /\ {i \in Ids : inst[i].st = "closing"} = {closing} \ {0}

\* A banished device that was put on banished_list is gone when the idle
\* iteration returns: the application never gets control with one around.
BanishedDrained ==
  pc = "app" => /\ banList = <<>>
                /\ \A i \in Linked : inst[i].kind = "serial" => ~inst[i].banished

\* ctlra_exit disconnects every device the application had when it called it.
ExitDisconnectsAll ==
  pc = "done" => \A i \in 1..mark : inst[i].st = "freed" /\ inst[i].removals = 1

\* impl.h and ctlra.h: what the application may rely on (CtlraSession).
StandingOf(r) ==
  IF r.st = "unborn" THEN "absent"
  ELSE IF r.removals > 0 THEN "removed"
  ELSE IF r.banished THEN "failed" ELSE "working"
Standing == [i \in Ids |-> StandingOf(inst[i])]
Session == INSTANCE CtlraSession WITH sess <- Standing
ImplementsSession == Session!Spec

\* A device whose unit has been unplugged is removed in the end, however the
\* hotplug event and the failing transfers fall.
UnpluggedIsRemoved ==
  \A i \in Ids :
    inst[i].st = "linked" /\ inst[i].kind = "usb" /\ inst[i].unit \notin plugged
      ~> inst[i].st = "freed" \/ pc = "done" \/ ~Running

\* A unit that is plugged in and stays in gets an instance.
Driven(u) == \E i \in Alive : inst[i].unit = u
PluggedIsDriven ==
  \A u \in Units :
    (\E n \in DOMAIN events : events[n] = <<"arrived", u>>)
      ~> Driven(u) \/ u \notin plugged \/ exiting \/ ~Running

(***************************************************************************)
(* What the comments promise and the code does not keep                    *)
(***************************************************************************)

\* ctlra.c:553-554: "if any devices were banished (I/O Error, malfunctioned
\* etc) then we disconnect them here"
BanishedIsRemoved ==
  \A i \in Ids : inst[i].st = "linked" /\ inst[i].banished
                   ~> inst[i].st = "freed" \/ pc = "done" \/ ~Running

\* usb.c:226: "close the handle, since its no longer needed with the device
\* set up"
HandleClosedOnce == ~doubleClosed
=============================================================================
