-------------------------------- MODULE Firmata --------------------------------
(***************************************************************************)
(* A footswitch on a Firmata board (devices/firmata.c). The serial line    *)
(* and its protocol belong to a library outside the repository, which      *)
(* keeps the last value of every pin: here a report of one pin.            *)
(*                                                                         *)
(* firmata_poll banishes the device when the line fails and decodes the    *)
(* pin once more all the same; Ctlra has the banishing (PollAll).           *)
(***************************************************************************)
EXTENDS Controls

\* info declares a slider, which has the name "Invalid", and not the footswitch.
Names == [button |-> 1, slider |-> 0, encoder |-> 0, grid |-> 0, feedback |-> 0]
Counts == [button |-> 0, slider |-> 1, encoder |-> 0, grid |-> 0, feedback |-> 0]

-----------------------------------------------------------------------------
Sizes == {2}
Memory0 == [hw |-> [i \in {0} |-> 0]]

\* Pressed above the middle of the converter's range.
ReadCb(m, rep) ==
  LET k == Scan(1, 0, LAMBDA i : Pressed(Word(rep.b, 0) - 512), LAMBDA i, v : Button(i, v), m.hw)
  IN [m |-> [hw |-> k.hw], ev |-> k.ev]

\* The device (external): just above the threshold, and all the way down.
Touches == {Touch(2, WordAt(0, v), Button(0, 1)) : v \in {513, 1023}}
Sticky == {}
Knobs == {}

-----------------------------------------------------------------------------
\* light_flush writes nothing.
LightFlush(force) == <<>>
===============================================================================
