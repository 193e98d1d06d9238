------------------------------ MODULE Transfers ------------------------------
(***************************************************************************)
(* What the transfer layer promises the drivers: a transfer that was       *)
(* accepted is told to the driver's usb_read_cb once, one after the other; *)
(* while the device works none is lost; no direction has more than Max     *)
(* under way; after the handles are closed nothing is told.                *)
(***************************************************************************)
EXTENDS Naturals, FiniteSets

CONSTANTS Slots,   \* the transfers there can be
          Max      \* how many of each direction may be under way

VARIABLES
  way,       \* what is under way in a slot: "nothing", "read" or "write"
  telling,   \* the slot whose completion the driver is being told, if any
  state      \* of the device: "works", "failed", "closing" or "closed"

vars == <<way, telling, state>>

Under(kind) == {s \in Slots : way[s] = kind}

Init ==
  /\ way = [s \in Slots |-> "nothing"]
  /\ telling = {}
  /\ state = "works"

\* The driver may submit while it is being told something. What finds no room is
\* dropped, which is no step.
Accept(s, kind) ==
  /\ state # "closed"
  /\ way[s] = "nothing"
  /\ Cardinality(Under(kind)) < Max
  /\ way' = [way EXCEPT ![s] = kind]
  /\ UNCHANGED <<telling, state>>

Tell(s) ==
  /\ state # "closed"
  /\ way[s] # "nothing" /\ telling = {}
  /\ telling' = {s}
  /\ UNCHANGED <<way, state>>

Told(s) ==
  /\ telling = {s}
  /\ way' = [way EXCEPT ![s] = "nothing"]
  /\ telling' = {}
  /\ UNCHANGED state

\* A transfer ends without being told only with the device.
Lose(s) ==
  /\ way[s] # "nothing" /\ telling = {}
  /\ way' = [way EXCEPT ![s] = "nothing"]
  /\ \/ state \in {"works", "failed"} /\ state' = "failed"
     \/ state = "closing" /\ UNCHANGED state
  /\ UNCHANGED telling

\* A device is closed with what is still under way.
BeginClose ==
  /\ state \in {"works", "failed"} /\ telling = {}
  /\ state' = "closing"
  /\ UNCHANGED <<way, telling>>

EndClose ==
  /\ state = "closing" /\ telling = {}
  /\ state' = "closed"
  /\ UNCHANGED <<way, telling>>

Next ==
  \/ \E s \in Slots : Accept(s, "read") \/ Accept(s, "write") \/ Tell(s) \/ Told(s) \/ Lose(s)
  \/ BeginClose \/ EndClose

Spec == Init /\ [][Next]_vars
=============================================================================
