---------------------------- MODULE CtlraSession ----------------------------
(***************************************************************************)
(* What an application may rely on about one device instance, as the       *)
(* public header puts it (ctlra/ctlra.h): the instance is offered once; if *)
(* it is accepted it works until it fails or is removed; the remove        *)
(* callback comes once and is the last that is heard of it; feedback is    *)
(* asked for working instances only.                                       *)
(***************************************************************************)
CONSTANT Ids

VARIABLES
  sess,   \* where each instance stands with the application
  fed     \* the instances whose feedback function the last pass has called

vars == <<sess, fed>>

Init == sess = [i \in Ids |-> "absent"] /\ fed = {}

In(state) == {i \in Ids : sess[i] \in state}

\* Instances are set up and offered; the application takes or refuses them.
Offer(i, answer) ==
  /\ i \in In({"absent"})
  /\ sess' = [sess EXCEPT ![i] = answer]
  /\ fed' = {}

Fail(S) ==
  /\ S \subseteq In({"working"})
  /\ sess' = [i \in Ids |-> IF i \in S THEN "failed" ELSE sess[i]]
  /\ fed' = {}

Remove(S) ==
  /\ S \subseteq In({"working", "failed"})
  /\ sess' = [i \in Ids |-> IF i \in S THEN "removed" ELSE sess[i]]
  /\ fed' = {}

Feed(S) ==
  /\ S \subseteq In({"working"})
  /\ fed' = S
  /\ UNCHANGED sess

Next ==
  \/ \E i \in Ids, answer \in {"working", "removed"} : Offer(i, answer)
  \/ \E S \in SUBSET Ids : Fail(S) \/ Remove(S) \/ Feed(S)

Spec == Init /\ [][Next]_vars
=============================================================================
