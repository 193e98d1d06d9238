-------------------------------- MODULE Lists --------------------------------
(***************************************************************************)
(* What a loop over a list or a table keeps of it: the devices that are    *)
(* not unlinked, the controls whose values have changed.                   *)
(***************************************************************************)
EXTENDS Naturals, Sequences, FiniteSets

\* What is left of the list s without everything outside S: its elements in S,
\* in their order. The n-th of them is the one with n of them at positions up to
\* its own.
Only(s, S) ==
  LET kept == {a \in DOMAIN s : s[a] \in S}
  IN [n \in 1..Cardinality(kept) |->
        s[CHOOSE a \in kept : Cardinality(kept \cap 1..a) = n]]

NoDuplicates(s) == \A a, b \in DOMAIN s : s[a] = s[b] => a = b
===============================================================================
