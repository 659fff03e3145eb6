--------------------------- MODULE CappedIssuance ---------------------------
(***************************************************************************)
(* What the distro module promises while its parameters stay the same: an  *)
(* amount of tokens that only grows, under a ceiling that only rises.      *)
(***************************************************************************)
EXTENDS Naturals

VARIABLES issued, ceiling

vars == <<issued, ceiling>>

Init == issued \in Nat /\ ceiling \in Nat

\* Any number of tokens is issued at once, up to the ceiling.
Issue ==
    /\ issued' > issued /\ issued' <= ceiling
    /\ ceiling' = ceiling

Raise ==
    /\ ceiling' > ceiling
    /\ issued' = issued

Next == Issue \/ Raise

Spec == Init /\ [][Next]_vars

=============================================================================
