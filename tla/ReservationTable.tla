-------------------------- MODULE ReservationTable --------------------------
(***************************************************************************)
(* What the routine scheduler promises about reservations: a holder takes  *)
(* all of its claims in one step, only when no other holder has any of     *)
(* them, and gives them all back in one step.                              *)
(***************************************************************************)
CONSTANTS
  Holders,   \* what may hold claims
  ClaimsOf   \* the claims of each holder

VARIABLE held   \* the holders that have their claims

Free(s) == \A t \in held : t # s => ClaimsOf[s] \cap ClaimsOf[t] = {}

Acquire(s) == s \notin held /\ Free(s) /\ held' = held \cup {s}
Release(s) == s \in held /\ held' = held \ {s}

Init == held = {}
Next == \E s \in Holders : Acquire(s) \/ Release(s)
Spec == Init /\ [][Next]_held
=============================================================================
