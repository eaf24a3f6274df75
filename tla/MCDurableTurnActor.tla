------------------------- MODULE MCDurableTurnActor -------------------------
(* Finite instances of DurableTurnActor for TLC. *)
EXTENDS DurableTurnActor, TLC

\* Tasks of the process are interchangeable; so are actor ids.
Symmetry == Permutations(Clients) \cup Permutations(Actors)
=============================================================================
