------------------------ MODULE MC_KillSessionsLocal ------------------------
(* Two sessions and two kill procedures: enough for a kill to be scanned   *)
(* while the session's own command is in flight, and for a second          *)
(* procedure to start once the first is done.                              *)
EXTENDS KillSessionsLocal, TLC

CONSTANTS s1, s2

MCSessions == {s1, s2}

MCSymmetry == Permutations(MCSessions)

=============================================================================
