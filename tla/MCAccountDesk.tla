----------------------------- MODULE MCAccountDesk -----------------------------
(* Values for TLC: two accounts from the seeds, and room for one that registers. *)
EXTENDS AccountDesk, TLC

MCSeeded == 1 :> "ana" @@ 2 :> "ben" @@ 3 :> "none"
=============================================================================
