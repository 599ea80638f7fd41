------------------------------ MODULE MCTeleop ------------------------------
(***************************************************************************)
(* Threads are alike, and so are registered robots.                        *)
(***************************************************************************)
EXTENDS Teleop, TLC

Alike == Permutations(Thread) \cup Permutations(Known)
=============================================================================
