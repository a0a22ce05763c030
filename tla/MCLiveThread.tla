---------------------------- MODULE MCLiveThread ----------------------------
(***************************************************************************)
(* Model-checking instance of LiveThread.                                  *)
(***************************************************************************)
EXTENDS LiveThread, TLC

RequestSymmetry == Permutations(Requests)

=============================================================================
