---------------------- MODULE MCConversationLifecycle ----------------------
(***************************************************************************)
(* Model-checking instance of ConversationLifecycle.  Workers are          *)
(* interchangeable, so the safety runs use their permutations as symmetry. *)
(***************************************************************************)
EXTENDS ConversationLifecycle, TLC

WorkerSymmetry == Permutations(Workers)

=============================================================================
