-------------------------- MODULE MCAuthentication --------------------------
(***************************************************************************)
(* Model-checking instance of Authentication: a key that may go, one that  *)
(* may come, a token of each and one for Firebase.                         *)
(***************************************************************************)
EXTENDS Authentication

CONSTANTS old, new

MCTokens == {[issuer |-> "cognito", kid |-> old], [issuer |-> "cognito", kid |-> new],
             [issuer |-> "other", kid |-> NoKey]}

=============================================================================
