------------------------- MODULE MCCustomerRequests -------------------------
(***************************************************************************)
(* Model-checking instance of CustomerRequests: request threads are        *)
(* interchangeable, and every send goes to the first conversation.         *)
(***************************************************************************)
EXTENDS CustomerRequests, TLC

CONSTANT first   \* the key of the conversation that is sent to

MCInto == [k \in SendKeys |-> first]

WorkerSymmetry == Permutations(Workers)

=============================================================================
