----------------------------- MODULE ReplyInbox -----------------------------
(***************************************************************************)
(* What the bridge promises about analyst replies: whatever people write   *)
(* in the Roam thread of a conversation reaches the customer's thread at   *)
(* most once, and nothing else does.                                       *)
(***************************************************************************)
EXTENDS Naturals

CONSTANT Replies      \* the replies an analyst may write to the conversation

VARIABLES
  written,   \* the replies written in Roam so far
  copies     \* copies[r]: messages the customer has for reply r

Init == written = {} /\ copies = [r \in Replies |-> 0]

Write(r) == written' = written \cup {r} /\ UNCHANGED copies

Accept(r) ==
  /\ r \in written
  /\ copies[r] = 0
  /\ copies' = [copies EXCEPT ![r] = 1]
  /\ UNCHANGED written

Next == \E r \in Replies : Write(r) \/ Accept(r)

Spec == Init /\ [][Next]_<<written, copies>>

=============================================================================
