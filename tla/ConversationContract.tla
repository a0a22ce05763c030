------------------------ MODULE ConversationContract ------------------------
(***************************************************************************)
(* What the lifecycle of one conversation promises, whatever requests on   *)
(* it overlap: an operation whose decision still fits the row is a single  *)
(* step on the current status, along the moves its guard allows.  One that *)
(* was overtaken writes the columns of its operation over whatever status  *)
(* is there, but never over a queued conversation, and it takes no answer  *)
(* back.                                                                   *)
(***************************************************************************)

VARIABLES
  status,        \* the current status
  answered,      \* an analyst has replied (the SLA clock of the first reply)
  stamped,       \* a closing time is recorded
  overtaken      \* the latest operation was decided on a status of the past

vars == <<status, answered, stamped, overtaken>>

\* The moves each operation may make, written out pair by pair.
CustomerMoves == {<<"waiting_customer", "waiting_soc">>, <<"resolved", "waiting_soc">>}
AnalystMoves  == {<<"queued", "waiting_customer">>, <<"waiting_soc", "waiting_customer">>}
ResolveMoves  == {<<"waiting_customer", "resolved">>, <<"waiting_soc", "resolved">>}
CloseMoves    == {<<"waiting_customer", "closed">>, <<"waiting_soc", "closed">>,
                  <<"resolved", "closed">>}
ReopenMoves   == {<<"resolved", "waiting_soc">>, <<"closed", "waiting_soc">>}

Init == status = "queued" /\ answered = FALSE /\ stamped = FALSE /\ overtaken = FALSE

Take(moves) == overtaken' = FALSE /\ <<status, status'>> \in moves

\* An operation that leaves the status alone because its moves do not start
\* there; only writing may do so, the others are refused.
Keep(moves) ==
  /\ overtaken' = FALSE
  /\ status \notin {move[1] : move \in moves}
  /\ UNCHANGED status

CustomerWrites ==
  /\ Take(CustomerMoves) \/ Keep(CustomerMoves)
  /\ UNCHANGED <<answered, stamped>>

\* It counts as the first answer whether or not the status moves.
AnalystReplies ==
  /\ Take(AnalystMoves) \/ Keep(AnalystMoves)
  /\ answered' = TRUE
  /\ UNCHANGED stamped

\* By an analyst, or by the idle check when the customer stays silent.
Resolve == Take(ResolveMoves) /\ UNCHANGED <<answered, stamped>>

\* By the customer, or by the idle check when the resolution has aged.
Close == Take(CloseMoves) /\ stamped' = TRUE /\ UNCHANGED answered

Reopen == Take(ReopenMoves) /\ stamped' = FALSE /\ UNCHANGED answered

\* The columns an overtaken operation may write.
Overtaken ==
  /\ overtaken' = TRUE
  /\ status # "queued"
  /\ \/ status' \in {status, "waiting_soc", "resolved"} /\ UNCHANGED <<answered, stamped>>
     \/ status' \in {status, "waiting_customer"} /\ answered' = TRUE /\ UNCHANGED stamped
     \/ status' = "closed" /\ stamped' = TRUE /\ UNCHANGED answered
     \/ status' = "waiting_soc" /\ stamped' = FALSE /\ UNCHANGED answered

Next == CustomerWrites \/ AnalystReplies \/ Resolve \/ Close \/ Reopen \/ Overtaken

Spec == Init /\ [][Next]_vars

=============================================================================
