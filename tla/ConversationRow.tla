--------------------------- MODULE ConversationRow ---------------------------
(***************************************************************************)
(* The Conversation row of apps/conversations/models.py: its status        *)
(* vocabulary, the guard sets the operations test, and what the save of    *)
(* each operation writes.  A save names its columns (update_fields), so it *)
(* maps the row as it is NOW to the row after it; the values come from     *)
(* what the request SAW earlier and from the time it took.                 *)
(*                                                                         *)
(* Definitions whose name ends in Mutant are wrong on purpose: each is a   *)
(* slip the code could contain, and a run must notice it.                  *)
(***************************************************************************)
EXTENDS Naturals

Statuses == {"new", "queued", "assigned", "waiting_customer", "waiting_soc",
             "resolved", "closed"}

\* services.py: _RESOLVABLE_STATUSES, _CLOSEABLE_STATUSES, _REOPENABLE_STATUSES
Resolvable == {"assigned", "waiting_customer", "waiting_soc"}
CloseableMutant == {"queued", "resolved", "assigned", "waiting_customer", "waiting_soc"}
Closeable  == {"resolved", "assigned", "waiting_customer", "waiting_soc"}
Reopenable == {"resolved", "closed"}

\* A customer message writes the status only out of these two ...
ChangedByCustomerMutant(status) == status = "resolved"
ChangedByCustomer(status) == status \in {"waiting_customer", "resolved"}

\* ... and an analyst reply only out of these two.
ChangedByAnalystMutant(status) == status = "waiting_soc"
ChangedByAnalyst(status) == status \in {"queued", "waiting_soc"}

-----------------------------------------------------------------------------
Times == Nat   \* a time; 0 is the null of a DateTimeField

Rows == [status : Statuses, first_response_at : Times,
         resolved_at : Times, closed_at : Times]

\* create_conversation stores QUEUED and no later stamp.
NewRow == [status |-> "queued", first_response_at |-> 0,
           resolved_at |-> 0, closed_at |-> 0]

-----------------------------------------------------------------------------
(* The saves: now is the row's current content, seen the request's snapshot. *)

AfterSendMutant(now, seen) ==   \* save() without update_fields
  [seen EXCEPT !.status = IF ChangedByCustomer(@) THEN "waiting_soc" ELSE @]

AfterSend(now, seen) ==
  [now EXCEPT !.status = IF ChangedByCustomer(seen.status) THEN "waiting_soc" ELSE @]

AfterReplyMutant(now, seen, time) ==   \* stamps every reply
  [now EXCEPT !.first_response_at = time,
              !.status = IF ChangedByAnalyst(seen.status) THEN "waiting_customer" ELSE @]

AfterReply(now, seen, time) ==
  [now EXCEPT !.first_response_at = IF seen.first_response_at = 0 THEN time ELSE @,
              !.status = IF ChangedByAnalyst(seen.status) THEN "waiting_customer" ELSE @]

AfterResolve(now, time) == [now EXCEPT !.status = "resolved", !.resolved_at = time]

AfterCloseMutant(now, time) == [now EXCEPT !.status = "closed"]   \* closed_at not in update_fields

AfterClose(now, time) == [now EXCEPT !.status = "closed", !.closed_at = time]

\* closed_at is in update_fields whatever the snapshot held, so the save
\* writes null when the snapshot's closed_at was set and when it was null.
AfterReopen(now) == [now EXCEPT !.status = "waiting_soc", !.closed_at = 0]

=============================================================================
