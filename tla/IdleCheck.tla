------------------------------ MODULE IdleCheck ------------------------------
(***************************************************************************)
(* conversations.check_idle: what Celery beat starts every minute to       *)
(* escalate, nudge, auto-resolve and auto-close, by the clock.  A run      *)
(* fixes its notion of now when it starts, queries once per branch and     *)
(* acts on what the query returned; the guards against repetition are      *)
(* searches for an earlier system message.                                 *)
(*                                                                         *)
(* One conversation: others only delay a run between two steps, which any  *)
(* step here may be.  People act in single steps (ConversationLifecycle    *)
(* has them in detail).  Abstracted: the system message of an auto-close,  *)
(* wording, SSE, Roam, and the severity (the threshold is a constant).     *)
(* Names ending in Mutant are wrong on purpose, see ConversationRow.       *)
(***************************************************************************)
EXTENDS ConversationRow

CONSTANTS
  Runs,           \* runs of the task that may overlap
  EscalateAfter,  \* SOC_IDLE_THRESHOLDS of the conversation's severity
  NudgeAfter,     \* CUSTOMER_NUDGE_HOURS
  ResolveAfter,   \* CUSTOMER_AUTO_RESOLVE_HOURS
  CloseAfter,     \* RESOLVED_AUTO_CLOSE_HOURS
  MaxTime,        \* bound: the last instant of a behaviour
  MaxCrashes      \* bound: runs cut off

ASSUME IdleAssumption ==
  /\ {EscalateAfter, NudgeAfter, ResolveAfter, CloseAfter} \subseteq Nat \ {0}
  /\ NudgeAfter < ResolveAfter
  /\ MaxTime \in Nat /\ MaxCrashes \in Nat

VARIABLES
  clock,
  status,
  last_message_at,   \* of the newest human message or reopening
  resolved_at,       \* 0: null
  escalated_at,      \* of the newest "sorry for the wait" message; 0: none
  nudged_at,         \* of the newest "checking in" message; 0: none
  told,              \* a "haven't heard back" message exists
  run,               \* run[t]: the step and the now of run t
  crashes

vars == <<clock, status, last_message_at, resolved_at, escalated_at, nudged_at,
          told, run, crashes>>
people == <<status, last_message_at, resolved_at>>
notes  == <<escalated_at, nudged_at, told>>

Steps == {"idle", "soc", "escalation?", "escalate", "customer", "resolution?", "resolve",
          "tell", "nudge?", "nudge", "resolved", "close"}

Idle == [step |-> "idle", now |-> 0]

TypeOK ==
  /\ clock \in Times /\ last_message_at \in Times /\ resolved_at \in Times
  /\ escalated_at \in Times /\ nudged_at \in Times
  /\ crashes \in Nat
  /\ status \in Statuses
  /\ told \in BOOLEAN
  /\ run \in [Runs -> [step : Steps, now : Times]]

Init ==
  /\ clock = 1
  /\ status = "queued"
  /\ last_message_at = 1
  /\ resolved_at = 0
  /\ escalated_at = 0
  /\ nudged_at = 0
  /\ told = FALSE
  /\ run = [t \in Runs |-> Idle]
  /\ crashes = 0

Tick ==
  /\ clock < MaxTime
  /\ clock' = clock + 1
  /\ UNCHANGED <<people, notes, run, crashes>>

-----------------------------------------------------------------------------
(* People. *)

CustomerWrites ==
  /\ status # "closed"
  /\ last_message_at' = clock
  /\ status' = IF ChangedByCustomer(status) THEN "waiting_soc" ELSE status
  /\ UNCHANGED <<clock, resolved_at, notes, run, crashes>>

AnalystReplies ==
  /\ last_message_at' = clock
  /\ status' = IF ChangedByAnalyst(status) THEN "waiting_customer" ELSE status
  /\ UNCHANGED <<clock, resolved_at, notes, run, crashes>>

Resolve ==
  /\ status \in Resolvable
  /\ status' = "resolved"
  /\ resolved_at' = clock
  /\ UNCHANGED <<clock, last_message_at, notes, run, crashes>>

Close ==
  /\ status \in Closeable
  /\ status' = "closed"
  /\ UNCHANGED <<clock, last_message_at, resolved_at, notes, run, crashes>>

Reopen ==
  /\ status \in Reopenable
  /\ status' = "waiting_soc"
  /\ last_message_at' = clock
  /\ UNCHANGED <<clock, resolved_at, notes, run, crashes>>

People == CustomerWrites \/ AnalystReplies \/ Resolve \/ Close \/ Reopen

-----------------------------------------------------------------------------
(* A run of the task. *)

At(t, step)   == run[t].step = step
Goto(t, step) == run' = [run EXCEPT ![t].step = step]
End(t)        == run' = [run EXCEPT ![t] = Idle]
Since(t, time, period) == time + period <= run[t].now
Within(t, time, period) == time # 0 /\ time + period >= run[t].now

Start(t) ==
  /\ At(t, "idle")
  /\ run' = [run EXCEPT ![t] = [step |-> "soc", now |-> clock]]
  /\ UNCHANGED <<clock, people, notes, crashes>>

\* _check_soc_idle
SocQuery(t) ==
  /\ At(t, "soc")
  /\ Goto(t, IF status \in {"queued", "waiting_soc"} /\ Since(t, last_message_at, EscalateAfter)
             THEN "escalation?" ELSE "customer")
  /\ UNCHANGED <<clock, people, notes, crashes>>

RecentEscalationMutant(t) ==   \* within 1x threshold
  /\ At(t, "escalation?")
  /\ Goto(t, IF Within(t, escalated_at, EscalateAfter) THEN "customer" ELSE "escalate")
  /\ UNCHANGED <<clock, people, notes, crashes>>

RecentEscalation(t) ==
  /\ At(t, "escalation?")
  /\ Goto(t, IF Within(t, escalated_at, EscalateAfter * 2) THEN "customer" ELSE "escalate")
  /\ UNCHANGED <<clock, people, notes, crashes>>

Escalate(t) ==
  /\ At(t, "escalate")
  /\ escalated_at' = clock
  /\ Goto(t, "customer")
  /\ UNCHANGED <<clock, people, nudged_at, told, crashes>>

\* _check_customer_idle
CustomerQueryMutant(t) ==   \* the two thresholds in the wrong order
  /\ At(t, "customer")
  /\ Goto(t, IF status # "waiting_customer" THEN "resolved"
             ELSE IF Since(t, last_message_at, NudgeAfter) THEN "nudge?"
             ELSE IF Since(t, last_message_at, ResolveAfter) THEN "resolution?"
             ELSE "resolved")
  /\ UNCHANGED <<clock, people, notes, crashes>>

CustomerQuery(t) ==
  /\ At(t, "customer")
  /\ Goto(t, IF status # "waiting_customer" THEN "resolved"
             ELSE IF Since(t, last_message_at, ResolveAfter) THEN "resolution?"
             ELSE IF Since(t, last_message_at, NudgeAfter) THEN "nudge?"
             ELSE "resolved")
  /\ UNCHANGED <<clock, people, notes, crashes>>

AlreadyResolved(t) ==
  /\ At(t, "resolution?")
  /\ Goto(t, IF told THEN "resolved" ELSE "resolve")
  /\ UNCHANGED <<clock, people, notes, crashes>>

AutoResolve(t) ==
  /\ At(t, "resolve")
  /\ status' = "resolved"
  /\ resolved_at' = run[t].now
  /\ Goto(t, "tell")
  /\ UNCHANGED <<clock, last_message_at, notes, crashes>>

Tell(t) ==
  /\ At(t, "tell")
  /\ told' = TRUE
  /\ Goto(t, "resolved")
  /\ UNCHANGED <<clock, people, escalated_at, nudged_at, crashes>>

AlreadyNudgedMutant(t) ==   \* the window ends at the nudge threshold: twice in one silence
  /\ At(t, "nudge?")
  /\ Goto(t, IF Within(t, nudged_at, NudgeAfter - 1) THEN "resolved" ELSE "nudge")
  /\ UNCHANGED <<clock, people, notes, crashes>>

AlreadyNudged(t) ==
  /\ At(t, "nudge?")
  /\ Goto(t, IF Within(t, nudged_at, ResolveAfter) THEN "resolved" ELSE "nudge")
  /\ UNCHANGED <<clock, people, notes, crashes>>

Nudge(t) ==
  /\ At(t, "nudge")
  /\ nudged_at' = clock
  /\ Goto(t, "resolved")
  /\ UNCHANGED <<clock, people, escalated_at, told, crashes>>

\* _check_resolved_idle
ResolvedQueryMutant(t) ==   \* resolved_at__gte
  /\ At(t, "resolved")
  /\ IF status = "resolved" /\ Within(t, resolved_at, CloseAfter) THEN Goto(t, "close") ELSE End(t)
  /\ UNCHANGED <<clock, people, notes, crashes>>

ResolvedQuery(t) ==
  /\ At(t, "resolved")
  /\ IF status = "resolved" /\ resolved_at # 0 /\ Since(t, resolved_at, CloseAfter)
     THEN Goto(t, "close") ELSE End(t)
  /\ UNCHANGED <<clock, people, notes, crashes>>

AutoClose(t) ==
  /\ At(t, "close")
  /\ status' = "closed"
  /\ End(t)
  /\ UNCHANGED <<clock, last_message_at, resolved_at, notes, crashes>>

Step(t) ==
  \/ Start(t)
  \/ SocQuery(t) \/ RecentEscalation(t) \/ Escalate(t)
  \/ CustomerQuery(t) \/ AlreadyResolved(t) \/ AutoResolve(t) \/ Tell(t)
  \/ AlreadyNudged(t) \/ Nudge(t)
  \/ ResolvedQuery(t) \/ AutoClose(t)

\* A run that dies in one branch never reaches the others (max_retries=0).
Crash(t) ==
  /\ ~At(t, "idle")
  /\ crashes < MaxCrashes
  /\ crashes' = crashes + 1
  /\ End(t)
  /\ UNCHANGED <<clock, people, notes>>

Next == Tick \/ People \/ \E t \in Runs : Step(t) \/ Crash(t)

Spec == Init /\ [][Next]_vars

\* Beat starts runs again and again and the worker carries them through.
\* Nothing is assumed about people, and nothing about the clock.
FairSpec == Spec /\ \A t \in Runs : WF_vars(Step(t))

-----------------------------------------------------------------------------
\* Two escalation notices are more than twice the threshold apart, counted
\* from when they were written, unless the run that writes the second was
\* already under way when the first was written.
EscalationsSpaced ==
  [][\A t \in Runs : Escalate(t) =>
       \/ escalated_at = 0
       \/ escalated_at + EscalateAfter * 2 < clock
       \/ run[t].now <= escalated_at]_vars

\* A silent customer is nudged once: no second nudge comes unless a person has
\* written or reopened since the first, or the run that writes it was already
\* under way when the first was written.
NudgedOnce ==
  [][\A t \in Runs : Nudge(t) => nudged_at <= last_message_at \/ run[t].now <= nudged_at]_vars

Silent == status = "waiting_customer" /\ last_message_at + ResolveAfter <= clock

\* A customer who is silent for ResolveAfter does not stay waited for, if runs
\* keep being started; the first time, for the search for an earlier
\* auto-resolution has no time window.
FirstSilenceResolved == (Silent /\ ~told) ~> (~Silent \/ told)

Rested == status = "resolved" /\ resolved_at + CloseAfter <= clock

\* A conversation resolved CloseAfter ago does not stay resolved: it is closed
\* unless somebody acts on it first.
RestedIsClosed == Rested ~> ~Rested

=============================================================================
