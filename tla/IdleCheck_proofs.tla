-------------------------- MODULE IdleCheck_proofs --------------------------
(***************************************************************************)
(* What holds of the idle check for any thresholds, any time and any       *)
(* number of runs, overlapping and cut off at will.                        *)
(***************************************************************************)
EXTENDS IdleCheck, TLAPS

\* The initial state is well typed.
LEMMA TypeInit == Init => TypeOK
<1> SUFFICES ASSUME Init PROVE TypeOK
  OBVIOUS
<1>1. run \in [Runs -> [step : Steps, now : Times]]
  BY DEF Init, Idle, Steps, Times
<1> QED BY <1>1 DEF Init, TypeOK, Statuses, Times

\* A step of a run leaves types intact.
LEMMA TypeRunStep ==
  ASSUME TypeOK, NEW t \in Runs, Step(t) \/ Crash(t)
  PROVE  TypeOK'
<1> USE DEF TypeOK, Statuses, Times, Steps, Idle, Goto, End, people, notes
<1>1. CASE Start(t)
  BY <1>1 DEF Start
<1>2. CASE SocQuery(t) \/ RecentEscalation(t) \/ Escalate(t)
  BY <1>2 DEF SocQuery, RecentEscalation, Escalate
<1>3. CASE CustomerQuery(t) \/ AlreadyResolved(t) \/ AlreadyNudged(t)
  BY <1>3 DEF CustomerQuery, AlreadyResolved, AlreadyNudged
<1>4. CASE AutoResolve(t) \/ Tell(t) \/ Nudge(t)
  BY <1>4 DEF AutoResolve, Tell, Nudge
<1>5. CASE ResolvedQuery(t) \/ AutoClose(t)
  BY <1>5 DEF ResolvedQuery, AutoClose
<1>6. CASE Crash(t)
  BY <1>6 DEF Crash
<1> QED BY <1>1, <1>2, <1>3, <1>4, <1>5, <1>6 DEF Step

\* Every step leaves types intact.
LEMMA TypeStep == TypeOK /\ [Next]_vars => TypeOK'
<1> SUFFICES ASSUME TypeOK, [Next]_vars PROVE TypeOK'
  OBVIOUS
<1>1. CASE Tick
  BY <1>1 DEF Tick, TypeOK, Times, people, notes
<1>2. CASE People
  BY <1>2 DEF People, CustomerWrites, AnalystReplies, Resolve, Close, Reopen, TypeOK, Times,
     notes, Statuses
<1>3. CASE UNCHANGED vars
  BY <1>3 DEF vars, TypeOK
<1> QED BY <1>1, <1>2, <1>3, TypeRunStep DEF Next

\* The state of the idle check is always well typed.
THEOREM TypeCorrect == Spec => []TypeOK
<1>1. Init => TypeOK
  BY TypeInit
<1>2. TypeOK /\ [Next]_vars => TypeOK'
  BY TypeStep
<1> QED BY <1>1, <1>2, PTL DEF Spec

-----------------------------------------------------------------------------
\* What run t has established when it is about to write a notice: it searched
\* for an earlier one, and what it did not find can only have been written by
\* another run in the meantime.
EarnedBy(t) ==
  /\ run[t].now <= clock
  /\ At(t, "escalate") =>
       \/ escalated_at = 0
       \/ escalated_at + EscalateAfter * 2 < run[t].now
       \/ run[t].now <= escalated_at
  /\ run[t].step \in {"nudge?", "nudge"} => run[t].now < last_message_at + ResolveAfter
  /\ At(t, "nudge") =>
       \/ nudged_at = 0
       \/ nudged_at + ResolveAfter < run[t].now
       \/ run[t].now <= nudged_at

Earned == last_message_at <= clock /\ \A t \in Runs : EarnedBy(t)

IdleInv == TypeOK /\ Earned

\* What the people do and the passing of time keep what a run established.
LEMMA PeopleKeepEarned ==
  ASSUME IdleInv, Tick \/ People
  PROVE  Earned'
<1>1. /\ clock \in Nat /\ last_message_at \in Nat /\ ResolveAfter \in Nat
      /\ last_message_at <= clock /\ \A t \in Runs : run[t].now \in Nat
  BY IdleAssumption DEF IdleInv, TypeOK, Times, Earned
<1>2. UNCHANGED <<run, escalated_at, nudged_at>>
  BY DEF Tick, People, CustomerWrites, AnalystReplies, Resolve, Close, Reopen, notes
<1>3. /\ clock <= clock' /\ last_message_at <= last_message_at' /\ last_message_at' <= clock'
      /\ clock' \in Nat /\ last_message_at' \in Nat
  BY <1>1 DEF Tick, People, CustomerWrites, AnalystReplies, Resolve, Close, Reopen, people
<1> QED BY <1>1, <1>2, <1>3 DEF IdleInv, Earned, EarnedBy, At

\* A notice written now is not older than any run under way, so no step of a
\* run disturbs what another one established.
LEMMA OthersKeepEarned ==
  ASSUME IdleInv, NEW t \in Runs, NEW u \in Runs \ {t}, Step(t) \/ Crash(t)
  PROVE  EarnedBy(u)'
<1>1. /\ clock \in Nat /\ last_message_at \in Nat /\ escalated_at \in Nat /\ nudged_at \in Nat
      /\ run[u].now \in Nat /\ EarnedBy(u) /\ DOMAIN run = Runs
      /\ ResolveAfter \in Nat /\ EscalateAfter \in Nat
  BY IdleAssumption DEF IdleInv, TypeOK, Times, Earned
<1>2. run'[u] = run[u]
  BY <1>1 DEF Step, Start, SocQuery, RecentEscalation, Escalate, CustomerQuery, AlreadyResolved,
     AutoResolve, Tell, AlreadyNudged, Nudge, ResolvedQuery, AutoClose, Crash, Goto, End
<1>3. /\ UNCHANGED <<clock, last_message_at>>
      /\ escalated_at' \in {escalated_at, clock} /\ nudged_at' \in {nudged_at, clock}
  BY DEF Step, Start, SocQuery, RecentEscalation, Escalate, CustomerQuery, AlreadyResolved,
     AutoResolve, Tell, AlreadyNudged, Nudge, ResolvedQuery, AutoClose, Crash, people, notes
<1> QED BY <1>1, <1>2, <1>3 DEF EarnedBy, At

\* A run establishes what it needs before it writes a notice.
LEMMA RunEarns ==
  ASSUME IdleInv, NEW t \in Runs, Step(t) \/ Crash(t)
  PROVE  EarnedBy(t)'
<1> DEFINE Quiet(step) ==
      /\ run' = [run EXCEPT ![t].step = step] \/ run' = [run EXCEPT ![t] = Idle]
      /\ UNCHANGED <<clock, last_message_at>>
<1>1. /\ clock \in Nat /\ last_message_at \in Nat /\ escalated_at \in Nat /\ nudged_at \in Nat
      /\ run[t].now \in Nat /\ run[t].now <= clock
      /\ ResolveAfter \in Nat /\ EscalateAfter \in Nat
      /\ run[t] = [step |-> run[t].step, now |-> run[t].now] /\ DOMAIN run = Runs
  BY IdleAssumption DEF IdleInv, TypeOK, Times, Earned, EarnedBy
<1>2. ASSUME NEW step \in Steps \ {"escalate", "nudge?", "nudge"}, Quiet(step)
      PROVE  EarnedBy(t)'
  BY <1>1, <1>2 DEF EarnedBy, At, Idle
<1>3. CASE Start(t)
  BY <1>1, <1>3 DEF Start, EarnedBy, At, people
<1>4. CASE SocQuery(t)
  <2>1. PICK step \in {"escalation?", "customer"} : Goto(t, step)
    BY <1>4 DEF SocQuery
  <2> QED BY <1>2, <1>4, <2>1 DEF SocQuery, Goto, people, Steps
<1>5. CASE RecentEscalation(t)
  <2>1. CASE Within(t, escalated_at, EscalateAfter * 2)
    BY <1>2, <1>5, <2>1 DEF RecentEscalation, Goto, people, Steps
  <2>2. CASE ~Within(t, escalated_at, EscalateAfter * 2)
    BY <1>1, <1>5, <2>2 DEF RecentEscalation, Within, Goto, people, notes, EarnedBy, At
  <2> QED BY <2>1, <2>2
<1>6. CASE CustomerQuery(t)
  <2>1. CASE status = "waiting_customer" /\ ~Since(t, last_message_at, ResolveAfter)
             /\ Since(t, last_message_at, NudgeAfter)
    BY <1>1, <1>6, <2>1 DEF CustomerQuery, Since, Goto, people, EarnedBy, At
  <2>2. CASE ~(status = "waiting_customer" /\ ~Since(t, last_message_at, ResolveAfter)
               /\ Since(t, last_message_at, NudgeAfter))
    <3>1. PICK step \in {"resolution?", "resolved"} : Goto(t, step)
      BY <1>6, <2>2 DEF CustomerQuery
    <3> QED BY <1>2, <1>6, <3>1 DEF CustomerQuery, Goto, people, Steps
  <2> QED BY <2>1, <2>2
<1>7. CASE AlreadyNudged(t)
  <2>1. CASE Within(t, nudged_at, ResolveAfter)
    BY <1>2, <1>7, <2>1 DEF AlreadyNudged, Goto, people, Steps
  <2>2. CASE ~Within(t, nudged_at, ResolveAfter)
    <3>1. run[t].now < last_message_at + ResolveAfter
      BY <1>7 DEF AlreadyNudged, At, IdleInv, Earned, EarnedBy
    <3> QED BY <1>1, <1>7, <2>2, <3>1
            DEF AlreadyNudged, Within, Goto, people, notes, EarnedBy, At
  <2> QED BY <2>1, <2>2
<1>8. CASE Escalate(t) \/ Nudge(t) \/ AlreadyResolved(t) \/ AutoResolve(t) \/ Tell(t)
  BY <1>2, <1>8 DEF Escalate, Nudge, AlreadyResolved, AutoResolve, Tell, Goto, people, Steps
<1>9. CASE ResolvedQuery(t) \/ AutoClose(t) \/ Crash(t)
  BY <1>2, <1>9 DEF ResolvedQuery, AutoClose, Crash, Goto, End, people, Steps
<1> QED BY <1>3, <1>4, <1>5, <1>6, <1>7, <1>8, <1>9 DEF Step

\* A step of a run keeps what every run established.
LEMMA RunKeepsEarned ==
  ASSUME IdleInv, NEW t \in Runs, Step(t) \/ Crash(t)
  PROVE  Earned'
<1>1. UNCHANGED <<clock, last_message_at>>
  BY DEF Step, Start, SocQuery, RecentEscalation, Escalate, CustomerQuery, AlreadyResolved,
     AutoResolve, Tell, AlreadyNudged, Nudge, ResolvedQuery, AutoClose, Crash, people
<1>2. \A u \in Runs : EarnedBy(u)'
  BY RunEarns, OthersKeepEarned
<1> QED BY <1>1, <1>2 DEF IdleInv, Earned

\* Every notice is earned.
LEMMA Invariance == Spec => []IdleInv
<1>1. Init => IdleInv
  BY TypeInit DEF Init, Idle, IdleInv, Earned, EarnedBy, At
<1>2. IdleInv /\ [Next]_vars => IdleInv'
  <2> SUFFICES ASSUME IdleInv, [Next]_vars PROVE Earned'
    BY TypeStep DEF IdleInv
  <2>1. CASE UNCHANGED vars
    BY <2>1 DEF vars, IdleInv, Earned, EarnedBy, At
  <2> QED BY <2>1, PeopleKeepEarned, RunKeepsEarned DEF Next
<1> QED BY <1>1, <1>2, PTL DEF Spec

\* Escalation notices are more than twice the threshold apart, however late a
\* notice is written after its run started, unless the run that writes the
\* second was under way when the first was written.
THEOREM EscalationsAreSpaced == Spec => EscalationsSpaced
<1>1. IdleInv /\ [Next]_vars => [\A t \in Runs : Escalate(t) =>
         \/ escalated_at = 0
         \/ escalated_at + EscalateAfter * 2 < clock
         \/ run[t].now <= escalated_at]_vars
  <2> SUFFICES ASSUME IdleInv, NEW t \in Runs, Escalate(t), escalated_at # 0,
                      ~(run[t].now <= escalated_at)
               PROVE  escalated_at + EscalateAfter * 2 < clock
    OBVIOUS
  <2>1. escalated_at + EscalateAfter * 2 < run[t].now /\ run[t].now <= clock
    BY DEF Escalate, IdleInv, Earned, EarnedBy
  <2> QED BY <2>1, IdleAssumption DEF IdleInv, TypeOK, Times
<1> QED BY <1>1, Invariance, PTL DEF Spec, EscalationsSpaced

\* A silent customer is nudged once, the window of the search covering the
\* longest silence that is still nudged, unless the run that nudges again was
\* under way when the first nudge was written.
THEOREM NudgeIsNotRepeated == Spec => NudgedOnce
<1>1. IdleInv /\ [Next]_vars =>
         [\A t \in Runs : Nudge(t) => nudged_at <= last_message_at \/ run[t].now <= nudged_at]_vars
  <2> SUFFICES ASSUME IdleInv, NEW t \in Runs, Nudge(t), ~(run[t].now <= nudged_at)
               PROVE  nudged_at <= last_message_at
    OBVIOUS
  <2>1. /\ nudged_at = 0 \/ nudged_at + ResolveAfter < run[t].now
        /\ run[t].now < last_message_at + ResolveAfter
    BY DEF Nudge, IdleInv, Earned, EarnedBy, At
  <2> QED BY <2>1, IdleAssumption DEF IdleInv, TypeOK, Times
<1> QED BY <1>1, Invariance, PTL DEF Spec, NudgedOnce

=============================================================================
