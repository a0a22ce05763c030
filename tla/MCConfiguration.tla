-------------------------- MODULE MCConfiguration --------------------------
(***************************************************************************)
(* Model-checking instance of Configuration: one organisation, a severity  *)
(* with a colour and one without, two rules, two queues, two mappings.     *)
(***************************************************************************)
EXTENDS Configuration

CONSTANTS triage, incident, critical, blank, low, g1, g2, r1, acme,
          hard, text1, text2, grey, red, blue

MCContained == [v \in Values |-> {v, blank}]

\* The seeded rule.
IsCritical == [field |-> "severity", operator |-> "eq", list |-> FALSE, value |-> {critical}]

MCCriteria == {IsCritical, Malformed}

MCInputs ==
  {[org |-> acme, severity |-> critical, fields |-> [f \in {"severity"} |-> critical]],
   [org |-> acme, severity |-> low, fields |-> [f \in {"severity"} |-> low]]}

MCSeeds == [n \in Names |-> [match |-> IsCritical, key |-> incident, priority |-> 1]]

Into(queue, match, priority) ==
  [name |-> r1, active |-> TRUE, match |-> match, queue |-> queue, priority |-> priority]

Brand(header, colour, fallback) ==
  [header |-> header, colors |-> [s \in Severities |-> colour], fallback |-> fallback]

MCHardCoded == Brand(hard, red, grey)
MCSettings  == Brand(NoValue, NoValue, blue)
MCBrands    == {Brand(text1, blue, NoValue)}

\* ROAM_THEME = {"severity_colors": {"critical": ""}}
EmptySettings == Brand(NoValue, Empty, NoValue)

Maps(queue, group, active) == [queue |-> queue, group |-> group, active |-> active]

\* Before soc-triage was made; and with two rules of one name, a mapping that
\* was switched off, a default brand and one of the organisation.
MCBeginnings ==
  {[queues |-> <<incident>>,
    rules |-> <<>>,
    mappings |-> <<Maps(1, g1, TRUE)>>,
    rows |-> <<>>],
   [queues |-> <<triage, incident>>,
    rules |-> <<Into(1, IsCritical, 2), Into(2, IsCritical, 1)>>,
    mappings |-> <<Maps(2, g1, FALSE), Maps(2, g2, TRUE)>>,
    rows |-> <<[org |-> Deployment, brand |-> Brand(NoValue, blue, grey)],
               [org |-> acme, brand |-> Brand(text2, NoValue, blue)]>>]}

=============================================================================
