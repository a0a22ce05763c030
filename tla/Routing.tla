------------------------------ MODULE Routing ------------------------------
(***************************************************************************)
(* Where a conversation goes: the Queue, RoutingRule and QueueGroupMapping *)
(* tables, their edits by the admin site and the seed commands, and the    *)
(* two lookups everything else makes: RoutingService.evaluate and the      *)
(* first active mapping of a queue.                                        *)
(*                                                                         *)
(* A value in match_json is a text or a list; the other JSON values act as *)
(* a list does: a number as the empty one, an object as that of its keys.  *)
(* Abstracted: Queue.active, which no query reads, times, SLA policies and *)
(* analysts.                                                               *)
(* Names ending in Mutant are wrong on purpose, see ConversationRow.       *)
(***************************************************************************)
EXTENDS Tables

CONSTANTS
  Keys, Triage,          \* queue keys, and "soc-triage" among them
  Groups, NoGroup,       \* Roam groups
  Values, Blank,         \* what a field of a conversation may hold; the empty string
  Contained,             \* Contained[v]: the values that are part of v
  Fields,                \* org_id, tier, issue_category, severity
  Names,                 \* of rules; several rules may have one
  Criteria,              \* the match_json values rules are given
  Malformed,             \* match_json that is no object, or has a list for a name
  Priorities,
  Seeds,                 \* Seeds[n]: the rule seed_routing_rules makes under n
  MaxQueues, MaxRules, MaxMappings   \* bounds: rows ever inserted

ASSUME RoutingAssumption ==
  /\ Triage \in Keys /\ Gone \notin Keys
  /\ Blank \in Values /\ Contained \in [Values -> SUBSET Values]
  /\ Criteria \ {Malformed} \subseteq
       [field : STRING, operator : STRING, list : BOOLEAN, value : SUBSET Values]
  /\ \A match \in Criteria \ {Malformed} :
       ~match.list => \E v \in Values : match.value = {v}
  /\ Priorities \subseteq Int
  /\ \A n \in Names : /\ Seeds[n].match \in Criteria
                       /\ Seeds[n].key \in Keys
                       /\ Seeds[n].priority \in Priorities
  /\ MaxQueues \in Nat /\ MaxRules \in Nat /\ MaxMappings \in Nat
  /\ NoGroup \notin Groups

VARIABLES
  queues,     \* queues[q]: the key of queue q
  rules,      \* rules[r]: RoutingRule r
  mappings    \* mappings[m]: QueueGroupMapping m

routing == <<queues, rules, mappings>>

RulesInto(Queues)  == [name : Names, active : BOOLEAN, match : Criteria,
                       queue : Queues, priority : Priorities]
MappingsOf(Queues) == [queue : Queues, group : Groups, active : BOOLEAN]

Rules    == RulesInto(Nat)
Mappings == MappingsOf(Nat)

RoutingTyped ==
  /\ queues \in Seq(Keys \cup {Gone})
  /\ rules \in Seq(Rules \cup {Gone})
  /\ mappings \in Seq(Mappings \cup {Gone})

-----------------------------------------------------------------------------
(* RoutingService *)

\* One condition; a text is the set of itself.  A field the conversation does
\* not have is empty.
Matches(match, fields) ==
  LET actual == IF match.field \in DOMAIN fields THEN fields[match.field] ELSE Blank
  IN  \/ match.operator = "eq" /\ ~match.list /\ match.value = {actual}
      \/ match.operator = "ne" /\ (match.list \/ match.value # {actual})
      \/ match.operator = "in" /\ match.list /\ actual \in match.value
      \/ match.operator = "in" /\ ~match.list
         /\ \E v \in match.value : actual \in Contained[v]
      \/ match.operator = "contains" /\ ~match.list /\ match.value \subseteq Contained[actual]

\* The rules the loop does not get past: those that match, and those whose
\* match_json raises an error, which fails the request.
Stopping(fields) ==
  {r \in Rows(rules) :
     rules[r].active /\ (rules[r].match = Malformed \/ Matches(rules[r].match, fields))}

\* The order of rules of one priority is the database's.
FirstInOrder(fields) ==
  {r \in Stopping(fields) :
     \A other \in Stopping(fields) : rules[r].priority <= rules[other].priority}

\* Queue.objects.get(key="soc-triage")
Default == {q \in DOMAIN queues : queues[q] = Triage}

\* filter(queue=q, active=True).first(): the lowest primary key
Active(q) == {m \in Rows(mappings) : mappings[m].queue = q /\ mappings[m].active}

GroupOfMutant(q) ==
  IF Active(q) = {} THEN NoGroup
  ELSE mappings[CHOOSE m \in Active(q) : \A other \in Active(q) : m >= other].group

GroupOf(q) ==
  IF First(Active(q)) = {} THEN NoGroup
  ELSE mappings[CHOOSE m \in First(Active(q)) : TRUE].group

-----------------------------------------------------------------------------
(* The admin site and the seed commands *)

\* Keys are unique; seed_queues, too, makes a queue only under a key that no
\* queue has.
InsertQueue(k) ==
  /\ k \notin {queues[q] : q \in DOMAIN queues}
  /\ Len(queues) < MaxQueues
  /\ queues' = Append(queues, k)
  /\ UNCHANGED <<rules, mappings>>

\* The form of a queue may change its key.
SaveQueue(q, k) ==
  /\ q \in Rows(queues)
  /\ k \notin {queues[other] : other \in DOMAIN queues \ {q}}
  /\ queues' = [queues EXCEPT ![q] = k]
  /\ UNCHANGED <<rules, mappings>>

\* Deleting a queue takes its rules and mappings with it; one that a
\* conversation refers to cannot be deleted (PROTECT).
RemoveQueue(q, held) ==
  /\ q \in Rows(queues) \ held
  /\ queues' = [queues EXCEPT ![q] = Gone]
  /\ rules' = [r \in DOMAIN rules |->
                 IF rules[r] # Gone /\ rules[r].queue = q THEN Gone ELSE rules[r]]
  /\ mappings' = [m \in DOMAIN mappings |->
                    IF mappings[m] # Gone /\ mappings[m].queue = q THEN Gone ELSE mappings[m]]

InsertRule(rule) ==
  /\ rule.queue \in Rows(queues)
  /\ Len(rules) < MaxRules
  /\ rules' = Append(rules, rule)
  /\ UNCHANGED <<queues, mappings>>

\* The form writes every column.
SaveRule(r, rule) ==
  /\ r \in Rows(rules) /\ rule.queue \in Rows(queues)
  /\ rules' = [rules EXCEPT ![r] = rule]
  /\ UNCHANGED <<queues, mappings>>

RemoveRule(r) ==
  /\ r \in Rows(rules)
  /\ rules' = [rules EXCEPT ![r] = Gone]
  /\ UNCHANGED <<queues, mappings>>

\* A queue and a group are mapped once.
Unmapped(mapping, at) ==
  \A m \in Rows(mappings) \ {at} :
    mappings[m].queue = mapping.queue => mappings[m].group # mapping.group

InsertMapping(mapping) ==
  /\ mapping.queue \in Rows(queues) /\ Unmapped(mapping, 0)
  /\ Len(mappings) < MaxMappings
  /\ mappings' = Append(mappings, mapping)
  /\ UNCHANGED <<queues, rules>>

SaveMapping(m, mapping) ==
  /\ m \in Rows(mappings)
  /\ mapping.queue \in Rows(queues) /\ Unmapped(mapping, m)
  /\ mappings' = [mappings EXCEPT ![m] = mapping]
  /\ UNCHANGED <<queues, rules>>

RemoveMapping(m) ==
  /\ m \in Rows(mappings)
  /\ mappings' = [mappings EXCEPT ![m] = Gone]
  /\ UNCHANGED <<queues, rules>>

\* seed_routing_rules: a rule whose queue is missing is skipped, one that has
\* the name is left as it is, and two that have it fail get_or_create.
SeedRule(n) ==
  /\ \A r \in Rows(rules) : rules[r].name # n
  /\ \E q \in DOMAIN queues :
       /\ queues[q] = Seeds[n].key
       /\ InsertRule([name |-> n, active |-> TRUE, match |-> Seeds[n].match,
                      queue |-> q, priority |-> Seeds[n].priority])

=============================================================================
