--------------------------- MODULE Configuration ---------------------------
(***************************************************************************)
(* create_conversation while an administrator changes what it reads: the   *)
(* routing rules, the queue's group, and the branding of the root message. *)
(* Every lookup is a query of its own, so each may see another             *)
(* configuration.  Later posts, notices and polls look the group up again. *)
(*                                                                         *)
(* Abstracted: idempotency and delivery (see CustomerRequests), the text   *)
(* of the blocks, and the conversation row but for its queue.  changed and *)
(* asked only remember, for the properties, what was edited meanwhile.     *)
(***************************************************************************)
EXTENDS Routing, Branding

CONSTANTS
  Beginnings,  \* what an administrator may have set up before
  Creations,
  Inputs,      \* what customers send: org, severity and the fields rules read
  MaxEdits,    \* bound: edits an administrator makes, PATCH requests apart
  MaxPatches   \* bound: PATCH requests begun

Part == {"mappings"}

ASSUME ConfigurationAssumption ==
  /\ \A input \in Inputs : input.org \in Orgs
  /\ Part \cap Owners = {}
  /\ \A b \in Beginnings :
       /\ b.queues \in Seq(Keys \cup {Gone})
       /\ b.rules \in Seq(RulesInto(Rows(b.queues)) \cup {Gone})
       /\ b.mappings \in Seq(MappingsOf(Rows(b.queues)) \cup {Gone})
       /\ b.rows \in Seq(Configs \cup {Gone})
       /\ \A i, j \in DOMAIN b.rows :
            {i, j} \subseteq Rows(b.rows) /\ b.rows[i].org = b.rows[j].org
              => i = j \/ b.rows[i].org = Deployment
  /\ \A input \in Inputs : input.fields \in [Fields -> Values]
  /\ MaxEdits \in Nat /\ MaxPatches \in Nat

VARIABLES
  creation,    \* creation[c]: how far a creation is, and what it has read
  changed,     \* changed[c]: what was edited since it read the rules
  asked,       \* asked[c]: the theme when its first query ran, and what was
               \* edited before its second
  edits, patches

vars == <<queues, rules, mappings, rows, edit, creation, changed, asked, edits, patches>>

Steps == {"start", "default", "group", "store", "ground", "own",
          "ground again", "own again", "post", "done", "refused"}

\* used: the groups that posts, notices and polls after the creation went to.
Creation == [step : Steps, input : Inputs, queue : Nat, group : Groups \cup {NoGroup},
             theme : AllBrands, header : Texts \cup {NoValue},
             colour : Colours \cup {Empty, NoValue}, root : Groups \cup {NoGroup},
             used : SUBSET Groups]

Asked == [theme : AllBrands, edited : SUBSET (Part \cup Owners)]

NotAsked == [theme |-> HardCoded, edited |-> {}]

Fresh(input) == [step |-> "start", input |-> input, queue |-> 0, group |-> NoGroup,
                  theme |-> HardCoded, header |-> NoValue, colour |-> NoValue,
                  root |-> NoGroup, used |-> {}]

TypeOK ==
  /\ RoutingTyped
  /\ BrandingTyped
  /\ creation \in [Creations -> Creation]
  /\ changed \in [Creations -> SUBSET (Part \cup Owners)]
  /\ asked \in [Creations -> Asked]
  /\ edits \in 0..MaxEdits /\ patches \in 0..MaxPatches

Init ==
  /\ \E b \in Beginnings :
       /\ queues = b.queues /\ rules = b.rules
       /\ mappings = b.mappings /\ rows = b.rows
  /\ edit = [e \in Editors |-> NoEdit]
  /\ creation \in [Creations -> {Fresh(input) : input \in Inputs}]
  /\ changed = [c \in Creations |-> {}]
  /\ asked = [c \in Creations |-> NotAsked]
  /\ edits = 0 /\ patches = 0

Stored == {c \in Creations : creation[c].step \notin
             {"start", "default", "group", "store", "refused"}}

-----------------------------------------------------------------------------
(* create_conversation *)

Configured == UNCHANGED <<queues, rules, mappings, rows, edit, changed, edits, patches>>

\* evaluate: the rules and their queues in one query; a match_json that is
\* malformed fails the request.
Evaluate(c) ==
  /\ creation[c].step = "start"
  /\ \/ /\ Stopping(creation[c].input.fields) = {}
        /\ creation' = [creation EXCEPT ![c].step = "default"]
     \/ \E r \in FirstInOrder(creation[c].input.fields) :
          \/ /\ rules[r].match = Malformed
             /\ creation' = [creation EXCEPT ![c].step = "refused"]
          \/ /\ rules[r].match # Malformed
             /\ creation' = [creation EXCEPT ![c].step = "group", ![c].queue = rules[r].queue]
  /\ Configured /\ UNCHANGED asked

\* Without a default queue the request fails.
Fallback(c) ==
  /\ creation[c].step = "default"
  /\ \/ /\ Default = {}
        /\ creation' = [creation EXCEPT ![c].step = "refused"]
     \/ \E q \in Default :
          creation' = [creation EXCEPT ![c].step = "group", ![c].queue = q]
  /\ Configured /\ UNCHANGED asked

LookUpGroup(c) ==
  /\ creation[c].step = "group"
  /\ creation' = [creation EXCEPT ![c].step = "store",
                                  ![c].group = GroupOf(creation[c].queue)]
  /\ Configured /\ UNCHANGED asked

\* The transaction; the foreign key fails when the queue has been deleted.
Store(c) ==
  /\ creation[c].step = "store"
  /\ creation' = [creation EXCEPT ![c].step =
       IF creation[c].queue \notin Rows(queues) THEN "refused"
       ELSE IF creation[c].group = NoGroup THEN "done" ELSE "ground"]
  /\ Configured /\ UNCHANGED asked

\* Looks the default row up once for both.
ReadGroundMutant(c) ==
  /\ creation[c].step \in {"ground", "ground again"}
  /\ creation' = [creation EXCEPT
       ![c].step = IF creation[c].step = "ground" THEN "own" ELSE "own again",
       ![c].theme = IF creation[c].step = "ground" THEN Ground ELSE @]
  /\ asked' = [asked EXCEPT ![c] = [theme |-> Theme(creation[c].input.org), edited |-> {}]]
  /\ Configured

\* build_root_message_blocks resolves the theme twice, for the header and for
\* the colour, in two queries each time.
ReadGround(c) ==
  /\ creation[c].step \in {"ground", "ground again"}
  /\ creation' = [creation EXCEPT
       ![c].step = IF creation[c].step = "ground" THEN "own" ELSE "own again",
       ![c].theme = Ground]
  /\ asked' = [asked EXCEPT ![c] = [theme |-> Theme(creation[c].input.org), edited |-> {}]]
  /\ Configured

ReadOwn(c) ==
  LET theme == Own(creation[c].input.org, creation[c].theme)
  IN  /\ \/ /\ creation[c].step = "own"
            /\ creation' = [creation EXCEPT ![c].step = "ground again",
                                            ![c].header = theme.header]
         \/ /\ creation[c].step = "own again"
            /\ creation' = [creation EXCEPT ![c].step = "post",
                              ![c].colour = Strip(theme, creation[c].input.severity)]
      /\ asked' = [asked EXCEPT ![c] = NotAsked]
      /\ Configured

\* A post that fails leaves the conversation without a thread.
PostRoot(c) ==
  /\ creation[c].step = "post"
  /\ \E group \in {creation[c].group, NoGroup} :
       creation' = [creation EXCEPT ![c].step = "done", ![c].root = group]
  /\ Configured /\ UNCHANGED asked

-----------------------------------------------------------------------------
(* Afterwards: each looks the group of the conversation's queue up again.  *)

Reach(c) ==
  /\ creation[c].step = "done"
  /\ GroupOf(creation[c].queue) # NoGroup
  /\ creation' = [creation EXCEPT ![c].used = @ \cup {GroupOf(creation[c].queue)}]
  /\ Configured /\ UNCHANGED asked

PostMessage(c) == Reach(c)

PostStatus(c) == Reach(c)

\* Only conversations with a thread are polled.
Poll(c) == creation[c].root # NoGroup /\ Reach(c)

-----------------------------------------------------------------------------
(* The administrator *)

Note(parts) ==
  /\ changed' = [c \in Creations |->
                   IF creation[c].step = "start" THEN {} ELSE changed[c] \cup parts]
  /\ asked' = [c \in Creations |-> [asked[c] EXCEPT !.edited =
                 IF creation[c].step \in {"own", "own again"} THEN @ \cup parts ELSE @]]
  /\ UNCHANGED creation

CountEdit == edits < MaxEdits /\ edits' = edits + 1 /\ UNCHANGED patches

EditRouting ==
  /\ \/ \E k \in Keys : InsertQueue(k) \/ \E q \in DOMAIN queues : SaveQueue(q, k)
     \/ \E rule \in RulesInto(Rows(queues)) :
          InsertRule(rule) \/ \E r \in DOMAIN rules : SaveRule(r, rule)
     \/ \E r \in DOMAIN rules : RemoveRule(r)
     \/ \E n \in Names : SeedRule(n)
  /\ CountEdit /\ Note({})
  /\ UNCHANGED branding

DeleteQueue ==
  /\ \E q \in DOMAIN queues : RemoveQueue(q, {creation[c].queue : c \in Stored})
  /\ CountEdit /\ Note({"mappings"})
  /\ UNCHANGED branding

\* A new mapping comes after those there are and changes none of them.
AddMapping ==
  /\ \E mapping \in MappingsOf(Rows(queues)) : InsertMapping(mapping)
  /\ CountEdit /\ Note({})
  /\ UNCHANGED branding

EditMapping ==
  /\ \E m \in DOMAIN mappings :
       RemoveMapping(m) \/ \E mapping \in MappingsOf(Rows(queues)) : SaveMapping(m, mapping)
  /\ CountEdit /\ Note({"mappings"})
  /\ UNCHANGED branding

EditBranding ==
  /\ \E owner \in Owners :
       /\ \/ \E brand \in Brands : Create(owner, brand)
          \/ \E i \in RowsOf(owner) : Delete(i)
       /\ CountEdit /\ Note({owner})
  /\ UNCHANGED routing

BeginPatch ==
  /\ patches < MaxPatches /\ patches' = patches + 1
  /\ \E e \in Editors, i \in DOMAIN rows, brand \in Brands,
        fields \in Namings : Patch(e, i, fields, brand)
  /\ UNCHANGED <<queues, rules, mappings, creation, changed, asked, edits>>

EndPatch ==
  /\ \E e \in Editors : edit[e] # NoEdit /\ Save(e) /\ Note({edit[e].config.org})
  /\ UNCHANGED <<queues, rules, mappings, edits, patches>>

Next ==
  \/ \E c \in Creations :
       \/ Evaluate(c) \/ Fallback(c) \/ LookUpGroup(c) \/ Store(c)
       \/ ReadGround(c) \/ ReadOwn(c) \/ PostRoot(c)
       \/ PostMessage(c) \/ PostStatus(c) \/ Poll(c)
  \/ EditRouting \/ DeleteQueue \/ AddMapping \/ EditMapping
  \/ EditBranding \/ BeginPatch \/ EndPatch

Spec == Init /\ [][Next]_vars

-----------------------------------------------------------------------------
(* Properties *)

\* Mapping a queue to one more group moves no conversation: as long as no
\* mapping was changed or deleted since the creation, everything that is posted
\* or polled for it goes to the group where its thread is.
ThreadIsReached ==
  \A c \in Creations :
    creation[c].root # NoGroup /\ "mappings" \notin changed[c] =>
      creation[c].used \subseteq {creation[c].root}

\* The header, and later the colour, of a root message are those of the theme
\* that was in force at the first or at the second of the two queries that
\* resolved it, whatever was edited in between, unless both the default and
\* the organisation's row were.  (They need not be of one theme: each resolves
\* its own.)
ThemeInForce ==
  [][\A c \in Creations :
       LET org      == creation[c].input.org
           severity == creation[c].input.severity
           Shows(theme) == IF creation[c].step = "own"
                           THEN creation'[c].header = theme.header
                           ELSE creation'[c].colour = Strip(theme, severity)
       IN  /\ creation[c].step \in {"own", "own again"} /\ creation'[c] # creation[c]
           /\ ~({org, Deployment} \subseteq asked[c].edited)
           => Shows(asked[c].theme) \/ Shows(Theme(org))]_vars

\* What an organisation has set for itself is used, whatever happens to the
\* deployment's default while the message is built.
OverrideWins ==
  \A c \in Creations, i \in DOMAIN rows :
    LET org == creation[c].input.org
        severity == creation[c].input.severity
    IN  creation[c].step = "post" /\ org \notin changed[c] /\ i \in RowsOf(org) =>
          /\ rows[i].brand.header \in {NoValue, creation[c].header}
          /\ severity \in Severities =>
               rows[i].brand.colors[severity] \in {NoValue, Empty, creation[c].colour}

\* An empty value overrides nothing, in whatever layer it is: a root message
\* never has an empty colour.
EmptyOverridesNothing ==
  \A c \in Creations : creation[c].step = "post" => creation[c].colour # Empty

\* An organisation has one row at most, also after a PATCH has put a row back
\* that was deleted while it ran.
OneRowPerOrg ==
  \A org \in Orgs, i, j \in DOMAIN rows : {i, j} \subseteq RowsOf(org) => i = j

\* A row that was deleted comes back only through a PATCH that had read it
\* before: once no PATCH holds it, it is gone for good.
Lost(i) ==
  /\ i \in DOMAIN rows /\ rows[i] = Gone
  /\ \A e \in Editors : edit[e] # NoEdit => edit[e].id # i

LostStaysLost == [][\A i \in 1..MaxRows : Lost(i) => Lost(i)']_vars

=============================================================================
