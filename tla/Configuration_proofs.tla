------------------------ MODULE Configuration_proofs ------------------------
(***************************************************************************)
(* Proofs about Configuration, for any number of creations, rules, rows    *)
(* and administrators' requests.                                           *)
(*                                                                         *)
(* The invariant says, for each step of a creation, that what it has read  *)
(* still agrees with the tables unless changed says that they were edited. *)
(***************************************************************************)
EXTENDS Configuration, TLAPS

\* The group a creation looked up is still its queue's.
GroupIsKept ==
  \A c \in Creations :
    /\ creation[c].step \in {"start", "default", "group", "store", "refused"} =>
         creation[c].root = NoGroup /\ creation[c].used = {}
    /\ creation[c].step \in {"start", "default", "group"} => creation[c].group = NoGroup
    /\ creation[c].step # "done" => creation[c].root = NoGroup /\ creation[c].used = {}
    /\ creation[c].root \in {NoGroup, creation[c].group}
    /\ creation[c].group # NoGroup /\ "mappings" \notin changed[c] =>
         /\ \E m \in First(Active(creation[c].queue)) : mappings[m].group = creation[c].group
         /\ creation[c].used \subseteq {creation[c].group}

\* What the organisation's own row sets is what has been read of the theme.
OverrideIsRead ==
  \A c \in Creations, i \in DOMAIN rows :
    LET org == creation[c].input.org
        severity == creation[c].input.severity
    IN  org \notin changed[c] /\ i \in RowsOf(org) =>
          /\ creation[c].step \in {"ground again", "own again", "post"} =>
               rows[i].brand.header \in {NoValue, creation[c].header}
          /\ creation[c].step = "post" /\ severity \in Severities =>
               rows[i].brand.colors[severity] \in {NoValue, Empty, creation[c].colour}

\* A PATCH holds a row of its own organisation, there or deleted: primary keys
\* are not used again.
EditFits ==
  \A e \in Editors : edit[e] # NoEdit =>
    /\ edit[e].id \in DOMAIN rows
    /\ rows[edit[e].id] # Gone => rows[edit[e].id].org = edit[e].config.org
    /\ \A d \in Editors : edit[d] # NoEdit /\ edit[d].id = edit[e].id =>
         edit[d].config.org = edit[e].config.org

Branded == OneRowPerOrg /\ EditFits /\ OverrideIsRead

\* While the second query of a theme is due: what the first one read is still
\* so unless the default was edited, and gave the theme of that moment unless
\* the row of the organisation was.
ThemeIsAsked ==
  \A c \in Creations :
    LET org == creation[c].input.org
    IN  creation[c].step \in {"own", "own again"} =>
          /\ Deployment \notin asked[c].edited => creation[c].theme = Ground
          /\ org \notin asked[c].edited => asked[c].theme = Own(org, creation[c].theme)

Inv == TypeOK /\ GroupIsKept /\ Branded /\ ThemeIsAsked

-----------------------------------------------------------------------------
(* The lookups *)

\* Rows that are not gone have the types of their tables.
LEMMA RowsTyped ==
  ASSUME RoutingTyped
  PROVE  /\ Rows(queues) \subseteq Nat /\ Rows(mappings) \subseteq Nat
         /\ \A r \in Rows(rules) : rules[r] \in Rules
         /\ \A m \in Rows(mappings) : mappings[m] \in Mappings
         /\ \A q \in Rows(queues) : q \in 1..Len(queues) /\ queues[q] \in Keys
  BY RoutingAssumption DEF RoutingTyped, Rows

\* GroupOf is the group of the first active mapping.
LEMMA FirstIsGroup ==
  ASSUME RoutingTyped, NEW q, NEW m \in First(Active(q))
  PROVE  GroupOf(q) = mappings[m].group
<1>1. First(Active(q)) \subseteq Nat
  BY RowsTyped DEF Active, First
<1>2. \A k \in First(Active(q)) : k = m
  BY <1>1 DEF First
<1> QED
  BY <1>2 DEF GroupOf

\* The group of a queue is a group, or none.
LEMMA GroupOfTyped ==
  ASSUME RoutingTyped, NEW q
  PROVE  GroupOf(q) \in Groups \cup {NoGroup}
<1>1. CASE First(Active(q)) = {}
  BY <1>1 DEF GroupOf
<1>2. CASE First(Active(q)) # {}
  <2>1. PICK m \in First(Active(q)) : TRUE
    BY <1>2
  <2>2. mappings[m] \in Mappings
    BY RowsTyped DEF Active, First
  <2> QED
    BY <2>1, <2>2, FirstIsGroup DEF Mappings, MappingsOf
<1> QED
  BY <1>1, <1>2

\* A theme laid over a theme is a theme.
LEMMA OverlayTyped ==
  ASSUME NEW below \in AllBrands, NEW brand \in AllBrands
  PROVE  Overlay(below, brand) \in AllBrands
  BY DEF Overlay, Or, AllBrands

\* Settings laid over the hard-coded values are a theme.
LEMMA FromSettingsTyped == FromSettings \in AllBrands
  BY BrandingAssumption DEF FromSettings, Or, AllBrands

\* The rows of an owner are rows.
LEMMA RowsOfTyped ==
  ASSUME BrandingTyped, NEW owner
  PROVE  RowsOf(owner) \in SUBSET Nat /\ \A i \in RowsOf(owner) : rows[i] \in Configs
  BY DEF RowsOf, BrandingTyped, Rows

\* An owner's row laid over a theme is a theme.
LEMMA OverlayRowTyped ==
  ASSUME BrandingTyped, NEW owner, NEW below \in AllBrands
  PROVE  OverlayRowOf(owner, below) \in AllBrands
<1>1. CASE First(RowsOf(owner)) = {}
  BY <1>1 DEF OverlayRowOf
<1>2. CASE First(RowsOf(owner)) # {}
  <2> DEFINE first == CHOOSE i \in First(RowsOf(owner)) : TRUE
  <2>1. first \in RowsOf(owner)
    BY <1>2 DEF First
  <2>2. rows[first].brand \in AllBrands
    BY <2>1, RowsOfTyped DEF Configs
  <2>3. OverlayRowOf(owner, below) = Overlay(below, rows[first].brand)
    BY <1>2 DEF OverlayRowOf
  <2> QED
    BY <2>2, <2>3, OverlayTyped
<1> QED
  BY <1>1, <1>2

\* The one row of an organisation overrides what it sets.
LEMMA OwnOverrides ==
  ASSUME BrandingTyped, NEW org, NEW i \in RowsOf(org),
         \A j \in RowsOf(org) : j = i, NEW below
  PROVE  Own(org, below) = Overlay(below, rows[i].brand)
<1>1. First(RowsOf(org)) = {i}
  BY RowsOfTyped DEF First
<1> QED
  BY <1>1 DEF Own, OverlayRowOf

-----------------------------------------------------------------------------
(* Types *)

\* One creation goes on, and no table changes.
Goes(c) ==
  \/ Evaluate(c) \/ Fallback(c) \/ LookUpGroup(c) \/ Store(c)
  \/ ReadGround(c) \/ ReadOwn(c) \/ PostRoot(c)
  \/ PostMessage(c) \/ PostStatus(c) \/ Poll(c)

\* The tables an administrator starts with have their types.
LEMMA InitTyped ==
  ASSUME Init
  PROVE  TypeOK
<1>1. PICK b \in Beginnings : /\ queues = b.queues /\ rules = b.rules
                              /\ mappings = b.mappings /\ rows = b.rows
  BY DEF Init
<1>2. /\ b.queues \in Seq(Keys \cup {Gone})
      /\ b.rules \in Seq(RulesInto(Rows(b.queues)) \cup {Gone})
      /\ b.mappings \in Seq(MappingsOf(Rows(b.queues)) \cup {Gone})
      /\ b.rows \in Seq(Configs \cup {Gone})
  BY ConfigurationAssumption
<1>3. Rows(b.queues) \subseteq Nat
  <2> DEFINE table == b.queues
  <2>1. table \in Seq(Keys \cup {Gone})
    BY <1>2
  <2> HIDE DEF table
  <2>2. Rows(table) \subseteq Nat
    BY <2>1 DEF Rows
  <2> QED
    BY <2>2 DEF table
<1>4. /\ RulesInto(Rows(b.queues)) \subseteq Rules
      /\ MappingsOf(Rows(b.queues)) \subseteq Mappings
  BY <1>3 DEF Rules, Mappings, RulesInto, MappingsOf
<1>5. RoutingTyped
  BY <1>1, <1>2, <1>4 DEF RoutingTyped
<1>6. BrandingTyped
  BY <1>1, <1>2 DEF BrandingTyped, Init
<1>7. \A input \in Inputs : Fresh(input) \in Creation
  BY BrandingAssumption DEF Fresh, Creation, Steps
<1>8. creation \in [Creations -> Creation] /\ changed \in [Creations -> SUBSET (Part \cup Owners)]
  BY <1>7 DEF Init
<1>10. asked \in [Creations -> Asked]
  BY BrandingAssumption DEF Init, NotAsked, Asked
<1>9. edits \in 0..MaxEdits /\ patches \in 0..MaxPatches
  <2>1. MaxEdits \in Nat /\ MaxPatches \in Nat
    BY Zenon, ConfigurationAssumption
  <2> QED
    BY <2>1 DEF Init
<1> QED
  BY <1>5, <1>6, <1>8, <1>9, <1>10 DEF TypeOK

\* A step of a creation keeps its types and changes no table.
LEMMA CreationTyped ==
  ASSUME TypeOK, NEW c \in Creations, Goes(c)
  PROVE  creation' \in [Creations -> Creation] /\ asked' \in [Creations -> Asked] /\ Configured
<1> USE DEF TypeOK
<1>a. creation[c] \in Creation
  OBVIOUS
<1>b. GroupOf(creation[c].queue) \in Groups \cup {NoGroup}
  BY GroupOfTyped
<1>c. Own(creation[c].input.org, creation[c].theme) \in AllBrands
  BY <1>a, OverlayRowTyped DEF Own, Creation
<1>d. Ground \in AllBrands
  BY OverlayRowTyped, FromSettingsTyped DEF Ground
<1>e. Theme(creation[c].input.org) \in AllBrands
  BY <1>d, OverlayRowTyped DEF Theme, Own
<1>f. asked' \in [Creations -> Asked]
  <2>1. CASE ReadGround(c)
    BY <2>1, <1>e DEF ReadGround, Asked
  <2>2. CASE ReadOwn(c)
    BY <2>2, BrandingAssumption DEF ReadOwn, NotAsked, Asked
  <2>3. CASE asked' = asked
    BY <2>3
  <2> QED
    BY <2>1, <2>2, <2>3 DEF Goes, Evaluate, Fallback, LookUpGroup, Store, PostRoot,
                            PostMessage, PostStatus, Poll, Reach
<1>1. ASSUME Evaluate(c) PROVE creation' \in [Creations -> Creation]
  <2>1. CASE creation' = [creation EXCEPT ![c].step = "default"]
    BY <2>1, <1>a DEF Creation, Steps
  <2>2. ASSUME NEW r \in FirstInOrder(creation[c].input.fields),
               creation' = [creation EXCEPT ![c].step = "group", ![c].queue = rules[r].queue]
        PROVE  creation' \in [Creations -> Creation]
    <3>1. rules[r] \in Rules
      BY RowsTyped DEF FirstInOrder, Stopping
    <3>2. rules[r].queue \in Nat
      BY <3>1 DEF Rules, RulesInto
    <3> QED
      BY <2>2, <3>2, <1>a DEF Creation, Steps
  <2>3. CASE creation' = [creation EXCEPT ![c].step = "refused"]
    BY <2>3, <1>a DEF Creation, Steps
  <2> QED
    BY <1>1, <2>1, <2>2, <2>3 DEF Evaluate
<1>2. ASSUME Fallback(c) PROVE creation' \in [Creations -> Creation]
  <2>1. Default \subseteq Nat
    BY DEF Default, RoutingTyped
  <2>2. CASE creation' = [creation EXCEPT ![c].step = "refused"]
    BY <2>2, <1>a DEF Creation, Steps
  <2>3. ASSUME NEW q \in Default,
               creation' = [creation EXCEPT ![c].step = "group", ![c].queue = q]
        PROVE  creation' \in [Creations -> Creation]
    BY <2>1, <2>3, <1>a DEF Creation, Steps
  <2> QED
    BY <1>2, <2>2, <2>3 DEF Fallback
<1>3. ASSUME LookUpGroup(c) PROVE creation' \in [Creations -> Creation]
  BY <1>3, <1>a, <1>b DEF LookUpGroup, Creation, Steps
<1>4. ASSUME Store(c) PROVE creation' \in [Creations -> Creation]
  BY <1>4, <1>a DEF Store, Creation, Steps
<1>5. ASSUME ReadGround(c) PROVE creation' \in [Creations -> Creation]
  BY <1>5, <1>a, <1>d DEF ReadGround, Creation, Steps
<1>6. ASSUME ReadOwn(c) PROVE creation' \in [Creations -> Creation]
  <2> DEFINE theme == Own(creation[c].input.org, creation[c].theme)
  <2>1. theme.header \in Texts \cup {NoValue}
    BY <1>c DEF AllBrands
  <2>2. Strip(theme, creation[c].input.severity) \in Colours \cup {Empty, NoValue}
    BY <1>c DEF AllBrands, Strip, Or
  <2>3. CASE creation' = [creation EXCEPT ![c].step = "ground again", ![c].header = theme.header]
    BY <2>3, <2>1, <1>a DEF Creation, Steps
  <2>4. CASE creation' = [creation EXCEPT ![c].step = "post",
                            ![c].colour = Strip(theme, creation[c].input.severity)]
    BY <2>4, <2>2, <1>a DEF Creation, Steps
  <2> QED
    BY <1>6, <2>3, <2>4 DEF ReadOwn
<1>7. ASSUME PostRoot(c) PROVE creation' \in [Creations -> Creation]
  <2>1. PICK group \in {creation[c].group, NoGroup} :
          creation' = [creation EXCEPT ![c].step = "done", ![c].root = group]
    BY <1>7 DEF PostRoot
  <2>2. group \in Groups \cup {NoGroup}
    BY <1>a DEF Creation
  <2> QED
    BY <2>1, <2>2, <1>a DEF Creation, Steps
<1>8. ASSUME Reach(c) PROVE creation' \in [Creations -> Creation]
  BY <1>8, <1>a, <1>b DEF Reach, Creation, Steps
<1>9. Configured
  BY DEF Goes, Evaluate, Fallback, LookUpGroup, Store, ReadGround, ReadOwn, PostRoot,
         PostMessage, PostStatus, Poll, Reach
<1> QED
  BY <1>f, <1>1, <1>2, <1>3, <1>4, <1>5, <1>6, <1>7, <1>8, <1>9
  DEF Goes, PostMessage, PostStatus, Poll

\* An edit keeps the types of the tables.
LEMMA RoutingEditTyped ==
  ASSUME RoutingTyped,
         \/ EditRouting \/ DeleteQueue \/ AddMapping \/ EditMapping
  PROVE  RoutingTyped'
<1> USE DEF RoutingTyped
<1>a. /\ RulesInto(Rows(queues)) \subseteq Rules
      /\ MappingsOf(Rows(queues)) \subseteq Mappings
  <2>1. Rows(queues) \subseteq Nat
    BY RowsTyped
  <2> QED
    BY <2>1 DEF Rules, Mappings, RulesInto, MappingsOf
<1>1. ASSUME NEW k \in Keys, InsertQueue(k) PROVE RoutingTyped'
  BY <1>1 DEF InsertQueue
<1>2. ASSUME NEW q \in DOMAIN queues, NEW k \in Keys, SaveQueue(q, k) PROVE RoutingTyped'
  BY <1>2 DEF SaveQueue
<1>3. ASSUME NEW rule \in Rules, InsertRule(rule) PROVE RoutingTyped'
  BY <1>3 DEF InsertRule
<1>4. ASSUME NEW n \in Names, SeedRule(n) PROVE RoutingTyped'
  <2> DEFINE Seeded(q) == [name |-> n, active |-> TRUE, match |-> Seeds[n].match,
                           queue |-> q, priority |-> Seeds[n].priority]
  <2>1. PICK q \in DOMAIN queues : InsertRule(Seeded(q))
    BY <1>4 DEF SeedRule
  <2>2. Seeds[n].match \in Criteria /\ Seeds[n].priority \in Priorities
    BY RoutingAssumption
  <2>3. Seeded(q) \in Rules
    BY <2>2 DEF Rules, RulesInto
  <2> HIDE DEF Seeded
  <2> QED
    BY <2>1, <2>3, <1>3
<1>13. ASSUME NEW r \in DOMAIN rules, NEW rule \in RulesInto(Rows(queues)), SaveRule(r, rule)
       PROVE  RoutingTyped'
  BY <1>13, <1>a DEF SaveRule
<1>14. ASSUME NEW r \in DOMAIN rules, RemoveRule(r) PROVE RoutingTyped'
  BY <1>14 DEF RemoveRule
<1>5. ASSUME NEW q \in DOMAIN queues, NEW held, RemoveQueue(q, held) PROVE RoutingTyped'
  <2>1. queues' \in Seq(Keys \cup {Gone})
    BY <1>5 DEF RemoveQueue
  <2>2. rules' \in Seq(Rules \cup {Gone})
    <3>1. DOMAIN rules = 1..Len(rules) /\ Len(rules) \in Nat
      OBVIOUS
    <3>2. rules' \in [1..Len(rules) -> Rules \cup {Gone}]
      BY <1>5, <3>1 DEF RemoveQueue
    <3>3. \A n \in Nat : [1..n -> Rules \cup {Gone}] \subseteq Seq(Rules \cup {Gone})
      OBVIOUS
    <3> QED
      BY <3>1, <3>2, <3>3, Zenon
  <2>3. mappings' \in Seq(Mappings \cup {Gone})
    <3>1. DOMAIN mappings = 1..Len(mappings) /\ Len(mappings) \in Nat
      OBVIOUS
    <3>2. mappings' \in [1..Len(mappings) -> Mappings \cup {Gone}]
      BY <1>5, <3>1 DEF RemoveQueue
    <3>3. \A n \in Nat : [1..n -> Mappings \cup {Gone}] \subseteq Seq(Mappings \cup {Gone})
      OBVIOUS
    <3> QED
      BY <3>1, <3>2, <3>3, Zenon
  <2> QED
    BY <2>1, <2>2, <2>3
<1>6. ASSUME NEW mapping \in MappingsOf(Rows(queues)), InsertMapping(mapping)
      PROVE  RoutingTyped'
  BY <1>6, <1>a DEF InsertMapping
<1>7. ASSUME NEW m \in DOMAIN mappings, RemoveMapping(m) PROVE RoutingTyped'
  BY <1>7 DEF RemoveMapping
<1>8. ASSUME NEW m \in DOMAIN mappings, NEW mapping \in MappingsOf(Rows(queues)),
             SaveMapping(m, mapping)
      PROVE  RoutingTyped'
  BY <1>8, <1>a DEF SaveMapping
<1>9. CASE EditRouting
  BY <1>9, <1>a, <1>1, <1>2, <1>3, <1>4, <1>13, <1>14 DEF EditRouting
<1>10. CASE DeleteQueue
  BY <1>10, <1>5 DEF DeleteQueue
<1>11. CASE AddMapping
  BY <1>11, <1>6 DEF AddMapping
<1>12. CASE EditMapping
  BY <1>12, <1>7, <1>8 DEF EditMapping
<1> QED
  BY <1>9, <1>10, <1>11, <1>12

\* POST, PATCH and DELETE keep the types of the branding table.
LEMMA BrandingEditTyped ==
  ASSUME BrandingTyped, EditBranding \/ BeginPatch \/ EndPatch
  PROVE  BrandingTyped'
<1> USE DEF BrandingTyped
<1>1. ASSUME NEW owner \in Owners, NEW brand \in Brands, Create(owner, brand)
      PROVE  BrandingTyped'
  <2>1. [org |-> owner, brand |-> brand] \in Configs
    BY BrandingAssumption DEF Configs
  <2> QED
    BY <1>1, <2>1 DEF Create
<1>2. ASSUME NEW i, Delete(i) PROVE BrandingTyped'
  BY <1>2 DEF Delete, Rows
<1>3. ASSUME NEW e \in Editors, NEW i, NEW fields, NEW brand \in Brands,
             Patch(e, i, fields, brand)
      PROVE  BrandingTyped'
  <2> DEFINE b == [header   |-> IF "header" \in fields THEN brand.header ELSE rows[i].brand.header,
                   colors   |-> IF "colors" \in fields THEN brand.colors ELSE rows[i].brand.colors,
                   fallback |-> IF "fallback" \in fields THEN brand.fallback
                                                         ELSE rows[i].brand.fallback]
  <2>1. i \in Nat /\ rows[i] \in Configs
    BY <1>3 DEF Patch, Rows
  <2>2. b \in AllBrands
    <3>1. brand \in AllBrands /\ rows[i].brand \in AllBrands
      BY <2>1, BrandingAssumption DEF Configs
    <3> QED
      BY <3>1 DEF AllBrands
  <2>3. edit' = [edit EXCEPT ![e] = [id |-> i, config |-> [rows[i] EXCEPT !.brand = b]]]
    BY <1>3 DEF Patch
  <2> HIDE DEF b
  <2>4. [rows[i] EXCEPT !.brand = b] \in Configs
    BY <2>1, <2>2 DEF Configs
  <2>5. [id |-> i, config |-> [rows[i] EXCEPT !.brand = b]] \in Edits
    BY <2>1, <2>4 DEF Edits
  <2>6. rows' = rows
    BY <1>3 DEF Patch
  <2> QED
    BY <2>3, <2>5, <2>6
<1>4. ASSUME NEW e \in Editors, Save(e) PROVE BrandingTyped'
  <2>1. edit[e].id \in Nat /\ edit[e].config \in Configs
    BY <1>4 DEF Save, Edits
  <2>2. ASSUME NEW i \in Nat, NEW config \in Configs
        PROVE  [rows EXCEPT ![i] = config] \in Seq(Configs \cup {Gone})
    <3> DEFINE T == Configs \cup {Gone}
    <3>1. rows \in Seq(T) /\ config \in T
      OBVIOUS
    <3> HIDE DEF T
    <3>2. CASE i \in DOMAIN rows
      BY <3>1, <3>2
    <3>3. CASE i \notin DOMAIN rows
      <4>1. [rows EXCEPT ![i] = config] = rows
        BY <3>1, <3>3
      <4> QED
        BY <4>1, <3>1
    <3> QED
      BY <3>2, <3>3 DEF T
  <2>3. \/ rows' = rows
        \/ rows' = [rows EXCEPT ![edit[e].id] = edit[e].config]
    BY <1>4 DEF Save
  <2>4. rows' \in Seq(Configs \cup {Gone})
    BY <2>1, <2>2, <2>3
  <2>5. edit' \in [Editors -> Edits \cup {NoEdit}]
    BY <1>4 DEF Save
  <2> QED
    BY <2>4, <2>5
<1>5. CASE EditBranding
  BY <1>5, <1>1, <1>2 DEF EditBranding
<1>6. CASE BeginPatch
  BY <1>6, <1>3 DEF BeginPatch
<1>7. CASE EndPatch
  BY <1>7, <1>4 DEF EndPatch
<1> QED
  BY <1>5, <1>6, <1>7

\* Noting an edit keeps the types of what is noted.
LEMMA NoteTyped ==
  ASSUME TypeOK, NEW parts \in SUBSET (Part \cup Owners), Note(parts)
  PROVE  /\ changed' \in [Creations -> SUBSET (Part \cup Owners)]
         /\ asked' \in [Creations -> Asked]
         /\ creation' = creation
  BY DEF TypeOK, Note, Asked

\* The bounds on edits and PATCHes are kept.
LEMMA CountTyped ==
  ASSUME TypeOK, CountEdit
  PROVE  edits' \in 0..MaxEdits /\ patches' \in 0..MaxPatches
<1>1. MaxEdits \in Nat
  BY Zenon, ConfigurationAssumption
<1> QED
  BY <1>1 DEF TypeOK, CountEdit

\* Every step keeps the types.
LEMMA TypeInvariance ==
  ASSUME TypeOK, [Next]_vars
  PROVE  TypeOK'
<1>a. /\ {"mappings"} \subseteq Part \cup Owners
      /\ {} \subseteq Part \cup Owners
      /\ \A owner \in Owners : {owner} \subseteq Part \cup Owners
  BY DEF Part
<1>b. RoutingTyped /\ BrandingTyped
  BY DEF TypeOK
<1>1. ASSUME NEW c \in Creations, Goes(c) PROVE TypeOK'
  BY <1>1, CreationTyped DEF TypeOK, Configured, RoutingTyped, BrandingTyped
<1>2. CASE EditRouting \/ DeleteQueue \/ AddMapping \/ EditMapping
  <2>1. RoutingTyped'
    BY <1>2, <1>b, RoutingEditTyped
  <2>2. CountEdit /\ UNCHANGED branding
    BY <1>2 DEF EditRouting, DeleteQueue, AddMapping, EditMapping
  <2>3. \E parts \in SUBSET (Part \cup Owners) : Note(parts)
    BY <1>2, <1>a DEF EditRouting, DeleteQueue, AddMapping, EditMapping
  <2>4. BrandingTyped'
    BY <2>2, <1>b DEF branding, BrandingTyped
  <2>5. /\ changed' \in [Creations -> SUBSET (Part \cup Owners)]
        /\ creation' \in [Creations -> Creation] /\ asked' \in [Creations -> Asked]
    BY <2>3, NoteTyped DEF TypeOK
  <2> QED
    BY <2>1, <2>2, <2>4, <2>5, CountTyped DEF TypeOK
<1>3. CASE EditBranding
  <2>1. BrandingTyped'
    BY <1>3, <1>b, BrandingEditTyped
  <2>2. CountEdit /\ UNCHANGED routing
    BY <1>3 DEF EditBranding
  <2>3. \E parts \in SUBSET (Part \cup Owners) : Note(parts)
    BY <1>3, <1>a DEF EditBranding
  <2>4. RoutingTyped'
    BY <2>2, <1>b DEF routing, RoutingTyped
  <2>5. /\ changed' \in [Creations -> SUBSET (Part \cup Owners)]
        /\ creation' \in [Creations -> Creation] /\ asked' \in [Creations -> Asked]
    BY <2>3, NoteTyped DEF TypeOK
  <2> QED
    BY <2>1, <2>2, <2>4, <2>5, CountTyped DEF TypeOK
<1>4. CASE BeginPatch
  <2>1. BrandingTyped'
    BY <1>4, <1>b, BrandingEditTyped
  <2>2. patches' \in 0..MaxPatches
    <3>1. MaxPatches \in Nat
      BY Zenon, ConfigurationAssumption
    <3> QED
      BY <1>4, <3>1 DEF BeginPatch, TypeOK
  <2> QED
    BY <1>4, <2>1, <2>2 DEF BeginPatch, TypeOK, RoutingTyped
<1>5. CASE EndPatch
  <2>1. BrandingTyped'
    BY <1>5, <1>b, BrandingEditTyped
  <2>2. \E parts \in SUBSET (Part \cup Owners) : Note(parts)
    <3>1. PICK e \in Editors : edit[e] # NoEdit /\ Note({edit[e].config.org})
      BY <1>5 DEF EndPatch
    <3>2. edit[e].config.org \in Owners
      BY <3>1, <1>b DEF BrandingTyped, Edits, Configs
    <3> QED
      BY <3>1, <3>2, <1>a
  <2>3. /\ changed' \in [Creations -> SUBSET (Part \cup Owners)]
        /\ creation' \in [Creations -> Creation] /\ asked' \in [Creations -> Asked]
    BY <2>2, NoteTyped DEF TypeOK
  <2> QED
    BY <1>5, <2>1, <2>3 DEF EndPatch, TypeOK, RoutingTyped
<1>6. CASE UNCHANGED vars
  BY <1>6 DEF vars, TypeOK, RoutingTyped, BrandingTyped
<1> QED
  BY <1>1, <1>2, <1>3, <1>4, <1>5, <1>6 DEF Next, Goes

-----------------------------------------------------------------------------
(* Routing *)

\* What an administrator does is noted for every creation that has begun.
LEMMA Noted ==
  ASSUME TypeOK, NEW parts \in SUBSET (Part \cup Owners), Note(parts)
  PROVE  /\ creation' = creation
         /\ \A c \in Creations :
              creation[c].step # "start" => changed'[c] = changed[c] \cup parts
  BY DEF TypeOK, Note

\* What the steps before the queue is stored do to the creation.
LEMMA EvaluateDoes ==
  ASSUME TypeOK, NEW c \in Creations, Evaluate(c)
  PROVE  /\ creation[c].step = "start"
         /\ creation' = [creation EXCEPT ![c] = creation'[c]]
         /\ \A f \in {"input", "group", "root", "used"} : creation'[c][f] = creation[c][f]
         /\ creation'[c].step \in {"default", "refused", "group"}
<1>a. creation \in [Creations -> Creation] /\ creation[c] \in Creation
  BY DEF TypeOK
<1>1. creation[c].step = "start"
  BY DEF Evaluate
<1>2. ASSUME NEW step \in {"default", "refused"}, creation' = [creation EXCEPT ![c].step = step]
      PROVE  /\ creation' = [creation EXCEPT ![c] = creation'[c]]
             /\ \A f \in {"input", "group", "root", "used"} : creation'[c][f] = creation[c][f]
             /\ creation'[c].step = step
  BY <1>2, <1>a DEF Creation
<1>3. ASSUME NEW q, creation' = [creation EXCEPT ![c].step = "group", ![c].queue = q]
      PROVE  /\ creation' = [creation EXCEPT ![c] = creation'[c]]
             /\ \A f \in {"input", "group", "root", "used"} : creation'[c][f] = creation[c][f]
             /\ creation'[c].step = "group"
  BY <1>3, <1>a DEF Creation
<1> QED
  BY <1>1, <1>2, <1>3 DEF Evaluate

\* The query of the default queue takes it, or refuses the creation if there is
\* none.
LEMMA FallbackDoes ==
  ASSUME TypeOK, NEW c \in Creations, Fallback(c)
  PROVE  /\ creation[c].step = "default"
         /\ creation' = [creation EXCEPT ![c] = creation'[c]]
         /\ \A f \in {"input", "group", "root", "used"} : creation'[c][f] = creation[c][f]
         /\ \/ Default = {} /\ creation'[c].step = "refused"
            \/ creation'[c].step = "group" /\ creation'[c].queue \in Default
<1>a. creation \in [Creations -> Creation] /\ creation[c] \in Creation
  BY DEF TypeOK
<1>1. creation[c].step = "default"
  BY DEF Fallback
<1>2. CASE Default = {} /\ creation' = [creation EXCEPT ![c].step = "refused"]
  BY <1>1, <1>2, <1>a DEF Creation
<1>3. ASSUME NEW q \in Default,
             creation' = [creation EXCEPT ![c].step = "group", ![c].queue = q]
      PROVE  /\ creation' = [creation EXCEPT ![c] = creation'[c]]
             /\ \A f \in {"input", "group", "root", "used"} : creation'[c][f] = creation[c][f]
             /\ creation'[c].step = "group" /\ creation'[c].queue \in Default
  BY <1>3, <1>a DEF Creation
<1> QED
  BY <1>1, <1>2, <1>3 DEF Fallback

\* ReadOwn, in its two places.
LEMMA ReadOwnDoes ==
  ASSUME TypeOK, NEW c \in Creations, ReadOwn(c)
  PROVE  /\ creation' = [creation EXCEPT ![c] = creation'[c]]
         /\ \A f \in {"input", "queue", "group", "theme", "root", "used"} :
              creation'[c][f] = creation[c][f]
         /\ \/ /\ creation[c].step = "own" /\ creation'[c].step = "ground again"
               /\ creation'[c].header = Own(creation[c].input.org, creation[c].theme).header
            \/ /\ creation[c].step = "own again" /\ creation'[c].step = "post"
               /\ creation'[c].header = creation[c].header
               /\ creation'[c].colour = Strip(Own(creation[c].input.org, creation[c].theme),
                                              creation[c].input.severity)
<1> DEFINE theme == Own(creation[c].input.org, creation[c].theme)
           colour == Strip(theme, creation[c].input.severity)
<1>a. creation \in [Creations -> Creation] /\ creation[c] \in Creation
  BY DEF TypeOK
<1>1. \/ /\ creation[c].step = "own"
         /\ creation' = [creation EXCEPT ![c].step = "ground again", ![c].header = theme.header]
      \/ /\ creation[c].step = "own again"
         /\ creation' = [creation EXCEPT ![c].step = "post", ![c].colour = colour]
  BY DEF ReadOwn
<1> HIDE DEF theme, colour
<1>2. CASE /\ creation[c].step = "own"
           /\ creation' = [creation EXCEPT ![c].step = "ground again", ![c].header = theme.header]
  <2>1. creation'[c] = [creation[c] EXCEPT !.step = "ground again", !.header = theme.header]
    BY <1>2, <1>a
  <2>2. creation' = [creation EXCEPT ![c] = creation'[c]]
    BY <1>2, <1>a
  <2> QED
    BY <1>2, <2>1, <2>2, <1>a DEF Creation, theme
<1>3. CASE /\ creation[c].step = "own again"
           /\ creation' = [creation EXCEPT ![c].step = "post", ![c].colour = colour]
  <2>1. creation'[c] = [creation[c] EXCEPT !.step = "post", !.colour = colour]
    BY <1>3, <1>a
  <2>2. creation' = [creation EXCEPT ![c] = creation'[c]]
    BY <1>3, <1>a
  <2> QED
    BY <1>3, <2>1, <2>2, <1>a DEF Creation, theme, colour
<1> QED
  BY <1>1, <1>2, <1>3

\* A creation goes on alone, keeps its input, and changes no table.
LEMMA OthersStay ==
  ASSUME TypeOK, NEW c \in Creations, Goes(c)
  PROVE  /\ \A d \in Creations \ {c} : creation'[d] = creation[d]
         /\ creation'[c].input = creation[c].input
         /\ UNCHANGED <<queues, rules, mappings, rows, edit, changed>>
<1>a. creation \in [Creations -> Creation] /\ creation[c] \in Creation
  BY DEF TypeOK
<1>b. UNCHANGED <<queues, rules, mappings, rows, edit, changed>>
  BY CreationTyped DEF Configured
<1>1. CASE Evaluate(c)
  BY <1>1, <1>a, <1>b, EvaluateDoes
<1>2. CASE Fallback(c)
  BY <1>2, <1>a, <1>b, FallbackDoes
<1>3. CASE LookUpGroup(c)
  BY <1>3, <1>a, <1>b DEF LookUpGroup, Creation
<1>4. CASE Store(c)
  BY <1>4, <1>a, <1>b DEF Store, Creation
<1>5. CASE ReadGround(c)
  BY <1>5, <1>a, <1>b DEF ReadGround, Creation
<1>6. CASE ReadOwn(c)
  BY <1>6, <1>a, <1>b, ReadOwnDoes
<1>7. CASE PostRoot(c)
  <2>1. PICK group \in {creation[c].group, NoGroup} :
          creation' = [creation EXCEPT ![c].step = "done", ![c].root = group]
    BY <1>7 DEF PostRoot
  <2> QED
    BY <2>1, <1>a, <1>b DEF Creation
<1>8. CASE Reach(c)
  BY <1>8, <1>a, <1>b DEF Reach, Creation
<1> QED
  BY <1>1, <1>2, <1>3, <1>4, <1>5, <1>6, <1>7, <1>8
  DEF Goes, PostMessage, PostStatus, Poll

-----------------------------------------------------------------------------
(* The group *)

\* The group of a creation is the group of its queue's first mapping.
IsGroup(c) == \E m \in First(Active(creation[c].queue)) : mappings[m].group = creation[c].group

\* The group of the first active mapping is what GroupOf finds.
LEMMA IsGroupOf ==
  ASSUME RoutingTyped, NEW c, IsGroup(c)
  PROVE  GroupOf(creation[c].queue) = creation[c].group
  BY FirstIsGroup DEF IsGroup

\* What GroupOf finds is the group of the first active mapping.
LEMMA GroupOfIs ==
  ASSUME RoutingTyped, NEW q, GroupOf(q) # NoGroup
  PROVE  \E m \in First(Active(q)) : mappings[m].group = GroupOf(q)
  BY DEF GroupOf

\* A mapping that is added comes last, and changes no first one.
LEMMA AddedIsLast ==
  ASSUME RoutingTyped, NEW mapping, InsertMapping(mapping), NEW q,
         NEW m \in First(Active(q))
  PROVE  m \in First(Active(q))' /\ mappings'[m] = mappings[m]
<1> DEFINE new == Len(mappings) + 1
<1>1. /\ mappings \in Seq(Mappings \cup {Gone}) /\ mappings' = Append(mappings, mapping)
      /\ Len(mappings) \in Nat /\ DOMAIN mappings = 1..Len(mappings)
  BY DEF InsertMapping, RoutingTyped
<1>2. /\ DOMAIN mappings' = 1..Len(mappings) + 1
      /\ \A i \in 1..Len(mappings) : mappings'[i] = mappings[i]
  BY <1>1
<1>3. m \in 1..Len(mappings) /\ m \in Active(q) /\ \A other \in Active(q) : m <= other
  BY <1>1 DEF First, Active, Rows
<1>4. m \in Active(q)'
  BY <1>2, <1>3 DEF Active, Rows
<1>5. \A other \in Active(q)' : other \in Active(q) \/ other = new
  BY <1>1, <1>2 DEF Active, Rows
<1>6. m <= new
  BY <1>1, <1>3
<1>7. \A other \in Active(q)' : m <= other
  BY <1>3, <1>5, <1>6
<1> QED
  BY <1>2, <1>3, <1>4, <1>7 DEF First

\* A step of a creation keeps the group it looked up.
LEMMA GoesGrouped ==
  ASSUME TypeOK, GroupIsKept, NEW c \in Creations, Goes(c)
  PROVE  GroupIsKept'
<1>a. creation \in [Creations -> Creation] /\ creation[c] \in Creation /\ RoutingTyped
  BY DEF TypeOK
<1>b. /\ \A d \in Creations \ {c} : creation'[d] = creation[d]
      /\ UNCHANGED <<queues, rules, mappings, changed>>
  BY OthersStay
<1> DEFINE Kept(d) ==
      /\ creation[d].step \in {"start", "default", "group", "store", "refused"} =>
           creation[d].root = NoGroup /\ creation[d].used = {}
      /\ creation[d].step \in {"start", "default", "group"} => creation[d].group = NoGroup
      /\ creation[d].step # "done" => creation[d].root = NoGroup /\ creation[d].used = {}
      /\ creation[d].root \in {NoGroup, creation[d].group}
      /\ creation[d].group # NoGroup /\ "mappings" \notin changed[d] =>
           IsGroup(d) /\ creation[d].used \subseteq {creation[d].group}
<1>c. \A d \in Creations : Kept(d)
  BY DEF GroupIsKept, IsGroup
<1>1. \A d \in Creations \ {c} : Kept(d)'
  BY <1>b, <1>c DEF IsGroup, Active, Rows
<1>d. creation'[c].queue = creation[c].queue /\ creation'[c].group = creation[c].group
        => (IsGroup(c) => IsGroup(c)')
  BY <1>b DEF IsGroup, Active, Rows
<1>2. Kept(c)'
  <2>1. CASE Evaluate(c)
    <3>1. /\ creation'[c].step \in {"default", "refused", "group"} /\ creation'[c].group = NoGroup
          /\ creation'[c].root = NoGroup /\ creation'[c].used = {}
      BY <2>1, <1>c, EvaluateDoes
    <3> QED
      BY <3>1
  <2>2. CASE Fallback(c)
    <3>1. /\ creation'[c].step \in {"refused", "group"} /\ creation'[c].group = NoGroup
          /\ creation'[c].root = NoGroup /\ creation'[c].used = {}
      BY <2>2, <1>c, FallbackDoes
    <3> QED
      BY <3>1
  <2>3. CASE LookUpGroup(c)
    <3>1. /\ creation[c].step = "group" /\ creation'[c].step = "store"
          /\ creation'[c].queue = creation[c].queue
          /\ creation'[c].group = GroupOf(creation[c].queue)
          /\ creation'[c].root = creation[c].root /\ creation'[c].used = creation[c].used
      BY <2>3, <1>a DEF LookUpGroup, Creation
    <3>2. creation[c].root = NoGroup /\ creation[c].used = {}
      BY <3>1, <1>c
    <3>3. creation'[c].group # NoGroup => IsGroup(c)'
      BY <3>1, <1>a, <1>b, GroupOfIs DEF IsGroup, Active, Rows
    <3> QED
      BY <3>1, <3>2, <3>3
  <2>4. CASE Store(c)
    <3>1. /\ creation[c].step = "store" /\ creation'[c].step \in {"refused", "done", "ground"}
          /\ creation'[c].queue = creation[c].queue /\ creation'[c].group = creation[c].group
          /\ creation'[c].root = creation[c].root /\ creation'[c].used = creation[c].used
      BY <2>4, <1>a DEF Store, Creation
    <3> QED
      BY <3>1, <1>b, <1>c, <1>d
  <2>5. CASE ReadGround(c) \/ ReadOwn(c)
    <3>1. /\ creation[c].step \in {"ground", "ground again", "own", "own again"}
          /\ creation'[c].step \in {"own", "own again", "ground again", "post"}
          /\ creation'[c].queue = creation[c].queue /\ creation'[c].group = creation[c].group
          /\ creation'[c].root = creation[c].root /\ creation'[c].used = creation[c].used
      <4>1. CASE ReadGround(c)
        BY <4>1, <1>a DEF ReadGround, Creation
      <4>2. CASE ReadOwn(c)
        BY <4>2, ReadOwnDoes
      <4> QED
        BY <2>5, <4>1, <4>2
    <3> QED
      BY <3>1, <1>b, <1>c, <1>d
  <2>6. CASE PostRoot(c)
    <3>1. PICK group \in {creation[c].group, NoGroup} :
            creation' = [creation EXCEPT ![c].step = "done", ![c].root = group]
      BY <2>6 DEF PostRoot
    <3>2. /\ creation[c].step = "post" /\ creation'[c].step = "done"
          /\ creation'[c].queue = creation[c].queue /\ creation'[c].group = creation[c].group
          /\ creation'[c].root = group /\ creation'[c].used = creation[c].used
      BY <2>6, <3>1, <1>a DEF PostRoot, Creation
    <3> QED
      BY <3>2, <1>b, <1>c, <1>d
  <2>7. CASE Reach(c)
    <3>1. /\ creation[c].step = "done" /\ creation'[c].step = "done"
          /\ creation'[c].queue = creation[c].queue /\ creation'[c].group = creation[c].group
          /\ creation'[c].root = creation[c].root
          /\ creation'[c].used = creation[c].used \cup {GroupOf(creation[c].queue)}
      BY <2>7, <1>a DEF Reach, Creation
    <3>2. IsGroup(c) => GroupOf(creation[c].queue) = creation[c].group
      BY <1>a, IsGroupOf
    <3> QED
      BY <3>1, <3>2, <1>b, <1>c, <1>d
  <2> QED
    BY <2>1, <2>2, <2>3, <2>4, <2>5, <2>6, <2>7 DEF Goes, PostMessage, PostStatus, Poll
<1> QED
  BY <1>1, <1>2 DEF GroupIsKept, IsGroup

\* An edit of the mappings is noted, but for a new one, which comes last.
LEMMA EditsGrouped ==
  ASSUME TypeOK, GroupIsKept, NEW parts \in SUBSET (Part \cup Owners), Note(parts),
         "mappings" \in parts \/ mappings' = mappings \/ \E mapping : InsertMapping(mapping)
  PROVE  GroupIsKept'
<1>1. /\ creation' = creation
      /\ \A c \in Creations : creation[c].step # "start" => changed'[c] = changed[c] \cup parts
  BY Noted
<1>2. \A c \in Creations : creation[c].group # NoGroup => creation[c].step # "start"
  BY DEF GroupIsKept
<1>3. CASE "mappings" \in parts
  BY <1>1, <1>2, <1>3 DEF GroupIsKept
<1>4. CASE mappings' = mappings
  BY <1>1, <1>2, <1>4 DEF GroupIsKept, Active, Rows
<1>5. ASSUME NEW mapping, InsertMapping(mapping) PROVE GroupIsKept'
  <2>1. \A q : \A m \in First(Active(q)) : m \in First(Active(q))' /\ mappings'[m] = mappings[m]
    BY <1>5, AddedIsLast DEF TypeOK
  <2>2. \A c \in Creations : IsGroup(c) => IsGroup(c)'
    BY <2>1, <1>1 DEF IsGroup
  <2> QED
    BY <1>1, <1>2, <2>2 DEF GroupIsKept, IsGroup
<1> QED
  BY <1>3, <1>4, <1>5

-----------------------------------------------------------------------------
(* Branding *)

\* Rows stay what they are, or one is added, put back or removed.
LEMMA EditsOfRows ==
  ASSUME TypeOK, NEW owner \in Owners, NEW brand \in Brands, Create(owner, brand)
  PROVE  \A i \in DOMAIN rows' :
           \/ i \in DOMAIN rows /\ rows'[i] = rows[i]
           \/ i = Len(rows) + 1 /\ rows'[i] = [org |-> owner, brand |-> brand]
  BY DEF TypeOK, BrandingTyped, Create

\* A POST is turned away if the organisation has a row.
LEMMA CreateKeepsOne ==
  ASSUME TypeOK, OneRowPerOrg, NEW owner \in Owners, NEW brand \in Brands, Create(owner, brand)
  PROVE  OneRowPerOrg'
<1> SUFFICES ASSUME NEW org \in Orgs, NEW i \in RowsOf(org)', NEW j \in RowsOf(org)'
             PROVE  i = j
  BY DEF OneRowPerOrg
<1>1. \A k \in RowsOf(org)' : k \in RowsOf(org) \/ (k = Len(rows) + 1 /\ org = owner)
  <2> SUFFICES ASSUME NEW k \in RowsOf(org)'
               PROVE  k \in RowsOf(org) \/ (k = Len(rows) + 1 /\ org = owner)
    OBVIOUS
  <2>1. k \in DOMAIN rows' /\ rows'[k] # Gone /\ rows'[k].org = org
    BY DEF RowsOf, Rows
  <2>2. \/ k \in DOMAIN rows /\ rows'[k] = rows[k]
        \/ k = Len(rows) + 1 /\ rows'[k] = [org |-> owner, brand |-> brand]
    BY <2>1, EditsOfRows
  <2> QED
    BY <2>1, <2>2 DEF RowsOf, Rows
<1>2. org = owner => RowsOf(org) = {}
  BY BrandingAssumption DEF Create, Vacant
<1>3. \A k \in RowsOf(org) : k \in DOMAIN rows
  BY DEF RowsOf, Rows
<1> QED
  BY <1>1, <1>2, <1>3 DEF OneRowPerOrg

\* A PATCH saves a row of the organisation it was read from, even one that was
\* deleted meanwhile: it goes back to its own primary key.
LEMMA SaveKeepsOne ==
  ASSUME TypeOK, OneRowPerOrg, EditFits, NEW e \in Editors, Save(e)
  PROVE  OneRowPerOrg'
<1> DEFINE id == edit[e].id
           owner == edit[e].config.org
<1>a. rows \in Seq(Configs \cup {Gone}) /\ edit[e] # NoEdit /\ id \in DOMAIN rows
  BY DEF TypeOK, BrandingTyped, Save, EditFits
<1>1. CASE rows' = rows
  BY <1>1 DEF OneRowPerOrg, RowsOf, Rows
<1>2. CASE /\ rows[id] # Gone \/ Vacant(owner)
           /\ rows' = [rows EXCEPT ![id] = edit[e].config]
  <2> SUFFICES ASSUME NEW org \in Orgs, NEW i \in RowsOf(org)', NEW j \in RowsOf(org)'
               PROVE  i = j
    BY DEF OneRowPerOrg
  <2>1. \A k \in RowsOf(org)' : k \in RowsOf(org) \/ (k = id /\ org = owner)
    <3> SUFFICES ASSUME NEW k \in RowsOf(org)'
                 PROVE  k \in RowsOf(org) \/ (k = id /\ org = owner)
      OBVIOUS
    <3>1. k \in DOMAIN rows' /\ rows'[k] # Gone /\ rows'[k].org = org
      BY DEF RowsOf, Rows
    <3>2. /\ k \in DOMAIN rows
          /\ IF k = id THEN rows'[k] = edit[e].config ELSE rows'[k] = rows[k]
      BY <3>1, <1>2, <1>a
    <3> QED
      BY <3>1, <3>2 DEF RowsOf, Rows
  <2>2. org = owner => RowsOf(org) \subseteq {id}
    <3>1. CASE rows[id] # Gone
      <4>1. rows[id].org = owner
        BY <3>1, <1>a DEF EditFits
      <4> QED
        BY <4>1, <3>1, <1>a DEF OneRowPerOrg, RowsOf, Rows
    <3>2. CASE Vacant(owner)
      BY <3>2, BrandingAssumption DEF Vacant
    <3> QED
      BY <1>2, <3>1, <3>2
  <2>3. \A k \in RowsOf(org) : k \in DOMAIN rows
    BY DEF RowsOf, Rows
  <2> QED
    BY <2>1, <2>2, <2>3 DEF OneRowPerOrg
<1> QED
  BY <1>1, <1>2 DEF Save

\* A DELETE adds no row.
LEMMA DeleteKeepsOne ==
  ASSUME TypeOK, OneRowPerOrg, NEW i, Delete(i)
  PROVE  OneRowPerOrg'
  BY DEF TypeOK, BrandingTyped, OneRowPerOrg, Delete, RowsOf, Rows

\* Edits of the branding table keep EditFits: an id is never given to another
\* organisation.
LEMMA EditsFit ==
  ASSUME TypeOK, EditFits, EditBranding \/ BeginPatch \/ EndPatch
  PROVE  EditFits'
<1>a. rows \in Seq(Configs \cup {Gone}) /\ edit \in [Editors -> Edits \cup {NoEdit}]
  BY DEF TypeOK, BrandingTyped
<1>1. ASSUME NEW owner \in Owners, NEW brand \in Brands, Create(owner, brand) PROVE EditFits'
  <2>1. edit' = edit /\ rows' = Append(rows, [org |-> owner, brand |-> brand])
    BY <1>1 DEF Create
  <2>2. \A i \in DOMAIN rows : i \in DOMAIN rows' /\ rows'[i] = rows[i]
    BY <2>1, <1>a
  <2> QED
    BY <2>1, <2>2 DEF EditFits
<1>2. ASSUME NEW i, Delete(i) PROVE EditFits'
  BY <1>2, <1>a DEF EditFits, Delete
<1>3. ASSUME NEW e \in Editors, NEW i, NEW fields, NEW brand \in Brands,
             Patch(e, i, fields, brand)
      PROVE  EditFits'
  <2>1. /\ i \in DOMAIN rows /\ rows[i] # Gone /\ rows' = rows
        /\ \A d \in Editors \ {e} : edit'[d] = edit[d]
        /\ edit'[e].id = i
    BY <1>3, <1>a DEF Patch, Rows
  <2>2. rows[i] \in Configs
    BY <2>1, <1>a
  <2>3. edit'[e].config.org = rows[i].org
    BY <1>3, <2>2, <1>a DEF Patch, Configs
  <2> QED
    BY <2>1, <2>3 DEF EditFits
<1>4. ASSUME NEW e \in Editors, Save(e) PROVE EditFits'
  <2>1. /\ edit[e] # NoEdit
        /\ rows' = rows \/ rows' = [rows EXCEPT ![edit[e].id] = edit[e].config]
        /\ \A d \in Editors \ {e} : edit'[d] = edit[d]
        /\ edit'[e] = NoEdit
    BY <1>4, <1>a DEF Save
  <2> QED
    BY <2>1, <1>a DEF EditFits
<1> QED
  BY <1>1, <1>2, <1>3, <1>4 DEF EditBranding, BeginPatch, EndPatch

\* Only the owner's rows change, and that is noted.
LEMMA EditsRead ==
  ASSUME TypeOK, OverrideIsRead, NEW owner \in Owners, Note({owner}),
         \A org \in Orgs \ {owner} :
           RowsOf(org)' = RowsOf(org) /\ \A i \in RowsOf(org) : rows'[i] = rows[i]
  PROVE  OverrideIsRead'
<1>1. {owner} \in SUBSET (Part \cup Owners)
  OBVIOUS
<1>2. /\ creation' = creation
      /\ \A c \in Creations : creation[c].step # "start" => owner \in changed'[c]
      /\ \A c \in Creations : creation[c].step # "start" => changed[c] \subseteq changed'[c]
  BY <1>1, Noted
<1>3. \A c \in Creations : creation[c].input.org \in Orgs
  BY ConfigurationAssumption DEF TypeOK, Creation
<1>4. \A c \in Creations : creation[c].input.org = owner =>
        creation[c].step = "start" \/ creation[c].input.org \in changed'[c]
  BY <1>2
<1> SUFFICES ASSUME NEW c \in Creations, NEW org \in Orgs \ {owner},
                    creation[c].input.org = org, creation[c].step # "start",
                    NEW i \in RowsOf(org)', org \notin changed'[c]
             PROVE  /\ creation[c].step \in {"ground again", "own again", "post"} =>
                         rows'[i].brand.header \in {NoValue, creation[c].header}
                    /\ creation[c].step = "post" /\ creation[c].input.severity \in Severities =>
                         rows'[i].brand.colors[creation[c].input.severity]
                           \in {NoValue, Empty, creation[c].colour}
  <2> SUFFICES ASSUME NEW c \in Creations, NEW i \in DOMAIN rows', NEW org,
                      org = creation[c].input.org, org \notin changed'[c], i \in RowsOf(org)',
                      creation[c].step # "start"
               PROVE  org \in Orgs \ {owner}
    BY <1>2 DEF OverrideIsRead
  <2> QED
    BY <1>3, <1>4
<1>5. i \in RowsOf(org) /\ rows'[i] = rows[i]
  OBVIOUS
<1>6. i \in DOMAIN rows /\ org \notin changed[c]
  BY <1>2, <1>5 DEF RowsOf, Rows
<1> QED
  BY <1>5, <1>6 DEF OverrideIsRead

\* What an own row sets goes through to the header and the colour.
LEMMA OwnShows ==
  ASSUME TypeOK, OneRowPerOrg, NEW org \in Orgs, NEW i \in RowsOf(org), NEW below \in AllBrands
  PROVE  /\ rows[i].brand.header \in {NoValue, Own(org, below).header}
         /\ \A severity \in Severities :
              rows[i].brand.colors[severity]
                \in {NoValue, Empty, Strip(Own(org, below), severity)}
<1>1. \A j \in RowsOf(org) : j = i
  BY DEF OneRowPerOrg, RowsOf, Rows
<1>2. Own(org, below) = Overlay(below, rows[i].brand)
  BY <1>1, OwnOverrides DEF TypeOK
<1>3. Overlay(below, rows[i].brand).header = Or(rows[i].brand.header, below.header)
  BY DEF Overlay
<1>4. \A severity \in Severities :
        Overlay(below, rows[i].brand).colors[severity]
          = IF rows[i].brand.colors[severity] = Empty THEN below.colors[severity]
            ELSE Or(rows[i].brand.colors[severity], below.colors[severity])
  BY DEF Overlay
<1> QED
  BY <1>2, <1>3, <1>4 DEF Strip, Or

\* A step of a creation keeps OverrideIsRead: each query reads the row as it is.
LEMMA GoesRead ==
  ASSUME TypeOK, OneRowPerOrg, OverrideIsRead, NEW c \in Creations, Goes(c)
  PROVE  OverrideIsRead'
<1>a. creation \in [Creations -> Creation] /\ creation[c] \in Creation
  BY DEF TypeOK
<1>b. /\ \A d \in Creations \ {c} : creation'[d] = creation[d]
      /\ creation'[c].input = creation[c].input
      /\ UNCHANGED <<rows, changed>>
  BY OthersStay
<1>c. creation[c].input.org \in Orgs /\ creation[c].theme \in AllBrands
  BY <1>a, ConfigurationAssumption DEF Creation
<1> DEFINE org == creation[c].input.org
           severity == creation[c].input.severity
           Read(d) == \A i \in RowsOf(creation[d].input.org) :
             creation[d].input.org \notin changed[d] =>
               /\ creation[d].step \in {"ground again", "own again", "post"} =>
                    rows[i].brand.header \in {NoValue, creation[d].header}
               /\ creation[d].step = "post" /\ creation[d].input.severity \in Severities =>
                    rows[i].brand.colors[creation[d].input.severity]
                      \in {NoValue, Empty, creation[d].colour}
<1>d. \A d \in Creations : Read(d)
  BY DEF OverrideIsRead, RowsOf, Rows
<1>e. \A o : RowsOf(o)' = RowsOf(o)
  BY <1>b DEF RowsOf, Rows
<1>1. \A d \in Creations \ {c} : Read(d)'
  BY <1>b, <1>d, <1>e DEF RowsOf, Rows
<1>2. Read(c)'
  <2>1. CASE creation'[c].step \notin {"ground again", "own again", "post"}
    BY <2>1
  <2>2. CASE ReadGround(c)
    <3>1. creation[c].step \in {"ground", "ground again"}
      BY <2>2 DEF ReadGround
    <3>2. /\ creation'[c].step = IF creation[c].step = "ground" THEN "own" ELSE "own again"
          /\ creation'[c].header = creation[c].header
      BY <2>2, <1>a DEF ReadGround, Creation
    <3> QED
      BY <3>1, <3>2, <1>b, <1>d DEF RowsOf, Rows
  <2>3. CASE ReadOwn(c)
    <3>1. \A i \in RowsOf(org) :
            /\ rows[i].brand.header \in {NoValue, Own(org, creation[c].theme).header}
            /\ severity \in Severities => rows[i].brand.colors[severity]
                 \in {NoValue, Empty, Strip(Own(org, creation[c].theme), severity)}
      BY <1>c, OwnShows
    <3>2. \/ /\ creation'[c].step = "ground again"
             /\ creation'[c].header = Own(org, creation[c].theme).header
          \/ /\ creation[c].step = "own again" /\ creation'[c].step = "post"
             /\ creation'[c].header = creation[c].header
             /\ creation'[c].colour = Strip(Own(org, creation[c].theme), severity)
      BY <2>3, ReadOwnDoes
    <3> QED
      BY <3>1, <3>2, <1>b, <1>d DEF RowsOf, Rows
  <2>4. CASE Evaluate(c)
    BY <2>4, <2>1, EvaluateDoes
  <2>5. CASE Fallback(c)
    BY <2>5, <2>1, FallbackDoes
  <2>6. CASE LookUpGroup(c)
    BY <2>6, <2>1, <1>a DEF LookUpGroup, Creation
  <2>7. CASE Store(c)
    BY <2>7, <2>1, <1>a DEF Store, Creation
  <2>8. CASE PostRoot(c)
    <3>1. PICK group \in {creation[c].group, NoGroup} :
            creation' = [creation EXCEPT ![c].step = "done", ![c].root = group]
      BY <2>8 DEF PostRoot
    <3> QED
      BY <3>1, <2>1, <1>a DEF Creation
  <2>9. CASE Reach(c)
    BY <2>9, <2>1, <1>a DEF Reach, Creation
  <2> QED
    BY <2>2, <2>3, <2>4, <2>5, <2>6, <2>7, <2>8, <2>9 DEF Goes, PostMessage, PostStatus, Poll
<1> QED
  BY <1>1, <1>2 DEF OverrideIsRead

\* An edit changes the rows of one owner and notes it.
LEMMA RowEditTouches ==
  ASSUME TypeOK, EditFits, NEW owner \in Owners,
         \/ \E brand \in Brands : Create(owner, brand)
         \/ \E i \in RowsOf(owner) : Delete(i)
         \/ \E e \in Editors : edit[e].config.org = owner /\ Save(e)
  PROVE  \A other \in Owners \ {owner} :
           RowsOf(other)' = RowsOf(other) /\ \A i \in RowsOf(other) : rows'[i] = rows[i]
<1>a. rows \in Seq(Configs \cup {Gone}) /\ edit \in [Editors -> Edits \cup {NoEdit}]
  BY DEF TypeOK, BrandingTyped
<1>1. ASSUME NEW brand \in Brands, Create(owner, brand)
      PROVE  \A other \in Owners \ {owner} :
               RowsOf(other)' = RowsOf(other) /\ \A i \in RowsOf(other) : rows'[i] = rows[i]
  <2>1. rows' = Append(rows, [org |-> owner, brand |-> brand])
    BY <1>1 DEF Create
  <2>2. \A i \in DOMAIN rows : i \in DOMAIN rows' /\ rows'[i] = rows[i]
    BY <2>1, <1>a
  <2>3. \A i \in DOMAIN rows' : \/ i \in DOMAIN rows
                                \/ rows'[i] = [org |-> owner, brand |-> brand]
    BY <1>1, EditsOfRows
  <2> QED
    BY <2>2, <2>3 DEF RowsOf, Rows
<1>2. ASSUME NEW i \in RowsOf(owner), Delete(i)
      PROVE  \A other \in Owners \ {owner} :
               RowsOf(other)' = RowsOf(other) /\ \A j \in RowsOf(other) : rows'[j] = rows[j]
  BY <1>2, <1>a DEF Delete, RowsOf, Rows
<1>3. ASSUME NEW e \in Editors, edit[e].config.org = owner, Save(e)
      PROVE  \A other \in Owners \ {owner} :
               RowsOf(other)' = RowsOf(other) /\ \A i \in RowsOf(other) : rows'[i] = rows[i]
  <2>1. edit[e] # NoEdit
    BY <1>3 DEF Save
  <2>2. /\ edit[e].id \in DOMAIN rows
        /\ rows[edit[e].id] # Gone => rows[edit[e].id].org = owner
    BY <1>3, <2>1 DEF EditFits
  <2>3. \/ rows' = rows
        \/ rows' = [rows EXCEPT ![edit[e].id] = edit[e].config]
    BY <1>3 DEF Save
  <2> QED
    BY <1>3, <2>2, <2>3, <1>a DEF RowsOf, Rows
<1> QED
  BY <1>1, <1>2, <1>3

\* An edit of the branding table is noted under the owner it is about; all other
\* creations have read what still is so.
LEMMA BrandingEdits ==
  ASSUME TypeOK, Branded, EditBranding \/ BeginPatch \/ EndPatch
  PROVE  Branded'
<1>a. rows \in Seq(Configs \cup {Gone}) /\ edit \in [Editors -> Edits \cup {NoEdit}]
  BY DEF TypeOK, BrandingTyped
<1>b. EditFits'
  BY EditsFit DEF Branded
<1>1. ASSUME NEW owner \in Owners, NEW brand \in Brands, Create(owner, brand), Note({owner})
      PROVE  OneRowPerOrg' /\ OverrideIsRead'
  <2>1. \A org \in Orgs \ {owner} :
          RowsOf(org)' = RowsOf(org) /\ \A i \in RowsOf(org) : rows'[i] = rows[i]
    BY <1>1, RowEditTouches DEF Branded, Owners
  <2> QED
    BY <1>1, <2>1, CreateKeepsOne, EditsRead DEF Branded
<1>2. ASSUME NEW owner \in Owners, NEW i \in RowsOf(owner), Delete(i), Note({owner})
      PROVE  OneRowPerOrg' /\ OverrideIsRead'
  <2>1. \A org \in Orgs \ {owner} :
          RowsOf(org)' = RowsOf(org) /\ \A j \in RowsOf(org) : rows'[j] = rows[j]
    BY <1>2, RowEditTouches DEF Branded, Owners
  <2> QED
    BY <1>2, <2>1, DeleteKeepsOne, EditsRead DEF Branded
<1>3. ASSUME NEW e \in Editors, Save(e), Note({edit[e].config.org})
      PROVE  OneRowPerOrg' /\ OverrideIsRead'
  <2> DEFINE owner == edit[e].config.org
  <2>1. edit[e] # NoEdit /\ owner \in Owners
    BY <1>3, <1>a DEF Save, Edits, Configs
  <2>4. \A org \in Orgs \ {owner} :
          RowsOf(org)' = RowsOf(org) /\ \A j \in RowsOf(org) : rows'[j] = rows[j]
    BY <1>3, <2>1, RowEditTouches DEF Branded, Owners
  <2> HIDE DEF owner
  <2> QED
    BY <1>3, <2>1, <2>4, SaveKeepsOne, EditsRead DEF Branded, owner
<1>4. CASE EditBranding
  BY <1>4, <1>1, <1>2, <1>b DEF EditBranding, Branded
<1>5. CASE BeginPatch
  <2>1. UNCHANGED <<rows, creation, changed>>
    BY <1>5 DEF BeginPatch, Patch
  <2>2. \A org : RowsOf(org)' = RowsOf(org)
    BY <2>1 DEF RowsOf, Rows
  <2>3. OneRowPerOrg'
    BY <2>1, <2>2 DEF OneRowPerOrg, Branded
  <2>4. OverrideIsRead'
    BY <2>1, <2>2 DEF OverrideIsRead, Branded
  <2> QED
    BY <1>b, <2>3, <2>4 DEF Branded
<1>6. CASE EndPatch
  BY <1>6, <1>3, <1>b DEF EndPatch, Branded
<1> QED
  BY <1>4, <1>5, <1>6

-----------------------------------------------------------------------------
(* The invariant *)

\* Edits of other tables leave what was read of the theme alone.
LEMMA RoutingEditsRead ==
  ASSUME TypeOK, Branded, NEW parts \in SUBSET (Part \cup Owners), Note(parts),
         UNCHANGED branding
  PROVE  Branded'
<1>1. /\ creation' = creation
      /\ \A c \in Creations : creation[c].step # "start" => changed'[c] = changed[c] \cup parts
  BY Noted
<1>2. UNCHANGED <<rows, edit>> /\ \A org : RowsOf(org)' = RowsOf(org)
  BY DEF branding, RowsOf, Rows
<1>3. OneRowPerOrg' /\ EditFits'
  BY <1>2 DEF Branded, OneRowPerOrg, EditFits
<1>4. OverrideIsRead'
  BY <1>1, <1>2 DEF Branded, OverrideIsRead
<1> QED
  BY <1>3, <1>4 DEF Branded

\* A query that is due finds what the invariant says, as long as each owner
\* whose rows change is noted.
LEMMA AskedStays ==
  ASSUME TypeOK, ThemeIsAsked, NEW c \in Creations, creation'[c] = creation[c],
         creation[c].step \in {"own", "own again"},
         asked'[c].theme = asked[c].theme, asked[c].edited \subseteq asked'[c].edited,
         \A owner \in Owners \ asked'[c].edited :
           RowsOf(owner)' = RowsOf(owner) /\ \A i \in RowsOf(owner) : rows'[i] = rows[i],
         NEW org, org = creation[c].input.org
  PROVE  /\ Deployment \notin asked'[c].edited => creation'[c].theme = Ground'
         /\ org \notin asked'[c].edited => asked'[c].theme = Own(org, creation[c].theme)'
<1>1. org \in Owners /\ Deployment \in Owners
  BY ConfigurationAssumption DEF TypeOK, Creation, Owners
<1>2. /\ Deployment \notin asked[c].edited => creation[c].theme = Ground
      /\ org \notin asked[c].edited => asked[c].theme = Own(org, creation[c].theme)
  BY DEF ThemeIsAsked
<1>3. ASSUME Deployment \notin asked'[c].edited
      PROVE  creation'[c].theme = Ground'
  <2>1. RowsOf(Deployment)' = RowsOf(Deployment)
        /\ \A i \in RowsOf(Deployment) : rows'[i] = rows[i]
    BY <1>1, <1>3
  <2>3. First(RowsOf(Deployment))' = First(RowsOf(Deployment))
    BY <2>1 DEF First
  <2>4. First(RowsOf(Deployment)) # {} =>
          (CHOOSE i \in First(RowsOf(Deployment)) : TRUE) \in RowsOf(Deployment)
    BY DEF First
  <2>5. First(RowsOf(Deployment)) # {} =>
          rows'[CHOOSE i \in First(RowsOf(Deployment)) : TRUE]
            = rows[CHOOSE i \in First(RowsOf(Deployment)) : TRUE]
    BY <2>1, <2>4
  <2>2. Ground' = Ground
    <3> DEFINE first == CHOOSE i \in First(RowsOf(Deployment)) : TRUE
    <3>1. first' = first
      BY <2>3
    <3>2. CASE First(RowsOf(Deployment)) = {}
      BY <2>3, <3>2 DEF Ground, OverlayRowOf
    <3>3. CASE First(RowsOf(Deployment)) # {}
      <4>1. OverlayRowOf(Deployment, FromSettings) = Overlay(FromSettings, rows[first].brand)
        BY <3>3 DEF OverlayRowOf
      <4>2. OverlayRowOf(Deployment, FromSettings)' = Overlay(FromSettings, rows[first].brand)'
        BY <2>3, <3>3 DEF OverlayRowOf
      <4>3. (rows[first].brand)' = rows[first].brand
        BY <2>5, <3>1, <3>3
      <4> QED
        BY <4>1, <4>2, <4>3 DEF Ground
    <3> QED
      BY <3>2, <3>3
  <2> QED
    BY <1>2, <1>3, <2>2
<1>4. ASSUME org \notin asked'[c].edited
      PROVE  asked'[c].theme = Own(org, creation[c].theme)'
  <2>1. RowsOf(org)' = RowsOf(org) /\ \A i \in RowsOf(org) : rows'[i] = rows[i]
    BY <1>1, <1>4
  <2>3. First(RowsOf(org))' = First(RowsOf(org))
    BY <2>1 DEF First
  <2>4. First(RowsOf(org)) # {} =>
          (CHOOSE i \in First(RowsOf(org)) : TRUE) \in RowsOf(org)
    BY DEF First
  <2>5. First(RowsOf(org)) # {} =>
          rows'[CHOOSE i \in First(RowsOf(org)) : TRUE]
            = rows[CHOOSE i \in First(RowsOf(org)) : TRUE]
    BY <2>1, <2>4
  <2>2. Own(org, creation[c].theme)' = Own(org, creation[c].theme)
    <3> DEFINE first == CHOOSE i \in First(RowsOf(org)) : TRUE
    <3>1. first' = first
      BY <2>3
    <3>2. CASE First(RowsOf(org)) = {}
      BY <2>3, <3>2 DEF Own, OverlayRowOf
    <3>3. CASE First(RowsOf(org)) # {}
      <4>1. OverlayRowOf(org, creation[c].theme) = Overlay(creation[c].theme, rows[first].brand)
        BY <3>3 DEF OverlayRowOf
      <4>2. OverlayRowOf(org, creation[c].theme)' = Overlay(creation[c].theme, rows[first].brand)'
        BY <2>3, <3>3 DEF OverlayRowOf
      <4>3. (rows[first].brand)' = rows[first].brand
        BY <2>5, <3>1, <3>3
      <4> QED
        BY <4>1, <4>2, <4>3 DEF Own
    <3> QED
      BY <3>2, <3>3
  <2> QED
    BY <1>2, <1>4, <2>2
<1> QED
  BY <1>3, <1>4

\* What an administrator does keeps ThemeIsAsked, as it is noted.
LEMMA EditsAsked ==
  ASSUME TypeOK, ThemeIsAsked, NEW parts \in SUBSET (Part \cup Owners), Note(parts),
         \A owner \in Owners \ parts :
           RowsOf(owner)' = RowsOf(owner) /\ \A i \in RowsOf(owner) : rows'[i] = rows[i]
  PROVE  ThemeIsAsked'
<1> SUFFICES ASSUME NEW c \in Creations, creation'[c].step \in {"own", "own again"},
                    NEW org, org = creation'[c].input.org
             PROVE  /\ Deployment \notin asked'[c].edited => creation'[c].theme = Ground'
                    /\ org \notin asked'[c].edited => asked'[c].theme = Own(org, creation[c].theme)'
  BY DEF ThemeIsAsked
<1>1. creation' = creation /\ asked[c] \in Asked
  BY DEF Note, TypeOK
<1>2. asked'[c] = [asked[c] EXCEPT !.edited = @ \cup parts]
  BY <1>1 DEF Note
<1>3. asked'[c].theme = asked[c].theme /\ asked'[c].edited = asked[c].edited \cup parts
  BY <1>1, <1>2 DEF Asked
<1> QED
  BY <1>1, <1>3, AskedStays

\* Without an edit, a creation that has not moved finds what it found.
LEMMA QuietAsked ==
  ASSUME TypeOK, ThemeIsAsked, UNCHANGED rows, NEW Others \in SUBSET Creations,
         \A c \in Others : creation'[c] = creation[c] /\ asked'[c] = asked[c],
         \A c \in Creations \ Others : creation'[c].step \notin {"own", "own again"}
  PROVE  ThemeIsAsked'
<1> SUFFICES ASSUME NEW c \in Creations, creation'[c].step \in {"own", "own again"},
                    NEW org, org = creation'[c].input.org
             PROVE  /\ Deployment \notin asked'[c].edited => creation'[c].theme = Ground'
                    /\ org \notin asked'[c].edited => asked'[c].theme = Own(org, creation[c].theme)'
  BY DEF ThemeIsAsked
<1>1. creation'[c] = creation[c] /\ asked'[c] = asked[c]
  OBVIOUS
<1>2. \A owner : RowsOf(owner)' = RowsOf(owner)
  BY DEF RowsOf, Rows
<1> QED
  BY <1>1, <1>2, AskedStays

\* Only the first query of a theme leads to the second.
LEMMA OnlyGround ==
  ASSUME TypeOK, NEW c \in Creations, Goes(c), ~ReadGround(c)
  PROVE  creation'[c].step \notin {"own", "own again"}
<1>a. creation \in [Creations -> Creation] /\ creation[c] \in Creation
  BY DEF TypeOK
<1>1. CASE Evaluate(c)
  BY <1>1, EvaluateDoes
<1>2. CASE Fallback(c)
  BY <1>2, FallbackDoes
<1>3. CASE LookUpGroup(c)
  BY <1>3, <1>a DEF LookUpGroup, Creation
<1>4. CASE Store(c)
  BY <1>4, <1>a DEF Store, Creation
<1>5. CASE ReadOwn(c)
  BY <1>5, ReadOwnDoes
<1>6. CASE PostRoot(c)
  <2>1. PICK group \in {creation[c].group, NoGroup} :
          creation' = [creation EXCEPT ![c].step = "done", ![c].root = group]
    BY <1>6 DEF PostRoot
  <2> QED
    BY <2>1, <1>a DEF Creation
<1>7. CASE Reach(c)
  BY <1>7, <1>a DEF Reach, Creation
<1> QED
  BY <1>1, <1>2, <1>3, <1>4, <1>5, <1>6, <1>7 DEF Goes, PostMessage, PostStatus, Poll

\* A creation that makes the first query reads the default as it is.
LEMMA GoesAsked ==
  ASSUME TypeOK, ThemeIsAsked, NEW c \in Creations, Goes(c)
  PROVE  ThemeIsAsked'
<1>a. creation \in [Creations -> Creation] /\ asked \in [Creations -> Asked]
  BY DEF TypeOK
<1>b. /\ \A d \in Creations \ {c} : creation'[d] = creation[d]
      /\ creation'[c].input = creation[c].input /\ UNCHANGED rows
  BY OthersStay
<1>c. \A d \in Creations \ {c} : asked'[d] = asked[d]
  BY <1>a DEF Goes, Evaluate, Fallback, LookUpGroup, Store, ReadGround, ReadOwn, PostRoot,
              PostMessage, PostStatus, Poll, Reach
<1>1. CASE ~ReadGround(c)
  <2>1. creation'[c].step \notin {"own", "own again"}
    BY <1>1, OnlyGround
  <2> QED
    BY <2>1, <1>b, <1>c, QuietAsked
<1>2. CASE ReadGround(c)
  <2>1. creation'[c].theme = Ground /\ asked'[c].theme = Theme(creation[c].input.org)
    BY <1>2, <1>a DEF ReadGround, Creation
  <2>2. Ground' = Ground /\ \A owner : First(RowsOf(owner))' = First(RowsOf(owner))
    BY <1>b DEF Ground, OverlayRowOf, First, RowsOf, Rows
  <2>3. asked'[c].theme = Own(creation[c].input.org, creation[c].theme)'
    BY <2>1, <2>2, <1>b DEF Theme, Own, OverlayRowOf
  <2>4. \A d \in Creations \ {c} : \A org : 
          creation'[d].step \in {"own", "own again"} /\ org = creation'[d].input.org =>
            /\ Deployment \notin asked'[d].edited => creation'[d].theme = Ground'
            /\ org \notin asked'[d].edited => asked'[d].theme = Own(org, creation[d].theme)'
    <3> SUFFICES ASSUME NEW d \in Creations \ {c}, creation'[d].step \in {"own", "own again"},
                        NEW org, org = creation'[d].input.org
                 PROVE  /\ Deployment \notin asked'[d].edited => creation'[d].theme = Ground'
                        /\ org \notin asked'[d].edited =>
                             asked'[d].theme = Own(org, creation[d].theme)'
      OBVIOUS
    <3>1. \A owner : RowsOf(owner)' = RowsOf(owner)
      BY <1>b DEF RowsOf, Rows
    <3> QED
      BY <3>1, <1>b, <1>c, AskedStays
  <2> QED
    BY <2>1, <2>2, <2>3, <2>4 DEF ThemeIsAsked
<1> QED
  BY <1>1, <1>2

\* A step of a creation keeps the parts of the invariant.
LEMMA GoesKeeps ==
  ASSUME Inv, NEW c \in Creations, Goes(c)
  PROVE  GroupIsKept' /\ Branded' /\ ThemeIsAsked'
<1>1. GroupIsKept'
  BY GoesGrouped DEF Inv
<1>2. OverrideIsRead'
  BY GoesRead DEF Inv, Branded
<1>3. UNCHANGED <<rows, edit>>
  BY OthersStay DEF Inv
<1>4. OneRowPerOrg' /\ EditFits'
  BY <1>3 DEF Inv, Branded, OneRowPerOrg, EditFits, RowsOf, Rows
<1>5. ThemeIsAsked'
  BY GoesAsked DEF Inv
<1> QED
  BY <1>1, <1>2, <1>4, <1>5 DEF Branded

\* So does an edit of the routing tables,
LEMMA RoutingEditsKeep ==
  ASSUME Inv, EditRouting \/ DeleteQueue \/ AddMapping \/ EditMapping
  PROVE  GroupIsKept' /\ Branded' /\ ThemeIsAsked'
<1>a. TypeOK /\ GroupIsKept /\ Branded /\ ThemeIsAsked
  BY DEF Inv
<1>1. PICK parts \in SUBSET (Part \cup Owners) :
        /\ Note(parts)
        /\ "mappings" \in parts \/ mappings' = mappings \/ \E mapping : InsertMapping(mapping)
  <2>a. {"mappings"} \in SUBSET (Part \cup Owners) /\ {} \in SUBSET (Part \cup Owners)
    BY DEF Part
  <2>1. CASE EditRouting
    <3>1. mappings' = mappings
      BY <2>1 DEF EditRouting, InsertQueue, SaveQueue, InsertRule, SaveRule, RemoveRule, SeedRule
    <3>2. Note({})
      BY <2>1 DEF EditRouting
    <3> QED
      BY <2>a, <3>1, <3>2
  <2>2. CASE AddMapping
    <3>1. \E mapping : InsertMapping(mapping)
      BY <2>2 DEF AddMapping
    <3>2. Note({})
      BY <2>2 DEF AddMapping
    <3> QED
      BY <2>a, <3>1, <3>2
  <2>3. CASE DeleteQueue \/ EditMapping
    <3>1. Note({"mappings"})
      BY <2>3 DEF DeleteQueue, EditMapping
    <3> QED
      BY <2>a, <3>1
  <2> QED
    BY <2>1, <2>2, <2>3
<1>2. GroupIsKept'
  BY <1>a, <1>1, EditsGrouped
<1>3. UNCHANGED branding
  BY DEF EditRouting, DeleteQueue, AddMapping, EditMapping
<1>4. Branded'
  BY <1>a, <1>1, <1>3, RoutingEditsRead
<1>5. ThemeIsAsked'
  <2>1. \A owner : RowsOf(owner)' = RowsOf(owner) /\ \A i \in RowsOf(owner) : rows'[i] = rows[i]
    BY <1>3 DEF branding, RowsOf, Rows
  <2> QED
    BY <1>a, <1>1, <2>1, EditsAsked
<1> QED
  BY <1>2, <1>4, <1>5

\* and one of the branding table.
LEMMA BrandingEditsKeep ==
  ASSUME Inv, EditBranding \/ BeginPatch \/ EndPatch
  PROVE  GroupIsKept' /\ Branded' /\ ThemeIsAsked'
<1>a. TypeOK /\ GroupIsKept /\ Branded /\ ThemeIsAsked
  BY DEF Inv
<1>1. Branded'
  BY <1>a, BrandingEdits
<1>2. UNCHANGED <<queues, rules, mappings>>
  BY DEF EditBranding, BeginPatch, EndPatch, routing
<1>3. CASE BeginPatch
  <2>1. UNCHANGED <<rows, creation, changed, asked>>
    BY <1>3 DEF BeginPatch, Patch
  <2>2. GroupIsKept'
    <3>1. \A q : First(Active(q))' = First(Active(q))
      BY <1>2 DEF First, Active, Rows
    <3> QED
      BY <1>2, <1>a, <2>1, <3>1 DEF GroupIsKept
  <2>3. ThemeIsAsked'
    BY <1>a, <2>1, QuietAsked
  <2> QED
    BY <1>1, <2>2, <2>3
<1>4. CASE EditBranding \/ EndPatch
  <2>1. PICK owner \in Owners :
          /\ Note({owner})
          /\ \/ \E brand \in Brands : Create(owner, brand)
             \/ \E i \in RowsOf(owner) : Delete(i)
             \/ \E e \in Editors : edit[e].config.org = owner /\ Save(e)
    <3>1. CASE EditBranding
      BY <3>1 DEF EditBranding
    <3>2. CASE EndPatch
      <4>1. PICK e \in Editors : edit[e] # NoEdit /\ Save(e) /\ Note({edit[e].config.org})
        BY <3>2 DEF EndPatch
      <4>2. edit[e].config.org \in Owners
        BY <4>1, <1>a DEF TypeOK, BrandingTyped, Edits, Configs
      <4> QED
        BY <4>1, <4>2
    <3> QED
      BY <1>4, <3>1, <3>2
  <2>2. {owner} \in SUBSET (Part \cup Owners)
    OBVIOUS
  <2>3. GroupIsKept'
    BY <1>2, <1>a, <2>1, <2>2, EditsGrouped
  <2>4. \A other \in Owners \ {owner} :
          RowsOf(other)' = RowsOf(other) /\ \A i \in RowsOf(other) : rows'[i] = rows[i]
    BY <1>a, <2>1, RowEditTouches DEF Branded
  <2>5. ThemeIsAsked'
    BY <1>a, <2>1, <2>2, <2>4, EditsAsked
  <2> QED
    BY <1>1, <2>3, <2>5
<1> QED
  BY <1>3, <1>4

\* Before the first creation nothing was read.
LEMMA InitKept == Init => GroupIsKept /\ Branded /\ ThemeIsAsked
<1> SUFFICES ASSUME Init PROVE GroupIsKept /\ Branded /\ ThemeIsAsked
  OBVIOUS
<1>1. PICK b \in Beginnings : rows = b.rows
  BY DEF Init
<1>2. \A i, j \in DOMAIN b.rows :
        {i, j} \subseteq Rows(b.rows) /\ b.rows[i].org = b.rows[j].org
          => i = j \/ b.rows[i].org = Deployment
  BY ConfigurationAssumption
<1>3. /\ \A c \in Creations : \E input : creation[c] = Fresh(input)
      /\ \A e \in Editors : edit[e] = NoEdit
  BY DEF Init
<1>4. \A c \in Creations : /\ creation[c].step = "start"
                           /\ creation[c].group = NoGroup /\ creation[c].root = NoGroup
                           /\ creation[c].used = {}
  <2> SUFFICES ASSUME NEW c \in Creations
               PROVE  /\ creation[c].step = "start"
                      /\ creation[c].group = NoGroup /\ creation[c].root = NoGroup
                      /\ creation[c].used = {}
    OBVIOUS
  <2>1. PICK input : creation[c] = Fresh(input)
    BY <1>3
  <2> QED
    BY <2>1 DEF Fresh
<1>5. GroupIsKept /\ ThemeIsAsked
  BY <1>4 DEF GroupIsKept, ThemeIsAsked
<1>6. OneRowPerOrg
  <2> SUFFICES ASSUME NEW org \in Orgs, NEW i \in RowsOf(org), NEW j \in RowsOf(org)
               PROVE  i = j
    BY DEF OneRowPerOrg
  <2>1. org # Deployment
    BY BrandingAssumption
  <2>2. {i, j} \subseteq Rows(rows) /\ rows[i].org = org /\ rows[j].org = org
    BY DEF RowsOf
  <2>3. {i, j} \subseteq DOMAIN rows
    BY <2>2 DEF Rows
  <2> QED
    BY <2>1, <2>2, <2>3, <1>1, <1>2
<1>7. EditFits /\ OverrideIsRead
  BY <1>3, <1>4 DEF EditFits, OverrideIsRead
<1> QED
  BY <1>5, <1>6, <1>7 DEF Branded

\* A step of none of this keeps the parts.
LEMMA StutterKeeps ==
  ASSUME Inv, UNCHANGED vars
  PROVE  GroupIsKept' /\ Branded' /\ ThemeIsAsked'
<1>a. TypeOK /\ GroupIsKept /\ Branded /\ ThemeIsAsked
  BY DEF Inv
<1>b. UNCHANGED <<queues, rules, mappings, rows, edit, creation, changed, asked>>
  BY DEF vars
<1>1. /\ \A q : First(Active(q))' = First(Active(q))
      /\ \A o : RowsOf(o)' = RowsOf(o)
  BY <1>b DEF First, Active, RowsOf, Rows
<1>2. GroupIsKept'
  BY <1>a, <1>b, <1>1 DEF GroupIsKept
<1>3. OneRowPerOrg' /\ EditFits' /\ OverrideIsRead'
  BY <1>a, <1>b, <1>1 DEF Branded, OneRowPerOrg, EditFits, OverrideIsRead
<1>4. ThemeIsAsked'
  BY <1>a, <1>b, QuietAsked
<1> QED
  BY <1>2, <1>3, <1>4 DEF Branded

-----------------------------------------------------------------------------
(* Theorems *)

\* Types, and what every step of a creation has read, hold always.
THEOREM Invariance == Spec => []Inv
<1>1. Init => Inv
  BY InitTyped, InitKept DEF Inv
<1>2. Inv /\ [Next]_vars => Inv'
  <2> SUFFICES ASSUME Inv, [Next]_vars PROVE Inv'
    OBVIOUS
  <2>1. TypeOK'
    BY TypeInvariance DEF Inv
  <2>2. GroupIsKept' /\ Branded' /\ ThemeIsAsked'
    BY GoesKeeps, RoutingEditsKeep, BrandingEditsKeep, StutterKeeps DEF Next, Goes
  <2> QED
    BY <2>1, <2>2 DEF Inv
<1> QED
  BY <1>1, <1>2, PTL DEF Spec

\* Tables, requests and bounds keep their types.
THEOREM TypeCorrect == Spec => []TypeOK
<1>1. Inv => TypeOK
  BY DEF Inv
<1> QED
  BY <1>1, Invariance, PTL

\* Further mappings of a queue move no thread.
THEOREM ThreadStays == Spec => []ThreadIsReached
<1>1. Inv => ThreadIsReached
  BY DEF Inv, GroupIsKept, ThreadIsReached
<1> QED
  BY <1>1, Invariance, PTL

\* What an organisation set for itself is what its root messages show.
THEOREM OverrideAlwaysWins == Spec => []OverrideWins
<1>1. Inv => OverrideWins
  BY DEF Inv, Branded, OverrideIsRead, OverrideWins
<1> QED
  BY <1>1, Invariance, PTL

\* No sequence of creations, deletions and overlapping PATCH requests gives an
\* organisation two rows.
THEOREM OrgHasOneRow == Spec => []OneRowPerOrg
<1>1. Inv => OneRowPerOrg
  BY DEF Inv, Branded
<1> QED
  BY <1>1, Invariance, PTL

\* Header and colour of a root message are each of a theme that was in force
\* while it was resolved, unless both of its rows were edited meanwhile.
THEOREM ThemeWasInForce == Spec => ThemeInForce
<1> DEFINE InForce(c) ==
      LET org      == creation[c].input.org
          severity == creation[c].input.severity
          Shows(theme) == IF creation[c].step = "own"
                          THEN creation'[c].header = theme.header
                          ELSE creation'[c].colour = Strip(theme, severity)
      IN  /\ creation[c].step \in {"own", "own again"} /\ creation'[c] # creation[c]
          /\ ~({org, Deployment} \subseteq asked[c].edited)
          => Shows(asked[c].theme) \/ Shows(Theme(org))
<1>1. ASSUME Inv, [Next]_vars, NEW c \in Creations,
             creation[c].step \in {"own", "own again"}, creation'[c] # creation[c]
      PROVE  ReadOwn(c)
  <2>1. \E d \in Creations : Goes(d)
    BY <1>1 DEF Next, Goes, EditRouting, DeleteQueue, AddMapping, EditMapping, EditBranding,
                BeginPatch, EndPatch, Note, vars
  <2>2. Goes(c)
    BY <1>1, <2>1, OthersStay DEF Inv
  <2> QED
    BY <1>1, <2>2 DEF Goes, Evaluate, Fallback, LookUpGroup, Store, ReadGround, PostRoot,
                      PostMessage, PostStatus, Poll, Reach
<1>2. ASSUME Inv, [Next]_vars, NEW c \in Creations PROVE InForce(c)
  <2> SUFFICES ASSUME creation[c].step \in {"own", "own again"}, creation'[c] # creation[c],
                      ~({creation[c].input.org, Deployment} \subseteq asked[c].edited)
               PROVE  InForce(c)
    OBVIOUS
  <2>1. ReadOwn(c)
    BY <1>1, <1>2
  <2>2. Own(creation[c].input.org, creation[c].theme)
          \in {asked[c].theme, Theme(creation[c].input.org)}
    BY <1>2 DEF Inv, ThemeIsAsked, Theme
  <2> QED
    BY <1>2, <2>1, <2>2, ReadOwnDoes DEF Inv
<1>3. Inv /\ [Next]_vars => [\A c \in Creations : InForce(c)]_vars
  BY <1>2
<1>4. Spec => [][\A c \in Creations : InForce(c)]_vars
  BY <1>3, Invariance, PTL DEF Spec
<1> QED
  BY <1>4 DEF ThemeInForce

\* A deleted row that no PATCH holds is not put back by the next step.
LEMMA LostForNow ==
  ASSUME Inv, [Next]_vars, NEW i, Lost(i)
  PROVE  Lost(i)'
<1>a. /\ rows \in Seq(Configs \cup {Gone}) /\ edit \in [Editors -> Edits \cup {NoEdit}]
      /\ i \in DOMAIN rows /\ rows[i] = Gone
      /\ \A e \in Editors : edit[e] # NoEdit => edit[e].id # i
  BY DEF Inv, TypeOK, BrandingTyped, Lost
<1>1. CASE UNCHANGED <<rows, edit>>
  BY <1>1, <1>a DEF Lost
<1>2. ASSUME NEW owner, NEW brand, Create(owner, brand) PROVE Lost(i)'
  BY <1>2, <1>a DEF Create, Lost
<1>3. ASSUME NEW j, Delete(j) PROVE Lost(i)'
  BY <1>3, <1>a DEF Delete, Lost, Rows
<1>4. ASSUME NEW e \in Editors, NEW j, NEW fields, NEW brand, Patch(e, j, fields, brand)
      PROVE  Lost(i)'
  <2>1. j # i /\ rows' = rows
    BY <1>4, <1>a DEF Patch, Rows
  <2>2. \A d \in Editors : edit'[d] = edit[d] \/ edit'[d].id = j
    BY <1>4, <1>a DEF Patch
  <2> QED
    BY <2>1, <2>2, <1>a DEF Lost
<1>5. ASSUME NEW e \in Editors, edit[e] # NoEdit, Save(e) PROVE Lost(i)'
  <2>1. edit[e].id # i
    BY <1>5, <1>a
  <2>2. \A d \in Editors : edit'[d] = edit[d] \/ edit'[d] = NoEdit
    BY <1>5, <1>a DEF Save
  <2>3. i \in DOMAIN rows' /\ rows'[i] = Gone
    BY <1>5, <2>1, <1>a DEF Save
  <2> QED
    BY <2>2, <2>3, <1>a DEF Lost
<1>6. CASE \E c \in Creations : Goes(c)
  BY <1>1, <1>6, OthersStay DEF Inv
<1>7. CASE EditRouting \/ DeleteQueue \/ AddMapping \/ EditMapping
  BY <1>1, <1>7 DEF EditRouting, DeleteQueue, AddMapping, EditMapping, branding
<1>8. CASE EditBranding
  BY <1>8, <1>2, <1>3 DEF EditBranding
<1>9. CASE BeginPatch
  BY <1>9, <1>4 DEF BeginPatch
<1>10. CASE EndPatch
  BY <1>10, <1>5 DEF EndPatch
<1>11. CASE UNCHANGED vars
  BY <1>11, <1>1 DEF vars
<1> QED
  BY <1>6, <1>7, <1>8, <1>9, <1>10, <1>11 DEF Next, Goes

\* A deleted row that no PATCH holds does not come back.
THEOREM LostForGood == Spec => LostStaysLost
<1> DEFINE Kept == \A i \in 1..MaxRows : Lost(i) => Lost(i)'
<1>1. Inv /\ [Next]_vars => [Kept]_vars
  BY LostForNow
<1>2. Spec => [][Kept]_vars
  BY <1>1, Invariance, PTL DEF Spec
<1> QED
  BY <1>2 DEF LostStaysLost

=============================================================================
