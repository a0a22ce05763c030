------------------------------ MODULE Branding ------------------------------
(***************************************************************************)
(* The BrandingConfig table, the admin API that edits it, and the theme    *)
(* that is resolved from it: hard-coded values, settings.ROAM_THEME, the   *)
(* deployment default (org_id null) and the row of the organisation.       *)
(*                                                                         *)
(* A brand is what one layer holds.  A colour may be missing (NoValue) or  *)
(* be there and empty (Empty); elsewhere the two come to the same and are  *)
(* NoValue.  A PATCH reads its row, changes the fields it names and later  *)
(* saves all columns: an UPDATE, or an INSERT under the same primary key   *)
(* when the row is gone.                                                   *)
(* Left out: a query of the theme that fails, whose layer is then skipped. *)
(***************************************************************************)
EXTENDS Tables

CONSTANTS
  Orgs, Deployment,     \* organisations; org_id null
  Severities,
  Texts, Colours, NoValue, Empty,
  Brands,               \* the contents requests bring
  Namings,              \* the sets of fields a PATCH may name
  HardCoded, Settings,  \* the two layers below the table
  Editors, NoEdit,      \* PATCH requests at one time
  MaxRows               \* bound: rows ever inserted

AllBrands == [header : Texts \cup {NoValue},
              colors : [Severities -> Colours \cup {Empty, NoValue}],
              fallback : Colours \cup {NoValue}]

ASSUME BrandingAssumption ==
  /\ Deployment \notin Orgs
  /\ Brands \subseteq AllBrands
  /\ Namings \subseteq SUBSET {"header", "colors", "fallback"}
  /\ HardCoded \in AllBrands /\ Settings \in AllBrands
  /\ HardCoded.header # NoValue /\ HardCoded.fallback # NoValue
  /\ MaxRows \in Nat

Owners == Orgs \cup {Deployment}

VARIABLES
  rows,     \* rows[i]: BrandingConfig i, its owner and its brand
  edit      \* edit[e]: the row a PATCH is about to save

branding == <<rows, edit>>

Configs == [org : Owners, brand : AllBrands]
Edits   == [id : Nat, config : Configs]

BrandingTyped ==
  /\ rows \in Seq(Configs \cup {Gone})
  /\ edit \in [Editors -> Edits \cup {NoEdit}]

-----------------------------------------------------------------------------
(* The theme *)

Or(value, below) == IF value = NoValue THEN below ELSE value

\* settings over the hard-coded values: a colour that is there and empty
\* overrides too.
FromSettings ==
  [header   |-> Or(Settings.header, HardCoded.header),
   colors   |-> [s \in Severities |-> Or(Settings.colors[s], HardCoded.colors[s])],
   fallback |-> Or(Settings.fallback, HardCoded.fallback)]

\* A row over the layers below it, without its empty colours.
Overlay(below, brand) ==
  [header   |-> Or(brand.header, below.header),
   colors   |-> [s \in Severities |->
                   IF brand.colors[s] = Empty THEN below.colors[s]
                   ELSE Or(brand.colors[s], below.colors[s])],
   fallback |-> Or(brand.fallback, below.fallback)]

RowsOf(owner) == {i \in Rows(rows) : rows[i].org = owner}

\* filter(org_id=...).first(): the lowest primary key
OverlayRowOf(owner, below) ==
  IF First(RowsOf(owner)) = {} THEN below
  ELSE Overlay(below, rows[CHOOSE i \in First(RowsOf(owner)) : TRUE].brand)

\* get_theme makes two queries: up to the deployment default, and the row of
\* the organisation.
Ground == OverlayRowOf(Deployment, FromSettings)

OwnMutant(org, below) ==
  IF RowsOf(Deployment) = {} THEN OverlayRowOf(org, below) ELSE below

Own(org, below) == OverlayRowOf(org, below)

\* The theme of an organisation, had it been read at once.
Theme(org) == Own(org, Ground)

\* severity_color, from a theme
Strip(theme, severity) ==
  IF severity \in Severities THEN Or(theme.colors[severity], theme.fallback)
                             ELSE theme.fallback

-----------------------------------------------------------------------------
(* The admin API *)

\* org_id is unique; a null is unlike every other.
Vacant(org) == org = Deployment \/ RowsOf(org) = {}

\* POST: a taken org_id is an IntegrityError, and nothing changes.
Create(org, brand) ==
  /\ Vacant(org)
  /\ Len(rows) < MaxRows
  /\ rows' = Append(rows, [org |-> org, brand |-> brand])
  /\ UNCHANGED edit

\* PATCH, up to config.save(): header_text, severity_colors and
\* fallback_color are taken from the request when it names them.
Patch(e, i, fields, brand) ==
  /\ edit[e] = NoEdit
  /\ i \in Rows(rows)
  /\ edit' = [edit EXCEPT ![e] =
       [id |-> i,
        config |-> [rows[i] EXCEPT !.brand =
          [header   |-> IF "header" \in fields THEN brand.header ELSE rows[i].brand.header,
           colors   |-> IF "colors" \in fields THEN brand.colors ELSE rows[i].brand.colors,
           fallback |-> IF "fallback" \in fields THEN brand.fallback
                                                 ELSE rows[i].brand.fallback]]]]
  /\ UNCHANGED rows

SaveMutant(e) ==
  /\ edit[e] # NoEdit
  /\ rows' = [rows EXCEPT ![edit[e].id] = edit[e].config]
  /\ edit' = [edit EXCEPT ![e] = NoEdit]

\* config.save(); an INSERT whose org_id has been taken meanwhile fails.
Save(e) ==
  /\ edit[e] # NoEdit
  /\ rows' = IF rows[edit[e].id] # Gone \/ Vacant(edit[e].config.org)
             THEN [rows EXCEPT ![edit[e].id] = edit[e].config] ELSE rows
  /\ edit' = [edit EXCEPT ![e] = NoEdit]

Delete(i) ==
  /\ i \in Rows(rows)
  /\ rows' = [rows EXCEPT ![i] = Gone]
  /\ UNCHANGED edit

=============================================================================
