------------------------------- MODULE Settings -------------------------------
(***************************************************************************)
(* The settings of an organization (app/services/org_config.go) and the    *)
(* metadata of its services (metadata.go), with the pages that show them   *)
(* and the forms that write them back (server/routes/settings.go,          *)
(* view_services.go).                                                      *)
(*                                                                         *)
(* A page is read in several statements and stays in a browser for as long *)
(* as its user likes; the form then posts everything the page held, and    *)
(* the handler writes it to the organization that is active by then.       *)
(*                                                                         *)
(* The webhook secret and the preferences travel exactly as the feature    *)
(* flags do and are left out.                                              *)
(***************************************************************************)
EXTENDS Integers, Sequences, SequencesExt

CONSTANTS
  Orgs,      \* organization ids
  Services,  \* service names
  Labels,    \* labels of metadata fields
  Sensitive, \* the labels that contain secret, token, password or key
  Filterable, \* the labels whose values the lists of services are filtered by
  Values,    \* what users type into a metadata field
  Envs,      \* environments, numbered in the order of their names
  Features,  \* feature flags
  Calls,     \* requests and open pages at a time, as a set of names
  MaxCalls   \* bound: requests and page visits altogether

AllFeatures == {"strict", "mask", "editing", "delivery metrics", "other"}

ASSUME SettingsAssumption ==
  /\ Orgs \subseteq Nat \ {0}
  /\ IsFiniteSet(Orgs)
  /\ Sensitive \cup Filterable \subseteq Labels
  /\ Envs \subseteq Nat
  /\ IsFiniteSet(Envs)
  /\ Features \subseteq AllFeatures
  /\ IsFiniteSet(Calls)
  /\ MaxCalls \in Nat

VARIABLES
  org,       \* org[o]: "enabled", "disabled" or "deleted"
  settings,  \* settings[o]: what the tables hold of o's settings
  metadata,  \* metadata[o][s]: the values of the labels that have a row
  found,     \* found[o]: the environments that occur in o's events
  call,      \* call[c]: the page that is open or the statement that is next
  begun,     \* the calls begun so far
  checked    \* history: the services last written as o's settings now ask

tables == <<org, settings, metadata, found>>
settingsVars == <<tables, call, begun, checked>>

Existing == {o \in Orgs : org[o] # "deleted"}
Enabled  == {o \in Orgs : org[o] = "enabled"}

Mask == "***"
Field == Values \cup {Mask}
Fields == UNION {[L -> Field] : L \in SUBSET Labels}

\* A posted form may have empty fields.
Form == UNION {[L -> Field \cup {""}] : L \in SUBSET Labels}

\* One token for each organization, and one that nobody has, whatever the pages
\* under way still show; 0 is the token of an organization that is gone.
Tokens == 1 .. 2 * Cardinality(Orgs) + Cardinality(Calls) + 1

Setting == [token : Tokens \cup {0}, required : SUBSET Labels, order : Seq(Envs),
            flags : SUBSET Features]

\* What GetSettings makes of an organization that has no rows.
Defaults == Features \ {"strict", "mask"}

NoRows == [token |-> 0, required |-> {}, order |-> <<>>, flags |-> Defaults]

NoCall == [at |-> "idle"]

\* What an administrator may change on the settings page.
Parts == {"enabled", "token", "required", "order", "flags"}

\* fresh: nobody has written the settings since the call began to read them;
\* of: the organization whose page is saved, org: the one it is saved to.
SettingsCall ==
  {NoCall}
    \cup [at : {"row", "required", "order", "discovered", "flags", "settings page"},
          org : Orgs, fresh : BOOLEAN, enabled : BOOLEAN, page : Setting]
    \cup [at : {"save"}, org : Orgs, of : Orgs, fresh : BOOLEAN, enabled : BOOLEAN,
          page : Setting, edit : Parts]
    \cup [at : {"values"}, org : Orgs, service : Services, shown : SUBSET Labels]
    \cup [at : {"mask", "service page"}, org : Orgs, service : Services, shown : Form]
    \cup [at : {"labels"}, org : Orgs, fresh : BOOLEAN, service : Services,
          form : Form, strict : BOOLEAN]
    \cup [at : {"replace"}, org : Orgs, fresh : BOOLEAN, service : Services, form : Fields]

SettingsType ==
  /\ org \in [Orgs -> {"enabled", "disabled", "deleted"}]
  /\ settings \in [Orgs -> Setting]
  /\ metadata \in [Orgs -> [Services -> Fields]]
  /\ found \in [Orgs -> SUBSET Envs]
  /\ begun \in 0 .. MaxCalls
  /\ checked \in [Orgs -> SUBSET Services]

SettingsInit ==
  /\ org = [o \in Orgs |-> "enabled"]
  /\ settings = [o \in Orgs |-> [NoRows EXCEPT !.token = Cardinality({p \in Orgs : p <= o})]]
  /\ metadata = [o \in Orgs |-> [s \in Services |-> <<>>]]
  /\ found = [o \in Orgs |-> {}]
  /\ call = [c \in Calls |-> NoCall]
  /\ begun = 0
  /\ checked = [o \in Orgs |-> {}]

\* Something a user or a provider does.
Begin ==
  /\ begun < MaxCalls
  /\ begun' = begun + 1

Idle(c) == call[c].at = "idle"
Goto(c, r) == call' = [call EXCEPT ![c] = r]
Return(c) == Goto(c, NoCall)

-----------------------------------------------------------------------------
(* The settings page.                                                      *)

\* sort.Strings: the environments of S in the order of their names.
ByName(S) ==
  CHOOSE s \in [1 .. Cardinality(S) -> S] :
    \A i, j \in 1 .. Cardinality(S) : i < j => s[i] < s[j]

\* mergeEnvironmentOrder: the stored order, then what else the events name.
mergeEnvironmentOrder(order, discovered) == order \o ByName(discovered \ ToSet(order))

\* handleSettings resolves the active organization and calls GetSettings,
OpenSettings(c, o) ==
  /\ Idle(c)
  /\ o \in Enabled
  /\ Begin
  /\ Goto(c, [at |-> "row", org |-> o, fresh |-> TRUE, enabled |-> TRUE, page |-> NoRows])
  /\ UNCHANGED <<tables, checked>>

\* which reads one table after another: later parts may be newer.  Without its
\* row the organization is gone, and the request fails.
ReadOrganization(c) ==
  LET k == call[c] IN
  /\ k.at = "row"
  /\ IF k.org \in Existing
     THEN Goto(c, [k EXCEPT !.at = "required", !.enabled = k.org \in Enabled,
                            !.page.token = settings[k.org].token])
     ELSE Return(c)

ReadRequiredFields(c) ==
  LET k == call[c] IN
  /\ k.at = "required"
  /\ Goto(c, [k EXCEPT !.at = "order", !.page.required = settings[k.org].required])

ReadEnvironmentPriorities(c) ==
  LET k == call[c] IN
  /\ k.at = "order"
  /\ Goto(c, [k EXCEPT !.at = "discovered", !.page.order = settings[k.org].order])

ReadDistinctEnvironments(c) ==
  LET k == call[c] IN
  /\ k.at = "discovered"
  /\ Goto(c, [k EXCEPT !.at = "flags", !.page.order = mergeEnvironmentOrder(@, found[k.org])])

ReadFeatures(c) ==
  LET k == call[c] IN
  /\ k.at = "flags"
  /\ Goto(c, [k EXCEPT !.at = "settings page", !.page.flags = settings[k.org].flags])

ReadSettings(c) ==
  /\ \/ ReadOrganization(c)
     \/ ReadRequiredFields(c)
     \/ ReadEnvironmentPriorities(c)
     \/ ReadDistinctEnvironments(c)
     \/ ReadFeatures(c)
  /\ UNCHANGED <<tables, begun, checked>>

Toggle(S, x) == IF x \in S THEN S \ {x} ELSE S \cup {x}

\* A token that neither an organization nor a page has.
NewToken ==
  CHOOSE t \in Tokens : \A o \in Orgs, c \in Calls :
    /\ t # settings[o].token
    /\ "page" \in DOMAIN call[c] => t # call[c].page.token

\* What the form of a page with one part changed says.
Edited(page, edit) ==
  CASE edit = "enabled"  -> {page}
    [] edit = "token"    -> {[page EXCEPT !.token = NewToken]}
    [] edit = "required" -> {[page EXCEPT !.required = Toggle(@, l)] : l \in Labels}
    [] edit = "order"    -> {[page EXCEPT !.order = Reverse(@)]}
    [] edit = "flags"    -> {[page EXCEPT !.flags = Toggle(@, f)] : f \in Features}

\* The administrator changes something and saves: the handler resolves the
\* active organization again, which another tab, or the organization being
\* disabled, may have made another one.
PostSettings(c, o, edit) ==
  LET k == call[c] IN
  /\ k.at = "settings page"
  /\ o \in Enabled
  /\ \E p \in Edited(k.page, edit) :
       Goto(c, [at |-> "save", org |-> o, of |-> k.org, fresh |-> k.fresh, page |-> p,
                enabled |-> (k.enabled # (edit = "enabled")), edit |-> edit])
  /\ UNCHANGED <<tables, begun, checked>>

CloseSettings(c) ==
  /\ call[c].at = "settings page"
  /\ Return(c)
  /\ UNCHANGED <<tables, begun, checked>>

\* Whoever has read o's settings before has read old ones now.
Outdate(o, calls) ==
  [c \in Calls |-> IF "fresh" \in DOMAIN calls[c] /\ calls[c].org = o
                   THEN [calls[c] EXCEPT !.fresh = FALSE] ELSE calls[c]]

\* Mutant: the secrets are written in a statement of their own, whose error is
\* only logged.
SaveSettings_Untied(c) ==
  LET k == call[c] IN
  /\ k.at = "save"
  /\ IF k.org \in Existing
     THEN /\ settings' = [settings EXCEPT ![k.org] =
               [k.page EXCEPT !.token = settings[k.org].token]]
          /\ call' = [Outdate(k.org, call) EXCEPT ![c] = NoCall]
     ELSE /\ Return(c)
          /\ UNCHANGED settings
  /\ UNCHANGED <<org, metadata, found, begun, checked>>

\* UpdateOrganizationSettings is one transaction.  Nothing is written when the
\* organization is gone (the rows refer to it), or when another one has the
\* token; the flag of the delivery metrics is not written at all.
SaveSettings(c) ==
  LET k == call[c]
      unwritten == {"delivery metrics"}
  IN
  /\ k.at = "save"
  /\ IF k.org \in Existing /\ \A o \in Orgs \ {k.org} : settings[o].token # k.page.token
     THEN /\ org' = [org EXCEPT ![k.org] = IF k.enabled THEN "enabled" ELSE "disabled"]
          /\ settings' = [settings EXCEPT ![k.org] =
               [k.page EXCEPT !.flags = (@ \ unwritten)
                                          \cup (settings[k.org].flags \cap unwritten)]]
          /\ checked' = [checked EXCEPT ![k.org] = {}]
          /\ call' = [Outdate(k.org, call) EXCEPT ![c] = NoCall]
     ELSE /\ Return(c)
          /\ UNCHANGED <<org, settings, checked>>
  /\ UNCHANGED <<metadata, found, begun>>

-----------------------------------------------------------------------------
(* Service metadata.                                                       *)

\* GetServiceDetail lists the required fields,
OpenService(c, o, s) ==
  /\ Idle(c)
  /\ o \in Enabled
  /\ Begin
  /\ Goto(c, [at |-> "values", org |-> o, service |-> s, shown |-> settings[o].required])
  /\ UNCHANGED <<tables, checked>>

\* and what they are filled with;
buildServiceMetadataFields(required, rows) ==
  [l \in required |-> IF l \in DOMAIN rows THEN rows[l] ELSE ""]

ReadMetadata(c) ==
  LET k == call[c] IN
  /\ k.at = "values"
  /\ Goto(c, [k EXCEPT !.at = "mask",
                       !.shown = buildServiceMetadataFields(@, metadata[k.org][k.service])])
  /\ UNCHANGED <<tables, begun, checked>>

\* the handler masks them if the settings it reads then say so; GetSettings
\* fails when the organization is gone.
maskSensitiveFields(fields) ==
  [l \in DOMAIN fields |-> IF l \in Sensitive /\ fields[l] # "" THEN Mask ELSE fields[l]]

ShowService(c) ==
  LET k == call[c] IN
  /\ k.at = "mask"
  /\ IF k.org \in Existing
     THEN Goto(c, [k EXCEPT !.at = "service page",
                            !.shown = IF "mask" \in settings[k.org].flags
                                      THEN maskSensitiveFields(@) ELSE @])
     ELSE Return(c)
  /\ UNCHANGED <<tables, begun, checked>>

CloseService(c) ==
  /\ call[c].at = "service page"
  /\ Return(c)
  /\ UNCHANGED <<tables, begun, checked>>

\* handleServiceMetadataUpdate: the user may have changed a field, and the form
\* posts all of them, to the organization that is active by then.
PostMetadata(c, o) ==
  LET k == call[c] IN
  /\ k.at = "service page"
  /\ o \in Enabled
  /\ IF "editing" \in settings[o].flags
     THEN \E form \in {k.shown} \cup UNION {{[k.shown EXCEPT ![l] = v] : v \in Values \cup {""}} :
                                                l \in DOMAIN k.shown} :
            Goto(c, [at |-> "labels", org |-> o, fresh |-> TRUE, service |-> k.service,
                     form |-> form, strict |-> "strict" \in settings[o].flags])
     ELSE Return(c)
  /\ UNCHANGED <<tables, begun, checked>>

\* Mutant: a field counts as present when the form names it.
CheckMetadata_Named(c) ==
  LET k == call[c]
      required == settings[k.org].required
      named == DOMAIN k.form \cap required
      filled == {l \in named : k.form[l] # ""}
  IN
  /\ k.at = "labels"
  /\ IF k.strict /\ ~(required \subseteq named)
     THEN Return(c)
     ELSE Goto(c, [at |-> "replace", org |-> k.org, fresh |-> k.fresh, service |-> k.service,
                   form |-> [l \in filled |-> k.form[l]]])
  /\ UNCHANGED <<tables, begun, checked>>

\* Mutant: empty fields are kept.
CheckMetadata_KeepsEmpty(c) ==
  LET k == call[c]
      required == settings[k.org].required
      named == DOMAIN k.form \cap required
  IN
  /\ k.at = "labels"
  /\ IF k.strict /\ ~(required \subseteq named)
     THEN Return(c)
     ELSE Goto(c, [at |-> "replace", org |-> k.org, fresh |-> k.fresh, service |-> k.service,
                   form |-> [l \in named |-> k.form[l]]])
  /\ UNCHANGED <<tables, begun, checked>>

\* UpdateServiceMetadata lists the required fields, keeps those of the form
\* that are required and filled in, and fails if it is strict and one is not.
CheckMetadata(c) ==
  LET k == call[c]
      required == settings[k.org].required
      filled == {l \in DOMAIN k.form \cap required : k.form[l] # ""}
  IN
  /\ k.at = "labels"
  /\ IF k.strict /\ ~(required \subseteq filled)
     THEN Return(c)
     ELSE Goto(c, [at |-> "replace", org |-> k.org, fresh |-> k.fresh, service |-> k.service,
                   form |-> [l \in filled |-> k.form[l]]])
  /\ UNCHANGED <<tables, begun, checked>>

\* Mutant: the rows do not refer to the organization.
ReplaceServiceMetadata_Unreferenced(c) ==
  LET k == call[c] IN
  /\ k.at = "replace"
  /\ metadata' = [metadata EXCEPT ![k.org][k.service] = k.form]
  /\ checked' = [checked EXCEPT ![k.org] =
                   IF k.fresh THEN @ \cup {k.service} ELSE @ \ {k.service}]
  /\ Return(c)
  /\ UNCHANGED <<org, settings, found, begun>>

\* One transaction: the rows go and the new ones come, if the organization is
\* still there for them to refer to.
ReplaceServiceMetadata(c) ==
  LET k == call[c] IN
  /\ k.at = "replace"
  /\ IF k.org \in Existing
     THEN /\ metadata' = [metadata EXCEPT ![k.org][k.service] = k.form]
          /\ checked' = [checked EXCEPT ![k.org] =
                           IF k.fresh THEN @ \cup {k.service} ELSE @ \ {k.service}]
     ELSE UNCHANGED <<metadata, checked>>
  /\ Return(c)
  /\ UNCHANGED <<org, settings, found, begun>>

-----------------------------------------------------------------------------
(* The badges and tags in the lists of services.                           *)

ListServiceMetadataByOrganization(o) ==
  UNION {{[service |-> s, label |-> l, value |-> metadata[o][s][l]] : l \in DOMAIN metadata[o][s]}
           : s \in Services}

\* Mutant: rows of fields that are not required any more count too.
loadMetadataFilterData_AllRows(o) ==
  LET rows  == {row \in ListServiceMetadataByOrganization(o) : row.value # ""}
      Of(s) == {row \in rows : row.service = s}
  IN  [s \in {row.service : row \in rows} |->
         [missing |-> Cardinality(settings[o].required) - Cardinality({row.label : row \in Of(s)}),
          tags    |-> {<<row.label, row.value>> : row \in {x \in Of(s) : x.label \in Filterable}}]]

\* What is missing, and the tags, of every service that has one of the required
\* fields.
loadMetadataFilterData(o) ==
  LET rows  == {row \in ListServiceMetadataByOrganization(o) :
                  row.label \in settings[o].required /\ row.value # ""}
      Of(s) == {row \in rows : row.service = s}
  IN  [s \in {row.service : row \in rows} |->
         [missing |-> Cardinality(settings[o].required) - Cardinality({row.label : row \in Of(s)}),
          tags    |-> {<<row.label, row.value>> : row \in {x \in Of(s) : x.label \in Filterable}}]]

\* A service that has none of them shows nothing missing.
applyMetadataToServices(s, data) ==
  IF s \in DOMAIN data THEN data[s] ELSE [missing |-> 0, tags |-> {}]

-----------------------------------------------------------------------------
(* What others do.                                                         *)

\* UpdateOrganizationEnabled, which SetOrganizationEnabled guards.
SetOrganizationEnabled(o, status) ==
  /\ Begin
  /\ o \in Existing
  /\ org[o] # status
  /\ status = "disabled" => Enabled # {o}
  /\ org' = [org EXCEPT ![o] = status]
  /\ call' = Outdate(o, call)
  /\ UNCHANGED <<settings, metadata, found, checked>>

\* DeleteOrganization takes every row along that refers to the organization.
DeleteOrganization(o) ==
  /\ Begin
  /\ o \in Existing
  /\ Existing # {o}
  /\ org' = [org EXCEPT ![o] = "deleted"]
  /\ settings' = [settings EXCEPT ![o] = NoRows]
  /\ metadata' = [metadata EXCEPT ![o] = [s \in Services |-> <<>>]]
  /\ found' = [found EXCEPT ![o] = {}]
  /\ checked' = [checked EXCEPT ![o] = {}]
  /\ call' = Outdate(o, call)

\* An event of an environment that had none is appended.
AppendEvent(o, e) ==
  /\ Begin
  /\ o \in Existing
  /\ found' = [found EXCEPT ![o] = @ \cup {e}]
  /\ UNCHANGED <<org, settings, metadata, call, checked>>

SettingsNext ==
  \/ \E c \in Calls, o \in Orgs :
       \/ OpenSettings(c, o)
       \/ \E edit \in Parts : PostSettings(c, o, edit)
       \/ \E s \in Services : OpenService(c, o, s)
       \/ PostMetadata(c, o)
  \/ \E c \in Calls :
       \/ ReadSettings(c) \/ CloseSettings(c) \/ SaveSettings(c)
       \/ ReadMetadata(c) \/ ShowService(c) \/ CloseService(c)
       \/ CheckMetadata(c) \/ ReplaceServiceMetadata(c)
  \/ \E o \in Orgs :
       \/ \E status \in {"enabled", "disabled"} : SetOrganizationEnabled(o, status)
       \/ \E e \in Envs : AppendEvent(o, e)

-----------------------------------------------------------------------------
(* Properties.                                                             *)

\* Strict enforcement means what it says once the settings are left alone:
\* metadata written by an update that began after the last save has every
\* required field, although the update reads the flag, reads the fields and
\* writes the rows in three steps (metadata.go:33).
StrictMetadataIsComplete ==
  \A o \in Orgs : \A s \in checked[o] :
    "strict" \in settings[o].flags => settings[o].required \subseteq DOMAIN metadata[o][s]

\* A list and a service's page, which read the same rows in different ways,
\* agree on the fields that are filled in, whatever fields were required, filled
\* in and given up before; what is missing is counted for services that have a
\* field filled in (service_read.go:302).
ListsAgreeWithPages ==
  \A o \in Orgs, s \in Services :
    LET shown  == buildServiceMetadataFields(settings[o].required, metadata[o][s])
        filled == {l \in DOMAIN shown : shown[l] # ""}
        badge  == applyMetadataToServices(s, loadMetadataFilterData(o))
    IN
    /\ badge.tags = {<<l, shown[l]>> : l \in filled \cap Filterable}
    /\ badge.missing = IF filled = {} THEN 0 ELSE Cardinality(DOMAIN shown \ filled)

\* x occurs in s, and y there or further on.
Precedes(s, x, y) == \E i, j \in DOMAIN s : i <= j /\ s[i] = x /\ s[j] = y

\* What of o's settings stays the same in a step, but for an edited part.  The
\* order counts for the environments the saved page knew.
KeepsTheRest(o, edit, known) ==
  LET Order(setting) ==
        LET s == mergeEnvironmentOrder(setting.order, found[o])
        IN  {p \in known \X known : Precedes(s, p[1], p[2])}
      was == settings[o]
      is == settings'[o]
  IN
  /\ edit # "enabled" => org'[o] = org[o]
  /\ edit # "token" => is.token = was.token
  /\ edit # "required" => is.required = was.required
  /\ edit # "flags" => is.flags = was.flags
  /\ edit # "order" => Order(is) = Order(was)

\* A save changes no more than its user changed, if nobody wrote the settings
\* since the page was opened, however the reads of the page interleaved with
\* events; and it lands on an organization other than the page's only with a
\* token that is not that of the page's organization any more
\* (org_config.go:104, routes/settings.go:81, store.go:485).
SavesKeepToTheirPage ==
  [][\A c \in Calls : LET k == call[c] IN
       k.at = "save" /\ call'[c].at = "idle" /\ settings'[k.org] # settings[k.org] =>
         IF k.of = k.org
         THEN k.fresh => KeepsTheRest(k.org, k.edit, ToSet(k.page.order))
         ELSE k.edit = "token" \/ settings[k.of].token # k.page.token]_settingsVars

\* The mask hides a sensitive value on a page; it never becomes the value
\* (view_services.go:338 is about what is shown).
MaskIsOnlyShown ==
  \A o \in Orgs, s \in Services : \A l \in DOMAIN metadata[o][s] : metadata[o][s][l] # Mask

=============================================================================
