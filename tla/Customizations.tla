----------------------------- MODULE Customizations -----------------------------
(***************************************************************************)
(* The customization panel (customization-panel.tsx) and what the host does *)
(* for it (local_server.rs, customization.rs): lists and details of Devin's *)
(* rules, skills, plugins and MCP servers, and changes the owner reviews.   *)
(* The host may restart under another grant while the panel stays open.     *)
(* Devin keeps the configuration: the model keeps the last change it was    *)
(* asked for: whether it was reviewed, and granted when Devin was asked.    *)
(***************************************************************************)
EXTENDS Naturals, FiniteSets

CONSTANTS
  Names,      \* of skills, plugins and MCP servers
  NoChange,   \* no change is under way, or was asked for
  NoReview    \* the review box is not ticked, or no phrase is typed

ASSUME CustomizationAssumption == NoReview \notin Names

Categories == {"rules", "skills", "plugins", "mcp"}
Scopes == {"local", "project", "user"}
Actions == [plugin |-> {"install", "update", "remove"},
            mcp |-> {"add", "enable", "disable", "remove"}]

VARIABLES
  projectGranted,  \* expose_project_customization of the running host
  globalGranted,   \* expose_global_customization of the running host
  offered,         \* the global grant the panel was loaded with
  skill,           \* skill[n]: what the project's skill directories hold as n
  sources,         \* whose configuration the last read showed, and the grant then
  form,            \* [kind, action, name, scope]
  review,          \* kind, action and name in the form when the box was ticked
  phrase,          \* the phrase: [kind, action, name]
  pending,         \* the change under way, at most one: [change, review]
  applied          \* of the last change Devin was asked for: [reviewed, granted]

cvars == << projectGranted, globalGranted, offered, skill, sources, form,
            review, phrase, pending, applied >>

Phrase(change) == [kind |-> change.kind, action |-> change.action, name |-> change.name]

CustomizationInit ==
  /\ projectGranted \in BOOLEAN /\ globalGranted \in BOOLEAN
  /\ offered = globalGranted
  /\ skill \in [Names -> {"none", "file", "large", "link"}]
  /\ sources = {}
  /\ form \in [kind : {"mcp"}, action : {"enable"}, name : Names, scope : {"local"}]
  /\ review = NoReview /\ phrase = NoReview
  /\ pending = NoChange /\ applied = NoChange

-----------------------------------------------------------------------------
(* Reading *)

Shown(from) ==
  /\ sources' = from \X {globalGranted}
  /\ UNCHANGED << projectGranted, globalGranted, offered, skill, form, review, phrase, pending, applied >>

(* The host reads the project's skill directories itself, and follows no    *)
(* link there.                                                              *)
list_project_skills == {n \in Names : skill[n] \in {"file", "large"}}

(* A large skill is listed but not shown. *)
show_project_skill == {n \in Names : skill[n] = "file"}

(* Without the global grant the aggregate lists of plugins and MCP servers  *)
(* are kept back.  Rules are what Devin reports.                            *)
ListCustomization(category) ==
  /\ projectGranted
  /\ \/ category = "rules" /\ Shown({"rules"})
     \/ category = "skills" /\ globalGranted /\ Shown({"project", "user"})
     \/ category = "skills" /\ ~globalGranted /\ list_project_skills # {} /\ Shown({"project"})
     \/ category \in {"plugins", "mcp"} /\ globalGranted /\ Shown({"project", "user"})

ShowCustomization(category, name) ==
  /\ projectGranted
  /\ \/ category = "rules" /\ Shown({"rules"})
     \/ category = "skills" /\ ~globalGranted /\ name \in show_project_skill /\ Shown({"project"})
     \/ category # "rules" /\ globalGranted /\ Shown({"project", "user"})

-----------------------------------------------------------------------------
(* The form *)

Reset == review' = NoReview /\ phrase' = NoReview

(* Another tab of the panel is another form; plugins only when offered. *)
OpenForm(kind) ==
  /\ kind # form.kind /\ (kind = "plugin" => offered)
  /\ form' = [kind |-> kind, action |-> IF kind = "plugin" THEN "install" ELSE "enable",
              name |-> form.name, scope |-> "local"]
  /\ Reset
  /\ UNCHANGED << projectGranted, globalGranted, offered, skill, sources, pending, applied >>

SetAction(action) ==
  /\ action \in Actions[form.kind] \ {form.action}
  /\ form' = [form EXCEPT !.action = action]
  /\ Reset
  /\ UNCHANGED << projectGranted, globalGranted, offered, skill, sources, pending, applied >>

(* Variant: the box stays ticked when the name changes. *)
SetName_KeepsReview(name) ==
  /\ name # form.name
  /\ form' = [form EXCEPT !.name = name]
  /\ phrase' = NoReview
  /\ UNCHANGED << projectGranted, globalGranted, offered, skill, sources, review, pending, applied >>

SetName(name) ==
  /\ name # form.name
  /\ form' = [form EXCEPT !.name = name]
  /\ Reset
  /\ UNCHANGED << projectGranted, globalGranted, offered, skill, sources, pending, applied >>

(* The scope, like the source of a server to add, leaves box and phrase. *)
SetScope(scope) ==
  /\ form.kind = "mcp" /\ scope # form.scope
  /\ scope = "user" => offered
  /\ form' = [form EXCEPT !.scope = scope]
  /\ UNCHANGED << projectGranted, globalGranted, offered, skill, sources, review, phrase, pending, applied >>

Tick ==
  /\ review' = IF review = NoReview THEN Phrase(form) ELSE NoReview
  /\ UNCHANGED << projectGranted, globalGranted, offered, skill, sources, form, phrase, pending, applied >>

TypePhrase ==
  /\ phrase' = Phrase(form)
  /\ UNCHANGED << projectGranted, globalGranted, offered, skill, sources, form, review, pending, applied >>

Submit ==
  /\ review # NoReview /\ phrase = Phrase(form) /\ pending = NoChange
  /\ pending' = [change |-> form, review |-> review]
  /\ UNCHANGED << projectGranted, globalGranted, offered, skill, sources, form, review, phrase, applied >>

-----------------------------------------------------------------------------
(* The host *)

Global(change) == change.kind = "plugin" \/ change.scope = "user"

(* mutate: plugins and the user scope need the global grant of this run.    *)
Granted(change) ==
  /\ projectGranted
  /\ Global(change) => globalGranted

(* add_mcp and validate_plugin_source refuse some sources, which the form   *)
(* does not tell from others.                                               *)
BadSource(change) == change.action \in {"add", "install"}

(* run: Devin may fail, before or after the change.  Only a success empties *)
(* box and phrase of the form that sent it.                                 *)
RunDevin(change) ==
  \/ change.kind = form.kind /\ Reset
  \/ UNCHANGED << review, phrase >>

Mutate ==
  /\ pending # NoChange /\ Granted(pending.change)
  /\ pending' = NoChange
  /\ applied' = [reviewed |-> pending.review = Phrase(pending.change),
                 granted |-> Global(pending.change) => globalGranted]
  /\ RunDevin(pending.change)
  /\ UNCHANGED << projectGranted, globalGranted, offered, skill, sources, form >>

Refuse ==
  /\ pending # NoChange /\ (~Granted(pending.change) \/ BadSource(pending.change))
  /\ pending' = NoChange
  /\ UNCHANGED << projectGranted, globalGranted, offered, skill, sources, form, review, phrase, applied >>

(* The host is stopped and connected again; the panel learns of it when it  *)
(* is loaded again.                                                         *)
Reconnect(project, global) ==
  /\ projectGranted' = project /\ globalGranted' = global
  /\ pending' = NoChange
  /\ UNCHANGED << offered, skill, sources, form, review, phrase, applied >>

CustomizationNext ==
  \/ Tick \/ TypePhrase \/ Submit \/ Mutate \/ Refuse
  \/ \E category \in Categories : ListCustomization(category)
  \/ \E category \in Categories, name \in Names : ShowCustomization(category, name)
  \/ \E kind \in DOMAIN Actions : OpenForm(kind)
  \/ \E action \in Actions[form.kind] : SetAction(action)
  \/ \E name \in Names : SetName(name)
  \/ \E scope \in Scopes : SetScope(scope)
  \/ \E project, global \in BOOLEAN : Reconnect(project, global)

CustomizationSpec == CustomizationInit /\ [][CustomizationNext]_cvars

-----------------------------------------------------------------------------
(* Properties                                                               *)

(* "Plugin and MCP mutations require a review checkbox plus an exact typed  *)
(* phrase" (docs/getting-started.md): what Devin is asked to do is of the   *)
(* kind, action and name that stood in the form when the box was ticked.    *)
ReviewedChange ==
  applied # NoChange => applied.reviewed

(* "--expose-global-customization only when this workspace may read or      *)
(* change user-global skills, plugins, and MCP configuration" (README.md):  *)
(* the grant is that of the host that reads or changes.                     *)
GrantedChange ==
  /\ << "user", FALSE >> \notin sources
  /\ applied # NoChange => applied.granted

(* However the form is edited, the host connected again under the open      *)
(* panel and a change retried, both hold of what Devin is asked for.        *)
OnlyReviewedAndGranted == ReviewedChange /\ GrantedChange

-----------------------------------------------------------------------------
(* The inductive invariant behind them.                                     *)

Changes == {c \in [kind : DOMAIN Actions, action : UNION {Actions[k] : k \in DOMAIN Actions},
                   name : Names, scope : Scopes] : c.action \in Actions[c.kind]}

CustomizationTypeOK ==
  /\ projectGranted \in BOOLEAN /\ globalGranted \in BOOLEAN /\ offered \in BOOLEAN
  /\ skill \in [Names -> {"none", "file", "large", "link"}]
  /\ sources \subseteq {"rules", "project", "user"} \X BOOLEAN
  /\ form \in Changes

(* A ticked box is ticked for the change that stands in the form. *)
ReviewInv == review # NoReview => review = Phrase(form)

(* A change under way was sent under a box that was ticked for it. *)
PendingInv == pending # NoChange => pending.review = Phrase(pending.change)

CustomizationInv == CustomizationTypeOK /\ ReviewInv /\ PendingInv /\ OnlyReviewedAndGranted

=============================================================================
