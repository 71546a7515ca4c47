---------------------------- MODULE RemoteRequests ----------------------------
(***************************************************************************)
(* What a host lets a remote device ask of it: the roles and capabilities   *)
(* of leave-protocol (lib.rs), the classification of tunnelled requests     *)
(* (tunnel.rs), and the routes of the workspace API that answers them       *)
(* (build_router in local_server.rs).                                       *)
(*                                                                          *)
(* A request is [form, method, route, category, content, login, target].  A *)
(* route stands for the paths of one handler ("session/prompts" for         *)
(* /sessions/{id}/prompts); "outside" is any path that is not of the API.   *)
(* The category is of the query; the content tells, of what the body asks   *)
(* for, whether it is global (a plugin, or a server of the user's scope) or *)
(* approves something destructive; the login is a header.                   *)
(***************************************************************************)
EXTENDS FiniteSets

Roles == {"owner", "maintainer", "operator", "viewer"}
Capabilities ==
  {"raw_pty", "dangerous_approval", "persistent_browser_profile", "global_customization"}

(* An action that needs a capability has the name of the capability. *)
WorkspaceEdits == {"edit_files", "git_write", "project_customization"}

authorize(role, grants, action) ==
  /\ action \in WorkspaceEdits => role \in {"owner", "maintainer"}
  /\ action = "manage_members" => role = "owner"
  /\ action \in Capabilities \cup {"prompt", "low_risk_approval"} => role # "viewer"
  /\ action \in Capabilities => action \in grants

-----------------------------------------------------------------------------
(* The workspace API *)

SessionRoutes ==
  {"session", "session/events", "session/resume", "session/prompts", "session/cancel"}
GitReads == {"git/status", "git/diff", "git/worktrees"}
GitRoutes == GitReads \cup
  {"git/branches", "git/stage", "git/unstage", "git/commit", "git/push"}
TerminalRoutes == {"terminals", "terminals/ws"}
PreviewRoutes == {"previews", "previews/control", "previews/ws"}
Sockets == {"ws", "terminals/ws", "previews/ws"}

build_router ==
  [GET  |-> {"status", "openapi", "workspaces", "sessions", "session", "session/events",
             "events", "files", "file", "customization"}
            \cup Sockets \cup GitReads \cup {"git/branches"},
   POST |-> {"sessions", "session/resume", "session/prompts", "session/cancel",
             "permissions", "customization", "terminals", "previews"}
            \cup (GitRoutes \ GitReads),
   PUT  |-> {"file", "previews/control"}]

Ask(method, route, category) ==
  [form |-> "valid", method |-> method, route |-> route, category |-> category,
   content |-> "ordinary", login |-> "none", target |-> ""]

Serves(q) == q.method \in DOMAIN build_router /\ q.route \in build_router[q.method]

(* Every request some handler serves, by what the handlers tell apart: only *)
(* customization has categories, and only its changes are global.           *)
Endpoints ==
  {q \in [form : {"valid"}, method : DOMAIN build_router,
          route : UNION {build_router[method] : method \in DOMAIN build_router},
          category : {"", "rules", "skills", "plugins", "mcp"},
          content : {"ordinary", "global", "destructive"}, login : {"none"}, target : {""}] :
     /\ Serves(q)
     /\ q.category # "" \/ q.content = "global" => q.route = "customization"
     /\ q.content = "destructive" => q.route = "permissions"}

(* access_allowed: while the host is open to its owner's tailnet, a request *)
(* comes through the loopback listener or carries the owner's login.        *)
access_allowed(access, host, login) ==
  access = "tailnet" => host = "loopback" \/ login = "owner"

(* A tunnelled request is given to the router without its Host header and a *)
(* connection to upgrade, and with the other headers it brings.             *)
Dispatches(access, q) ==
  access_allowed(access, "none", q.login) /\ Serves(q) /\ q.route \notin Sockets

(* What the handler of a request may change or approve, or let its caller   *)
(* reach or see beyond the workspace, on a host that was started with every *)
(* grant.  A change of customization goes by its body.                      *)
Touches(q) ==
  IF q.route \in TerminalRoutes THEN {"terminal"}
  ELSE IF q.route \in PreviewRoutes THEN {"preview"}
  ELSE IF q.method = "GET" THEN
         IF q.route = "customization" /\ q.category \in {"skills", "plugins", "mcp"}
           THEN {"global_customization"} ELSE {}
  ELSE IF q.route = "customization" THEN
         IF q.content = "global" THEN {"global_customization"} ELSE {"project_customization"}
  ELSE IF q.route = "permissions" THEN
         IF q.content = "destructive" THEN {"destructive_approval"} ELSE {"ordinary_approval"}
  ELSE IF q.route = "file" THEN {"code"}
  ELSE IF q.route \in GitRoutes THEN {"git"}
  ELSE {"agent"}

-----------------------------------------------------------------------------
(* The classification of a tunnelled request *)

(* validate: the version, the method, the prefix of the path, the body. *)
Valid(q) == q.form = "valid" /\ q.route # "outside"

(* What a write that no surface gates needs. *)
WriteAction(route) ==
  IF route \in GitReads THEN "view"
  ELSE IF route \in GitRoutes THEN "git_write"
  ELSE IF route \in SessionRoutes \cup {"sessions"} THEN "prompt"
  ELSE IF route = "session/permissions" THEN "low_risk_approval"
  ELSE "edit_files"

(* Variant: a read is a view, before its surface is looked at. *)
action_for_ReadsFirst(q) ==
  IF q.method \in {"GET", "HEAD"} THEN "view"
  ELSE IF q.route \in TerminalRoutes THEN "raw_pty"
  ELSE IF q.route \in PreviewRoutes THEN "persistent_browser_profile"
  ELSE IF q.route = "customization" THEN
         IF q.category \in {"rules", "skills"} THEN "project_customization"
         ELSE "global_customization"
  ELSE WriteAction(q.route)

action_for(q) ==
  IF q.route \in TerminalRoutes THEN "raw_pty"
  ELSE IF q.route \in PreviewRoutes THEN "persistent_browser_profile"
  ELSE IF q.route = "customization" THEN
         IF q.category \in {"rules", "skills"} THEN "project_customization"
         ELSE "global_customization"
  ELSE IF q.method \in {"GET", "HEAD"} THEN "view"
  ELSE WriteAction(q.route)

(* A grant is [role, capabilities]; a device that holds none has none at all. *)
permitted(grants, device, q) ==
  /\ device \in DOMAIN grants
  /\ authorize(grants[device].role, grants[device].capabilities, action_for(q))

newly_paired == [role |-> "operator", capabilities |-> {}]

-----------------------------------------------------------------------------
(* What the roles and capabilities stand for (Role and Capability in lib.rs) *)

RoleMay ==
  LET operator == {"agent", "ordinary_approval"}
      maintainer == operator \cup {"code", "git", "project_customization"}
  IN [viewer |-> {}, operator |-> operator, maintainer |-> maintainer, owner |-> maintainer]

CapabilityMay ==
  [raw_pty |-> {"terminal"}, persistent_browser_profile |-> {"preview"},
   global_customization |-> {"global_customization"},
   dangerous_approval |-> {"destructive_approval"}]

MayTouch(grant) ==
  RoleMay[grant.role] \cup
    (IF grant.role = "viewer" THEN {} ELSE UNION {CapabilityMay[c] : c \in grant.capabilities})

(* The requests whose classification does not tell what their handler does: *)
(* no decision counts as dangerous, a change of customization is classified *)
(* by a query its handler does not read, and the list of skills, with those *)
(* of the user, as the project's.                                           *)
Misclassified(q) ==
  \/ q.route = "permissions" /\ q.content = "destructive"
  \/ /\ q.route = "customization"
     /\ \/ q.method = "POST" /\ (q.category \in {"rules", "skills"} <=> q.content = "global")
        \/ q.method = "GET" /\ q.category = "skills"

=============================================================================
