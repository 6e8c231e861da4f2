----------------------------- MODULE RequestPipeline -----------------------------
(***************************************************************************)
(* What a request passes before its handler runs, and how it is answered:   *)
(* the origin check, the body parser, the throttler, the session, the       *)
(* membership and the role (configureApp, AppModule and the guards), while  *)
(* sessions end and memberships change; and the routes of the controllers   *)
(* with the guards and limits their decorators give them.                   *)
(***************************************************************************)
EXTENDS Integers, FiniteSets

CONSTANTS
    Limits,        \* limit class -> requests a client may make of one route in a window
    Deployments,   \* [operator: the caller is in INSTANCE_ADMIN_EMAILS, redis: "unset", "up" or "down"]
    MaxCalls,      \* bound: requests the caller makes
    MaxTurns       \* bound: changes of the caller's session and membership

LimitClasses == {"default", "search", "invite", "upload", "download", "import", "none"}

ASSUME PipelineAssumption ==
    /\ Limits \in [LimitClasses \ {"none"} -> Nat \ {0}]
    /\ Deployments \subseteq [operator : BOOLEAN, redis : {"unset", "up", "down"}]
    /\ {MaxCalls, MaxTurns} \subseteq Nat

-----------------------------------------------------------------------------
(* The routes: method, path below the controller's prefix, guard and limit. *)

Owner == {"OWNER"}
AdminRoles == {"OWNER", "ADMIN"}
ContentRoles == {"OWNER", "ADMIN", "MEMBER"}
MemberRoles == ContentRoles \cup {"GUEST"}

Route(method, path, guard, limit) == [method |-> method, path |-> path, guard |-> guard, limit |-> limit]
Reads(paths) == {Route("GET", p, "scoped", "default") : p \in paths}
Writes(method, paths, guard) == {Route(method, p, guard, "default") : p \in paths}

TaskRoutes ==
    Reads({"tasks/:id"}) \cup {Route("GET", "boards/:id/tasks", "scoped", "search")}
    \cup Writes("POST", {"boards/:id/tasks", "tasks/:id/assignees", "tasks/:id/labels"}, "content")
    \cup Writes("PATCH", {"tasks/:id", "tasks/:id/position"}, "content")
    \cup Writes("DELETE", {"tasks/:id", "tasks/:id/assignees/:id", "tasks/:id/labels/:id"}, "content")

ChecklistRoutes ==
    Writes("POST", {"tasks/:id/checklists", "tasks/:id/checklists/:id/items"}, "content")
    \cup Writes("PATCH", {"tasks/:id/checklists/:id", "tasks/:id/checklists/:id/position",
                          "tasks/:id/checklist-items/:id", "tasks/:id/checklist-items/:id/position"},
                "content")
    \cup Writes("DELETE", {"tasks/:id/checklists/:id", "tasks/:id/checklist-items/:id"}, "content")

BoardRoutes ==
    Reads({"boards", "boards/:id"})
    \cup Writes("POST", {"boards"}, "content") \cup Writes("PATCH", {"boards/:id"}, "content")
    \cup Writes("DELETE", {"boards/:id"}, "admin")

ColumnRoutes ==
    Reads({"boards/:id/columns"})
    \cup Writes("POST", {"boards/:id/columns", "boards/:id/columns/defaults"}, "admin")
    \cup Writes("PATCH", {"columns/:id", "columns/:id/position"}, "admin")
    \cup Writes("DELETE", {"columns/:id"}, "admin")

LabelRoutes ==
    Reads({"boards/:id/labels"})
    \cup Writes("POST", {"boards/:id/labels"}, "admin")
    \cup Writes("PATCH", {"labels/:id"}, "admin") \cup Writes("DELETE", {"labels/:id"}, "admin")

CommentRoutes ==
    Reads({"tasks/:id/comments"})
    \cup Writes("POST", {"tasks/:id/comments"}, "content")
    \cup Writes("DELETE", {"comments/:id"}, "content")

AttachmentRoutes ==
    Reads({"tasks/:id/attachments", "attachments/:id"})
    \cup Writes("DELETE", {"attachments/:id"}, "content")

TransferRoutes ==
    {Route("GET", "attachments/:id/content", "scoped", "download"),
     Route("POST", "tasks/:id/attachments", "content", "upload")}

ActivityRoutes == Reads({"activities", "tasks/:id/activities"})
DashboardRoutes == Reads({"dashboard/summary"})
ImportRoutes == {Route("POST", "imports/trello", "admin", "import")}

NotificationRoutes ==
    Reads({"notifications", "notifications/unread-count"})
    \cup Writes("POST", {"notifications/read-all", "notifications/:id/read"}, "scoped")

WorkspaceRoutes ==
    Writes("GET", {"/workspaces"}, "session") \cup Writes("POST", {"/workspaces"}, "session")
    \cup Reads({""}) \cup Writes("PATCH", {""}, "admin") \cup Writes("DELETE", {""}, "owner")

MemberRoutes ==
    Reads({"members/me", "members"}) \cup Writes("POST", {"members/me/leave"}, "scoped")
    \cup Writes("DELETE", {"members/:id"}, "admin")
    \cup Writes("PATCH", {"members/:id/role"}, "admin")

InvitationRoutes ==
    {Route("POST", "invitations", "admin", "invite")} \cup Writes("GET", {"invitations"}, "admin")
    \cup Writes("DELETE", {"invitations/:id"}, "admin")
    \cup Writes("POST", {"invitations/:id/accept"}, "session")

AccountRoutes ==
    Writes("GET", {"/me", "/me/deletion-preview", "/config"}, "session")
    \cup Writes("PATCH", {"/me"}, "session") \cup Writes("DELETE", {"/me"}, "session")

InstanceRoutes ==
    Writes("GET", {"/instance/activation", "/instance/users/:id/deletion-preview"}, "instance")
    \cup Writes("DELETE", {"/instance/users/:id"}, "instance")

HealthRoutes == {Route("GET", "/health", "public", "none"), Route("GET", "/health/ready", "public", "none")}

\* Better Auth's own handler; the organization's mutations are refused at the door.
AuthRoutes == {Route(m, p, "auth", "none") : m \in {"POST"}, p \in {"/auth/sign-in", "/auth/organization"}}

Routes ==
    UNION {TaskRoutes, ChecklistRoutes, BoardRoutes, ColumnRoutes, LabelRoutes, CommentRoutes,
           AttachmentRoutes, TransferRoutes, ActivityRoutes, DashboardRoutes, ImportRoutes,
           NotificationRoutes, WorkspaceRoutes, MemberRoutes, InvitationRoutes, AccountRoutes,
           InstanceRoutes, HealthRoutes, AuthRoutes}

RolesFor(guard) ==
    CASE guard = "owner" -> Owner [] guard = "admin" -> AdminRoles
      [] guard = "content" -> ContentRoles [] OTHER -> MemberRoles

Scoped(route) == route.guard \in {"scoped", "content", "admin", "owner"}
Unsafe(route) == route.method \in {"POST", "PUT", "PATCH", "DELETE"}

-----------------------------------------------------------------------------
VARIABLES
    deployed,  \* the settings of the instance
    session,   \* the caller's: "live", "cached" (ended, but its cookie cache has not), or "none"
    role,      \* the caller's WorkspaceMember row: a role or "NONE"
    earlier,   \* what the window saw of this client's requests before, of each route
    hits,      \* what the throttler has counted since: <<number of the request, its route>>
    authHits,  \* the counter of the auth routes, in Redis or in memory
    call,      \* the request: its route, its stage, and what the guards put on it
    held,      \* the roles the caller has had since the request arrived
    answer,    \* the last answer: [status, by]
    calls,     \* requests made
    turns      \* changes of session and membership made

pipelineVars == <<deployed, session, role, earlier, hits, authHits, call,
                  held, answer, calls, turns>>

Stages == {"origin", "body", "firewall", "throttle", "session", "workspace", "roles", "pipes", "handler"}
NoCall == [stage |-> "none"]
NoAnswer == [status |-> 0, by |-> "none"]

PipelineTypeOK ==
    /\ deployed \in Deployments
    /\ session \in {"live", "cached", "none"}
    /\ role \in MemberRoles \cup {"NONE"}
    /\ earlier \in Nat /\ hits \subseteq (1..calls) \X Routes /\ Cardinality(hits) \in 0..calls
    /\ authHits \in Nat
    /\ call # NoCall => call.route \in Routes /\ call.stage \in Stages /\ call.user \in BOOLEAN
    /\ held \subseteq MemberRoles
    /\ calls \in 0..MaxCalls /\ turns \in 0..MaxTurns

\* The window may have begun before: nothing asked yet, or as much as it allows.
PipelineInit ==
    /\ deployed \in Deployments
    /\ session \in {"live", "none"}
    /\ role \in MemberRoles \cup {"NONE"}
    /\ earlier \in 0..Limits["default"]
    /\ hits = {}
    /\ authHits = earlier
    /\ call = NoCall /\ held = {} /\ answer = NoAnswer
    /\ calls = 0 /\ turns = 0

Outside == UNCHANGED <<deployed, session, role, earlier, turns>>
Onward(stage) == call' = [call EXCEPT !.stage = stage] /\ UNCHANGED <<answer, held>>
Reply(status) == answer' = [status |-> status, by |-> call.stage] /\ call' = NoCall /\ held' = {}
At(stage) == call.stage = stage /\ Outside /\ UNCHANGED calls

\* `origin' is what claimedOrigin finds; `large' is a body over REQUEST_BODY_MAX_BYTES.
Arrive(route, origin, large) ==
    /\ call = NoCall /\ calls < MaxCalls
    /\ calls' = calls + 1
    /\ call' = [stage |-> "origin", route |-> route, origin |-> origin, large |-> large,
                user |-> FALSE, role |-> "NONE"]
    /\ held' = {role} \ {"NONE"}
    /\ answer' = NoAnswer
    /\ Outside /\ UNCHANGED <<hits, authHits>>

\* createOriginCheckMiddleware: a request that names no origin passes.
CheckOrigin ==
    /\ At("origin")
    /\ IF Unsafe(call.route) /\ call.origin = "foreign" THEN Reply(403)
       ELSE Onward(IF call.route.guard = "auth" THEN "firewall" ELSE "body")
    /\ UNCHANGED <<hits, authHits>>

\* Better Auth is mounted below Nest: the firewall, then its own limiter, then its handler. The
\* limiter's storage fails open.
AuthLimit == Limits["default"]
Firewall ==
    /\ At("firewall")
    /\ IF call.route.path = "/auth/organization" THEN Reply(403) /\ UNCHANGED authHits
       ELSE IF deployed.redis = "down" THEN Reply(200) /\ UNCHANGED authHits
       ELSE /\ authHits' = authHits + 1
            /\ Reply(IF authHits + 1 > AuthLimit THEN 429 ELSE 200)
    /\ UNCHANGED hits

\* The JSON body parser; multipart bodies are multer's, which runs after the guards.  A link is
\* attached by a JSON body on the route of the uploads.
ParseBody ==
    /\ At("body")
    /\ \/ call.large /\ Reply(413)
       \/ (call.large => call.route.limit \in {"upload", "import"}) /\ Onward("throttle")
    /\ UNCHANGED <<hits, authHits>>

\* The counter of a route.
CountOf(route, counted) == Cardinality({h \in counted : h[2] = route})

\* ThrottlerGuard is the first global guard: refused requests count too.
Throttle ==
    /\ At("throttle")
    /\ LET route == call.route IN
         IF route.limit = "none" THEN Onward("session") /\ UNCHANGED hits
         ELSE /\ hits' = hits \cup {<<calls, route>>}
              /\ IF earlier + CountOf(route, hits') > Limits[route.limit]
                 THEN Reply(429) ELSE Onward("session")
    /\ UNCHANGED authHits

\* SessionAuthGuard is the second; getSession trusts a cached cookie. The instance routes check
\* the session's address next.
Authenticate ==
    /\ At("session")
    /\ LET guard == call.route.guard
           next == IF guard = "session" THEN "pipes" ELSE "workspace"
       IN  CASE guard = "public" -> Onward("handler")
             [] guard # "public" /\ session = "none" -> Reply(401)
             [] guard = "instance" /\ session # "none" ->
                   IF deployed.operator
                   THEN call' = [call EXCEPT !.stage = "pipes", !.user = TRUE] /\ UNCHANGED <<answer, held>>
                   ELSE Reply(403)
             [] OTHER -> call' = [call EXCEPT !.stage = next, !.user = TRUE] /\ UNCHANGED <<answer, held>>
    /\ UNCHANGED <<hits, authHits>>

NotAMember == Reply(404)

\* WorkspaceGuard: the membership is read once, and kept on the request.
ResolveMembership ==
    /\ At("workspace")
    /\ IF ~call.user \/ role = "NONE" THEN NotAMember
       ELSE /\ call' = [call EXCEPT !.role = role,
                                    !.stage = IF call.route.guard = "scoped" THEN "pipes" ELSE "roles"]
            /\ UNCHANGED <<answer, held>>
    /\ UNCHANGED <<hits, authHits>>

\* Slip: a handler whose metadata is not read requires nothing.
NoMetadata(guard) == MemberRoles

RequiredRoles(guard) == RolesFor(guard)

\* RolesGuard: what WorkspaceGuard resolved against what the handler's decorator asks.
CheckRoles ==
    /\ At("roles")
    /\ IF call.role \in RequiredRoles(call.route.guard) THEN Onward("pipes") ELSE Reply(403)
    /\ UNCHANGED <<hits, authHits>>

\* ValidationPipe and the multipart interceptor: 400, 413 or 415 before the handler runs.
RunPipes ==
    /\ At("pipes")
    /\ \/ Onward("handler")
       \/ \E status \in IF call.route.limit \in {"upload", "import"} THEN {400, 413} ELSE {400} : Reply(status)
    /\ UNCHANGED <<hits, authHits>>

\* AllExceptionsFilter: what a thrown value is answered with.
StatusOf(thrown) ==
    CASE thrown = "P2002" -> 409 [] thrown = "P2025" -> 404 [] thrown = "P2003" -> 409
      [] thrown = "NotFound" -> 404 [] thrown = "Conflict" -> 409 [] thrown = "Forbidden" -> 403
      [] thrown = "UnsupportedMedia" -> 415 [] thrown = "BadRequest" -> 400
      [] thrown = "Unprocessable" -> 422
      [] OTHER -> 500    \* another Prisma error, an Error, or a value that is none

\* checkReadiness: both probes, each within its timeout; an unset Redis is skipped.
Readiness(database) == IF database = "down" \/ deployed.redis = "down" THEN 503 ELSE 200

RunHandler ==
    /\ At("handler")
    /\ IF call.route.path = "/health/ready"
       THEN \E database \in {"up", "down"} : Reply(Readiness(database))
       ELSE IF call.route.path = "/health" THEN Reply(200)
       ELSE \/ Reply(200)
            \/ \E thrown \in {"P2002", "P2025", "P2003", "NotFound", "Conflict", "Forbidden",
                              "UnsupportedMedia", "BadRequest", "Unprocessable", "Error"} : Reply(StatusOf(thrown))
    /\ UNCHANGED <<hits, authHits>>

\* The window of the counters passes.
NextWindow ==
    /\ authHits + earlier # 0 \/ hits # {}
    /\ earlier' = 0 /\ hits' = {} /\ authHits' = 0
    /\ UNCHANGED <<deployed, session, role, call, held, answer, calls, turns>>

Turn == turns < MaxTurns /\ turns' = turns + 1 /\ UNCHANGED <<deployed, earlier, hits, authHits, call, answer, calls>>

\* The session is ended elsewhere; its cookie is believed for five more minutes.
EndSession ==
    /\ Turn
    /\ session' = (CASE session = "live" -> "cached" [] OTHER -> "none")
    /\ session # "none"
    /\ UNCHANGED <<role, held>>

ChangeMembership == \E to \in MemberRoles \cup {"NONE"} :
    /\ Turn
    /\ to # role
    /\ role' = to
    /\ held' = IF call = NoCall THEN held ELSE held \cup ({to} \ {"NONE"})
    /\ UNCHANGED session

PipelineNext ==
    \/ \E route \in Routes, origin \in {"own", "foreign", "unsaid"}, large \in BOOLEAN :
          Arrive(route, origin, large)
    \/ CheckOrigin \/ Firewall \/ ParseBody \/ Throttle \/ Authenticate \/ ResolveMembership
    \/ CheckRoles \/ RunPipes \/ RunHandler
    \/ NextWindow \/ EndSession \/ ChangeMembership

PipelineSpec == PipelineInit /\ [][PipelineNext]_pipelineVars

-----------------------------------------------------------------------------
(* Properties *)

\* A GUEST may mark notifications read, and leave; anyone may accept an invitation.
OwnAffairs == {"notifications/read-all", "notifications/:id/read", "members/me/leave", "invitations/:id/accept"}

(***************************************************************************)
(* A GUEST changes nothing: a handler that writes to a workspace runs only  *)
(* for a caller who has been an OWNER, ADMIN or MEMBER of it since the      *)
(* request arrived, whatever route the request took and however the         *)
(* membership changed on the way.                                           *)
(***************************************************************************)
GuestsOnlyRead ==
    call # NoCall =>
        (call.stage = "handler" /\ Unsafe(call.route) /\ Scoped(call.route)
            /\ call.route.path \notin OwnAffairs => held \cap ContentRoles # {})

=============================================================================
