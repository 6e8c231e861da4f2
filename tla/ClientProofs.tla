------------------------------ MODULE ClientProofs ------------------------------
(***************************************************************************)
(* Proofs about the parts of MCClient, each for every value of its          *)
(* constants: who may write through the guards of the API                   *)
(* (RequestPipeline), the way to an invitation (AuthScreens), the list of   *)
(* invitations a manager is shown (WorkspaceShell), and what the panel of   *)
(* a task shows (TaskPanel); and the types of all of them, with those of    *)
(* the notifications (NotificationCentre).                                  *)
(***************************************************************************)
EXTENDS MCClient, FiniteSetTheorems, WellFoundedInduction, TLAPS

-----------------------------------------------------------------------------
(* The routes *)

Origins == {"own", "foreign", "unsaid"}
Guarded == {"content", "admin", "owner"}

\* A route that reads, or asks for a role, or is outside the workspaces or a member's own affair.
Harmless(r) ==
    r.method = "GET" \/ r.guard \in Guarded \/ ~Scoped(r) \/ r.path \in OwnAffairs

(***************************************************************************)
(* The kinds of lists that are harmless.                                    *)
(***************************************************************************)
LEMMA HarmlessLists ==
    /\ \A paths : \A r \in Reads(paths) : Harmless(r)
    /\ \A method, paths : \A guard \in Guarded : \A r \in Writes(method, paths, guard) : Harmless(r)
    /\ \A method, paths : \A guard \in {"session", "instance"} :
           \A r \in Writes(method, paths, guard) : Harmless(r)
<1>1. \A paths : \A r \in Reads(paths) : Harmless(r)
  BY DEF Reads, Route, Harmless
<1>2. \A method, paths : \A guard \in Guarded : \A r \in Writes(method, paths, guard) : Harmless(r)
  BY DEF Writes, Route, Harmless
<1>3. \A method, paths : \A guard \in {"session", "instance"} :
          \A r \in Writes(method, paths, guard) : Harmless(r)
  BY DEF Writes, Route, Harmless, Scoped
<1> QED BY <1>1, <1>2, <1>3

(***************************************************************************)
(* A single route is harmless for the same reasons.                         *)
(***************************************************************************)
LEMMA HarmlessRoutes ==
    ASSUME NEW method, NEW path, NEW guard, NEW limit,
           method = "GET" \/ guard \in Guarded \/ guard \in {"public", "auth"}
    PROVE  Harmless(Route(method, path, guard, limit))
BY DEF Route, Harmless, Scoped

(***************************************************************************)
(* The routes of the boards and of what is on them ask for a role wherever  *)
(* they write.                                                              *)
(***************************************************************************)
LEMMA BoardRoutesHarmless ==
    \A r \in UNION {TaskRoutes, ChecklistRoutes, BoardRoutes, ColumnRoutes, LabelRoutes} : Harmless(r)
<1>1. "content" \in Guarded /\ "admin" \in Guarded
  BY DEF Guarded
<1>2. \A r \in TaskRoutes : Harmless(r)
  BY <1>1, HarmlessLists, HarmlessRoutes DEF TaskRoutes
<1>3. \A r \in ChecklistRoutes : Harmless(r)
  BY <1>1, HarmlessLists DEF ChecklistRoutes
<1>4. \A r \in BoardRoutes : Harmless(r)
  BY <1>1, HarmlessLists DEF BoardRoutes
<1>5. \A r \in ColumnRoutes : Harmless(r)
  BY <1>1, HarmlessLists DEF ColumnRoutes
<1>6. \A r \in LabelRoutes : Harmless(r)
  BY <1>1, HarmlessLists DEF LabelRoutes
<1> QED BY <1>2, <1>3, <1>4, <1>5, <1>6

(***************************************************************************)
(* So do those of comments, files, feeds and imports.                       *)
(***************************************************************************)
LEMMA ContentRoutesHarmless ==
    \A r \in UNION {CommentRoutes, AttachmentRoutes, TransferRoutes, ActivityRoutes, DashboardRoutes,
                    ImportRoutes} : Harmless(r)
<1>1. "content" \in Guarded /\ "admin" \in Guarded
  BY DEF Guarded
<1>2. \A r \in CommentRoutes : Harmless(r)
  BY <1>1, HarmlessLists DEF CommentRoutes
<1>3. \A r \in AttachmentRoutes : Harmless(r)
  BY <1>1, HarmlessLists DEF AttachmentRoutes
<1>4. \A r \in TransferRoutes \cup ImportRoutes : Harmless(r)
  BY <1>1, HarmlessRoutes DEF TransferRoutes, ImportRoutes
<1>5. \A r \in ActivityRoutes \cup DashboardRoutes : Harmless(r)
  BY HarmlessLists DEF ActivityRoutes, DashboardRoutes
<1> QED BY <1>2, <1>3, <1>4, <1>5

(***************************************************************************)
(* The rest are a member's own affairs, or outside the workspaces.          *)
(***************************************************************************)
LEMMA OtherRoutesHarmless ==
    \A r \in UNION {NotificationRoutes, WorkspaceRoutes, MemberRoutes, InvitationRoutes,
                    AccountRoutes, InstanceRoutes, HealthRoutes, AuthRoutes} : Harmless(r)
<1>1. "admin" \in Guarded /\ "owner" \in Guarded
  BY DEF Guarded
<1>2. \A method, guard : \A paths \in SUBSET OwnAffairs :
          \A r \in Writes(method, paths, guard) : Harmless(r)
  BY DEF Writes, Route, Harmless
<1>3. \A r \in NotificationRoutes : Harmless(r)
  <2>1. {"notifications/read-all", "notifications/:id/read"} \subseteq OwnAffairs
    BY DEF OwnAffairs
  <2> QED BY <1>2, <2>1, HarmlessLists DEF NotificationRoutes
<1>4. \A r \in WorkspaceRoutes : Harmless(r)
  BY <1>1, HarmlessLists DEF WorkspaceRoutes
<1>5. \A r \in MemberRoutes : Harmless(r)
  <2>1. {"members/me/leave"} \subseteq OwnAffairs
    BY DEF OwnAffairs
  <2> QED BY <1>1, <1>2, <2>1, HarmlessLists DEF MemberRoutes
<1>6. \A r \in InvitationRoutes : Harmless(r)
  BY <1>1, HarmlessLists, HarmlessRoutes DEF InvitationRoutes
<1>7. \A r \in AccountRoutes \cup InstanceRoutes : Harmless(r)
  BY HarmlessLists DEF AccountRoutes, InstanceRoutes
<1>8. \A r \in HealthRoutes \cup AuthRoutes : Harmless(r)
  BY HarmlessRoutes DEF HealthRoutes, AuthRoutes
<1> QED BY <1>3, <1>4, <1>5, <1>6, <1>7, <1>8

(***************************************************************************)
(* Every route that writes to a workspace asks for a role, but for those of *)
(* a member's own affairs.                                                  *)
(***************************************************************************)
LEMMA WritesAskForRoles ==
    \A r \in Routes : Unsafe(r) /\ Scoped(r) /\ r.path \notin OwnAffairs => r.guard \in Guarded
<1>1. \A r \in Routes : Harmless(r)
  BY BoardRoutesHarmless, ContentRoutesHarmless, OtherRoutesHarmless DEF Routes
<1> QED BY <1>1 DEF Harmless, Unsafe

-----------------------------------------------------------------------------
(* A request on its way *)

Calls ==
    [stage : Stages, route : Routes, origin : Origins, large : BOOLEAN, user : BOOLEAN,
     role : MemberRoles \cup {"NONE"}]

(***************************************************************************)
(* What the request has been let through with: past the membership guard    *)
(* its role is one the caller has had, and past the roles guard it is one   *)
(* that the route asks for.                                                 *)
(***************************************************************************)
LetThrough ==
    call # NoCall =>
        /\ call \in Calls
        /\ role # "NONE" => role \in held
        /\ call.route.guard \in Guarded =>
               /\ call.stage \in {"roles", "pipes", "handler"} => call.role \in held
               /\ call.stage \in {"pipes", "handler"} => call.role \in RolesFor(call.route.guard)

Inv == role \in MemberRoles \cup {"NONE"} /\ LetThrough

(***************************************************************************)
(* A stage is not the absence of a request.                                 *)
(***************************************************************************)
LEMMA SomeCall == call.stage \in Stages => call # NoCall
BY DEF NoCall, Stages

(***************************************************************************)
(* An answered request is gone.                                             *)
(***************************************************************************)
LEMMA ReplyKeeps ==
    ASSUME Inv, NEW status, Reply(status), UNCHANGED role
    PROVE  Inv'
BY DEF Inv, LetThrough, Reply

(***************************************************************************)
(* A request that goes on to a stage it may reach is let through.           *)
(***************************************************************************)
LEMMA OnwardKeeps ==
    ASSUME Inv, call # NoCall, NEW stage \in Stages, Onward(stage), UNCHANGED role,
           call.route.guard \in Guarded =>
               \/ stage \notin {"roles", "pipes", "handler"}
               \/ stage = "pipes" /\ call.stage = "roles" /\ call.role \in RolesFor(call.route.guard)
               \/ stage = "handler" /\ call.stage = "pipes"
    PROVE  Inv'
<1>1. call \in Calls
  BY DEF Inv, LetThrough
<1>2. /\ call' \in Calls /\ call'.stage = stage /\ call'.route = call.route
      /\ call'.role = call.role /\ held' = held
  BY <1>1 DEF Calls, Onward
<1> QED BY <1>2 DEF Inv, LetThrough

(***************************************************************************)
(* The steps before the guards.                                             *)
(***************************************************************************)
LEMMA DoorKeeps ==
    ASSUME Inv, CheckOrigin \/ Firewall \/ ParseBody \/ Throttle
    PROVE  Inv'
<1>1. call # NoCall /\ UNCHANGED role
  BY SomeCall DEF CheckOrigin, Firewall, ParseBody, Throttle, At, Outside, Stages
<1>2. \/ \E status : Reply(status)
      \/ \E stage \in {"firewall", "body", "throttle", "session"} : Onward(stage)
  BY DEF CheckOrigin, Firewall, ParseBody, Throttle
<1> QED BY <1>1, <1>2, ReplyKeeps, OnwardKeeps DEF Stages

(***************************************************************************)
(* The session guard lets nobody past the membership guard of a route.      *)
(***************************************************************************)
LEMMA SessionKeeps == ASSUME Inv, Authenticate PROVE Inv'
<1>1. call # NoCall /\ UNCHANGED role
  BY SomeCall DEF Authenticate, At, Outside, Stages
<1>2. call \in Calls
  BY <1>1 DEF Inv, LetThrough
<1>3. CASE \E status : Reply(status)
  BY <1>1, <1>3, ReplyKeeps
<1>4. CASE Onward("handler") /\ call.route.guard = "public"
  BY <1>1, <1>4, OnwardKeeps DEF Stages, Guarded
<1>5. CASE \E stage \in {"pipes", "workspace"} :
               /\ call.route.guard \in Guarded => stage = "workspace"
               /\ call' = [call EXCEPT !.stage = stage, !.user = TRUE]
               /\ UNCHANGED held
  <2>1. PICK stage \in {"pipes", "workspace"} :
               /\ call.route.guard \in Guarded => stage = "workspace"
               /\ call' = [call EXCEPT !.stage = stage, !.user = TRUE]
               /\ UNCHANGED held
    BY <1>5
  <2>2. /\ call' \in Calls /\ call'.stage = stage /\ call'.route = call.route
        /\ call'.role = call.role
    BY <1>2, <2>1 DEF Calls, Stages
  <2> QED BY <1>1, <2>1, <2>2 DEF Inv, LetThrough
<1> QED
  <2>1. CASE call.route.guard = "public"
    BY <1>4, <2>1 DEF Authenticate
  <2>2. CASE call.route.guard # "public" /\ session = "none"
    BY <1>3, <2>2 DEF Authenticate
  <2>3. CASE call.route.guard = "instance" /\ session # "none"
    BY <1>3, <1>5, <2>3 DEF Authenticate, Guarded
  <2>4. CASE call.route.guard \notin {"public", "instance"} /\ session # "none"
    BY <1>5, <2>4 DEF Authenticate, Guarded
  <2> QED BY <2>1, <2>2, <2>3, <2>4

(***************************************************************************)
(* The membership guard reads a role that the caller has.                   *)
(***************************************************************************)
LEMMA MembershipKeeps == ASSUME Inv, ResolveMembership PROVE Inv'
<1>1. call # NoCall /\ UNCHANGED role
  BY SomeCall DEF ResolveMembership, At, Outside, Stages
<1>2. call \in Calls
  BY <1>1 DEF Inv, LetThrough
<1>3. CASE Reply(404)
  BY <1>1, <1>3, ReplyKeeps
<1>4. CASE ~Reply(404)
  <2> DEFINE stage == IF call.route.guard = "scoped" THEN "pipes" ELSE "roles"
  <2>1. /\ role # "NONE" /\ UNCHANGED held
        /\ call' = [call EXCEPT !.role = role, !.stage = stage]
    BY <1>4 DEF ResolveMembership, NotAMember
  <2>2. role \in MemberRoles /\ role \in held
    BY <1>1, <2>1 DEF Inv, LetThrough
  <2>3. /\ call' \in Calls /\ call'.stage = stage /\ call'.route = call.route
        /\ call'.role = role
    BY <1>2, <2>1, <2>2 DEF Calls, Stages
  <2>4. call.route.guard \in Guarded => stage = "roles"
    BY DEF Guarded
  <2> QED BY <1>1, <2>1, <2>2, <2>3, <2>4 DEF Inv, LetThrough
<1> QED BY <1>3, <1>4

(***************************************************************************)
(* The roles guard, the pipes and the handler.                              *)
(***************************************************************************)
LEMMA HandlerKeeps == ASSUME Inv, CheckRoles \/ RunPipes \/ RunHandler PROVE Inv'
<1>1. call # NoCall /\ UNCHANGED role
  BY SomeCall DEF CheckRoles, RunPipes, RunHandler, At, Outside, Stages
<1>2. CASE \E status : Reply(status)
  BY <1>1, <1>2, ReplyKeeps
<1>3. CASE CheckRoles /\ Onward("pipes")
  <2>1. CASE call.role \in RolesFor(call.route.guard)
    BY <1>1, <1>3, <2>1, OnwardKeeps DEF CheckRoles, At, Stages
  <2>2. CASE call.role \notin RolesFor(call.route.guard)
    BY <1>2, <2>2, <1>3 DEF CheckRoles, RequiredRoles
  <2> QED BY <2>1, <2>2
<1>4. CASE RunPipes /\ Onward("handler")
  BY <1>1, <1>4, OnwardKeeps DEF RunPipes, At, Stages
<1>5. (\E status : Reply(status)) \/ (CheckRoles /\ Onward("pipes")) \/ (RunPipes /\ Onward("handler"))
  BY DEF CheckRoles, RunPipes, RunHandler
<1> QED BY <1>2, <1>3, <1>4, <1>5

(***************************************************************************)
(* Every step leaves a request let through with what it was let through by. *)
(***************************************************************************)
LEMMA NextKeeps == ASSUME Inv, [PipelineNext]_pipelineVars PROVE Inv'
<1>1. CASE UNCHANGED <<role, held, call>>
  BY <1>1 DEF Inv, LetThrough
<1>2. ASSUME NEW route \in Routes, NEW origin \in Origins, NEW large \in BOOLEAN,
             Arrive(route, origin, large)
      PROVE  Inv'
  <2>1. /\ call' = [stage |-> "origin", route |-> route, origin |-> origin, large |-> large,
                    user |-> FALSE, role |-> "NONE"]
        /\ held' = {role} \ {"NONE"} /\ role' = role
    BY <1>2 DEF Arrive, Outside
  <2>2. call' \in Calls /\ call'.stage = "origin"
    BY <2>1 DEF Calls, Stages
  <2> QED BY <2>1, <2>2 DEF Inv, LetThrough
<1>3. CASE ChangeMembership
  <2>1. PICK to \in MemberRoles \cup {"NONE"} :
            /\ role' = to /\ UNCHANGED call
            /\ held' = IF call = NoCall THEN held ELSE held \cup ({to} \ {"NONE"})
    BY <1>3 DEF ChangeMembership, Turn
  <2> QED BY <2>1 DEF Inv, LetThrough
<1>4. CASE NextWindow \/ EndSession
  BY <1>1, <1>4 DEF NextWindow, EndSession, Turn
<1> QED BY <1>1, <1>2, <1>3, <1>4, DoorKeeps, SessionKeeps, MembershipKeeps, HandlerKeeps
        DEF PipelineNext, pipelineVars, Origins

(***************************************************************************)
(* A GUEST changes nothing, on whatever route: where a handler that writes  *)
(* to a workspace runs, its caller has been an OWNER, ADMIN or MEMBER since *)
(* the request arrived -- whatever the limits, the deployment and the       *)
(* number of requests.  It says nothing of a role that was lost on the way. *)
(***************************************************************************)
THEOREM GuestsNeverWrite == PipelineSpec => []GuestsOnlyRead
<1>1. PipelineInit => Inv
  BY DEF PipelineInit, Inv, LetThrough
<1>2. Inv /\ [PipelineNext]_pipelineVars => Inv'
  BY NextKeeps
<1>3. Inv => GuestsOnlyRead
  <2> SUFFICES ASSUME Inv, call # NoCall, call.stage = "handler", Unsafe(call.route),
                      Scoped(call.route), call.route.path \notin OwnAffairs
               PROVE  held \cap ContentRoles # {}
    BY DEF GuestsOnlyRead
  <2>1. call.route.guard \in Guarded
    BY WritesAskForRoles DEF Inv, LetThrough, Calls
  <2>2. call.role \in held /\ call.role \in RolesFor(call.route.guard)
    BY <2>1 DEF Inv, LetThrough
  <2>3. RolesFor(call.route.guard) \subseteq ContentRoles
    BY <2>1 DEF Guarded, RolesFor, ContentRoles, AdminRoles, Owner
  <2> QED BY <2>2, <2>3
<1> QED BY <1>1, <1>2, <1>3, PTL DEF PipelineSpec

-----------------------------------------------------------------------------
(* What the throttler counts *)

\* What the throttler has counted is of requests that were made, and not of one that has yet to
\* pass it.
Unthrottled == call # NoCall /\ call.stage \in {"origin", "body", "throttle"}
CountInv ==
    /\ hits \subseteq (1..calls) \X Routes /\ IsFiniteSet(hits)
    /\ Cardinality(hits) <= IF Unthrottled THEN calls - 1 ELSE calls
RestInv ==
    /\ deployed \in Deployments /\ session \in {"live", "cached", "none"}
    /\ earlier \in Nat /\ authHits \in Nat /\ held \subseteq MemberRoles
    /\ calls \in 0..MaxCalls /\ turns \in 0..MaxTurns
PipelineInv == Inv /\ RestInv /\ CountInv

LEMMA PipelineTyped == ASSUME PipelineInv PROVE PipelineTypeOK
<1>1. Cardinality(hits) \in Nat /\ Cardinality(hits) <= calls
  BY FS_CardinalityType DEF PipelineInv, CountInv, RestInv
<1>2. call # NoCall => call.route \in Routes /\ call.stage \in Stages /\ call.user \in BOOLEAN
  BY DEF PipelineInv, Inv, LetThrough, Calls
<1> QED
  BY <1>1, <1>2, PipelineAssumption DEF PipelineInv, PipelineTypeOK, Inv, RestInv, CountInv

LEMMA CountKept ==
    ASSUME CountInv, RestInv, hits' = hits, calls' = calls, Unthrottled' => Unthrottled
    PROVE  CountInv'
<1>1. calls \in Nat /\ Cardinality(hits) \in Nat
  BY FS_CardinalityType, PipelineAssumption DEF CountInv, RestInv
<1>2. Cardinality(hits) <= IF Unthrottled' THEN calls - 1 ELSE calls
  BY <1>1 DEF CountInv
<1> QED
  BY <1>2 DEF CountInv

LEMMA RestKept ==
    ASSUME Inv, RestInv, [PipelineNext]_pipelineVars
    PROVE  RestInv'
<1>1. calls \in Nat /\ turns \in Nat /\ MaxCalls \in Nat /\ MaxTurns \in Nat
  BY PipelineAssumption DEF RestInv
<1>2. CASE UNCHANGED pipelineVars
  BY <1>2 DEF RestInv, pipelineVars
<1>3. ASSUME NEW route, NEW origin, NEW large, Arrive(route, origin, large)
      PROVE  RestInv'
  BY <1>1, <1>3 DEF RestInv, Arrive, Outside, Inv
<1>4. CASE CheckOrigin \/ Firewall \/ ParseBody \/ Throttle \/ Authenticate \/ ResolveMembership
           \/ CheckRoles \/ RunPipes \/ RunHandler
  <2>1. UNCHANGED <<deployed, session, role, earlier, turns, calls>>
    BY <1>4 DEF CheckOrigin, Firewall, ParseBody, Throttle, Authenticate, ResolveMembership,
       CheckRoles, RunPipes, RunHandler, At, Outside
  <2>2. held' \in {held, {}}
    BY <1>4 DEF CheckOrigin, Firewall, ParseBody, Throttle, Authenticate, ResolveMembership,
       CheckRoles, RunPipes, RunHandler, Onward, Reply, NotAMember
  <2>3. authHits' \in {authHits, authHits + 1}
    BY <1>4 DEF CheckOrigin, Firewall, ParseBody, Throttle, Authenticate, ResolveMembership,
       CheckRoles, RunPipes, RunHandler
  <2> QED
    BY <2>1, <2>2, <2>3 DEF RestInv
<1>5. CASE NextWindow
  BY <1>5 DEF RestInv, NextWindow
<1>6. CASE EndSession
  BY <1>1, <1>6 DEF RestInv, EndSession, Turn
<1>7. CASE ChangeMembership
  <2>1. PICK to \in MemberRoles \cup {"NONE"} :
          /\ Turn /\ session' = session
          /\ held' = IF call = NoCall THEN held ELSE held \cup ({to} \ {"NONE"})
    BY <1>7 DEF ChangeMembership
  <2> QED
    BY <1>1, <2>1 DEF RestInv, Turn
<1> QED
  BY <1>2, <1>3, <1>4, <1>5, <1>6, <1>7 DEF PipelineNext

(***************************************************************************)
(* A request is counted once, by the throttler.                             *)
(***************************************************************************)
LEMMA ThrottleCounts == ASSUME Inv, RestInv, CountInv, Throttle PROVE CountInv'
<1>1. call # NoCall /\ call.stage = "throttle" /\ call \in Calls /\ calls' = calls /\ calls \in Nat
  BY SomeCall, PipelineAssumption DEF Throttle, At, Stages, Inv, LetThrough, RestInv
<1>2. Unthrottled /\ Cardinality(hits) \in Nat /\ Cardinality(hits) + 1 <= calls
  BY <1>1, FS_CardinalityType DEF Unthrottled, CountInv
<1>3. ~Unthrottled'
  <2>1. Reply(429) \/ Onward("session")
    BY DEF Throttle
  <2>2. Onward("session") => call'.stage = "session"
    BY <1>1 DEF Onward, Calls
  <2> QED
    BY <2>1, <2>2 DEF Unthrottled, Reply
<1>4. CASE hits' = hits
  BY <1>1, <1>2, <1>3, <1>4 DEF CountInv
<1>5. CASE hits' # hits
  <2>1. PICK h \in (1..calls) \X Routes : hits' = hits \cup {h}
    BY <1>1, <1>2, <1>5 DEF Throttle, Calls
  <2>2. IsFiniteSet(hits') /\ Cardinality(hits') \in {Cardinality(hits), Cardinality(hits) + 1}
    BY <2>1, FS_AddElement DEF CountInv
  <2> QED
    BY <1>1, <1>2, <1>3, <2>1, <2>2 DEF CountInv
<1> QED
  BY <1>4, <1>5

LEMMA CountsKept ==
    ASSUME Inv, RestInv, CountInv, [PipelineNext]_pipelineVars
    PROVE  CountInv'
<1>1. calls \in Nat /\ MaxCalls \in Nat
  BY PipelineAssumption DEF RestInv
<1>2. CASE UNCHANGED <<hits, calls, call>>
  BY <1>2, CountKept DEF Unthrottled
<1>3. ASSUME NEW route, NEW origin, NEW large, Arrive(route, origin, large)
      PROVE  CountInv'
  <2>1. hits' = hits /\ calls' = calls + 1 /\ ~Unthrottled
    BY <1>3 DEF Arrive, Unthrottled
  <2>2. Cardinality(hits) \in Nat /\ Cardinality(hits) <= calls
    BY <2>1, FS_CardinalityType DEF CountInv
  <2> QED
    BY <1>1, <2>1, <2>2 DEF CountInv
<1>4. CASE CheckOrigin \/ Firewall \/ ParseBody
  <2>1. hits' = hits /\ calls' = calls /\ call # NoCall /\ call.stage \in {"origin", "firewall", "body"}
    BY <1>4, SomeCall DEF CheckOrigin, Firewall, ParseBody, At, Stages
  <2>2. CASE call.stage \in {"origin", "body"}
    BY <2>1, <2>2, CountKept DEF Unthrottled
  <2>3. CASE call.stage = "firewall"
    <3>1. call' = NoCall
      BY <1>4, <2>3 DEF CheckOrigin, Firewall, ParseBody, At, Reply
    <3> QED
      BY <2>1, <3>1, CountKept DEF Unthrottled
  <2> QED
    BY <2>1, <2>2, <2>3
<1>5. CASE Authenticate \/ ResolveMembership \/ CheckRoles \/ RunPipes \/ RunHandler
  <2>1. hits' = hits /\ calls' = calls /\ call # NoCall
    BY <1>5, SomeCall DEF Authenticate, ResolveMembership, CheckRoles, RunPipes, RunHandler, At, Stages
  <2>2. call \in Calls
    BY <2>1 DEF Inv, LetThrough
  <2>3. call' = NoCall \/ call'.stage \in {"pipes", "workspace", "handler", "roles"}
    <3>1. CASE \E status : Reply(status)
      BY <3>1 DEF Reply
    <3>2. CASE \E stage \in {"pipes", "handler"} : Onward(stage)
      BY <2>2, <3>2 DEF Onward, Calls
    <3>3. CASE \E stage \in {"pipes", "workspace"} : call' = [call EXCEPT !.stage = stage, !.user = TRUE]
      BY <2>2, <3>3 DEF Calls
    <3>4. CASE \E stage \in {"pipes", "roles"} : call' = [call EXCEPT !.role = role, !.stage = stage]
      BY <2>2, <3>4 DEF Calls
    <3>5. CASE Authenticate
      <4>1. CASE call.route.guard = "public"
        BY <3>2, <3>5, <4>1 DEF Authenticate
      <4>2. CASE call.route.guard # "public" /\ session = "none"
        BY <3>1, <3>5, <4>2 DEF Authenticate
      <4>3. CASE call.route.guard = "instance" /\ session # "none"
        BY <3>1, <3>3, <3>5, <4>3 DEF Authenticate
      <4>4. CASE call.route.guard \notin {"public", "instance"} /\ session # "none"
        BY <3>3, <3>5, <4>4 DEF Authenticate
      <4> QED
        BY <4>1, <4>2, <4>3, <4>4
    <3>6. CASE ResolveMembership
      BY <3>1, <3>4, <3>6 DEF ResolveMembership, NotAMember
    <3>7. CASE CheckRoles \/ RunPipes \/ RunHandler
      BY <3>1, <3>2, <3>7 DEF CheckRoles, RunPipes, RunHandler
    <3> QED
      BY <1>5, <3>5, <3>6, <3>7
  <2> QED
    BY <2>1, <2>3, CountKept DEF Unthrottled
<1>6. CASE NextWindow
  <2>1. hits' = {} /\ calls' = calls /\ call' = call
    BY <1>6 DEF NextWindow
  <2>2. IsFiniteSet(hits') /\ Cardinality(hits') = 0
    BY <2>1, FS_EmptySet
  <2>3. Unthrottled' => calls >= 1
    <3>1. Unthrottled' = Unthrottled
      BY <2>1 DEF Unthrottled
    <3>2. Unthrottled => Cardinality(hits) <= calls - 1 /\ Cardinality(hits) \in Nat
      BY FS_CardinalityType DEF CountInv
    <3> QED
      BY <1>1, <3>1, <3>2
  <2> QED
    BY <1>1, <2>1, <2>2, <2>3 DEF CountInv
<1>7. CASE EndSession \/ ChangeMembership
  BY <1>2, <1>7 DEF EndSession, ChangeMembership, Turn
<1> QED
  BY <1>2, <1>3, <1>4, <1>5, <1>6, <1>7, ThrottleCounts DEF PipelineNext, pipelineVars

LEMMA PipelineKept == PipelineInv /\ [PipelineNext]_pipelineVars => PipelineInv'
BY NextKeeps, RestKept, CountsKept DEF PipelineInv

LEMMA PipelineStart == ASSUME PipelineInit PROVE PipelineInv
<1>1. Inv
  BY DEF PipelineInit, Inv, LetThrough
<1>2. RestInv
  <2>1. Limits["default"] \in Nat
    BY PipelineAssumption DEF LimitClasses
  <2> QED
    BY <2>1, PipelineAssumption DEF PipelineInit, RestInv
<1>3. CountInv
  BY FS_EmptySet DEF PipelineInit, CountInv, Unthrottled
<1> QED
  BY <1>1, <1>2, <1>3 DEF PipelineInv

-----------------------------------------------------------------------------
(* The way to an invitation *)

\* Whoever is after the invitation is at it, or at a form that leads to it.
OnTheWay(s) == s.at = "invite" \/ (s.at \in {"login", "register"} /\ s.next = "invite")

\* A link that was asked for at the invitation leads to it.
LinksLead == \A m \in mails : m.from = "invite" => m.callback = "invite"

InvitationInv == AuthTypeOK /\ LinksLead /\ (pursuing => OnTheWay(screen))

Nexts == Pages \cup {Elsewhere, Nothing}
Errors == Codes \cup {Nothing}
ScreenViews == {"shown", "asking", "signin", "offered", "unconfirmed", "failed", "refused", "requested"}
Screens == [at : Pages, next : Nexts, error : Errors, view : ScreenViews]
Links == [callback : {"confirm", "invite"}, from : {"register", "confirm", "invite", "deleted"}]

LEMMA ScreenTyped ==
    ASSUME NEW page \in Pages, NEW next \in Nexts, NEW error \in Errors, NEW in \in BOOLEAN
    PROVE  /\ Screen(page, next, error, in) \in Screens
           /\ Screen(page, next, error, in).at = page
           /\ Screen(page, next, error, in).next = next
<1>1. FirstView(page, in) \in ScreenViews
  BY DEF FirstView, ScreenViews
<1> QED
  BY <1>1 DEF Screen, Screens

\* Public pages are let through, and so is every page of the app for a session that is known.
LEMMA Landings ==
    ASSUME NEW path \in Pages \cup {"home"}, NEW next \in Nexts, NEW error \in Errors,
           NEW known \in BOOLEAN, NEW in \in BOOLEAN
    PROVE  /\ Land(path, next, error, known, in) \in Screens
           /\ path \in PublicPages \/ (path # "home" /\ known) =>
                 /\ Land(path, next, error, known, in).at = path
                 /\ Land(path, next, error, known, in).next = next
<1>1. CASE path = "home"
  <2>1. Land(path, next, error, known, in) = Screen(IF known THEN "dashboard" ELSE "login", next, error, in)
    BY <1>1 DEF Land, PublicPages
  <2>2. (IF known THEN "dashboard" ELSE "login") \in Pages
    BY DEF Pages, ShellPages, PublicPages
  <2>3. path \notin PublicPages
    BY <1>1 DEF PublicPages
  <2> QED
    BY <1>1, <2>1, <2>2, <2>3, ScreenTyped
<1>2. CASE path # "home" /\ (path \in PublicPages \/ known)
  <2>1. Land(path, next, error, known, in) = Screen(path, next, error, in) /\ path \in Pages
    BY <1>2 DEF Land
  <2> QED
    BY <2>1, ScreenTyped
<1>3. CASE path # "home" /\ path \notin PublicPages /\ ~known
  <2>1. Land(path, next, error, known, in) = Screen("login", path, Nothing, in) /\ path \in Pages
    BY <1>3 DEF Land
  <2>2. path \in Nexts /\ Nothing \in Errors /\ "login" \in Pages
    BY <2>1 DEF Nexts, Errors, Pages, PublicPages
  <2> QED
    BY <1>3, <2>1, <2>2, ScreenTyped
<1> QED
  BY <1>1, <1>2, <1>3

LEMMA Words ==
    /\ Nothing \in Nexts /\ Elsewhere \in Nexts /\ "invite" \in Nexts /\ Nothing \in Errors
    /\ \A c \in Codes : c \in Errors
    /\ PublicPages \subseteq Pages /\ ShellPages \subseteq Pages
    /\ {"login", "register", "confirm", "invite"} \subseteq PublicPages
    /\ {"dashboard", "board", "create"} \subseteq ShellPages
    /\ {Nothing, Elsewhere, "home"} \cap Pages = {}
  BY DEF Nexts, Elsewhere, Errors, Pages, PublicPages, ShellPages, Nothing

LEMMA TypeIs ==
    AuthTypeOK <=> /\ account \in {"none", "open", "confirmed"}
                   /\ browser \in [in : BOOLEAN, says : BOOLEAN]
                   /\ screen \in Screens /\ mails \subseteq Links
                   /\ offer \in {"pending", "accepted", "withdrawn"} /\ pursuing \in BOOLEAN
  BY DEF AuthTypeOK, Screens, ScreenViews, Links, Nexts, Errors

LEMMA SafeNextIs ==
    ASSUME NEW next
    PROVE  /\ SafeNext(next) \in Pages \cup {Nothing} /\ SafeNext(next) \in Nexts
           /\ WithNext(next) \in Nexts
           /\ AfterLogin(next) \in Pages /\ AfterRegister(next) \in Pages
           /\ next = "invite" => /\ SafeNext(next) = "invite" /\ WithNext(next) = "invite"
                                 /\ AfterLogin(next) = "invite" /\ AfterRegister(next) = "invite"
<1>1. "dashboard" \in Pages /\ "create" \in Pages /\ "invite" \in Pages /\ "invite" # Nothing
  BY DEF Pages, ShellPages, PublicPages, Nothing
<1> QED
  BY <1>1 DEF SafeNext, WithNext, AfterLogin, AfterRegister, Nexts

\* A screen whose view alone changes.
LEMMA Rerendered ==
    ASSUME NEW s \in Screens, NEW v \in ScreenViews
    PROVE  /\ [s EXCEPT !.view = v] \in Screens
           /\ [s EXCEPT !.view = v].at = s.at /\ [s EXCEPT !.view = v].next = s.next
  BY DEF Screens

\* What a step does with the page, for whoever is after the invitation.
LEMMA WayKept == ASSUME InvitationInv, AuthNext PROVE InvitationInv'
<1> USE Words
<1>1. /\ account \in {"none", "open", "confirmed"} /\ browser \in [in : BOOLEAN, says : BOOLEAN]
      /\ screen \in Screens /\ mails \subseteq Links
      /\ offer \in {"pending", "accepted", "withdrawn"} /\ pursuing \in BOOLEAN
  BY TypeIs DEF InvitationInv
<1>2. LinksLead /\ (pursuing => OnTheWay(screen)) /\ browser.in \in BOOLEAN /\ browser.says \in BOOLEAN
  BY <1>1 DEF InvitationInv
<1>3. screen.at \in Pages /\ screen.next \in Nexts /\ screen.error \in Errors /\ screen.view \in ScreenViews
  BY <1>1 DEF Screens
<1>4. pursuing => screen.at \in PublicPages \ {"confirm"} /\ screen.at \notin ShellPages
  BY <1>2 DEF OnTheWay, PublicPages, ShellPages
<1>5. ASSUME account' \in {"none", "open", "confirmed"}, browser' \in [in : BOOLEAN, says : BOOLEAN],
             screen' \in Screens, mails' \subseteq Links,
             offer' \in {"pending", "accepted", "withdrawn"}, pursuing' \in BOOLEAN,
             LinksLead', pursuing' => OnTheWay(screen')
      PROVE  InvitationInv'
  <2>1. AuthTypeOK'
    BY <1>5 DEF AuthTypeOK, Screens, ScreenViews, Links, Nexts, Errors
  <2> QED
    BY <1>5, <2>1 DEF InvitationInv, OnTheWay
<1>6. ASSUME UNCHANGED <<account, browser, mails>>, offer' \in {"pending", "accepted", "withdrawn"},
             screen' \in Screens, pursuing' \in BOOLEAN, pursuing' => OnTheWay(screen')
      PROVE  InvitationInv'
  BY <1>1, <1>2, <1>5, <1>6 DEF LinksLead
<1>7. CASE Open
  <2>1. PICK path \in {"home", "dashboard", "board", "login", "register"}, known \in {browser.in, FALSE},
             next \in {Nothing, Elsewhere} : screen' = Land(path, next, Nothing, known, browser.in)
    BY <1>7 DEF Open
  <2>2. path \in Pages \cup {"home"} /\ next \in Nexts /\ known \in BOOLEAN
    BY <1>2, <2>1
  <2>3. screen' \in Screens
    BY <1>2, <2>1, <2>2, Landings
  <2>4. UNCHANGED <<account, browser, mails, offer>> /\ pursuing' = FALSE
    BY <1>7 DEF Open
  <2> QED
    BY <1>1, <1>6, <2>3, <2>4
<1>8. CASE OpenInvitation
  <2>1. screen' = Land("invite", Nothing, Nothing, browser.in, browser.in)
    BY <1>8 DEF OpenInvitation
  <2>2. screen' \in Screens /\ screen'.at = "invite"
    BY <1>2, <2>1, Landings
  <2>3. UNCHANGED <<account, browser, mails, offer>> /\ pursuing' \in BOOLEAN
    BY <1>8 DEF OpenInvitation
  <2> QED
    BY <1>1, <1>6, <2>2, <2>3 DEF OnTheWay
<1>9. CASE Reload
  <2>1. /\ screen' = Land(screen.at, screen.next, screen.error, browser.in, browser.in)
        /\ UNCHANGED <<account, browser, mails, offer, pursuing>>
    BY <1>9 DEF Reload
  <2>2. /\ screen' \in Screens
        /\ screen.at \in PublicPages => screen'.at = screen.at /\ screen'.next = screen.next
    BY <1>2, <1>3, <2>1, Landings
  <2>3. pursuing' => OnTheWay(screen')
    BY <1>2, <1>4, <2>1, <2>2 DEF OnTheWay
  <2> QED
    BY <1>1, <1>6, <2>1, <2>2, <2>3
<1>10. CASE SessionEnds
  <2>1. /\ browser' = [in |-> FALSE, says |-> FALSE] /\ UNCHANGED <<account, mails, offer, pursuing>>
        /\ screen.at \in ShellPages => screen' = Screen("login", Nothing, Nothing, FALSE)
        /\ screen.at \notin ShellPages =>
              screen' = [screen EXCEPT !.view = IF screen.at = "invite" THEN "signin" ELSE @]
    BY <1>10 DEF SessionEnds
  <2>2. screen.at \in ShellPages => screen' \in Screens
    <3>1. "login" \in Pages /\ FALSE \in BOOLEAN
      OBVIOUS
    <3>2. Screen("login", Nothing, Nothing, FALSE) \in Screens
      BY <3>1, ScreenTyped
    <3> QED
      BY <2>1, <3>2
  <2>3. screen.at \notin ShellPages =>
           screen' \in Screens /\ screen'.at = screen.at /\ screen'.next = screen.next
    <3> DEFINE v == IF screen.at = "invite" THEN "signin" ELSE screen.view
    <3>1. v \in ScreenViews
      BY <1>3 DEF ScreenViews
    <3>2. screen.at \notin ShellPages => screen' = [screen EXCEPT !.view = v]
      BY <2>1
    <3> HIDE DEF v
    <3>3. /\ [screen EXCEPT !.view = v] \in Screens
          /\ [screen EXCEPT !.view = v].at = screen.at /\ [screen EXCEPT !.view = v].next = screen.next
      BY <1>1, <3>1, Rerendered
    <3> QED
      BY <3>2, <3>3
  <2>4. pursuing' => OnTheWay(screen')
    BY <1>2, <1>4, <2>1, <2>3 DEF OnTheWay
  <2>5. browser' \in [in : BOOLEAN, says : BOOLEAN] /\ LinksLead'
    BY <1>2, <2>1 DEF LinksLead
  <2> QED
    BY <1>1, <1>5, <2>1, <2>2, <2>3, <2>4, <2>5
<1>11. CASE SessionRefreshed
  <2>1. /\ browser' = [browser EXCEPT !.says = (account = "confirmed")]
        /\ UNCHANGED <<account, screen, mails, offer, pursuing>>
    BY <1>11 DEF SessionRefreshed
  <2>2. browser' \in [in : BOOLEAN, says : BOOLEAN] /\ LinksLead'
    BY <1>1, <1>2, <2>1 DEF LinksLead
  <2>3. pursuing' => OnTheWay(screen')
    BY <1>2, <2>1
  <2> QED
    BY <1>1, <1>5, <2>1, <2>2, <2>3
<1>12. CASE SignIn
  <2>1. /\ browser' = [in |-> TRUE, says |-> account = "confirmed"]
        /\ screen.at = "login" /\ UNCHANGED <<account, mails, offer, pursuing>>
    BY <1>12 DEF SignIn
  <2>2. PICK to \in Pages : to = AfterLogin(screen.next) /\ (screen.next = "invite" => to = "invite")
    BY SafeNextIs
  <2>3. PICK known \in BOOLEAN : screen' = Land(to, Nothing, Nothing, known, known)
    BY <1>12, <2>2 DEF SignIn
  <2>4. screen' \in Screens /\ (to = "invite" => screen'.at = "invite")
    BY <2>2, <2>3, Landings
  <2>5. pursuing' => OnTheWay(screen')
    BY <1>2, <2>1, <2>2, <2>4 DEF OnTheWay
  <2>6. browser' \in [in : BOOLEAN, says : BOOLEAN] /\ LinksLead'
    BY <1>2, <2>1 DEF LinksLead
  <2> QED
    BY <1>1, <1>5, <2>1, <2>4, <2>5, <2>6
<1>13. CASE SignUp
  <2>1. screen.at = "register" /\ UNCHANGED <<offer, pursuing>>
    BY <1>13 DEF SignUp
  <2>2. CASE account = "none"
    <3>1. /\ account' = "open" /\ browser' = [in |-> TRUE, says |-> FALSE]
          /\ mails' = mails \cup {MailedLink(Nothing, "register")}
      BY <1>13, <2>2 DEF SignUp
    <3>2. PICK to \in Pages : to = AfterRegister(screen.next) /\ (screen.next = "invite" => to = "invite")
      BY SafeNextIs
    <3>3. PICK known \in BOOLEAN : screen' = Land(to, Nothing, Nothing, known, known)
      BY <1>13, <2>2, <3>2 DEF SignUp
    <3>4. screen' \in Screens /\ (to = "invite" => screen'.at = "invite")
      BY <3>2, <3>3, Landings
    <3>5. pursuing' => OnTheWay(screen')
      BY <1>2, <2>1, <3>2, <3>4 DEF OnTheWay
    <3>6. MailedLink(Nothing, "register") = [callback |-> "confirm", from |-> "register"]
      BY DEF MailedLink, ResolveCallback
    <3>7. mails' \subseteq Links /\ LinksLead'
      BY <1>1, <1>2, <3>1, <3>6 DEF LinksLead, Links
    <3> QED
      BY <1>1, <1>5, <2>1, <3>1, <3>4, <3>5, <3>7
  <2>3. CASE account # "none"
    <3>1. screen' = [screen EXCEPT !.view = "refused"] /\ UNCHANGED <<account, browser, mails>>
      BY <1>13, <2>3 DEF SignUp
    <3>2. "refused" \in ScreenViews
      BY DEF ScreenViews
    <3>3. screen' \in Screens /\ screen'.at = screen.at /\ screen'.next = screen.next
      BY <1>1, <3>1, <3>2, Rerendered
    <3>4. pursuing' => OnTheWay(screen')
      BY <1>2, <2>1, <3>3 DEF OnTheWay
    <3> QED
      BY <1>1, <1>6, <2>1, <3>1, <3>3, <3>4
  <2> QED
    BY <2>2, <2>3
<1>14. CASE CrossOver \/ SignInFirst
  <2>1. /\ UNCHANGED <<account, browser, mails, offer, pursuing>>
        /\ \E path \in {"login", "register"}, next \in Nexts :
              /\ screen' = Land(path, next, Nothing, browser.in, browser.in)
              /\ pursuing => next = "invite"
    <3>1. CASE CrossOver
      <4>1. pursuing => screen.next = "invite"
        BY <1>2, <3>1 DEF CrossOver, OnTheWay
      <4>2. PICK next \in Nexts : next = WithNext(screen.next) /\ (screen.next = "invite" => next = "invite")
        BY SafeNextIs
      <4>3. PICK path \in {"login", "register"} : path = IF screen.at = "login" THEN "register" ELSE "login"
        OBVIOUS
      <4>4. screen' = Land(path, next, Nothing, browser.in, browser.in)
        BY <3>1, <4>2, <4>3 DEF CrossOver, Go
      <4> QED
        BY <3>1, <4>1, <4>2, <4>3, <4>4 DEF CrossOver
    <3>2. CASE SignInFirst
      <4>1. WithNext(InviteCallback) = "invite"
        BY SafeNextIs DEF InviteCallback
      <4>2. screen' = Land("login", "invite", Nothing, browser.in, browser.in)
        BY <3>2, <4>1 DEF SignInFirst, Go
      <4> QED
        BY <3>2, <4>2 DEF SignInFirst
    <3> QED
      BY <1>14, <3>1, <3>2
  <2>2. PICK path \in {"login", "register"}, next \in Nexts :
           /\ screen' = Land(path, next, Nothing, browser.in, browser.in)
           /\ pursuing => next = "invite"
    BY <2>1
  <2>3. path \in PublicPages /\ path \in Pages
    BY <2>2
  <2>4. screen' \in Screens /\ screen'.at = path /\ screen'.next = next
    BY <1>2, <2>2, <2>3, Landings
  <2>5. pursuing' => OnTheWay(screen')
    BY <2>1, <2>2, <2>4 DEF OnTheWay
  <2> QED
    BY <1>1, <1>6, <2>1, <2>4, <2>5
<1>15. CASE InvitationLoads
  <2>1. UNCHANGED <<account, browser, mails, offer, pursuing>> /\ screen.at = "invite"
    BY <1>15 DEF InvitationLoads
  <2>2. PICK v \in ScreenViews : screen' = [screen EXCEPT !.view = v]
    <3>1. "failed" \in ScreenViews /\ "offered" \in ScreenViews /\ "unconfirmed" \in ScreenViews
      BY DEF ScreenViews
    <3>2. (IF browser.says THEN "offered" ELSE "unconfirmed") \in ScreenViews
      BY <3>1
    <3> QED
      BY <1>15, <3>1, <3>2 DEF InvitationLoads
  <2>3. screen' \in Screens /\ screen'.at = "invite"
    BY <1>1, <2>1, <2>2, Rerendered
  <2> QED
    BY <1>1, <1>6, <2>1, <2>3 DEF OnTheWay
<1>16. CASE Accept
  <2>1. /\ UNCHANGED <<account, browser, mails>> /\ screen.at = "invite"
        /\ offer' \in {"pending", "accepted", "withdrawn"}
        /\ \/ pursuing' = FALSE /\ screen' = Land("dashboard", Nothing, Nothing, browser.in, browser.in)
           \/ pursuing' \in BOOLEAN /\ screen' = [screen EXCEPT !.view = "refused"]
    BY <1>1, <1>16 DEF Accept, Go
  <2>2. "refused" \in ScreenViews
    BY DEF ScreenViews
  <2>3. Land("dashboard", Nothing, Nothing, browser.in, browser.in) \in Screens
    BY <1>2, Landings
  <2>4. [screen EXCEPT !.view = "refused"] \in Screens /\ [screen EXCEPT !.view = "refused"].at = "invite"
    BY <1>1, <2>1, <2>2, Rerendered
  <2>5. screen' \in Screens /\ pursuing' \in BOOLEAN /\ (pursuing' => screen'.at = "invite")
    BY <2>1, <2>3, <2>4
  <2> QED
    BY <1>6, <2>1, <2>5 DEF OnTheWay
<1>17. CASE BackToApp
  <2>1. /\ screen' = Land("dashboard", Nothing, Nothing, browser.in, browser.in)
        /\ UNCHANGED <<account, browser, mails, offer>> /\ pursuing' = FALSE
    BY <1>17 DEF BackToApp, Go
  <2>2. screen' \in Screens
    BY <1>2, <2>1, Landings
  <2> QED
    BY <1>1, <1>6, <2>1, <2>2
<1>18. CASE Withdraw
  BY <1>1, <1>6, <1>18 DEF Withdraw
<1>19. CASE Resend
  <2>1. PICK callback \in {InviteCallback, ConfirmCallback}, from \in {"invite", "confirm"} :
           /\ mails' = mails \cup {MailedLink(callback, from)}
           /\ from = "invite" => callback = InviteCallback
    BY <1>19 DEF Resend
  <2>2. UNCHANGED <<account, browser, screen, offer, pursuing>>
    BY <1>19 DEF Resend
  <2>3. MailedLink(callback, from) = [callback |-> callback, from |-> from]
    BY DEF MailedLink, ResolveCallback, InviteCallback, ConfirmCallback, Nothing
  <2>4. mails' \subseteq Links /\ LinksLead'
    BY <1>1, <1>2, <2>1, <2>3 DEF LinksLead, Links, InviteCallback, ConfirmCallback
  <2>5. pursuing' => OnTheWay(screen')
    BY <1>2, <2>2
  <2> QED
    BY <1>1, <1>5, <2>2, <2>4, <2>5
<1>20. CASE OpenLink
  <2>1. PICK m \in mails, code \in {Nothing} \cup Codes :
           /\ account' = IF code = Nothing THEN "confirmed" ELSE account
           /\ browser' = IF code = Nothing /\ account = "open"
                         THEN [in |-> TRUE, says |-> TRUE] ELSE browser
           /\ screen' = Land(m.callback, Nothing, code, browser'.in, browser'.in)
           /\ mails' = mails \ {m} /\ pursuing' = (pursuing /\ m.from = "invite")
           /\ UNCHANGED offer
    BY <1>20 DEF OpenLink
  <2>2. account' \in {"none", "open", "confirmed"} /\ browser' \in [in : BOOLEAN, says : BOOLEAN]
    BY <1>1, <2>1
  <2>3. browser'.in \in BOOLEAN
    BY <2>2
  <2>4. m.callback \in {"confirm", "invite"} /\ (m.from = "invite" => m.callback = "invite")
    BY <1>1, <1>2, <2>1 DEF LinksLead, Links
  <2>5. m.callback \in PublicPages /\ m.callback \in Pages /\ code \in Errors
    BY <2>1, <2>4
  <2>6. screen' \in Screens /\ screen'.at = m.callback
    <3>1. PICK page \in Pages, in \in BOOLEAN : page = m.callback /\ in = browser'.in
      BY <2>3, <2>5
    <3>2. screen' = Land(page, Nothing, code, in, in) /\ page \in PublicPages
      BY <2>1, <2>5, <3>1
    <3>3. screen' \in Screens /\ screen'.at = page
      BY <2>5, <3>2, Landings
    <3> QED
      BY <3>1, <3>3
  <2>7. pursuing' \in BOOLEAN /\ (pursuing' => OnTheWay(screen'))
    BY <1>1, <2>1, <2>4, <2>6 DEF OnTheWay
  <2>8. mails' \subseteq Links /\ LinksLead'
    BY <1>1, <1>2, <2>1 DEF LinksLead
  <2> QED
    BY <1>1, <1>5, <2>1, <2>2, <2>6, <2>7, <2>8
<1>21. CASE OpenLinkElsewhere
  <2>1. /\ mails' \subseteq mails /\ UNCHANGED <<browser, screen, offer, pursuing>>
        /\ account' = "confirmed"
    BY <1>21 DEF OpenLinkElsewhere
  <2>2. mails' \subseteq Links /\ LinksLead'
    BY <1>1, <1>2, <2>1 DEF LinksLead
  <2>3. pursuing' => OnTheWay(screen')
    BY <1>2, <2>1
  <2> QED
    BY <1>1, <1>5, <2>1, <2>2, <2>3
<1>22. CASE LeaveConfirm
  <2>1. screen.at = "confirm" /\ UNCHANGED <<account, browser, mails, offer, pursuing>>
    BY <1>22 DEF LeaveConfirm
  <2>2. PICK path \in {"dashboard", "login", "register"} :
           screen' = Land(path, Nothing, Nothing, browser.in, browser.in)
    BY <1>22 DEF LeaveConfirm, Go
  <2>3. screen' \in Screens
    BY <1>2, <2>2, Landings
  <2>4. ~pursuing'
    BY <1>4, <2>1
  <2> QED
    BY <1>1, <1>6, <2>1, <2>3, <2>4
<1>23. CASE AskToConfirm
  <2>1. /\ screen.at \in ShellPages /\ UNCHANGED <<account, browser, mails, offer, pursuing>>
        /\ screen' = [Land("confirm", Nothing, Nothing, TRUE, TRUE) EXCEPT !.view = "requested"]
    BY <1>23 DEF AskToConfirm
  <2>2. Land("confirm", Nothing, Nothing, TRUE, TRUE) \in Screens /\ "requested" \in ScreenViews
    BY Landings DEF ScreenViews
  <2>3. screen' \in Screens
    BY <2>1, <2>2, Rerendered
  <2>4. ~pursuing'
    BY <1>4, <2>1
  <2> QED
    BY <1>1, <1>6, <2>1, <2>3, <2>4
<1>24. CASE SignOut
  <2>1. /\ screen.at \in ShellPages /\ UNCHANGED <<account, mails, offer, pursuing>>
        /\ browser' = [in |-> FALSE, says |-> FALSE]
        /\ screen' = Land("login", Nothing, Nothing, FALSE, FALSE)
    BY <1>24 DEF SignOut
  <2>2. screen' \in Screens
    BY <2>1, Landings
  <2>3. ~pursuing' /\ browser' \in [in : BOOLEAN, says : BOOLEAN] /\ LinksLead'
    BY <1>2, <1>4, <2>1 DEF LinksLead
  <2> QED
    BY <1>1, <1>5, <2>1, <2>2, <2>3
<1> QED
  BY <1>7, <1>8, <1>9, <1>10, <1>11, <1>12, <1>13, <1>14, <1>15, <1>16, <1>17, <1>18, <1>19, <1>20,
     <1>21, <1>22, <1>23, <1>24 DEF AuthNext

LEMMA AuthStart == ASSUME AuthInit PROVE InvitationInv
<1>1. screen \in Screens
  BY ScreenTyped, Words DEF AuthInit
<1>2. MailedLink(Nothing, "deleted") = [callback |-> "confirm", from |-> "deleted"]
  BY DEF MailedLink, ResolveCallback
<1>3. mails \subseteq Links /\ LinksLead
  BY <1>2 DEF AuthInit, Links, LinksLead
<1>4. AuthTypeOK
  BY <1>1, <1>3, TypeIs DEF AuthInit
<1> QED
  BY <1>3, <1>4 DEF InvitationInv, AuthInit

LEMMA AuthKept == InvitationInv /\ [AuthNext]_authVars => InvitationInv'
<1>1. InvitationInv /\ UNCHANGED authVars => InvitationInv'
  BY DEF InvitationInv, authVars, OnTheWay, LinksLead, AuthTypeOK
<1> QED
  BY <1>1, WayKept

(***************************************************************************)
(* However an invitee goes from form to form, signs in or up, confirms the  *)
(* address, reloads, and loses the session on the way: unless they turn     *)
(* elsewhere they are at the invitation, or at a form that takes them to    *)
(* it.                                                                      *)
(***************************************************************************)
THEOREM InvitationStays == AuthSpec => []InvitationNotLost
<1>1. InvitationInv => InvitationNotLost
  BY SafeNextIs DEF InvitationInv, InvitationNotLost, OnTheWay
<1> QED
  BY <1>1, AuthStart, AuthKept, PTL DEF AuthSpec

-----------------------------------------------------------------------------
(* The list of invitations, and the workspace it is shown for *)

Places == Spaces \cup {NoSpace}
SeatKinds == {"OWNER", "MEMBER", "NONE", "UNBORN"}
Tabs == [in : BOOLEAN, known : Places, heard : BOOLEAN, spaces : SUBSET Spaces, space : Places,
         role : Roles, loading : BOOLEAN, failed : BOOLEAN, at : {"app", "create", "login"},
         going : BOOLEAN]
Boots == [step : {"none", "list", "enter", "role"}, spaces : SUBSET Spaces, space : Places]
Moves == [gen : 1..MaxSwitches, space : Spaces, step : {"enter", "role"}]
Errands == [kind : {"none", "create", "leave", "delete"}, space : Places]
Rosters == [space : Places, manage : BOOLEAN,
            state : {"unmounted", "loading", "shown", "failed"}, queue : SUBSET Spaces]

Mounted == roster.state # "unmounted"
Awaited(s) == s \in DOMAIN invites /\ invites[s]

\* The members screen is there with the pages only, and is about what the tab says.
ScreenInv ==
    /\ Mounted => /\ PagesUp(tab) /\ tab.at = "app"
                  /\ roster.space = tab.space /\ roster.manage = CanManage(tab.role)
    /\ roster.state \in {"shown", "failed"} => roster.space # NoSpace
    /\ ~Mounted => roster.queue = {} /\ \A s \in Spaces : ~Awaited(s)

\* The pages are down during a bootstrap, and a session that ended is noticed.
BootInv ==
    /\ boot.step # "none" => tab.loading \/ ~tab.in
    /\ boot.step \in {"enter", "role"} => boot.space # NoSpace
    /\ ~cookie.in => tab.heard \/ ~tab.in

\* A workspace that was listed exists.
BornInv ==
    /\ \A s \in tab.spaces \cup boot.spaces : seats[s] # "UNBORN"
    /\ \A w \in switches : seats[w.space] # "UNBORN"

SwitchInv ==
    /\ \A w \in switches : w.gen =< latest
    /\ \A w, x \in switches : w.gen = x.gen => w = x

\* What is, or will be, in the list although it is another workspace's.
Stray(s) == s # tab.space /\ (s \in roster.queue \/ Awaited(s))

\* While there is such a thing the session is about to be read again, which takes the pages
\* down; or the latest switch has yet to be taken or refused; or it was refused, and whoever
\* has no role is no manager.
Unsettled ==
    \/ tab.heard
    \/ \E w \in switches : /\ IsLatest(w) /\ w.space = tab.space
                           /\ w.step = "enter" \/ ~HasSeat(w.space)
    \/ ~CanManage(tab.role) /\ \A w \in switches : ~IsLatest(w)

StrayInv == (\E s \in Spaces : Stray(s)) => Unsettled

ShellInv == ShellTypeOK /\ ScreenInv /\ BootInv /\ BornInv /\ SwitchInv /\ StrayInv

LEMMA ShellTypeIs ==
    ShellTypeOK <=>
      /\ seats \in [Spaces -> SeatKinds] /\ invited \subseteq Spaces
      /\ cookie \in [in : BOOLEAN, space : Places] /\ tab \in Tabs /\ boot \in Boots
      /\ switches \subseteq Moves /\ latest \in 0..MaxSwitches /\ errand \in Errands
      /\ roster \in Rosters /\ \E S \in SUBSET Spaces : invites \in [S -> BOOLEAN]
  BY DEF ShellTypeOK, Places, SeatKinds, Tabs, Boots, Moves, Errands, Rosters

LEMMA ShellTyped ==
    ASSUME ShellTypeOK
    PROVE  /\ seats \in [Spaces -> SeatKinds] /\ invited \subseteq Spaces
           /\ cookie \in [in : BOOLEAN, space : Places] /\ tab \in Tabs /\ boot \in Boots
           /\ switches \subseteq Moves /\ latest \in 0..MaxSwitches /\ errand \in Errands
           /\ roster \in Rosters /\ DOMAIN invites \subseteq Spaces
           /\ invites = [s \in DOMAIN invites |-> invites[s]]
           /\ \A s \in DOMAIN invites : invites[s] \in BOOLEAN
  BY ShellTypeIs

\* A tab and its fields.
LEMMA TabIs ==
    ASSUME NEW t \in Tabs
    PROVE  /\ t.in \in BOOLEAN /\ t.known \in Places /\ t.heard \in BOOLEAN
           /\ t.spaces \subseteq Spaces /\ t.space \in Places /\ t.role \in Roles
           /\ t.loading \in BOOLEAN /\ t.failed \in BOOLEAN
           /\ t.at \in {"app", "create", "login"} /\ t.going \in BOOLEAN
  BY DEF Tabs

\* The same but for the page.
SameBut(t, u) ==
    /\ u.in = t.in /\ u.known = t.known /\ u.heard = t.heard /\ u.spaces = t.spaces
    /\ u.space = t.space /\ u.role = t.role /\ u.loading = t.loading /\ u.failed = t.failed

LEMMA PlacedIs ==
    ASSUME NEW t \in Tabs
    PROVE  /\ Placed(t) \in Tabs /\ SameBut(t, Placed(t))
           /\ Placed(t).at = "app" => t.at = "app" /\ (PagesUp(t) => t.spaces # {})
  BY DEF Placed, Tabs, SameBut

LEMMA RosterIs ==
    ASSUME ShellTypeOK, ScreenInv, NEW t \in Tabs
    PROVE  /\ Roster(t) \in Rosters /\ Roster(t).queue \subseteq roster.queue
           /\ Roster(t).state = "unmounted" => Roster(t).queue = {}
           /\ Roster(t).state # "unmounted" =>
                 /\ PagesUp(t) /\ t.at = "app"
                 /\ Roster(t).space = t.space /\ Roster(t).manage = CanManage(t.role)
           /\ Roster(t).state \in {"shown", "failed"} => Roster(t).space # NoSpace
<1>1. roster \in Rosters /\ t.space \in Places /\ CanManage(t.role) \in BOOLEAN
  BY ShellTyped, TabIs DEF CanManage
<1>2. CASE ~PagesUp(t) \/ t.at # "app"
  <2>1. Roster(t) = NoRoster
    BY <1>2 DEF Roster
  <2>2. NoRoster \in Rosters /\ NoRoster.queue = {} /\ NoRoster.state = "unmounted"
    BY DEF NoRoster, Rosters, Places
  <2> QED
    BY <2>1, <2>2
<1>3. CASE PagesUp(t) /\ t.at = "app"
  <2>1. CASE roster.state # "unmounted" /\ roster.space = t.space /\ roster.manage = CanManage(t.role)
    <3>1. Roster(t) = roster
      BY <1>3, <2>1 DEF Roster
    <3> QED
      BY <1>1, <1>3, <2>1, <3>1 DEF ScreenInv
  <2>2. CASE ~(roster.state # "unmounted" /\ roster.space = t.space /\ roster.manage = CanManage(t.role))
    <3> DEFINE r == [space |-> t.space, manage |-> CanManage(t.role), state |-> "loading",
                     queue |-> roster.queue]
    <3>1. Roster(t) = r
      BY <1>3, <2>2 DEF Roster
    <3>2. r \in Rosters /\ r.queue = roster.queue /\ r.state = "loading" /\ r.space = t.space
          /\ r.manage = CanManage(t.role)
      BY <1>1 DEF Rosters
    <3> HIDE DEF r
    <3> QED
      BY <1>3, <3>1, <3>2
  <2> QED
    BY <2>1, <2>2
<1> QED
  BY <1>2, <1>3

\* What a new state of the tab brings with it.
LEMMA ShowIs ==
    ASSUME ShellTypeOK, ScreenInv, NEW t \in Tabs, Show(t)
    PROVE  /\ tab' \in Tabs /\ SameBut(t, tab') /\ roster' \in Rosters
           /\ tab'.at = "app" => t.at = "app" /\ (PagesUp(t) => t.spaces # {})
           /\ ScreenInv' /\ \E S \in SUBSET Spaces : invites' \in [S -> BOOLEAN]
           /\ \A s \in Spaces : s # t.space /\ Stray(s)' => s \in roster.queue \/ Awaited(s)
           /\ (~Mounted \/ ~PagesUp(t) \/ t.at # "app" \/ t.spaces = {}) => \A s \in Spaces : ~Stray(s)'
<1>1. /\ tab' = Placed(t) /\ roster' = Roster(tab')
      /\ invites' = IF roster'.state = "unmounted" THEN [w \in DOMAIN invites |-> FALSE] ELSE invites
  BY DEF Show
<1>2. /\ tab' \in Tabs /\ SameBut(t, tab')
      /\ tab'.at = "app" => t.at = "app" /\ (PagesUp(t) => t.spaces # {})
  BY <1>1, PlacedIs
<1>3. PICK u \in Tabs : u = tab'
  BY <1>2
<1>4. roster' = Roster(u)
  BY <1>1, <1>3
<1>5. /\ roster' \in Rosters /\ roster'.queue \subseteq roster.queue
      /\ roster'.state = "unmounted" => roster'.queue = {}
      /\ roster'.state # "unmounted" =>
            /\ PagesUp(u) /\ u.at = "app"
            /\ roster'.space = u.space /\ roster'.manage = CanManage(u.role)
      /\ roster'.state \in {"shown", "failed"} => roster'.space # NoSpace
  BY <1>3, <1>4, RosterIs
<1>6. /\ DOMAIN invites \subseteq Spaces /\ \A s \in DOMAIN invites : invites[s] \in BOOLEAN
      /\ invites = [s \in DOMAIN invites |-> invites[s]]
  BY ShellTyped
<1>7. /\ DOMAIN invites' = DOMAIN invites /\ invites' \in [DOMAIN invites -> BOOLEAN]
      /\ \A s \in DOMAIN invites : invites'[s] => invites[s] /\ roster'.state # "unmounted"
  BY <1>1, <1>6
<1>8. \A s \in Spaces : Awaited(s)' => Awaited(s) /\ roster'.state # "unmounted"
  BY <1>7 DEF Awaited
<1>9. PagesUp(u) => PagesUp(tab')
  BY <1>3
<1>10. ScreenInv'
  BY <1>3, <1>5, <1>8 DEF ScreenInv, Mounted, PagesUp, CanManage
<1>11. \A s \in Spaces : Stray(s)' => s # tab'.space /\ (s \in roster.queue \/ Awaited(s))
  BY <1>5, <1>8 DEF Stray
<1>12. ASSUME ~Mounted \/ ~PagesUp(t) \/ t.at # "app" \/ t.spaces = {}
       PROVE  \A s \in Spaces : ~Stray(s)'
  <2>1. CASE ~Mounted
    BY <1>11, <2>1 DEF ScreenInv
  <2>2. CASE ~PagesUp(t) \/ t.at # "app" \/ t.spaces = {}
    <3>1. ~(PagesUp(u) /\ u.at = "app")
      BY <1>2, <1>3, <2>2 DEF SameBut, PagesUp
    <3>2. roster'.state = "unmounted"
      BY <1>5, <3>1
    <3> QED
      BY <1>5, <1>8, <3>2 DEF Stray
  <2> QED
    BY <1>12, <2>1, <2>2
<1> QED
  BY <1>2, <1>5, <1>7, <1>6, <1>10, <1>11, <1>12 DEF SameBut

\* A set of workspaces has a first one.
LEMMA LeastThere ==
    ASSUME NEW S, S \subseteq Nat, S # {}
    PROVE  \E s \in S : \A u \in S : s =< u
<1> DEFINE R == OpToRel(<, Nat)
<1>1. IsWellFoundedOn(R, Nat)
  BY NatLessThanWellFounded, Zenon
<1>2. \A m, n \in Nat : m < n => <<m, n>> \in R
  BY DEF OpToRel
<1> HIDE DEF R
<1>3. PICK s \in S : \A u \in S : ~(<<u, s>> \in R)
  BY <1>1, WFMin
<1>4. ASSUME NEW u \in S PROVE s =< u
  <2>1. ~(u < s)
    BY <1>2, <1>3
  <2> QED
    BY <2>1
<1> QED
  BY <1>4

LEMMA LeastOf ==
    ASSUME NEW S, S \subseteq Nat, S # {}
    PROVE  (CHOOSE s \in S : \A u \in S : s =< u) \in S
BY LeastThere

\* Nobody gets a seat back, and no workspace is unmade.
Aging ==
    /\ seats' \in [Spaces -> SeatKinds]
    /\ \A s \in Spaces : seats[s] # "UNBORN" =>
          seats'[s] # "UNBORN" /\ (seats'[s] \in {"OWNER", "MEMBER"} => HasSeat(s))

LEMMA AgedAlike == ASSUME ShellTypeOK, seats' = seats PROVE Aging
  BY ShellTyped DEF Aging, HasSeat

LEMMA BornKept ==
    ASSUME ShellInv, Aging, tab'.spaces \cup boot'.spaces \subseteq tab.spaces \cup boot.spaces,
           \A w \in switches' : w.space \in tab.spaces \/ \E x \in switches : x.space = w.space
    PROVE  BornInv'
<1>1. tab.spaces \cup boot.spaces \subseteq Spaces /\ \A w \in switches : w.space \in Spaces
  BY ShellTyped DEF ShellInv, Tabs, Boots, Moves
<1> QED
  BY <1>1 DEF ShellInv, BornInv, Aging

\* A step of which the list, the workspace and the switches know nothing.
LEMMA StraysKept ==
    ASSUME ShellInv, Aging, \A s \in Spaces : Stray(s)' => Stray(s),
           UNCHANGED <<switches, latest>>, tab'.space = tab.space, tab'.role = tab.role,
           tab.heard => tab'.heard
    PROVE  StrayInv'
<1> SUFFICES ASSUME Unsettled PROVE Unsettled'
  BY DEF ShellInv, StrayInv
<1>1. CASE tab.heard
  BY <1>1 DEF Unsettled
<1>2. ASSUME NEW w \in switches, IsLatest(w), w.space = tab.space, w.step = "enter" \/ ~HasSeat(w.space)
      PROVE  Unsettled'
  <2>1. w.space \in Spaces /\ seats[w.space] # "UNBORN"
    BY ShellTyped DEF ShellInv, BornInv, Moves
  <2>2. ~HasSeat(w.space) => ~(seats'[w.space] \in {"OWNER", "MEMBER"})
    BY <2>1 DEF Aging
  <2> QED
    BY <1>2, <2>2 DEF Unsettled, IsLatest, HasSeat
<1>3. CASE ~CanManage(tab.role) /\ \A w \in switches : ~IsLatest(w)
  BY <1>3 DEF Unsettled, IsLatest, CanManage
<1> QED
  BY <1>1, <1>2, <1>3 DEF Unsettled

\* The parts of the invariant together.
LEMMA ShellInvFrom ==
    ASSUME /\ seats' \in [Spaces -> SeatKinds] /\ invited' \subseteq Spaces
           /\ cookie' \in [in : BOOLEAN, space : Places] /\ tab' \in Tabs /\ boot' \in Boots
           /\ switches' \subseteq Moves /\ latest' \in 0..MaxSwitches /\ errand' \in Errands
           /\ roster' \in Rosters /\ \E S \in SUBSET Spaces : invites' \in [S -> BOOLEAN],
           ScreenInv', BootInv', BornInv', SwitchInv', StrayInv'
    PROVE  ShellInv'
<1>1. ShellTypeOK'
  BY DEF ShellTypeOK, Places, SeatKinds, Tabs, Boots, Moves, Errands, Rosters
<1> QED
  BY <1>1 DEF ShellInv

LEMMA InvitesTyped == ASSUME ShellTypeOK PROVE \E S \in SUBSET Spaces : invites \in [S -> BOOLEAN]
  BY ShellTypeIs

\* The session is read, and the bootstrap goes on.
LEMMA BootsKeep ==
    ASSUME ShellInv, SessionRead \/ ListSpaces \/ ReadRole \/ BootFails \/ RetryBootstrap
    PROVE  ShellInv'
<1>1. /\ seats \in [Spaces -> SeatKinds] /\ invited \subseteq Spaces
      /\ cookie \in [in : BOOLEAN, space : Places] /\ tab \in Tabs /\ boot \in Boots
      /\ switches \subseteq Moves /\ latest \in 0..MaxSwitches /\ errand \in Errands
      /\ roster \in Rosters
  BY ShellTyped DEF ShellInv
<1>2. UNCHANGED <<seats, invited, cookie, switches, latest, errand>>
  BY DEF SessionRead, ListSpaces, ReadRole, BootFails, RetryBootstrap
<1>3. SwitchInv' /\ Aging
  BY <1>2, AgedAlike DEF ShellInv, SwitchInv
<1>4. NoBoot \in Boots /\ [NoBoot EXCEPT !.step = "list"] \in Boots
      /\ NoBoot.spaces = {} /\ [NoBoot EXCEPT !.step = "list"].spaces = {}
      /\ NoBoot.step = "none" /\ [NoBoot EXCEPT !.step = "list"].step = "list"
  BY DEF NoBoot, Boots, Places
<1>5. ASSUME NEW t \in Tabs, Show(t), boot' \in Boots,
             t.spaces \cup boot'.spaces \subseteq tab.spaces \cup boot.spaces,
             ~Mounted \/ ~PagesUp(t) \/ t.at # "app" \/ t.spaces = {},
             boot'.step # "none" => boot'.step = "list" /\ t.loading,
             ~cookie.in => t.heard \/ ~t.in
      PROVE  ShellInv'
  <2>1. /\ tab' \in Tabs /\ SameBut(t, tab') /\ roster' \in Rosters /\ ScreenInv'
        /\ \E S \in SUBSET Spaces : invites' \in [S -> BOOLEAN]
        /\ \A s \in Spaces : ~Stray(s)'
    BY <1>5, ShowIs DEF ShellInv
  <2>2. BootInv'
    BY <1>2, <1>5, <2>1 DEF BootInv, SameBut
  <2>3. BornInv'
    <3>1. \A w \in switches' : \E x \in switches : x.space = w.space
      BY <1>2
    <3>2. tab'.spaces \cup boot'.spaces \subseteq tab.spaces \cup boot.spaces
      BY <1>5, <2>1 DEF SameBut
    <3> QED
      BY <1>3, <3>1, <3>2, BornKept
  <2>4. StrayInv'
    BY <2>1 DEF StrayInv
  <2> QED
    BY <1>1, <1>2, <1>3, <1>5, <2>1, <2>2, <2>3, <2>4, ShellInvFrom
<1>6. CASE SessionRead
  <2> DEFINE t == [tab EXCEPT !.heard = FALSE, !.in = cookie.in, !.known = cookie.space]
  <2>1. t \in Tabs /\ t.spaces = tab.spaces /\ t.in = cookie.in
    BY <1>1 DEF Tabs
  <2>2. CASE cookie.in
    <3> DEFINE u == Bootstrapping(t)
    <3>1. Show(u) /\ boot' = [NoBoot EXCEPT !.step = "list"]
      BY <1>6, <2>2 DEF SessionRead, StartBoot
    <3>2. u \in Tabs /\ u.loading /\ u.spaces = tab.spaces
      BY <2>1 DEF Bootstrapping, Tabs
    <3>3. ~PagesUp(u)
      BY <3>2 DEF PagesUp
    <3> HIDE DEF u, t
    <3> QED
      BY <1>4, <1>5, <2>2, <3>1, <3>2, <3>3
  <2>3. CASE ~cookie.in
    <3> DEFINE u == [t EXCEPT !.at = "login"]
    <3>1. Show(u) /\ boot' = NoBoot
      BY <1>6, <2>3 DEF SessionRead
    <3>2. u \in Tabs /\ ~u.in /\ u.spaces = tab.spaces
      BY <2>1, <2>3 DEF Tabs
    <3>3. ~PagesUp(u)
      BY <3>2 DEF PagesUp
    <3> HIDE DEF u, t
    <3> QED
      BY <1>4, <1>5, <3>1, <3>2, <3>3
  <2> QED
    BY <2>2, <2>3
<1>7. ASSUME NEW t \in Tabs, t.in = tab.in, t.heard = tab.heard
      PROVE  ~cookie.in => t.heard \/ ~t.in
  BY <1>7 DEF ShellInv, BootInv
<1>8. Emptied(tab) \in Tabs /\ Emptied(tab).spaces = {} /\ Emptied(tab).in = tab.in
      /\ Emptied(tab).heard = tab.heard
  BY <1>1 DEF Emptied, Tabs, NoRole, Roles, Places
<1>9. CASE ListSpaces
  <2>1. CASE Listed = {}
    <3>1. boot' = NoBoot /\ Show(Emptied(tab))
      BY <1>9, <2>1 DEF ListSpaces
    <3>2. PICK t \in Tabs : t = Emptied(tab)
      BY <1>8
    <3>3. Show(t)
      BY <3>1, <3>2
    <3> QED
      BY <1>4, <1>5, <1>7, <1>8, <3>1, <3>2, <3>3
  <2>2. CASE Listed # {}
    <3> DEFINE s == IF tab.known = NoSpace THEN FirstOf(Listed) ELSE tab.known
    <3>1. /\ boot' = [step |-> IF s = tab.known THEN "role" ELSE "enter", spaces |-> Listed, space |-> s]
          /\ UNCHANGED <<tab, roster, invites>> /\ boot.step = "list"
      BY <1>9, <2>2 DEF ListSpaces
    <3>2. Listed \subseteq Spaces /\ Listed \subseteq Nat
      BY SpacesAssumption DEF Listed
    <3>3. FirstOf(Listed) \in Listed
      BY <2>2, <3>2, LeastOf DEF FirstOf
    <3>4. s \in Spaces /\ s # NoSpace
      <4>1. \A p \in Spaces : p # NoSpace
        BY SpacesAssumption DEF NoSpace
      <4> QED
        BY <1>1, <3>2, <3>3, <4>1, TabIs DEF Places
    <3> HIDE DEF s
    <3>5. boot' \in Boots /\ boot'.space = s /\ boot'.spaces = Listed
      BY <3>1, <3>2, <3>4 DEF Boots, Places
    <3>6. BootInv'
      BY <1>2, <3>1, <3>4, <3>5 DEF ShellInv, BootInv
    <3>7. BornInv'
      <4>1. \A p \in Listed : seats[p] # "UNBORN"
        BY DEF Listed, HasSeat
      <4> QED
        BY <1>2, <3>1, <3>5, <4>1 DEF ShellInv, BornInv
    <3>8. ScreenInv' /\ StrayInv'
      <4>1. \A p \in Spaces : Stray(p)' => Stray(p)
        BY <3>1 DEF Stray, Awaited
      <4>2. StrayInv'
        BY <1>2, <1>3, <3>1, <4>1, StraysKept
      <4> QED
        BY <3>1, <4>2 DEF ShellInv, ScreenInv, Mounted, Awaited
    <3> QED
      BY <1>1, <1>2, <1>3, <3>1, <3>5, <3>6, <3>7, <3>8, InvitesTyped, ShellInvFrom DEF ShellInv
  <2> QED
    BY <2>1, <2>2
<1>10. CASE ReadRole
  <2> DEFINE t == [tab EXCEPT !.spaces = boot.spaces, !.space = boot.space, !.role = RoleIn(boot.space),
                              !.loading = FALSE]
  <2>1. boot' = NoBoot /\ Show(t) /\ boot.step = "role" /\ HasSeat(boot.space)
    BY <1>10 DEF ReadRole
  <2>2. boot.spaces \subseteq Spaces /\ boot.space \in Places
    BY <1>1 DEF Boots
  <2>3. RoleIn(boot.space) \in Roles
    BY <2>1, <2>2 DEF RoleIn, Roles, HasSeat, Places
  <2>4. t \in Tabs /\ t.spaces = boot.spaces /\ t.in = tab.in /\ t.heard = tab.heard
    BY <1>1, <2>2, <2>3 DEF Tabs
  <2>5. ~Mounted \/ ~PagesUp(t)
    BY <2>1, <2>4 DEF ShellInv, ScreenInv, BootInv, PagesUp
  <2> HIDE DEF t
  <2> QED
    BY <1>4, <1>5, <1>7, <2>1, <2>4, <2>5
<1>11. CASE BootFails
  <2> DEFINE t == [Emptied(tab) EXCEPT !.failed = TRUE]
  <2>1. boot' = NoBoot /\ Show(t)
    BY <1>11 DEF BootFails
  <2>2. t \in Tabs /\ t.spaces = {} /\ t.in = tab.in /\ t.heard = tab.heard
    BY <1>8 DEF Tabs
  <2> HIDE DEF t
  <2> QED
    BY <1>4, <1>5, <1>7, <2>1, <2>2
<1>12. CASE RetryBootstrap
  <2> DEFINE t == Bootstrapping(tab)
  <2>1. boot' = [NoBoot EXCEPT !.step = "list"] /\ Show(t)
    BY <1>12 DEF RetryBootstrap, StartBoot
  <2>2. t \in Tabs /\ t.spaces = tab.spaces /\ t.loading /\ t.in = tab.in /\ t.heard = tab.heard
    BY <1>1 DEF Bootstrapping, Tabs
  <2>3. ~PagesUp(t)
    BY <2>2 DEF PagesUp
  <2> HIDE DEF t
  <2> QED
    BY <1>4, <1>5, <1>7, <2>1, <2>2, <2>3
<1> QED
  BY <1>6, <1>9, <1>10, <1>11, <1>12

\* A switch: to another workspace, its call, and the role it brings.
LEMMA SwitchesKeep ==
    ASSUME ShellInv, OnSwitch \/ SwitchEnters \/ SwitchReadsRole
    PROVE  ShellInv'
<1>1. /\ seats \in [Spaces -> SeatKinds] /\ invited \subseteq Spaces
      /\ cookie \in [in : BOOLEAN, space : Places] /\ tab \in Tabs /\ boot \in Boots
      /\ switches \subseteq Moves /\ latest \in 0..MaxSwitches /\ errand \in Errands
      /\ roster \in Rosters
  BY ShellTyped DEF ShellInv
<1>2. UNCHANGED <<seats, invited, boot, errand>> /\ Aging
  BY AgedAlike DEF OnSwitch, SwitchEnters, SwitchReadsRole, ShellInv
<1>3. CASE OnSwitch
  <2>1. PICK s \in tab.spaces \ {tab.space} :
           /\ latest < MaxSwitches /\ latest' = latest + 1
           /\ switches' = switches \cup {[gen |-> latest', space |-> s, step |-> "enter"]}
           /\ Show([tab EXCEPT !.space = s]) /\ cookie' = cookie
    BY <1>3 DEF OnSwitch
  <2> DEFINE t == [tab EXCEPT !.space = s]
             w == [gen |-> latest + 1, space |-> s, step |-> "enter"]
  <2>2. s \in Spaces /\ latest + 1 \in 1..MaxSwitches /\ latest \in Int /\ latest' \in 0..MaxSwitches
    BY <1>1, <2>1, TabIs, SwitchesAssumption
  <2>3. w \in Moves /\ w.gen = latest + 1 /\ w.space = s /\ w.step = "enter"
    BY <2>2 DEF Moves
  <2>4. t \in Tabs /\ t.in = tab.in /\ t.heard = tab.heard /\ t.loading = tab.loading
        /\ t.spaces = tab.spaces /\ t.space = s
    BY <1>1, <2>2 DEF Tabs, Places
  <2>5. Show(t) /\ switches' = switches \cup {w}
    BY <2>1
  <2> HIDE DEF t, w
  <2>6. /\ tab' \in Tabs /\ SameBut(t, tab') /\ roster' \in Rosters /\ ScreenInv'
        /\ \E S \in SUBSET Spaces : invites' \in [S -> BOOLEAN]
    BY <2>4, <2>5, ShowIs DEF ShellInv
  <2>7. BootInv'
    BY <1>2, <2>1, <2>4, <2>6 DEF ShellInv, BootInv, SameBut
  <2>8. BornInv'
    <3>1. tab'.spaces = tab.spaces
      BY <2>4, <2>6 DEF SameBut
    <3>2. \A x \in switches' : x.space \in tab.spaces \/ \E y \in switches : y.space = x.space
      BY <2>1, <2>3, <2>5
    <3> QED
      BY <1>2, <3>1, <3>2, BornKept
  <2>9. SwitchInv'
    <3>1. \A x \in switches : x.gen \in Int /\ x.gen =< latest
      BY <1>1 DEF ShellInv, SwitchInv, Moves
    <3> QED
      BY <2>1, <2>2, <2>3, <2>5, <3>1 DEF ShellInv, SwitchInv
  <2>10. StrayInv'
    BY <2>1, <2>3, <2>4, <2>5, <2>6 DEF StrayInv, Unsettled, IsLatest, SameBut
  <2>11. switches' \subseteq Moves
    BY <1>1, <2>3, <2>5
  <2> QED
    BY <1>1, <1>2, <2>1, <2>2, <2>6, <2>7, <2>8, <2>9, <2>10, <2>11, ShellInvFrom
<1>4. CASE SwitchEnters
  <2>1. PICK w \in switches :
           /\ cookie' = IF Enters(w.space) THEN [cookie EXCEPT !.space = w.space] ELSE cookie
           /\ tab' = IF Enters(w.space) THEN [tab EXCEPT !.heard = TRUE] ELSE tab
           /\ switches' = (switches \ {w}) \cup {[w EXCEPT !.step = "role"]}
           /\ UNCHANGED <<latest, roster, invites>>
    BY <1>4 DEF SwitchEnters, SetActive, AfterSetActive, Heard
  <2> DEFINE v == [w EXCEPT !.step = "role"]
  <2>2. w \in Moves /\ w.gen \in Int /\ w.space \in Spaces
    BY <1>1, <2>1 DEF Moves
  <2>3. v \in Moves /\ v.gen = w.gen /\ v.space = w.space /\ v.step = "role"
    BY <2>2 DEF Moves
  <2>4. switches' = (switches \ {w}) \cup {v}
    BY <2>1
  <2> HIDE DEF v
  <2>5. /\ tab' \in Tabs /\ tab'.in = tab.in /\ tab'.spaces = tab.spaces /\ tab'.space = tab.space
        /\ tab'.role = tab.role /\ tab'.loading = tab.loading /\ tab'.failed = tab.failed
        /\ tab'.at = tab.at /\ (tab.heard => tab'.heard) /\ (Enters(w.space) => tab'.heard)
    BY <1>1, <2>1 DEF Tabs
  <2>6. cookie' \in [in : BOOLEAN, space : Places] /\ cookie'.in = cookie.in
    BY <1>1, <2>1, <2>2 DEF Places
  <2>7. ScreenInv' /\ BootInv'
    BY <1>2, <2>1, <2>5, <2>6 DEF ShellInv, ScreenInv, BootInv, Mounted, Awaited, PagesUp, CanManage
  <2>8. BornInv'
    <3>1. \A x \in switches' : \E y \in switches : y.space = x.space
      BY <2>1, <2>3, <2>4
    <3> QED
      BY <1>2, <2>5, <3>1, BornKept
  <2>9. SwitchInv' /\ switches' \subseteq Moves
    BY <1>1, <2>1, <2>3, <2>4 DEF ShellInv, SwitchInv
  <2>10. StrayInv'
    <3>1. \A s \in Spaces : Stray(s)' => Stray(s)
      BY <2>1, <2>5 DEF Stray, Awaited
    <3> SUFFICES ASSUME Unsettled, tab.in PROVE Unsettled'
      <4>1. (\E s \in Spaces : Stray(s)) => tab.in
        BY DEF ShellInv, ScreenInv, Stray, PagesUp
      <4> QED
        BY <3>1, <4>1 DEF ShellInv, StrayInv
    <3>2. CASE tab.heard \/ Enters(w.space)
      BY <2>5, <3>2 DEF Unsettled
    <3>3. CASE ~tab.heard /\ ~Enters(w.space)
      <4>1. ~HasSeat(w.space)
        BY <3>3 DEF Enters, ShellInv, BootInv
      <4>2. ASSUME NEW x \in switches, IsLatest(x), x.space = tab.space,
                   x.step = "enter" \/ ~HasSeat(x.space)
            PROVE  Unsettled'
        <5>1. CASE x = w
          BY <1>2, <2>1, <2>3, <2>4, <2>5, <4>1, <4>2, <5>1 DEF Unsettled, IsLatest, HasSeat
        <5>2. CASE x # w
          BY <1>2, <2>1, <2>4, <2>5, <4>2, <5>2 DEF Unsettled, IsLatest, HasSeat
        <5> QED
          BY <5>1, <5>2
      <4>3. CASE ~CanManage(tab.role) /\ \A x \in switches : ~IsLatest(x)
        BY <2>1, <2>3, <2>4, <2>5, <4>3 DEF Unsettled, IsLatest, CanManage
      <4> QED
        BY <3>3, <4>2, <4>3 DEF Unsettled
    <3> QED
      BY <3>2, <3>3
  <2> QED
    BY <1>1, <1>2, <2>1, <2>5, <2>6, <2>7, <2>8, <2>9, <2>10, InvitesTyped, ShellInvFrom DEF ShellInv
<1>5. CASE SwitchReadsRole
  <2>1. PICK w \in switches :
           /\ w.step = "role" /\ switches' = switches \ {w} /\ UNCHANGED <<cookie, latest>>
           /\ IF ~IsLatest(w) THEN UNCHANGED <<tab, roster, invites>>
              ELSE \/ HasSeat(w.space) /\ Show([tab EXCEPT !.role = RoleIn(w.space)])
                   \/ Show([tab EXCEPT !.role = NoRole])
    BY <1>5 DEF SwitchReadsRole
  <2>2. w.space \in Spaces /\ switches' \subseteq Moves /\ SwitchInv'
    BY <1>1, <2>1 DEF Moves, ShellInv, SwitchInv
  <2>3. CASE ~IsLatest(w)
    <3>1. UNCHANGED <<tab, roster, invites>>
      BY <2>1, <2>3
    <3>2. ScreenInv' /\ BootInv'
      BY <1>2, <2>1, <3>1 DEF ShellInv, ScreenInv, BootInv, Mounted, Awaited
    <3>3. BornInv'
      BY <1>2, <2>1, <3>1 DEF ShellInv, BornInv
    <3>4. StrayInv'
      BY <1>2, <2>1, <2>3, <3>1 DEF ShellInv, StrayInv, Stray, Awaited, Unsettled, IsLatest, HasSeat
    <3> QED
      BY <1>1, <1>2, <2>1, <2>2, <3>1, <3>2, <3>3, <3>4, InvitesTyped, ShellInvFrom DEF ShellInv
  <2>4. ASSUME IsLatest(w), NEW r \in Roles, Show([tab EXCEPT !.role = r]),
               HasSeat(w.space) \/ ~CanManage(r)
        PROVE  ShellInv'
    <3> DEFINE t == [tab EXCEPT !.role = r]
    <3>1. t \in Tabs /\ t.in = tab.in /\ t.heard = tab.heard /\ t.loading = tab.loading
          /\ t.spaces = tab.spaces /\ t.space = tab.space /\ t.role = r
      BY <1>1 DEF Tabs
    <3>2. Show(t)
      BY <2>4
    <3> HIDE DEF t
    <3>3. /\ tab' \in Tabs /\ SameBut(t, tab') /\ roster' \in Rosters /\ ScreenInv'
          /\ \E S \in SUBSET Spaces : invites' \in [S -> BOOLEAN]
          /\ \A s \in Spaces : s # t.space /\ Stray(s)' => s \in roster.queue \/ Awaited(s)
      BY <3>1, <3>2, ShowIs DEF ShellInv
    <3>4. /\ tab'.in = tab.in /\ tab'.heard = tab.heard /\ tab'.loading = tab.loading
          /\ tab'.spaces = tab.spaces /\ tab'.space = tab.space /\ tab'.role = r
      BY <3>1, <3>3 DEF SameBut
    <3>5. BootInv'
      BY <1>2, <2>1, <3>4 DEF ShellInv, BootInv
    <3>6. BornInv'
      BY <1>2, <2>1, <3>4 DEF ShellInv, BornInv
    <3>7. StrayInv'
      <4>1. \A s \in Spaces : Stray(s)' => Stray(s)
        BY <3>1, <3>3, <3>4 DEF Stray
      <4> SUFFICES ASSUME Unsettled PROVE Unsettled'
        BY <4>1 DEF ShellInv, StrayInv
      <4>2. \A x \in switches : IsLatest(x) => x = w
        BY <2>1, <2>4 DEF ShellInv, SwitchInv, IsLatest
      <4>3. CASE tab.heard
        BY <3>4, <4>3 DEF Unsettled
      <4>4. CASE ~tab.heard
        <5>1. ~HasSeat(w.space)
          BY <2>1, <2>4, <4>2, <4>4 DEF Unsettled
        <5>2. \A x \in switches' : ~IsLatest(x)'
          BY <2>1, <4>2 DEF IsLatest
        <5> QED
          BY <2>4, <3>4, <5>1, <5>2 DEF Unsettled, CanManage
      <4> QED
        BY <4>3, <4>4
    <3> QED
      BY <1>1, <1>2, <2>1, <2>2, <3>3, <3>5, <3>6, <3>7, ShellInvFrom
  <2>5. NoRole \in Roles /\ ~CanManage(NoRole)
    BY DEF NoRole, Roles, CanManage
  <2>6. HasSeat(w.space) => RoleIn(w.space) \in Roles
    BY <2>2 DEF RoleIn, Roles, HasSeat
  <2> QED
    BY <2>1, <2>3, <2>4, <2>5, <2>6
<1> QED
  BY <1>3, <1>4, <1>5

\* A step the members screen does not see: what the server and the session do, and the errands.
LEMMA QuietKeeps ==
    ASSUME ShellInv, Aging, UNCHANGED <<switches, latest, roster, invites>>,
           invited' \subseteq Spaces, cookie' \in [in : BOOLEAN, space : Places], errand' \in Errands,
           boot' \in Boots, boot'.spaces = boot.spaces, boot'.space = boot.space,
           boot'.step = boot.step \/ (boot.step = "enter" /\ boot'.step = "role"),
           tab' \in Tabs, SameBut([tab EXCEPT !.heard = tab'.heard], tab'), tab'.at = tab.at,
           tab.heard => tab'.heard, ~cookie'.in => tab'.heard \/ ~cookie.in
    PROVE  ShellInv'
<1>1. /\ seats \in [Spaces -> SeatKinds] /\ tab \in Tabs /\ boot \in Boots
      /\ switches \subseteq Moves /\ latest \in 0..MaxSwitches /\ roster \in Rosters
  BY ShellTyped DEF ShellInv
<1>2. /\ tab'.in = tab.in /\ tab'.spaces = tab.spaces /\ tab'.space = tab.space
      /\ tab'.role = tab.role /\ tab'.loading = tab.loading /\ tab'.failed = tab.failed
  BY <1>1 DEF SameBut, Tabs
<1>3. ScreenInv'
  BY <1>2 DEF ShellInv, ScreenInv, Mounted, Awaited, PagesUp, CanManage
<1>4. BootInv'
  BY <1>2 DEF ShellInv, BootInv
<1>5. BornInv'
  BY <1>2, BornKept
<1>6. StrayInv'
  <2>1. \A s \in Spaces : Stray(s)' => Stray(s)
    BY <1>2 DEF Stray, Awaited
  <2> QED
    BY <1>2, <2>1, StraysKept
<1>7. SwitchInv' /\ seats' \in [Spaces -> SeatKinds]
  BY DEF ShellInv, SwitchInv, Aging
<1> QED
  BY <1>1, <1>3, <1>4, <1>5, <1>6, <1>7, InvitesTyped, ShellInvFrom DEF ShellInv

LEMMA ServerKeeps ==
    ASSUME ShellInv, SignedOut \/ EnterSpace \/ CreateSpace \/ LeaveSpace \/ DeleteSpace \/ EndErrand
                     \/ Demoted \/ Removed
    PROVE  ShellInv'
<1>1. /\ seats \in [Spaces -> SeatKinds] /\ invited \subseteq Spaces
      /\ cookie \in [in : BOOLEAN, space : Places] /\ tab \in Tabs /\ boot \in Boots
      /\ errand \in Errands /\ roster \in Rosters
  BY ShellTyped DEF ShellInv
<1>2. SameBut([tab EXCEPT !.heard = tab.heard], tab) /\ boot.step \in {"none", "list", "enter", "role"}
  BY <1>1 DEF SameBut, Tabs, Boots
<1>3. ASSUME NEW s \in Spaces, NEW to \in {"OWNER", "MEMBER", "NONE"},
             seats' = [seats EXCEPT ![s] = to],
             seats[s] \in {"OWNER", "MEMBER", "UNBORN"}
      PROVE  Aging
  BY <1>1, <1>3 DEF Aging, HasSeat, SeatKinds
<1>4. CASE SignedOut
  <2>1. /\ tab' = [tab EXCEPT !.heard = TRUE] /\ cookie' = [in |-> FALSE, space |-> NoSpace]
        /\ UNCHANGED <<seats, invited, boot, switches, latest, errand, roster, invites>>
    BY <1>4 DEF SignedOut, Heard
  <2>2. tab' \in Tabs /\ SameBut([tab EXCEPT !.heard = tab'.heard], tab') /\ tab'.at = tab.at /\ tab'.heard
    BY <1>1, <2>1 DEF Tabs, SameBut
  <2>3. cookie' \in [in : BOOLEAN, space : Places]
    BY <2>1 DEF Places
  <2> QED
    BY <1>1, <2>1, <2>2, <2>3, AgedAlike, QuietKeeps DEF ShellInv
<1>5. ASSUME NEW s \in Places, cookie' = IF Enters(s) THEN [cookie EXCEPT !.space = s] ELSE cookie
      PROVE  cookie' \in [in : BOOLEAN, space : Places] /\ cookie'.in = cookie.in
  BY <1>1, <1>5
<1>6. CASE EnterSpace
  <2>1. /\ boot.step = "enter" /\ boot' = [boot EXCEPT !.step = "role"]
        /\ cookie' = IF Enters(boot.space) THEN [cookie EXCEPT !.space = boot.space] ELSE cookie
        /\ tab' = IF Enters(boot.space) THEN [tab EXCEPT !.heard = TRUE] ELSE tab
        /\ UNCHANGED <<seats, invited, switches, latest, errand, roster, invites>>
    BY <1>6 DEF EnterSpace, SetActive, AfterSetActive, Heard
  <2>2. /\ tab' \in Tabs /\ SameBut([tab EXCEPT !.heard = tab'.heard], tab') /\ tab'.at = tab.at
        /\ tab.heard => tab'.heard
    BY <1>1, <2>1 DEF Tabs, SameBut
  <2>3. boot.space \in Places
    BY <1>1 DEF Boots
  <2>4. cookie' \in [in : BOOLEAN, space : Places] /\ cookie'.in = cookie.in
    BY <1>5, <2>1, <2>3
  <2>5. boot' \in Boots /\ boot'.spaces = boot.spaces /\ boot'.space = boot.space /\ boot'.step = "role"
    BY <1>1, <2>1 DEF Boots
  <2> QED
    BY <1>1, <2>1, <2>2, <2>4, <2>5, AgedAlike, QuietKeeps DEF ShellInv
<1>7. ASSUME NEW kind \in {"create", "leave", "delete"}, NEW s \in Places, BeginErrand(kind, s),
             Aging, invited' \subseteq Spaces
      PROVE  ShellInv'
  <2>1. /\ errand' = [kind |-> kind, space |-> s] /\ UNCHANGED <<tab, boot, switches, latest, roster, invites>>
        /\ cookie' = IF kind # "create" /\ cookie.space = s THEN [cookie EXCEPT !.space = NoSpace] ELSE cookie
    BY <1>7 DEF BeginErrand
  <2>2. errand' \in Errands
    BY <2>1 DEF Errands
  <2>3. cookie' \in [in : BOOLEAN, space : Places] /\ cookie'.in = cookie.in
    BY <1>1, <2>1 DEF Places
  <2> QED
    BY <1>1, <1>2, <1>7, <2>1, <2>2, <2>3, QuietKeeps
<1>8. CASE CreateSpace
  <2>1. PICK s \in Spaces : /\ seats[s] = "UNBORN" /\ seats' = [seats EXCEPT ![s] = "OWNER"]
                            /\ BeginErrand("create", s) /\ invited' = invited
    BY <1>8 DEF CreateSpace
  <2>2. Aging
    BY <1>3, <2>1
  <2>3. PICK k \in {"create", "leave", "delete"} : k = "create"
    OBVIOUS
  <2>4. BeginErrand(k, s) /\ s \in Places
    BY <2>1, <2>3 DEF Places
  <2> QED
    BY <1>1, <1>7, <2>1, <2>2, <2>4
<1>9. CASE LeaveSpace
  <2>1. /\ roster.state = "shown" /\ HasSeat(tab.space) /\ seats' = [seats EXCEPT ![tab.space] = "NONE"]
        /\ BeginErrand("leave", tab.space) /\ invited' = invited
    BY <1>9 DEF LeaveSpace
  <2>2. tab.space \in Spaces
    BY <1>1, <2>1, TabIs DEF ShellInv, ScreenInv, Mounted, Places
  <2>3. PICK s \in Spaces, k \in {"create", "leave", "delete"} : k = "leave" /\ s = tab.space
    BY <2>2
  <2>4. Aging
    BY <1>3, <2>1, <2>3 DEF HasSeat
  <2>5. BeginErrand(k, s) /\ s \in Places
    BY <2>1, <2>3 DEF Places
  <2> QED
    BY <1>1, <1>7, <2>1, <2>4, <2>5
<1>10. CASE DeleteSpace
  <2>1. /\ tab.space # NoSpace /\ seats[tab.space] = "OWNER" /\ seats' = [seats EXCEPT ![tab.space] = "NONE"]
        /\ BeginErrand("delete", tab.space) /\ invited' \subseteq Spaces
    BY <1>1, <1>10 DEF DeleteSpace
  <2>2. tab.space \in Spaces
    BY <1>1, <2>1, TabIs DEF Places
  <2>3. PICK s \in Spaces, k \in {"create", "leave", "delete"} : k = "delete" /\ s = tab.space
    BY <2>2
  <2>4. Aging
    BY <1>3, <2>1, <2>3
  <2>5. BeginErrand(k, s) /\ s \in Places
    BY <2>1, <2>3 DEF Places
  <2> QED
    BY <1>1, <1>7, <2>1, <2>4, <2>5
<1>11. CASE EndErrand
  <2>1. PICK s : /\ s = IF errand.kind = "create" THEN errand.space ELSE NoSpace
                 /\ cookie' = IF Enters(s) THEN [cookie EXCEPT !.space = s] ELSE cookie
                 /\ tab' = [IF Enters(s) THEN [tab EXCEPT !.heard = TRUE] ELSE tab EXCEPT !.going = TRUE]
                 /\ errand' = NoErrand
                 /\ UNCHANGED <<seats, invited, boot, switches, latest, roster, invites>>
    BY <1>11 DEF EndErrand, SetActive, AfterSetActive, Heard
  <2>2. s \in Places /\ NoErrand \in Errands
    BY <1>1, <2>1 DEF Errands, Places, NoErrand
  <2>3. /\ tab' \in Tabs /\ SameBut([tab EXCEPT !.heard = tab'.heard], tab') /\ tab'.at = tab.at
        /\ tab.heard => tab'.heard
    BY <1>1, <2>1 DEF Tabs, SameBut
  <2>4. cookie' \in [in : BOOLEAN, space : Places] /\ cookie'.in = cookie.in
    BY <1>5, <2>1, <2>2
  <2> QED
    BY <1>1, <1>2, <2>1, <2>2, <2>3, <2>4, AgedAlike, QuietKeeps DEF ShellInv
<1>12. CASE Demoted \/ Removed
  <2>1. PICK s \in Spaces, to \in {"OWNER", "MEMBER", "NONE"} :
           seats[s] \in {"OWNER", "MEMBER"} /\ seats' = [seats EXCEPT ![s] = to]
    BY <1>12 DEF Demoted, Removed, HasSeat
  <2>2. UNCHANGED <<invited, cookie, tab, boot, switches, latest, errand, roster, invites>>
    BY <1>12 DEF Demoted, Removed
  <2>3. Aging
    BY <1>3, <2>1
  <2> QED
    BY <1>1, <1>2, <2>2, <2>3, QuietKeeps
<1> QED
  BY <1>4, <1>6, <1>8, <1>9, <1>10, <1>11, <1>12

\* The pages of the router.
LEMMA PagesKeep == ASSUME ShellInv, GoCreate \/ ReachApp PROVE ShellInv'
<1>1. /\ seats \in [Spaces -> SeatKinds] /\ invited \subseteq Spaces
      /\ cookie \in [in : BOOLEAN, space : Places] /\ tab \in Tabs /\ boot \in Boots
      /\ switches \subseteq Moves /\ latest \in 0..MaxSwitches /\ errand \in Errands
      /\ roster \in Rosters
  BY ShellTyped DEF ShellInv
<1>2. UNCHANGED <<seats, invited, cookie, boot, switches, latest, errand>> /\ Aging
  BY AgedAlike DEF GoCreate, ReachApp, ShellInv
<1>3. PICK t \in Tabs : Show(t) /\ SameBut(tab, t)
  <2>1. CASE GoCreate
    <3> DEFINE t == [tab EXCEPT !.at = "create"]
    <3>1. Show(t)
      BY <2>1 DEF GoCreate
    <3>2. t \in Tabs /\ SameBut(tab, t)
      BY <1>1 DEF Tabs, SameBut
    <3> QED
      BY <3>1, <3>2
  <2>2. CASE ReachApp
    <3> DEFINE t == [tab EXCEPT !.going = FALSE, !.at = IF tab.in THEN "app" ELSE @]
    <3>1. Show(t)
      BY <2>2 DEF ReachApp
    <3>2. t \in Tabs /\ SameBut(tab, t)
      BY <1>1 DEF Tabs, SameBut
    <3> QED
      BY <3>1, <3>2
  <2> QED
    BY <2>1, <2>2
<1>4. /\ tab' \in Tabs /\ SameBut(t, tab') /\ roster' \in Rosters /\ ScreenInv'
      /\ \E S \in SUBSET Spaces : invites' \in [S -> BOOLEAN]
      /\ \A s \in Spaces : s # t.space /\ Stray(s)' => s \in roster.queue \/ Awaited(s)
  BY <1>3, ShowIs DEF ShellInv
<1>5. /\ tab'.in = tab.in /\ tab'.heard = tab.heard /\ tab'.loading = tab.loading
      /\ tab'.spaces = tab.spaces /\ tab'.space = tab.space /\ tab'.role = tab.role /\ t.space = tab.space
  BY <1>3, <1>4 DEF SameBut
<1>6. BootInv' /\ SwitchInv'
  BY <1>2, <1>5 DEF ShellInv, BootInv, SwitchInv
<1>7. BornInv'
  BY <1>2, <1>5 DEF ShellInv, BornInv
<1>8. StrayInv'
  <2>1. \A s \in Spaces : Stray(s)' => Stray(s)
    BY <1>4, <1>5 DEF Stray
  <2> QED
    BY <1>2, <1>5, <2>1, StraysKept
<1> QED
  BY <1>1, <1>2, <1>4, <1>6, <1>7, <1>8, ShellInvFrom

\* The members screen, and the invitations sent from it.
LEMMA RosterKeeps ==
    ASSUME ShellInv, RosterLands \/ RosterRetried \/ SendInvite \/ InviteAnswered \/ RevokeInvite
    PROVE  ShellInv'
<1>1. /\ seats \in [Spaces -> SeatKinds] /\ invited \subseteq Spaces
      /\ cookie \in [in : BOOLEAN, space : Places] /\ tab \in Tabs /\ boot \in Boots
      /\ switches \subseteq Moves /\ latest \in 0..MaxSwitches /\ errand \in Errands
      /\ roster \in Rosters /\ DOMAIN invites \subseteq Spaces
      /\ invites = [s \in DOMAIN invites |-> invites[s]]
      /\ \A s \in DOMAIN invites : invites[s] \in BOOLEAN
  BY ShellTyped DEF ShellInv
<1>2. UNCHANGED <<seats, cookie, tab, boot, switches, latest, errand>> /\ Aging
  BY AgedAlike DEF RosterLands, RosterRetried, SendInvite, InviteAnswered, RevokeInvite, ShellInv
<1>3. BootInv' /\ BornInv' /\ SwitchInv'
  BY <1>2 DEF ShellInv, BootInv, BornInv, SwitchInv
<1>4. roster.space \in Places /\ roster.queue \subseteq Spaces /\ roster.manage \in BOOLEAN
  BY <1>1 DEF Rosters
<1>5. ASSUME roster' \in Rosters, Mounted, Mounted', roster'.space = roster.space,
             roster'.manage = roster.manage,
             roster'.state \in {"shown", "failed"} => roster.space # NoSpace,
             invited' \subseteq Spaces, \E S \in SUBSET Spaces : invites' \in [S -> BOOLEAN],
             \A s \in Spaces : s # tab.space /\ (s \in roster'.queue \/ Awaited(s)') =>
                                  s \in roster.queue \/ Awaited(s)
      PROVE  ShellInv'
  <2>1. ScreenInv'
    BY <1>2, <1>5 DEF ShellInv, ScreenInv, PagesUp, CanManage, Mounted
  <2>2. StrayInv'
    <3>1. \A s \in Spaces : Stray(s)' => Stray(s)
      BY <1>2, <1>5 DEF Stray
    <3> QED
      BY <1>2, <3>1, StraysKept
  <2> QED
    BY <1>1, <1>2, <1>3, <1>5, <2>1, <2>2, ShellInvFrom
<1>6. CASE RosterLands
  <2>1. /\ roster.state = "loading" /\ roster.space # NoSpace /\ UNCHANGED <<invited, invites>>
        /\ \E q \in {invited \cap {roster.space}, {}}, state \in {"shown", "failed"} :
              roster' = [roster EXCEPT !.state = state, !.queue = q]
    BY <1>6 DEF RosterLands
  <2>2. PICK q \in {invited \cap {roster.space}, {}}, state \in {"shown", "failed"} :
           roster' = [roster EXCEPT !.state = state, !.queue = q]
    BY <2>1
  <2>3. q \subseteq Spaces /\ q \subseteq {tab.space}
    BY <1>1, <2>1, <2>2 DEF ShellInv, ScreenInv, Mounted
  <2>4. /\ roster' \in Rosters /\ roster'.space = roster.space /\ roster'.manage = roster.manage
        /\ roster'.queue = q /\ roster'.state = state
    BY <1>1, <2>2, <2>3 DEF Rosters
  <2>5. \A s \in Spaces : Awaited(s)' => Awaited(s)
    BY <2>1 DEF Awaited
  <2> QED
    BY <1>1, <1>5, <2>1, <2>2, <2>3, <2>4, <2>5, InvitesTyped DEF Mounted, ShellInv
<1>7. CASE RosterRetried
  <2>1. /\ roster.state = "failed" /\ roster' = [roster EXCEPT !.state = "loading"]
        /\ UNCHANGED <<invited, invites>>
    BY <1>7 DEF RosterRetried
  <2>2. /\ roster' \in Rosters /\ roster'.space = roster.space /\ roster'.manage = roster.manage
        /\ roster'.queue = roster.queue /\ roster'.state = "loading"
    BY <1>1, <2>1 DEF Rosters
  <2>3. \A s \in Spaces : Awaited(s)' => Awaited(s)
    BY <2>1 DEF Awaited
  <2> QED
    BY <1>1, <1>5, <2>1, <2>2, <2>3, InvitesTyped DEF Mounted, ShellInv
<1>8. CASE SendInvite
  <2>1. /\ roster.state = "shown" /\ UNCHANGED <<invited, roster>>
        /\ invites' = [s \in DOMAIN invites \cup {tab.space} |-> s = tab.space \/ invites[s]]
    BY <1>8 DEF SendInvite
  <2>2. tab.space \in Spaces
    BY <1>1, <2>1, TabIs DEF ShellInv, ScreenInv, Mounted, Places
  <2>3. invites' \in [DOMAIN invites \cup {tab.space} -> BOOLEAN] /\ DOMAIN invites \cup {tab.space} \subseteq Spaces
    BY <1>1, <2>1, <2>2
  <2>4. \A s \in Spaces : s # tab.space /\ Awaited(s)' => Awaited(s)
    BY <2>1 DEF Awaited
  <2> QED
    BY <1>1, <1>5, <2>1, <2>3, <2>4 DEF Mounted, ShellInv, ScreenInv
<1>9. CASE InviteAnswered
  <2>1. PICK s \in DOMAIN invites :
           /\ invites' = [u \in DOMAIN invites \ {s} |-> invites[u]]
           /\ invited' \subseteq invited \cup {s}
           /\ roster' = roster \/ (invites[s] /\ roster' = [roster EXCEPT !.queue = @ \cup {s}])
    BY <1>9 DEF InviteAnswered
  <2>2. s \in Spaces /\ invited' \subseteq Spaces
    BY <1>1, <2>1
  <2>3. /\ invites' \in [DOMAIN invites \ {s} -> BOOLEAN] /\ DOMAIN invites \ {s} \in SUBSET Spaces
        /\ \A u \in Spaces : Awaited(u)' => Awaited(u)
    BY <1>1, <2>1 DEF Awaited
  <2>4. CASE roster' = roster
    <3>1. ScreenInv'
      BY <1>2, <2>3, <2>4 DEF ShellInv, ScreenInv, Mounted, PagesUp, CanManage
    <3>2. StrayInv'
      <4>1. \A u \in Spaces : Stray(u)' => Stray(u)
        BY <1>2, <2>3, <2>4 DEF Stray
      <4> QED
        BY <1>2, <4>1, StraysKept
    <3>3. \E S \in SUBSET Spaces : invites' \in [S -> BOOLEAN]
      BY <2>3
    <3> QED
      BY <1>1, <1>2, <1>3, <2>2, <2>4, <3>1, <3>2, <3>3, ShellInvFrom
  <2>5. CASE invites[s] /\ roster' = [roster EXCEPT !.queue = @ \cup {s}]
    <3>1. Awaited(s) /\ Mounted
      BY <2>1, <2>2, <2>5 DEF Awaited, ShellInv, ScreenInv
    <3>2. /\ roster' \in Rosters /\ roster'.space = roster.space /\ roster'.manage = roster.manage
          /\ roster'.queue = roster.queue \cup {s} /\ roster'.state = roster.state
      BY <1>1, <2>2, <2>5 DEF Rosters
    <3>3. \E S \in SUBSET Spaces : invites' \in [S -> BOOLEAN]
      BY <2>3
    <3>4. Mounted' /\ (roster'.state \in {"shown", "failed"} => roster.space # NoSpace)
      BY <3>1, <3>2 DEF Mounted, ShellInv, ScreenInv
    <3>5. \A u \in Spaces : u # tab.space /\ (u \in roster'.queue \/ Awaited(u)') =>
                               u \in roster.queue \/ Awaited(u)
      BY <2>3, <3>1, <3>2
    <3> QED
      BY <1>5, <2>2, <3>1, <3>2, <3>3, <3>4, <3>5
  <2> QED
    BY <2>1, <2>4, <2>5
<1>10. CASE RevokeInvite
  <2>1. /\ roster.state = "shown" /\ invites' = invites /\ invited' \subseteq invited
        /\ \E s : roster' = [roster EXCEPT !.queue = @ \ {s}]
    BY <1>10 DEF RevokeInvite
  <2>2. /\ roster' \in Rosters /\ roster'.space = roster.space /\ roster'.manage = roster.manage
        /\ roster'.queue \subseteq roster.queue /\ roster'.state = "shown"
    BY <1>1, <2>1 DEF Rosters
  <2>3. \A s \in Spaces : Awaited(s)' => Awaited(s)
    BY <2>1 DEF Awaited
  <2>4. roster.space # NoSpace
    BY <2>1 DEF ShellInv, ScreenInv
  <2> QED
    BY <1>1, <1>5, <2>1, <2>2, <2>3, <2>4, InvitesTyped DEF Mounted, ShellInv
<1> QED
  BY <1>6, <1>7, <1>8, <1>9, <1>10

LEMMA ShellStart == ASSUME ShellInit PROVE ShellInv
<1>1. PICK s \in Listed \cup {NoSpace} :
         /\ cookie = [in |-> TRUE, space |-> s]
         /\ tab = [in |-> TRUE, known |-> s, heard |-> FALSE, spaces |-> {}, space |-> NoSpace,
                   role |-> NoRole, loading |-> TRUE, failed |-> FALSE, at |-> "app", going |-> FALSE]
  BY DEF ShellInit
<1>2. s \in Places /\ NoRole \in Roles
  BY <1>1 DEF Listed, Places, NoRole, Roles
<1>3. tab \in Tabs /\ cookie \in [in : BOOLEAN, space : Places] /\ cookie.in
      /\ tab.spaces = {} /\ tab.loading
  BY <1>1, <1>2 DEF Tabs, Places
<1>4. boot \in Boots /\ boot.step = "list" /\ boot.spaces = {}
  BY DEF ShellInit, NoBoot, Boots, Places
<1>5. roster \in Rosters /\ roster.state = "unmounted" /\ roster.queue = {}
  BY DEF ShellInit, NoRoster, Rosters, Places
<1>6. invites \in [{} -> BOOLEAN] /\ DOMAIN invites = {}
  BY DEF ShellInit
<1>7. errand \in Errands /\ switches = {} /\ latest = 0 /\ latest \in 0..MaxSwitches
  BY SwitchesAssumption DEF ShellInit, NoErrand, Errands, Places
<1>8. ShellTypeOK
  <2>1. seats \in [Spaces -> SeatKinds] /\ invited \subseteq Spaces
    BY DEF ShellInit, SeatKinds
  <2>2. {} \in SUBSET Spaces /\ switches \subseteq Moves
    BY <1>7
  <2> QED
    BY <1>3, <1>4, <1>5, <1>6, <1>7, <2>1, <2>2, ShellTypeIs
<1>9. ScreenInv /\ BootInv /\ BornInv /\ SwitchInv /\ StrayInv
  BY <1>3, <1>4, <1>5, <1>6, <1>7
     DEF ScreenInv, BootInv, BornInv, SwitchInv, StrayInv, Mounted, Awaited, Stray
<1> QED
  BY <1>8, <1>9 DEF ShellInv

LEMMA ShellKept == ShellInv /\ [ShellNext]_shellVars => ShellInv'
<1>1. ShellInv /\ UNCHANGED shellVars => ShellInv'
  BY DEF ShellInv, shellVars, ShellTypeOK, ScreenInv, BootInv, BornInv, SwitchInv, StrayInv, Mounted,
         Awaited, PagesUp, CanManage, Stray, Unsettled, IsLatest, HasSeat
<1> QED
  BY <1>1, BootsKeep, SwitchesKeep, ServerKeeps, PagesKeep, RosterKeeps DEF ShellNext

(***************************************************************************)
(* For any number of workspaces and switches, whoever joins, is demoted,    *)
(* removed or signed out on the way: once everything is answered, the list  *)
(* of invitations a manager is shown is the active workspace's.             *)
(***************************************************************************)
THEOREM QueueStaysHome == ShellSpec => []QueueIsOfActiveSpace
<1>1. ShellInv => QueueIsOfActiveSpace
  <2> SUFFICES ASSUME ShellInv, AtRest, roster.state = "shown", roster.manage
               PROVE  roster.queue \subseteq {tab.space}
    BY DEF QueueIsOfActiveSpace
  <2>1. CanManage(tab.role) /\ ~tab.heard /\ switches = {}
    BY DEF ShellInv, ScreenInv, Mounted, AtRest
  <2>2. ~Unsettled
    BY <2>1 DEF Unsettled
  <2>3. roster.queue \subseteq Spaces
    BY ShellTyped DEF ShellInv, Rosters
  <2> QED
    BY <2>2, <2>3 DEF ShellInv, StrayInv, Stray
<1> QED
  BY <1>1, ShellStart, ShellKept, PTL DEF ShellSpec

-----------------------------------------------------------------------------
(* The panel, and the task it is about *)

Controls == {"files", "tick", "save", "thread", "more"}

\* The fields of what the browser keeps, with the flags among them.
CallShape(c) ==
    /\ c = [what |-> c.what, task |-> c.task, here |-> c.here, base |-> c.base, item |-> c.item,
            astray |-> c.astray]
    /\ c.here \in BOOLEAN /\ c.astray \in BOOLEAN
    /\ c.what \in PanelReads \cup PanelCalls \cup ThreadCalls /\ c.task \in PanelTasks
FilesShape(f) ==
    /\ f = [items |-> f.items, of |-> f.of, failed |-> f.failed, strayed |-> f.strayed]
    /\ f.strayed \in BOOLEAN
ThreadShape(h) ==
    /\ h = [items |-> h.items, cursor |-> h.cursor, loading |-> h.loading, failed |-> h.failed,
            strayed |-> h.strayed]
    /\ h.loading \in BOOLEAN /\ h.failed \in BOOLEAN /\ h.strayed \in BOOLEAN
UiShape(u) ==
    /\ u = [route |-> u.route, board |-> u.board, row |-> u.row, files |-> u.files,
            undetailed |-> u.undetailed, thread |-> u.thread, calls |-> u.calls, busy |-> u.busy]
    /\ u.row \in [failed : BOOLEAN, gone : BOOLEAN] /\ FilesShape(u.files) /\ ThreadShape(u.thread)
    /\ u.route \in PanelTasks \cup {0} /\ u.busy \subseteq Controls
    /\ \A c \in u.calls : CallShape(c)

FileWrites == {"upload", "unfile"}

\* A write to the attachments starts from the rows of its task, unless the list had strayed.
BasesHome(u) ==
    \A c \in u.calls : c.what \in FileWrites =>
        c.task # 0 /\ (~c.astray => \A i \in c.base : i.of = c.task)

\* The attachments are those of the task they were read for.
FilesHome(u) == u.files.strayed \/ \A i \in u.files.items : i.of = u.files.of /\ i.of # 0

\* Comments that are not being read again are those of task t.
ThreadHome(u, t) == u.thread.strayed \/ u.thread.loading \/ \A i \in u.thread.items : i.of = t

BoardHome(u) ==
    /\ DOMAIN u.board \subseteq PanelTasks
    /\ \A t \in DOMAIN u.board : u.board[t] \in {"summary", "whole"}

PanelInv ==
    /\ live \subseteq PanelTasks /\ UiShape(ui) /\ BoardHome(ui)
    /\ \A c \in ui.calls : c.what \in PanelReads => c.task = Wanted(ui)[c.what]
    /\ BasesHome(ui) /\ FilesHome(ui) /\ ThreadHome(ui, ui.route)
    /\ Task(ui) = 0 => ui.thread.loading
    /\ Wanted(ui)["row"] # 0 /\ ui.row.failed /\ ui.row.gone => told = ui.route

\* A state the browser may be in before it renders: reads begin in the rendering only.
Follows(u) ==
    /\ UiShape(u) /\ BoardHome(u)
    /\ \A c \in u.calls : c.what \in PanelReads => c \in ui.calls
    /\ BasesHome(u) /\ FilesHome(u) /\ ThreadHome(u, ui.route)

LEMMA WantedIs ==
    ASSUME NEW u, BoardHome(u)
    PROVE  /\ DOMAIN Wanted(u) = PanelReads
           /\ Wanted(u)["row"] = IF u.route \in DOMAIN u.board THEN 0 ELSE u.route
           /\ Wanted(u)["files"] = Task(u) /\ Wanted(u)["thread"] = Task(u)
           /\ Task(u) # 0 => u.route = Task(u)
<1>1. 0 \notin DOMAIN u.board
  BY PanelAssumption DEF BoardHome
<1> QED
  BY <1>1 DEF Wanted, PanelReads, Task

LEMMA RerequestedIs ==
    ASSUME UiShape(ui), NEW u, UiShape(u), NEW again, again \subseteq PanelReads,
           \A c \in ui.calls : c.what \in PanelReads => c.task = Wanted(ui)[c.what],
           \A c \in u.calls : c.what \in PanelReads => c \in ui.calls,
           NEW v, v = Rerequested(u, again)
    PROVE  /\ UiShape(v) /\ v.route = u.route /\ v.board = u.board
           /\ v.files = u.files /\ v.thread = u.thread
           /\ v.row.gone = u.row.gone
           /\ v.row.failed => /\ u.row.failed
                              /\ Wanted(u)["row"] # 0 => Wanted(u)["row"] = Wanted(ui)["row"]
           /\ \A c \in v.calls : c.what \in PanelReads => c.task = Wanted(u)[c.what]
           /\ \A c \in v.calls : c.what \notin PanelReads => c \in u.calls
<1> DEFINE now == Wanted(u)
           stale == Stale(now, Wanted(ui)) \cup again
           needed == {read \in stale : now[read] # 0}
           asked == UnlessAborted(u.calls, stale) \cup {Read(read, now[read]) : read \in needed}
           failed == ErrorOf(u.row.failed, needed)
<1>1. v = [u EXCEPT !.calls = asked, !.row.failed = failed]
  BY DEF Rerequested
<1>2. failed \in BOOLEAN /\ (failed => u.row.failed /\ "row" \notin needed)
  BY DEF ErrorOf, UiShape
<1>3. stale \subseteq PanelReads /\ needed \subseteq PanelReads
  BY DEF Stale
<1>4. \A read \in needed : CallShape(Read(read, now[read]))
  <2>1. \A read \in needed : now[read] \in PanelTasks
    BY <1>3 DEF Wanted, Task, UiShape
  <2> QED
    BY <1>3, <2>1 DEF CallShape, Read
<1>5. \A c \in asked : CallShape(c)
  BY <1>4 DEF UiShape, UnlessAborted
<1>6. "row" \notin needed => (now["row"] # 0 => now["row"] = Wanted(ui)["row"])
  BY DEF Stale, PanelReads
<1>7. \A c \in asked : c.what \in PanelReads => c.task = now[c.what]
  <2>1. ASSUME NEW c \in UnlessAborted(u.calls, stale), c.what \in PanelReads PROVE c.task = now[c.what]
    <3>1. c \in u.calls /\ c.what \notin stale
      BY DEF UnlessAborted
    <3>2. c.task = Wanted(ui)[c.what]
      BY <2>1, <3>1
    <3> QED
      BY <2>1, <3>1, <3>2 DEF Stale
  <2>2. \A read \in needed : Read(read, now[read]).task = now[Read(read, now[read]).what]
    BY DEF Read
  <2> QED
    BY <2>1, <2>2
<1>8. \A c \in asked : c.what \notin PanelReads => c \in u.calls
  <2>1. \A read \in needed : Read(read, now[read]).what \in PanelReads
    BY <1>3 DEF Read
  <2> QED
    BY <2>1 DEF UnlessAborted
<1> HIDE DEF asked, failed, needed, stale
<1>9. /\ v.calls = asked /\ v.row = [u.row EXCEPT !.failed = failed] /\ v.route = u.route
      /\ v.board = u.board /\ v.files = u.files /\ v.thread = u.thread /\ v.busy = u.busy
      /\ v = [route |-> v.route, board |-> v.board, row |-> v.row, files |-> v.files,
              undetailed |-> v.undetailed, thread |-> v.thread, calls |-> v.calls, busy |-> v.busy]
  BY <1>1 DEF UiShape
<1>10. v.row \in [failed : BOOLEAN, gone : BOOLEAN] /\ v.row.gone = u.row.gone /\ v.row.failed = failed
  BY <1>2, <1>9 DEF UiShape
<1>11. UiShape(v)
  BY <1>5, <1>9, <1>10 DEF UiShape
<1> QED
  BY <1>2, <1>6, <1>7, <1>8, <1>9, <1>10, <1>11

\* Another task's thread is marked as loading, whatever is in it.
LEMMA ReloadingIs ==
    ASSUME NEW u, UiShape(u), NEW again, NEW v, v = Reloading(u, again)
    PROVE  /\ UiShape(v) /\ v.route = u.route /\ v.board = u.board /\ v.row = u.row
           /\ v.calls = u.calls /\ v.files = u.files
           /\ v.thread.loading \/ (v.thread = u.thread /\ Task(u) = Task(ui))
<1>1. CASE Task(u) # Task(ui) \/ "thread" \in again
  <2>1. v = [u EXCEPT !.thread.loading = TRUE, !.thread.failed = FALSE]
    BY <1>1 DEF Reloading
  <2>2. /\ v.route = u.route /\ v.board = u.board /\ v.row = u.row /\ v.calls = u.calls /\ v.files = u.files
        /\ v.busy = u.busy
        /\ v.thread = [u.thread EXCEPT !.loading = TRUE, !.failed = FALSE]
        /\ v = [route |-> v.route, board |-> v.board, row |-> v.row, files |-> v.files,
                undetailed |-> v.undetailed, thread |-> v.thread, calls |-> v.calls, busy |-> v.busy]
    BY <2>1 DEF UiShape
  <2>3. ThreadShape(v.thread) /\ v.thread.loading
    BY <2>2 DEF UiShape, ThreadShape
  <2> QED
    BY <2>2, <2>3 DEF UiShape
<1>2. CASE ~(Task(u) # Task(ui) \/ "thread" \in again)
  <2>1. v = u
    BY <1>2 DEF Reloading
  <2> QED
    BY <1>2, <2>1
<1> QED
  BY <1>1, <1>2

\* A write that is orphaned stays the write it was.
AlikeCalls(A, B) ==
    \A c \in A : \E d \in B : c.what = d.what /\ c.task = d.task /\ c.base = d.base /\ c.astray = d.astray

LEMMA OrphanedIs ==
    ASSUME NEW A, NEW kinds, \A c \in A : CallShape(c)
    PROVE  AlikeCalls(Orphaned(A, kinds), A) /\ \A c \in Orphaned(A, kinds) : CallShape(c)
<1> SUFFICES ASSUME NEW c \in Orphaned(A, kinds)
             PROVE  /\ CallShape(c)
                    /\ \E d \in A : c.what = d.what /\ c.task = d.task /\ c.base = d.base /\ c.astray = d.astray
  BY DEF AlikeCalls
<1>1. PICK d \in A : c = IF d.what \in kinds THEN [d EXCEPT !.here = FALSE] ELSE d
  BY DEF Orphaned
<1>2. d = [what |-> d.what, task |-> d.task, here |-> d.here, base |-> d.base, item |-> d.item,
           astray |-> d.astray]
  BY DEF CallShape
<1>3. CASE d.what \in kinds
  <2>1. c = [d EXCEPT !.here = FALSE]
    BY <1>1, <1>3
  <2>2. c = [what |-> d.what, task |-> d.task, here |-> FALSE, base |-> d.base, item |-> d.item,
             astray |-> d.astray]
    BY <1>2, <2>1
  <2> QED
    BY <2>2 DEF CallShape
<1>4. CASE d.what \notin kinds
  BY <1>1, <1>4
<1> QED
  BY <1>3, <1>4

LEMMA UnmountedIs ==
    ASSUME NEW u, UiShape(u), NEW v, v = Unmounted(u)
    PROVE  /\ UiShape(v) /\ v.route = u.route /\ v.board = u.board /\ v.row = u.row
           /\ AlikeCalls(v.calls, u.calls)
           /\ v.files = u.files \/ v.files = NoFiles
           /\ v.thread = IF Task(u) = 0 THEN NoThread ELSE u.thread
<1> DEFINE panel == IF u.route # 0 THEN u ELSE
                      [u EXCEPT !.files = NoFiles, !.undetailed = 0, !.busy = @ \ {"files", "tick", "save"},
                                !.calls = Orphaned(@, PanelCalls)]
<1>1. v = IF Task(u) # 0 THEN panel ELSE
            [panel EXCEPT !.thread = NoThread, !.busy = @ \ {"thread", "more"},
                          !.calls = Orphaned(@, ThreadCalls)]
  BY DEF Unmounted
<1>2. FilesShape(NoFiles) /\ ThreadShape(NoThread)
  BY DEF FilesShape, ThreadShape, NoFiles, NoThread
<1>3. /\ UiShape(panel) /\ panel.route = u.route /\ panel.board = u.board /\ panel.row = u.row
      /\ AlikeCalls(panel.calls, u.calls) /\ panel.thread = u.thread
      /\ panel.files = u.files \/ panel.files = NoFiles
  <2>1. AlikeCalls(u.calls, u.calls)
    BY DEF AlikeCalls
  <2>2. CASE u.route # 0
    BY <2>1, <2>2
  <2>3. CASE u.route = 0
    <3>1. PICK p : p = panel
      OBVIOUS
    <3>2. PICK o : o = Orphaned(u.calls, PanelCalls)
      OBVIOUS
    <3>3. p = [u EXCEPT !.files = NoFiles, !.undetailed = 0, !.busy = @ \ {"files", "tick", "save"},
                        !.calls = o]
      BY <2>3, <3>1, <3>2
    <3>4. /\ p.route = u.route /\ p.board = u.board /\ p.row = u.row /\ p.files = NoFiles
          /\ p.thread = u.thread /\ p.calls = o /\ p.busy \subseteq u.busy
          /\ p = [route |-> p.route, board |-> p.board, row |-> p.row, files |-> p.files,
                  undetailed |-> p.undetailed, thread |-> p.thread, calls |-> p.calls, busy |-> p.busy]
      BY <3>3 DEF UiShape
    <3>5. AlikeCalls(o, u.calls) /\ \A c \in o : CallShape(c)
      BY <3>2, OrphanedIs DEF UiShape
    <3>6. UiShape(p)
      BY <1>2, <3>4, <3>5 DEF UiShape
    <3> HIDE DEF panel
    <3> QED
      BY <3>1, <3>4, <3>5, <3>6
  <2> QED
    BY <2>2, <2>3
<1> HIDE DEF panel
<1>4. CASE Task(u) # 0
  BY <1>1, <1>3, <1>4
<1>5. CASE Task(u) = 0
  <2>1. PICK o : o = Orphaned(panel.calls, ThreadCalls)
    OBVIOUS
  <2>2. v = [panel EXCEPT !.thread = NoThread, !.busy = @ \ {"thread", "more"}, !.calls = o]
    BY <1>1, <1>5, <2>1
  <2>3. /\ v.route = u.route /\ v.board = u.board /\ v.row = u.row /\ v.files = panel.files
        /\ v.thread = NoThread /\ v.calls = o /\ v.busy \subseteq panel.busy
        /\ v = [route |-> v.route, board |-> v.board, row |-> v.row, files |-> v.files,
                undetailed |-> v.undetailed, thread |-> v.thread, calls |-> v.calls, busy |-> v.busy]
    BY <1>3, <2>2 DEF UiShape
  <2>4. AlikeCalls(o, panel.calls) /\ \A c \in o : CallShape(c)
    BY <1>3, <2>1, OrphanedIs DEF UiShape
  <2>5. AlikeCalls(o, u.calls)
    BY <1>3, <2>4 DEF AlikeCalls
  <2>6. UiShape(v)
    BY <1>2, <1>3, <2>3, <2>4 DEF UiShape
  <2> QED
    BY <1>3, <1>5, <2>3, <2>5, <2>6
<1> QED
  BY <1>4, <1>5

\* What is rendered of a state that follows.
LEMMA RenderKeeps ==
    ASSUME PanelInv, NEW u, Follows(u), NEW again, again \subseteq PanelReads, RenderedAgain(u, again),
           live' \subseteq live,
           \/ told' = told /\ u.row = ui.row
           \/ /\ u.route = ui.route /\ u.board = ui.board
              /\ Wanted(ui)["row"] # 0 /\ u.row.gone => told' = ui.route
    PROVE  PanelInv'
<1>1. PICK r, l, v : /\ r = Rerequested(u, again) /\ l = Reloading(r, again) /\ v = Unmounted(l)
                     /\ ui' = v
  BY DEF RenderedAgain
<1>2. /\ UiShape(r) /\ r.route = u.route /\ r.board = u.board
      /\ r.files = u.files /\ r.thread = u.thread /\ r.row.gone = u.row.gone
      /\ r.row.failed => /\ u.row.failed
                         /\ Wanted(u)["row"] # 0 => Wanted(u)["row"] = Wanted(ui)["row"]
      /\ \A c \in r.calls : c.what \in PanelReads => c.task = Wanted(u)[c.what]
      /\ \A c \in r.calls : c.what \notin PanelReads => c \in u.calls
  BY <1>1, RerequestedIs DEF PanelInv, Follows
<1>3. /\ UiShape(l) /\ l.route = r.route /\ l.board = r.board /\ l.row = r.row
      /\ l.calls = r.calls /\ l.files = r.files
      /\ l.thread.loading \/ (l.thread = r.thread /\ Task(r) = Task(ui))
  BY <1>1, <1>2, ReloadingIs
<1>4. /\ UiShape(v) /\ v.route = l.route /\ v.board = l.board /\ v.row = l.row
      /\ AlikeCalls(v.calls, l.calls)
      /\ v.files = l.files \/ v.files = NoFiles
      /\ v.thread = IF Task(l) = 0 THEN NoThread ELSE l.thread
  BY <1>1, <1>3, UnmountedIs
<1>5. v.route = u.route /\ v.board = u.board /\ Task(v) = Task(u) /\ Task(l) = Task(u) /\ Task(r) = Task(u)
  BY <1>2, <1>3, <1>4 DEF Task
<1>6. Wanted(v) = Wanted(u)
  BY <1>5 DEF Wanted
<1>7. \A c \in v.calls : c.what \in PanelReads => c.task = Wanted(v)[c.what]
  BY <1>2, <1>3, <1>4, <1>6 DEF AlikeCalls
<1>8. BasesHome(v)
  <2> SUFFICES ASSUME NEW c \in v.calls, c.what \in FileWrites
               PROVE  c.task # 0 /\ (~c.astray => \A i \in c.base : i.of = c.task)
    BY DEF BasesHome
  <2>1. PICK d \in l.calls : c.what = d.what /\ c.task = d.task /\ c.base = d.base /\ c.astray = d.astray
    BY <1>4 DEF AlikeCalls
  <2>2. d \in u.calls
    BY <1>2, <1>3, <2>1 DEF FileWrites, PanelReads
  <2> QED
    BY <2>1, <2>2 DEF Follows, BasesHome
<1>9. FilesHome(v)
  BY <1>2, <1>3, <1>4 DEF FilesHome, Follows, NoFiles
<1>10. Task(v) = 0 => v.thread.loading
  BY <1>4, <1>5 DEF NoThread
<1>11. ThreadHome(v, v.route)
  <2>1. CASE v.thread.loading
    BY <2>1 DEF ThreadHome
  <2>2. CASE ~v.thread.loading
    <3>1. Task(v) # 0
      BY <1>10, <2>2
    <3>2. v.thread = u.thread /\ Task(u) = Task(ui)
      BY <1>2, <1>3, <1>4, <1>5, <2>2, <3>1
    <3>3. v.route = ui.route
      BY <1>5, <3>1, <3>2, WantedIs DEF Follows, PanelInv
    <3> QED
      BY <3>2, <3>3 DEF ThreadHome, Follows
  <2> QED
    BY <2>1, <2>2
<1>12. Wanted(v)["row"] # 0 /\ v.row.failed /\ v.row.gone => told' = v.route
  <2> SUFFICES ASSUME Wanted(v)["row"] # 0, v.row.failed, v.row.gone PROVE told' = v.route
    OBVIOUS
  <2>1. Wanted(u)["row"] # 0 /\ Wanted(u)["row"] = Wanted(ui)["row"] /\ u.row.failed /\ u.row.gone
    BY <1>2, <1>3, <1>4, <1>6
  <2>2. Wanted(u)["row"] = u.route /\ Wanted(ui)["row"] = ui.route
    BY <2>1, WantedIs DEF Follows, PanelInv
  <2> QED
    BY <1>5, <2>1, <2>2 DEF PanelInv
<1>13. /\ live' \subseteq PanelTasks /\ BoardHome(ui') /\ UiShape(ui') /\ BasesHome(ui') /\ FilesHome(ui') /\ ThreadHome(ui', ui'.route)
       /\ \A c \in ui'.calls : c.what \in PanelReads => c.task = Wanted(ui')[c.what]
       /\ Task(ui') = 0 => ui'.thread.loading
       /\ Wanted(ui')["row"] # 0 /\ ui'.row.failed /\ ui'.row.gone => told' = ui'.route
  BY <1>1, <1>4, <1>5, <1>7, <1>8, <1>9, <1>10, <1>11, <1>12 DEF PanelInv, Follows, BoardHome
<1> QED
  BY <1>13 DEF PanelInv


LEMMA UiFollows == ASSUME PanelInv PROVE Follows(ui)
  BY DEF PanelInv, Follows

\* Where the user is, what the board holds and which controls are busy is no part of it.
LEMMA FollowsOn ==
    ASSUME NEW u, Follows(u), NEW w, UiShape(w), BoardHome(w), w.calls \subseteq u.calls,
           w.files = u.files, w.thread = u.thread
    PROVE  Follows(w)
  BY DEF Follows, BasesHome, FilesHome, ThreadHome

LEMMA RouteIs ==
    ASSUME NEW u, UiShape(u), NEW t \in PanelTasks \cup {0}, NEW w, w = [u EXCEPT !.route = t]
    PROVE  UiShape(w) /\ w.calls = u.calls /\ w.files = u.files /\ w.thread = u.thread
           /\ w.row = u.row /\ w.board = u.board
  BY DEF UiShape

LEMMA BoardIs ==
    ASSUME NEW u, UiShape(u), NEW b, NEW w, w = [u EXCEPT !.board = b]
    PROVE  UiShape(w) /\ w.calls = u.calls /\ w.files = u.files /\ w.thread = u.thread
           /\ w.row = u.row /\ w.board = b /\ w.route = u.route
  BY DEF UiShape

LEMMA BusyIs ==
    ASSUME NEW u, UiShape(u), NEW b, b \subseteq Controls, NEW w, w = [u EXCEPT !.busy = b]
    PROVE  UiShape(w) /\ w.calls = u.calls /\ w.files = u.files /\ w.thread = u.thread
           /\ w.row = u.row /\ w.board = u.board /\ w.route = u.route
  BY DEF UiShape

LEMMA WholeIs ==
    ASSUME NEW u, Follows(u), NEW t \in PanelTasks, NEW w, w = Whole(u, t)
    PROVE  Follows(w) /\ w.row = u.row
<1>1. PICK b : b = [s \in DOMAIN u.board \cup {t} |-> IF s = t THEN "whole" ELSE u.board[s]]
  OBVIOUS
<1>2. w = [u EXCEPT !.board = b]
  BY <1>1 DEF Whole
<1>3. UiShape(w) /\ w.calls = u.calls /\ w.files = u.files /\ w.thread = u.thread
      /\ w.row = u.row /\ w.board = b
  BY <1>2, BoardIs DEF Follows
<1>4. BoardHome(w)
  BY <1>1, <1>3 DEF Follows, BoardHome
<1> QED
  BY <1>3, <1>4, FollowsOn

LEMMA PatchedIs ==
    ASSUME NEW u, Follows(u), NEW t, live \subseteq PanelTasks, NEW w \in Patched(u, t)
    PROVE  Follows(w) /\ w.row = u.row
<1>1. CASE w = u
  BY <1>1
<1>2. ASSUME NEW S \in SUBSET live, w = [u EXCEPT !.board = Held(S)] PROVE Follows(w) /\ w.row = u.row
  <2>1. PICK b : b = Held(S)
    OBVIOUS
  <2>2. UiShape(w) /\ w.calls = u.calls /\ w.files = u.files /\ w.thread = u.thread
        /\ w.row = u.row /\ w.board = b
    BY <1>2, <2>1, BoardIs DEF Follows
  <2>3. BoardHome(w)
    BY <2>1, <2>2 DEF Held, BoardHome
  <2> QED
    BY <2>2, <2>3, FollowsOn
<1>3. w = u \/ \E S \in SUBSET live : w = [u EXCEPT !.board = Held(S)]
  BY DEF Patched
<1> QED
  BY <1>1, <1>2, <1>3

LEMMA LandedIs ==
    ASSUME PanelInv, NEW c \in ui.calls, NEW w, w = Landed(c)
    PROVE  /\ Follows(w) /\ w.calls \subseteq ui.calls /\ w.files = ui.files /\ w.thread = ui.thread
           /\ w.row = ui.row /\ w.board = ui.board /\ w.route = ui.route
<1>1. /\ w.calls = ui.calls \ {c} /\ w.files = ui.files /\ w.thread = ui.thread
      /\ w.row = ui.row /\ w.board = ui.board /\ w.route = ui.route /\ UiShape(w)
  BY DEF Landed, PanelInv, UiShape
<1> QED
  BY <1>1, UiFollows, FollowsOn DEF PanelInv, BoardHome

\* The two ways a component is rendered that no read has answered.
LEMMA StepKeeps ==
    ASSUME PanelInv, NEW u, Follows(u), u.row = ui.row, told' = told, live' \subseteq live,
           NEW again \in {{}, {"thread"}, {"row"}}, RenderedAgain(u, again)
    PROVE  PanelInv'
  BY RenderKeeps DEF PanelReads

LEMMA OthersKeep ==
    ASSUME PanelInv, Navigate \/ Redrained \/ RowHeard \/ TaskDeleted \/ RemoteComment \/ Retry
    PROVE  PanelInv'
<1>1. told' = told /\ live' \subseteq live /\ live \subseteq PanelTasks /\ UiShape(ui) /\ BoardHome(ui)
  BY DEF Navigate, Redrained, RowHeard, TaskDeleted, RemoteComment, Retry, PanelInv
<1>2. Follows(ui)
  BY UiFollows
<1>3. CASE Navigate
  <2>1. PICK t, u : t \in PanelTasks \cup {0} /\ u = [ui EXCEPT !.route = t] /\ RenderedAgain(u, {})
    BY <1>3 DEF Navigate, Rendered
  <2>2. UiShape(u) /\ u.calls = ui.calls /\ u.files = ui.files /\ u.thread = ui.thread
        /\ u.row = ui.row /\ u.board = ui.board
    BY <1>1, <2>1, RouteIs
  <2>3. Follows(u)
    BY <1>1, <1>2, <2>2, FollowsOn DEF BoardHome
  <2> QED
    BY <1>1, <2>1, <2>2, <2>3, StepKeeps
<1>4. CASE Redrained
  <2>1. \E S \in SUBSET live, again \in {{}, {"thread"}} : RenderedAgain([ui EXCEPT !.board = Held(S)], again)
    BY <1>4 DEF Redrained
  <2>2. PICK S, again, u, b : /\ S \in SUBSET live /\ again \in {{}, {"thread"}} /\ b = Held(S)
                              /\ u = [ui EXCEPT !.board = b] /\ RenderedAgain(u, again)
    BY <2>1
  <2>3. UiShape(u) /\ u.calls = ui.calls /\ u.files = ui.files /\ u.thread = ui.thread
        /\ u.row = ui.row /\ u.board = b
    BY <1>1, <2>2, BoardIs
  <2>4. BoardHome(u)
    BY <1>1, <2>2, <2>3 DEF Held, BoardHome
  <2>5. Follows(u)
    BY <1>2, <2>3, <2>4, FollowsOn
  <2> QED
    BY <1>1, <2>2, <2>3, <2>5, StepKeeps
<1>5. CASE RowHeard
  <2>1. PICK t, u : t \in live /\ u = Whole(ui, t) /\ RenderedAgain(u, {})
    BY <1>5 DEF RowHeard, Rendered
  <2>2. Follows(u) /\ u.row = ui.row
    BY <1>1, <1>2, <2>1, WholeIs
  <2> QED
    BY <1>1, <2>1, <2>2, StepKeeps
<1>6. CASE TaskDeleted
  <2>1. PICK t, b, u : /\ b = [s \in DOMAIN ui.board \ {t} |-> ui.board[s]]
                       /\ u = [ui EXCEPT !.board = b] /\ RenderedAgain(u, {})
    BY <1>6 DEF TaskDeleted, Rendered
  <2>2. UiShape(u) /\ u.calls = ui.calls /\ u.files = ui.files /\ u.thread = ui.thread
        /\ u.row = ui.row /\ u.board = b
    BY <1>1, <2>1, BoardIs
  <2>3. BoardHome(u)
    BY <1>1, <2>1, <2>2 DEF BoardHome
  <2>4. Follows(u)
    BY <1>2, <2>2, <2>3, FollowsOn
  <2> QED
    BY <1>1, <2>1, <2>2, <2>4, StepKeeps
<1>7. CASE RemoteComment
  <2>1. PICK again \in {{}, {"thread"}} : RenderedAgain(ui, again)
    BY <1>7 DEF RemoteComment, CommentHeard, Rendered
  <2> QED
    BY <1>1, <1>2, <2>1, StepKeeps
<1>8. CASE Retry
  <2>1. RenderedAgain(ui, {"row"})
    BY <1>8 DEF Retry
  <2> QED
    BY <1>1, <1>2, <2>1, StepKeeps
<1> QED
  BY <1>3, <1>4, <1>5, <1>6, <1>7, <1>8

LEMMA ReadsKeep == ASSUME PanelInv, ReadLands PROVE PanelInv'
<1>1. PICK c \in ui.calls :
         /\ RowAnswered(c) \/ FilesAnswered(c) \/ DetailAnswered(c) \/ ThreadAnswered(c) \/ ReadFailed(c)
         /\ told' = IF c.what = "row" /\ c.task \notin live THEN c.task ELSE told
         /\ live' = live
  BY DEF ReadLands
<1>2. live' \subseteq live /\ live \subseteq PanelTasks
  BY <1>1 DEF PanelInv
<1>3. PICK w : w = Landed(c)
  OBVIOUS
<1>4. /\ Follows(w) /\ w.calls \subseteq ui.calls /\ w.files = ui.files /\ w.thread = ui.thread
      /\ w.row = ui.row /\ w.board = ui.board /\ w.route = ui.route
  BY <1>3, LandedIs
<1>5. UiShape(w)
  BY <1>4 DEF Follows
<1>6. c.what \in PanelReads => c.task = Wanted(ui)[c.what]
  BY DEF PanelInv
<1>7. Task(ui) # 0 => ui.route = Task(ui)
  BY WantedIs DEF PanelInv
<1>8. CASE RowAnswered(c)
  <2>1. c.task \in live /\ RenderedAgain(Whole(w, c.task), {})
    BY <1>3, <1>8 DEF RowAnswered, Rendered
  <2>2. PICK u : u = Whole(w, c.task)
    OBVIOUS
  <2>3. Follows(u) /\ u.row = ui.row
    BY <1>2, <1>4, <2>1, <2>2, WholeIs
  <2> QED
    BY <1>1, <1>2, <2>1, <2>2, <2>3, StepKeeps
<1>9. CASE FilesAnswered(c)
  <2>1. PICK u : /\ u = [w EXCEPT !.files = [items |-> Of("file", c.task), of |-> c.task,
                                             failed |-> 0, strayed |-> FALSE]]
                 /\ RenderedAgain(u, {}) /\ c.what = "files"
    BY <1>3, <1>9 DEF FilesAnswered, Rendered
  <2>2. /\ u.calls = w.calls /\ u.thread = w.thread /\ u.row = w.row /\ u.board = w.board
        /\ u.route = w.route /\ u.busy = w.busy
        /\ u.files = [items |-> Of("file", c.task), of |-> c.task, failed |-> 0, strayed |-> FALSE]
        /\ u = [route |-> u.route, board |-> u.board, row |-> u.row, files |-> u.files,
                undetailed |-> u.undetailed, thread |-> u.thread, calls |-> u.calls, busy |-> u.busy]
    BY <1>5, <2>1 DEF UiShape
  <2>3. FilesShape(u.files) /\ FilesHome(u)
    <3>1. c.task # 0
      BY <1>2, <1>9, PanelAssumption DEF FilesAnswered
    <3> QED
      BY <2>2, <3>1 DEF FilesShape, FilesHome, Of
  <2>4. UiShape(u)
    BY <1>5, <2>2, <2>3 DEF UiShape
  <2>5. Follows(u)
    BY <1>4, <2>2, <2>3, <2>4 DEF Follows, BoardHome, BasesHome, ThreadHome
  <2>6. told' = told /\ u.row = ui.row
    BY <1>1, <1>4, <2>1, <2>2
  <2> QED
    BY <1>2, <2>1, <2>5, <2>6, StepKeeps
<1>10. CASE DetailAnswered(c)
  <2>1. PICK v, u : /\ v = [w EXCEPT !.undetailed = 0] /\ u = Whole(v, c.task)
                    /\ RenderedAgain(u, {}) /\ c.what = "detail" /\ c.task \in live
    BY <1>3, <1>10 DEF DetailAnswered, Rendered
  <2>2. UiShape(v) /\ v.calls = w.calls /\ v.files = w.files /\ v.thread = w.thread
        /\ v.row = w.row /\ v.board = w.board
    BY <1>5, <2>1 DEF UiShape
  <2>3. Follows(v)
    BY <1>4, <2>2, FollowsOn DEF Follows, BoardHome
  <2>4. Follows(u) /\ u.row = ui.row
    <3>1. c.task \in PanelTasks /\ v.row = ui.row
      BY <1>2, <1>4, <2>1, <2>2
    <3>2. Follows(u) /\ u.row = v.row
      BY <2>1, <2>3, <3>1, WholeIs
    <3> QED
      BY <3>1, <3>2
  <2> QED
    BY <1>1, <1>2, <2>1, <2>4, StepKeeps
<1>11. CASE ThreadAnswered(c)
  <2>1. PICK cursor, u :
           /\ u = [w EXCEPT !.thread = [items |-> Page(c.task, 0), cursor |-> cursor,
                                        loading |-> FALSE, failed |-> FALSE, strayed |-> FALSE]]
           /\ RenderedAgain(u, {}) /\ c.what = "thread" /\ c.task \in live
    BY <1>3, <1>11 DEF ThreadAnswered, Rendered
  <2>2. /\ u.calls = w.calls /\ u.files = w.files /\ u.row = w.row /\ u.board = w.board
        /\ u.route = w.route /\ u.busy = w.busy
        /\ u.thread = [items |-> Page(c.task, 0), cursor |-> cursor,
                       loading |-> FALSE, failed |-> FALSE, strayed |-> FALSE]
        /\ u = [route |-> u.route, board |-> u.board, row |-> u.row, files |-> u.files,
                undetailed |-> u.undetailed, thread |-> u.thread, calls |-> u.calls, busy |-> u.busy]
    BY <1>5, <2>1 DEF UiShape
  <2>3. ThreadShape(u.thread)
    BY <2>2 DEF ThreadShape
  <2>4. UiShape(u)
    BY <1>5, <2>2, <2>3 DEF UiShape
  <2>5. c.task = ui.route
    <3>1. c.task = Task(ui)
      BY <1>6, <2>1, WantedIs DEF PanelReads, PanelInv
    <3>2. c.task # 0
      BY <1>2, <2>1, PanelAssumption
    <3> QED
      BY <1>7, <3>1, <3>2
  <2>6. ThreadHome(u, ui.route)
    BY <2>2, <2>5 DEF ThreadHome, Page, Of
  <2>7. Follows(u)
    BY <1>4, <2>2, <2>4, <2>6 DEF Follows, BoardHome, BasesHome, FilesHome
  <2>8. told' = told /\ u.row = ui.row
    BY <1>1, <1>4, <2>1, <2>2
  <2> QED
    BY <1>2, <2>1, <2>7, <2>8, StepKeeps
<1>12. CASE ReadFailed(c)
  <2>1. c.what \in PanelReads
    BY <1>12 DEF ReadFailed
  <2>2. CASE c.what = "row"
    <3>1. PICK u, gone : /\ gone \in BOOLEAN /\ (gone <=> c.task \notin live)
                         /\ u = [w EXCEPT !.row = [failed |-> TRUE, gone |-> gone]]
                         /\ RenderedAgain(u, {})
      BY <1>3, <1>12, <2>2 DEF ReadFailed, Rendered
    <3>2. /\ UiShape(u) /\ u.calls = w.calls /\ u.files = w.files /\ u.thread = w.thread
          /\ u.board = w.board /\ u.route = w.route /\ u.row = [failed |-> TRUE, gone |-> gone]
      BY <1>5, <3>1 DEF UiShape
    <3>3. Follows(u)
      BY <1>4, <3>2, FollowsOn DEF Follows, BoardHome
    <3>4. Wanted(ui)["row"] # 0 /\ u.row.gone => told' = ui.route
      <4>1. Wanted(ui)["row"] # 0 => Wanted(ui)["row"] = ui.route
        BY WantedIs DEF PanelInv
      <4> QED
        <5>1. c.task = Wanted(ui)["row"]
          BY <1>6, <2>1, <2>2
        <5>2. u.row.gone => told' = c.task
          <6>1. u.row.gone => gone
            BY <3>2
          <6> QED
            BY <1>1, <2>2, <3>1, <6>1
        <5> QED
          BY <4>1, <5>1, <5>2
    <3>5. u.route = ui.route /\ u.board = ui.board /\ {} \subseteq PanelReads
      BY <1>4, <3>2
    <3> QED
      <4>1. RenderedAgain(u, {})
        BY <3>1
      <4> QED
        BY <1>2, <3>3, <3>4, <3>5, <4>1, RenderKeeps, Zenon
  <2>3. told' = told \/ c.what = "row"
    BY <1>1
  <2>4. CASE c.what = "files"
    <3>1. PICK u : u = [w EXCEPT !.files.failed = c.task] /\ RenderedAgain(u, {})
      BY <1>3, <1>12, <2>4 DEF ReadFailed, Rendered
    <3>2. /\ u.calls = w.calls /\ u.thread = w.thread /\ u.row = w.row /\ u.board = w.board
          /\ u.route = w.route /\ u.busy = w.busy
          /\ u.files = [w.files EXCEPT !.failed = c.task]
          /\ u = [route |-> u.route, board |-> u.board, row |-> u.row, files |-> u.files,
                  undetailed |-> u.undetailed, thread |-> u.thread, calls |-> u.calls, busy |-> u.busy]
      BY <1>5, <3>1 DEF UiShape
    <3>3. FilesShape(u.files) /\ u.files.items = w.files.items /\ u.files.of = w.files.of
          /\ u.files.strayed = w.files.strayed
      BY <1>5, <3>2 DEF UiShape, FilesShape
    <3>4. UiShape(u)
      BY <1>5, <3>2, <3>3 DEF UiShape
    <3>5. Follows(u)
      BY <1>4, <3>2, <3>3, <3>4 DEF Follows, BoardHome, BasesHome, FilesHome, ThreadHome
    <3> QED
      BY <1>2, <1>4, <2>3, <2>4, <3>1, <3>2, <3>5, StepKeeps
  <2>5. CASE c.what = "detail"
    <3>1. PICK u : u = [w EXCEPT !.undetailed = c.task] /\ RenderedAgain(u, {})
      BY <1>3, <1>12, <2>5 DEF ReadFailed, Rendered
    <3>2. UiShape(u) /\ u.calls = w.calls /\ u.files = w.files /\ u.thread = w.thread
          /\ u.row = w.row /\ u.board = w.board
      BY <1>5, <3>1 DEF UiShape
    <3>3. Follows(u)
      BY <1>4, <3>2, FollowsOn DEF Follows, BoardHome
    <3> QED
      BY <1>2, <1>4, <2>3, <2>5, <3>1, <3>2, <3>3, StepKeeps
  <2>6. CASE c.what = "thread"
    <3> DEFINE h == [NoThread EXCEPT !.loading = FALSE, !.failed = TRUE]
    <3>1. PICK u : u = [w EXCEPT !.thread = h] /\ RenderedAgain(u, {})
      BY <1>3, <1>12, <2>6 DEF ReadFailed, Rendered
    <3>2. h \in [items : {{}}, cursor : {0}, loading : BOOLEAN, failed : BOOLEAN, strayed : BOOLEAN]
      <4>1. NoThread \in [items : {{}}, cursor : {0}, loading : BOOLEAN, failed : BOOLEAN, strayed : BOOLEAN]
        BY DEF NoThread
      <4> QED
        BY <4>1
    <3> HIDE DEF h
    <3>6. ThreadShape(h) /\ h.items = {}
      BY <3>2 DEF ThreadShape
    <3>3. /\ u.calls = w.calls /\ u.files = w.files /\ u.row = w.row /\ u.board = w.board /\ u.thread = h
          /\ u.route = w.route /\ u.busy = w.busy
          /\ u = [route |-> u.route, board |-> u.board, row |-> u.row, files |-> u.files,
                  undetailed |-> u.undetailed, thread |-> u.thread, calls |-> u.calls, busy |-> u.busy]
      BY <1>5, <3>1 DEF UiShape
    <3>4. UiShape(u)
      BY <1>5, <3>3, <3>6 DEF UiShape
    <3>5. Follows(u)
      BY <1>4, <3>3, <3>4, <3>6 DEF Follows, BoardHome, BasesHome, FilesHome, ThreadHome
    <3> QED
      BY <1>2, <1>4, <2>3, <2>6, <3>1, <3>3, <3>5, StepKeeps
  <2> QED
    BY <2>1, <2>2, <2>4, <2>5, <2>6 DEF PanelReads
<1> QED
  BY <1>1, <1>8, <1>9, <1>10, <1>11, <1>12

\* A write begins: it is one more call, from the rows that are shown.
LEMMA BegunKeeps ==
    ASSUME PanelInv, NEW what \in PanelCalls \cup ThreadCalls, what \notin PanelReads,
           NEW flag \in Controls, NEW base, NEW item,
           Begun(what, flag, base, item), what \in FileWrites => base = FileRows(ui)
    PROVE  PanelInv'
<1> DEFINE new == [what |-> what, task |-> ui.route, here |-> TRUE, base |-> base, item |-> item,
                   astray |-> ui.files.strayed]
           busy == ui.busy \cup {flag}
<1>1. busy \subseteq Controls
  BY DEF PanelInv, UiShape
<1>2. /\ ui' = [ui EXCEPT !.busy = busy, !.calls = @ \cup {new}]
      /\ Task(ui) # 0 /\ UNCHANGED <<live, told>>
  BY DEF Begun
<1>3. UiShape(ui)
  BY DEF PanelInv
<1>4. ui.route = Task(ui) /\ ui.route \in PanelTasks
  BY <1>2, <1>3, WantedIs DEF PanelInv, UiShape
<1>5. CallShape(new) /\ new.what = what /\ new.task = ui.route /\ new.base = base
      /\ new.astray = ui.files.strayed
  BY <1>3, <1>4 DEF CallShape, UiShape, FilesShape
<1>6. what \in FileWrites /\ ~ui.files.strayed => \A i \in base : i.of = ui.route
  BY <1>4 DEF PanelInv, FilesHome, FileRows
<1> HIDE DEF new, busy
<1>7. /\ ui'.route = ui.route /\ ui'.board = ui.board /\ ui'.row = ui.row /\ ui'.files = ui.files
      /\ ui'.thread = ui.thread /\ ui'.calls = ui.calls \cup {new} /\ ui'.busy = busy
      /\ ui' = [route |-> ui'.route, board |-> ui'.board, row |-> ui'.row, files |-> ui'.files,
                undetailed |-> ui'.undetailed, thread |-> ui'.thread, calls |-> ui'.calls,
                busy |-> ui'.busy]
  BY <1>2, <1>3 DEF UiShape
<1>8. UiShape(ui')
  BY <1>1, <1>3, <1>5, <1>7 DEF UiShape
<1>9. Task(ui') = Task(ui) /\ Wanted(ui') = Wanted(ui)
  BY <1>7 DEF Task, Wanted
<1>10. BasesHome(ui')
  <2> SUFFICES ASSUME NEW c \in ui'.calls, c.what \in FileWrites
               PROVE  c.task # 0 /\ (~c.astray => \A i \in c.base : i.of = c.task)
    BY DEF BasesHome
  <2>1. CASE c \in ui.calls
    BY <2>1 DEF PanelInv, BasesHome
  <2>2. CASE c = new
    BY <1>2, <1>5, <1>4, <1>6, <2>2
  <2> QED
    BY <1>7, <2>1, <2>2
<1>11. \A c \in ui'.calls : c.what \in PanelReads => c.task = Wanted(ui')[c.what]
  BY <1>5, <1>7, <1>9 DEF PanelInv
<1> QED
  BY <1>2, <1>7, <1>8, <1>9, <1>10, <1>11 DEF PanelInv, BoardHome, FilesHome, ThreadHome

LEMMA BeginningsKeep ==
    ASSUME PanelInv, Upload \/ RemoveFile \/ Tick \/ Save \/ Post \/ RemoveComment \/ LoadMore
    PROVE  PanelInv'
<1>1. {"upload", "unfile", "tick", "save", "post", "unpost", "more"} \cap PanelReads = {}
      /\ {"upload", "unfile", "tick", "save", "post", "unpost", "more"} \subseteq PanelCalls \cup ThreadCalls
      /\ {"files", "tick", "save", "thread", "more"} \subseteq Controls
  BY DEF PanelReads, PanelCalls, ThreadCalls, Controls
<1>2. CASE Upload
  BY <1>1, <1>2, BegunKeeps DEF Upload
<1>3. CASE RemoveFile
  BY <1>1, <1>3, BegunKeeps DEF RemoveFile
<1>4. CASE Tick
  BY <1>1, <1>4, BegunKeeps DEF Tick, FileWrites
<1>5. CASE Save
  BY <1>1, <1>5, BegunKeeps DEF Save, FileWrites
<1>6. CASE Post
  BY <1>1, <1>6, BegunKeeps DEF Post, FileWrites
<1>7. CASE RemoveComment
  BY <1>1, <1>7, BegunKeeps DEF RemoveComment, FileWrites
<1>8. CASE LoadMore
  BY <1>1, <1>8, BegunKeeps DEF LoadMore, FileWrites
<1> QED
  BY <1>2, <1>3, <1>4, <1>5, <1>6, <1>7, <1>8

\* A write to the attachments lands, in the list it began from or in another.
LEMMA FilesWrittenIs ==
    ASSUME PanelInv, NEW c \in ui.calls, c.what \in FileWrites,
           NEW items, ~c.astray => \A i \in items : i.of = c.task,
           NEW u, u = FilesWritten(c, items)
    PROVE  Follows(u) /\ u.row = ui.row
<1>1. PICK w : w = Landed(c)
  OBVIOUS
<1>2. /\ Follows(w) /\ w.calls \subseteq ui.calls /\ w.files = ui.files /\ w.thread = ui.thread
      /\ w.row = ui.row /\ w.board = ui.board
  BY <1>1, LandedIs
<1>3. CASE ~c.here
  BY <1>1, <1>2, <1>3 DEF FilesWritten
<1>4. CASE c.here
  <2>1. PICK strayed \in BOOLEAN : strayed <=> ui.files.strayed \/ c.astray \/ ui.files.of # c.task
    OBVIOUS
  <2>2. PICK busy : busy = w.busy \ {"files"}
    OBVIOUS
  <2>3. u = [w EXCEPT !.busy = busy, !.files.items = items, !.files.strayed = strayed]
    <3>1. u = [w EXCEPT !.busy = @ \ {"files"}, !.files.items = items,
                        !.files.strayed = @ \/ c.astray \/ ui.files.of # c.task]
      BY <1>1, <1>4 DEF FilesWritten
    <3>2. w.files.strayed \in BOOLEAN
      BY <1>2 DEF Follows, UiShape, FilesShape
    <3>3. strayed = (w.files.strayed \/ c.astray \/ ui.files.of # c.task)
      BY <1>2, <2>1
    <3> QED
      BY <2>2, <3>1, <3>3
  <2>4. /\ u.calls = w.calls /\ u.thread = w.thread /\ u.row = w.row /\ u.board = w.board
        /\ u.route = w.route /\ u.busy = busy
        /\ u.files = [w.files EXCEPT !.items = items, !.strayed = strayed]
        /\ u = [route |-> u.route, board |-> u.board, row |-> u.row, files |-> u.files,
                undetailed |-> u.undetailed, thread |-> u.thread, calls |-> u.calls, busy |-> u.busy]
    BY <1>2, <2>3 DEF Follows, UiShape
  <2>5. FilesShape(u.files) /\ u.files.items = items /\ u.files.of = ui.files.of
        /\ u.files.strayed = strayed
    BY <1>2, <2>4 DEF Follows, UiShape, FilesShape
  <2>6. FilesHome(u)
    BY <2>1, <2>5 DEF FilesHome, PanelInv, BasesHome
  <2>7. UiShape(u)
    BY <1>2, <2>2, <2>4, <2>5 DEF Follows, UiShape
  <2> QED
    BY <1>2, <2>4, <2>6, <2>7 DEF Follows, BoardHome, BasesHome, ThreadHome
<1> QED
  BY <1>3, <1>4

\* A write to the thread lands; it takes the rows that are there then.
LEMMA ThreadWrittenIs ==
    ASSUME PanelInv, NEW c \in ui.calls, NEW flag, NEW items,
           \A i \in items : i \in ui.thread.items \/ i.of = c.task,
           NEW u, u = ThreadWritten(c, flag, items)
    PROVE  Follows(u) /\ u.row = ui.row
<1>1. PICK w : w = Landed(c)
  OBVIOUS
<1>2. /\ Follows(w) /\ w.calls \subseteq ui.calls /\ w.files = ui.files /\ w.thread = ui.thread
      /\ w.row = ui.row /\ w.board = ui.board
  BY <1>1, LandedIs
<1>3. CASE ~c.here
  BY <1>1, <1>2, <1>3 DEF ThreadWritten
<1>4. CASE c.here
  <2>1. PICK strayed \in BOOLEAN : strayed <=> ui.thread.strayed \/ Task(ui) # c.task
    OBVIOUS
  <2>2. PICK busy : busy = w.busy \ {flag}
    OBVIOUS
  <2>3. u = [w EXCEPT !.busy = busy, !.thread.items = items, !.thread.strayed = strayed]
    <3>1. u = [w EXCEPT !.busy = @ \ {flag}, !.thread.items = items,
                        !.thread.strayed = @ \/ Task(ui) # c.task]
      BY <1>1, <1>4 DEF ThreadWritten
    <3>2. w.thread.strayed \in BOOLEAN
      BY <1>2 DEF Follows, UiShape, ThreadShape
    <3>3. strayed = (w.thread.strayed \/ Task(ui) # c.task)
      BY <1>2, <2>1
    <3> QED
      BY <2>2, <3>1, <3>3
  <2>4. /\ u.calls = w.calls /\ u.files = w.files /\ u.row = w.row /\ u.board = w.board
        /\ u.route = w.route /\ u.busy = busy
        /\ u.thread = [w.thread EXCEPT !.items = items, !.strayed = strayed]
        /\ u = [route |-> u.route, board |-> u.board, row |-> u.row, files |-> u.files,
                undetailed |-> u.undetailed, thread |-> u.thread, calls |-> u.calls, busy |-> u.busy]
    BY <1>2, <2>3 DEF Follows, UiShape
  <2>5. ThreadShape(u.thread) /\ u.thread.items = items /\ u.thread.loading = ui.thread.loading
        /\ u.thread.strayed = strayed
    BY <1>2, <2>4 DEF Follows, UiShape, ThreadShape
  <2>6. ThreadHome(u, ui.route)
    <3> SUFFICES ASSUME ~strayed, ~ui.thread.loading, NEW i \in items PROVE i.of = ui.route
      BY <2>5 DEF ThreadHome
    <3>1. Task(ui) = c.task /\ Task(ui) # 0 /\ ~ui.thread.strayed
      BY <2>1 DEF PanelInv
    <3>2. ui.route = c.task
      BY <3>1, WantedIs DEF PanelInv
    <3> QED
      BY <3>1, <3>2 DEF PanelInv, ThreadHome
  <2>7. UiShape(u)
    BY <1>2, <2>2, <2>4, <2>5 DEF Follows, UiShape
  <2> QED
    BY <1>2, <2>4, <2>6, <2>7 DEF Follows, BoardHome, BasesHome, FilesHome
<1> QED
  BY <1>3, <1>4

LEMMA FreshIs == ASSUME NEW kind, NEW t PROVE Fresh(kind, t).of = t
  BY DEF Fresh

LEMMA WritesKeep == ASSUME PanelInv, WriteLands PROVE PanelInv'
<1>1. PICK c \in ui.calls :
         \/ FileStored(c) \/ FileRemoved(c) \/ RowWritten(c) \/ Posted(c) \/ CommentRemoved(c)
         \/ MoreCame(c) \/ TrailCame(c) \/ ListWriteFailed(c) \/ RowWriteFailed(c)
  BY DEF WriteLands
<1>2. told' = told /\ live' \subseteq live /\ live \subseteq PanelTasks
  BY DEF WriteLands, PanelInv
<1>3. PICK w : w = Landed(c)
  OBVIOUS
<1>4. /\ Follows(w) /\ w.calls \subseteq ui.calls /\ w.files = ui.files /\ w.thread = ui.thread
      /\ w.row = ui.row /\ w.board = ui.board
  BY <1>3, LandedIs
<1>5. ASSUME NEW u, Follows(u), u.row = ui.row, RenderedAgain(u, {}) \/ RenderedAgain(u, {"thread"})
      PROVE  PanelInv'
  BY <1>2, <1>5, StepKeeps
<1>6. c.what \in FileWrites /\ ~c.astray => \A i \in c.base : i.of = c.task
  BY DEF PanelInv, BasesHome
<1>7. ASSUME NEW busy, busy \subseteq w.busy, NEW u, u = [w EXCEPT !.busy = busy] PROVE Follows(u) /\ u.row = ui.row
  <2>1. UiShape(u) /\ u.calls = w.calls /\ u.files = w.files /\ u.thread = w.thread
        /\ u.row = w.row /\ u.board = w.board
    <3>1. busy \subseteq Controls
      BY <1>4, <1>7 DEF Follows, UiShape
    <3> QED
      BY <1>4, <1>7, <3>1, BusyIs DEF Follows
  <2> QED
    BY <1>4, <2>1, FollowsOn DEF Follows, BoardHome
<1>8. ASSUME NEW items, c.what \in FileWrites, ~c.astray => \A i \in items : i.of = c.task,
             \E u \in Patched(FilesWritten(c, items), c.task) : RenderedAgain(u, {})
      PROVE  PanelInv'
  <2>1. PICK v : v = FilesWritten(c, items)
    OBVIOUS
  <2>2. Follows(v) /\ v.row = ui.row
    BY <1>8, <2>1, FilesWrittenIs
  <2>3. PICK u \in Patched(v, c.task) : RenderedAgain(u, {})
    BY <1>8, <2>1
  <2>4. Follows(u) /\ u.row = v.row
    BY <1>2, <2>2, <2>3, PatchedIs
  <2> QED
    BY <1>5, <2>2, <2>3, <2>4
<1>9. CASE FileStored(c)
  <2>1. PICK new : new = Fresh("file", c.task)
    OBVIOUS
  <2>2. new.of = c.task
    BY <2>1, FreshIs
  <2>3. c.what = "upload" /\ \E u \in Patched(FilesWritten(c, c.base \cup {new}), c.task) : RenderedAgain(u, {})
    BY <1>9, <2>1 DEF FileStored, Rendered
  <2>4. ~c.astray => \A i \in c.base \cup {new} : i.of = c.task
    BY <1>6, <2>2, <2>3 DEF FileWrites
  <2> QED
    BY <1>8, <2>3, <2>4 DEF FileWrites
<1>10. CASE FileRemoved(c)
  <2>1. c.what = "unfile" /\ \E u \in Patched(FilesWritten(c, c.base \ c.item), c.task) : RenderedAgain(u, {})
    BY <1>10 DEF FileRemoved, Rendered
  <2>2. ~c.astray => \A i \in c.base \ c.item : i.of = c.task
    BY <1>6, <2>1 DEF FileWrites
  <2> QED
    BY <1>8, <2>1, <2>2 DEF FileWrites
<1>11. CASE RowWritten(c)
  <2>1. PICK busy, v, u : /\ busy \subseteq w.busy
                          /\ v = [w EXCEPT !.busy = busy] /\ u = Whole(v, c.task)
                          /\ RenderedAgain(u, {}) /\ c.task \in live
    BY <1>3, <1>11 DEF RowWritten, Rendered
  <2>2. Follows(v) /\ v.row = ui.row
    BY <1>7, <2>1
  <2>3. Follows(u) /\ u.row = v.row
    BY <1>2, <2>1, <2>2, WholeIs
  <2> QED
    BY <1>5, <2>1, <2>2, <2>3
<1>12. CASE Posted(c)
  <2>1. PICK new : new = Fresh("note", c.task)
    OBVIOUS
  <2>2. new.of = c.task
    BY <2>1, FreshIs
  <2>3. PICK v : v = ThreadWritten(c, "thread", ui.thread.items \cup {new})
    OBVIOUS
  <2>4. Follows(v) /\ v.row = ui.row
    BY <2>2, <2>3, ThreadWrittenIs
  <2>5. PICK d : d = [c EXCEPT !.what = "trail"]
    OBVIOUS
  <2>6. PICK u : u = [v EXCEPT !.calls = @ \cup {d}]
    OBVIOUS
  <2>7. RenderedAgain(u, {}) \/ RenderedAgain(u, {"thread"})
    BY <1>12, <2>1, <2>3, <2>5, <2>6 DEF Posted, CommentHeard, Rendered
  <2>8. CallShape(d) /\ d.what = "trail"
    <3>1. CallShape(c)
      BY DEF PanelInv, UiShape
    <3>2. d = [what |-> "trail", task |-> c.task, here |-> c.here, base |-> c.base, item |-> c.item,
               astray |-> c.astray]
      BY <2>5, <3>1 DEF CallShape
    <3> QED
      BY <3>1, <3>2 DEF CallShape, ThreadCalls
  <2>9. /\ u.calls = v.calls \cup {d} /\ u.files = v.files /\ u.thread = v.thread /\ u.row = v.row
        /\ u.board = v.board /\ u.route = v.route /\ u.busy = v.busy
        /\ u = [route |-> u.route, board |-> u.board, row |-> u.row, files |-> u.files,
                undetailed |-> u.undetailed, thread |-> u.thread, calls |-> u.calls, busy |-> u.busy]
    BY <2>4, <2>6 DEF Follows, UiShape
  <2>10. UiShape(u)
    BY <2>4, <2>8, <2>9 DEF Follows, UiShape
  <2>11. Follows(u)
    BY <2>4, <2>8, <2>9, <2>10
       DEF Follows, BoardHome, BasesHome, FilesHome, ThreadHome, PanelReads, FileWrites
  <2> QED
    BY <1>5, <2>4, <2>7, <2>9, <2>11
<1>13. CASE CommentRemoved(c)
  <2>1. PICK u : u = ThreadWritten(c, "thread", ui.thread.items \ c.item) /\ RenderedAgain(u, {})
    BY <1>13 DEF CommentRemoved, Rendered
  <2>2. Follows(u) /\ u.row = ui.row
    BY <2>1, ThreadWrittenIs
  <2> QED
    BY <1>5, <2>1, <2>2
<1>14. CASE MoreCame(c)
  <2>0. PICK from : Rendered(
          LET u == ThreadWritten(c, "more", ui.thread.items \cup Page(c.task, from)) IN
          IF c.here THEN [u EXCEPT !.thread.cursor = NextCursor(c.task, from)] ELSE u)
    BY <1>14 DEF MoreCame
  <2>1. PICK v : v = ThreadWritten(c, "more", ui.thread.items \cup Page(c.task, from))
    OBVIOUS
  <2>2. \A i \in Page(c.task, from) : i.of = c.task
    BY DEF Page, Of
  <2>3. Follows(v) /\ v.row = ui.row
    BY <2>1, <2>2, ThreadWrittenIs
  <2>4. PICK cursor, u : (u = v \/ u = [v EXCEPT !.thread.cursor = cursor]) /\ RenderedAgain(u, {})
    BY <2>0, <2>1 DEF Rendered
  <2>5. CASE u = v
    BY <1>5, <2>3, <2>4, <2>5
  <2>6. CASE u = [v EXCEPT !.thread.cursor = cursor]
    <3>1. /\ u.calls = v.calls /\ u.files = v.files /\ u.row = v.row /\ u.board = v.board
          /\ u.route = v.route /\ u.busy = v.busy
          /\ u.thread = [v.thread EXCEPT !.cursor = cursor]
          /\ u = [route |-> u.route, board |-> u.board, row |-> u.row, files |-> u.files,
                  undetailed |-> u.undetailed, thread |-> u.thread, calls |-> u.calls, busy |-> u.busy]
      BY <2>3, <2>6 DEF Follows, UiShape
    <3>2. ThreadShape(u.thread) /\ u.thread.items = v.thread.items
          /\ u.thread.loading = v.thread.loading /\ u.thread.strayed = v.thread.strayed
      BY <2>3, <3>1 DEF Follows, UiShape, ThreadShape
    <3>3. UiShape(u)
      BY <2>3, <3>1, <3>2 DEF Follows, UiShape
    <3>4. Follows(u)
      BY <2>3, <3>1, <3>2, <3>3 DEF Follows, BoardHome, BasesHome, FilesHome, ThreadHome
    <3> QED
      BY <1>5, <2>3, <2>4, <3>1, <3>4
  <2> QED
    BY <2>4, <2>5, <2>6
<1>15. CASE TrailCame(c)
  <2>1. RenderedAgain(w, {})
    BY <1>3, <1>15 DEF TrailCame, Rendered
  <2> QED
    BY <1>4, <1>5, <2>1
<1>16. CASE ListWriteFailed(c)
  <2>1. PICK busy, u : busy \subseteq w.busy /\ u = [w EXCEPT !.busy = busy] /\ RenderedAgain(u, {})
    BY <1>3, <1>16 DEF ListWriteFailed, Rendered
  <2> QED
    BY <1>5, <1>7, <2>1
<1>17. CASE RowWriteFailed(c)
  <2> DEFINE busy == IF c.here THEN w.busy \ {c.what} ELSE w.busy
             v == [w EXCEPT !.busy = busy]
             whole(u) == IF c.what = "tick" /\ c.task \in DOMAIN u.board THEN Whole(u, c.task) ELSE u
  <2>1. PICK u \in Patched(v, c.task) :
           Rendered(IF c.what = "save" /\ c.task \notin live THEN [whole(u) EXCEPT !.route = 0]
                                                            ELSE whole(u))
    BY <1>3, <1>17, Zenon DEF RowWriteFailed
  <2>2. Follows(v) /\ v.row = ui.row
    <3>1. busy \subseteq w.busy
      OBVIOUS
    <3> HIDE DEF busy
    <3> QED
      BY <1>7, <3>1
  <2> DEFINE back == whole(u)
  <2>3. back = u \/ (back = Whole(u, c.task) /\ c.task \in DOMAIN u.board)
    OBVIOUS
  <2> HIDE DEF v, busy, whole
  <2>4. RenderedAgain([back EXCEPT !.route = 0], {}) \/ RenderedAgain(back, {})
    <3>1. CASE c.what = "save" /\ c.task \notin live
      BY <2>1, <3>1 DEF Rendered
    <3>2. CASE ~(c.what = "save" /\ c.task \notin live)
      BY <2>1, <3>2 DEF Rendered
    <3> QED
      BY <3>1, <3>2
  <2> HIDE DEF back
  <2>5. Follows(u) /\ u.row = ui.row
    BY <1>2, <2>1, <2>2, PatchedIs
  <2>6. Follows(back) /\ back.row = ui.row
    <3>1. DOMAIN u.board \subseteq PanelTasks
      BY <2>5 DEF Follows, BoardHome
    <3>2. CASE back = Whole(u, c.task) /\ c.task \in DOMAIN u.board
      BY <2>5, <3>1, <3>2, WholeIs
    <3> QED
      BY <2>5, <2>3, <3>2
  <2>7. CASE RenderedAgain(back, {})
    BY <1>5, <2>6, <2>7
  <2>8. CASE RenderedAgain([back EXCEPT !.route = 0], {})
    <3>1. PICK z : z = [back EXCEPT !.route = 0]
      OBVIOUS
    <3>2. UiShape(z) /\ z.calls = back.calls /\ z.files = back.files /\ z.thread = back.thread
          /\ z.row = back.row /\ z.board = back.board
      BY <2>6, <3>1, RouteIs DEF Follows
    <3>3. Follows(z)
      BY <2>6, <3>2, FollowsOn DEF Follows, BoardHome
    <3> QED
      BY <1>5, <2>6, <2>8, <3>1, <3>2, <3>3
  <2> QED
    BY <2>4, <2>7, <2>8
<1> QED
  BY <1>1, <1>9, <1>10, <1>11, <1>12, <1>13, <1>14, <1>15, <1>16, <1>17

LEMMA PanelStart == ASSUME PanelInit PROVE PanelInv
<1>1. PICK S \in SUBSET PanelTasks : ui = Closed(Held(S))
  BY DEF PanelInit
<1>2. PICK b : b = Held(S)
  OBVIOUS
<1>3. /\ ui.route = 0 /\ ui.board = b /\ ui.row = [failed |-> FALSE, gone |-> FALSE]
      /\ ui.files = NoFiles /\ ui.thread = NoThread /\ ui.calls = {} /\ ui.busy = {}
      /\ ui = [route |-> ui.route, board |-> ui.board, row |-> ui.row, files |-> ui.files,
               undetailed |-> ui.undetailed, thread |-> ui.thread, calls |-> ui.calls, busy |-> ui.busy]
  BY <1>1, <1>2 DEF Closed
<1>4. FilesShape(NoFiles) /\ ThreadShape(NoThread)
  BY DEF FilesShape, ThreadShape, NoFiles, NoThread
<1>5. UiShape(ui)
  BY <1>3, <1>4 DEF UiShape
<1>6. BoardHome(ui) /\ live \subseteq PanelTasks
  BY <1>2, <1>3 DEF BoardHome, Held, PanelInit
<1>7. BasesHome(ui) /\ FilesHome(ui) /\ ThreadHome(ui, ui.route) /\ ui.thread.loading /\ ~ui.row.failed
  BY <1>3 DEF BasesHome, FilesHome, ThreadHome, NoFiles, NoThread
<1> QED
  BY <1>3, <1>5, <1>6, <1>7 DEF PanelInv

LEMMA PanelKept == PanelInv /\ [PanelNext]_panelVars => PanelInv'
<1>1. PanelInv /\ UNCHANGED panelVars => PanelInv'
  BY DEF PanelInv, panelVars
<1>2. ASSUME PanelInv, PanelNext PROVE PanelInv'
  BY <1>2, OthersKeep, ReadsKeep, BeginningsKeep, WritesKeep DEF PanelNext
<1> QED
  BY <1>1, <1>2

(***************************************************************************)
(* For any tasks, length of a page and number of steps, however the user    *)
(* goes from task to task while reads and writes are in flight: the panel   *)
(* lists the attachments and comments of its own task, as far as no write   *)
(* has put others there.                                                    *)
(***************************************************************************)
THEOREM PanelStaysHome == PanelSpec => []ReadsStayHome
<1>1. PanelInv => ReadsStayHome
  <2> SUFFICES ASSUME PanelInv PROVE ReadsStayHome
    OBVIOUS
  <2>1. \A i \in FileRows(ui) : ~ui.files.strayed => i.of = ui.route
    <3> SUFFICES ASSUME NEW i \in FileRows(ui), ~ui.files.strayed PROVE i.of = ui.route
      OBVIOUS
    <3>1. ui.files.of = Task(ui) /\ i.of = Task(ui) /\ Task(ui) # 0
      BY DEF FileRows, PanelInv, FilesHome
    <3> QED
      BY <3>1, WantedIs DEF PanelInv
  <2> QED
    BY <2>1 DEF ReadsStayHome, PanelInv, ThreadHome
<1> QED
  BY <1>1, PanelStart, PanelKept, PTL DEF PanelSpec

(***************************************************************************)
(* And it says that a task is missing only if the server said so of that    *)
(* task.                                                                    *)
(***************************************************************************)
THEOREM MissingWasSaid == PanelSpec => []MissingIsAnAnswer
<1>1. PanelInv => MissingIsAnAnswer
  <2> SUFFICES ASSUME PanelInv, Verdict = "missing" PROVE told = ui.route
    BY DEF MissingIsAnAnswer
  <2>1. Wanted(ui)["row"] # 0 /\ ui.row.failed /\ ui.row.gone
    <3>1. ui.row.failed \in BOOLEAN /\ ui.row.gone \in BOOLEAN
      BY DEF PanelInv, UiShape
    <3>2. CASE Wanted(ui)["row"] = 0
      BY <3>2 DEF Verdict
    <3>3. CASE Wanted(ui)["row"] # 0 /\ ~ui.row.failed
      BY <3>3 DEF Verdict
    <3>4. CASE Wanted(ui)["row"] # 0 /\ ui.row.failed /\ ~ui.row.gone
      BY <3>4 DEF Verdict
    <3> QED
      BY <3>1, <3>2, <3>3, <3>4
  <2> QED
    BY <2>1 DEF PanelInv
<1> QED
  BY <1>1, PanelStart, PanelKept, PTL DEF PanelSpec

-----------------------------------------------------------------------------
(* What the panel is told of *)

\* What the server keeps: attachments and comments of its tasks, numbered from 1.
Item(i, L) == i.kind \in {"file", "note"} /\ i.of \in L
Numbered(A) == \E b \in Nat : \A i \in A : i.n \in 1..b
ServerInv ==
    /\ live \subseteq PanelTasks
    /\ told \in PanelTasks \cup {0} /\ panelActs \in 0..PanelActs
    /\ \A i \in attached : Item(i, live)
    /\ Numbered(attached)

LEMMA PanelTyped == ASSUME PanelInv, ServerInv PROVE PanelTypeOK
<1>1. \A i \in attached : i.kind \in {"file", "note"} /\ i.of \in live /\ i.n \in Nat \ {0}
  BY DEF ServerInv, Item, Numbered
<1>2. \A r \in PanelReads : {c.task : c \in {d \in ui.calls : d.what = r}} \subseteq {Wanted(ui)[r]}
  BY DEF PanelInv
<1>3. \A c \in ui.calls : c.what \in PanelReads \cup PanelCalls \cup ThreadCalls /\ c.task \in PanelTasks
  BY DEF PanelInv, UiShape, CallShape
<1>4. /\ ui.route \in PanelTasks \cup {0} /\ DOMAIN ui.board \subseteq PanelTasks
      /\ \A t \in DOMAIN ui.board : ui.board[t] \in {"summary", "whole"}
      /\ ui.busy \subseteq {"files", "tick", "save", "thread", "more"}
  BY DEF PanelInv, UiShape, BoardHome, Controls
<1> QED
  BY <1>1, <1>2, <1>3, <1>4 DEF PanelTypeOK, ServerInv

\* A set of numbers that is bounded has its greatest among it.
LEMMA GreatestOf ==
    ASSUME NEW S, NEW b \in Nat, S \subseteq 1..b, S # {}
    PROVE  (CHOOSE n \in S : \A m \in S : m <= n) \in S
<1> DEFINE D == {b - n : n \in S}
<1>1. D \subseteq Nat /\ D # {}
  <2>1. \A n \in S : b - n \in Nat
    OBVIOUS
  <2> QED
    BY <2>1
<1>3. PICK d \in D : \A e \in D : d =< e
  <2>1. \E d \in D : \A e \in D : d =< e
    BY <1>1, LeastThere
  <2> QED
    BY <2>1
<1>4. PICK n \in S : d = b - n
  OBVIOUS
<1>5. ASSUME NEW m \in S PROVE m <= n
  <2>1. b - n =< b - m
    BY <1>3, <1>4
  <2> QED
    BY <2>1
<1> QED
  BY <1>5

LEMMA FreshItem ==
    ASSUME ServerInv, NEW kind \in {"file", "note"}, NEW t \in live, NEW new, new = Fresh(kind, t)
    PROVE  Item(new, live) /\ Numbered(attached \cup {new})
<1> DEFINE given == {i.n : i \in Of(kind, t)}
           last == IF given = {} THEN 0 ELSE CHOOSE n \in given : \A m \in given : m <= n
<1>1. new = [kind |-> kind, of |-> t, n |-> last + 1]
  BY DEF Fresh
<1>2. PICK b \in Nat : \A i \in attached : i.n \in 1..b
  BY DEF ServerInv, Numbered
<1>3. given \subseteq 1..b
  BY <1>2 DEF Of
<1>4. last \in 0..b
  <2>1. CASE given = {}
    BY <2>1
  <2>2. CASE given # {}
    <3>1. (CHOOSE n \in given : \A m \in given : m <= n) \in given
      BY <1>2, <1>3, <2>2, GreatestOf
    <3>2. last \in given
      BY <2>2, <3>1
    <3> HIDE DEF last, given
    <3> QED
      BY <1>3, <3>2
  <2> QED
    BY <2>1, <2>2
<1> HIDE DEF last, given
<1>5. new.n \in 1..b + 1
  BY <1>1, <1>4
<1>6. \A i \in attached \cup {new} : i.n \in 1..b + 1
  BY <1>2, <1>5
<1>7. b + 1 \in Nat
  BY <1>2
<1> QED
  BY <1>1, <1>6, <1>7 DEF Item, Numbered

LEMMA FewerItems ==
    ASSUME ServerInv, NEW A, A \subseteq attached
    PROVE  Numbered(A)
BY DEF ServerInv, Numbered

LEMMA ServerKept == ASSUME PanelInv, ServerInv, [PanelNext]_panelVars PROVE ServerInv'
<1>1. CASE UNCHANGED panelVars
  BY <1>1 DEF ServerInv, Item, Numbered, panelVars
<1>2. panelActs \in Nat /\ PanelActs \in Nat
  BY PanelAssumption DEF ServerInv
<1>3. CASE Navigate \/ Redrained \/ RowHeard \/ Retry
  <2>1. UNCHANGED <<live, attached, told>> /\ PanelAct
    BY <1>3 DEF Navigate, Redrained, RowHeard, Retry
  <2> QED
    BY <1>2, <2>1 DEF ServerInv, Item, Numbered, PanelAct
<1>4. CASE TaskDeleted
  <2>1. PICK t \in live : /\ live' = live \ {t} /\ attached' = {i \in attached : i.of # t}
                          /\ told' = told /\ PanelAct
    BY <1>4 DEF TaskDeleted
  <2>2. Numbered(attached')
    BY <2>1, FewerItems
  <2>3. \A i \in attached' : Item(i, live')
    BY <2>1 DEF ServerInv, Item
  <2>4. live' \subseteq PanelTasks /\ told' \in PanelTasks \cup {0} /\ panelActs' \in 0..PanelActs
    BY <1>2, <2>1 DEF ServerInv, PanelAct
  <2> QED
    BY <2>2, <2>3, <2>4 DEF ServerInv, Numbered
<1>5. CASE RemoteComment
  <2>0. PICK t \in live : /\ attached' = attached \cup {Fresh("note", t)}
                          /\ live' = live /\ told' = told /\ PanelAct
    BY <1>5 DEF RemoteComment
  <2>1. PICK new : new = Fresh("note", t) /\ attached' = attached \cup {new}
    BY <2>0
  <2>2. Item(new, live) /\ Numbered(attached')
    BY <2>1, FreshItem
  <2>3. \A i \in attached' : Item(i, live')
    BY <2>0, <2>1, <2>2 DEF ServerInv
  <2>4. live' \subseteq PanelTasks /\ told' \in PanelTasks \cup {0} /\ panelActs' \in 0..PanelActs
    BY <1>2, <2>0 DEF ServerInv, PanelAct
  <2> QED
    BY <2>2, <2>3, <2>4 DEF ServerInv, Numbered
<1>6. CASE ReadLands
  <2>1. PICK c \in ui.calls : /\ told' = IF c.what = "row" /\ c.task \notin live THEN c.task ELSE told
                              /\ UNCHANGED <<live, attached, panelActs>>
    BY <1>6 DEF ReadLands
  <2>2. c.task \in PanelTasks
    BY DEF PanelInv, UiShape, CallShape
  <2> QED
    BY <2>1, <2>2 DEF ServerInv, Item, Numbered
<1>7. CASE Upload \/ RemoveFile \/ Tick \/ Save \/ Post \/ RemoveComment \/ LoadMore
  <2>1. UNCHANGED <<live, attached, told>> /\ PanelAct
    BY <1>7 DEF Upload, RemoveFile, Tick, Save, Post, RemoveComment, LoadMore, Begun
  <2> QED
    BY <1>2, <2>1 DEF ServerInv, Item, Numbered, PanelAct
<1>8. CASE WriteLands
  <2>1. PICK c \in ui.calls :
           \/ FileStored(c) \/ FileRemoved(c) \/ RowWritten(c) \/ Posted(c) \/ CommentRemoved(c)
           \/ MoreCame(c) \/ TrailCame(c) \/ ListWriteFailed(c) \/ RowWriteFailed(c)
    BY <1>8 DEF WriteLands
  <2>2. UNCHANGED <<live, told, panelActs>>
    BY <1>8 DEF WriteLands
  <2>3. \/ attached' \subseteq attached
        \/ \E kind \in {"file", "note"}, t \in live : attached' = attached \cup {Fresh(kind, t)}
    BY <2>1 DEF FileStored, FileRemoved, RowWritten, Posted, CommentRemoved, MoreCame, TrailCame,
       ListWriteFailed, RowWriteFailed
  <2>4. CASE attached' \subseteq attached
    <3>1. Numbered(attached')
      BY <2>4, FewerItems
    <3> QED
      BY <2>2, <2>4, <3>1 DEF ServerInv, Item, Numbered
  <2>5. CASE \E kind \in {"file", "note"}, t \in live : attached' = attached \cup {Fresh(kind, t)}
    <3>0. PICK kind \in {"file", "note"}, t \in live : attached' = attached \cup {Fresh(kind, t)}
      BY <2>5
    <3>1. PICK new : new = Fresh(kind, t) /\ attached' = attached \cup {new}
      BY <3>0
    <3>2. Item(new, live) /\ Numbered(attached')
      BY <3>1, FreshItem
    <3>3. \A i \in attached' : Item(i, live')
      BY <2>2, <3>1, <3>2 DEF ServerInv
    <3> QED
      BY <2>2, <3>2, <3>3 DEF ServerInv, Numbered
  <2> QED
    BY <2>3, <2>4, <2>5
<1> QED
  BY <1>1, <1>3, <1>4, <1>5, <1>6, <1>7, <1>8 DEF PanelNext

LEMMA ServerStart == ASSUME PanelInit PROVE ServerInv
<1>1. \A i \in attached : i.kind \in {"file", "note"} /\ i.of \in PanelTasks /\ i.n = 1
  BY DEF PanelInit
<1>2. Numbered(attached)
  <2>1. \A i \in attached : i.n \in 1..1
    BY <1>1
  <2> QED
    BY <2>1 DEF Numbered
<1> QED
  BY <1>1, <1>2, PanelAssumption DEF PanelInit, ServerInv, Item

-----------------------------------------------------------------------------
(* The notifications *)

\* What the tab waits for: of the reads an effect aborts one of a kind, the list's of its filter,
\* and a join only over a connection.
CallIn(c, open, on, filter, up) ==
    /\ c = [what |-> c.what, who |-> c.who, id |-> c.id, filter |-> c.filter]
    /\ c.what = "count" => c = Call("count")
    /\ c.what = "menu" => c = Call("menu") /\ open
    /\ c.what = "page" => c = [Call("page") EXCEPT !.filter = filter] /\ on
    /\ c.what = "join" => up
CallsIn(P, open, on, filter, up) == \A c \in P : CallIn(c, open, on, filter, up)

Owes(c) == c.what \in {"read", "read-all"}
Owed == {c \in pendings : Owes(c)}

\* A signal is sent for an act of somebody: of another tab or another user, or of this one, when
\* what it marked is served.
SignalsInv ==
    /\ noticeActs \in 0..NoticeActs /\ signals \in Nat
    /\ IsFiniteSet(Owed) /\ signals + Cardinality(Owed) <= noticeActs

ViewsInv ==
    /\ bell \in [connected : BOOLEAN, count : 0..Cardinality(Notices)]
    /\ menu = [open |-> menu.open, items |-> menu.items, loading |-> menu.loading]
    /\ menu.open \in BOOLEAN
    /\ list = [on |-> list.on, filter |-> list.filter, items |-> list.items, cursor |-> list.cursor,
               loading |-> list.loading, more |-> list.more, joined |-> list.joined]
    /\ list.on \in BOOLEAN

LinkInv ==
    /\ socket \in {"up", "retrying", "cooling"} /\ tries \in 0..Attempts - 1
    /\ subscribed \in BOOLEAN
    /\ subscribed => socket = "up"
    /\ bell.connected => subscribed
    /\ holders = {"bell"} \cup (IF list.on THEN {"page"} ELSE {})

CallsInv == CallsIn(pendings, menu.open, list.on, list.filter, socket = "up")

NoticeInv == DOMAIN notices \subseteq Notices \ cascaded /\ SignalsInv /\ ViewsInv /\ LinkInv /\ CallsInv

LEMMA AloneIs ==
    ASSUME NEW P, NEW d, \A c \in P : c = d
    PROVE  Cardinality(P) <= 1
<1>1. CASE P = {}
  BY <1>1, FS_EmptySet
<1>2. CASE P # {}
  <2>1. P = {d}
    BY <1>2
  <2> QED
    BY <2>1, FS_Singleton
<1> QED
  BY <1>1, <1>2

LEMMA NoticeTyped == ASSUME NoticeInv PROVE NoticeTypeOK
<1>1. signals \in 0..NoticeActs * 2
  <2>1. Cardinality(Owed) \in Nat
    BY FS_CardinalityType DEF NoticeInv, SignalsInv
  <2> QED
    BY <2>1, NotificationCentreAssumption DEF NoticeInv, SignalsInv
<1>2. \A what \in {"count", "menu", "page"} : Cardinality({c \in pendings : c.what = what}) <= 1
  <2>1. Cardinality({c \in pendings : c.what = "count"}) <= 1
    BY AloneIs DEF NoticeInv, CallsInv, CallsIn, CallIn
  <2>2. Cardinality({c \in pendings : c.what = "menu"}) <= 1
    <3>1. PICK d : d = Call("menu")
      OBVIOUS
    <3>2. \A c \in {e \in pendings : e.what = "menu"} : c = d
      BY <3>1 DEF NoticeInv, CallsInv, CallsIn, CallIn
    <3> QED
      BY <3>2, AloneIs
  <2>3. Cardinality({c \in pendings : c.what = "page"}) <= 1
    <3>1. PICK d : d = [Call("page") EXCEPT !.filter = list.filter]
      OBVIOUS
    <3>2. \A c \in {e \in pendings : e.what = "page"} : c = d
      BY <3>1 DEF NoticeInv, CallsInv, CallsIn, CallIn
    <3> QED
      BY <3>2, AloneIs
  <2> QED
    BY <2>1, <2>2, <2>3
<1>3. bell.count \in 0..Cardinality(Notices)
  BY DEF NoticeInv, ViewsInv
<1>4. (\E c \in pendings : c.what = "menu") => menu.open
  BY DEF NoticeInv, CallsInv, CallsIn, CallIn
<1>5. (\E c \in pendings : c.what = "page") => list.on
  BY DEF NoticeInv, CallsInv, CallsIn, CallIn
<1> QED
  BY <1>1, <1>2, <1>3, <1>4, <1>5 DEF NoticeInv, NoticeTypeOK, LinkInv

LEMMA CallFields ==
    ASSUME NEW what
    PROVE  Call(what) = [what |-> what, who |-> "bell", id |-> 0, filter |-> "all"]
BY DEF Call

\* The calls the tab makes.
LEMMA CallsMade ==
    ASSUME NEW open, NEW on, NEW filter, NEW up
    PROVE  /\ CallIn(Call("count"), open, on, filter, up)
           /\ open => CallIn(Call("menu"), open, on, filter, up)
           /\ on => CallIn([Call("page") EXCEPT !.filter = filter], open, on, filter, up)
           /\ \A who : up => CallIn(Joining(who), open, on, filter, up)
<1>1. CallIn(Call("count"), open, on, filter, up) /\ (open => CallIn(Call("menu"), open, on, filter, up))
  BY DEF CallIn, Call
<1>2. on => CallIn([Call("page") EXCEPT !.filter = filter], open, on, filter, up)
  BY DEF CallIn, Call
<1>3. \A who : up => CallIn(Joining(who), open, on, filter, up)
  BY DEF CallIn, Call, Joining
<1> QED
  BY <1>1, <1>2, <1>3

\* The next page, and what marks as read, is bound to nothing.
LEMMA FreeCalls ==
    ASSUME NEW c, c = [what |-> c.what, who |-> c.who, id |-> c.id, filter |-> c.filter],
           c.what \notin {"count", "menu", "page", "join"},
           NEW open, NEW on, NEW filter, NEW up
    PROVE  CallIn(c, open, on, filter, up)
BY DEF CallIn

LEMMA BumpedIs ==
    ASSUME NEW P, NEW on, NEW filter, NEW up, CallsIn(P, menu.open, on, filter, up)
    PROVE  CallsIn(Bumped(P), menu.open, on, filter, up)
BY CallsMade DEF CallsIn, Bumped

LEMMA RereadIs ==
    ASSUME NEW P, NEW open, NEW up, list.on, CallsIn(P, open, list.on, list.filter, up)
    PROVE  CallsIn(Reread(P), open, list.on, list.filter, up)
<1>1. PICK d : d = [Call("page") EXCEPT !.filter = list.filter]
  OBVIOUS
<1>2. CallIn(d, open, list.on, list.filter, up)
  BY <1>1, CallsMade
<1> QED
  BY <1>1, <1>2 DEF CallsIn, Reread

\* What stays pending when the views change.
LEMMA CallsStay ==
    ASSUME NEW P, NEW Q, Q \subseteq P,
           NEW open, NEW on, NEW filter, NEW up, CallsIn(P, open, on, filter, up),
           NEW open2, NEW on2, NEW filter2, NEW up2,
           \A c \in Q : c.what = "menu" => open2 = open,
           \A c \in Q : c.what = "page" => on2 = on /\ filter2 = filter,
           \A c \in Q : c.what = "join" => up2 = up
    PROVE  CallsIn(Q, open2, on2, filter2, up2)
BY DEF CallsIn, CallIn

-----------------------------------------------------------------------------
LEMMA UnreadIs ==
    ASSUME DOMAIN notices \subseteq Notices
    PROVE  Unread \in 0..Cardinality(Notices)
<1>1. IsFiniteSet({n \in DOMAIN notices : ~notices[n]}) /\ Unread <= Cardinality(Notices)
  BY FS_Subset, NotificationCentreAssumption DEF Unread
<1> QED
  BY <1>1, FS_CardinalityType, NotificationCentreAssumption DEF Unread

LEMMA ViewsKept == ASSUME NoticeInv, NoticeNext PROVE ViewsInv'
<1>1. CASE UNCHANGED Views
  BY <1>1 DEF NoticeInv, ViewsInv, Views
<1>2. CASE Dropped
  BY <1>2 DEF NoticeInv, ViewsInv, Dropped
<1>3. CASE JoinEnds
  <2>1. PICK c \in pendings : JoinAcknowledged(c) \/ JoinRefused(c)
    BY <1>3 DEF JoinEnds
  <2>2. CASE JoinRefused(c)
    BY <1>1, <2>2 DEF JoinRefused
  <2>3. CASE JoinAcknowledged(c) /\ c.who = "bell"
    BY <2>3 DEF NoticeInv, ViewsInv, JoinAcknowledged, BellRefreshes
  <2>4. CASE JoinAcknowledged(c) /\ c.who # "bell"
    <3>1. PICK b : list' = [list EXCEPT !.joined = TRUE, !.loading = b]
      BY <2>4 DEF JoinAcknowledged
    <3> QED
      BY <2>4, <3>1 DEF NoticeInv, ViewsInv, JoinAcknowledged
  <2> QED
    BY <2>1, <2>2, <2>3, <2>4
<1>4. CASE SignalArrives
  <2>1. PICK b : list' = [list EXCEPT !.loading = b]
    BY <1>4 DEF SignalArrives
  <2> QED
    BY <1>4, <2>1 DEF NoticeInv, ViewsInv, SignalArrives, BellRefreshes
<1>5. CASE ToggleMenu
  <2>1. PICK b : menu' = [menu EXCEPT !.open = ~menu.open, !.loading = b]
    BY <1>5 DEF ToggleMenu
  <2> QED
    BY <1>5, <2>1 DEF NoticeInv, ViewsInv, ToggleMenu, UserAlone
<1>6. CASE OpenList \/ CloseList \/ ChangeFilter \/ LoadMoreNotices
  <2>1. NoList = [on |-> NoList.on, filter |-> NoList.filter, items |-> NoList.items,
                  cursor |-> NoList.cursor, loading |-> NoList.loading, more |-> NoList.more,
                  joined |-> NoList.joined] /\ NoList.on \in BOOLEAN
    BY DEF NoList
  <2>2. CASE OpenList
    BY <2>1, <2>2 DEF NoticeInv, ViewsInv, OpenList, UserAlone
  <2>3. CASE CloseList
    BY <2>1, <2>3 DEF NoticeInv, ViewsInv, CloseList
  <2>4. CASE ChangeFilter
    BY <2>4 DEF NoticeInv, ViewsInv, ChangeFilter, UserAlone
  <2>5. CASE LoadMoreNotices
    BY <2>5 DEF NoticeInv, ViewsInv, LoadMoreNotices, UserAlone
  <2> QED
    BY <1>6, <2>2, <2>3, <2>4, <2>5
<1>7. CASE Answer
  <2>1. PICK c \in pendings : \/ CountAnswered(c) \/ CountFailed(c) \/ MenuAnswered(c) \/ ListAnswered(c)
                              \/ RowsFailed(c) \/ MoreAnswered(c)
    BY <1>7 DEF Answer
  <2>2. CASE CountAnswered(c)
    BY <2>2, UnreadIs DEF NoticeInv, ViewsInv, CountAnswered
  <2>3. CASE CountFailed(c)
    BY <1>1, <2>3 DEF CountFailed
  <2>4. CASE MenuAnswered(c)
    BY <2>4 DEF NoticeInv, ViewsInv, MenuAnswered
  <2>5. CASE ListAnswered(c)
    BY <2>5 DEF NoticeInv, ViewsInv, ListAnswered
  <2>6. CASE RowsFailed(c)
    BY <2>6 DEF NoticeInv, ViewsInv, RowsFailed
  <2>7. CASE MoreAnswered(c)
    <3>1. \E i, k : list' = [list EXCEPT !.items = i, !.cursor = k, !.more = FALSE]
      <4>1. CASE list' = [list EXCEPT !.more = FALSE]
        <5>1. list' = [list EXCEPT !.items = list.items, !.cursor = list.cursor, !.more = FALSE]
          BY <4>1 DEF NoticeInv, ViewsInv
        <5> QED
          BY <5>1
      <4>2. CASE list' # [list EXCEPT !.more = FALSE]
        BY <2>7, <4>2 DEF MoreAnswered
      <4> QED
        BY <4>1, <4>2
    <3> QED
      BY <2>7, <3>1 DEF NoticeInv, ViewsInv, MoreAnswered
  <2> QED
    BY <2>1, <2>2, <2>3, <2>4, <2>5, <2>6, <2>7
<1>8. CASE Corrected
  <2>1. PICK c \in pendings :
          IF c.who = "bell"
          THEN /\ \E ids : menu' = [menu EXCEPT !.items = AsRead(@, ids), !.open = @ /\ c.what = "all-were"]
               /\ bell' = [bell EXCEPT !.count =
                             IF c.what = "all-were" \/ bell.count = 0 THEN 0 ELSE bell.count - 1]
               /\ UNCHANGED list
          ELSE /\ \E ids : list' = [list EXCEPT !.items = AsRead(@, ids)]
               /\ UNCHANGED <<bell, menu>>
    BY <1>8 DEF Corrected
  <2>2. CASE c.who = "bell"
    <3>1. PICK i, o : o \in BOOLEAN /\ menu' = [menu EXCEPT !.items = i, !.open = o]
      BY <2>1, <2>2 DEF NoticeInv, ViewsInv
    <3>2. (IF c.what = "all-were" \/ bell.count = 0 THEN 0 ELSE bell.count - 1) \in 0..Cardinality(Notices)
      BY FS_CardinalityType, NotificationCentreAssumption DEF NoticeInv, ViewsInv
    <3> QED
      BY <2>1, <2>2, <3>1, <3>2 DEF NoticeInv, ViewsInv
  <2>3. CASE c.who # "bell"
    <3>1. PICK i : list' = [list EXCEPT !.items = i]
      BY <2>1, <2>3
    <3> QED
      BY <2>1, <2>3, <3>1 DEF NoticeInv, ViewsInv
  <2> QED
    BY <2>2, <2>3
<1>9. CASE MarkFailed
  BY <1>9 DEF NoticeInv, ViewsInv, MarkFailed
<1>10. CASE \/ ConnectSucceeds \/ ConnectFails \/ CooledDown \/ Poll \/ ChangeVisibility \/ Notified
            \/ ReadElsewhere \/ NoticesCascade \/ OpenNotice \/ MarkAll \/ Marked
  BY <1>1, <1>10 DEF ConnectSucceeds, ConnectFails, CooledDown, Poll, ChangeVisibility, Notified,
     ReadElsewhere, NoticesCascade, OpenNotice, MarkAll, Marked, Views, UserAlone
<1> QED
  BY <1>2, <1>3, <1>4, <1>5, <1>6, <1>7, <1>8, <1>9, <1>10 DEF NoticeNext

LEMMA LinkKept == ASSUME NoticeInv, NoticeNext PROVE LinkInv'
<1>1. Attempts \in Nat \ {0}
  BY NotificationCentreAssumption
<1>2. CASE ConnectSucceeds
  BY <1>1, <1>2 DEF NoticeInv, LinkInv, ConnectSucceeds, Server, Views
<1>3. CASE ConnectFails
  <2>1. tries' = (tries + 1) % Attempts
    BY <1>3 DEF ConnectFails
  <2>2. tries' \in 0..Attempts - 1
    BY <1>1, <2>1 DEF NoticeInv, LinkInv
  <2> QED
    BY <1>3, <2>2 DEF NoticeInv, LinkInv, ConnectFails, Server, Views
<1>4. CASE CooledDown
  BY <1>4 DEF NoticeInv, LinkInv, CooledDown, Server, Views
<1>5. CASE Dropped
  BY <1>5 DEF NoticeInv, LinkInv, ViewsInv, Dropped
<1>6. CASE JoinEnds
  <2>1. PICK c \in pendings : JoinAcknowledged(c) \/ JoinRefused(c)
    BY <1>6 DEF JoinEnds
  <2>2. UNCHANGED <<socket, tries, holders>>
    BY <1>6 DEF JoinEnds, Link
  <2>3. CASE JoinRefused(c)
    BY <2>2, <2>3 DEF NoticeInv, LinkInv, JoinRefused, Views
  <2>4. CASE JoinAcknowledged(c)
    <3>1. socket = "up" /\ subscribed' = TRUE
      BY <2>4 DEF NoticeInv, CallsInv, CallsIn, CallIn, JoinAcknowledged
    <3>2. list'.on = list.on
      BY <2>4 DEF NoticeInv, ViewsInv, JoinAcknowledged
    <3> QED
      BY <2>2, <3>1, <3>2 DEF NoticeInv, LinkInv
  <2> QED
    BY <2>1, <2>3, <2>4
<1>7. CASE SignalArrives
  <2>1. list'.on = list.on
    BY <1>7 DEF NoticeInv, ViewsInv, SignalArrives
  <2> QED
    BY <1>7, <2>1 DEF NoticeInv, LinkInv, SignalArrives, Link
<1>8. CASE Poll \/ ChangeVisibility \/ OpenNotice \/ MarkAll
  <2>1. UNCHANGED <<subscribed, socket, tries, holders, bell, list>>
    BY <1>8 DEF Poll, ChangeVisibility, OpenNotice, MarkAll, Server, Link, Views, UserAlone
  <2> QED
    BY <2>1 DEF NoticeInv, LinkInv
<1>9. CASE Notified \/ ReadElsewhere \/ NoticesCascade \/ Marked
  <2>1. UNCHANGED <<subscribed, socket, tries, holders, bell, list>>
    BY <1>9 DEF Notified, ReadElsewhere, NoticesCascade, Marked, Link, Views
  <2> QED
    BY <2>1 DEF NoticeInv, LinkInv
<1>10. CASE ToggleMenu
  BY <1>10 DEF NoticeInv, LinkInv, ToggleMenu, UserAlone, Server, Link
<1>11. CASE OpenList
  <2>1. list'.on
    BY <1>11 DEF OpenList, NoList
  <2> QED
    BY <1>11, <2>1 DEF NoticeInv, LinkInv, OpenList, UserAlone, Server, Link
<1>12. CASE CloseList
  <2>1. ~list'.on
    BY <1>12 DEF CloseList, NoList
  <2>2. holders' = {"bell"} /\ subscribed' = subscribed
    BY <1>12 DEF NoticeInv, LinkInv, CloseList, Left
  <2> QED
    BY <1>12, <2>1, <2>2 DEF NoticeInv, LinkInv, CloseList, Link
<1>13. CASE ChangeFilter \/ LoadMoreNotices
  <2>1. list'.on = list.on
    BY <1>13 DEF NoticeInv, ViewsInv, ChangeFilter, LoadMoreNotices
  <2> QED
    <3>1. UNCHANGED <<subscribed, socket, tries, holders, bell>>
      BY <1>13 DEF ChangeFilter, LoadMoreNotices, UserAlone, Server, Link
    <3> QED
      BY <2>1, <3>1 DEF NoticeInv, LinkInv
<1>14. CASE Answer
  <2>1. PICK c \in pendings : \/ CountAnswered(c) \/ CountFailed(c) \/ MenuAnswered(c) \/ ListAnswered(c)
                              \/ RowsFailed(c) \/ MoreAnswered(c)
    BY <1>14 DEF Answer
  <2>2. list'.on = list.on /\ bell'.connected = bell.connected
    BY <2>1 DEF NoticeInv, ViewsInv, CountAnswered, CountFailed, MenuAnswered, ListAnswered, RowsFailed,
       MoreAnswered, Views
  <2> QED
    BY <1>14, <2>2 DEF NoticeInv, LinkInv, Answer, Server, Link
<1>15. CASE Corrected
  <2>1. list'.on = list.on /\ bell'.connected = bell.connected
    BY <1>15 DEF NoticeInv, ViewsInv, Corrected
  <2> QED
    BY <1>15, <2>1 DEF NoticeInv, LinkInv, Corrected, Server, Link
<1>16. CASE MarkFailed
  BY <1>16 DEF NoticeInv, LinkInv, MarkFailed, Server, Link
<1> QED
  BY <1>2, <1>3, <1>4, <1>5, <1>6, <1>7, <1>8, <1>9, <1>10, <1>11, <1>12, <1>13, <1>14, <1>15, <1>16
     DEF NoticeNext

\* What is owed for the acts of this tab, when one more is, and when one is served.
LEMMA OwesOneMore ==
    ASSUME SignalsInv, NEW c, noticeActs < NoticeActs, noticeActs' = noticeActs + 1, signals' = signals,
           Owed' \subseteq Owed \cup {c}
    PROVE  SignalsInv'
<1>1. /\ IsFiniteSet(Owed \cup {c}) /\ Cardinality(Owed \cup {c}) <= Cardinality(Owed) + 1
      /\ Cardinality(Owed) \in Nat /\ Cardinality(Owed \cup {c}) \in Nat
  <2>1. IsFiniteSet(Owed) /\ Cardinality(Owed) \in Nat
    BY FS_CardinalityType DEF SignalsInv
  <2>2. /\ IsFiniteSet(Owed \cup {c})
        /\ Cardinality(Owed \cup {c}) = IF c \in Owed THEN Cardinality(Owed) ELSE Cardinality(Owed) + 1
    BY <2>1, FS_AddElement
  <2> QED
    BY <2>1, <2>2
<1>2. IsFiniteSet(Owed') /\ Cardinality(Owed') <= Cardinality(Owed \cup {c}) /\ Cardinality(Owed') \in Nat
  BY <1>1, FS_Subset, FS_CardinalityType
<1> QED
  BY <1>1, <1>2, NotificationCentreAssumption DEF SignalsInv

LEMMA OwesNoMore ==
    ASSUME SignalsInv, Owed' \subseteq Owed, signals' \in Nat,
           \/ noticeActs' = noticeActs /\ signals' <= signals
           \/ /\ noticeActs < NoticeActs /\ noticeActs' = noticeActs + 1
              /\ signals' <= signals + 1
    PROVE  SignalsInv'
<1>1. IsFiniteSet(Owed') /\ Cardinality(Owed') <= Cardinality(Owed) /\ Cardinality(Owed') \in Nat
      /\ Cardinality(Owed) \in Nat
  BY FS_Subset, FS_CardinalityType DEF SignalsInv
<1> QED
  BY <1>1, NotificationCentreAssumption DEF SignalsInv

LEMMA OwesOneLess ==
    ASSUME SignalsInv, NEW c \in Owed, Owed' \subseteq Owed \ {c}, noticeActs' = noticeActs,
           signals' \in {signals, signals + 1}
    PROVE  SignalsInv'
<1>1. /\ IsFiniteSet(Owed \ {c}) /\ Cardinality(Owed \ {c}) = Cardinality(Owed) - 1
      /\ Cardinality(Owed) \in Nat
  BY FS_RemoveElement, FS_CardinalityType DEF SignalsInv
<1>2. IsFiniteSet(Owed') /\ Cardinality(Owed') <= Cardinality(Owed \ {c}) /\ Cardinality(Owed') \in Nat
  BY <1>1, FS_Subset, FS_CardinalityType
<1> QED
  BY <1>1, <1>2, NotificationCentreAssumption DEF SignalsInv

\* Reads and joins owe no signal.
LEMMA NothingOwed ==
    /\ \A what \in {"count", "menu", "page", "join", "more"} : ~Owes(Call(what))
    /\ \A f : ~Owes([Call("page") EXCEPT !.filter = f])
    /\ \A who : ~Owes(Joining(who))
BY DEF Owes, Call, Joining

LEMMA RefreshesOweNothing ==
    ASSUME NEW P, NEW c, Owes(c), c \in Bumped(P) \/ c \in Reread(P)
    PROVE  c \in P
<1>1. CASE c \in Bumped(P)
  BY <1>1, NothingOwed DEF Bumped
<1>2. CASE c \in Reread(P)
  <2>1. PICK d : d = [Call("page") EXCEPT !.filter = list.filter]
    OBVIOUS
  <2>2. ~Owes(d)
    BY <2>1, NothingOwed
  <2> QED
    BY <1>2, <2>1, <2>2 DEF Reread
<1> QED
  BY <1>1, <1>2

LEMMA SignalsKept == ASSUME NoticeInv, NoticeNext PROVE SignalsInv'
<1> USE DEF NoticeInv
<1>1. CASE \/ ConnectSucceeds \/ ConnectFails \/ CooledDown \/ Dropped \/ JoinEnds \/ Poll
           \/ Answer
  <2>1. noticeActs' = noticeActs \/ (noticeActs < NoticeActs /\ noticeActs' = noticeActs + 1)
    BY <1>1 DEF ConnectSucceeds, ConnectFails, CooledDown, Dropped, JoinEnds, Poll, Answer, NoticeAct
  <2>2. signals' = signals \/ signals' = 0
    BY <1>1 DEF ConnectSucceeds, ConnectFails, CooledDown, Dropped, JoinEnds, Poll, Answer, Server
  <2>3. ASSUME NEW c \in pendings', Owes(c) PROVE c \in pendings
    <3>1. CASE ConnectSucceeds
      BY <2>3, <3>1, NothingOwed DEF ConnectSucceeds
    <3>2. CASE ConnectFails \/ CooledDown
      BY <3>2 DEF ConnectFails, CooledDown
    <3>3. CASE Dropped
      BY <2>3, <3>3, NothingOwed DEF Dropped
    <3>4. CASE JoinEnds
      <4>1. PICK d \in pendings : JoinAcknowledged(d) \/ JoinRefused(d)
        BY <3>4 DEF JoinEnds
      <4>2. pendings' \in {pendings \ {d}, Bumped(pendings \ {d}), Reread(pendings \ {d})}
        BY <4>1 DEF JoinAcknowledged, JoinRefused
      <4> QED
        BY <2>3, <4>2, RefreshesOweNothing
    <3>5. CASE Poll
      BY <2>3, <3>5, NothingOwed DEF Poll
    <3>6. CASE Answer
      BY <3>6 DEF Answer
    <3> QED
      BY <1>1, <3>1, <3>2, <3>3, <3>4, <3>5, <3>6
  <2>4. Owed' \subseteq Owed
    BY <2>3 DEF Owed
  <2>5. signals \in Nat /\ signals' \in Nat /\ signals' <= signals
    BY <2>2 DEF SignalsInv
  <2> QED
    BY <2>1, <2>4, <2>5, OwesNoMore
<1>2. CASE SignalArrives
  <2>1. signals \in Nat /\ signals' = signals - 1 /\ signals > 0 /\ noticeActs' = noticeActs
    BY <1>2 DEF SignalArrives, SignalsInv
  <2>2. pendings' = Reread(Bumped(pendings)) \/ pendings' = Bumped(pendings)
    BY <1>2 DEF SignalArrives
  <2>3. Owed' \subseteq Owed
    BY <2>2, RefreshesOweNothing DEF Owed
  <2> QED
    BY <2>1, <2>3, OwesNoMore
<1>3. CASE ChangeVisibility \/ ToggleMenu \/ OpenList \/ CloseList \/ ChangeFilter \/ LoadMoreNotices
  <2>1. noticeActs < NoticeActs /\ noticeActs' = noticeActs + 1 /\ signals' = signals
    BY <1>3 DEF ChangeVisibility, ToggleMenu, OpenList, CloseList, ChangeFilter, LoadMoreNotices,
       NoticeAct, UserAlone, Server
  <2>2. ASSUME NEW c \in pendings', Owes(c) PROVE c \in pendings
    <3>1. \A f : ~Owes([Call("count") EXCEPT !.filter = f]) /\ ~Owes([Call("menu") EXCEPT !.filter = f])
      BY DEF Owes, Call
    <3>2. CASE ChangeVisibility
      BY <2>2, <3>1, <3>2 DEF ChangeVisibility, Restarted
    <3>3. CASE ToggleMenu
      BY <2>2, <3>1, <3>3 DEF ToggleMenu, Restarted
    <3>4. CASE OpenList
      BY <2>2, <3>4, NothingOwed DEF OpenList, Restarted
    <3>5. CASE CloseList
      BY <3>5 DEF CloseList
    <3>6. CASE ChangeFilter
      <4>1. PICK filter, d : /\ d = [Call("page") EXCEPT !.filter = filter]
                             /\ pendings' = {e \in pendings : e.what # "page"} \cup {d}
        BY <3>6 DEF ChangeFilter, Restarted
      <4>2. ~Owes(d)
        BY <4>1, NothingOwed
      <4> QED
        BY <2>2, <4>1, <4>2
    <3>7. CASE LoadMoreNotices
      <4>1. PICK d : /\ d = [Call("more") EXCEPT !.who = "page", !.filter = list.filter,
                                                 !.id = list.cursor.after]
                     /\ pendings' = pendings \cup {d}
        BY <3>7 DEF LoadMoreNotices
      <4>2. ~Owes(d)
        BY <4>1 DEF Owes, Call
      <4> QED
        BY <2>2, <4>1, <4>2
    <3> QED
      BY <1>3, <3>2, <3>3, <3>4, <3>5, <3>6, <3>7
  <2>3. Owed' \subseteq Owed
    BY <2>2 DEF Owed
  <2>4. signals \in Nat
    BY DEF SignalsInv
  <2> QED
    BY <2>1, <2>3, <2>4, OwesNoMore
<1>4. CASE Notified \/ ReadElsewhere \/ NoticesCascade
  <2>1. noticeActs < NoticeActs /\ noticeActs' = noticeActs + 1 /\ pendings' = pendings
    BY <1>4 DEF Notified, ReadElsewhere, NoticesCascade, NoticeAct
  <2>2. signals \in Nat /\ signals' \in {signals, signals + 1}
    BY <1>4 DEF Notified, ReadElsewhere, NoticesCascade, Signalled, SignalsInv
  <2> QED
    BY <2>1, <2>2, OwesNoMore DEF Owed
<1>5. CASE OpenNotice \/ MarkAll
  <2>1. noticeActs < NoticeActs /\ noticeActs' = noticeActs + 1 /\ signals' = signals
    BY <1>5 DEF OpenNotice, MarkAll, NoticeAct, UserAlone, Server
  <2>2. \E c : pendings' = pendings \cup {c}
    BY <1>5 DEF OpenNotice, MarkAll
  <2>3. PICK c : Owed' \subseteq Owed \cup {c}
    BY <2>2 DEF Owed
  <2> QED
    BY <2>1, <2>3, OwesOneMore
<1>6. CASE Marked
  <2>0. PICK c \in pendings :
          /\ c.what \in {"read", "read-all"}
          /\ pendings' = (pendings \ {c})
                            \cup {[c EXCEPT !.what = IF @ = "read" THEN "was-read" ELSE "all-were"]}
    BY <1>6 DEF Marked
  <2>1. PICK d : /\ d = [c EXCEPT !.what = IF @ = "read" THEN "was-read" ELSE "all-were"]
                 /\ pendings' = (pendings \ {c}) \cup {d}
    BY <2>0
  <2>5. signals' \in {signals, signals + 1} /\ noticeActs' = noticeActs
    BY <1>6 DEF Marked, Signalled
  <2>2. c = [what |-> c.what, who |-> c.who, id |-> c.id, filter |-> c.filter]
    BY DEF CallsInv, CallsIn, CallIn
  <2>3. d.what \in {"was-read", "all-were"}
    BY <2>1, <2>2
  <2>4. c \in Owed /\ Owed' \subseteq Owed \ {c}
    BY <2>0, <2>1, <2>3 DEF Owed, Owes
  <2> QED
    BY <2>4, <2>5, OwesOneLess
<1>7. CASE Corrected \/ MarkFailed
  <2>1. pendings' \subseteq pendings /\ noticeActs' = noticeActs /\ signals' = signals
    BY <1>7 DEF Corrected, MarkFailed, Server
  <2>2. Owed' \subseteq Owed /\ signals \in Nat /\ signals' <= signals
    BY <2>1 DEF Owed, SignalsInv
  <2> QED
    BY <2>1, <2>2, OwesNoMore
<1> QED
  BY <1>1, <1>2, <1>3, <1>4, <1>5, <1>6, <1>7 DEF NoticeNext

LEMMA CallsKept == ASSUME NoticeInv, NoticeNext PROVE CallsInv'
<1> DEFINE up == socket = "up"
           Fine(P) == CallsIn(P, menu.open, list.on, list.filter, up)
<1>1. Fine(pendings)
  BY DEF NoticeInv, CallsInv
<1>2. \A P \in SUBSET pendings : Fine(P)
  BY <1>1 DEF CallsIn
<1>3. [Call("count") EXCEPT !.filter = "all"] = Call("count")
  BY CallFields
<1>4. CASE ConnectSucceeds
  <2>1. CallsIn(pendings, menu.open, list.on, list.filter, TRUE)
    BY <1>1 DEF CallsIn, CallIn
  <2>2. CallsIn(pendings', menu.open, list.on, list.filter, TRUE)
    <3>1. \A who : CallIn(Joining(who), menu.open, list.on, list.filter, TRUE)
      BY DEF CallIn, Call, Joining
    <3> QED
      BY <1>4, <2>1, <3>1 DEF ConnectSucceeds, CallsIn
  <2> QED
    BY <1>4, <2>2 DEF ConnectSucceeds, CallsInv, Views
<1>5. CASE ConnectFails \/ CooledDown
  <2>1. ~up /\ UNCHANGED <<pendings, menu, list>>
    BY <1>5 DEF ConnectFails, CooledDown, Views
  <2>2. \A c \in pendings : c.what # "join"
    BY <1>1, <2>1 DEF CallsIn, CallIn
  <2> QED
    BY <1>1, <2>1, <2>2 DEF CallsInv, CallsIn, CallIn
<1>6. CASE Dropped
  <2>1. CallsIn({c \in pendings : c.what # "join"}, menu.open, list.on, list.filter, FALSE)
    BY <1>1 DEF CallsIn, CallIn
  <2>2. CallsIn(pendings', menu.open, list.on, list.filter, FALSE)
    BY <1>6, <2>1, CallsMade DEF Dropped, CallsIn
  <2> QED
    BY <1>6, <2>2 DEF Dropped, CallsInv
<1>7. CASE JoinEnds
  <2>1. PICK d \in pendings : JoinAcknowledged(d) \/ JoinRefused(d)
    BY <1>7 DEF JoinEnds
  <2>2. socket' = socket
    BY <1>7 DEF JoinEnds, Link
  <2>3. menu'.open = menu.open /\ list'.on = list.on /\ list'.filter = list.filter
    BY <2>1 DEF NoticeInv, ViewsInv, JoinAcknowledged, JoinRefused, BellRefreshes, Views
  <2>4. Fine(pendings \ {d})
    BY <1>2
  <2>5. Fine(Bumped(pendings \ {d}))
    BY <2>4, BumpedIs
  <2>6. list.on => Fine(Reread(pendings \ {d}))
    BY <2>4, RereadIs
  <2>7. Fine(pendings')
    BY <2>1, <2>4, <2>5, <2>6 DEF JoinAcknowledged, JoinRefused, ListHears
  <2> QED
    BY <2>2, <2>3, <2>7 DEF CallsInv
<1>8. CASE SignalArrives
  <2>1. menu'.open = menu.open /\ list'.on = list.on /\ list'.filter = list.filter /\ socket' = socket
    BY <1>8 DEF NoticeInv, ViewsInv, SignalArrives, BellRefreshes, Link
  <2>2. Fine(Bumped(pendings))
    BY <1>1, BumpedIs
  <2>3. list.on => Fine(Reread(Bumped(pendings)))
    BY <2>2, RereadIs
  <2>4. Fine(pendings')
    BY <1>8, <2>2, <2>3 DEF SignalArrives, ListHears
  <2> QED
    BY <2>1, <2>4 DEF CallsInv
<1>9. CASE Poll \/ ChangeVisibility
  <2>1. UNCHANGED <<menu, list, socket>>
    BY <1>9 DEF Poll, ChangeVisibility, Views, Link
  <2>2. \A c \in pendings' : c \in pendings \/ c = Call("count")
    BY <1>3, <1>9 DEF Poll, ChangeVisibility, Restarted
  <2>3. Fine(pendings')
    BY <1>1, <2>2, CallsMade DEF CallsIn
  <2> QED
    BY <2>1, <2>3 DEF CallsInv
<1>10. CASE Notified \/ ReadElsewhere \/ NoticesCascade
  BY <1>1, <1>10 DEF Notified, ReadElsewhere, NoticesCascade, Views, Link, CallsInv
<1>11. CASE ToggleMenu
  <2>1. menu'.open = ~menu.open /\ UNCHANGED <<list, socket>>
    BY <1>11 DEF NoticeInv, ViewsInv, ToggleMenu, UserAlone, Link
  <2>2. \A c \in pendings' : (c \in pendings /\ c.what # "menu") \/ (~menu.open /\ c = Call("menu"))
    <3>1. [Call("menu") EXCEPT !.filter = "all"] = Call("menu")
      BY CallFields
    <3> QED
      BY <1>11, <3>1 DEF ToggleMenu, Restarted
  <2>3. CallsIn(pendings', ~menu.open, list.on, list.filter, up)
    <3>1. \A c \in pendings : c.what # "menu" => CallIn(c, ~menu.open, list.on, list.filter, up)
      BY <1>1 DEF CallsIn, CallIn
    <3> QED
      BY <2>2, <3>1, CallsMade DEF CallsIn
  <2> QED
    BY <2>1, <2>3 DEF CallsInv
<1>12. CASE OpenList
  <2>1. list'.on /\ list'.filter = "all" /\ UNCHANGED <<menu, socket>>
    BY <1>12 DEF OpenList, NoList, UserAlone, Link
  <2>2. PICK d : d = [Call("page") EXCEPT !.filter = "all"]
    OBVIOUS
  <2>3. \A c \in pendings' : (c \in pendings /\ c.what # "page") \/ c = d \/ (up /\ c = Joining("page"))
    BY <1>12, <2>2 DEF OpenList, Restarted
  <2>4. \A c \in pendings : c.what # "page" => CallIn(c, menu.open, TRUE, "all", up)
    BY <1>1 DEF CallsIn, CallIn
  <2>5. CallIn(d, menu.open, TRUE, "all", up)
    BY <2>2, CallsMade
  <2>6. CallsIn(pendings', menu.open, TRUE, "all", up)
    <3>1. up => CallIn(Joining("page"), menu.open, TRUE, "all", up)
      BY DEF CallIn, Call, Joining
    <3> QED
      BY <2>3, <2>4, <2>5, <3>1 DEF CallsIn
  <2>7. list'.on = TRUE
    BY <1>12 DEF OpenList, NoList
  <2> QED
    BY <2>1, <2>6, <2>7 DEF CallsInv
<1>13. CASE CloseList
  <2>1. UNCHANGED <<menu, socket>> /\ pendings' \subseteq pendings
    BY <1>13 DEF CloseList, Link
  <2>2. \A c \in pendings' : c.what # "page"
    BY <1>13 DEF CloseList
  <2> QED
    BY <1>1, <2>1, <2>2 DEF CallsInv, CallsIn, CallIn
<1>14. CASE ChangeFilter
  <2>1. PICK filter \in Filters : /\ list' = [list EXCEPT !.filter = filter, !.loading = TRUE]
                                 /\ pendings' = Restarted("page", filter)
    BY <1>14 DEF ChangeFilter
  <2>2. list'.on = list.on /\ list'.filter = filter /\ list.on /\ UNCHANGED <<menu, socket>>
    BY <1>14, <2>1 DEF NoticeInv, ViewsInv, ChangeFilter, UserAlone, Link
  <2>3. PICK d : d = [Call("page") EXCEPT !.filter = filter]
    OBVIOUS
  <2>4. \A c \in pendings' : (c \in pendings /\ c.what # "page") \/ c = d
    BY <2>1, <2>3 DEF Restarted
  <2>5. \A c \in pendings : c.what # "page" => CallIn(c, menu.open, list.on, filter, up)
    BY <1>1 DEF CallsIn, CallIn
  <2>6. CallIn(d, menu.open, list.on, filter, up)
    BY <2>2, <2>3, CallsMade
  <2>7. CallsIn(pendings', menu.open, list.on, filter, up)
    BY <2>4, <2>5, <2>6 DEF CallsIn
  <2> QED
    BY <2>2, <2>7 DEF CallsInv
<1>15. CASE LoadMoreNotices \/ OpenNotice \/ MarkAll
  <2>1. UNCHANGED <<menu, socket>> /\ list'.on = list.on /\ list'.filter = list.filter
    BY <1>15 DEF NoticeInv, ViewsInv, LoadMoreNotices, OpenNotice, MarkAll, UserAlone, Link
  <2>2. PICK d : pendings' = pendings \cup {d} /\ CallIn(d, menu.open, list.on, list.filter, up)
    <3>1. CASE LoadMoreNotices
      <4>1. PICK d : /\ d = [Call("more") EXCEPT !.who = "page", !.filter = list.filter,
                                                 !.id = list.cursor.after]
                     /\ pendings' = pendings \cup {d}
        BY <3>1 DEF LoadMoreNotices
      <4>2. d.what = "more" /\ d = [what |-> d.what, who |-> d.who, id |-> d.id, filter |-> d.filter]
        BY <4>1 DEF Call
      <4> QED
        BY <4>1, <4>2, FreeCalls
    <3>2. CASE OpenNotice
      <4>1. PICK who, id, d : /\ d = [Call("read") EXCEPT !.who = who, !.id = id]
                              /\ pendings' = pendings \cup {d}
        BY <3>2 DEF OpenNotice
      <4>2. d.what = "read" /\ d = [what |-> d.what, who |-> d.who, id |-> d.id, filter |-> d.filter]
        BY <4>1 DEF Call
      <4> QED
        BY <4>1, <4>2, FreeCalls
    <3>3. CASE MarkAll
      <4>1. PICK who, d : /\ d = [Call("read-all") EXCEPT !.who = who]
                          /\ pendings' = pendings \cup {d}
        BY <3>3 DEF MarkAll
      <4>2. d.what = "read-all" /\ d = [what |-> d.what, who |-> d.who, id |-> d.id, filter |-> d.filter]
        BY <4>1 DEF Call
      <4> QED
        BY <4>1, <4>2, FreeCalls
    <3> QED
      BY <1>15, <3>1, <3>2, <3>3
  <2> QED
    BY <1>1, <2>1, <2>2 DEF CallsInv, CallsIn
<1>16. CASE Answer
  <2>1. PICK c \in pendings : \/ CountAnswered(c) \/ CountFailed(c) \/ MenuAnswered(c) \/ ListAnswered(c)
                              \/ RowsFailed(c) \/ MoreAnswered(c)
    BY <1>16 DEF Answer
  <2>2. menu'.open = menu.open /\ list'.on = list.on /\ list'.filter = list.filter
    BY <2>1 DEF NoticeInv, ViewsInv, CountAnswered, CountFailed, MenuAnswered, ListAnswered, RowsFailed,
       MoreAnswered, Views
  <2>3. socket' = socket /\ Fine(pendings')
    BY <1>2, <1>16 DEF Answer, Link
  <2> QED
    BY <2>2, <2>3 DEF CallsInv
<1>17. CASE Marked
  <2>0. PICK c \in pendings :
          pendings' = (pendings \ {c})
                        \cup {[c EXCEPT !.what = IF @ = "read" THEN "was-read" ELSE "all-were"]}
    BY <1>17 DEF Marked
  <2>1. PICK d : /\ d = [c EXCEPT !.what = IF @ = "read" THEN "was-read" ELSE "all-were"]
                 /\ pendings' = (pendings \ {c}) \cup {d}
    BY <2>0
  <2>2. c = [what |-> c.what, who |-> c.who, id |-> c.id, filter |-> c.filter]
    BY <1>1 DEF CallsIn, CallIn
  <2>3. d.what \in {"was-read", "all-were"} /\ d = [what |-> d.what, who |-> d.who, id |-> d.id, filter |-> d.filter]
    BY <2>1, <2>2
  <2>4. CallIn(d, menu.open, list.on, list.filter, up)
    BY <2>3, FreeCalls
  <2> QED
    BY <1>1, <1>17, <2>1, <2>4 DEF Marked, CallsInv, CallsIn, Link, Views
<1>18. CASE Corrected \/ MarkFailed
  <2>1. socket' = socket /\ list'.on = list.on /\ list'.filter = list.filter
    BY <1>18 DEF NoticeInv, ViewsInv, Corrected, MarkFailed, Link
  <2>2. pendings' \subseteq pendings /\ \A c \in pendings' : c.what = "menu" => menu'.open
    BY <1>18 DEF Corrected, MarkFailed
  <2> QED
    BY <1>1, <2>1, <2>2 DEF CallsInv, CallsIn, CallIn
<1> QED
  BY <1>4, <1>5, <1>6, <1>7, <1>8, <1>9, <1>10, <1>11, <1>12, <1>13, <1>14, <1>15, <1>16, <1>17, <1>18
     DEF NoticeNext

LEMMA NoticeKept == NoticeInv /\ [NoticeNext]_noticeVars => NoticeInv'
<1>1. CASE UNCHANGED noticeVars
  <2>1. Owed' = Owed
    BY <1>1 DEF Owed, noticeVars
  <2> QED
    BY <1>1, <2>1 DEF NoticeInv, SignalsInv, ViewsInv, LinkInv, CallsInv, noticeVars
<1>2. ASSUME NoticeInv, NoticeNext PROVE NoticeInv'
  <2>1. DOMAIN notices' \subseteq Notices \ cascaded'
    <3>1. CASE Notified
      <4>1. PICK n \in Notices : /\ \A m \in DOMAIN notices \cup cascaded : m < n
                                 /\ DOMAIN notices' = DOMAIN notices \cup {n} /\ cascaded' = cascaded
        BY <3>1 DEF Notified
      <4>2. n \notin cascaded
        BY <4>1, NotificationCentreAssumption
      <4> QED
        BY <1>2, <4>1, <4>2 DEF NoticeInv
    <3>2. CASE NoticesCascade
      BY <1>2, <3>2 DEF NoticeInv, NoticesCascade
    <3>3. CASE ReadElsewhere \/ Marked
      BY <1>2, <3>3 DEF NoticeInv, ReadElsewhere, Marked
    <3>4. CASE UNCHANGED <<notices, cascaded>>
      BY <1>2, <3>4 DEF NoticeInv
    <3>5. ConnectSucceeds \/ ConnectFails \/ CooledDown \/ Dropped \/ JoinEnds => UNCHANGED <<notices, cascaded>>
      BY DEF ConnectSucceeds, ConnectFails, CooledDown, Dropped, JoinEnds, Server, UserAlone
    <3>6. SignalArrives \/ Poll \/ ChangeVisibility \/ ToggleMenu \/ OpenList => UNCHANGED <<notices, cascaded>>
      BY DEF SignalArrives, Poll, ChangeVisibility, ToggleMenu, OpenList, Server, UserAlone
    <3>7. CloseList \/ ChangeFilter \/ LoadMoreNotices \/ OpenNotice \/ MarkAll => UNCHANGED <<notices, cascaded>>
      BY Zenon DEF CloseList, ChangeFilter, LoadMoreNotices, OpenNotice, MarkAll, Server, UserAlone
    <3>8. Answer \/ Corrected \/ MarkFailed => UNCHANGED <<notices, cascaded>>
      BY Zenon DEF Answer, Corrected, MarkFailed, Server, UserAlone
    <3> QED
      BY <1>2, <3>1, <3>2, <3>3, <3>4, <3>5, <3>6, <3>7, <3>8, Zenon DEF NoticeNext
  <2>2. SignalsInv'
    BY <1>2, SignalsKept
  <2>3. ViewsInv'
    BY <1>2, ViewsKept
  <2>4. LinkInv'
    BY <1>2, LinkKept
  <2>5. CallsInv'
    BY <1>2, CallsKept
  <2> QED
    BY <2>1, <2>2, <2>3, <2>4, <2>5, Zenon DEF NoticeInv
<1> QED
  BY <1>1, <1>2

LEMMA NoticeStart == ASSUME NoticeInit PROVE NoticeInv
<1>1. DOMAIN notices \subseteq Notices \ cascaded
  BY DEF NoticeInit
<1>2. SignalsInv
  <2>1. Owed = {}
    BY NothingOwed DEF NoticeInit, Owed
  <2> QED
    BY <2>1, FS_EmptySet, NotificationCentreAssumption DEF NoticeInit, SignalsInv
<1>3. ViewsInv
  <2>1. 0 \in 0..Cardinality(Notices)
    BY FS_CardinalityType, NotificationCentreAssumption
  <2> QED
    BY <2>1 DEF NoticeInit, ViewsInv, NoList
<1>4. LinkInv
  <2>1. list.on = FALSE /\ bell.connected = FALSE
    BY DEF NoticeInit, NoList
  <2>2. 0 \in 0..Attempts - 1
    BY NotificationCentreAssumption
  <2> QED
    BY <2>1, <2>2 DEF NoticeInit, LinkInv
<1>5. CallsInv
  <2>1. CallIn(Call("count"), menu.open, list.on, list.filter, socket = "up")
    BY DEF CallIn, Call
  <2> QED
    BY <2>1 DEF NoticeInit, CallsInv, CallsIn
<1> QED
  BY <1>1, <1>2, <1>3, <1>4, <1>5 DEF NoticeInv

-----------------------------------------------------------------------------
(* The parts together *)

\* A behaviour is one of one part, and the others rest where they began.
ClientsInv == PanelInv /\ ServerInv /\ NoticeInv /\ InvitationInv /\ ShellInv /\ PipelineInv

LEMMA ClientsStart == ASSUME ClientsInit PROVE ClientsInv
BY PanelStart, ServerStart, NoticeStart, AuthStart, ShellStart, PipelineStart DEF ClientsInit, ClientsInv

LEMMA ClientsKept == ClientsInv /\ [ClientsNext]_clientsVars => ClientsInv'
<1> SUFFICES ASSUME ClientsInv, [ClientsNext]_clientsVars PROVE ClientsInv'
  OBVIOUS
<1>1. [PanelNext]_panelVars
  BY DEF ClientsNext, clientsVars
<1>2. [NoticeNext]_noticeVars
  BY DEF ClientsNext, clientsVars
<1>3. [AuthNext]_authVars
  BY DEF ClientsNext, clientsVars
<1>4. [ShellNext]_shellVars
  BY DEF ClientsNext, clientsVars
<1>5. [PipelineNext]_pipelineVars
  BY DEF ClientsNext, clientsVars
<1> QED
  BY <1>1, <1>2, <1>3, <1>4, <1>5, PanelKept, ServerKept, NoticeKept, AuthKept, ShellKept, PipelineKept
     DEF ClientsInv

(***************************************************************************)
(* The variables of every part of the browser, and of what its requests     *)
(* pass through, keep their types, for all the constants: a read of the     *)
(* panel is for what it wants to show; the tab has one read of a kind under *)
(* way, and no more signals than there were acts to send them; the number   *)
(* of the badge is one of the notifications there are; and the throttler    *)
(* has counted no more requests than were made.                             *)
(***************************************************************************)
THEOREM ClientsTyped == ClientsSpec => []ClientsTypeOK
<1>1. ClientsInv => ClientsTypeOK
  BY PanelTyped, NoticeTyped, PipelineTyped DEF ClientsInv, ClientsTypeOK, InvitationInv, ShellInv
<1> QED
  BY <1>1, ClientsStart, ClientsKept, PTL DEF ClientsSpec

=================================================================================
