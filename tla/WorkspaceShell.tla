---------------------------- MODULE WorkspaceShell ----------------------------
(***************************************************************************)
(* The shell around the signed-in pages, in one tab: WorkspaceProvider,     *)
(* which knows the person's workspaces, the active one and the person's     *)
(* role in it, and the settings that change them.  The session names an     *)
(* active workspace too.  It is read again after every call of Better       *)
(* Auth's client that changes it, and each reading starts a new bootstrap.  *)
(* Better Auth is external.                                                 *)
(***************************************************************************)
EXTENDS Naturals, FiniteSets

CONSTANTS
    Spaces,         \* workspaces, numbered in the order the API lists them
    MaxSwitches     \* how often the person switches workspace

ASSUME SpacesAssumption == Spaces \subseteq Nat \ {0} /\ IsFiniteSet(Spaces)
ASSUME SwitchesAssumption == MaxSwitches \in Nat

NoSpace == 0
NoRole == [of |-> NoSpace, is |-> "NONE"]

VARIABLES
    seats,      \* the person's role in each workspace: "NONE" without one, "UNBORN" before it exists
    invited,    \* the workspaces with a pending invitation
    cookie,     \* the session: signed in, and its active workspace
    tab,        \* the state of the provider, and of the router
    boot,       \* the bootstrap in flight
    switches,   \* the calls of onSwitch in flight
    latest,     \* switchGenerationRef
    errand,     \* a creation, a departure or a deletion in flight
    roster,     \* the members screen
    invites     \* the invitations being sent, and whether the screen that sent them is there

shellVars == <<seats, invited, cookie, tab, boot, switches, latest, errand, roster, invites>>

NoBoot == [step |-> "none", spaces |-> {}, space |-> NoSpace]
NoErrand == [kind |-> "none", space |-> NoSpace]
NoRoster == [space |-> NoSpace, manage |-> FALSE, state |-> "unmounted", queue |-> {}]

HasSeat(s) == seats[s] \in {"OWNER", "MEMBER"}
Listed == {s \in Spaces : HasSeat(s)}
CanManage(role) == role.is = "OWNER"
FirstOf(S) == CHOOSE s \in S : \A u \in S : s =< u

\* The role fetchOwnMembership reads.
RoleIn(s) == [of |-> s, is |-> seats[s]]

\* Slip: the pages stay up while the workspaces are read again.
StaysUp(t) == t.in /\ ~t.failed

\* Pages are rendered only by a shell that is bootstrapped; a skeleton takes them down.
PagesUp(t) == t.in /\ ~t.loading /\ ~t.failed

\* Whoever has no workspace is sent to create one.
Placed(t) ==
    IF PagesUp(t) /\ t.spaces = {} /\ t.at = "app" THEN [t EXCEPT !.at = "create"] ELSE t

\* The members screen reads anew when the active workspace changes, or the right to manage.
Roster(t) ==
    IF ~PagesUp(t) \/ t.at # "app" THEN NoRoster
    ELSE IF roster.state # "unmounted" /\ roster.space = t.space /\ roster.manage = CanManage(t.role)
         THEN roster
    ELSE [space |-> t.space, manage |-> CanManage(t.role), state |-> "loading", queue |-> roster.queue]

\* The tab becomes t, with what follows from it.
Show(t) ==
    /\ tab' = Placed(t)
    /\ roster' = Roster(tab')
    /\ invites' = IF roster'.state = "unmounted" THEN [w \in DOMAIN invites |-> FALSE] ELSE invites

Bootstrapping(t) == [t EXCEPT !.loading = TRUE, !.failed = FALSE]
Emptied(t) == [t EXCEPT !.spaces = {}, !.space = NoSpace, !.role = NoRole, !.loading = FALSE]
StartBoot == boot' = [NoBoot EXCEPT !.step = "list"]

ShellInit ==
    /\ seats \in [Spaces -> {"OWNER", "MEMBER", "NONE", "UNBORN"}]
    /\ invited \in SUBSET {s \in Spaces : seats[s] # "UNBORN"}
    /\ \E s \in Listed \cup {NoSpace} :
          /\ cookie = [in |-> TRUE, space |-> s]
          /\ tab = [in |-> TRUE, known |-> s, heard |-> FALSE, spaces |-> {}, space |-> NoSpace,
                    role |-> NoRole, loading |-> TRUE, failed |-> FALSE, at |-> "app", going |-> FALSE]
    /\ boot = [NoBoot EXCEPT !.step = "list"]
    /\ switches = {} /\ latest = 0
    /\ errand = NoErrand
    /\ roster = NoRoster
    /\ invites = [s \in {} |-> FALSE]

-----------------------------------------------------------------------------
(* The session *)

Heard(t) == [t EXCEPT !.heard = TRUE]

\* The session is read: another bootstrap, or the sign-in form.  What was in flight is aborted.
SessionRead ==
    /\ tab.heard
    /\ LET t == [tab EXCEPT !.heard = FALSE, !.in = cookie.in, !.known = cookie.space]
       IN  IF cookie.in
           THEN StartBoot /\ Show(Bootstrapping(t))
           ELSE boot' = NoBoot /\ Show([t EXCEPT !.at = "login"])
    /\ UNCHANGED <<seats, invited, cookie, switches, latest, errand>>

\* Signing out, here or elsewhere.
SignedOut ==
    /\ cookie.in
    /\ cookie' = [in |-> FALSE, space |-> NoSpace]
    /\ tab' = Heard(tab)
    /\ UNCHANGED <<seats, invited, boot, switches, latest, errand, roster, invites>>

\* setActive: a workspace the person is a member of, or none.  A refusal is an answer, which the
\* callers do not look at; the session is read again after a call that did change it.
Enters(s) == cookie.in /\ (s = NoSpace \/ HasSeat(s))
SetActive(s) == cookie' = IF Enters(s) THEN [cookie EXCEPT !.space = s] ELSE cookie
AfterSetActive(t, s) == IF Enters(s) THEN Heard(t) ELSE t

-----------------------------------------------------------------------------
(* The bootstrap: the roster of workspaces, the active one, the role in it *)

ListSpaces ==
    /\ boot.step = "list"
    /\ IF Listed = {}
       THEN boot' = NoBoot /\ Show(Emptied(tab))
       ELSE LET s == IF tab.known = NoSpace THEN FirstOf(Listed) ELSE tab.known
            IN  /\ boot' = [step |-> IF s = tab.known THEN "role" ELSE "enter",
                            spaces |-> Listed, space |-> s]
                /\ UNCHANGED <<tab, roster, invites>>
    /\ UNCHANGED <<seats, invited, cookie, switches, latest, errand>>

EnterSpace ==
    /\ boot.step = "enter"
    /\ SetActive(boot.space)
    /\ boot' = [boot EXCEPT !.step = "role"]
    /\ tab' = AfterSetActive(tab, boot.space)
    /\ UNCHANGED <<seats, invited, switches, latest, errand, roster, invites>>

\* All of it lands in one write.
ReadRole ==
    /\ boot.step = "role" /\ HasSeat(boot.space)
    /\ boot' = NoBoot
    /\ Show([tab EXCEPT !.spaces = boot.spaces, !.space = boot.space, !.role = RoleIn(boot.space),
                        !.loading = FALSE])
    /\ UNCHANGED <<seats, invited, cookie, switches, latest, errand>>

\* A step is refused, or its answer is lost.
BootFails ==
    /\ boot.step # "none"
    /\ boot' = NoBoot
    /\ Show([Emptied(tab) EXCEPT !.failed = TRUE])
    /\ UNCHANGED <<seats, invited, cookie, switches, latest, errand>>

RetryBootstrap ==
    /\ tab.in /\ tab.failed
    /\ StartBoot
    /\ Show(Bootstrapping(tab))
    /\ UNCHANGED <<seats, invited, cookie, switches, latest, errand>>

-----------------------------------------------------------------------------
(* Switching *)

OnSwitch ==
    \E s \in tab.spaces \ {tab.space} :
        /\ PagesUp(tab) /\ latest < MaxSwitches
        /\ latest' = latest + 1
        /\ switches' = switches \cup {[gen |-> latest', space |-> s, step |-> "enter"]}
        /\ Show([tab EXCEPT !.space = s])
        /\ UNCHANGED <<seats, invited, cookie, boot, errand>>

\* The calls of two switches reach the server in either order.
SwitchEnters ==
    \E w \in switches :
        /\ w.step = "enter"
        /\ SetActive(w.space)
        /\ tab' = AfterSetActive(tab, w.space)
        /\ switches' = (switches \ {w}) \cup {[w EXCEPT !.step = "role"]}
        /\ UNCHANGED <<seats, invited, boot, latest, errand, roster, invites>>

\* Only the latest switch may write the role.
IsLatest(w) == w.gen = latest

SwitchReadsRole ==
    \E w \in switches :
        /\ w.step = "role"
        /\ switches' = switches \ {w}
        /\ IF ~IsLatest(w) THEN UNCHANGED <<tab, roster, invites>>
           ELSE \/ HasSeat(w.space) /\ Show([tab EXCEPT !.role = RoleIn(w.space)])
                \/ Show([tab EXCEPT !.role = NoRole])
        /\ UNCHANGED <<seats, invited, cookie, boot, latest, errand>>

-----------------------------------------------------------------------------
(* Creating, leaving and deleting a workspace: a request, then setActive *)

GoCreate ==
    /\ PagesUp(tab) /\ tab.at = "app"
    /\ Show([tab EXCEPT !.at = "create"])
    /\ UNCHANGED <<seats, invited, cookie, boot, switches, latest, errand>>

\* The form of the creation page; the members screen and the danger zone of the settings.
BeginErrand(kind, s) ==
    /\ errand = NoErrand
    /\ cookie.in
    /\ errand' = [kind |-> kind, space |-> s]
    /\ cookie' = IF kind # "create" /\ cookie.space = s THEN [cookie EXCEPT !.space = NoSpace] ELSE cookie
    /\ UNCHANGED <<tab, boot, switches, latest, roster, invites>>

CreateSpace ==
    /\ tab.at = "create"
    /\ \E s \in Spaces :
          /\ seats[s] = "UNBORN"
          /\ seats' = [seats EXCEPT ![s] = "OWNER"]
          /\ BeginErrand("create", s)
    /\ UNCHANGED invited

LeaveSpace ==
    /\ roster.state = "shown" /\ HasSeat(tab.space)
    /\ seats' = [seats EXCEPT ![tab.space] = "NONE"]
    /\ BeginErrand("leave", tab.space)
    /\ UNCHANGED invited

DeleteSpace ==
    /\ PagesUp(tab) /\ tab.at = "app" /\ CanManage(tab.role) /\ tab.space # NoSpace
    /\ seats[tab.space] = "OWNER"
    /\ seats' = [seats EXCEPT ![tab.space] = "NONE"]
    /\ invited' = invited \ {tab.space}
    /\ BeginErrand("delete", tab.space)

\* setActive(the new one), or setActive(null), and the navigation to the dashboard begins.
EndErrand ==
    /\ errand.kind # "none"
    /\ errand' = NoErrand
    /\ LET s == IF errand.kind = "create" THEN errand.space ELSE NoSpace
       IN  SetActive(s) /\ tab' = [AfterSetActive(tab, s) EXCEPT !.going = TRUE]
    /\ UNCHANGED <<seats, invited, boot, switches, latest, roster, invites>>

\* The router arrives at the dashboard.
ReachApp ==
    /\ tab.going
    /\ Show([tab EXCEPT !.going = FALSE, !.at = IF tab.in THEN "app" ELSE @])
    /\ UNCHANGED <<seats, invited, cookie, boot, switches, latest, errand>>

\* Someone else removes the person, or takes the right to manage away.
Demoted ==
    \E s \in Spaces :
        /\ seats[s] = "OWNER"
        /\ seats' = [seats EXCEPT ![s] = "MEMBER"]
        /\ UNCHANGED <<invited, cookie, tab, boot, switches, latest, errand, roster, invites>>

Removed ==
    \E s \in Spaces :
        /\ HasSeat(s)
        /\ seats' = [seats EXCEPT ![s] = "NONE"]
        /\ UNCHANGED <<invited, cookie, tab, boot, switches, latest, errand, roster, invites>>

-----------------------------------------------------------------------------
(* The members screen *)

\* The pending invitations are asked for by a manager only; anyone else would be refused them.
RosterLands ==
    /\ roster.state = "loading" /\ roster.space # NoSpace
    /\ roster' =
         IF HasSeat(roster.space) /\ (roster.manage => seats[roster.space] = "OWNER")
         THEN [roster EXCEPT !.state = "shown",
                             !.queue = IF roster.manage THEN invited \cap {roster.space} ELSE {}]
         ELSE [roster EXCEPT !.state = "failed", !.queue = {}]
    /\ UNCHANGED <<seats, invited, cookie, tab, boot, switches, latest, errand, invites>>

RosterRetried ==
    /\ roster.state = "failed"
    /\ roster' = [roster EXCEPT !.state = "loading"]
    /\ UNCHANGED <<seats, invited, cookie, tab, boot, switches, latest, errand, invites>>

\* The dialog can be closed, and the workspace switched, while its request is in flight.
SendInvite ==
    /\ roster.state = "shown" /\ roster.manage
    /\ tab.space \notin DOMAIN invites
    /\ invites' = [s \in DOMAIN invites \cup {tab.space} |-> s = tab.space \/ invites[s]]
    /\ UNCHANGED <<seats, invited, cookie, tab, boot, switches, latest, errand, roster>>

\* The reply is folded into the list of the screen that asked, if that is still there.
InviteAnswered ==
    \E s \in DOMAIN invites :
        /\ invites' = [u \in DOMAIN invites \ {s} |-> invites[u]]
        /\ IF seats[s] = "OWNER"
           THEN /\ invited' = invited \cup {s}
                /\ roster' = IF invites[s] THEN [roster EXCEPT !.queue = @ \cup {s}] ELSE roster
           ELSE UNCHANGED <<invited, roster>>
        /\ UNCHANGED <<seats, cookie, tab, boot, switches, latest, errand>>

RevokeInvite ==
    /\ roster.state = "shown" /\ roster.manage
    /\ \E s \in roster.queue :
          /\ s = roster.space /\ seats[s] = "OWNER"
          /\ invited' = invited \ {s}
          /\ roster' = [roster EXCEPT !.queue = @ \ {s}]
    /\ UNCHANGED <<seats, cookie, tab, boot, switches, latest, errand, invites>>

ShellNext ==
    \/ SessionRead \/ SignedOut
    \/ ListSpaces \/ EnterSpace \/ ReadRole \/ BootFails \/ RetryBootstrap
    \/ OnSwitch \/ SwitchEnters \/ SwitchReadsRole
    \/ GoCreate \/ CreateSpace \/ LeaveSpace \/ DeleteSpace \/ EndErrand \/ ReachApp
    \/ Demoted \/ Removed
    \/ RosterLands \/ RosterRetried \/ SendInvite \/ InviteAnswered \/ RevokeInvite

ShellSpec == ShellInit /\ [][ShellNext]_shellVars

-----------------------------------------------------------------------------

Roles == [of : Spaces \cup {NoSpace}, is : {"OWNER", "MEMBER", "NONE"}]

ShellTypeOK ==
    /\ seats \in [Spaces -> {"OWNER", "MEMBER", "NONE", "UNBORN"}]
    /\ invited \subseteq Spaces
    /\ cookie \in [in : BOOLEAN, space : Spaces \cup {NoSpace}]
    /\ tab \in [in : BOOLEAN, known : Spaces \cup {NoSpace}, heard : BOOLEAN,
                spaces : SUBSET Spaces, space : Spaces \cup {NoSpace}, role : Roles,
                loading : BOOLEAN, failed : BOOLEAN, at : {"app", "create", "login"},
                going : BOOLEAN]
    /\ boot \in [step : {"none", "list", "enter", "role"}, spaces : SUBSET Spaces,
                 space : Spaces \cup {NoSpace}]
    /\ switches \subseteq [gen : 1..MaxSwitches, space : Spaces, step : {"enter", "role"}]
    /\ latest \in 0..MaxSwitches
    /\ errand \in [kind : {"none", "create", "leave", "delete"}, space : Spaces \cup {NoSpace}]
    /\ roster \in [space : Spaces \cup {NoSpace}, manage : BOOLEAN,
                   state : {"unmounted", "loading", "shown", "failed"}, queue : SUBSET Spaces]
    /\ \E S \in SUBSET Spaces : invites \in [S -> BOOLEAN]

\* Nothing is in flight, and the pages are rendered.
AtRest ==
    /\ PagesUp(tab) /\ ~tab.heard /\ ~tab.going
    /\ boot = NoBoot /\ switches = {} /\ errand = NoErrand /\ DOMAIN invites = {}

(***************************************************************************)
(* Once everything is answered the role is the one that was read for the    *)
(* active workspace: "a workspace switch mid-flight must land as one write  *)
(* or not at all", and not "leave the shell showing one workspace's name    *)
(* next to another's role" (workspace-provider.tsx:38-41).                  *)
(***************************************************************************)
RoleIsOfActiveSpace == AtRest => tab.role.of \in {tab.space, NoSpace}

(***************************************************************************)
(* Once everything is answered the members screen lists invitations of the  *)
(* active workspace only, although a dialog's reply is folded into          *)
(* whatever list is there when it comes (members-settings.tsx:268-276).     *)
(* Only a manager is shown the list (members-settings.tsx:164): a refused   *)
(* switch can leave another workspace's rows in the list of someone else.   *)
(***************************************************************************)
QueueIsOfActiveSpace ==
    AtRest /\ roster.state = "shown" /\ roster.manage => roster.queue \subseteq {tab.space}

=============================================================================
