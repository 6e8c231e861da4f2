------------------------------- MODULE MCClient -------------------------------
(***************************************************************************)
(* A browser besides the board, and what its requests pass through: the     *)
(* panel of a task, the notifications, the screens around signing in, the   *)
(* shell with its workspaces, and the guards of the API.  They share no     *)
(* state in these models, so a behaviour is one of one of them (`part')     *)
(* and the others rest in an initial state.                                 *)
(***************************************************************************)
EXTENDS TaskPanel, NotificationCentre, AuthScreens, WorkspaceShell, RequestPipeline, TLC

VARIABLE part

clientsVars == <<part, panelVars, noticeVars, authVars, shellVars, pipelineVars>>

MCLimits ==
    [default |-> 2, search |-> 1, invite |-> 1, upload |-> 1, download |-> 1, import |-> 1]

\* Without an operator and with a Redis that answers; and the other way round.
MCDeployments == {[operator |-> FALSE, redis |-> "up"], [operator |-> TRUE, redis |-> "down"]}

\* The person owns a workspace, and may create another.
ShellStarts == seats = <<"OWNER", "UNBORN">> /\ invited = {1} /\ cookie.space = 1

ClientsInit ==
    /\ part \in {"panel", "notices", "auth", "shell", "pipeline"}
    /\ PanelInit
    /\ part # "panel" => attached = {} /\ DOMAIN ui.board = {}
    /\ NoticeInit /\ (part # "notices" => notices = [n \in {} |-> FALSE])
    /\ AuthInit /\ (part # "auth" => account = "none" /\ mails = {})
    /\ ShellInit /\ ShellStarts
    /\ PipelineInit
    /\ part # "pipeline" => /\ deployed.redis = "up" /\ session = "none"
                            /\ role = "NONE" /\ earlier = 0

ClientsNext ==
    /\ UNCHANGED part
    /\ \/ part = "panel" /\ PanelNext
       \/ part # "panel" /\ UNCHANGED panelVars
    /\ \/ part = "notices" /\ NoticeNext
       \/ part # "notices" /\ UNCHANGED noticeVars
    /\ \/ part = "auth" /\ AuthNext
       \/ part # "auth" /\ UNCHANGED authVars
    /\ \/ part = "shell" /\ ShellNext
       \/ part # "shell" /\ UNCHANGED shellVars
    /\ \/ part = "pipeline" /\ PipelineNext
       \/ part # "pipeline" /\ UNCHANGED pipelineVars

\* Timers fire and answers arrive, in the behaviours of the part that waits for them; a
\* reconnection succeeds if it is tried for ever.
ClientsSpec ==
    /\ ClientsInit /\ [][ClientsNext]_clientsVars
    /\ WF_panelVars(part = "panel" /\ ReadLands)
    /\ WF_noticeVars(part = "notices" /\ Answer)
    /\ WF_noticeVars(part = "notices" /\ JoinEnds)
    /\ WF_noticeVars(part = "notices" /\ SignalArrives)
    /\ WF_noticeVars(part = "notices" /\ Poll)
    /\ WF_noticeVars(part = "notices" /\ CooledDown)
    /\ SF_noticeVars(part = "notices" /\ ConnectSucceeds)

\* The variables of the components keep their types.
ClientsTypeOK == PanelTypeOK /\ NoticeTypeOK /\ AuthTypeOK /\ ShellTypeOK /\ PipelineTypeOK

=============================================================================
