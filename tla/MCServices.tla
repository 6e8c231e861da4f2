------------------------------ MODULE MCServices -----------------------------
(***************************************************************************)
(* What the API does on its own clock or in one long piece, the due-soon    *)
(* scan, the retention of rows and of files, invitations, the import of a   *)
(* board, the deletion of an account with its workspaces and the erasure    *)
(* from other people's text.  They share no row in these models, so a       *)
(* behaviour is one of one of them (`part') and the others rest in an       *)
(* initial state.                                                           *)
(***************************************************************************)
EXTENDS DueSoon, Insights, Invitations, AttachmentStore, TrelloImport, Erasure, Farewell, TLC

VARIABLE part

servicesVars == <<part, dueVars, insightVars, inviteVars, vars, importVars, erasureVars, farewellVars>>

\* One scanner that nothing disturbs, or all of them and one edit.
MCDueStart ==
    \/ running = {CHOOSE s \in Scanners : TRUE} /\ faults = 0 /\ dueEdits = 0
    \/ running = Scanners /\ faults = MaxFaults /\ dueEdits = 1

\* No activity; and a move that completed a task, yesterday, with older rows behind it.
MCActivity(user, type, at, completed) ==
    [user |-> user, type |-> type, at |-> at, lane |-> "l1", completed |-> completed]
MCHistory ==
    {{}, {MCActivity("v1", "task.moved", -1, TRUE), MCActivity("v1", "task.moved", -3, FALSE),
          MCActivity("v2", "task.created", -1, FALSE)}}

\* No other rows; and some of every table, two in one of them: more than a batch.
MCOddments ==
    {{}, {[table |-> "Session", stamp |-> i] : i \in {1, 2}}
            \cup {[table |-> "Notification", stamp |-> 0], [table |-> "Verification", stamp |-> 1]}}

\* Boards of two lists and three cards, with one entry or section of every sort that is skipped.
MCEntry(read, closed, named, pos) == [read |-> read, closed |-> closed, named |-> named, pos |-> pos]
MCLive(pos) == MCEntry(TRUE, FALSE, TRUE, pos)
MCCard(entry, list) ==
    [read |-> entry.read, closed |-> entry.closed, named |-> entry.named, pos |-> entry.pos,
     list |-> list, labels |-> {1, 3}, links |-> <<"web", "file", "broken">>]
MCChecklist(named, card) ==
    [read |-> TRUE, named |-> named, pos |-> 0, card |-> card,
     items |-> <<MCLive(2), MCLive(1), MCEntry(TRUE, FALSE, FALSE, 3), MCEntry(FALSE, FALSE, TRUE, 0)>>]
MCExport(sections, other, card) ==
    [recognised |-> TRUE, board |-> 1, sections |-> sections,
     lists |-> <<MCLive(5), other>>,
     cards |-> <<card, MCCard(MCLive(3), 1), MCCard(MCLive(0), 1)>>,
     labels |-> <<[read |-> TRUE, named |-> TRUE, known |-> TRUE],
                  [read |-> TRUE, named |-> FALSE, known |-> FALSE],
                  [read |-> FALSE, named |-> TRUE, known |-> TRUE]>>,
     checklists |-> <<MCChecklist(TRUE, 1), MCChecklist(FALSE, 2), MCChecklist(TRUE, 2),
                      MCChecklist(TRUE, 9)>>]
MCSections == {"lists", "cards", "labels", "checklists"}
MCOthers ==
    {MCLive(0), MCEntry(TRUE, TRUE, TRUE, 1), MCEntry(TRUE, FALSE, FALSE, 1), MCEntry(FALSE, FALSE, TRUE, 1)}
MCExports ==
    {MCExport(MCSections, other, MCCard(MCLive(3), list)) : other \in MCOthers, list \in {0, 1, 2}}
    \cup {MCExport(MCSections, MCLive(2), MCCard(entry, 1)) : entry \in MCOthers}
    \cup {MCExport(MCSections \ {s}, MCLive(2), MCCard(MCLive(1), 2)) : s \in MCSections \ {"lists"}}
    \cup {[recognised |-> FALSE]}

\* A comment that carries p's id or mentions p, before one that mentions both.
MCRemark(ids, names) == [ids |-> ids, names |-> names]
MCBoth == MCRemark({"p", "q"}, {"p", "q"})
MCRemarks == {<<MCRemark({"p"}, {}), MCBoth>>, <<MCRemark({"p", "q"}, {"p"}), MCBoth>>}

\* The person owns two workspaces, one with a member and one alone.
MCSeats(member) == [p \in Folk |-> IF p = Me THEN "OWNER" ELSE member]
MCAlone == CHOOSE w \in Teams : TRUE
MCTeams == [w \in Teams |-> MCSeats(IF w = MCAlone THEN "NONE" ELSE "MEMBER")]

ServicesInit ==
    /\ part \in {"due", "insights", "invitations", "store", "import", "erasure", "farewell"}
    /\ DueInit /\ MCDueStart
    /\ part # "due" => /\ running = {CHOOSE s \in Scanners : TRUE}
                       /\ \A t \in DueTasks : dueDate[t] = Window
                       /\ assignees = DueTasks \X Assignees
    /\ InsightInit
    /\ part # "insights" => /\ keepDays = 0 /\ history = {} /\ oddments = {}
                            /\ \A l \in Lanes : lanes[l] = "other"
    /\ InvitationInit /\ (part # "invitations" => verified = {})
    /\ Init
    /\ TrelloInit /\ (part # "import" => file = [recognised |-> FALSE])
    /\ ErasureInit /\ (part # "erasure" => remarks[1].names = {})
    /\ FarewellInit /\ seat = MCTeams

ServicesNext ==
    /\ UNCHANGED part
    /\ \/ part = "due" /\ DueNext
       \/ part # "due" /\ UNCHANGED dueVars
    /\ \/ part = "insights" /\ InsightNext
       \/ part # "insights" /\ UNCHANGED insightVars
    /\ \/ part = "invitations" /\ InvitationNext
       \/ part # "invitations" /\ UNCHANGED inviteVars
    /\ \/ part = "store" /\ Next
       \/ part # "store" /\ UNCHANGED vars
    /\ \/ part = "import" /\ TrelloNext
       \/ part # "import" /\ UNCHANGED importVars
    /\ \/ part = "erasure" /\ ErasureNext
       \/ part # "erasure" /\ UNCHANGED erasureVars
    /\ \/ part = "farewell" /\ FarewellNext
       \/ part # "farewell" /\ UNCHANGED farewellVars

\* The fairness of FairSpec and ErasureFairness, in the behaviours that are of that part.
ServicesSpec ==
    /\ ServicesInit /\ [][ServicesNext]_servicesVars
    /\ WF_vars(part = "store" /\ Tick)
    /\ WF_vars(part = "store" /\ StartDump) /\ WF_vars(part = "store" /\ EndDump)
    /\ \A f \in Files : WF_vars(part = "store" /\ UploadStep(f))
    /\ WF_vars(part = "store" /\ StartSweep) /\ WF_vars(part = "store" /\ SweepStep)
    /\ WF_erasureVars(part = "erasure" /\ BreakErasureDeadlock)
    /\ \A u \in Persons : WF_erasureVars(part = "erasure" /\ ErasureStep(u))

\* The variables of the seven components keep their types, in particular: files the sweep goes
\* through are old ones of the disk, and the API never has more dumps kept than it is told to.
ServicesTypeOK ==
    DueTypeOK /\ InsightTypeOK /\ InvitationTypeOK /\ TypeOK /\
    TrelloTypeOK /\ ErasureTypeOK /\ FarewellTypeOK

=============================================================================
