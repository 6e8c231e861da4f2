---------------------------- MODULE TrelloImport ----------------------------
(***************************************************************************)
(* The import of a Trello board (apps/api/src/import): the export is read,  *)
(* what cannot be carried across is set aside with a reason, the rest is    *)
(* planned as rows and written in chunks in one transaction.  The answer    *)
(* is the only copy of the report; a retry makes another board.             *)
(*                                                                         *)
(* An entry of the export keeps what decides its fate: can it be read, is   *)
(* it archived, has it a name, what does it point at.  Its position is a    *)
(* number, or 0 when it has none that can be used.                          *)
(***************************************************************************)
EXTENDS Integers, Sequences, FiniteSets

CONSTANTS
    Exports,      \* the files a user may pick
    ChunkSize,    \* IMPORT_CHUNK_SIZE
    Spacing,      \* POSITION_GAP
    MaxImports    \* bound: how often the form is sent

ASSUME TrelloAssumption ==
    /\ {ChunkSize, Spacing} \subseteq Nat \ {0}
    /\ MaxImports \in Nat
    /\ \A e \in Exports : e.recognised =>
          /\ \A s \in {"lists", "cards", "labels", "checklists"} : IsFiniteSet(DOMAIN e[s])
          /\ \A c \in DOMAIN e.cards : IsFiniteSet(e.cards[c].labels) /\ IsFiniteSet(DOMAIN e.cards[c].links)
          /\ \A k \in DOMAIN e.checklists : IsFiniteSet(DOMAIN e.checklists[k].items)

VARIABLES
    form,      \* the dialog: "open", "sent", "failed" or "closed"
    file,      \* what it holds
    sent,      \* how often it was sent
    importer,  \* the request: [step, plan, left], left being what is still to be written
    staged,    \* rows of the open transaction
    imports,   \* committed boards: [n, export, rows]
    audit,     \* their activity rows: [n, imported, skippedTotal]
    report     \* the report on screen, or NoReport

importVars == <<form, file, sent, importer, staged, imports, audit, report>>

-----------------------------------------------------------------------------
(* Reading: parseTrelloExport *)

\* Nothing is read of a section that is missing, nor an entry that cannot be understood.
Entries(e, section) ==
    IF section \in e.sections THEN {i \in DOMAIN e[section] : e[section][i].read} ELSE {}

CheckItems(e, k) == {i \in DOMAIN e.checklists[k].items : e.checklists[k].items[i].read}

\* What the reader reports: the entry, or the section.
Thing(scope, reason, id) == [scope |-> scope, reason |-> reason, id |-> id]
ScopeOf == [lists |-> "list", cards |-> "card", labels |-> "label", checklists |-> "checklist"]
SectionIssues(e) ==
    UNION {IF s \in e.sections
           THEN {Thing(ScopeOf[s], "malformed", <<i>>) : i \in DOMAIN e[s] \ Entries(e, s)}
           ELSE {Thing(ScopeOf[s], "malformed", <<0>>)} : s \in DOMAIN ScopeOf}
ItemIssues(e) ==
    UNION {{Thing("item", "malformed", <<k, i>>) :
              i \in DOMAIN e.checklists[k].items \ CheckItems(e, k)} : k \in Entries(e, "checklists")}
Issues(e) == SectionIssues(e) \cup ItemIssues(e)

-----------------------------------------------------------------------------
(* Planning: planTrelloImport *)

Archived(e) == {l \in Entries(e, "lists") : e.lists[l].closed}
LiveLists(e) == {l \in Entries(e, "lists") : ~e.lists[l].closed /\ e.lists[l].named}

\* Why a card does not come across; a card of an archived list is archived too.
CardReason(e, c) ==
    LET card == e.cards[c] IN
      CASE card.closed -> "archived"
        [] ~card.closed /\ ~card.named -> "malformed"
        [] ~card.closed /\ card.named /\ card.list \in LiveLists(e) -> "none"
        [] ~card.closed /\ card.named /\ card.list \in Archived(e) -> "archived"
        [] OTHER -> "malformed"

LiveCards(e) == {c \in Entries(e, "cards") : CardReason(e, c) = "none"}

\* A checklist that hangs on a card left behind shares its reason.
ChecklistReason(e, k) ==
    LET list == e.checklists[k] IN
      IF list.card \notin LiveCards(e)
      THEN IF list.card \in Entries(e, "cards") THEN CardReason(e, list.card) ELSE "malformed"
      ELSE IF ~list.named \/ CheckItems(e, k) = {} THEN "malformed"
      ELSE "none"

LiveChecklists(e) == {k \in Entries(e, "checklists") : ChecklistReason(e, k) = "none"}
LiveItems(e, k) == {i \in CheckItems(e, k) : e.checklists[k].items[i].named}
Stored(e, c) == {a \in DOMAIN e.cards[c].links : e.cards[c].links[a] = "web"}

\* orderedByPos: by position, those without one last, and the id decides.
AheadInTrello(entries, a, b) ==
    \/ entries[a].pos # 0 /\ (entries[b].pos = 0 \/ entries[a].pos < entries[b].pos)
    \/ entries[a].pos = entries[b].pos /\ a < b

\* positionsFor: the order, spread anew.
Placed(entries, S, a) == Spacing * (1 + Cardinality({b \in S : AheadInTrello(entries, b, a)}))

Siblings(e, c) == {d \in LiveCards(e) : e.cards[d].list = e.cards[c].list}
SisterLists(e, k) == {j \in LiveChecklists(e) : e.checklists[j].card = e.checklists[k].card}

\* Slip: checklists are skipped without a word when their card is.
ForgottenWithTheCard(e) ==
    {Thing("checklist", ChecklistReason(e, k), <<k>>) :
       k \in {j \in Entries(e, "checklists") \ LiveChecklists(e) :
                e.checklists[j].card \in LiveCards(e)}}

ChecklistSkips(e) ==
    {Thing("checklist", ChecklistReason(e, k), <<k>>) :
       k \in Entries(e, "checklists") \ LiveChecklists(e)}

\* What does not come across of a card, or of a checklist, that does.
CardPartSkips(e) ==
    UNION {{Thing("label", "malformed", <<c, b>>) : b \in e.cards[c].labels \ Entries(e, "labels")}
           \cup {Thing("attachment", IF e.cards[c].links[a] = "broken" THEN "malformed"
                                     ELSE "unsupportedScheme", <<c, a>>) :
                   a \in DOMAIN e.cards[c].links \ Stored(e, c)} : c \in LiveCards(e)}
ItemSkips(e) ==
    UNION {{Thing("item", "malformed", <<k, i>>) : i \in CheckItems(e, k) \ LiveItems(e, k)} :
           k \in LiveChecklists(e)}

Skips(e) ==
    Issues(e)
    \cup {Thing("list", IF l \in Archived(e) THEN "archived" ELSE "malformed", <<l>>) :
            l \in Entries(e, "lists") \ LiveLists(e)}
    \cup {Thing("column", "defaulted", <<l>>) : l \in LiveLists(e)}
    \cup {Thing("label", "defaulted", <<b>>) :
            b \in {i \in Entries(e, "labels") : ~e.labels[i].named \/ ~e.labels[i].known}}
    \cup {Thing("card", CardReason(e, c), <<c>>) : c \in Entries(e, "cards") \ LiveCards(e)}
    \cup CardPartSkips(e) \cup ChecklistSkips(e) \cup ItemSkips(e)

\* toReport: how many, by scope and reason.
SkipGroups(e) ==
    LET group(t) == <<t.scope, t.reason>>
    IN  [g \in {group(t) : t \in Skips(e)} |-> Cardinality({t \in Skips(e) : group(t) = g})]

SkippedTotal(e) == Cardinality(Skips(e))

PlanTables == <<"board", "columns", "labels", "tasks", "taskLabels", "checklists", "items", "attachments">>

RowsFor(e) ==
    [board |-> {<<e.board>>},
     columns |-> {<<l, Placed(e.lists, LiveLists(e), l)>> : l \in LiveLists(e)},
     labels |-> {<<b>> : b \in Entries(e, "labels")},
     tasks |-> {<<c, e.cards[c].list, Placed(e.cards, Siblings(e, c), c)>> : c \in LiveCards(e)},
     taskLabels |-> UNION {{<<c, b>> : b \in e.cards[c].labels \cap Entries(e, "labels")} :
                           c \in LiveCards(e)},
     checklists |-> {<<k, e.checklists[k].card, Placed(e.checklists, SisterLists(e, k), k)>> :
                       k \in LiveChecklists(e)},
     items |-> UNION {{<<k, i, Placed(e.checklists[k].items, LiveItems(e, k), i)>> :
                         i \in LiveItems(e, k)} : k \in LiveChecklists(e)},
     attachments |-> UNION {{<<c, a>> : a \in Stored(e, c)} : c \in LiveCards(e)}]

Counts(rows) == [t \in DOMAIN rows |-> Cardinality(rows[t])]

-----------------------------------------------------------------------------

Listed(s) == {s[i] : i \in DOMAIN s}
NoRowsYet == [t \in Listed(PlanTables) |-> {}]
NoReport == [n |-> 0]
AtRestImporter == [step |-> "none", left |-> NoRowsYet]

TrelloTypeOK ==
    /\ form \in {"open", "sent", "failed", "closed"}
    /\ sent \in 0..MaxImports
    /\ importer.step \in {"none", "read", "write", "answer", "refused", "lost"}
    /\ (importer.step # "none") = (form = "sent")
    /\ DOMAIN staged = Listed(PlanTables)
    /\ importer.step # "write" => staged = NoRowsYet

TrelloInit ==
    /\ form = "open" /\ file \in Exports /\ sent = 0
    /\ importer = AtRestImporter
    /\ staged = NoRowsYet
    /\ imports = {} /\ audit = {}
    /\ report = NoReport

\* submit: no second one while the first is pending.
Submit ==
    /\ form \in {"open", "failed"} /\ sent < MaxImports
    /\ form' = "sent" /\ sent' = sent + 1
    /\ importer' = [AtRestImporter EXCEPT !.step = "read"]
    /\ UNCHANGED <<file, staged, imports, audit, report>>

\* A file that is no board is a 400, before the transaction opens.
ReadAndPlan ==
    /\ importer.step = "read"
    /\ importer' = IF file.recognised THEN [step |-> "write", left |-> RowsFor(file)]
                   ELSE [importer EXCEPT !.step = "refused"]
    /\ UNCHANGED <<form, file, sent, staged, imports, audit, report>>

WriteOrder == PlanTables

\* Slip: what does not fill a chunk is not written.
WholeChunks(rows) == {S \in SUBSET rows : Cardinality(S) = ChunkSize}

\* chunked: at most so many rows at a time, and the last one may be short.
Chunks(rows) ==
    {S \in SUBSET rows : Cardinality(S) = IF Cardinality(rows) < ChunkSize THEN Cardinality(rows)
                                          ELSE ChunkSize}

\* createMany of one chunk of the first table with rows left.
WriteChunk ==
    /\ importer.step = "write"
    /\ \E i \in 1..Len(PlanTables) :
         LET t == WriteOrder[i] IN
           /\ importer.left[t] # {}
           /\ \A j \in 1..(i - 1) : importer.left[WriteOrder[j]] = {}
           /\ LET chunk == IF Chunks(importer.left[t]) = {} THEN {}
                           ELSE CHOOSE S \in Chunks(importer.left[t]) : TRUE
              IN  /\ staged' = [staged EXCEPT ![t] = @ \cup chunk]
                  /\ importer' = IF chunk = {} THEN [importer EXCEPT !.left[t] = {}]
                                 ELSE [importer EXCEPT !.left[t] = @ \ chunk]
    /\ UNCHANGED <<form, file, sent, imports, audit, report>>

\* Everything is written, and the activity row with it.
CommitImport ==
    /\ importer.step = "write" /\ importer.left = NoRowsYet
    /\ imports' = imports \cup {[n |-> sent, export |-> file, rows |-> staged]}
    /\ audit' = audit \cup {[n |-> sent, imported |-> Counts(RowsFor(file)),
                             skippedTotal |-> SkippedTotal(file)]}
    /\ staged' = NoRowsYet
    /\ \E step \in {"answer", "lost"} : importer' = [importer EXCEPT !.step = step]
    /\ UNCHANGED <<form, file, sent, report>>

\* P2028 after TRELLO_IMPORT_TRANSACTION_TIMEOUT_MS, or the connection.
FailImport ==
    /\ importer.step = "write"
    /\ staged' = NoRowsYet
    /\ importer' = [importer EXCEPT !.step = "refused"]
    /\ UNCHANGED <<form, file, sent, imports, audit, report>>

\* 201: the report replaces the one on screen, and the dialog closes.
ShowReport ==
    /\ importer.step = "answer"
    /\ report' = [n |-> sent, imported |-> Counts(RowsFor(file)), skipped |-> SkipGroups(file)]
    /\ form' = "closed"
    /\ importer' = AtRestImporter
    /\ UNCHANGED <<file, sent, staged, imports, audit>>

\* An error of any kind keeps the file, and the form may be sent again.
ShowError ==
    /\ importer.step \in {"refused", "lost"}
    /\ form' = "failed"
    /\ importer' = AtRestImporter
    /\ UNCHANGED <<file, sent, staged, imports, audit, report>>

\* The dialog closes only while nothing is pending, and forgets its file.
CloseForm ==
    /\ form \in {"open", "failed"}
    /\ form' = "closed"
    /\ UNCHANGED <<file, sent, importer, staged, imports, audit, report>>

OpenForm ==
    /\ form = "closed" /\ sent < MaxImports
    /\ form' = "open" /\ file' \in Exports
    /\ UNCHANGED <<sent, importer, staged, imports, audit, report>>

\* onDismiss: nothing brings the report back.
Dismiss ==
    /\ report # NoReport
    /\ report' = NoReport
    /\ UNCHANGED <<form, file, sent, importer, staged, imports, audit>>

TrelloNext ==
    \/ Submit \/ ReadAndPlan \/ WriteChunk \/ CommitImport \/ FailImport
    \/ ShowReport \/ ShowError \/ CloseForm \/ OpenForm \/ Dismiss

TrelloSpec == TrelloInit /\ [][TrelloNext]_importVars

-----------------------------------------------------------------------------
(* Properties *)

Total(groups, scope) ==
    LET at(reason) == IF <<scope, reason>> \in DOMAIN groups THEN groups[<<scope, reason>>] ELSE 0
    IN  at("archived") + at("malformed") + at("unsupportedScheme")

(***************************************************************************)
(* An import writes all of its plan or nothing, however many chunks it      *)
(* takes and whichever of them fails: a board has the rows its activity row *)
(* and its report count, and there is no activity row without a board.  And *)
(* a report accounts for every list, card and checklist of the file: what   *)
(* the board did not get is counted once, by the reader or by the planner,  *)
(* checklists with the cards left behind and cards with their lists.        *)
(***************************************************************************)
ImportsAreWhole ==
    /\ \A b \in imports : \E a \in audit : a.n = b.n /\ a.imported = Counts(b.rows)
    /\ \A a \in audit : \E b \in imports : a.n = b.n
    /\ report # NoReport =>
         \E b \in imports :
            LET there(section) == IF section \in b.export.sections
                                  THEN Cardinality(DOMAIN b.export[section]) ELSE 1
                done == report.imported
            IN  /\ b.n = report.n /\ done = Counts(b.rows)
                /\ done.columns + Total(report.skipped, "list") = there("lists")
                /\ done.tasks + Total(report.skipped, "card") = there("cards")
                /\ done.checklists + Total(report.skipped, "checklist") = there("checklists")

=============================================================================
