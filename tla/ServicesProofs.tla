---------------------------- MODULE ServicesProofs ----------------------------
(***************************************************************************)
(* What the API does in several statements with nothing locked between      *)
(* them, for every number of processes, people and requests: invitations    *)
(* (their mail, their revocation, their acceptance), the due-soon scan, the *)
(* import of a board in chunks, the nightly deletion of rows, and the       *)
(* redaction of an erased account's name; and the types of all services.    *)
(***************************************************************************)
EXTENDS MCServices, AttachmentStoreProofs, FarewellProofs, FiniteSetTheorems, NaturalsInduction,
        WellFoundedInduction, TLAPS

-----------------------------------------------------------------------------
(* Invitations: the inductive invariant *)

InviteRows == [email : Addresses, role : InviteRoles, status : Statuses, expires : Int]

OfferSteps == {"replace", "create", "send", "check", "record"}
OfferRecords == [step : OfferSteps, email : Addresses, role : InviteRoles, stale : SUBSET InviteIds,
                 invite : Int, slot : Deliveries \cup {Unseen}, status : {""}]
RevocationRecords == [step : {"cancel"}, invite : Int, role : InviteRoles]
AcceptanceRecords == [step : {"accept", "record"}, invite : Int]

InvitesTyped ==
    /\ invites \in [DOMAIN invites -> InviteRows] /\ DOMAIN invites \subseteq InviteIds
    /\ inviteClock \in Int
    /\ offer \in [Inviters -> {Idle} \cup OfferRecords \cup RevocationRecords]
    /\ acceptance \in [Addresses -> {Idle} \cup AcceptanceRecords]

\* The mail of an offer, as the send recorded it.
OwnMail(i, a, outcome) == [invite |-> i, by |-> a, outcome |-> outcome]

\* What an offer says of its row and of its mail, before it is recorded.
OfferHonest(a) ==
    LET o == offer[a]
    IN  /\ o.step \in {"send", "check", "record", "cancel"} => o.invite \in DOMAIN invites
        /\ o.step \in {"record", "cancel"} => o.role = invites[o.invite].role
        /\ o.step = "replace" => o.stale \subseteq DOMAIN invites
        /\ o.step \in {"replace", "create", "send"} => o.slot = Unseen
        /\ o.step \in {"check", "record"} => o.slot = Unseen \/ OwnMail(o.invite, a, o.slot) \in mails

TrailHonest ==
    \A r \in trail : r.invite \in DOMAIN invites

InvitesInv ==
    /\ InvitesTyped
    /\ \A a \in Inviters : OfferHonest(a)
    /\ \A e \in Addresses : acceptance[e].step \in {"accept", "record"} =>
                               acceptance[e].invite \in DOMAIN invites
    /\ TrailHonest
    /\ OffersAreAsRecorded

-----------------------------------------------------------------------------
(* Invitations: what a step leaves of the rest *)

\* Rows are never deleted, and keep their role; mails that were sent were sent.
RolesKept ==
    /\ DOMAIN invites \subseteq DOMAIN invites'
    /\ \A i \in DOMAIN invites : invites'[i].role = invites[i].role
    /\ mails \subseteq mails'

RowsKeepType ==
    /\ invites \in [DOMAIN invites -> InviteRows] /\ DOMAIN invites \subseteq InviteIds
    /\ inviteClock \in Int

LEMMA IdleIs == Idle.step = "idle"
  BY DEF Idle

LEMMA OthersHonest ==
    ASSUME InvitesInv, RolesKept, NEW a \in Inviters, offer'[a] = offer[a]
    PROVE  OfferHonest(a)'
<1>1. OfferHonest(a)
  BY DEF InvitesInv
<1> QED
  BY <1>1 DEF RolesKept, OfferHonest, OwnMail

LEMMA InviteesHonest ==
    ASSUME InvitesInv, RolesKept, acceptance' = acceptance
    PROVE  \A e \in Addresses : acceptance'[e].step \in {"accept", "record"} =>
                                   acceptance'[e].invite \in DOMAIN invites'
  BY DEF InvitesInv, RolesKept

LEMMA TrailStays ==
    ASSUME InvitesInv, RolesKept, trail' = trail PROVE TrailHonest' /\ OffersAreAsRecorded'
  BY DEF InvitesInv, RolesKept, TrailHonest, OffersAreAsRecorded

\* A row of the trail that is true when it is written.
LEMMA TrailGrows ==
    ASSUME InvitesInv, RolesKept, NEW r, trail' = trail \cup {r}, r.invite \in DOMAIN invites,
           r.role = invites[r.invite].role,
           r.delivery = Unseen \/ OwnMail(r.invite, r.by, r.delivery) \in mails
    PROVE  TrailHonest' /\ OffersAreAsRecorded'
<1>1. \A q \in trail' : q \in trail \/ q = r
  OBVIOUS
<1>2. \A q \in trail' : q.invite \in DOMAIN invites
  BY <1>1 DEF InvitesInv, TrailHonest
<1>3. \A q \in trail' : /\ q.role = invites[q.invite].role
                        /\ q.delivery # Unseen => OwnMail(q.invite, q.by, q.delivery) \in mails
  BY <1>1 DEF InvitesInv, OffersAreAsRecorded, OwnMail
<1> QED
  BY <1>2, <1>3 DEF RolesKept, TrailHonest, OffersAreAsRecorded, OwnMail

\* A step of one inviter's request.
LEMMA OfferKeeps ==
    ASSUME InvitesInv, RolesKept, RowsKeepType', NEW a \in Inviters,
           NEW o \in {Idle} \cup OfferRecords \cup RevocationRecords,
           offer' = [offer EXCEPT ![a] = o], acceptance' = acceptance,
           offer'[a] = o => OfferHonest(a)', TrailHonest', OffersAreAsRecorded'
    PROVE  InvitesInv'
<1>1. offer' \in [Inviters -> {Idle} \cup OfferRecords \cup RevocationRecords] /\ offer'[a] = o
      /\ \A b \in Inviters \ {a} : offer'[b] = offer[b]
  BY DEF InvitesInv, InvitesTyped
<1>2. \A b \in Inviters : OfferHonest(b)'
  BY <1>1, OthersHonest
<1>3. InvitesTyped'
  BY <1>1 DEF InvitesInv, InvitesTyped, RowsKeepType
<1> QED
  BY <1>2, <1>3, InviteesHonest DEF InvitesInv

\* An answered request leaves nothing behind.
LEMMA AnswerKeeps ==
    ASSUME InvitesInv, RolesKept, RowsKeepType', NEW a \in Inviters, Answer(a),
           acceptance' = acceptance, TrailHonest', OffersAreAsRecorded'
    PROVE  InvitesInv'
<1>1. offer' = [offer EXCEPT ![a] = Idle] /\ Idle \in {Idle} \cup OfferRecords \cup RevocationRecords
  BY DEF Answer, SetOffer
<1>2. offer'[a] = Idle => OfferHonest(a)'
  BY IdleIs DEF OfferHonest
<1> QED
  BY <1>1, <1>2, OfferKeeps

\* The rows as they are.
LEMMA RowsRest ==
    ASSUME InvitesInv, UNCHANGED <<invites, inviteClock>>, mails \subseteq mails'
    PROVE  RolesKept /\ RowsKeepType'
  BY DEF InvitesInv, InvitesTyped, RolesKept, RowsKeepType

\* One row has its status or its expiry written.
LEMMA RowWritten ==
    ASSUME InvitesInv, NEW i \in DOMAIN invites, mails' = mails, inviteClock' = inviteClock,
           NEW status \in Statuses, NEW expires \in Int,
           \/ invites' = [invites EXCEPT ![i].status = status]
           \/ invites' = [invites EXCEPT ![i].expires = expires]
    PROVE  RolesKept /\ RowsKeepType'
<1>1. invites \in [DOMAIN invites -> InviteRows] /\ DOMAIN invites \subseteq InviteIds /\ inviteClock \in Int
  BY DEF InvitesInv, InvitesTyped
<1>2. DOMAIN invites' = DOMAIN invites
  BY <1>1
<1>3. \A j \in DOMAIN invites : invites'[j] \in InviteRows /\ invites'[j].role = invites[j].role
  <2>1. ASSUME NEW j \in DOMAIN invites PROVE invites'[j] \in InviteRows /\ invites'[j].role = invites[j].role
    <3>1. invites[j] \in InviteRows
      BY <1>1
    <3>2. CASE invites' = [invites EXCEPT ![i].status = status]
      BY <1>1, <3>1, <3>2 DEF InviteRows
    <3>3. CASE invites' = [invites EXCEPT ![i].expires = expires]
      BY <1>1, <3>1, <3>3 DEF InviteRows
    <3> QED
      BY <3>2, <3>3
  <2> QED
    BY <2>1
<1>4. invites' \in [DOMAIN invites' -> InviteRows]
  <2>1. invites' = [j \in DOMAIN invites' |-> invites'[j]]
    BY <1>1
  <2> QED
    BY <1>2, <1>3, <2>1
<1> QED
  BY <1>1, <1>2, <1>3, <1>4 DEF RolesKept, RowsKeepType

-----------------------------------------------------------------------------
(* Invitations: the invariant, action by action *)

\* The offer of a request that is under way.
LEMMA OfferOf ==
    ASSUME InvitesInv, NEW a \in Inviters
    PROVE  /\ OfferHonest(a)
           /\ offer[a].step \in OfferSteps => offer[a] \in OfferRecords
           /\ offer[a].step = "cancel" => offer[a] \in RevocationRecords
<1>1. offer[a] = Idle \/ offer[a] \in OfferRecords \/ offer[a] \in RevocationRecords
  BY DEF InvitesInv, InvitesTyped
<1>2. offer[a] \in OfferRecords => offer[a].step \in OfferSteps
  BY DEF OfferRecords
<1>3. offer[a] \in RevocationRecords => offer[a].step = "cancel"
  BY DEF RevocationRecords
<1> QED
  BY <1>1, <1>2, <1>3, IdleIs DEF OfferSteps, InvitesInv

LEMMA PendingAreRows == \A email : Pending(email) \subseteq DOMAIN invites
  BY DEF Pending

LEMMA InviteKeeps ==
    ASSUME InvitesInv, NEW a \in Inviters, NEW email \in Addresses,
           NEW role \in InviteRoles \cup {"OWNER"}, Invite(a, email, role)
    PROVE  InvitesInv'
<1>1. UNCHANGED <<invites, inviteClock, acceptance, mails, trail>>
  BY DEF Invite, RowsAlone, TheRest
<1>2. RolesKept /\ RowsKeepType' /\ TrailHonest' /\ OffersAreAsRecorded'
  BY <1>1, RowsRest, TrailStays
<1>3. CASE role = "OWNER"
  <2>1. offer' = offer
    BY <1>3 DEF Invite
  <2>2. \A b \in Inviters : OfferHonest(b)'
    BY <1>2, <2>1, OthersHonest
  <2>3. InvitesTyped'
    BY <1>1, <1>2, <2>1 DEF InvitesInv, InvitesTyped, RowsKeepType
  <2> QED
    BY <1>1, <1>2, <2>2, <2>3, InviteesHonest DEF InvitesInv
<1>4. CASE role # "OWNER"
  <2>1. PICK step \in {"replace", "create"} :
          offer' = [offer EXCEPT ![a] = [step |-> step, email |-> email, role |-> role,
                                         stale |-> Pending(email), invite |-> 0, slot |-> Unseen,
                                         status |-> ""]]
    <3>1. CASE \E i \in Pending(email) : invites[i].role # role
      BY <1>4, <3>1 DEF Invite, SetOffer
    <3>2. CASE ~\E i \in Pending(email) : invites[i].role # role
      BY <1>4, <3>2 DEF Invite, SetOffer
    <3> QED
      BY <3>1, <3>2
  <2> DEFINE o == [step |-> step, email |-> email, role |-> role, stale |-> Pending(email),
                   invite |-> 0, slot |-> Unseen, status |-> ""]
  <2>2. Pending(email) \subseteq DOMAIN invites /\ Pending(email) \in SUBSET InviteIds
    BY PendingAreRows DEF InvitesInv, InvitesTyped
  <2>3. o \in OfferRecords
    BY <1>4, <2>2 DEF OfferRecords, OfferSteps
  <2>4. o.step \in {"replace", "create"} /\ o.stale = Pending(email) /\ o.slot = Unseen
    OBVIOUS
  <2> HIDE DEF o
  <2>5. offer'[a] = o => OfferHonest(a)'
    BY <1>1, <2>2, <2>4 DEF OfferHonest
  <2>6. offer' = [offer EXCEPT ![a] = o]
    BY <2>1 DEF o
  <2> QED
    BY <1>1, <1>2, <2>3, <2>5, <2>6, OfferKeeps
<1> QED
  BY <1>3, <1>4

LEMMA CancelStaleKeeps == ASSUME InvitesInv, NEW a \in Inviters, CancelStale(a) PROVE InvitesInv'
<1>1. offer[a].step = "replace" /\ UNCHANGED <<inviteClock, acceptance, mails, trail>>
  BY DEF CancelStale, TheRest
<1>2. offer[a] \in OfferRecords /\ offer[a].stale \subseteq DOMAIN invites /\ offer[a].slot = Unseen
  BY <1>1, OfferOf DEF OfferSteps, OfferHonest
<1>3. CASE offer[a].stale = {}
  <2> DEFINE o == [offer[a] EXCEPT !.step = "create"]
  <2>1. offer' = [offer EXCEPT ![a] = o] /\ invites' = invites
    BY <1>3 DEF CancelStale, SetOffer
  <2>2. o \in OfferRecords /\ o.step = "create" /\ o.slot = Unseen
    BY <1>2 DEF OfferRecords, OfferSteps
  <2> HIDE DEF o
  <2>3. offer'[a] = o => OfferHonest(a)'
    BY <2>2 DEF OfferHonest
  <2>4. RolesKept /\ RowsKeepType' /\ TrailHonest' /\ OffersAreAsRecorded'
    BY <1>1, <2>1, RowsRest, TrailStays
  <2> QED
    BY <1>1, <2>1, <2>2, <2>3, <2>4, OfferKeeps
<1>4. ASSUME NEW i \in offer[a].stale, invites' = [invites EXCEPT ![i].status = "canceled"],
             SetOffer(a, [offer[a] EXCEPT !.stale = @ \ {i}])
      PROVE  InvitesInv'
  <2> DEFINE o == [offer[a] EXCEPT !.stale = @ \ {i}]
  <2>1. offer' = [offer EXCEPT ![a] = o]
    BY <1>4 DEF SetOffer
  <2>2. o \in OfferRecords /\ o.step = "replace" /\ o.slot = Unseen /\ o.stale \subseteq DOMAIN invites
    BY <1>1, <1>2 DEF OfferRecords, OfferSteps
  <2> HIDE DEF o
  <2>3. i \in DOMAIN invites /\ "canceled" \in Statuses /\ 0 \in Int
    BY <1>2, <1>4 DEF Statuses
  <2>4. RolesKept /\ RowsKeepType'
    BY <1>1, <1>4, <2>3, RowWritten
  <2>5. TrailHonest' /\ OffersAreAsRecorded'
    BY <1>1, <2>4, TrailStays
  <2>6. offer'[a] = o => OfferHonest(a)'
    BY <2>2, <2>4 DEF OfferHonest, RolesKept
  <2> QED
    BY <1>1, <2>1, <2>2, <2>4, <2>5, <2>6, OfferKeeps
<1>5. CASE Answer(a) /\ invites' = invites
  <2>1. RolesKept /\ RowsKeepType' /\ TrailHonest' /\ OffersAreAsRecorded'
    BY <1>1, <1>5, RowsRest, TrailStays
  <2> QED
    BY <1>1, <1>5, <2>1, AnswerKeeps
<1> QED
  BY <1>3, <1>4, <1>5 DEF CancelStale

LEMMA PluginCreateKeeps ==
    ASSUME InvitesInv, NEW a \in Inviters, PluginCreate(a),
           Fresh # {} => NextInvite \in Fresh
    PROVE  InvitesInv'
<1>1. offer[a].step = "create" /\ UNCHANGED <<inviteClock, acceptance, mails, trail>>
  BY DEF PluginCreate, TheRest
<1>2. offer[a] \in OfferRecords /\ offer[a].slot = Unseen /\ inviteClock + Lifetime \in Int
  BY <1>1, OfferOf, InvitationsAssumption DEF OfferSteps, OfferHonest, InvitesInv, InvitesTyped
<1>3. CASE Answer(a) /\ invites' = invites
  <2>1. RolesKept /\ RowsKeepType' /\ TrailHonest' /\ OffersAreAsRecorded'
    BY <1>1, <1>3, RowsRest, TrailStays
  <2> QED
    BY <1>1, <1>3, <2>1, AnswerKeeps
\* The request goes on with the mail for row i, old or new.
<1>4. ASSUME NEW i \in InviteIds, i \in DOMAIN invites', RolesKept, RowsKeepType',
             SetOffer(a, [offer[a] EXCEPT !.step = "send", !.invite = i])
      PROVE  InvitesInv'
  <2> DEFINE o == [offer[a] EXCEPT !.step = "send", !.invite = i]
  <2>1. offer' = [offer EXCEPT ![a] = o]
    BY <1>4 DEF SetOffer
  <2>2. i \in Int
    BY InvitationsAssumption
  <2>3. o \in OfferRecords /\ o.step = "send" /\ o.invite = i /\ o.slot = Unseen
    BY <1>2, <2>2 DEF OfferRecords, OfferSteps
  <2> HIDE DEF o
  <2>4. offer'[a] = o => OfferHonest(a)'
    BY <1>4, <2>3 DEF OfferHonest
  <2>5. TrailHonest' /\ OffersAreAsRecorded'
    BY <1>1, <1>4, TrailStays
  <2> QED
    BY <1>1, <1>4, <2>1, <2>3, <2>4, <2>5, OfferKeeps
<1>5. ASSUME NEW i \in Pending(offer[a].email),
             invites' = [invites EXCEPT ![i].expires = inviteClock + Lifetime]
      PROVE  i \in InviteIds /\ i \in DOMAIN invites' /\ RolesKept /\ RowsKeepType'
  <2>1. i \in DOMAIN invites /\ i \in InviteIds
    BY <1>5, PendingAreRows DEF InvitesInv, InvitesTyped
  <2>2. "pending" \in Statuses
    BY DEF Statuses
  <2>3. RolesKept /\ RowsKeepType'
    BY <1>1, <1>2, <1>5, <2>1, <2>2, RowWritten
  <2> QED
    BY <2>1, <2>3 DEF RolesKept
<1>6. ASSUME Fresh # {},
             invites' = [j \in DOMAIN invites \cup {NextInvite} |->
                           IF j \in DOMAIN invites THEN invites[j]
                           ELSE [email |-> offer[a].email, role |-> offer[a].role,
                                 status |-> "pending", expires |-> inviteClock + Lifetime]]
      PROVE  NextInvite \in InviteIds /\ NextInvite \in DOMAIN invites' /\ RolesKept /\ RowsKeepType'
  <2> DEFINE n == NextInvite
             new == [email |-> offer[a].email, role |-> offer[a].role,
                     status |-> "pending", expires |-> inviteClock + Lifetime]
  <2>1. n \in InviteIds
    BY <1>6 DEF Fresh
  <2>2. new \in InviteRows
    BY <1>2 DEF InviteRows, OfferRecords, Statuses
  <2>3. invites' = [j \in DOMAIN invites \cup {n} |-> IF j \in DOMAIN invites THEN invites[j] ELSE new]
    BY <1>6
  <2> HIDE DEF n, new
  <2>4. /\ invites \in [DOMAIN invites -> InviteRows] /\ DOMAIN invites \subseteq InviteIds
        /\ inviteClock \in Int
    BY DEF InvitesInv, InvitesTyped
  <2>5. DOMAIN invites' = DOMAIN invites \cup {n} /\ invites' \in [DOMAIN invites' -> InviteRows]
    BY <2>2, <2>3, <2>4
  <2>6. \A j \in DOMAIN invites : invites'[j].role = invites[j].role
    BY <2>3
  <2> QED
    BY <1>1, <2>1, <2>4, <2>5, <2>6 DEF n, RolesKept, RowsKeepType
<1>7. \/ Answer(a) /\ invites' = invites
      \/ \E i \in Pending(offer[a].email) :
            /\ invites' = [invites EXCEPT ![i].expires = inviteClock + Lifetime]
            /\ SetOffer(a, [offer[a] EXCEPT !.step = "send", !.invite = i])
      \/ /\ Fresh # {}
         /\ invites' = [j \in DOMAIN invites \cup {NextInvite} |->
                           IF j \in DOMAIN invites THEN invites[j]
                           ELSE [email |-> offer[a].email, role |-> offer[a].role,
                                 status |-> "pending", expires |-> inviteClock + Lifetime]]
         /\ SetOffer(a, [offer[a] EXCEPT !.step = "send", !.invite = NextInvite])
  BY DEF PluginCreate
<1> QED
  BY <1>3, <1>4, <1>5, <1>6, <1>7

-----------------------------------------------------------------------------
(* Invitations: the other actions *)

\* Among the ids that are left there is a next one.
LEMMA NextInviteIsFresh == ASSUME Fresh # {} PROVE NextInvite \in Fresh
<1> DEFINE R == OpToRel(<, Nat)
<1>1. IsWellFoundedOn(R, Nat)
  BY NatLessThanWellFounded, Zenon
<1>2. \A m, n \in Nat : m < n => <<m, n>> \in R
  BY DEF OpToRel
<1> HIDE DEF R
<1>3. Fresh \subseteq Nat
  BY InvitationsAssumption DEF Fresh
<1>4. PICK n \in Fresh : \A m \in Fresh : ~(<<m, n>> \in R)
  BY <1>1, <1>3, WFMin
<1>5. ASSUME NEW m \in Fresh PROVE n <= m
  <2>1. m \in Nat /\ n \in Nat
    BY <1>3
  <2>2. ~(m < n)
    BY <1>2, <1>4, <2>1
  <2> QED
    BY <2>1, <2>2
<1> QED
  BY <1>4, <1>5 DEF NextInvite

LEMMA SendKeeps == ASSUME InvitesInv, NEW a \in Inviters, SendInvitationEmail(a) PROVE InvitesInv'
<1>1. /\ offer[a].step = "send" /\ offer[a] \in OfferRecords
      /\ offer[a].invite \in DOMAIN invites /\ offer[a].slot = Unseen
  BY OfferOf DEF SendInvitationEmail, OfferSteps, OfferHonest
<1>2. PICK outcome \in Outcomes :
         /\ mails' = mails \cup {[invite |-> offer[a].invite, by |-> a, outcome |-> outcome]}
         /\ \/ RecordDelivery(a, outcome)
            \/ SetOffer(a, [offer[a] EXCEPT !.step = "check"])
  BY DEF SendInvitationEmail
<1>3. UNCHANGED <<invites, inviteClock, acceptance, trail>>
  BY DEF SendInvitationEmail, RowsAlone, TheRest
<1>4. RolesKept /\ RowsKeepType' /\ TrailHonest' /\ OffersAreAsRecorded'
  BY <1>2, <1>3, RowsRest, TrailStays
<1>5. outcome \in Deliveries
  BY DEF Outcomes, Deliveries
<1>6. PICK s \in {Unseen, outcome} :
         offer' = [offer EXCEPT ![a] = [offer[a] EXCEPT !.step = "check", !.slot = s]]
  <2>1. CASE RecordDelivery(a, outcome)
    BY <1>1, <2>1 DEF RecordDelivery, SetOffer
  <2>2. CASE SetOffer(a, [offer[a] EXCEPT !.step = "check"])
    <3>1. [offer[a] EXCEPT !.step = "check"] = [offer[a] EXCEPT !.step = "check", !.slot = Unseen]
      BY <1>1 DEF OfferRecords
    <3> QED
      BY <2>2, <3>1 DEF SetOffer
  <2> QED
    BY <1>2, <2>1, <2>2
<1> DEFINE o == [offer[a] EXCEPT !.step = "check", !.slot = s]
<1>7. /\ o \in OfferRecords /\ o.step = "check" /\ o.invite = offer[a].invite /\ o.slot = s
  BY <1>1, <1>5 DEF OfferRecords, OfferSteps
<1> HIDE DEF o
<1>8. offer'[a] = o => OfferHonest(a)'
  BY <1>1, <1>2, <1>3, <1>7 DEF OfferHonest, OwnMail
<1>9. offer' = [offer EXCEPT ![a] = o]
  BY <1>6 DEF o
<1> QED
  BY <1>3, <1>4, <1>7, <1>8, <1>9, OfferKeeps

LEMMA CheckRoleKeeps == ASSUME InvitesInv, NEW a \in Inviters, CheckRole(a) PROVE InvitesInv'
<1>1. UNCHANGED <<invites, inviteClock, acceptance, trail, mails>> /\ offer[a].step = "check"
  BY DEF CheckRole, RowsAlone, TheRest
<1>2. RolesKept /\ RowsKeepType' /\ TrailHonest' /\ OffersAreAsRecorded'
  BY <1>1, RowsRest, TrailStays
<1>3. CASE Answer(a)
  BY <1>1, <1>2, <1>3, AnswerKeeps
<1>4. CASE RoleGranted(a) /\ SetOffer(a, [offer[a] EXCEPT !.step = "record"])
  <2> DEFINE o == [offer[a] EXCEPT !.step = "record"]
  <2>1. offer' = [offer EXCEPT ![a] = o]
    BY <1>4 DEF SetOffer
  <2>2. offer[a] \in OfferRecords /\ OfferHonest(a)
    BY <1>1, OfferOf DEF OfferSteps
  <2>3. /\ o \in OfferRecords /\ o.step = "record" /\ o.invite = offer[a].invite
        /\ o.slot = offer[a].slot /\ o.role = offer[a].role
    BY <2>2 DEF OfferRecords, OfferSteps
  <2> HIDE DEF o
  <2>4. offer'[a] = o => OfferHonest(a)'
    BY <1>1, <1>4, <2>2, <2>3 DEF OfferHonest, OwnMail, RoleGranted
  <2> QED
    BY <1>1, <1>2, <2>1, <2>3, <2>4, OfferKeeps
<1> QED
  BY <1>3, <1>4 DEF CheckRole

LEMMA RecordOfferKeeps == ASSUME InvitesInv, NEW a \in Inviters, RecordOffer(a) PROVE InvitesInv'
<1>1. /\ UNCHANGED <<invites, inviteClock, acceptance, mails>>
      /\ offer[a].step = "record" /\ Answer(a)
  BY DEF RecordOffer, RowsAlone, TheRest
<1>2. RolesKept /\ RowsKeepType'
  BY <1>1, RowsRest
<1>3. TrailHonest' /\ OffersAreAsRecorded'
  <2>1. CASE trail' = trail
    BY <1>2, <2>1, TrailStays
  <2>2. CASE trail' # trail
    <3> DEFINE r == [type |-> "created", invite |-> offer[a].invite,
                     role |-> offer[a].role, delivery |-> offer[a].slot, by |-> a]
    <3>1. trail' = trail \cup {r}
      BY <2>2 DEF RecordOffer
    <3>2. /\ r.invite = offer[a].invite /\ r.role = offer[a].role
          /\ r.delivery = offer[a].slot /\ r.by = a
      OBVIOUS
    <3> HIDE DEF r
    <3>3. OfferHonest(a)
      BY OfferOf
    <3>4. /\ r.invite \in DOMAIN invites /\ r.role = invites[r.invite].role
          /\ r.delivery = Unseen \/ OwnMail(r.invite, r.by, r.delivery) \in mails
      BY <1>1, <3>2, <3>3 DEF OfferHonest
    <3> QED
      BY <1>2, <3>1, <3>4, TrailGrows
  <2> QED
    BY <2>1, <2>2
<1> QED
  BY <1>1, <1>2, <1>3, AnswerKeeps

LEMMA RevokeKeeps ==
    ASSUME InvitesInv, NEW a \in Inviters, NEW i \in InviteIds, Revoke(a, i) PROVE InvitesInv'
<1> DEFINE o == [step |-> "cancel", invite |-> i, role |-> invites[i].role]
<1>1. /\ UNCHANGED <<invites, inviteClock, acceptance, mails, trail>>
      /\ i \in DOMAIN invites /\ offer' = [offer EXCEPT ![a] = o]
  BY DEF Revoke, RowsAlone, TheRest, SetOffer
<1>2. RolesKept /\ RowsKeepType' /\ TrailHonest' /\ OffersAreAsRecorded'
  BY <1>1, RowsRest, TrailStays
<1>3. invites[i] \in InviteRows /\ i \in Int
  BY <1>1, InvitationsAssumption DEF InvitesInv, InvitesTyped
<1>4. o \in RevocationRecords /\ o.step = "cancel" /\ o.invite = i /\ o.role = invites[i].role
  BY <1>3 DEF RevocationRecords, InviteRows
<1> HIDE DEF o
<1>5. offer'[a] = o => OfferHonest(a)'
  BY <1>1, <1>4 DEF OfferHonest
<1> QED
  BY <1>1, <1>2, <1>4, <1>5, OfferKeeps

LEMMA CancelKeeps == ASSUME InvitesInv, NEW a \in Inviters, CancelInvitation(a) PROVE InvitesInv'
<1> DEFINE i == offer[a].invite
<1>1. /\ UNCHANGED <<inviteClock, acceptance, mails>> /\ Answer(a)
      /\ i \in DOMAIN invites /\ offer[a].role = invites[i].role
  BY OfferOf DEF CancelInvitation, TheRest, OfferHonest
<1>2. CASE UNCHANGED <<invites, trail>>
  <2>1. RolesKept /\ RowsKeepType' /\ TrailHonest' /\ OffersAreAsRecorded'
    BY <1>1, <1>2, RowsRest, TrailStays
  <2> QED
    BY <1>1, <2>1, AnswerKeeps
<1>3. CASE /\ invites' = [invites EXCEPT ![i].status = "canceled"]
           /\ trail' = trail \cup {[type |-> "revoked", invite |-> i, role |-> offer[a].role,
                                    delivery |-> Unseen, by |-> a]}
  <2> DEFINE r == [type |-> "revoked", invite |-> i, role |-> offer[a].role,
                   delivery |-> Unseen, by |-> a]
  <2>1. "canceled" \in Statuses /\ 0 \in Int
    BY DEF Statuses
  <2> HIDE DEF i
  <2>2. RolesKept /\ RowsKeepType'
    BY <1>1, <1>3, <2>1, RowWritten
  <2>3. r.invite = i /\ r.role = offer[a].role /\ r.delivery = Unseen
    OBVIOUS
  <2>4. trail' = trail \cup {r}
    BY <1>3
  <2> HIDE DEF r
  <2>5. TrailHonest' /\ OffersAreAsRecorded'
    BY <1>1, <2>2, <2>3, <2>4, TrailGrows
  <2> QED
    BY <1>1, <2>2, <2>5, AnswerKeeps
<1> QED
  BY <1>2, <1>3 DEF CancelInvitation

\* A step of one invitee's request.
LEMMA AcceptanceKeeps ==
    ASSUME InvitesInv, RolesKept, RowsKeepType', NEW e \in Addresses,
           NEW c \in {Idle} \cup AcceptanceRecords, SetAcceptance(e, c),
           c = Idle \/ c.invite \in DOMAIN invites,
           offer' = offer, TrailHonest', OffersAreAsRecorded'
    PROVE  InvitesInv'
<1>1. /\ acceptance' \in [Addresses -> {Idle} \cup AcceptanceRecords] /\ acceptance'[e] = c
      /\ \A f \in Addresses \ {e} : acceptance'[f] = acceptance[f]
  BY DEF InvitesInv, InvitesTyped, SetAcceptance
<1>2. \A b \in Inviters : OfferHonest(b)'
  BY OthersHonest
<1>3. InvitesTyped'
  BY <1>1 DEF InvitesInv, InvitesTyped, RowsKeepType
<1>4. \A f \in Addresses : acceptance'[f].step \in {"accept", "record"} =>
                              acceptance'[f].invite \in DOMAIN invites'
  BY <1>1, IdleIs DEF InvitesInv, RolesKept
<1> QED
  BY <1>2, <1>3, <1>4 DEF InvitesInv

LEMMA OpenInvitationKeeps ==
    ASSUME InvitesInv, NEW e \in Addresses, NEW i \in InviteIds, OpenInvitation(e, i)
    PROVE  InvitesInv'
<1> DEFINE c == [step |-> "accept", invite |-> i]
<1>1. /\ UNCHANGED <<invites, inviteClock, offer, mails, trail>>
      /\ i \in DOMAIN invites /\ SetAcceptance(e, c)
  BY DEF OpenInvitation, RowsAlone
<1>2. RolesKept /\ RowsKeepType' /\ TrailHonest' /\ OffersAreAsRecorded'
  BY <1>1, RowsRest, TrailStays
<1>3. c \in AcceptanceRecords /\ c.invite = i
  BY InvitationsAssumption DEF AcceptanceRecords
<1> HIDE DEF c
<1> QED
  BY <1>1, <1>2, <1>3, AcceptanceKeeps

\* The acceptance that is under way.
LEMMA AcceptanceOf ==
    ASSUME InvitesInv, NEW e \in Addresses, acceptance[e].step \in {"accept", "record"}
    PROVE  acceptance[e] \in AcceptanceRecords /\ acceptance[e].invite \in DOMAIN invites
  BY IdleIs DEF InvitesInv, InvitesTyped

LEMMA PluginAcceptKeeps == ASSUME InvitesInv, NEW e \in Addresses, PluginAccept(e) PROVE InvitesInv'
<1> DEFINE i == acceptance[e].invite
<1>1. /\ UNCHANGED <<inviteClock, offer, mails, trail>>
      /\ i \in DOMAIN invites /\ acceptance[e] \in AcceptanceRecords
  BY AcceptanceOf DEF PluginAccept
<1>2. CASE SetAcceptance(e, Idle) /\ invites' = invites
  <2>1. RolesKept /\ RowsKeepType' /\ TrailHonest' /\ OffersAreAsRecorded'
    BY <1>1, <1>2, RowsRest, TrailStays
  <2> QED
    BY <1>1, <1>2, <2>1, AcceptanceKeeps
<1>3. CASE /\ invites' = [invites EXCEPT ![i].status = "accepted"]
           /\ SetAcceptance(e, [acceptance[e] EXCEPT !.step = "record"])
  <2> DEFINE c == [acceptance[e] EXCEPT !.step = "record"]
  <2>1. c \in AcceptanceRecords /\ c.invite = i
    BY <1>1 DEF AcceptanceRecords
  <2>2. "accepted" \in Statuses /\ 0 \in Int
    BY DEF Statuses
  <2> HIDE DEF i
  <2>3. RolesKept /\ RowsKeepType'
    BY <1>1, <1>3, <2>2, RowWritten
  <2>4. TrailHonest' /\ OffersAreAsRecorded'
    BY <1>1, <2>3, TrailStays
  <2>5. SetAcceptance(e, c)
    BY <1>3
  <2> HIDE DEF c
  <2> QED
    BY <1>1, <2>1, <2>3, <2>4, <2>5, AcceptanceKeeps
<1> QED
  BY <1>2, <1>3 DEF PluginAccept, RowsAlone

LEMMA RecordAcceptanceKeeps ==
    ASSUME InvitesInv, NEW e \in Addresses, RecordAcceptance(e) PROVE InvitesInv'
<1>1. /\ UNCHANGED <<invites, inviteClock, offer, mails>> /\ SetAcceptance(e, Idle)
      /\ acceptance[e].invite \in DOMAIN invites
  BY AcceptanceOf DEF RecordAcceptance, RowsAlone
<1>2. RolesKept /\ RowsKeepType'
  BY <1>1, RowsRest
<1>3. TrailHonest' /\ OffersAreAsRecorded'
  <2>1. CASE trail' = trail
    BY <1>2, <2>1, TrailStays
  <2>2. CASE trail' # trail
    <3> DEFINE r == [type |-> "accepted", invite |-> acceptance[e].invite,
                     role |-> invites[acceptance[e].invite].role, delivery |-> Unseen, by |-> e]
    <3>1. trail' = trail \cup {r}
      BY <2>2 DEF RecordAcceptance
    <3>2. /\ r.invite = acceptance[e].invite /\ r.role = invites[acceptance[e].invite].role
          /\ r.delivery = Unseen
      OBVIOUS
    <3> HIDE DEF r
    <3>3. r.invite \in DOMAIN invites /\ r.role = invites[r.invite].role
      BY <1>1, <3>2
    <3> QED
      BY <1>2, <3>1, <3>2, <3>3, TrailGrows
  <2> QED
    BY <2>1, <2>2
<1> QED
  BY <1>1, <1>2, <1>3, AcceptanceKeeps

\* Steps that touch neither a request nor a row: the clock, a confirmation, a stutter.
LEMMA InvitesAside ==
    ASSUME InvitesInv, UNCHANGED <<invites, mails, trail, offer, acceptance>>, inviteClock' \in Int
    PROVE  InvitesInv'
<1>1. RolesKept /\ RowsKeepType'
  BY DEF InvitesInv, InvitesTyped, RolesKept, RowsKeepType
<1>2. \A b \in Inviters : OfferHonest(b)'
  BY <1>1, OthersHonest
<1>3. InvitesTyped'
  BY DEF InvitesInv, InvitesTyped
<1> QED
  BY <1>1, <1>2, <1>3, TrailStays, InviteesHonest DEF InvitesInv

LEMMA InvitesNext == InvitesInv /\ [InvitationNext]_inviteVars => InvitesInv'
<1> SUFFICES ASSUME InvitesInv, [InvitationNext]_inviteVars PROVE InvitesInv'
  OBVIOUS
<1>1. ASSUME NEW a \in Inviters,
             \/ \E email \in Addresses, role \in InviteRoles \cup {"OWNER"} : Invite(a, email, role)
             \/ CancelStale(a) \/ PluginCreate(a) \/ SendInvitationEmail(a)
             \/ CheckRole(a) \/ RecordOffer(a)
             \/ \E i \in InviteIds : Revoke(a, i)
             \/ CancelInvitation(a)
      PROVE  InvitesInv'
  BY <1>1, InviteKeeps, CancelStaleKeeps, PluginCreateKeeps, NextInviteIsFresh, SendKeeps,
     CheckRoleKeeps, RecordOfferKeeps, RevokeKeeps, CancelKeeps
<1>2. ASSUME NEW e \in Addresses,
             \/ \E i \in InviteIds : OpenInvitation(e, i)
             \/ PluginAccept(e) \/ RecordAcceptance(e)
      PROVE  InvitesInv'
  BY <1>2, OpenInvitationKeeps, PluginAcceptKeeps, RecordAcceptanceKeeps
<1>3. inviteClock \in Int
  BY DEF InvitesInv, InvitesTyped
<1>4. CASE ConfirmAddress \/ InviteTick \/ UNCHANGED inviteVars
  <2>1. UNCHANGED <<invites, mails, trail, offer, acceptance>> /\ inviteClock' \in Int
    BY <1>3, <1>4 DEF ConfirmAddress, InviteTick, RowsAlone, inviteVars
  <2> QED
    BY <2>1, InvitesAside
<1> QED
  BY <1>1, <1>2, <1>4 DEF InvitationNext

LEMMA InvitesInit == InvitationInit => InvitesInv
<1> SUFFICES ASSUME InvitationInit PROVE InvitesInv
  OBVIOUS
<1>1. InvitesTyped /\ (\A a \in Inviters : offer[a] = Idle) /\ (\A e \in Addresses : acceptance[e] = Idle)
  BY DEF InvitationInit, InvitesTyped
<1>2. \A a \in Inviters : OfferHonest(a)
  BY <1>1, IdleIs DEF OfferHonest
<1> QED
  BY <1>1, <1>2, IdleIs DEF InvitationInit, InvitesInv, TrailHonest, OffersAreAsRecorded

(***************************************************************************)
(* For any number of administrators and invitees, with answers, mails and   *)
(* acceptances in any order: what is recorded of an offer is true of it.    *)
(* Rows keep the role they were created with, an offer is recorded only     *)
(* when its row has the role asked for, and a delivery is known to the      *)
(* request that sent the mail alone.                                        *)
(***************************************************************************)
THEOREM OffersStayTrue == InvitationSpec => []OffersAreAsRecorded
<1>1. InvitesInv => OffersAreAsRecorded
  BY DEF InvitesInv
<1> QED
  BY <1>1, InvitesInit, InvitesNext, PTL DEF InvitationSpec

-----------------------------------------------------------------------------
(* The due-soon scan: the inductive invariant *)

Dues == Int \X Int
ScanRecords ==
    [at : {"idle", "page", "check", "insert", "signal", "retry"}, now : Int,
     cursor : {<<0, 0>>} \cup {LastOfPage(P) : P \in SUBSET Dues}, page : SUBSET Dues,
     rows : SUBSET (DueTasks \X Assignees), told : SUBSET Assignees, tries : Int]
ReminderRecords == [task : DueTasks, user : Assignees, read : BOOLEAN, at : Int]

ScansTyped ==
    /\ clock \in Nat
    /\ dueDate \in [DOMAIN dueDate -> Int] /\ DOMAIN dueDate \subseteq DueTasks
    /\ assignees \subseteq DueTasks \X Assignees
    /\ reminders \subseteq ReminderRecords
    /\ running \subseteq Scanners
    /\ scan \in [Scanners -> ScanRecords]

Alone == \A s, t \in running : s = t

\* At most one reminder of a pair is unread.
OneUnread ==
    \A r, q \in reminders : r # q /\ r.task = q.task /\ r.user = q.user => r.read \/ q.read

\* The reminders of a pair, when one scanner alone writes them.
Apart ==
    Alone => \A r, q \in reminders :
        r # q /\ r.task = q.task /\ r.user = q.user /\ r.at =< q.at => r.at + Window < q.at

\* What the check of a scan that runs alone found is still so at its insert.
StillDue(s) ==
    Alone /\ scan[s].at = "insert" =>
        \A r \in reminders : <<r.task, r.user>> \in scan[s].rows => r.at + Window < scan[s].now

RemindersInv ==
    /\ ScansTyped
    /\ \A r \in reminders : r.at =< clock
    /\ \A s \in Scanners : scan[s].now =< clock /\ (scan[s].at # "idle" => s \in running)
    /\ OneUnread
    /\ Apart
    /\ \A s \in Scanners : StillDue(s)

-----------------------------------------------------------------------------
(* The due-soon scan: the invariant, action by action *)

LEMMA NoScanTyped == NoScan \in ScanRecords /\ NoScan.at = "idle" /\ NoScan.now = 0
  BY DEF NoScan, ScanRecords

\* A statement of scanner s that inserts nothing.
LEMMA ScanGoesOn ==
    ASSUME RemindersInv, NEW s \in Scanners, NEW e \in ScanRecords, Step(s, e),
           UNCHANGED <<clock, running, reminders, dueDate, assignees>>,
           e.now =< clock, e.at = "idle" \/ s \in running,
           e.at = "insert" /\ Alone =>
               \A r \in reminders : <<r.task, r.user>> \in e.rows => r.at + Window < e.now
    PROVE  RemindersInv'
<1>1. /\ scan' \in [Scanners -> ScanRecords] /\ scan'[s] = e
      /\ \A t \in Scanners \ {s} : scan'[t] = scan[t]
  BY DEF RemindersInv, ScansTyped, Step
<1>2. ScansTyped' /\ OneUnread' /\ Apart'
  BY <1>1 DEF RemindersInv, ScansTyped, OneUnread, Apart, Alone
<1>3. ASSUME NEW t \in Scanners
      PROVE  /\ scan'[t].now =< clock' /\ (scan'[t].at # "idle" => t \in running')
             /\ StillDue(t)'
  <2>1. CASE t = s
    BY <1>1, <2>1 DEF StillDue, Alone
  <2>2. CASE t # s
    BY <1>1, <2>2 DEF RemindersInv, StillDue, Alone
  <2> QED
    BY <2>1, <2>2
<1> QED
  BY <1>2, <1>3 DEF RemindersInv

\* What an insert adds is the only unread reminder of its pair, and later than the window allows.
LEMMA InsertApart ==
    ASSUME RemindersInv, NEW s \in Scanners, scan[s].at = "insert",
           reminders' = reminders \cup InsertedRows(s), UNCHANGED <<clock, running>>
    PROVE  /\ reminders' \subseteq ReminderRecords /\ \A r \in reminders' : r.at =< clock
           /\ OneUnread' /\ Apart'
<1> DEFINE new(r) == /\ r \in ReminderRecords /\ r.read = FALSE /\ r.at = clock
                     /\ <<r.task, r.user>> \in scan[s].rows
                     /\ \A q \in reminders : q.task = r.task /\ q.user = r.user => q.read
<1>1. /\ clock \in Int /\ scan[s] \in ScanRecords /\ reminders \subseteq ReminderRecords
      /\ scan[s].rows \subseteq DueTasks \X Assignees /\ scan[s].now \in Int /\ Window \in Nat \ {0}
      /\ scan[s].now =< clock
  BY DueAssumption DEF RemindersInv, ScansTyped, ScanRecords
<1>2. ASSUME NEW r \in InsertedRows(s) PROVE new(r)
  <2>1. PICK p \in scan[s].rows :
           /\ ~\E q \in reminders : <<q.task, q.user>> = p /\ ~q.read
           /\ r = [task |-> p[1], user |-> p[2], read |-> FALSE, at |-> clock]
    BY <1>2 DEF InsertedRows
  <2>2. p = <<p[1], p[2]>> /\ p[1] \in DueTasks /\ p[2] \in Assignees
    BY <1>1
  <2>3. r \in ReminderRecords /\ r.task = p[1] /\ r.user = p[2] /\ r.read = FALSE /\ r.at = clock
    BY <1>1, <2>1, <2>2 DEF ReminderRecords
  <2>4. ASSUME NEW q \in reminders, q.task = r.task, q.user = r.user PROVE q.read
    <3>1. <<q.task, q.user>> = p
      BY <2>2, <2>3, <2>4
    <3> QED
      BY <2>1, <3>1
  <2>5. <<r.task, r.user>> \in scan[s].rows
    BY <2>2, <2>3
  <2> QED
    BY <2>3, <2>4, <2>5
<1> HIDE DEF new
<1>3. \A r \in reminders' : r \in reminders \/ new(r)
  BY <1>2
<1>4. reminders' \subseteq ReminderRecords /\ \A r \in reminders' : r.at =< clock
  <2>1. ASSUME NEW r \in reminders' PROVE r \in ReminderRecords /\ r.at =< clock
    <3>1. CASE r \in reminders
      BY <1>1, <3>1 DEF RemindersInv
    <3>2. CASE new(r)
      BY <1>1, <3>2 DEF new
    <3> QED
      BY <1>3, <3>1, <3>2
  <2> QED
    BY <2>1
\* Two that are added are of different pairs.
<1>5. ASSUME NEW r, NEW q, new(r), new(q), r.task = q.task, r.user = q.user PROVE r = q
  BY <1>5 DEF new, ReminderRecords
<1>6. OneUnread'
  <2>1. ASSUME NEW r \in reminders', NEW q \in reminders', r # q, r.task = q.task, r.user = q.user
        PROVE  r.read \/ q.read
    <3>1. CASE r \in reminders /\ q \in reminders
      BY <2>1, <3>1 DEF RemindersInv, OneUnread
    <3>2. CASE new(r) /\ q \in reminders
      BY <2>1, <3>2 DEF new
    <3>3. CASE new(q) /\ r \in reminders
      BY <2>1, <3>3 DEF new
    <3>4. CASE new(q) /\ new(r)
      BY <1>5, <2>1, <3>4
    <3> QED
      BY <1>3, <2>1, <3>1, <3>2, <3>3, <3>4
  <2> QED
    BY <2>1 DEF OneUnread
<1>7. Apart'
  <2>1. ASSUME Alone, NEW r \in reminders', NEW q \in reminders', r # q, r.task = q.task,
               r.user = q.user, r.at =< q.at
        PROVE  r.at + Window < q.at
    <3>1. \A x, y : new(x) /\ y \in reminders /\ y.task = x.task /\ y.user = x.user =>
             y.at \in Int /\ x.at = clock /\ y.at + Window < clock
      <4>1. ASSUME NEW x, NEW y \in reminders, new(x), y.task = x.task, y.user = x.user
            PROVE  y.at \in Int /\ x.at = clock /\ y.at + Window < clock
        <5>1. y.at \in Int
          BY <1>1 DEF ReminderRecords
        <5>2. y.at + Window < scan[s].now
          BY <2>1, <4>1 DEF RemindersInv, StillDue, new
        <5> QED
          BY <1>1, <4>1, <5>1, <5>2 DEF new
      <4> QED
        BY <4>1
    <3>2. CASE r \in reminders /\ q \in reminders
      BY <2>1, <3>2 DEF RemindersInv, Apart
    <3>3. CASE new(r) /\ q \in reminders
      <4>1. q.at \in Int /\ r.at = clock /\ q.at + Window < clock
        BY <2>1, <3>1, <3>3
      <4> QED
        BY <1>1, <2>1, <4>1
    <3>4. CASE new(q) /\ r \in reminders
      BY <2>1, <3>1, <3>4
    <3>5. CASE new(q) /\ new(r)
      BY <1>5, <2>1, <3>5
    <3> QED
      BY <1>3, <2>1, <3>2, <3>3, <3>4, <3>5
  <2> QED
    BY <2>1 DEF Apart, Alone
<1> QED
  BY <1>4, <1>6, <1>7

\* A statement of scanner s that inserts; the scan goes on with another.
LEMMA InsertGoesOn ==
    ASSUME RemindersInv, NEW s \in Scanners, NEW e \in ScanRecords, Step(s, e),
           scan[s].at = "insert", reminders' = reminders \cup InsertedRows(s),
           UNCHANGED <<clock, running, dueDate, assignees>>,
           e.now =< clock, e.at # "insert"
    PROVE  RemindersInv'
<1>1. /\ scan' \in [Scanners -> ScanRecords] /\ scan'[s] = e
      /\ \A t \in Scanners \ {s} : scan'[t] = scan[t]
  BY DEF RemindersInv, ScansTyped, Step
<1>2. /\ reminders' \subseteq ReminderRecords /\ \A r \in reminders' : r.at =< clock
      /\ OneUnread' /\ Apart'
  BY InsertApart
<1>3. ScansTyped'
  BY <1>1, <1>2 DEF RemindersInv, ScansTyped
<1>4. s \in running
  BY DEF RemindersInv
<1>5. ASSUME NEW t \in Scanners
      PROVE  /\ scan'[t].now =< clock' /\ (scan'[t].at # "idle" => t \in running')
             /\ StillDue(t)'
  <2>1. CASE t = s
    BY <1>1, <1>4, <2>1 DEF StillDue
  <2>2. CASE t # s
    <3>1. scan[t].at = "insert" => ~Alone
      BY <1>4, <2>2 DEF RemindersInv, Alone
    <3> QED
      BY <1>1, <2>2, <3>1 DEF RemindersInv, StillDue, Alone
  <2> QED
    BY <2>1, <2>2
<1> QED
  BY <1>2, <1>3, <1>5 DEF RemindersInv

-----------------------------------------------------------------------------
(* The due-soon scan: statements and what goes on around them *)

\* The scan of a process, and what is UNCHANGED by its statements.
LEMMA ScanOf ==
    ASSUME RemindersInv, NEW s \in Scanners
    PROVE  /\ scan[s] \in ScanRecords /\ scan[s].now =< clock
           /\ scan[s].at = "idle" \/ s \in running
  BY DEF RemindersInv, ScansTyped

\* TurnPage: what a scan is on its next page, or when it is through.
LEMMA PageTurned ==
    ASSUME RemindersInv, NEW s \in Scanners, NEW told \in SUBSET Assignees, TurnPage(s, told)
    PROVE  \E e \in ScanRecords : Step(s, e) /\ e.now = scan[s].now /\ e.at \in {"signal", "page"}
<1>1. scan[s] \in ScanRecords
  BY ScanOf
<1>2. CASE Cardinality(scan[s].page) < PageSize
  <2> DEFINE e == [scan[s] EXCEPT !.at = "signal", !.told = told]
  <2>1. e \in ScanRecords /\ e.now = scan[s].now /\ e.at = "signal"
    BY <1>1 DEF ScanRecords
  <2>2. Step(s, e)
    BY <1>2 DEF TurnPage
  <2> QED
    BY <2>1, <2>2
<1>3. CASE ~(Cardinality(scan[s].page) < PageSize)
  <2> DEFINE c == LastOfPage(scan[s].page)
             e == [scan[s] EXCEPT !.at = "page", !.told = told, !.cursor = c]
  <2>1. c \in {<<0, 0>>} \cup {LastOfPage(P) : P \in SUBSET Dues}
    <3>1. scan[s].page \in SUBSET Dues
      BY <1>1 DEF ScanRecords
    <3> QED
      BY <3>1
  <2>2. Step(s, e)
    BY <1>3 DEF TurnPage
  <2> HIDE DEF c
  <2>3. e \in ScanRecords /\ e.now = scan[s].now /\ e.at = "page"
    BY <1>1, <2>1 DEF ScanRecords
  <2> QED
    BY <2>2, <2>3
<1> QED
  BY <1>2, <1>3

\* FailRun: what a scan is when it has failed.
LEMMA RunFailed ==
    ASSUME RemindersInv, NEW s \in Scanners, FailRun(s)
    PROVE  \E e \in ScanRecords : Step(s, e) /\ e.now = 0 /\ e.at \in {"retry", "idle"}
<1> DEFINE n == scan[s].tries + 1
           e == [NoScan EXCEPT !.at = "retry", !.tries = n]
<1>1. n \in Int
  <2>1. scan[s].tries \in Int
    BY ScanOf DEF ScanRecords
  <2> QED
    BY <2>1
<1>2. Step(s, e) \/ Step(s, NoScan)
  BY DEF FailRun
<1> HIDE DEF n
<1>3. e \in ScanRecords /\ e.now = 0 /\ e.at = "retry"
  BY <1>1, NoScanTyped DEF ScanRecords
<1> HIDE DEF e
<1> QED
  BY <1>2, <1>3, NoScanTyped

LEMMA StartScanKeeps == ASSUME RemindersInv, NEW s \in Scanners, StartScan(s) PROVE RemindersInv'
<1> DEFINE e == [NoScan EXCEPT !.at = "page", !.now = clock, !.tries = scan[s].tries]
<1>1. /\ s \in running /\ Step(s, e)
      /\ UNCHANGED <<clock, running, reminders, dueDate, assignees>>
  BY DEF StartScan, Elsewhere
<1>2. clock \in Int /\ scan[s].tries \in Int
  BY ScanOf DEF RemindersInv, ScansTyped, ScanRecords
<1>3. e \in ScanRecords /\ e.at = "page" /\ e.now = clock
  BY <1>2 DEF NoScan, ScanRecords
<1> HIDE DEF e
<1> QED
  BY <1>1, <1>2, <1>3, ScanGoesOn

LEMMA ReadPageKeeps == ASSUME RemindersInv, NEW s \in Scanners, ReadPage(s) PROVE RemindersInv'
<1> DEFINE page == PageAt(scan[s].now, scan[s].cursor)
<1>1. /\ scan[s].at = "page" /\ scan[s] \in ScanRecords /\ scan[s].now =< clock /\ s \in running
      /\ UNCHANGED <<clock, running, reminders, dueDate, assignees>>
  BY ScanOf DEF ReadPage, Elsewhere
<1>2. CASE Step(s, [scan[s] EXCEPT !.at = "signal"])
  <2> DEFINE e == [scan[s] EXCEPT !.at = "signal"]
  <2>1. e \in ScanRecords /\ e.at = "signal" /\ e.now = scan[s].now
    BY <1>1 DEF ScanRecords
  <2> HIDE DEF e
  <2>2. Step(s, e)
    BY <1>2 DEF e
  <2> QED
    BY <1>1, <2>1, <2>2, ScanGoesOn
<1>3. ASSUME NEW P, P = {<<dueDate[t], t>> : t \in page}, NEW Q, Q = {p \in assignees : p[1] \in page},
             Step(s, [scan[s] EXCEPT !.at = "check", !.page = P, !.rows = Q])
      PROVE  RemindersInv'
  <2>1. page \subseteq DOMAIN dueDate
    BY DEF PageAt, DueFrom
  <2> HIDE DEF page
  <2>2. \A t \in page : dueDate[t] \in Int /\ t \in Int
    BY <2>1, DueAssumption DEF RemindersInv, ScansTyped
  <2>3. P \in SUBSET Dues /\ Q \in SUBSET (DueTasks \X Assignees)
    BY <1>3, <2>2 DEF Dues, RemindersInv, ScansTyped
  <2> DEFINE e == [scan[s] EXCEPT !.at = "check", !.page = P, !.rows = Q]
  <2>4. e \in ScanRecords /\ e.at = "check" /\ e.now = scan[s].now
    BY <1>1, <2>3 DEF ScanRecords
  <2> HIDE DEF e
  <2>5. Step(s, e)
    BY <1>3 DEF e
  <2> QED
    BY <1>1, <2>4, <2>5, ScanGoesOn
<1>4. \/ Step(s, [scan[s] EXCEPT !.at = "signal"])
      \/ Step(s, [scan[s] EXCEPT !.at = "check", !.page = {<<dueDate[t], t>> : t \in page},
                                 !.rows = {p \in assignees : p[1] \in page}])
  BY DEF ReadPage
<1> HIDE DEF page
<1> QED
  BY <1>2, <1>3, <1>4

LEMMA CheckPairsKeeps == ASSUME RemindersInv, NEW s \in Scanners, CheckPairs(s) PROVE RemindersInv'
<1> DEFINE missing == scan[s].rows \ AlreadyNotified(s)
<1>1. /\ scan[s].at = "check" /\ scan[s] \in ScanRecords /\ scan[s].now =< clock /\ s \in running
      /\ UNCHANGED <<clock, running, reminders, dueDate, assignees>>
  BY ScanOf DEF CheckPairs, Elsewhere
<1>2. CASE TurnPage(s, scan[s].told)
  <2>1. scan[s].told \in SUBSET Assignees
    BY <1>1 DEF ScanRecords
  <2>2. PICK e \in ScanRecords : Step(s, e) /\ e.now = scan[s].now /\ e.at \in {"signal", "page"}
    BY <1>2, <2>1, PageTurned
  <2>3. e.now =< clock /\ e.at # "insert"
    BY <1>1, <2>2
  <2> QED
    BY <1>1, <2>2, <2>3, ScanGoesOn
<1>3. CASE Step(s, [scan[s] EXCEPT !.at = "insert", !.rows = missing])
  <2> DEFINE e == [scan[s] EXCEPT !.at = "insert", !.rows = missing]
  <2>1. ASSUME NEW r \in reminders, <<r.task, r.user>> \in missing PROVE r.at + Window < scan[s].now
    <3>1. <<r.task, r.user>> \in scan[s].rows /\ ~(r.at >= scan[s].now - Window)
      BY <2>1 DEF AlreadyNotified
    <3>2. r.at \in Int /\ scan[s].now \in Int /\ Window \in Int
      BY <1>1, DueAssumption DEF RemindersInv, ScansTyped, ReminderRecords, ScanRecords
    <3> QED
      BY <3>1, <3>2
  <2>2. missing \in SUBSET (DueTasks \X Assignees)
    BY <1>1 DEF ScanRecords
  <2> HIDE DEF missing
  <2>3. e \in ScanRecords /\ e.at = "insert" /\ e.now = scan[s].now /\ e.rows = missing
    BY <1>1, <2>2 DEF ScanRecords
  <2> HIDE DEF e
  <2>4. Step(s, e)
    BY <1>3 DEF e
  <2>5. \A r \in reminders : <<r.task, r.user>> \in e.rows => r.at + Window < e.now
    BY <2>1, <2>3
  <2> QED
    BY <1>1, <2>3, <2>4, <2>5, ScanGoesOn
<1> QED
  BY <1>2, <1>3 DEF CheckPairs

LEMMA InsertRemindersKeeps ==
    ASSUME RemindersInv, NEW s \in Scanners, InsertReminders(s) PROVE RemindersInv'
<1>1. /\ scan[s].at = "insert" /\ scan[s] \in ScanRecords /\ scan[s].now =< clock /\ s \in running
      /\ UNCHANGED <<clock, running, dueDate, assignees>>
  BY ScanOf DEF InsertReminders, Elsewhere
<1>2. CASE FailRun(s) /\ reminders' = reminders
  <2>1. PICK e \in ScanRecords : Step(s, e) /\ e.now = 0 /\ e.at \in {"retry", "idle"}
    BY <1>2, RunFailed
  <2>2. 0 =< clock
    BY DEF RemindersInv, ScansTyped
  <2> QED
    BY <1>1, <1>2, <2>1, <2>2, ScanGoesOn
<1>3. ASSUME NEW told, told \in {scan[s].told, scan[s].told \cup {p[2] : p \in scan[s].rows}},
             TurnPage(s, told), reminders' = reminders \cup InsertedRows(s)
      PROVE  RemindersInv'
  <2>1. told \in SUBSET Assignees
    BY <1>1, <1>3 DEF ScanRecords
  <2>2. PICK e \in ScanRecords : Step(s, e) /\ e.now = scan[s].now /\ e.at \in {"signal", "page"}
    BY <1>3, <2>1, PageTurned
  <2>3. e.now =< clock /\ e.at # "insert"
    BY <1>1, <2>2
  <2> QED
    BY <1>1, <1>3, <2>2, <2>3, InsertGoesOn
<1> QED
  BY <1>2, <1>3 DEF InsertReminders

-----------------------------------------------------------------------------
(* The due-soon scan: faults, and what goes on around the scans *)

LEMMA FaultyStatementKeeps ==
    ASSUME RemindersInv, NEW s \in Scanners, FaultyStatement(s) PROVE RemindersInv'
<1>1. /\ scan[s].at # "idle" /\ scan[s] \in ScanRecords /\ s \in running /\ 0 =< clock
      /\ UNCHANGED <<clock, running, dueDate, assignees>>
  BY ScanOf DEF FaultyStatement, Elsewhere, RemindersInv, ScansTyped
<1>2. PICK e \in ScanRecords : Step(s, e) /\ e.now = 0 /\ e.at \in {"retry", "idle"}
  BY RunFailed DEF FaultyStatement
<1>3. e.now =< clock /\ e.at # "insert"
  BY <1>1, <1>2
<1>4. CASE reminders' = reminders
  BY <1>1, <1>2, <1>3, <1>4, ScanGoesOn
<1>5. CASE scan[s].at = "insert" /\ reminders' = reminders \cup InsertedRows(s)
  BY <1>1, <1>2, <1>3, <1>5, InsertGoesOn
<1> QED
  BY <1>4, <1>5 DEF FaultyStatement

LEMMA SignalRecipientsKeeps ==
    ASSUME RemindersInv, NEW s \in Scanners, SignalRecipients(s) PROVE RemindersInv'
<1>1. /\ Step(s, NoScan) /\ UNCHANGED <<clock, running, reminders, dueDate, assignees>> /\ 0 =< clock
  BY DEF SignalRecipients, RemindersInv, ScansTyped
<1>2. NoScan \in ScanRecords /\ NoScan.at = "idle" /\ NoScan.now =< clock
  BY <1>1, NoScanTyped
<1> QED
  BY <1>1, <1>2, ScanGoesOn

\* Nothing of a scan, and of the reminders at most fewer.
LEMMA RemindersFall ==
    ASSUME RemindersInv, UNCHANGED <<running, scan>>, clock' \in Nat, clock =< clock',
           reminders' \subseteq reminders,
           dueDate' \in [DOMAIN dueDate' -> Int], DOMAIN dueDate' \subseteq DueTasks,
           assignees' \subseteq DueTasks \X Assignees
    PROVE  RemindersInv'
<1>1. ScansTyped'
  BY DEF RemindersInv, ScansTyped
<1>2. OneUnread' /\ Apart'
  BY DEF RemindersInv, OneUnread, Apart, Alone
<1>3. \A r \in reminders' : r.at =< clock'
  <2>1. ASSUME NEW r \in reminders PROVE r.at =< clock'
    <3>1. r.at \in Int /\ r.at =< clock /\ clock \in Int
      BY DEF RemindersInv, ScansTyped, ReminderRecords
    <3> QED
      BY <3>1
  <2> QED
    BY <2>1
<1>4. ASSUME NEW s \in Scanners
      PROVE  /\ scan'[s].now =< clock' /\ (scan'[s].at # "idle" => s \in running')
             /\ StillDue(s)'
  <2>1. scan[s].now \in Int /\ scan[s].now =< clock /\ clock \in Int
    BY DEF RemindersInv, ScansTyped, ScanRecords
  <2>2. scan'[s].now =< clock'
    BY <2>1
  <2> QED
    BY <2>2 DEF RemindersInv, StillDue, Alone
<1> QED
  BY <1>1, <1>2, <1>3, <1>4 DEF RemindersInv

LEMMA EditDueKeeps == ASSUME RemindersInv, EditDue PROVE RemindersInv'
<1>1. UNCHANGED <<clock, running, scan>>
  BY DEF EditDue
<1>2. /\ clock \in Nat /\ dueDate \in [DOMAIN dueDate -> Int] /\ DOMAIN dueDate \subseteq DueTasks
      /\ assignees \subseteq DueTasks \X Assignees /\ Window \in Nat
  BY DueAssumption DEF RemindersInv, ScansTyped
<1>3. ASSUME NEW t \in DOMAIN dueDate, NEW d \in {0, clock + 1, clock + Window},
             dueDate' = [dueDate EXCEPT ![t] = d], UNCHANGED <<assignees, reminders>>
      PROVE  RemindersInv'
  <2>1. dueDate' \in [DOMAIN dueDate' -> Int] /\ DOMAIN dueDate' \subseteq DueTasks
    BY <1>2, <1>3
  <2> QED
    BY <1>1, <1>2, <1>3, <2>1, RemindersFall
<1>4. ASSUME NEW t \in DOMAIN dueDate, NEW u \in Assignees,
             assignees' \in {assignees \cup {<<t, u>>}, assignees \ {<<t, u>>}},
             UNCHANGED <<dueDate, reminders>>
      PROVE  RemindersInv'
  <2>1. assignees' \subseteq DueTasks \X Assignees
    BY <1>2, <1>4
  <2> QED
    BY <1>1, <1>2, <1>4, <2>1, RemindersFall
<1>5. ASSUME NEW t \in DOMAIN dueDate, dueDate' = [o \in DOMAIN dueDate \ {t} |-> dueDate[o]],
             assignees' = {p \in assignees : p[1] # t},
             reminders' = {r \in reminders : r.task # t}
      PROVE  RemindersInv'
  <2>1. dueDate' \in [DOMAIN dueDate' -> Int] /\ DOMAIN dueDate' \subseteq DueTasks
    BY <1>2, <1>5
  <2>2. assignees' \subseteq DueTasks \X Assignees /\ reminders' \subseteq reminders
    BY <1>2, <1>5
  <2> QED
    BY <1>1, <1>2, <2>1, <2>2, RemindersFall
<1> QED
  BY <1>3, <1>4, <1>5 DEF EditDue

LEMMA ReadReminderKeeps == ASSUME RemindersInv, ReadReminder PROVE RemindersInv'
<1>1. PICK r \in reminders :
         /\ ~r.read /\ reminders' = (reminders \ {r}) \cup {[r EXCEPT !.read = TRUE]}
         /\ UNCHANGED <<clock, dueDate, assignees, running, scan>>
  BY DEF ReadReminder
<1> DEFINE c == [r EXCEPT !.read = TRUE]
<1>2. r \in ReminderRecords /\ reminders \subseteq ReminderRecords
  BY DEF RemindersInv, ScansTyped
<1>3. c \in ReminderRecords /\ c.task = r.task /\ c.user = r.user /\ c.at = r.at /\ c.read = TRUE
  BY <1>2 DEF ReminderRecords
<1>4. \A q \in reminders' : (q \in reminders /\ q # r) \/ q = c
  BY <1>1
<1> HIDE DEF c
<1>5. ScansTyped'
  BY <1>1, <1>2, <1>3, <1>4 DEF RemindersInv, ScansTyped
<1>6. \A q \in reminders' : q.at =< clock'
  BY <1>1, <1>3, <1>4 DEF RemindersInv
\* A reminder of the new set stands for one of the old set, with its pair and its time.
<1> DEFINE was(q) == IF q = c THEN r ELSE q
<1>7. \A q \in reminders' : /\ was(q) \in reminders /\ was(q).task = q.task /\ was(q).user = q.user
                            /\ was(q).at = q.at /\ (was(q).read => q.read)
  BY <1>1, <1>3, <1>4
<1>8. \A p, q \in reminders' : p # q => was(p) # was(q)
  BY <1>1, <1>4
<1> HIDE DEF was
<1>9. OneUnread'
  <2>1. ASSUME NEW p \in reminders', NEW q \in reminders', p # q, p.task = q.task, p.user = q.user
        PROVE  p.read \/ q.read
    <3>1. was(p).read \/ was(q).read
      BY <1>7, <1>8, <2>1 DEF RemindersInv, OneUnread
    <3> QED
      BY <1>7, <2>1, <3>1
  <2> QED
    BY <2>1 DEF OneUnread
<1>10. Apart'
  <2>1. ASSUME Alone, NEW p \in reminders', NEW q \in reminders', p # q, p.task = q.task,
               p.user = q.user, p.at =< q.at
        PROVE  p.at + Window < q.at
    <3>1. was(p) # was(q) /\ was(p).at =< was(q).at /\ was(p) \in reminders /\ was(q) \in reminders
          /\ was(p).task = was(q).task /\ was(p).user = was(q).user
      BY <1>7, <1>8, <2>1
    <3>2. was(p).at + Window < was(q).at
      BY <2>1, <3>1 DEF RemindersInv, Apart
    <3> QED
      BY <1>7, <2>1, <3>2
  <2>2. Alone' <=> Alone
    BY <1>1 DEF Alone
  <2> QED
    BY <2>1, <2>2 DEF Apart
<1>11. ASSUME NEW s \in Scanners
       PROVE  /\ scan'[s].now =< clock' /\ (scan'[s].at # "idle" => s \in running')
              /\ StillDue(s)'
  <2>1. scan'[s].now =< clock' /\ (scan'[s].at # "idle" => s \in running')
    BY <1>1 DEF RemindersInv
  <2>2. ASSUME Alone, scan[s].at = "insert", NEW q \in reminders', <<q.task, q.user>> \in scan[s].rows
        PROVE  q.at + Window < scan[s].now
    <3>1. was(q) \in reminders /\ <<was(q).task, was(q).user>> \in scan[s].rows
      BY <1>7, <2>2
    <3>2. was(q).at + Window < scan[s].now
      BY <2>2, <3>1 DEF RemindersInv, StillDue
    <3> QED
      BY <1>7, <2>2, <3>2
  <2>3. StillDue(s)'
    BY <1>1, <2>2 DEF StillDue, Alone
  <2> QED
    BY <2>1, <2>3
<1> QED
  BY <1>5, <1>6, <1>9, <1>10, <1>11 DEF RemindersInv

LEMMA DueStepKeeps == ASSUME RemindersInv, [DueNext]_dueVars PROVE RemindersInv'
<1>1. /\ clock \in Nat /\ dueDate \in [DOMAIN dueDate -> Int] /\ DOMAIN dueDate \subseteq DueTasks
      /\ assignees \subseteq DueTasks \X Assignees
  BY DEF RemindersInv, ScansTyped
<1>2. ASSUME NEW s \in Scanners, ScanStep(s) \/ FaultyStatement(s) PROVE RemindersInv'
  BY <1>2, StartScanKeeps, ReadPageKeeps, CheckPairsKeeps, InsertRemindersKeeps,
     SignalRecipientsKeeps, FaultyStatementKeeps DEF ScanStep
<1>3. ASSUME UNCHANGED <<clock, dueDate, assignees, reminders, running, scan>> PROVE RemindersInv'
  BY <1>1, <1>3, RemindersFall
<1>4. CASE \E u \in Assignees : CountAgain(u)
  BY <1>3, <1>4 DEF CountAgain
<1>5. CASE DueTick
  <2>1. /\ clock' \in Nat /\ clock =< clock' /\ UNCHANGED <<dueDate, assignees, reminders, running, scan>>
    BY <1>1, <1>5 DEF DueTick
  <2> QED
    BY <1>1, <2>1, RemindersFall
<1>6. CASE UNCHANGED dueVars
  BY <1>3, <1>6 DEF dueVars
<1> QED
  BY <1>2, <1>4, <1>5, <1>6, EditDueKeeps, ReadReminderKeeps DEF DueNext

LEMMA RemindersInit == DueInit => RemindersInv
<1> SUFFICES ASSUME DueInit PROVE RemindersInv
  OBVIOUS
<1>1. ScansTyped
  <2>1. scan \in [Scanners -> ScanRecords]
    BY NoScanTyped DEF DueInit
  <2>2. dueDate \in [DOMAIN dueDate -> Int] /\ DOMAIN dueDate \subseteq DueTasks
    <3>1. dueDate \in [DueTasks -> {1, Window}] /\ Window \in Int
      BY DueAssumption DEF DueInit
    <3>2. DOMAIN dueDate = DueTasks /\ \A t \in DueTasks : dueDate[t] \in Int
      BY <3>1
    <3> QED
      BY <3>1, <3>2
  <2> QED
    BY <2>1, <2>2 DEF DueInit, ScansTyped
<1>2. \A s \in Scanners : scan[s].at = "idle" /\ scan[s].now = 0
  BY NoScanTyped DEF DueInit
<1>3. \A s \in Scanners : StillDue(s)
  BY <1>2 DEF StillDue
<1>4. OneUnread /\ Apart
  BY DEF DueInit, OneUnread, Apart
<1> QED
  BY <1>1, <1>2, <1>3, <1>4 DEF DueInit, RemindersInv

(***************************************************************************)
(* Whatever the number of processes, tasks, users and statements that fail, *)
(* and whatever the window, the page and the attempts of a job: no user has *)
(* two unread reminders of one task, and one process alone reminds again    *)
(* only when what was read is older than the window.  The second half rests *)
(* on findAlreadyNotified's answer still being true at createMany, which it *)
(* is only when nobody else inserts in between.                             *)
(***************************************************************************)
THEOREM RemindersStaySpaced == DueSpec => []RemindersSpaced
<1>1. DueInit => RemindersInv
  BY RemindersInit
<1>2. RemindersInv /\ [DueNext]_dueVars => RemindersInv'
  BY DueStepKeeps
<1>3. RemindersInv => RemindersSpaced
  <2> SUFFICES ASSUME RemindersInv PROVE RemindersSpaced
    OBVIOUS
  <2>1. Cardinality(running) = 1 => Alone
    <3>1. IsFiniteSet(running)
      BY DueAssumption, FS_Subset DEF RemindersInv, ScansTyped
    <3>2. Cardinality(running) = 1 => \E x : running = {x}
      BY <3>1, FS_Singleton
    <3> QED
      BY <3>2 DEF Alone
  <2> QED
    BY <2>1 DEF RemindersInv, OneUnread, Apart, RemindersSpaced
<1> QED
  BY <1>1, <1>2, <1>3, PTL DEF DueSpec

-----------------------------------------------------------------------------
(* The import: chunks, and what a plan holds *)

\* The image of a finite set is finite, and as large if nothing falls together.
LEMMA ImageCounted ==
    ASSUME NEW S, IsFiniteSet(S), NEW f, NEW T, T = {f[x] : x \in S}, DOMAIN f = S
    PROVE  /\ IsFiniteSet(T)
           /\ (\A x, y \in S : f[x] = f[y] => x = y) => Cardinality(T) = Cardinality(S)
<1> DEFINE g == [x \in S |-> f[x]]
<1>1. g \in Surjection(S, T)
  BY DEF Surjection
<1>2. (\A x, y \in S : f[x] = f[y] => x = y) => g \in Injection(S, T)
  BY <1>1 DEF Surjection, Injection, IsInjective
<1> HIDE DEF g
<1> QED
  BY <1>1, <1>2, FS_Surjection

\* chunked never comes to an end before the rows do.
LEMMA ChunkTaken ==
    ASSUME NEW R, IsFiniteSet(R), R # {}
    PROVE  Chunks(R) # {} /\ \A S \in Chunks(R) : S \subseteq R /\ S # {}
<1> DEFINE n == Cardinality(R)
<1>1. n \in Nat /\ n # 0 /\ ExistsBijection(1..n, R) /\ ChunkSize \in Nat \ {0}
  BY FS_CardinalityType, FS_EmptySet, TrelloAssumption
<1>2. \A S \in Chunks(R) : S \subseteq R /\ Cardinality(S) # 0
  BY <1>1 DEF Chunks
<1>3. \A S \in Chunks(R) : S # {}
  BY <1>2, FS_EmptySet
<1>4. CASE n < ChunkSize
  <2>1. R \in Chunks(R)
    BY <1>4 DEF Chunks
  <2> QED
    BY <1>2, <1>3, <2>1
<1>5. CASE ~(n < ChunkSize)
  <2> HIDE DEF n
  <2>1. PICK g : g \in Bijection(1..n, R)
    BY <1>1 DEF ExistsBijection
  <2>2. /\ g \in [1..n -> R] /\ \A x, y \in 1..n : g[x] = g[y] => x = y
    BY <2>1 DEF Bijection, Injection, IsInjective
  <2>3. ChunkSize \in 1..n
    BY <1>1, <1>5
  <2> DEFINE h == [i \in 1..ChunkSize |-> g[i]]
             T == {g[i] : i \in 1..ChunkSize}
  <2>4. \A i \in 1..ChunkSize : i \in 1..n
    BY <1>1, <2>3
  <2>5. h \in Bijection(1..ChunkSize, T)
    BY <2>2, <2>4 DEF Bijection, Injection, IsInjective, Surjection
  <2>6. T \in SUBSET R
    BY <2>2, <2>4
  <2> HIDE DEF T, h
  <2>7. Cardinality(T) = ChunkSize
    BY <1>1, <2>5, FS_CountingElements DEF ExistsBijection
  <2>8. T \in Chunks(R)
    BY <1>5, <2>6, <2>7 DEF Chunks, n
  <2> QED
    BY <1>2, <1>3, <2>8
<1> QED
  BY <1>4, <1>5

\* The parts of an export that come across are finite.
LEMMA LiveFinite ==
    ASSUME NEW e \in Exports, e.recognised
    PROVE  /\ \A s \in {"lists", "cards", "labels", "checklists"} :
                 IsFiniteSet(Entries(e, s)) /\ IsFiniteSet(DOMAIN e[s])
           /\ LiveLists(e) \subseteq Entries(e, "lists") /\ IsFiniteSet(LiveLists(e))
           /\ LiveCards(e) \subseteq Entries(e, "cards") /\ IsFiniteSet(LiveCards(e))
           /\ LiveChecklists(e) \subseteq Entries(e, "checklists") /\ IsFiniteSet(LiveChecklists(e))
           /\ \A s \in {"lists", "cards", "labels", "checklists"} : Entries(e, s) \subseteq DOMAIN e[s]
<1>1. \A s \in {"lists", "cards", "labels", "checklists"} : Entries(e, s) \subseteq DOMAIN e[s]
  BY DEF Entries
<1>2. \A s \in {"lists", "cards", "labels", "checklists"} : IsFiniteSet(DOMAIN e[s])
  BY TrelloAssumption
<1>3. \A s \in {"lists", "cards", "labels", "checklists"} : IsFiniteSet(Entries(e, s))
  BY <1>1, <1>2, FS_Subset
<1>4. /\ LiveLists(e) \subseteq Entries(e, "lists")
      /\ LiveCards(e) \subseteq Entries(e, "cards")
      /\ LiveChecklists(e) \subseteq Entries(e, "checklists")
  BY DEF LiveLists, LiveCards, LiveChecklists
<1>5. IsFiniteSet(LiveLists(e)) /\ IsFiniteSet(LiveCards(e)) /\ IsFiniteSet(LiveChecklists(e))
  BY <1>3, <1>4, FS_Subset
<1> QED
  BY <1>1, <1>2, <1>3, <1>4, <1>5

\* So are unions of finite sets over them.
LEMMA UnionFinite ==
    ASSUME NEW S, IsFiniteSet(S), NEW f, DOMAIN f = S, \A x \in S : IsFiniteSet(f[x]),
           NEW U, U = UNION {f[x] : x \in S}
    PROVE  IsFiniteSet(U)
<1> DEFINE F == {f[x] : x \in S}
<1>1. IsFiniteSet(F)
  BY ImageCounted
<1>2. \A T \in F : IsFiniteSet(T)
  OBVIOUS
<1> HIDE DEF F
<1>3. IsFiniteSet(UNION F)
  BY <1>1, <1>2, FS_UNION
<1> QED
  BY <1>3 DEF F

LEMMA TablesAre ==
    /\ Listed(PlanTables) = {"board", "columns", "labels", "tasks", "taskLabels", "checklists",
                             "items", "attachments"}
    /\ \A e : DOMAIN RowsFor(e) = Listed(PlanTables)
    /\ Len(PlanTables) = 8 /\ \A i \in 1..8 : PlanTables[i] \in Listed(PlanTables)
<1>1. Listed(PlanTables) = {"board", "columns", "labels", "tasks", "taskLabels", "checklists",
                            "items", "attachments"}
  BY DEF Listed, PlanTables
<1>2. \A e : DOMAIN RowsFor(e) = Listed(PlanTables)
  BY <1>1 DEF RowsFor
<1>3. Len(PlanTables) = 8 /\ \A i \in 1..8 : PlanTables[i] \in Listed(PlanTables)
  BY DEF Listed, PlanTables
<1> QED
  BY <1>1, <1>2, <1>3

-----------------------------------------------------------------------------
(* The import: a plan is finite, and accounts for all of its export *)

LEMMA PlanFinite ==
    ASSUME NEW e \in Exports, e.recognised, NEW t \in Listed(PlanTables)
    PROVE  IsFiniteSet(RowsFor(e)[t])
<1>1. /\ IsFiniteSet(Entries(e, "labels")) /\ IsFiniteSet(LiveLists(e)) /\ IsFiniteSet(LiveCards(e))
      /\ IsFiniteSet(LiveChecklists(e))
      /\ LiveCards(e) \subseteq DOMAIN e.cards /\ LiveChecklists(e) \subseteq DOMAIN e.checklists
  BY LiveFinite
<1>2. CASE t = "board"
  <2>1. RowsFor(e)[t] = {<<e.board>>}
    BY <1>2 DEF RowsFor
  <2> QED
    BY <2>1, FS_Singleton
<1>3. CASE t = "columns"
  <2> DEFINE f == [l \in LiveLists(e) |-> <<l, Placed(e.lists, LiveLists(e), l)>>]
  <2>1. RowsFor(e)[t] = {f[l] : l \in LiveLists(e)}
    BY <1>3 DEF RowsFor
  <2>2. DOMAIN f = LiveLists(e)
    OBVIOUS
  <2> HIDE DEF f
  <2> QED
    BY <1>1, <2>1, <2>2, ImageCounted
<1>4. CASE t = "labels"
  <2> DEFINE f == [b \in Entries(e, "labels") |-> <<b>>]
  <2>1. RowsFor(e)[t] = {f[b] : b \in Entries(e, "labels")}
    BY <1>4 DEF RowsFor
  <2>2. DOMAIN f = Entries(e, "labels")
    OBVIOUS
  <2> HIDE DEF f
  <2> QED
    BY <1>1, <2>1, <2>2, ImageCounted
<1>5. CASE t = "tasks"
  <2> DEFINE f == [c \in LiveCards(e) |-> <<c, e.cards[c].list, Placed(e.cards, Siblings(e, c), c)>>]
  <2>1. RowsFor(e)[t] = {f[c] : c \in LiveCards(e)}
    BY <1>5 DEF RowsFor
  <2>2. DOMAIN f = LiveCards(e)
    OBVIOUS
  <2> HIDE DEF f
  <2> QED
    BY <1>1, <2>1, <2>2, ImageCounted
<1>6. CASE t = "checklists"
  <2> DEFINE f == [k \in LiveChecklists(e) |->
                      <<k, e.checklists[k].card, Placed(e.checklists, SisterLists(e, k), k)>>]
  <2>1. RowsFor(e)[t] = {f[k] : k \in LiveChecklists(e)}
    BY <1>6 DEF RowsFor
  <2>2. DOMAIN f = LiveChecklists(e)
    OBVIOUS
  <2> HIDE DEF f
  <2> QED
    BY <1>1, <2>1, <2>2, ImageCounted
<1>7. CASE t = "taskLabels"
  <2> DEFINE of(c) == {<<c, b>> : b \in e.cards[c].labels \cap Entries(e, "labels")}
             f == [c \in LiveCards(e) |-> of(c)]
  <2>1. RowsFor(e)[t] = UNION {f[c] : c \in LiveCards(e)}
    BY <1>7 DEF RowsFor
  <2>2. ASSUME NEW c \in LiveCards(e) PROVE IsFiniteSet(of(c))
    <3> DEFINE S == e.cards[c].labels \cap Entries(e, "labels")
               g == [b \in S |-> <<c, b>>]
    <3>1. IsFiniteSet(S)
      BY <1>1, FS_Intersection
    <3>2. of(c) = {g[b] : b \in S} /\ DOMAIN g = S
      OBVIOUS
    <3> HIDE DEF g, S, of
    <3> QED
      BY <3>1, <3>2, ImageCounted
  <2> HIDE DEF of
  <2>3. DOMAIN f = LiveCards(e) /\ \A c \in LiveCards(e) : IsFiniteSet(f[c])
    BY <2>2
  <2> HIDE DEF f
  <2> QED
    BY <1>1, <2>1, <2>3, UnionFinite
<1>8. CASE t = "attachments"
  <2> DEFINE of(c) == {<<c, a>> : a \in Stored(e, c)}
             f == [c \in LiveCards(e) |-> of(c)]
  <2>1. RowsFor(e)[t] = UNION {f[c] : c \in LiveCards(e)}
    BY <1>8 DEF RowsFor
  <2>2. ASSUME NEW c \in LiveCards(e) PROVE IsFiniteSet(of(c))
    <3> DEFINE S == Stored(e, c)
               g == [a \in S |-> <<c, a>>]
    <3>1. IsFiniteSet(DOMAIN e.cards[c].links) /\ S \subseteq DOMAIN e.cards[c].links
      BY <1>1, TrelloAssumption DEF Stored
    <3>2. IsFiniteSet(S)
      BY <3>1, FS_Subset
    <3>3. of(c) = {g[a] : a \in S} /\ DOMAIN g = S
      OBVIOUS
    <3> HIDE DEF g, S, of
    <3> QED
      BY <3>2, <3>3, ImageCounted
  <2> HIDE DEF of
  <2>3. DOMAIN f = LiveCards(e) /\ \A c \in LiveCards(e) : IsFiniteSet(f[c])
    BY <2>2
  <2> HIDE DEF f
  <2> QED
    BY <1>1, <2>1, <2>3, UnionFinite
<1>9. CASE t = "items"
  <2> DEFINE of(k) == {<<k, i, Placed(e.checklists[k].items, LiveItems(e, k), i)>> :
                         i \in LiveItems(e, k)}
             f == [k \in LiveChecklists(e) |-> of(k)]
  <2>1. RowsFor(e)[t] = UNION {f[k] : k \in LiveChecklists(e)}
    BY <1>9 DEF RowsFor
  <2>2. ASSUME NEW k \in LiveChecklists(e) PROVE IsFiniteSet(of(k))
    <3> DEFINE S == LiveItems(e, k)
               g == [i \in S |-> <<k, i, Placed(e.checklists[k].items, LiveItems(e, k), i)>>]
    <3>1. IsFiniteSet(DOMAIN e.checklists[k].items) /\ S \subseteq DOMAIN e.checklists[k].items
      BY <1>1, TrelloAssumption DEF LiveItems, CheckItems
    <3>2. IsFiniteSet(S)
      BY <3>1, FS_Subset
    <3>3. of(k) = {g[i] : i \in S} /\ DOMAIN g = S
      OBVIOUS
    <3> HIDE DEF g, S, of
    <3> QED
      BY <3>2, <3>3, ImageCounted
  <2> HIDE DEF of
  <2>3. DOMAIN f = LiveChecklists(e) /\ \A k \in LiveChecklists(e) : IsFiniteSet(f[k])
    BY <2>2
  <2> HIDE DEF f
  <2> QED
    BY <1>1, <2>1, <2>3, UnionFinite
<1> QED
  BY <1>2, <1>3, <1>4, <1>5, <1>6, <1>7, <1>8, <1>9, TablesAre

\* toReport's groups of a scope, added up.
LEMMA GroupsAddUp ==
    ASSUME NEW e, NEW sc, NEW S, S = {t \in Skips(e) : t.scope = sc}, IsFiniteSet(S),
           \A t \in S : t.reason \in {"archived", "malformed"}
    PROVE  Total(SkipGroups(e), sc) = Cardinality(S)
<1> DEFINE of(r) == {t \in Skips(e) : <<t.scope, t.reason>> = <<sc, r>>}
           G == {<<t.scope, t.reason>> : t \in Skips(e)}
<1>1. \A r : of(r) = {t \in S : t.reason = r}
  OBVIOUS
<1>2. \A r : <<sc, r>> \in G <=> of(r) # {}
  OBVIOUS
<1>3. SkipGroups(e) = [g \in G |-> Cardinality({t \in Skips(e) : <<t.scope, t.reason>> = g})]
  BY DEF SkipGroups
<1>4. \A r : <<sc, r>> \in DOMAIN SkipGroups(e) => SkipGroups(e)[<<sc, r>>] = Cardinality(of(r))
  BY <1>3
<1>5. DOMAIN SkipGroups(e) = G
  BY <1>3
<1> HIDE DEF of, G
<1>6. \A r : IsFiniteSet(of(r)) /\ Cardinality(of(r)) \in Nat
  BY <1>1, FS_Subset, FS_CardinalityType
<1>7. \A r : (IF <<sc, r>> \in DOMAIN SkipGroups(e) THEN SkipGroups(e)[<<sc, r>>] ELSE 0)
                = Cardinality(of(r))
  BY <1>2, <1>4, <1>5, FS_EmptySet
<1>8. of("unsupportedScheme") = {} /\ of("archived") \cap of("malformed") = {}
      /\ of("archived") \cup of("malformed") = S
  BY <1>1
<1>9. Cardinality(S) = Cardinality(of("archived")) + Cardinality(of("malformed"))
  <2>1. Cardinality(of("archived") \cap of("malformed")) = 0
    BY <1>8, FS_EmptySet
  <2>2. Cardinality(S) = Cardinality(of("archived")) + Cardinality(of("malformed")) - 0
    BY <1>6, <1>8, <2>1, FS_Union
  <2> QED
    BY <1>6, <2>2
<1>10. Cardinality(of("unsupportedScheme")) = 0
  BY <1>8, FS_EmptySet
<1>11. Total(SkipGroups(e), sc) =
          Cardinality(of("archived")) + Cardinality(of("malformed")) + Cardinality(of("unsupportedScheme"))
  BY <1>7 DEF Total
<1> QED
  BY <1>6, <1>9, <1>10, <1>11

\* What is skipped of a scope, and the entries of a section that are, each with its reason.
SkippedIn(e, sc) == {t \in Skips(e) : t.scope = sc}
LeftBehind(sc, why, C) == {Thing(sc, why[i], <<i>>) : i \in C}

\* What came across of a section and what the report counts as skipped are all of it.
LEMMA SectionAccounted ==
    ASSUME NEW e, NEW sc, NEW D, IsFiniteSet(D), NEW Live \in SUBSET D,
           NEW why, \A i \in D \ Live : why[i] \in {"archived", "malformed"},
           SkippedIn(e, sc) = LeftBehind(sc, why, D \ Live)
    PROVE  Cardinality(Live) + Total(SkipGroups(e), sc) = Cardinality(D)
<1> DEFINE C == D \ Live
           f == [i \in C |-> Thing(sc, why[i], <<i>>)]
           S == SkippedIn(e, sc)
<1>1. S = {f[i] : i \in C} /\ DOMAIN f = C
  BY DEF LeftBehind
<1>2. \A x, y \in C : f[x] = f[y] => x = y
  BY DEF Thing
<1>3. S = {t \in Skips(e) : t.scope = sc} /\ \A t \in S : t.reason \in {"archived", "malformed"}
  BY DEF Thing, LeftBehind, SkippedIn
<1> HIDE DEF f, S
<1>4. IsFiniteSet(C) /\ Cardinality(C) = Cardinality(D) - Cardinality(D \cap Live)
  BY FS_Difference
<1>5. D \cap Live = Live
  OBVIOUS
<1>6. Cardinality(C) = Cardinality(D) - Cardinality(Live)
  BY <1>4, <1>5
<1> HIDE DEF C
<1>7. IsFiniteSet(S) /\ Cardinality(S) = Cardinality(C)
  <2>1. IsFiniteSet(C)
    BY <1>4
  <2>2. PICK T : T = {f[i] : i \in C}
    OBVIOUS
  <2>3. IsFiniteSet(T) /\ Cardinality(T) = Cardinality(C)
    BY <1>1, <1>2, <2>1, <2>2, ImageCounted, SMT
  <2>4. S = T
    BY <1>1, <2>2
  <2> QED
    BY <2>3, <2>4
<1>8. Total(SkipGroups(e), sc) = Cardinality(S)
  BY <1>3, <1>7, GroupsAddUp
<1>9. Cardinality(Live) \in Nat /\ Cardinality(D) \in Nat
  BY FS_Subset, FS_CardinalityType
<1> QED
  BY <1>6, <1>7, <1>8, <1>9

\* Of a section that is not there one thing is reported.
LEMMA NoSection ==
    ASSUME NEW e, NEW sc, NEW S, S = {t \in Skips(e) : t.scope = sc},
           S = {Thing(sc, "malformed", << 0 >>)}
    PROVE  Cardinality({}) + Total(SkipGroups(e), sc) = 1
<1>1. \A t \in S : t.reason \in {"archived", "malformed"}
  BY DEF Thing
<1>2. IsFiniteSet(S) /\ Cardinality(S) = 1
  BY FS_Singleton
<1>3. Total(SkipGroups(e), sc) = 1
  BY <1>1, <1>2, GroupsAddUp
<1> QED
  BY <1>3, FS_EmptySet

-----------------------------------------------------------------------------
(* The import: who is skipped *)

\* Why an entry of a section stays behind.
WhyList(e) == [l \in DOMAIN e.lists \ LiveLists(e) |->
                 IF l \in Entries(e, "lists") /\ l \in Archived(e) THEN "archived" ELSE "malformed"]
WhyCard(e) == [c \in DOMAIN e.cards \ LiveCards(e) |->
                 IF c \in Entries(e, "cards") THEN CardReason(e, c) ELSE "malformed"]
WhyChecklist(e) == [k \in DOMAIN e.checklists \ LiveChecklists(e) |->
                      IF k \in Entries(e, "checklists") THEN ChecklistReason(e, k) ELSE "malformed"]

LEMMA CardReasons ==
    ASSUME NEW e, NEW c
    PROVE  CardReason(e, c) \in {"none", "archived", "malformed"}
  BY DEF CardReason

LEMMA WhyTyped ==
    ASSUME NEW e
    PROVE  /\ \A l \in DOMAIN e.lists \ LiveLists(e) : WhyList(e)[l] \in {"archived", "malformed"}
           /\ \A c \in DOMAIN e.cards \ LiveCards(e) : WhyCard(e)[c] \in {"archived", "malformed"}
           /\ \A k \in DOMAIN e.checklists \ LiveChecklists(e) :
                 WhyChecklist(e)[k] \in {"archived", "malformed"}
<1>1. \A l \in DOMAIN e.lists \ LiveLists(e) : WhyList(e)[l] \in {"archived", "malformed"}
  BY DEF WhyList
<1>2. \A c \in Entries(e, "cards") \ LiveCards(e) : CardReason(e, c) \in {"archived", "malformed"}
  BY CardReasons DEF LiveCards
<1>3. \A c \in DOMAIN e.cards \ LiveCards(e) : WhyCard(e)[c] \in {"archived", "malformed"}
  BY <1>2 DEF WhyCard
<1>4. \A k \in Entries(e, "checklists") \ LiveChecklists(e) :
         ChecklistReason(e, k) \in {"archived", "malformed"}
  <2>1. ASSUME NEW k \in Entries(e, "checklists"), k \notin LiveChecklists(e)
        PROVE  ChecklistReason(e, k) \in {"archived", "malformed"}
    <3>1. ChecklistReason(e, k) # "none"
      BY <2>1 DEF LiveChecklists
    <3> QED
      BY <1>2, <3>1 DEF ChecklistReason
  <2> QED
    BY <2>1
<1>5. \A k \in DOMAIN e.checklists \ LiveChecklists(e) :
         WhyChecklist(e)[k] \in {"archived", "malformed"}
  BY <1>4 DEF WhyChecklist
<1> QED
  BY <1>1, <1>3, <1>5

\* What the reader reports of a section.
UnreadIn(e, s, sc) ==
    IF s \in e.sections THEN {Thing(sc, "malformed", <<i>>) : i \in DOMAIN e[s] \ Entries(e, s)}
    ELSE {Thing(sc, "malformed", <<0>>)}

LEMMA IssuesOf ==
    ASSUME NEW e
    PROVE  /\ {t \in Issues(e) : t.scope = "list"} = UnreadIn(e, "lists", "list")
           /\ {t \in Issues(e) : t.scope = "card"} = UnreadIn(e, "cards", "card")
           /\ {t \in Issues(e) : t.scope = "checklist"} = UnreadIn(e, "checklists", "checklist")
<1> DEFINE of(s) == UnreadIn(e, s, ScopeOf[s])
           I == SectionIssues(e)
           J == ItemIssues(e)
<1>1. DOMAIN ScopeOf = {"lists", "cards", "labels", "checklists"}
  BY DEF ScopeOf
<1>2. Issues(e) = I \cup J
  BY DEF Issues
<1>3. \A t \in J : t.scope = "item"
  BY DEF Thing, ItemIssues
<1>4. \A s : \A t \in of(s) : t.scope = ScopeOf[s]
  BY DEF UnreadIn, Thing
<1>5. /\ ScopeOf["lists"] = "list" /\ ScopeOf["cards"] = "card"
      /\ ScopeOf["labels"] = "label" /\ ScopeOf["checklists"] = "checklist"
  BY DEF ScopeOf
<1>6. I = of("lists") \cup of("cards") \cup of("labels") \cup of("checklists")
  <2>1. I = UNION {of(s) : s \in {"lists", "cards", "labels", "checklists"}}
    BY <1>1 DEF UnreadIn, SectionIssues
  <2> HIDE DEF I, of
  <2> QED
    BY <2>1
<1>7. of("lists") = UnreadIn(e, "lists", "list") /\ of("cards") = UnreadIn(e, "cards", "card")
      /\ of("checklists") = UnreadIn(e, "checklists", "checklist")
  BY <1>5
<1> HIDE DEF of, I, J
<1>8. \A t : t \in Issues(e) <=>
         t \in of("lists") \/ t \in of("cards") \/ t \in of("labels") \/ t \in of("checklists") \/ t \in J
  BY <1>2, <1>6
<1>9. /\ \A t \in of("lists") : t.scope = "list"
      /\ \A t \in of("cards") : t.scope = "card"
      /\ \A t \in of("labels") : t.scope = "label"
      /\ \A t \in of("checklists") : t.scope = "checklist"
  BY <1>4, <1>5
<1>10. {t \in Issues(e) : t.scope = "list"} = of("lists")
  BY <1>3, <1>8, <1>9
<1>11. {t \in Issues(e) : t.scope = "card"} = of("cards")
  BY <1>3, <1>8, <1>9
<1>12. {t \in Issues(e) : t.scope = "checklist"} = of("checklists")
  BY <1>3, <1>8, <1>9
<1> QED
  BY <1>7, <1>10, <1>11, <1>12

LEMMA SkipsOf ==
    ASSUME NEW e
    PROVE  /\ {t \in Skips(e) : t.scope = "list"} = UnreadIn(e, "lists", "list") \cup
                 {Thing("list", WhyList(e)[l], <<l>>) : l \in Entries(e, "lists") \ LiveLists(e)}
           /\ {t \in Skips(e) : t.scope = "card"} = UnreadIn(e, "cards", "card") \cup
                 {Thing("card", WhyCard(e)[c], <<c>>) : c \in Entries(e, "cards") \ LiveCards(e)}
           /\ {t \in Skips(e) : t.scope = "checklist"} = UnreadIn(e, "checklists", "checklist") \cup
                 {Thing("checklist", WhyChecklist(e)[k], <<k>>) :
                    k \in Entries(e, "checklists") \ LiveChecklists(e)}
<1> DEFINE L == {Thing("list", IF l \in Archived(e) THEN "archived" ELSE "malformed", <<l>>) :
                   l \in Entries(e, "lists") \ LiveLists(e)}
           C == {Thing("card", CardReason(e, c), <<c>>) : c \in Entries(e, "cards") \ LiveCards(e)}
           K == ChecklistSkips(e)
           M1 == {Thing("column", "defaulted", <<l>>) : l \in LiveLists(e)}
           M2 == {Thing("label", "defaulted", <<b>>) :
                    b \in {i \in Entries(e, "labels") : ~e.labels[i].named \/ ~e.labels[i].known}}
           M3 == CardPartSkips(e)
           M4 == ItemSkips(e)
<1>1. Skips(e) = Issues(e) \cup L \cup M1 \cup M2 \cup C \cup M3 \cup K \cup M4
  BY DEF Skips
<1>2. \A t \in M1 \cup M2 \cup M4 : t.scope \in {"column", "label", "item"}
  BY DEF Thing, ItemSkips
<1>3. \A t \in M3 : t.scope \in {"label", "attachment"}
  BY DEF Thing, CardPartSkips
<1>4. (\A t \in L : t.scope = "list") /\ (\A t \in C : t.scope = "card") /\ (\A t \in K : t.scope = "checklist")
  BY DEF Thing, ChecklistSkips
<1>5. L = {Thing("list", WhyList(e)[l], <<l>>) : l \in Entries(e, "lists") \ LiveLists(e)}
  <2>1. \A l \in Entries(e, "lists") \ LiveLists(e) :
           WhyList(e)[l] = IF l \in Archived(e) THEN "archived" ELSE "malformed"
    BY DEF WhyList, Entries
  <2> QED
    BY <2>1
<1>6. C = {Thing("card", WhyCard(e)[c], <<c>>) : c \in Entries(e, "cards") \ LiveCards(e)}
  <2>1. \A c \in Entries(e, "cards") \ LiveCards(e) : WhyCard(e)[c] = CardReason(e, c)
    <3>1. Entries(e, "cards") \subseteq DOMAIN e.cards
      BY DEF Entries
    <3> QED
      BY <3>1 DEF WhyCard
  <2> QED
    BY <2>1
<1>7. K = {Thing("checklist", WhyChecklist(e)[k], <<k>>) :
             k \in Entries(e, "checklists") \ LiveChecklists(e)}
  <2>1. \A k \in Entries(e, "checklists") \ LiveChecklists(e) : WhyChecklist(e)[k] = ChecklistReason(e, k)
    <3>1. Entries(e, "checklists") \subseteq DOMAIN e.checklists
      BY DEF Entries
    <3> QED
      BY <3>1 DEF WhyChecklist
  <2> QED
    BY <2>1 DEF ChecklistSkips
<1> HIDE DEF L, C, K, M1, M2, M3, M4
<1>8. {t \in Skips(e) : t.scope = "list"} = {t \in Issues(e) : t.scope = "list"} \cup L
  BY <1>1, <1>2, <1>3, <1>4
<1>9. {t \in Skips(e) : t.scope = "card"} = {t \in Issues(e) : t.scope = "card"} \cup C
  BY <1>1, <1>2, <1>3, <1>4
<1>10. {t \in Skips(e) : t.scope = "checklist"} = {t \in Issues(e) : t.scope = "checklist"} \cup K
  BY <1>1, <1>2, <1>3, <1>4
<1> QED
  BY <1>5, <1>6, <1>7, <1>8, <1>9, <1>10, IssuesOf

-----------------------------------------------------------------------------
(* The import: a report adds up, and a board has all of its plan *)

LEMMA ReportAddsUp ==
    ASSUME NEW e \in Exports, e.recognised
    PROVE  /\ Cardinality(LiveLists(e)) + Total(SkipGroups(e), "list") =
                 IF "lists" \in e.sections THEN Cardinality(DOMAIN e.lists) ELSE 1
           /\ Cardinality(LiveCards(e)) + Total(SkipGroups(e), "card") =
                 IF "cards" \in e.sections THEN Cardinality(DOMAIN e.cards) ELSE 1
           /\ Cardinality(LiveChecklists(e)) + Total(SkipGroups(e), "checklist") =
                 IF "checklists" \in e.sections THEN Cardinality(DOMAIN e.checklists) ELSE 1
<1>1. ASSUME NEW s \in {"lists", "cards", "checklists"}, s \notin e.sections PROVE Entries(e, s) = {}
  BY <1>1 DEF Entries
<1>2. /\ Cardinality(LiveLists(e)) + Total(SkipGroups(e), "list") =
            IF "lists" \in e.sections THEN Cardinality(DOMAIN e["lists"]) ELSE 1
  <2> DEFINE S == {t \in Skips(e) : t.scope = "list"}
             w == WhyList(e)
             D == DOMAIN e["lists"] \ LiveLists(e)
  <2>1. S = UnreadIn(e, "lists", "list") \cup
               {Thing("list", w[l], <<l>>) : l \in Entries(e, "lists") \ LiveLists(e)}
    BY SkipsOf
  <2>2. DOMAIN w = D /\ (\A l \in D : w[l] \in {"archived", "malformed"})
        /\ (\A l \in DOMAIN e["lists"] \ Entries(e, "lists") : w[l] = "malformed")
    BY WhyTyped, LiveFinite DEF WhyList
  <2>3. /\ LiveLists(e) \subseteq Entries(e, "lists") /\ Entries(e, "lists") \subseteq DOMAIN e["lists"]
        /\ IsFiniteSet(DOMAIN e["lists"])
    BY LiveFinite
  <2> HIDE DEF S, w
  <2>4. "lists" \in e.sections => S = {Thing("list", w[l], <<l>>) : l \in D}
    BY <2>1, <2>2, <2>3 DEF UnreadIn
  <2>5. "lists" \notin e.sections => S = {Thing("list", "malformed", <<0>>)} /\ LiveLists(e) = {}
    BY <1>1, <2>1, <2>3 DEF UnreadIn
  <2>6. S = {t \in Skips(e) : t.scope = "list"} /\ LiveLists(e) \in SUBSET DOMAIN e["lists"]
    BY <2>3 DEF S
  <2>7. CASE "lists" \in e.sections
    <3>1. Cardinality(LiveLists(e)) + Total(SkipGroups(e), "list") = Cardinality(DOMAIN e["lists"])
      <4>1. SkippedIn(e, "list") = LeftBehind("list", w, D)
        BY <2>4, <2>6, <2>7 DEF SkippedIn, LeftBehind
      <4> QED
        BY <2>2, <2>3, <2>6, <4>1, SectionAccounted
    <3> QED
      BY <2>7, <3>1
  <2>8. CASE "lists" \notin e.sections
    <3>1. Cardinality({}) + Total(SkipGroups(e), "list") = 1
      BY <2>5, <2>6, <2>8, NoSection
    <3> QED
      BY <2>5, <2>8, <3>1
  <2> QED
    BY <2>7, <2>8
<1>3. /\ Cardinality(LiveCards(e)) + Total(SkipGroups(e), "card") =
            IF "cards" \in e.sections THEN Cardinality(DOMAIN e["cards"]) ELSE 1
  <2> DEFINE S == {t \in Skips(e) : t.scope = "card"}
             w == WhyCard(e)
             D == DOMAIN e["cards"] \ LiveCards(e)
  <2>1. S = UnreadIn(e, "cards", "card") \cup
               {Thing("card", w[c], <<c>>) : c \in Entries(e, "cards") \ LiveCards(e)}
    BY SkipsOf
  <2>2. DOMAIN w = D /\ (\A c \in D : w[c] \in {"archived", "malformed"})
        /\ (\A c \in DOMAIN e["cards"] \ Entries(e, "cards") : w[c] = "malformed")
    BY WhyTyped, LiveFinite DEF WhyCard
  <2>3. /\ LiveCards(e) \subseteq Entries(e, "cards") /\ Entries(e, "cards") \subseteq DOMAIN e["cards"]
        /\ IsFiniteSet(DOMAIN e["cards"])
    BY LiveFinite
  <2> HIDE DEF S, w
  <2>4. "cards" \in e.sections => S = {Thing("card", w[c], <<c>>) : c \in D}
    BY <2>1, <2>2, <2>3 DEF UnreadIn
  <2>5. "cards" \notin e.sections => S = {Thing("card", "malformed", <<0>>)} /\ LiveCards(e) = {}
    BY <1>1, <2>1, <2>3 DEF UnreadIn
  <2>6. S = {t \in Skips(e) : t.scope = "card"} /\ LiveCards(e) \in SUBSET DOMAIN e["cards"]
    BY <2>3 DEF S
  <2>7. CASE "cards" \in e.sections
    <3>1. Cardinality(LiveCards(e)) + Total(SkipGroups(e), "card") = Cardinality(DOMAIN e["cards"])
      <4>1. SkippedIn(e, "card") = LeftBehind("card", w, D)
        BY <2>4, <2>6, <2>7 DEF SkippedIn, LeftBehind
      <4> QED
        BY <2>2, <2>3, <2>6, <4>1, SectionAccounted
    <3> QED
      BY <2>7, <3>1
  <2>8. CASE "cards" \notin e.sections
    <3>1. Cardinality({}) + Total(SkipGroups(e), "card") = 1
      BY <2>5, <2>6, <2>8, NoSection
    <3> QED
      BY <2>5, <2>8, <3>1
  <2> QED
    BY <2>7, <2>8
<1>4. /\ Cardinality(LiveChecklists(e)) + Total(SkipGroups(e), "checklist") =
            IF "checklists" \in e.sections THEN Cardinality(DOMAIN e["checklists"]) ELSE 1
  <2> DEFINE S == {t \in Skips(e) : t.scope = "checklist"}
             w == WhyChecklist(e)
             D == DOMAIN e["checklists"] \ LiveChecklists(e)
  <2>1. S = UnreadIn(e, "checklists", "checklist") \cup
               {Thing("checklist", w[k], <<k>>) : k \in Entries(e, "checklists") \ LiveChecklists(e)}
    BY SkipsOf
  <2>2. DOMAIN w = D /\ (\A k \in D : w[k] \in {"archived", "malformed"})
        /\ (\A k \in DOMAIN e["checklists"] \ Entries(e, "checklists") : w[k] = "malformed")
    BY WhyTyped, LiveFinite DEF WhyChecklist
  <2>3. /\ LiveChecklists(e) \subseteq Entries(e, "checklists")
        /\ Entries(e, "checklists") \subseteq DOMAIN e["checklists"]
        /\ IsFiniteSet(DOMAIN e["checklists"])
    BY LiveFinite
  <2> HIDE DEF S, w
  <2>4. "checklists" \in e.sections => S = {Thing("checklist", w[k], <<k>>) : k \in D}
    BY <2>1, <2>2, <2>3 DEF UnreadIn
  <2>5. "checklists" \notin e.sections =>
           S = {Thing("checklist", "malformed", <<0>>)} /\ LiveChecklists(e) = {}
    BY <1>1, <2>1, <2>3 DEF UnreadIn
  <2>6. S = {t \in Skips(e) : t.scope = "checklist"} /\ LiveChecklists(e) \in SUBSET DOMAIN e["checklists"]
    BY <2>3 DEF S
  <2>7. CASE "checklists" \in e.sections
    <3>1. Cardinality(LiveChecklists(e)) + Total(SkipGroups(e), "checklist") = Cardinality(DOMAIN e["checklists"])
      <4>1. SkippedIn(e, "checklist") = LeftBehind("checklist", w, D)
        BY <2>4, <2>6, <2>7 DEF SkippedIn, LeftBehind
      <4> QED
        BY <2>2, <2>3, <2>6, <4>1, SectionAccounted
    <3> QED
      BY <2>7, <3>1
  <2>8. CASE "checklists" \notin e.sections
    <3>1. Cardinality({}) + Total(SkipGroups(e), "checklist") = 1
      BY <2>5, <2>6, <2>8, NoSection
    <3> QED
      BY <2>5, <2>8, <3>1
  <2> QED
    BY <2>7, <2>8
<1> QED
  BY <1>2, <1>3, <1>4

\* The rows of a plan are as many as what comes across.
LEMMA PlanCounts ==
    ASSUME NEW e \in Exports, e.recognised
    PROVE  /\ Counts(RowsFor(e)).columns = Cardinality(LiveLists(e))
           /\ Counts(RowsFor(e)).tasks = Cardinality(LiveCards(e))
           /\ Counts(RowsFor(e)).checklists = Cardinality(LiveChecklists(e))
<1> DEFINE R == RowsFor(e)
<1>1. /\ Counts(R).columns = Cardinality(R.columns) /\ Counts(R).tasks = Cardinality(R.tasks)
      /\ Counts(R).checklists = Cardinality(R.checklists)
  <2>1. {"columns", "tasks", "checklists"} \subseteq DOMAIN R
    BY TablesAre
  <2> QED
    BY <2>1 DEF Counts
<1>2. Cardinality(R.columns) = Cardinality(LiveLists(e))
  <2> DEFINE f == [l \in LiveLists(e) |-> <<l, Placed(e.lists, LiveLists(e), l)>>]
             T == R.columns
  <2>1. T = {f[l] : l \in LiveLists(e)}
    BY DEF RowsFor
  <2>2. DOMAIN f = LiveLists(e) /\ \A x, y \in LiveLists(e) : f[x] = f[y] => x = y
    OBVIOUS
  <2> HIDE DEF f, T
  <2>3. Cardinality(T) = Cardinality(LiveLists(e))
    BY <2>1, <2>2, LiveFinite, ImageCounted
  <2> QED
    BY <2>3 DEF T
<1>3. Cardinality(R.tasks) = Cardinality(LiveCards(e))
  <2> DEFINE f == [c \in LiveCards(e) |-> <<c, e.cards[c].list, Placed(e.cards, Siblings(e, c), c)>>]
             T == R.tasks
  <2>1. T = {f[c] : c \in LiveCards(e)}
    BY DEF RowsFor
  <2>2. DOMAIN f = LiveCards(e) /\ \A x, y \in LiveCards(e) : f[x] = f[y] => x = y
    OBVIOUS
  <2> HIDE DEF f, T
  <2>3. Cardinality(T) = Cardinality(LiveCards(e))
    BY <2>1, <2>2, LiveFinite, ImageCounted
  <2> QED
    BY <2>3 DEF T
<1>4. Cardinality(R.checklists) = Cardinality(LiveChecklists(e))
  <2> DEFINE f == [k \in LiveChecklists(e) |->
                      <<k, e.checklists[k].card, Placed(e.checklists, SisterLists(e, k), k)>>]
             T == R.checklists
  <2>1. T = {f[k] : k \in LiveChecklists(e)}
    BY DEF RowsFor
  <2>2. DOMAIN f = LiveChecklists(e) /\ \A x, y \in LiveChecklists(e) : f[x] = f[y] => x = y
    OBVIOUS
  <2> HIDE DEF f, T
  <2>3. Cardinality(T) = Cardinality(LiveChecklists(e))
    BY <2>1, <2>2, LiveFinite, ImageCounted
  <2> QED
    BY <2>3 DEF T
<1> QED
  BY <1>1, <1>2, <1>3, <1>4

-----------------------------------------------------------------------------
(* The import: the inductive invariant *)

PlanSet == Listed(PlanTables)

\* What is written and what is left of a plan are all of it.
PlanInHand ==
    importer.step = "write" =>
        /\ file.recognised
        /\ DOMAIN importer.left = PlanSet /\ staged = [t \in PlanSet |-> staged[t]]
        /\ \A t \in PlanSet : staged[t] \cup importer.left[t] = RowsFor(file)[t]

\* A board has the rows of its plan, and an activity row that counts them.
BoardWhole(b) ==
    /\ b.export \in Exports /\ b.export.recognised /\ b.rows = RowsFor(b.export)
    /\ \E a \in audit : a.n = b.n /\ a.imported = Counts(b.rows)

Reported(r) ==
    \E b \in imports : /\ b.n = r.n /\ r.imported = Counts(RowsFor(b.export))
                       /\ r.skipped = SkipGroups(b.export)

ImportInv ==
    /\ file \in Exports
    /\ importer.step # "none" <=> form = "sent"
    /\ importer = [step |-> importer.step, left |-> importer.left]
    /\ importer.step # "write" => staged = NoRowsYet
    /\ PlanInHand
    /\ \A b \in imports : BoardWhole(b)
    /\ \A a \in audit : \E b \in imports : a.n = b.n
    /\ importer.step = "answer" => \E b \in imports : b.n = sent /\ b.export = file
    /\ report = NoReport \/ Reported(report)

\* What the invariant says of boards and reports is not disturbed while no row is committed.
LEMMA BoardsStay ==
    ASSUME ImportInv, UNCHANGED <<imports, audit>>
    PROVE  /\ \A b \in imports' : BoardWhole(b)'
           /\ \A a \in audit' : \E b \in imports' : a.n = b.n
           /\ UNCHANGED report => (report' = NoReport \/ Reported(report)')
  BY DEF ImportInv, BoardWhole, Reported

LEMMA PlanBegun ==
    ASSUME ImportInv, ReadAndPlan PROVE ImportInv'
<1>1. /\ importer.step = "read" /\ UNCHANGED <<form, file, sent, staged, imports, audit, report>>
  BY DEF ReadAndPlan
<1>2. CASE file.recognised
  <2>1. importer' = [step |-> "write", left |-> RowsFor(file)]
    BY <1>2 DEF ReadAndPlan
  <2>2. importer'.step = "write" /\ importer'.left = RowsFor(file)
    BY <2>1
  <2>3. staged = NoRowsYet
    BY <1>1 DEF ImportInv
  <2>4. DOMAIN staged = PlanSet /\ \A t \in PlanSet : staged[t] = {}
    BY <2>3 DEF NoRowsYet, PlanSet
  <2>6. staged = [t \in PlanSet |-> staged[t]]
    BY <2>3 DEF NoRowsYet, PlanSet
  <2>5. PlanInHand'
    BY <1>1, <1>2, <2>2, <2>4, <2>6, TablesAre DEF PlanInHand, PlanSet
  <2> QED
    BY <1>1, <2>1, <2>2, <2>5, BoardsStay DEF ImportInv
<1>3. CASE ~file.recognised
  <2>1. importer' = [importer EXCEPT !.step = "refused"]
    BY <1>3 DEF ReadAndPlan
  <2>2. importer' = [step |-> "refused", left |-> importer.left]
    BY <2>1 DEF ImportInv
  <2>3. importer'.step = "refused" /\ importer'.left = importer.left
    BY <2>2
  <2> QED
    BY <1>1, <2>2, <2>3, BoardsStay DEF ImportInv, PlanInHand
<1> QED
  BY <1>2, <1>3

\* A chunk that is written is of the plan, and none of the rest is lost.
LEMMA ChunkWritten == ASSUME ImportInv, WriteChunk PROVE ImportInv'
<1>1. importer.step = "write" /\ UNCHANGED <<form, file, sent, imports, audit, report>>
  BY DEF WriteChunk
<1>2. /\ file \in Exports /\ file.recognised /\ DOMAIN importer.left = PlanSet
      /\ staged = [t \in PlanSet |-> staged[t]] /\ DOMAIN staged = PlanSet
      /\ \A t \in PlanSet : staged[t] \cup importer.left[t] = RowsFor(file)[t]
      /\ importer = [step |-> "write", left |-> importer.left]
  BY <1>1 DEF ImportInv, PlanInHand
<1>3. PICK i \in 1..Len(PlanTables) :
         LET t == WriteOrder[i] IN
           /\ importer.left[t] # {}
           /\ LET chunk == IF Chunks(importer.left[t]) = {} THEN {}
                           ELSE CHOOSE S \in Chunks(importer.left[t]) : TRUE
              IN  /\ staged' = [staged EXCEPT ![t] = @ \cup chunk]
                  /\ importer' = IF chunk = {} THEN [importer EXCEPT !.left[t] = {}]
                                 ELSE [importer EXCEPT !.left[t] = @ \ chunk]
  BY DEF WriteChunk
<1> DEFINE t == WriteOrder[i]
           chunk == IF Chunks(importer.left[t]) = {} THEN {}
                    ELSE CHOOSE S \in Chunks(importer.left[t]) : TRUE
<1>4. t \in PlanSet
  BY <1>3, TablesAre DEF PlanSet, WriteOrder
<1>5. /\ importer.left[t] # {} /\ staged' = [staged EXCEPT ![t] = @ \cup chunk]
      /\ importer' = IF chunk = {} THEN [importer EXCEPT !.left[t] = {}]
                     ELSE [importer EXCEPT !.left[t] = @ \ chunk]
  BY <1>3
<1> HIDE DEF t
<1>6. IsFiniteSet(importer.left[t])
  <2>1. IsFiniteSet(RowsFor(file)[t])
    BY <1>2, <1>4, PlanFinite DEF PlanSet
  <2> QED
    BY <1>2, <1>4, <2>1, FS_Subset
<1>7. chunk \subseteq importer.left[t] /\ chunk # {}
  <2>1. Chunks(importer.left[t]) # {} /\ \A S \in Chunks(importer.left[t]) : S \subseteq importer.left[t] /\ S # {}
    BY <1>5, <1>6, ChunkTaken
  <2>2. chunk \in Chunks(importer.left[t])
    BY <2>1
  <2> HIDE DEF chunk
  <2> QED
    BY <2>1, <2>2
<1> HIDE DEF chunk
<1>8. importer' = [importer EXCEPT !.left[t] = @ \ chunk]
  BY <1>5, <1>7
<1> DEFINE rest == [importer.left EXCEPT ![t] = @ \ chunk]
<1>9. importer' = [step |-> "write", left |-> rest]
  <2>1. importer' = [importer EXCEPT !.left = rest]
    BY <1>8
  <2> HIDE DEF rest
  <2> QED
    BY <1>2, <2>1
<1>10. DOMAIN rest = PlanSet /\ \A u \in PlanSet : rest[u] = IF u = t THEN importer.left[t] \ chunk ELSE importer.left[u]
  BY <1>2, <1>4
<1> HIDE DEF rest
<1>11. importer'.step = "write" /\ importer'.left = rest
  BY <1>9
<1>12. DOMAIN staged' = PlanSet /\ \A u \in PlanSet : staged'[u] = IF u = t THEN staged[t] \cup chunk ELSE staged[u]
  BY <1>2, <1>4, <1>5
<1>15. staged' = [u \in PlanSet |-> staged'[u]]
  BY <1>2, <1>4, <1>5, <1>12
<1>13. \A u \in PlanSet : staged'[u] \cup rest[u] = RowsFor(file)[u]
  BY <1>2, <1>7, <1>10, <1>12
<1>14. PlanInHand'
  BY <1>1, <1>2, <1>10, <1>11, <1>12, <1>13, <1>15 DEF PlanInHand, PlanSet
<1> QED
  BY <1>1, <1>9, <1>11, <1>14, BoardsStay DEF ImportInv

LEMMA ImportCommitted == ASSUME ImportInv, CommitImport PROVE ImportInv'
<1> DEFINE new == [n |-> sent, export |-> file, rows |-> staged]
           entry == [n |-> sent, imported |-> Counts(RowsFor(file)), skippedTotal |-> SkippedTotal(file)]
<1>1. /\ importer.step = "write" /\ importer.left = NoRowsYet
      /\ imports' = imports \cup {new} /\ audit' = audit \cup {entry}
      /\ staged' = NoRowsYet /\ UNCHANGED <<form, file, sent, report>>
  BY DEF CommitImport
<1>2. PICK s \in {"answer", "lost"} : importer' = [importer EXCEPT !.step = s]
  BY DEF CommitImport
<1>3. importer' = [step |-> s, left |-> importer.left]
  BY <1>2 DEF ImportInv
<1>4. importer'.step = s /\ importer'.left = importer.left
  BY <1>3
<1>5. staged = RowsFor(file)
  <2>1. DOMAIN staged = PlanSet /\ \A t \in PlanSet : staged[t] = RowsFor(file)[t]
    <3>1. \A t \in PlanSet : importer.left[t] = {}
      BY <1>1 DEF NoRowsYet, PlanSet
    <3>2. /\ staged = [t \in PlanSet |-> staged[t]]
          /\ \A t \in PlanSet : staged[t] \cup importer.left[t] = RowsFor(file)[t]
      BY <1>1 DEF ImportInv, PlanInHand
    <3>3. DOMAIN staged = PlanSet
      BY <3>2
    <3> QED
      BY <3>1, <3>2, <3>3
  <2>2. staged = [t \in PlanSet |-> staged[t]]
    BY <1>1 DEF ImportInv, PlanInHand
  <2>3. RowsFor(file) = [t \in PlanSet |-> RowsFor(file)[t]]
    BY TablesAre DEF RowsFor, PlanSet
  <2> QED
    BY <2>1, <2>2, <2>3
<1>6. /\ new.n = sent /\ new.export = file /\ new.rows = staged
      /\ entry.n = sent /\ entry.imported = Counts(RowsFor(file))
  OBVIOUS
<1> HIDE DEF new, entry
<1>12. PICK nb, na : nb = new /\ na = entry
  OBVIOUS
<1>13. /\ imports' = imports \cup {nb} /\ audit' = audit \cup {na}
       /\ nb.n = sent /\ nb.export = file /\ nb.rows = RowsFor(file)
       /\ na.n = sent /\ na.imported = Counts(RowsFor(file))
  BY <1>1, <1>5, <1>6, <1>12
<1>7. BoardWhole(nb)'
  <2>1. nb.export \in Exports /\ nb.export.recognised /\ nb.rows = RowsFor(nb.export)
    BY <1>1, <1>13 DEF ImportInv, PlanInHand
  <2>2. na \in audit' /\ na.n = nb.n /\ na.imported = Counts(nb.rows)
    BY <1>13
  <2> QED
    BY <2>1, <2>2 DEF BoardWhole
<1>8. \A b \in imports : BoardWhole(b)'
  BY <1>13 DEF ImportInv, BoardWhole
<1>9. \A a \in audit' : \E b \in imports' : a.n = b.n
  BY <1>13 DEF ImportInv
<1>10. report' = NoReport \/ Reported(report)'
  BY <1>1, <1>13 DEF ImportInv, Reported
<1>11. \A b \in imports' : BoardWhole(b)'
  BY <1>7, <1>8, <1>13
<1> QED
  BY <1>1, <1>3, <1>4, <1>13, <1>9, <1>10, <1>11 DEF ImportInv, PlanInHand

-----------------------------------------------------------------------------
(* The import: the theorem *)

LEMMA AtRestIs ==
    /\ AtRestImporter.step = "none" /\ AtRestImporter = [step |-> AtRestImporter.step, left |-> AtRestImporter.left]
  BY DEF AtRestImporter

LEMMA ImportStepKeeps == ASSUME ImportInv, [TrelloNext]_importVars PROVE ImportInv'
<1>1. CASE Submit
  <2> DEFINE i == [AtRestImporter EXCEPT !.step = "read"]
  <2>1. i = [step |-> "read", left |-> NoRowsYet] /\ i.step = "read"
    BY DEF AtRestImporter
  <2>2. /\ importer' = i /\ form' = "sent" /\ form # "sent"
        /\ UNCHANGED <<file, staged, imports, audit, report>>
    BY <1>1 DEF Submit
  <2> HIDE DEF i
  <2>3. importer.step = "none" /\ staged = NoRowsYet
    BY <2>2 DEF ImportInv
  <2> QED
    BY <2>1, <2>2, <2>3, BoardsStay DEF ImportInv, PlanInHand
<1>2. CASE FailImport
  <2>1. /\ importer' = [importer EXCEPT !.step = "refused"] /\ staged' = NoRowsYet
        /\ importer.step = "write" /\ UNCHANGED <<form, file, sent, imports, audit, report>>
    BY <1>2 DEF FailImport
  <2>2. importer' = [step |-> "refused", left |-> importer.left]
    BY <2>1 DEF ImportInv
  <2>3. importer'.step = "refused" /\ importer'.left = importer.left
    BY <2>2
  <2> QED
    BY <2>1, <2>2, <2>3, BoardsStay DEF ImportInv, PlanInHand
<1>3. CASE ShowReport
  <2> DEFINE r == [n |-> sent, imported |-> Counts(RowsFor(file)), skipped |-> SkipGroups(file)]
  <2>1. /\ importer.step = "answer" /\ report' = r /\ form' = "closed" /\ importer' = AtRestImporter
        /\ UNCHANGED <<file, sent, staged, imports, audit>>
    BY <1>3 DEF ShowReport
  <2>2. r.n = sent /\ r.imported = Counts(RowsFor(file)) /\ r.skipped = SkipGroups(file)
    OBVIOUS
  <2> HIDE DEF r
  <2>3. PICK b \in imports : b.n = sent /\ b.export = file
    BY <2>1 DEF ImportInv
  <2>4. Reported(report)'
    BY <2>1, <2>2, <2>3 DEF Reported
  <2> QED
    BY <2>1, <2>4, AtRestIs, BoardsStay DEF ImportInv, PlanInHand
<1>4. CASE ShowError
  <2>1. /\ importer.step \in {"refused", "lost"} /\ form' = "failed" /\ importer' = AtRestImporter
        /\ UNCHANGED <<file, sent, staged, imports, audit, report>>
    BY <1>4 DEF ShowError
  <2> QED
    BY <2>1, AtRestIs, BoardsStay DEF ImportInv, PlanInHand
<1>5. CASE CloseForm \/ OpenForm
  <2>1. /\ form # "sent" /\ form' # "sent" /\ file' \in Exports
        /\ UNCHANGED <<sent, importer, staged, imports, audit, report>>
    BY <1>5 DEF CloseForm, OpenForm, ImportInv
  <2>2. importer.step = "none"
    BY <2>1 DEF ImportInv
  <2> QED
    BY <2>1, <2>2, BoardsStay DEF ImportInv, PlanInHand
<1>6. CASE Dismiss
  <2>1. report' = NoReport /\ UNCHANGED <<form, file, sent, importer, staged, imports, audit>>
    BY <1>6 DEF Dismiss
  <2> QED
    BY <2>1, BoardsStay DEF ImportInv, PlanInHand
<1>7. CASE UNCHANGED importVars
  BY <1>7, BoardsStay DEF importVars, ImportInv, PlanInHand
<1> QED
  BY <1>1, <1>2, <1>3, <1>4, <1>5, <1>6, <1>7, PlanBegun, ChunkWritten, ImportCommitted DEF TrelloNext

LEMMA ImportInit == TrelloInit => ImportInv
<1> SUFFICES ASSUME TrelloInit PROVE ImportInv
  OBVIOUS
<1>1. /\ form = "open" /\ file \in Exports /\ importer = AtRestImporter /\ staged = NoRowsYet
      /\ imports = {} /\ audit = {} /\ report = NoReport
  BY DEF TrelloInit
<1> QED
  BY <1>1, AtRestIs DEF ImportInv, PlanInHand

(***************************************************************************)
(* For every file, every size of a chunk and every number of retries, and   *)
(* whichever statement of the transaction fails: a board has all the rows   *)
(* of its plan and an activity row that counts them, and a report and its   *)
(* board account for every list, card and checklist of the file, once.      *)
(***************************************************************************)
THEOREM ImportsStayWhole == TrelloSpec => []ImportsAreWhole
<1>1. TrelloInit => ImportInv
  BY ImportInit
<1>2. ImportInv /\ [TrelloNext]_importVars => ImportInv'
  BY ImportStepKeeps
<1>3. ImportInv => ImportsAreWhole
  <2> SUFFICES ASSUME ImportInv PROVE ImportsAreWhole
    OBVIOUS
  <2>1. \A b \in imports : \E a \in audit : a.n = b.n /\ a.imported = Counts(b.rows)
    BY DEF ImportInv, BoardWhole
  <2>2. \A a \in audit : \E b \in imports : a.n = b.n
    BY DEF ImportInv
  <2>3. ASSUME report # NoReport
        PROVE  \E b \in imports :
                  LET there(section) == IF section \in b.export.sections
                                        THEN Cardinality(DOMAIN b.export[section]) ELSE 1
                      done == report.imported
                  IN  /\ b.n = report.n /\ done = Counts(b.rows)
                      /\ done.columns + Total(report.skipped, "list") = there("lists")
                      /\ done.tasks + Total(report.skipped, "card") = there("cards")
                      /\ done.checklists + Total(report.skipped, "checklist") = there("checklists")
    <3>1. PICK b \in imports : /\ b.n = report.n /\ report.imported = Counts(RowsFor(b.export))
                               /\ report.skipped = SkipGroups(b.export)
      BY <2>3 DEF ImportInv, Reported
    <3>2. b.export \in Exports /\ b.export.recognised /\ b.rows = RowsFor(b.export)
      BY DEF ImportInv, BoardWhole
    <3> DEFINE e == b.export
    <3>3. /\ report.imported.columns = Cardinality(LiveLists(e))
          /\ report.imported.tasks = Cardinality(LiveCards(e))
          /\ report.imported.checklists = Cardinality(LiveChecklists(e))
      BY <3>1, <3>2, PlanCounts
    <3>4. /\ Cardinality(LiveLists(e)) + Total(SkipGroups(e), "list") =
                IF "lists" \in e.sections THEN Cardinality(DOMAIN e["lists"]) ELSE 1
          /\ Cardinality(LiveCards(e)) + Total(SkipGroups(e), "card") =
                IF "cards" \in e.sections THEN Cardinality(DOMAIN e["cards"]) ELSE 1
          /\ Cardinality(LiveChecklists(e)) + Total(SkipGroups(e), "checklist") =
                IF "checklists" \in e.sections THEN Cardinality(DOMAIN e["checklists"]) ELSE 1
      BY <3>2, ReportAddsUp
    <3> QED
      BY <3>1, <3>2, <3>3, <3>4
  <2> QED
    BY <2>1, <2>2, <2>3 DEF ImportsAreWhole
<1> QED
  BY <1>1, <1>2, <1>3, PTL DEF TrelloSpec

-----------------------------------------------------------------------------
(* The retention of rows: the inductive invariant *)

Sweeps == [table : 0..Len(Tables), pass : Int, now : Int, tries : Int]

\* Rows are of one table, a ping is of the day it was made on, and a cutoff is of the past.
SweepInv ==
    /\ hour \in 0..LastHour /\ keepDays \in Nat /\ present \subseteq Visitors
    /\ history \subseteq HistoryRows /\ oddments \subseteq OddRows
    /\ pings \subseteq PingRows /\ \A p \in pings : p.day =< p.at
    /\ retention \in Sweeps /\ retention.now =< hour

LEMMA DayHolds ==
    ASSUME NEW t \in Int
    PROVE  DayStart(t) \in Int /\ DayStart(t) =< t /\ t < DayStart(t) + DayTicks
BY InsightsAssumption DEF DayStart

LEMMA DaysGrow ==
    ASSUME NEW m \in Nat, NEW n \in Nat, m =< n
    PROVE  m * DayTicks =< n * DayTicks /\ m * DayTicks \in Int /\ n * DayTicks \in Int
BY InsightsAssumption

\* The sets of rows have nothing in common.
LEMMA TablesApart ==
    /\ HistoryRows \cap PingRows = {}
    /\ HistoryRows \cap OddRows = {}
    /\ PingRows \cap OddRows = {}
<1>1. ASSUME NEW a \in HistoryRows PROVE "lane" \in DOMAIN a
  BY DEF HistoryRows
<1>2. ASSUME NEW p \in PingRows PROVE "lane" \notin DOMAIN p /\ "kind" \in DOMAIN p
  BY DEF PingRows
<1>3. ASSUME NEW o \in OddRows PROVE "lane" \notin DOMAIN o /\ "kind" \notin DOMAIN o
  BY DEF OddRows
<1> QED
  BY <1>1, <1>2, <1>3

\* Of the rows the figures are made of, none is deleted but those that have expired.
LEMMA BatchIsExpired ==
    ASSUME SweepInv, DeleteBatch
    PROVE  /\ history' \subseteq history /\ pings' \subseteq pings /\ oddments' \subseteq oddments
           /\ \A a \in history \ history' : keepDays # 0 /\ a.at < CutoffFor(retention.now, keepDays)
           /\ \A p \in pings \ pings' : keepDays # 0 /\ p.at < CutoffFor(retention.now, keepDays)
<1> DEFINE table == Tables[retention.table]
           expired == Expired(table, retention.now)
<1>1. PICK taken \in SUBSET expired :
            history' = history \ taken /\ pings' = pings \ taken /\ oddments' = oddments \ taken
  BY DEF DeleteBatch
<1>2. table \in {"Session", "Verification", "Notification", "Activity", "UsagePing"}
  <2>1. retention.table \in 1..5
    BY DEF SweepInv, Sweeps, Tables, DeleteBatch
  <2>2. retention.table \in {1, 2, 3, 4, 5}
    BY <2>1
  <2> QED
    BY <2>2 DEF Tables
<1>3. CASE table \in {"Session", "Verification", "Notification"}
  <2>1. expired \subseteq oddments
    BY <1>3 DEF Expired
  <2> QED
    BY <1>1, <2>1, TablesApart DEF SweepInv
<1>4. CASE table = "Activity"
  <2>1. expired = {a \in history : keepDays # 0 /\ a.at < CutoffFor(retention.now, keepDays)}
    BY <1>4 DEF Expired
  <2> QED
    BY <1>1, <2>1, TablesApart DEF SweepInv
<1>5. CASE table = "UsagePing"
  <2>1. expired = {p \in pings : keepDays # 0 /\ p.at < CutoffFor(retention.now, keepDays)}
    BY <1>5 DEF Expired
  <2> QED
    BY <1>1, <2>1, TablesApart DEF SweepInv
<1> QED
  BY <1>2, <1>3, <1>4, <1>5

-----------------------------------------------------------------------------
(* The retention of rows: the invariant, action by action *)

LEMMA SweepInit == InsightInit => SweepInv
<1> SUFFICES ASSUME InsightInit PROVE SweepInv
  OBVIOUS
<1>1. hour \in 0..LastHour /\ keepDays \in Nat /\ history \subseteq HistoryRows /\ oddments \subseteq OddRows
  BY InsightsAssumption DEF InsightInit
<1>2. retention \in Sweeps /\ retention.now = 0
  BY DEF InsightInit, NoSweep, Sweeps, Tables
<1> QED
  BY <1>1, <1>2 DEF InsightInit, SweepInv

LEMMA SweepKept == SweepInv /\ [InsightNext]_insightVars => SweepInv'
<1> SUFFICES ASSUME SweepInv, [InsightNext]_insightVars PROVE SweepInv'
  OBVIOUS
<1>1. CASE UNCHANGED insightVars
  BY <1>1 DEF SweepInv, insightVars
<1>2. CASE MoveCard
  <2>1. PICK u \in present, l \in Lanes, type \in {"task.created", "task.moved"} :
            history' = history \cup {[user |-> u, type |-> type, at |-> hour, lane |-> l,
                                 completed |-> type = "task.moved" /\ lanes[l] = "COMPLETED"]}
    BY <1>2 DEF MoveCard
  <2>2. PICK b \in BOOLEAN : b <=> (type = "task.moved" /\ lanes[l] = "COMPLETED")
    OBVIOUS
  <2>3. [user |-> u, type |-> type, at |-> hour, lane |-> l, completed |-> b] \in HistoryRows
    BY DEF HistoryRows, SweepInv
  <2>4. history' \subseteq HistoryRows
    BY <2>1, <2>2, <2>3 DEF SweepInv
  <2> QED
    BY <1>2, <2>4 DEF MoveCard, Deed, SweepInv
<1>3. CASE ChangeLane
  BY <1>3 DEF ChangeLane, Deed, SweepInv
<1>4. CASE LookAtBoard
  <2>1. PICK u \in present, kind \in {"board_view", "dashboard_view"} :
           pings' \in {pings, pings \cup {[user |-> u, kind |-> kind, day |-> DayStart(hour), at |-> hour]}}
    BY <1>4 DEF LookAtBoard
  <2> DEFINE p == [user |-> u, kind |-> kind, day |-> DayStart(hour), at |-> hour]
  <2>2. p \in PingRows /\ p.day =< p.at
    BY DayHolds DEF PingRows, SweepInv
  <2> HIDE DEF p
  <2>3. pings' \subseteq PingRows /\ \A q \in pings' : q.day =< q.at
    BY <2>1, <2>2 DEF SweepInv, p
  <2> QED
    BY <1>4, <2>3 DEF LookAtBoard, Deed, SweepInv
<1>5. CASE LeaveTeam
  BY <1>5 DEF LeaveTeam, Deed, SweepInv
<1>6. CASE PassHour
  <2>1. hour' = hour + 1 /\ hour < LastHour /\ hour \in Nat /\ LastHour \in Nat
    BY <1>6, InsightsAssumption DEF PassHour, SweepInv
  <2>2. retention.now \in Int
    BY DEF SweepInv, Sweeps
  <2> QED
    BY <1>6, <2>1, <2>2 DEF PassHour, SweepInv
<1>7. CASE BeginSweep
  <2>1. retention' \in Sweeps /\ retention'.now = hour
    <3>1. hour \in Int /\ Len(Tables) = 5
      BY InsightsAssumption DEF SweepInv, Tables
    <3>2. retention' = [table |-> 1, pass |-> 0, now |-> hour, tries |-> retention.tries]
      BY <1>7 DEF BeginSweep, SweepInv, Sweeps
    <3> QED
      BY <3>1, <3>2 DEF SweepInv, Sweeps
  <2> QED
    BY <1>7, <2>1 DEF BeginSweep, UsersAlone, SweepInv
<1>8. CASE DeleteBatch
  <2>1. PICK full \in BOOLEAN : retention' = NextBatch(full)
    <3>1. PICK taken : retention' = NextBatch(Cardinality(taken) = RowBatch)
      BY <1>8 DEF DeleteBatch
    <3> QED
      BY <3>1
  <2>2. retention.table # 0 /\ retention.table \in 0..5 /\ Len(Tables) = 5
    BY <1>8 DEF DeleteBatch, SweepInv, Sweeps, Tables
  <2>3. retention' \in Sweeps /\ (retention'.now = retention.now \/ retention' = NoSweep)
    <3>1. retention = [table |-> retention.table, pass |-> retention.pass, now |-> retention.now,
                       tries |-> retention.tries]
      BY DEF SweepInv, Sweeps
    <3>2. CASE retention' = [retention EXCEPT !.pass = @ + 1]
      BY <2>2, <3>2 DEF SweepInv, Sweeps
    <3>3. CASE retention' = NoSweep
      BY <2>2, <3>3 DEF NoSweep, Sweeps
    <3>4. CASE retention' = [retention EXCEPT !.table = @ + 1, !.pass = 0] /\ retention.table # 5
      <4>1. retention' = [table |-> retention.table + 1, pass |-> 0, now |-> retention.now,
                          tries |-> retention.tries]
        BY <3>1, <3>4
      <4> QED
        BY <2>2, <3>4, <4>1 DEF SweepInv, Sweeps
    <3> QED
      BY <2>1, <2>2, <3>2, <3>3, <3>4 DEF NextBatch
  <2>4. hour >= 0 /\ NoSweep.now = 0
    BY DEF SweepInv, NoSweep
  <2>5. retention'.now =< hour
    BY <2>3, <2>4 DEF SweepInv
  <2>6. UNCHANGED <<hour, keepDays, present>>
    BY <1>8 DEF DeleteBatch, UsersAlone
  <2>7. history' \subseteq history /\ pings' \subseteq pings /\ oddments' \subseteq oddments
    BY <1>8, BatchIsExpired
  <2>8. /\ history' \subseteq HistoryRows /\ oddments' \subseteq OddRows /\ pings' \subseteq PingRows
        /\ \A p \in pings' : p.day =< p.at
    BY <2>7 DEF SweepInv
  <2>9. hour' \in 0..LastHour /\ keepDays' \in Nat /\ present' \subseteq Visitors
    BY <2>6, Zenon DEF SweepInv
  <2>10. retention'.now =< hour'
    BY <2>5, <2>6
  <2> QED
    BY <2>3, <2>8, <2>9, <2>10, Zenon DEF SweepInv
<1>9. CASE FailSweep
  <2>1. (retention.tries + 1) % CleanupAttempts \in Int
    BY InsightsAssumption DEF SweepInv, Sweeps
  <2>2. retention' \in Sweeps /\ retention'.now = 0
    BY <1>9, <2>1 DEF FailSweep, NoSweep, Sweeps, Tables
  <2> QED
    BY <1>9, <2>2 DEF FailSweep, UsersAlone, SweepInv
<1> QED
  BY <1>1, <1>2, <1>3, <1>4, <1>5, <1>6, <1>7, <1>8, <1>9 DEF InsightNext

-----------------------------------------------------------------------------
(* The retention of rows: the theorem *)

\* What is older than the cutoff is older than the windows of the figures.
LEMMA ExpiredIsUnseen ==
    ASSUME SweepInv, keepDays > WeekDays, keepDays >= ThroughputDays,
           NEW s \in Int, s < CutoffFor(retention.now, keepDays)
    PROVE  /\ s < ThroughputSince(hour) /\ s < WeekSince(hour)
           /\ s < DayStart(WeekSince(hour))
<1> DEFINE d == DayTicks
<1>0. /\ d \in Nat \ {0} /\ WeekDays \in Nat /\ ThroughputDays \in Nat \ {0}
      /\ hour \in 0..LastHour /\ keepDays \in Nat /\ retention.now \in Int /\ retention.now =< hour
  BY InsightsAssumption DEF SweepInv, Sweeps
<1>1. keepDays * d >= (WeekDays + 1) * d /\ (WeekDays + 1) * d = WeekDays * d + d /\ WeekDays * d \in Int
  BY <1>0, DaysGrow
<1>2. keepDays * d >= ThroughputDays * d /\ (ThroughputDays - 1) * d = ThroughputDays * d - d
      /\ ThroughputDays * d \in Int /\ keepDays * d \in Int
  BY <1>0, DaysGrow
<1>3. s < hour - keepDays * d
  BY <1>0, <1>2 DEF CutoffFor
<1>4. /\ DayStart(hour) \in Int /\ hour < DayStart(hour) + d
  BY <1>0, DayHolds
<1>5. WeekSince(hour) = hour - WeekDays * d /\ WeekSince(hour) \in Int
  BY <1>0, <1>1 DEF WeekSince
<1>6. DayStart(WeekSince(hour)) \in Int /\ WeekSince(hour) < DayStart(WeekSince(hour)) + d
  BY <1>5, DayHolds
<1>7. ThroughputSince(hour) = DayStart(hour) - (ThroughputDays * d - d)
  BY <1>2 DEF ThroughputSince
<1> HIDE DEF d
<1>8. s < ThroughputSince(hour)
  BY <1>0, <1>2, <1>3, <1>4, <1>7
<1>9. s < WeekSince(hour) - d
  BY <1>0, <1>1, <1>2, <1>3, <1>5
<1> QED
  BY <1>0, <1>5, <1>6, <1>8, <1>9

\* A batch takes no row that a figure counts.
LEMMA BatchUnseen ==
    ASSUME SweepInv, DeleteBatch, keepDays = 0 \/ (keepDays > WeekDays /\ keepDays >= ThroughputDays)
    PROVE  Figures(hour)' = Figures(hour)
<1>1. /\ history' \subseteq history /\ pings' \subseteq pings
      /\ hour' = hour /\ present' = present /\ lanes' = lanes
  BY BatchIsExpired DEF DeleteBatch, UsersAlone
<1>2. \A a \in history \ history' : ~(a.at >= ThroughputSince(hour)) /\ ~(a.at >= WeekSince(hour))
  <2> SUFFICES ASSUME NEW a \in history \ history'
               PROVE  ~(a.at >= ThroughputSince(hour)) /\ ~(a.at >= WeekSince(hour))
    OBVIOUS
  <2>1. a.at \in Int /\ keepDays # 0 /\ a.at < CutoffFor(retention.now, keepDays)
    BY BatchIsExpired DEF SweepInv, HistoryRows
  <2>2. a.at < ThroughputSince(hour) /\ a.at < WeekSince(hour)
    BY <2>1, ExpiredIsUnseen
  <2>3. ThroughputSince(hour) \in Int /\ WeekSince(hour) \in Int
    BY InsightsAssumption, DayHolds DEF ThroughputSince, WeekSince, SweepInv
  <2> QED
    BY <2>1, <2>2, <2>3
<1>3. \A p \in pings \ pings' : ~(p.day >= DayStart(WeekSince(hour)))
  <2> SUFFICES ASSUME NEW p \in pings \ pings' PROVE ~(p.day >= DayStart(WeekSince(hour)))
    OBVIOUS
  <2>1. p.at \in Int /\ p.day \in Int /\ p.day =< p.at /\ keepDays # 0
        /\ p.at < CutoffFor(retention.now, keepDays)
    BY BatchIsExpired DEF SweepInv, PingRows
  <2>2. p.at < DayStart(WeekSince(hour))
    BY <2>1, ExpiredIsUnseen
  <2>3. DayStart(WeekSince(hour)) \in Int
    BY InsightsAssumption, DayHolds DEF WeekSince, SweepInv
  <2> QED
    BY <2>1, <2>2, <2>3
<1>4. Throughput(hour)' = Throughput(hour)
  <2>1. \A day : CreatedOn(hour, day)' = CreatedOn(hour, day)
    BY <1>1, <1>2 DEF CreatedOn
  <2>2. \A day : CompletedOn(hour, day)' = CompletedOn(hour, day)
    BY <1>1, <1>2 DEF CompletedOn, CountsAsCompleted
  <2> QED
    BY <1>1, <2>1, <2>2 DEF Throughput
<1>5. BoardViewers(hour)' = BoardViewers(hour)
  BY <1>1, <1>3 DEF BoardViewers
<1>6. ActiveMembers(hour)' = ActiveMembers(hour)
  BY <1>1, <1>2, <1>3 DEF ActiveMembers
<1>7. NorthStar(hour)' = NorthStar(hour)
  BY <1>1, <1>6 DEF NorthStar
<1> QED
  BY <1>4, <1>5, <1>7 DEF Figures

\* A batch takes only traces from before the days that are kept, of a person any of whose traces
\* of the step that are younger stay.
LEMMA BatchUncountsNobodyRecent ==
    ASSUME SweepInv, DeleteBatch, NEW step \in Steps
    PROVE  /\ EverDid(step)' \subseteq EverDid(step)
           /\ \A r \in Traces(step) :
                 r.user \notin EverDid(step)' => keepDays # 0 /\ r.at < hour - keepDays * DayTicks
<1>1. /\ history' \subseteq history /\ pings' \subseteq pings /\ lanes' = lanes
      /\ \A a \in history \ history' : keepDays # 0 /\ a.at < CutoffFor(retention.now, keepDays)
      /\ \A p \in pings \ pings' : keepDays # 0 /\ p.at < CutoffFor(retention.now, keepDays)
  BY BatchIsExpired DEF DeleteBatch, UsersAlone
<1>2. step \in {"first_task_created", "first_drag", "task_completed", "dashboard_viewed"}
  BY DEF Steps
<1>3. /\ Traces(step)' \subseteq Traces(step)
      /\ \A r \in Traces(step) \ Traces(step)' : r \in (history \ history') \cup (pings \ pings')
  <2>1. CASE step = "first_task_created"
    BY <1>1, <2>1 DEF Traces
  <2>2. CASE step = "first_drag"
    BY <1>1, <2>2 DEF Traces
  <2>3. CASE step = "task_completed"
    BY <1>1, <2>3 DEF Traces, CountsAsCompleted
  <2>4. CASE step = "dashboard_viewed"
    BY <1>1, <2>4 DEF Traces
  <2> QED
    BY <1>2, <2>1, <2>2, <2>3, <2>4
<1>4. EverDid(step)' \subseteq EverDid(step)
  BY <1>3 DEF EverDid
<1>5. ASSUME NEW r \in Traces(step), r.user \notin EverDid(step)'
      PROVE  keepDays # 0 /\ r.at < hour - keepDays * DayTicks
  <2>1. r \notin Traces(step)'
    BY <1>5 DEF EverDid
  <2>2. keepDays # 0 /\ r.at < CutoffFor(retention.now, keepDays) /\ r.at \in Int
    BY <1>1, <1>3, <2>1 DEF SweepInv, HistoryRows, PingRows
  <2>3. keepDays \in Nat /\ DayTicks \in Nat /\ retention.now \in Int /\ hour \in Int /\ retention.now =< hour
    BY InsightsAssumption DEF SweepInv, Sweeps
  <2>4. keepDays * DayTicks \in Int
    BY <2>3
  <2> QED
    BY <2>2, <2>3, <2>4 DEF CutoffFor
<1> QED
  BY <1>4, <1>5

(***************************************************************************)
(* However many rows there are and however the cleanup is cut into batches, *)
(* attempts and runs: with activity kept for longer than the days that are  *)
(* looked back on, no batch changes a figure of those days.  The retention  *)
(* has to be a day longer than the funnel's week, since the day that its    *)
(* window begins in counts whole.  Whatever is kept, a step that counts     *)
(* from the beginning loses only people all of whose traces of it are from  *)
(* before the days that are kept.                                           *)
(***************************************************************************)
THEOREM FiguresStay == InsightSpec => SweepKeepsFigures
<1> DEFINE Windowed == keepDays = 0 \/ (keepDays > WeekDays /\ keepDays >= ThroughputDays)
                       => Figures(hour)' = Figures(hour)
           AllTime == \A step \in Steps :
                        /\ EverDid(step)' \subseteq EverDid(step)
                        /\ \A r \in Traces(step) :
                              r.user \notin EverDid(step)'
                              => keepDays # 0 /\ r.at < hour - keepDays * DayTicks
           Kept == retention' # retention /\ hour' = hour => Windowed /\ AllTime
<1>1. SweepInv /\ [InsightNext]_insightVars => [Kept]_insightVars
  <2> SUFFICES ASSUME SweepInv, [InsightNext]_insightVars, retention' # retention, hour' = hour
               PROVE  Windowed /\ AllTime
    OBVIOUS
  <2>1. CASE DeleteBatch
    <3>1. Windowed
      BY <2>1, BatchUnseen
    <3>2. AllTime
      BY <2>1, BatchUncountsNobodyRecent
    <3> QED
      BY <3>1, <3>2
  <2>2. CASE BeginSweep \/ FailSweep
    <3>1. UNCHANGED <<history, pings, present, lanes, hour>>
      BY <2>2 DEF BeginSweep, FailSweep, UsersAlone
    <3>2. UNCHANGED <<Throughput(hour), BoardViewers(hour), NorthStar(hour)>>
      BY <3>1 DEF Throughput, CreatedOn, CompletedOn, CountsAsCompleted, BoardViewers, NorthStar,
                  ActiveMembers
    <3>3. Windowed
      BY <3>2 DEF Figures
    <3>4. ASSUME NEW step \in Steps PROVE UNCHANGED <<Traces(step), EverDid(step)>>
      BY <3>1 DEF Traces, CountsAsCompleted, EverDid
    <3>5. AllTime
      <4>1. ASSUME NEW step \in Steps
            PROVE  /\ EverDid(step)' \subseteq EverDid(step)
                   /\ \A r \in Traces(step) : r.user \in EverDid(step)'
        <5>1. EverDid(step)' = EverDid(step)
          BY <3>4
        <5> QED
          BY <5>1 DEF EverDid
      <4> QED
        BY <4>1
    <3> QED
      BY <3>3, <3>5
  <2> QED
    BY <2>1, <2>2 DEF InsightNext, MoveCard, ChangeLane, LookAtBoard, LeaveTeam, PassHour, Deed,
                      insightVars
<1> QED
  BY <1>1, SweepInit, SweepKept, PTL DEF InsightSpec, SweepKeepsFigures

-----------------------------------------------------------------------------
(* The erasure of an account: the inductive invariant *)

\* The ids of the comments there are or have been.
Posted == spent \ {d.id : d \in drafts}

TextsTyped ==
    /\ spent \subseteq Nat \ {0} /\ IsFiniteSet(spent)
    /\ remarks \in [DOMAIN remarks -> RemarkRows] /\ DOMAIN remarks \subseteq Posted
    /\ \A c \in DOMAIN remarks : remarks[c].names \subseteq remarks[c].ids
    /\ \A d \in drafts : d.id \in spent /\ d.ids \in SUBSET Persons /\ d.names = d.ids
    /\ \A d, f \in drafts : d.id = f.id => d = f

ErasingSteps == {"rest", "heir", "promote", "page", "rewrite", "scrub", "leave", "commit"}

\* The state of an erasure is a record, and tells of comments that were posted.
ErasingShape(e) ==
    /\ e = [at |-> e.at, heir |-> e.heir, cursor |-> e.cursor, page |-> e.page, todo |-> e.todo,
            known |-> e.known, body |-> e.body, scrubbed |-> e.scrubbed]
    /\ e.at \in ErasingSteps
    /\ e.cursor \in Nat
    /\ e.page \in [DOMAIN e.page -> RemarkRows] /\ e.todo \subseteq DOMAIN e.page
    /\ DOMAIN e.page \cup e.known \cup DOMAIN e.body \subseteq Posted
    /\ e.at \in {"rest", "heir", "promote"} => e.known = {}

\* What an erasure has read and written agrees with the comments about everyone but its own
\* leaver: only the commit of a person's erasure takes the name of that person out.
AgreesOn(u, e, v) ==
    \A c \in DOMAIN remarks :
        /\ c \in DOMAIN e.page => (v \in e.page[c].names <=> v \in remarks[c].names)
        /\ c \in DOMAIN e.body /\ v # u => (v \in e.body[c] <=> v \in remarks[c].names)

\* A mention is of an id that the comment carries.
Within(e) ==
    \A c \in DOMAIN remarks :
        /\ c \in DOMAIN e.page => e.page[c].names \subseteq remarks[c].ids
        /\ c \in DOMAIN e.body => e.body[c] \subseteq remarks[c].ids

\* Of the comments there were, those that still show the name are rewritten or still ahead.
Redacted(u, e) ==
    \A c \in e.known \cap DOMAIN remarks : u \in remarks[c].names =>
        \/ c \in DOMAIN e.body
        \/ e.at = "page" /\ e.cursor < c
        \/ e.at = "rewrite" /\ (c \in e.todo \/ (Full(e) /\ \A d \in DOMAIN e.page : d < c))

Sound(u, e) ==
    /\ ErasingShape(e) /\ Within(e)
    /\ \A v \in Persons \ erased : AgreesOn(u, e, v)
    /\ \A c \in DOMAIN e.body : u \notin e.body[c]
    /\ u \notin erased => Redacted(u, e)

RedactionInv ==
    /\ TextsTyped
    /\ erasing = [u \in Persons |-> erasing[u]]
    /\ \A u \in Persons : Sound(u, erasing[u])

-----------------------------------------------------------------------------
(* The erasure of an account: lowest and highest of a set, and pages *)

LEMMA LowestIs ==
    ASSUME NEW S \in SUBSET Nat, S # {}
    PROVE  \E c \in S : \A d \in S : c =< d
<1> DEFINE R == OpToRel(<, Nat)
<1>1. IsWellFoundedOn(R, Nat)
  BY NatLessThanWellFounded, Zenon
<1>2. \A m, n \in Nat : m < n => <<m, n>> \in R
  BY DEF OpToRel
<1> HIDE DEF R
<1>3. PICK n \in S : \A m \in S : ~(<<m, n>> \in R)
  BY <1>1, WFMin
<1>4. ASSUME NEW m \in S PROVE n =< m
  <2>1. m \in Nat /\ n \in Nat
    OBVIOUS
  <2>2. ~(m < n)
    BY <1>2, <1>3, <2>1, Zenon
  <2> QED
    BY <2>1, <2>2
<1> QED
  BY <1>4

Rank(S, c) == Cardinality({d \in S : d =< c})

LEMMA RankIs ==
    ASSUME NEW S \in SUBSET Nat, IsFiniteSet(S), NEW c
    PROVE  Rank(S, c) \in Nat /\ Rank(S, c) =< Cardinality(S) /\ Cardinality(S) \in Nat
BY FS_Subset, FS_CardinalityType DEF Rank

LEMMA RankGrows ==
    ASSUME NEW S \in SUBSET Nat, IsFiniteSet(S), NEW c \in S, NEW d \in S, c < d
    PROVE  Rank(S, c) < Rank(S, d)
<1> DEFINE C == {x \in S : x =< c}
           D == {x \in S : x =< d}
<1>1. c \in Nat /\ d \in Nat
  OBVIOUS
<1>2. C \in SUBSET D
  <2> SUFFICES ASSUME NEW x \in C PROVE x \in D
    OBVIOUS
  <2>1. x \in Nat /\ x =< c
    OBVIOUS
  <2> QED
    BY <1>1, <2>1
<1>3. d \in D /\ d \notin C
  BY <1>1
<1>4. IsFiniteSet(D) /\ IsFiniteSet(C)
  BY FS_Subset
<1> HIDE DEF C, D
<1>5. Cardinality(C) =< Cardinality(D) /\ Cardinality(C) # Cardinality(D)
  BY <1>2, <1>3, <1>4, FS_Subset
<1>6. Cardinality(C) \in Nat /\ Cardinality(D) \in Nat
  BY <1>4, FS_CardinalityType
<1> QED
  BY <1>5, <1>6 DEF Rank, C, D

LEMMA HighestIs ==
    ASSUME NEW S \in SUBSET Nat, S # {}, IsFiniteSet(S)
    PROVE  \E c \in S : \A d \in S : d =< c
<1> DEFINE Left(c) == Cardinality(S) - Rank(S, c)
           Lefts == {Left(c) : c \in S}
<1>1. \A c \in S : Left(c) \in Nat
  BY RankIs
<1>2. Lefts \in SUBSET Nat /\ Lefts # {}
  BY <1>1
<1>3. PICK m \in Lefts : \A n \in Lefts : m =< n
  BY <1>2, LowestIs
<1>4. PICK c \in S : m = Left(c)
  OBVIOUS
<1>5. ASSUME NEW d \in S PROVE d =< c
  <2>1. Left(c) =< Left(d)
    BY <1>3, <1>4
  <2>2. Rank(S, d) =< Rank(S, c)
    <3>1. Rank(S, c) \in Nat /\ Rank(S, d) \in Nat /\ Cardinality(S) \in Nat
      BY RankIs
    <3> QED
      BY <2>1, <3>1
  <2>3. ~(c < d)
    <3> SUFFICES ASSUME c < d PROVE FALSE
      OBVIOUS
    <3>1. Rank(S, c) < Rank(S, d)
      BY RankGrows
    <3>2. Rank(S, c) \in Nat /\ Rank(S, d) \in Nat
      BY RankIs
    <3> QED
      BY <2>2, <3>1, <3>2
  <2>4. c \in Nat /\ d \in Nat
    OBVIOUS
  <2> QED
    BY <2>3, <2>4
<1> QED
  BY <1>5

\* A page of the lowest k is full, and below whatever it leaves out.
LEMMA PageIsLowest ==
    ASSUME NEW S \in SUBSET Nat, IsFiniteSet(S), NEW k \in Nat, NEW page,
           page = {c \in S : Rank(S, c) =< k}, NEW c \in S, c \notin page
    PROVE  Cardinality(page) = k /\ \A d \in page : d < c
<1>1. page \in SUBSET S /\ page \in SUBSET Nat /\ IsFiniteSet(page) /\ Cardinality(page) \in Nat
  BY FS_Subset, FS_CardinalityType
<1>2. ASSUME NEW x \in S \ page, NEW d \in page PROVE d < x
  <2>1. Rank(S, x) \in Nat /\ Rank(S, d) \in Nat /\ Rank(S, d) =< k /\ ~(Rank(S, x) =< k)
    BY <1>1, RankIs
  <2>2. x \in Nat /\ d \in Nat /\ d \in S /\ x # d
    BY <1>1
  <2>3. ~(x < d)
    <3> SUFFICES ASSUME x < d PROVE FALSE
      OBVIOUS
    <3>1. Rank(S, x) < Rank(S, d)
      BY <2>2, RankGrows
    <3> QED
      BY <2>1, <3>1
  <2> QED
    BY <2>2, <2>3
<1>3. Cardinality(page) =< k
  <2>1. CASE page = {}
    <3>1. Cardinality(page) = 0
      BY <2>1, FS_EmptySet
    <3> QED
      BY <3>1
  <2>2. CASE page # {}
    <3>1. PICK m \in page : \A d \in page : d =< m
      BY <1>1, <2>2, HighestIs
    <3> DEFINE M == {d \in S : d =< m}
    <3>2. page \in SUBSET M /\ IsFiniteSet(M)
      BY <1>1, <3>1, FS_Subset
    <3>3. Cardinality(page) =< Cardinality(M)
      BY <3>2, FS_Subset
    <3>4. Cardinality(M) = Rank(S, m) /\ Rank(S, m) =< k /\ Rank(S, m) \in Nat
      BY <1>1, RankIs DEF Rank
    <3> QED
      BY <1>1, <3>3, <3>4
  <2> QED
    BY <2>1, <2>2
<1>4. k =< Cardinality(page)
  <2>1. PICK x \in S \ page : \A y \in S \ page : x =< y
    BY LowestIs
  <2> DEFINE X == {d \in S : d =< x}
  <2>2. X \in SUBSET (page \cup {x})
    <3> SUFFICES ASSUME NEW d \in X, d \notin page PROVE d = x
      OBVIOUS
    <3>1. d \in Nat /\ x \in Nat /\ d =< x /\ x =< d
      BY <2>1
    <3> QED
      BY <3>1
  <2>3. IsFiniteSet(page \cup {x}) /\ Cardinality(page \cup {x}) = Cardinality(page) + 1
    <3>1. x \notin page /\ IsFiniteSet(page)
      BY <1>1, <2>1
    <3> HIDE DEF X
    <3> QED
      BY <3>1, FS_AddElement
  <2>4. Cardinality(X) =< Cardinality(page) + 1
    BY <2>2, <2>3, FS_Subset
  <2>5. Cardinality(X) = Rank(S, x) /\ Rank(S, x) \in Nat /\ ~(Rank(S, x) =< k)
    BY <2>1, RankIs DEF Rank
  <2> QED
    BY <1>1, <2>4, <2>5
<1> QED
  BY <1>1, <1>2, <1>3, <1>4

-----------------------------------------------------------------------------
(* The erasure of an account: the invariant, action by action *)

LEMMA NotErasingSound == ASSUME NEW u PROVE Sound(u, NotErasing)
<1>1. NoRemarks \in [{} -> RemarkRows] /\ DOMAIN NoRemarks = {}
  BY DEF NoRemarks
<1>2. ErasingShape(NotErasing)
  BY <1>1 DEF ErasingShape, NotErasing, ErasingSteps
<1> QED
  BY <1>1, <1>2 DEF Sound, AgreesOn, Within, Redacted, NotErasing

\* The others' comments may be posted and deleted, and lose the names of who is erased.
LEMMA SoundStays ==
    ASSUME NEW u \in Persons, NEW e, Sound(u, e), erasing'[u] = e,
           Posted \subseteq Posted', erased \subseteq erased',
           \A c \in DOMAIN remarks' \cap Posted :
               /\ c \in DOMAIN remarks /\ remarks'[c].ids = remarks[c].ids
               /\ \A v \in Persons \ erased' : v \in remarks'[c].names <=> v \in remarks[c].names
    PROVE  Sound(u, erasing[u])'
<1>1. ErasingShape(erasing[u])'
  BY DEF Sound, ErasingShape
<1>5. Within(erasing[u])'
  <2>1. Within(e) /\ DOMAIN e.page \cup DOMAIN e.body \subseteq Posted
    BY DEF Sound, ErasingShape
  <2> QED
    BY <2>1 DEF Within
<1>2. ASSUME NEW v \in Persons \ erased' PROVE AgreesOn(u, erasing[u], v)'
  <2>1. AgreesOn(u, e, v) /\ DOMAIN e.page \cup DOMAIN e.body \subseteq Posted
    BY DEF Sound, ErasingShape
  <2> QED
    BY <2>1 DEF AgreesOn
<1>3. \A c \in DOMAIN e.body : u \notin e.body[c]
  BY DEF Sound
<1>4. u \notin erased' => Redacted(u, erasing[u])'
  <2>1. e.known \subseteq Posted /\ (u \notin erased => Redacted(u, e))
    BY DEF Sound, ErasingShape
  <2> QED
    BY <2>1 DEF Redacted, Full
<1> QED
  BY <1>1, <1>2, <1>3, <1>4, <1>5 DEF Sound

\* A step of one erasure that touches nothing of the rest.
LEMMA EraserGoesOn ==
    ASSUME RedactionInv, NEW u \in Persons, NEW e, Sound(u, e), Proceed(u, e),
           UNCHANGED <<remarks, drafts, spent, erased>>
    PROVE  RedactionInv'
<1>1. TextsTyped'
  BY DEF RedactionInv, TextsTyped, Posted
<1>2. erasing' = [v \in Persons |-> IF v = u THEN e ELSE erasing[v]]
  BY DEF RedactionInv, Proceed
<1>3. UNCHANGED <<Posted, erased, remarks>>
  BY DEF Posted
<1>4. ASSUME NEW v \in Persons PROVE Sound(v, erasing[v])'
  <2> DEFINE x == IF v = u THEN e ELSE erasing[v]
  <2>1. Sound(v, x) /\ erasing'[v] = x
    BY <1>2 DEF RedactionInv
  <2> HIDE DEF x
  <2> QED
    BY <1>3, <2>1, SoundStays
<1> QED
  BY <1>1, <1>2, <1>4 DEF RedactionInv

\* A step of the others.
LEMMA OthersGoOn ==
    ASSUME RedactionInv, TextsTyped', erasing' = erasing, erased' = erased, Posted \subseteq Posted',
           \A c \in DOMAIN remarks' \cap Posted : c \in DOMAIN remarks /\ remarks'[c] = remarks[c]
    PROVE  RedactionInv'
<1>1. ASSUME NEW v \in Persons PROVE Sound(v, erasing[v])'
  <2>1. Sound(v, erasing[v]) /\ erasing'[v] = erasing[v]
    BY DEF RedactionInv
  <2> DEFINE x == erasing[v]
  <2>2. Sound(v, x) /\ erasing'[v] = x
    BY <2>1
  <2> HIDE DEF x
  <2> QED
    BY <2>2, SoundStays
<1> QED
  BY <1>1 DEF RedactionInv

LEMMA UndoKeeps ==
    ASSUME RedactionInv, NEW u \in Persons, Undo(u), UNCHANGED <<remarks, drafts, spent, erased>>
    PROVE  RedactionInv'
BY NotErasingSound, EraserGoesOn DEF Undo

LEMMA AskErasureKeeps == ASSUME RedactionInv, AskErasure PROVE RedactionInv'
<1>1. PICK u, h, at, e :
          /\ u \in Persons /\ Proceed(u, e) /\ at \in {"page", "heir"}
          /\ e = [NotErasing EXCEPT !.at = at, !.heir = h]
  <2>1. PICK u \in Persons, h \in (Persons \cup {Nobody}) :
            Proceed(u, [NotErasing EXCEPT !.at = IF h = Nobody THEN "page" ELSE "heir", !.heir = h])
    BY DEF AskErasure
  <2> DEFINE at == IF h = Nobody THEN "page" ELSE "heir"
             e == [NotErasing EXCEPT !.at = at, !.heir = h]
  <2>2. Proceed(u, e) /\ at \in {"page", "heir"}
    BY <2>1
  <2> HIDE DEF at
  <2>3. e = [NotErasing EXCEPT !.at = at, !.heir = h]
    OBVIOUS
  <2> HIDE DEF e
  <2> QED
    BY <2>2, <2>3
<1>2. UNCHANGED <<remarks, drafts, spent, erased>>
  BY DEF AskErasure, Texts, Rolls
<1>3. NoRemarks \in [{} -> RemarkRows] /\ DOMAIN NoRemarks = {}
  BY DEF NoRemarks
<1>4. e = [at |-> at, heir |-> h, cursor |-> 0, page |-> NoRemarks, todo |-> {},
           known |-> {}, body |-> NoRemarks, scrubbed |-> {}]
  BY <1>1 DEF NotErasing
<1>5. Sound(u, e)
  <2>0. /\ e.at = at /\ e.heir = h /\ e.cursor = 0 /\ e.page = NoRemarks /\ e.todo = {}
        /\ e.known = {} /\ e.body = NoRemarks /\ e.scrubbed = {}
    BY <1>4
  <2>1. ErasingShape(e)
    <3>1. e = [at |-> e.at, heir |-> e.heir, cursor |-> e.cursor, page |-> e.page, todo |-> e.todo,
               known |-> e.known, body |-> e.body, scrubbed |-> e.scrubbed]
      BY <1>4, <2>0
    <3>2. e.page \in [{} -> RemarkRows] /\ DOMAIN e.page = {} /\ DOMAIN e.body = {}
      BY <1>3, <2>0
    <3> QED
      BY <1>1, <2>0, <3>1, <3>2 DEF ErasingShape, ErasingSteps
  <2> QED
    BY <1>3, <1>4, <2>1 DEF Sound, AgreesOn, Within, Redacted
<1> QED
  BY <1>1, <1>2, <1>5, EraserGoesOn

\* The statements that neither read nor write a comment.
LEMMA PlainStepKeeps ==
    ASSUME RedactionInv, NEW u \in Persons,
           ReadHeir(u) \/ PromoteHeir(u) \/ ScrubPayloads(u) \/ DropMembership(u)
    PROVE  RedactionInv'
<1>1. UNCHANGED <<remarks, drafts, spent, erased>>
  <2>1. ReadHeir(u) => UNCHANGED <<remarks, drafts, spent, erased>>
    BY DEF ReadHeir, Texts, Rolls
  <2>2. PromoteHeir(u) => UNCHANGED <<remarks, drafts, spent, erased>>
    BY DEF PromoteHeir, Texts, Rolls
  <2>3. ScrubPayloads(u) => UNCHANGED <<remarks, drafts, spent, erased>>
    BY DEF ScrubPayloads, Texts, Rolls
  <2>4. DropMembership(u) => UNCHANGED <<remarks, drafts, spent, erased>>
    BY DEF DropMembership, Texts, Rolls
  <2> QED
    BY <2>1, <2>2, <2>3, <2>4
<1> DEFINE o == erasing[u]
<1>2. \/ Undo(u)
      \/ \E at, scrubbed : /\ Proceed(u, [o EXCEPT !.at = at, !.scrubbed = scrubbed])
                           /\ \/ o.at \in {"heir", "promote"} /\ at \in {"promote", "page"}
                              \/ o.at \in {"scrub", "leave"} /\ at \in {"leave", "commit"}
  <2>1. o = [o EXCEPT !.scrubbed = o.scrubbed] /\ o = [at |-> o.at, heir |-> o.heir, cursor |-> o.cursor, page |-> o.page, todo |-> o.todo,
            known |-> o.known, body |-> o.body, scrubbed |-> o.scrubbed]
    BY DEF RedactionInv, Sound, ErasingShape
  <2>2. \A at : [o EXCEPT !.at = at] = [o EXCEPT !.at = at, !.scrubbed = o.scrubbed]
    BY <2>1
  <2>3. CASE ReadHeir(u)
    <3>1. o.at = "heir" /\ (Proceed(u, [o EXCEPT !.at = "promote"]) \/ Undo(u))
      BY <2>3, Zenon DEF ReadHeir
    <3>2. [o EXCEPT !.at = "promote"] = [o EXCEPT !.at = "promote", !.scrubbed = o.scrubbed]
      BY <2>2, Zenon
    <3> HIDE DEF o
    <3> QED
      BY <3>1, <3>2, Zenon
  <2>4. CASE PromoteHeir(u)
    <3>1. o.at = "promote" /\ (Proceed(u, [o EXCEPT !.at = "page"]) \/ Undo(u))
      BY <2>4, Zenon DEF PromoteHeir
    <3>2. [o EXCEPT !.at = "page"] = [o EXCEPT !.at = "page", !.scrubbed = o.scrubbed]
      BY <2>2, Zenon
    <3> HIDE DEF o
    <3> QED
      BY <3>1, <3>2, Zenon
  <2>5. CASE ScrubPayloads(u)
    BY <2>5, Zenon DEF ScrubPayloads
  <2>6. CASE DropMembership(u)
    BY <2>2, <2>6, Zenon DEF DropMembership
  <2> QED
    BY <2>3, <2>4, <2>5, <2>6, Zenon
<1>3. ASSUME NEW at, NEW scrubbed, NEW e, e = [o EXCEPT !.at = at, !.scrubbed = scrubbed], Proceed(u, e),
             \/ o.at \in {"heir", "promote"} /\ at \in {"promote", "page"}
             \/ o.at \in {"scrub", "leave"} /\ at \in {"leave", "commit"}
      PROVE  RedactionInv'
  <2>1. Sound(u, o)
    BY DEF RedactionInv
  <2>2. e = [at |-> at, heir |-> o.heir, cursor |-> o.cursor, page |-> o.page, todo |-> o.todo,
             known |-> o.known, body |-> o.body, scrubbed |-> scrubbed]
    <3>1. o = [at |-> o.at, heir |-> o.heir, cursor |-> o.cursor, page |-> o.page, todo |-> o.todo,
               known |-> o.known, body |-> o.body, scrubbed |-> o.scrubbed]
      BY <2>1 DEF Sound, ErasingShape
    <3> HIDE DEF o
    <3> QED
      BY <1>3, <3>1
  <2> HIDE DEF o
  <2>3. ErasingShape(e)
    BY <1>3, <2>1, <2>2 DEF Sound, ErasingShape, ErasingSteps
  <2>4. \A v \in Persons \ erased : AgreesOn(u, e, v)
    BY <2>1, <2>2 DEF Sound, AgreesOn
  <2>5. u \notin erased => Redacted(u, e)
    BY <1>3, <2>1, <2>2 DEF Sound, ErasingShape, Redacted
  <2>6. Sound(u, e)
    BY <2>1, <2>2, <2>3, <2>4, <2>5 DEF Sound, Within
  <2> QED
    BY <1>1, <1>3, <2>6, EraserGoesOn
<1> QED
  BY <1>1, <1>2, <1>3, UndoKeeps

\* What is still ahead and shows the name is read, or lies behind a full page.
LEMMA ReadRemarksKeeps == ASSUME RedactionInv, NEW u \in Persons, ReadRemarks(u) PROVE RedactionInv'
<1> DEFINE o == erasing[u]
           S == Carrying(u)
           page == {c \in S : Rank(S, c) =< RedactionPage}
           known == IF o.cursor = 0 THEN DOMAIN remarks ELSE o.known
           e == [at |-> IF page = {} THEN "scrub" ELSE "rewrite", heir |-> o.heir, cursor |-> o.cursor,
                 page |-> [c \in page |-> remarks[c]], todo |-> page, known |-> known,
                 body |-> o.body, scrubbed |-> o.scrubbed]
<1>1. Sound(u, o) /\ o.at = "page" /\ UNCHANGED <<remarks, drafts, spent, erased>>
  BY DEF RedactionInv, ReadRemarks, Texts, Rolls
<1>2. Proceed(u, e)
  <2>1. o = [at |-> o.at, heir |-> o.heir, cursor |-> o.cursor, page |-> o.page, todo |-> o.todo,
             known |-> o.known, body |-> o.body, scrubbed |-> o.scrubbed]
    BY <1>1 DEF Sound, ErasingShape
  <2> DEFINE f == IF o.cursor = 0 THEN [o EXCEPT !.known = DOMAIN remarks] ELSE o
  <2>2. f = [at |-> o.at, heir |-> o.heir, cursor |-> o.cursor, page |-> o.page, todo |-> o.todo,
             known |-> known, body |-> o.body, scrubbed |-> o.scrubbed]
    BY <2>1
  <2> DEFINE at == IF page = {} THEN "scrub" ELSE "rewrite"
             read == [c \in page |-> remarks[c]]
  <2>3. Proceed(u, [f EXCEPT !.at = at, !.page = read, !.todo = page])
    BY DEF ReadRemarks, Rank
  <2>4. e = [at |-> at, heir |-> o.heir, cursor |-> o.cursor, page |-> read, todo |-> page,
             known |-> known, body |-> o.body, scrubbed |-> o.scrubbed]
    OBVIOUS
  <2> HIDE DEF o, S, page, known, e, f, at, read
  <2>5. PICK x : Proceed(u, x) /\ x = [f EXCEPT !.at = at, !.page = read, !.todo = page]
    BY <2>3
  <2> QED
    BY <2>2, <2>4, <2>5
<1>3. S \in SUBSET Nat /\ IsFiniteSet(S) /\ S \subseteq DOMAIN remarks /\ page \subseteq S
  <2>1. S \in SUBSET spent
    BY DEF Carrying, RedactionInv, TextsTyped, Posted
  <2> QED
    BY <2>1, FS_Subset DEF Carrying, RedactionInv, TextsTyped
<1>4. RedactionPage \in Nat \ {0}
  BY ErasureAssumption
<1>5. ASSUME NEW c \in known \cap DOMAIN remarks, u \in remarks[c].names, u \notin erased,
             c \notin DOMAIN o.body
      PROVE  c \in S
  <2>1. u \in remarks[c].ids /\ c \in Nat \ {0}
    BY <1>5 DEF RedactionInv, TextsTyped, Posted
  <2>2. o.cursor < c
    <3>1. CASE o.cursor = 0
      BY <2>1, <3>1
    <3>2. CASE o.cursor # 0
      BY <1>1, <1>5, <3>2 DEF Sound, Redacted
    <3> QED
      BY <3>1, <3>2
  <2>3. o.cursor \in Nat
    BY <1>1 DEF Sound, ErasingShape
  <2> QED
    BY <2>1, <2>2, <2>3 DEF Carrying
<1>6. /\ DOMAIN e.page = page /\ e.todo = page /\ e.known = known /\ e.body = o.body
      /\ e.cursor = o.cursor /\ \A c \in page : e.page[c] = remarks[c]
      /\ e.at = IF page = {} THEN "scrub" ELSE "rewrite"
  OBVIOUS
<1>7. ErasingShape(e)
  <2>1. e.page \in [page -> RemarkRows]
    BY <1>3 DEF RedactionInv, TextsTyped
  <2>2. e = [at |-> e.at, heir |-> e.heir, cursor |-> e.cursor, page |-> e.page, todo |-> e.todo,
             known |-> e.known, body |-> e.body, scrubbed |-> e.scrubbed]
    OBVIOUS
  <2>3. DOMAIN remarks \subseteq Posted
    BY DEF RedactionInv, TextsTyped
  <2> HIDE DEF o, S, page, known, e
  <2>4. known \subseteq Posted /\ page \subseteq Posted /\ DOMAIN o.body \subseteq Posted /\ o.cursor \in Nat
    BY <1>1, <1>3, <2>3 DEF Sound, ErasingShape, known
  <2> QED
    BY <1>6, <2>1, <2>2, <2>4 DEF ErasingShape, ErasingSteps
<1> HIDE DEF S, page, known, e, o
<1>8. ASSUME NEW v \in Persons \ erased PROVE AgreesOn(u, e, v)
  BY <1>1, <1>6 DEF Sound, AgreesOn
<1>9. u \notin erased => Redacted(u, e)
  <2> SUFFICES ASSUME u \notin erased, NEW c \in known \cap DOMAIN remarks, u \in remarks[c].names,
                      c \notin DOMAIN o.body
               PROVE  e.at = "rewrite" /\ (c \in page \/ (Full(e) /\ \A d \in page : d < c))
    BY <1>6 DEF Redacted
  <2>1. c \in S
    BY <1>5
  <2>2. CASE c \in page
    BY <1>6, <2>2
  <2>3. CASE c \notin page
    <3>1. Cardinality(page) = RedactionPage /\ \A d \in page : d < c
      BY <1>3, <1>4, <2>1, <2>3, PageIsLowest DEF page
    <3>2. page # {}
      BY <1>4, <3>1, FS_EmptySet
    <3> QED
      BY <1>6, <3>1, <3>2 DEF Full
  <2> QED
    BY <2>2, <2>3
<1>11. Within(e)
  <2>1. \A c \in DOMAIN remarks : remarks[c].names \subseteq remarks[c].ids
    BY DEF RedactionInv, TextsTyped
  <2> QED
    BY <1>1, <1>6, <2>1 DEF Sound, Within
<1>10. Sound(u, e)
  BY <1>1, <1>6, <1>7, <1>8, <1>9, <1>11 DEF Sound
<1> QED
  BY <1>1, <1>2, <1>10, EraserGoesOn

LEMMA RewriteRemarkKeeps == ASSUME RedactionInv, NEW u \in Persons, RewriteRemark(u) PROVE RedactionInv'
<1> DEFINE o == erasing[u]
           c == NextRemark(u)
           f == [o EXCEPT !.todo = @ \ {c}]
           body == [d \in DOMAIN f.body \cup {c} |-> IF d = c THEN f.page[c].names \ {u} ELSE f.body[d]]
<1>1. Sound(u, o) /\ o.at = "rewrite" /\ o.todo # {} /\ UNCHANGED <<remarks, drafts, spent, erased>>
  BY DEF RedactionInv, RewriteRemark, Rewriting, Texts, Rolls
<1>2. c \in o.todo
  <2>1. o.todo \in SUBSET Nat
    BY <1>1 DEF Sound, ErasingShape, RedactionInv, TextsTyped, Posted
  <2>2. \E x \in o.todo : \A d \in o.todo : x =< d
    BY <1>1, <2>1, LowestIs
  <2> QED
    BY <2>2 DEF NextRemark
<1>0. o = [at |-> o.at, heir |-> o.heir, cursor |-> o.cursor, page |-> o.page, todo |-> o.todo,
           known |-> o.known, body |-> o.body, scrubbed |-> o.scrubbed]
  BY <1>1 DEF Sound, ErasingShape
<1>3. /\ f.at = "rewrite" /\ f.heir = o.heir /\ f.cursor = o.cursor /\ f.page = o.page /\ f.todo = o.todo \ {c}
      /\ f.known = o.known /\ f.body = o.body /\ f.scrubbed = o.scrubbed
      /\ f = [at |-> f.at, heir |-> f.heir, cursor |-> f.cursor, page |-> f.page, todo |-> f.todo,
              known |-> f.known, body |-> f.body, scrubbed |-> f.scrubbed]
  <2>1. f = [at |-> "rewrite", heir |-> o.heir, cursor |-> o.cursor, page |-> o.page, todo |-> o.todo \ {c},
             known |-> o.known, body |-> o.body, scrubbed |-> o.scrubbed]
    <3> HIDE DEF c, body
    <3>1. o.at = "rewrite"
      BY <1>1
    <3> HIDE DEF o
    <3> QED
      BY <1>0, <3>1
  <2> HIDE DEF f, o, c
  <2> QED
    BY <2>1
<1>4. \/ u \notin o.page[c].names /\ Proceed(u, f)
      \/ c \in DOMAIN remarks /\ Proceed(u, [f EXCEPT !.body = body])
      \/ Undo(u)
  BY DEF RewriteRemark, Changes
<1> HIDE DEF f, c
<1>5. CASE u \notin o.page[c].names /\ Proceed(u, f)
  <2> HIDE DEF o
  <2>1. ErasingShape(f)
    BY <1>1, <1>3 DEF Sound, ErasingShape
  <2>2. \A v \in Persons \ erased : AgreesOn(u, f, v)
    BY <1>1, <1>3 DEF Sound, AgreesOn
  <2>3. u \notin erased => Redacted(u, f)
    <3> SUFFICES ASSUME u \notin erased, NEW d \in o.known \cap DOMAIN remarks, u \in remarks[d].names,
                        d \notin DOMAIN o.body, ~(Full(o) /\ \A x \in DOMAIN o.page : x < d)
                 PROVE  d \in o.todo \ {c}
      BY <1>3 DEF Redacted, Full
    <3>1. d \in o.todo
      BY <1>1 DEF Sound, Redacted
    <3>2. d \in DOMAIN o.page /\ AgreesOn(u, o, u)
      BY <1>1, <3>1 DEF Sound, ErasingShape
    <3>3. u \in o.page[d].names
      BY <3>2 DEF AgreesOn
    <3> QED
      BY <1>5, <3>1, <3>3
  <2>4. Sound(u, f)
    BY <1>1, <1>3, <2>1, <2>2, <2>3 DEF Sound, Within
  <2> QED
    BY <1>1, <1>5, <2>4, EraserGoesOn
<1>6. CASE c \in DOMAIN remarks /\ Proceed(u, [f EXCEPT !.body = body])
  <2> DEFINE e == [f EXCEPT !.body = body]
  <2>1. e = [at |-> "rewrite", heir |-> o.heir, cursor |-> o.cursor, page |-> o.page, todo |-> o.todo \ {c},
             known |-> o.known, body |-> body, scrubbed |-> o.scrubbed]
    <3> HIDE DEF body, o
    <3> QED
      BY <1>3
  <2>2. /\ DOMAIN body = DOMAIN o.body \cup {c} /\ body[c] = o.page[c].names \ {u}
        /\ \A d \in DOMAIN o.body \ {c} : body[d] = o.body[d]
    BY <1>3
  <2> HIDE DEF e, body, o
  <2>3. c \in DOMAIN o.page
    BY <1>1, <1>2 DEF Sound, ErasingShape
  <2>4. ErasingShape(e)
    BY <1>1, <2>1, <2>2, <2>3 DEF Sound, ErasingShape
  <2>5. ASSUME NEW v \in Persons \ erased PROVE AgreesOn(u, e, v)
    <3>1. AgreesOn(u, o, v)
      BY <1>1 DEF Sound
    <3> QED
      BY <2>1, <2>2, <2>3, <3>1 DEF AgreesOn
  <2>6. \A d \in DOMAIN body : u \notin body[d]
    BY <1>1, <2>2 DEF Sound
  <2>7. u \notin erased => Redacted(u, e)
    BY <1>1, <2>1, <2>2 DEF Sound, Redacted, Full
  <2>9. Within(e)
    <3>1. Within(o)
      BY <1>1 DEF Sound
    <3> QED
      BY <2>1, <2>2, <2>3, <3>1 DEF Within
  <2>8. Sound(u, e)
    BY <2>1, <2>4, <2>5, <2>6, <2>7, <2>9 DEF Sound
  <2> QED
    BY <1>1, <1>6, <2>8, EraserGoesOn DEF e
<1> QED
  BY <1>1, <1>4, <1>5, <1>6, UndoKeeps

\* Behind a full page the cursor is its last row; a page that is not full was the last.
LEMMA TurnRemarksKeeps == ASSUME RedactionInv, NEW u \in Persons, TurnRemarks(u) PROVE RedactionInv'
<1> DEFINE o == erasing[u]
           last == CHOOSE c \in DOMAIN o.page : \A d \in DOMAIN o.page : d =< c
           e == [at |-> IF Full(o) THEN "page" ELSE "scrub", heir |-> o.heir,
                 cursor |-> IF Full(o) THEN last ELSE o.cursor, page |-> NoRemarks, todo |-> {},
                 known |-> o.known, body |-> o.body, scrubbed |-> o.scrubbed]
<1>1. Sound(u, o) /\ o.at = "rewrite" /\ o.todo = {} /\ UNCHANGED <<remarks, drafts, spent, erased>>
  BY DEF RedactionInv, TurnRemarks, Texts, Rolls
<1>2. Proceed(u, e)
  <2>1. o = [at |-> o.at, heir |-> o.heir, cursor |-> o.cursor, page |-> o.page, todo |-> o.todo,
             known |-> o.known, body |-> o.body, scrubbed |-> o.scrubbed]
    BY <1>1 DEF Sound, ErasingShape
  <2>2. Proceed(u, IF Full(o) THEN [o EXCEPT !.at = "page", !.page = NoRemarks, !.cursor = last]
                   ELSE [o EXCEPT !.at = "scrub", !.page = NoRemarks])
    BY DEF TurnRemarks
  <2> HIDE DEF o, last
  <2> QED
    BY <1>1, <2>1, <2>2
<1>3. NoRemarks \in [{} -> RemarkRows] /\ DOMAIN NoRemarks = {}
  BY DEF NoRemarks
<1>4. Full(o) => last \in DOMAIN o.page /\ last \in Nat
  <2> SUFFICES ASSUME Full(o) PROVE last \in DOMAIN o.page /\ last \in Nat
    OBVIOUS
  <2>1. DOMAIN o.page \in SUBSET spent /\ spent \subseteq Nat /\ IsFiniteSet(spent)
    BY <1>1 DEF Sound, ErasingShape, RedactionInv, TextsTyped, Posted
  <2>2. DOMAIN o.page # {}
    BY FS_EmptySet, ErasureAssumption DEF Full
  <2>3. DOMAIN o.page \in SUBSET Nat /\ IsFiniteSet(DOMAIN o.page)
    BY <2>1, FS_Subset
  <2>4. \E c \in DOMAIN o.page : \A d \in DOMAIN o.page : d =< c
    BY <2>2, <2>3, HighestIs
  <2> QED
    BY <2>3, <2>4
<1> HIDE DEF o, last
<1>5. ErasingShape(e)
  BY <1>1, <1>3, <1>4 DEF Sound, ErasingShape, ErasingSteps
<1>6. \A v \in Persons \ erased : AgreesOn(u, e, v)
  BY <1>1, <1>3 DEF Sound, AgreesOn
<1>7. u \notin erased => Redacted(u, e)
  BY <1>1, <1>4 DEF Sound, Redacted
<1>8. Sound(u, e)
  BY <1>1, <1>3, <1>5, <1>6, <1>7 DEF Sound, Within
<1> HIDE DEF e
<1> QED
  BY <1>1, <1>2, <1>8, EraserGoesOn

\* A commit takes one name out, and puts back no other.
LEMMA CommitErasureKeeps == ASSUME RedactionInv, NEW u \in Persons, CommitErasure(u) PROVE RedactionInv'
<1> DEFINE o == erasing[u]
<1>1. /\ Sound(u, o) /\ DOMAIN remarks' = DOMAIN remarks /\ erased' = erased \cup {u}
      /\ \A c \in DOMAIN remarks : remarks'[c] = IF c \in DOMAIN o.body
                                                 THEN [remarks[c] EXCEPT !.names = o.body[c]] ELSE remarks[c]
      /\ remarks' = [c \in DOMAIN remarks |-> remarks'[c]]
      /\ UNCHANGED <<drafts, spent>> /\ Proceed(u, NotErasing)
  BY DEF RedactionInv, CommitErasure
<1>2. TextsTyped
  BY DEF RedactionInv
<1> HIDE DEF o
<1>3. ASSUME NEW c \in DOMAIN remarks
      PROVE  /\ remarks'[c].ids = remarks[c].ids
             /\ remarks'[c].names = IF c \in DOMAIN o.body THEN o.body[c] ELSE remarks[c].names
             /\ remarks'[c] = [ids |-> remarks'[c].ids, names |-> remarks'[c].names]
  <2>1. remarks[c] \in RemarkRows
    BY <1>2 DEF TextsTyped
  <2> QED
    BY <1>1, <2>1 DEF RemarkRows
<1>4. TextsTyped'
  <2>1. ASSUME NEW c \in DOMAIN remarks
        PROVE  remarks'[c] \in RemarkRows /\ remarks'[c].names \subseteq remarks'[c].ids
    <3>1. /\ remarks[c].ids \subseteq Persons /\ remarks[c].names \subseteq remarks[c].ids
          /\ c \in DOMAIN o.body => o.body[c] \subseteq remarks[c].ids
      BY <1>1, <1>2 DEF TextsTyped, RemarkRows, Sound, Within
    <3>2. remarks'[c].names \subseteq remarks'[c].ids /\ remarks'[c].ids \subseteq Persons
      BY <1>3, <3>1
    <3>3. PICK i, n : /\ remarks'[c] = [ids |-> i, names |-> n] /\ i = remarks'[c].ids
                      /\ n = remarks'[c].names
      BY <1>3
    <3>4. i \in SUBSET Persons /\ n \in SUBSET Persons
      BY <3>2, <3>3
    <3> QED
      BY <3>2, <3>3, <3>4 DEF RemarkRows
  <2>2. remarks' \in [DOMAIN remarks' -> RemarkRows]
    BY <1>1, <2>1
  <2>3. Posted' = Posted
    BY <1>1 DEF Posted
  <2> QED
    BY <1>1, <1>2, <2>1, <2>2, <2>3 DEF TextsTyped
<1>5. erasing' = [v \in Persons |-> IF v = u THEN NotErasing ELSE erasing[v]]
  BY <1>1 DEF RedactionInv, Proceed
<1>6. ASSUME NEW v \in Persons \ erased', NEW c \in DOMAIN remarks
      PROVE  v \in remarks'[c].names <=> v \in remarks[c].names
  <2>1. v \in Persons \ erased /\ v # u
    BY <1>1
  <2>2. AgreesOn(u, o, v)
    BY <1>1, <2>1 DEF Sound
  <2> QED
    BY <1>3, <2>1, <2>2 DEF AgreesOn
<1>7. ASSUME NEW v \in Persons PROVE Sound(v, erasing[v])'
  <2> DEFINE x == IF v = u THEN NotErasing ELSE erasing[v]
  <2>1. Sound(v, x) /\ erasing'[v] = x
    BY <1>5, NotErasingSound DEF RedactionInv
  <2>2. Posted \subseteq Posted' /\ erased \subseteq erased'
    BY <1>1 DEF Posted
  <2>3. \A c \in DOMAIN remarks' \cap Posted :
            /\ c \in DOMAIN remarks /\ remarks'[c].ids = remarks[c].ids
            /\ \A w \in Persons \ erased' : w \in remarks'[c].names <=> w \in remarks[c].names
    BY <1>1, <1>3, <1>6
  <2> HIDE DEF x
  <2> QED
    BY <2>1, <2>2, <2>3, SoundStays
<1> QED
  BY <1>4, <1>5, <1>7 DEF RedactionInv

\* The comments of the others: ids are never used twice.
LEMMA DraftRemarkKeeps == ASSUME RedactionInv, DraftRemark PROVE RedactionInv'
<1>1. PICK c \in RemarkIds \ spent, S \in SUBSET Persons :
          spent' = spent \cup {c} /\ drafts' = drafts \cup {[id |-> c, ids |-> S, names |-> S]}
  BY DEF DraftRemark
<1>2. UNCHANGED <<remarks, erasing, erased>>
  BY DEF DraftRemark, Rolls
<1> DEFINE new == [id |-> c, ids |-> S, names |-> S]
<1>3. c \in Nat \ {0} /\ IsFiniteSet(spent') /\ \A d \in drafts : d.id \in spent
  BY <1>1, ErasureAssumption, FS_AddElement DEF RedactionInv, TextsTyped
<1>4. Posted' = Posted
  <2>1. new.id = c
    OBVIOUS
  <2> HIDE DEF new
  <2>2. {d.id : d \in drafts'} = {d.id : d \in drafts} \cup {c}
    BY <1>1, <2>1 DEF new
  <2> QED
    BY <1>1, <1>3, <2>2 DEF Posted
<1>5. /\ \A d \in drafts' : d.id \in spent' /\ d.ids \in SUBSET Persons /\ d.names = d.ids
      /\ \A d, f \in drafts' : d.id = f.id => d = f
  <2>1. new.id = c /\ new.ids = S /\ new.names = S
    OBVIOUS
  <2>2. drafts' = drafts \cup {new}
    BY <1>1
  <2> HIDE DEF new
  <2> QED
    BY <1>1, <1>3, <2>1, <2>2 DEF RedactionInv, TextsTyped
<1>6. TextsTyped'
  BY <1>1, <1>2, <1>3, <1>4, <1>5 DEF RedactionInv, TextsTyped
<1> QED
  BY <1>2, <1>4, <1>6, OthersGoOn

LEMMA PostRemarkKeeps == ASSUME RedactionInv, PostRemark PROVE RedactionInv'
<1>1. PICK d \in drafts :
          /\ drafts' = drafts \ {d}
          /\ remarks' = [c \in DOMAIN remarks \cup {d.id} |->
                           IF c = d.id THEN [ids |-> d.ids, names |-> d.names] ELSE remarks[c]]
  BY DEF PostRemark
<1>2. UNCHANGED <<spent, erasing, erased>>
  BY DEF PostRemark, Rolls
<1>3. TextsTyped
  BY DEF RedactionInv
<1>4. Posted' = Posted \cup {d.id} /\ d.id \notin Posted
  <2>1. \A f \in drafts' : f.id # d.id
    BY <1>1, <1>3 DEF TextsTyped
  <2> QED
    BY <1>1, <1>2, <1>3, <2>1 DEF Posted, TextsTyped
<1>5. /\ DOMAIN remarks' = DOMAIN remarks \cup {d.id}
      /\ remarks'[d.id] = [ids |-> d.ids, names |-> d.names]
      /\ \A c \in DOMAIN remarks : c # d.id /\ remarks'[c] = remarks[c]
      /\ remarks' = [c \in DOMAIN remarks' |-> remarks'[c]]
  BY <1>1, <1>3, <1>4 DEF TextsTyped
<1>6. [ids |-> d.ids, names |-> d.names] \in RemarkRows /\ d.names \subseteq d.ids
  BY <1>3 DEF TextsTyped, RemarkRows
<1>7. /\ \A c \in DOMAIN remarks' : remarks'[c] \in RemarkRows
      /\ \A c \in DOMAIN remarks' : remarks'[c].names \subseteq remarks'[c].ids
  BY <1>3, <1>5, <1>6 DEF TextsTyped
<1>8. TextsTyped'
  BY <1>1, <1>2, <1>3, <1>4, <1>5, <1>7 DEF TextsTyped
<1> QED
  BY <1>2, <1>4, <1>5, <1>8, OthersGoOn

LEMMA DeleteRemarkKeeps == ASSUME RedactionInv, DeleteRemark PROVE RedactionInv'
<1>1. PICK c \in DOMAIN remarks : remarks' = [d \in DOMAIN remarks \ {c} |-> remarks[d]]
  BY DEF DeleteRemark
<1>2. UNCHANGED <<drafts, spent, erasing, erased>> /\ Posted' = Posted
  BY DEF DeleteRemark, Rolls, Posted
<1>3. TextsTyped'
  BY <1>1, <1>2 DEF RedactionInv, TextsTyped
<1> QED
  BY <1>1, <1>2, <1>3, OthersGoOn

LEMMA RedactionInit == ErasureInit => RedactionInv
<1> SUFFICES ASSUME ErasureInit PROVE RedactionInv
  OBVIOUS
<1>1. /\ remarks \in [DOMAIN remarks -> RemarkRows] /\ DOMAIN remarks \subseteq Nat \ {0}
      /\ IsFiniteSet(DOMAIN remarks) /\ \A c \in DOMAIN remarks : remarks[c].names \subseteq remarks[c].ids
  BY ErasureAssumption DEF ErasureInit
<1>2. TextsTyped
  BY <1>1 DEF ErasureInit, TextsTyped, Posted
<1> QED
  BY <1>2, NotErasingSound DEF ErasureInit, RedactionInv

LEMMA RedactionKept == RedactionInv /\ [ErasureNext]_erasureVars => RedactionInv'
<1> SUFFICES ASSUME RedactionInv, [ErasureNext]_erasureVars PROVE RedactionInv'
  OBVIOUS
<1>1. CASE AskErasure
  BY <1>1, AskErasureKeeps
<1>2. CASE TimeOut \/ BreakErasureDeadlock
  <2>1. \E u \in Persons : Undo(u)
    BY <1>2 DEF TimeOut, BreakErasureDeadlock, Deadlocks
  <2>2. UNCHANGED <<remarks, drafts, spent, erased>>
    BY <1>2 DEF TimeOut, BreakErasureDeadlock, Texts, Rolls
  <2> QED
    BY <2>1, <2>2, UndoKeeps
<1>3. CASE \E u \in Persons : ErasureStep(u)
  BY <1>3, PlainStepKeeps, ReadRemarksKeeps, RewriteRemarkKeeps, TurnRemarksKeeps, CommitErasureKeeps
     DEF ErasureStep
<1>4. CASE DraftRemark \/ PostRemark \/ DeleteRemark
  BY <1>4, DraftRemarkKeeps, PostRemarkKeeps, DeleteRemarkKeeps
<1>5. CASE BeginRemoval \/ RemoveMember \/ RecordRemoval \/ UNCHANGED erasureVars
  <2>1. UNCHANGED <<remarks, drafts, spent, erased, erasing>>
    BY <1>5 DEF BeginRemoval, RemoveMember, RecordRemoval, Texts, erasureVars
  <2>2. TextsTyped' /\ Posted' = Posted
    BY <2>1 DEF RedactionInv, TextsTyped, Posted
  <2> QED
    BY <2>1, <2>2, OthersGoOn
<1> QED
  BY <1>1, <1>2, <1>3, <1>4, <1>5 DEF ErasureNext

-----------------------------------------------------------------------------
(* The erasure of an account: the theorem *)

\* Only a commit erases, and the comments it knew of are rewritten or do not show the name.
LEMMA CommitRedacts ==
    ASSUME RedactionInv, NEW u \in Persons \ erased, CommitErasure(u),
           NEW c \in erasing[u].known \cap DOMAIN remarks'
    PROVE  u \notin remarks'[c].names
<1> DEFINE o == erasing[u]
<1>1. /\ Sound(u, o) /\ o.at = "commit" /\ c \in DOMAIN remarks /\ remarks[c] \in RemarkRows
      /\ remarks'[c] = IF c \in DOMAIN o.body THEN [remarks[c] EXCEPT !.names = o.body[c]] ELSE remarks[c]
  BY DEF RedactionInv, TextsTyped, CommitErasure
<1> HIDE DEF o
<1>2. c \in o.known
  BY DEF o
<1>3. CASE c \in DOMAIN o.body
  BY <1>1, <1>3 DEF Sound, RemarkRows
<1>4. CASE c \notin DOMAIN o.body
  BY <1>1, <1>2, <1>4 DEF Sound, Redacted
<1> QED
  BY <1>3, <1>4

(***************************************************************************)
(* For any number of people, comments and rows of a page, whatever is       *)
(* posted, deleted, erased and undone between its statements: an erasure    *)
(* that commits leaves its person's name in no comment that was there when  *)
(* its redaction began.                                                     *)
(***************************************************************************)
THEOREM ErasureRedacts == ErasureSpec => RedactionMissesNone
<1> DEFINE Redacts == \A u \in erased' \ erased :
                         \A c \in erasing[u].known \cap DOMAIN remarks' : u \notin remarks'[c].names
<1>1. RedactionInv /\ [ErasureNext]_erasureVars => [Redacts]_erasureVars
  <2> SUFFICES ASSUME RedactionInv, ErasureNext, NEW u \in erased' \ erased,
                      NEW c \in erasing[u].known \cap DOMAIN remarks'
               PROVE  u \notin remarks'[c].names
    <3>1. SUFFICES ASSUME RedactionInv, ErasureNext PROVE Redacts
      <4> HIDE DEF Redacts
      <4> QED
        BY <3>1
    <3> QED
      BY <3>1
  <2>1. \E v \in Persons : CommitErasure(v)
    <3>1. AskErasure \/ TimeOut \/ BreakErasureDeadlock => erased' = erased
      BY Zenon DEF AskErasure, TimeOut, BreakErasureDeadlock, Rolls
    <3>2. DraftRemark \/ PostRemark \/ DeleteRemark => erased' = erased
      BY DEF DraftRemark, PostRemark, DeleteRemark, Rolls
    <3>3. BeginRemoval \/ RemoveMember \/ RecordRemoval => erased' = erased
      BY DEF BeginRemoval, RemoveMember, RecordRemoval, Rolls
    <3>4. ASSUME NEW v, ErasureStep(v), ~CommitErasure(v) PROVE erased' = erased
      <4>1. ReadHeir(v) \/ PromoteHeir(v) => erased' = erased
        BY DEF ReadHeir, PromoteHeir, Rolls
      <4>2. ReadRemarks(v) \/ RewriteRemark(v) \/ TurnRemarks(v) => erased' = erased
        BY DEF ReadRemarks, RewriteRemark, TurnRemarks, Rolls
      <4>3. ScrubPayloads(v) \/ DropMembership(v) => erased' = erased
        BY DEF ScrubPayloads, DropMembership, Rolls
      <4> QED
        BY <3>4, <4>1, <4>2, <4>3, Zenon DEF ErasureStep
    <3>5. erased' # erased
      OBVIOUS
    <3> QED
      BY <3>1, <3>2, <3>3, <3>4, <3>5, Zenon DEF ErasureNext
  <2>2. u \in Persons \ erased /\ CommitErasure(u)
    <3>1. PICK v \in Persons : CommitErasure(v)
      BY <2>1
    <3>2. erased' = erased \cup {v}
      BY <3>1 DEF CommitErasure
    <3> QED
      BY <3>1, <3>2
  <2> QED
    BY <2>2, CommitRedacts
<1> QED
  BY <1>1, RedactionInit, RedactionKept, PTL DEF ErasureSpec, RedactionMissesNone

-----------------------------------------------------------------------------
(* The due-soon scan: types *)

DueEnds == \A t \in DOMAIN dueDate : dueDate[t] \in 0..LastTick + Window

RemindersBegun == \A r \in reminders : 0 =< r.at

TriesLeft == \A s \in Scanners : scan[s].tries \in 0..Attempts - 1

\* The parts of the types that RemindersInv does not give.
DueRest ==
    /\ DueEnds /\ RemindersBegun /\ TriesLeft
    /\ clock \in 0..LastTick
    /\ assignees \subseteq (DOMAIN dueDate) \X Assignees
    /\ unheard \subseteq Assignees /\ counted \in [Assignees -> Nat]
    /\ faults \in 0..MaxFaults /\ dueEdits \in 0..MaxDueEdits
    /\ IsFiniteSet(reminders)

LEMMA DueRestTypes == ASSUME RemindersInv, DueRest PROVE DueTypeOK
<1>1. LastTick \in Nat /\ clock \in 0..LastTick
  BY DueAssumption DEF DueRest
<1>2. reminders \subseteq [task : DueTasks, user : Assignees, read : BOOLEAN, at : 0..LastTick]
  <2>1. ASSUME NEW r \in reminders
        PROVE  r \in [task : DueTasks, user : Assignees, read : BOOLEAN, at : 0..LastTick]
    <3>1. r \in ReminderRecords /\ r.at =< clock /\ 0 =< r.at
      BY DEF RemindersInv, ScansTyped, DueRest, RemindersBegun
    <3>2. r.at \in 0..LastTick
      BY <1>1, <3>1 DEF ReminderRecords
    <3> QED
      BY <3>1, <3>2 DEF ReminderRecords
  <2> QED
    BY <2>1
<1>3. \A s \in Scanners :
          /\ scan[s].at \in {"idle", "page", "check", "insert", "signal", "retry"}
          /\ scan[s].rows \subseteq DueTasks \X Assignees
          /\ scan[s].told \subseteq Assignees
  BY ScanOf DEF ScanRecords
<1>4. running \subseteq Scanners /\ DOMAIN dueDate \subseteq DueTasks
  BY DEF RemindersInv, ScansTyped
<1> QED
  BY <1>2, <1>3, <1>4 DEF DueRest, DueEnds, TriesLeft, DueTypeOK

LEMMA TriesStep ==
    ASSUME RemindersInv, TriesLeft, NEW s \in Scanners, NEW e, Step(s, e), e.tries \in 0..Attempts - 1
    PROVE  TriesLeft'
  BY DEF RemindersInv, ScansTyped, Step, TriesLeft

LEMMA TriesPage ==
    ASSUME RemindersInv, TriesLeft, NEW s \in Scanners, NEW told \in SUBSET Assignees, TurnPage(s, told)
    PROVE  TriesLeft'
<1>1. scan[s] \in ScanRecords /\ scan[s].tries \in 0..Attempts - 1
  BY ScanOf DEF TriesLeft
<1>2. PICK c : \/ Step(s, [scan[s] EXCEPT !.at = "signal", !.told = told])
               \/ Step(s, [scan[s] EXCEPT !.at = "page", !.told = told, !.cursor = c])
  BY DEF TurnPage
<1>3. /\ [scan[s] EXCEPT !.at = "signal", !.told = told].tries = scan[s].tries
      /\ [scan[s] EXCEPT !.at = "page", !.told = told, !.cursor = c].tries = scan[s].tries
  BY <1>1 DEF ScanRecords
<1> QED
  BY <1>1, <1>2, <1>3, TriesStep

LEMMA TriesFail ==
    ASSUME RemindersInv, TriesLeft, NEW s \in Scanners, FailRun(s) PROVE TriesLeft'
<1>1. scan[s].tries \in 0..Attempts - 1 /\ Attempts \in Nat \ {0} /\ NoScan.tries = 0
  BY DueAssumption DEF TriesLeft, NoScan
<1>2. CASE scan[s].tries + 1 < Attempts
  <2> DEFINE e == [NoScan EXCEPT !.at = "retry", !.tries = scan[s].tries + 1]
  <2>1. e.tries \in 0..Attempts - 1
    BY <1>1, <1>2 DEF NoScan
  <2>2. Step(s, e)
    BY <1>2 DEF FailRun
  <2> HIDE DEF e
  <2> QED
    BY <2>1, <2>2, TriesStep
<1>3. CASE ~(scan[s].tries + 1 < Attempts)
  <2>1. Step(s, NoScan) /\ NoScan.tries \in 0..Attempts - 1
    BY <1>1, <1>3 DEF FailRun
  <2> QED
    BY <2>1, TriesStep
<1> QED
  BY <1>2, <1>3

\* What a scan inserts is not more than the pairs it has read.
LEMMA InsertTyped ==
    ASSUME RemindersInv, DueRest, NEW s \in Scanners
    PROVE  LET all == reminders \cup InsertedRows(s)
           IN  IsFiniteSet(all) /\ \A r \in all : 0 =< r.at
<1>1. scan[s].rows \subseteq DueTasks \X Assignees
  BY ScanOf DEF ScanRecords
<1>2. IsFiniteSet(DueTasks \X Assignees)
  BY DueAssumption, FS_Product
<1> DEFINE P == {p \in scan[s].rows : ~\E r \in reminders : <<r.task, r.user>> = p /\ ~r.read}
           f == [p \in P |-> [task |-> p[1], user |-> p[2], read |-> FALSE, at |-> clock]]
<1>3. IsFiniteSet(P)
  BY <1>1, <1>2, FS_Subset
<1>4. InsertedRows(s) = {f[p] : p \in P} /\ DOMAIN f = P
  BY DEF InsertedRows
<1> HIDE DEF f, P
<1>5. IsFiniteSet(InsertedRows(s))
  BY <1>3, <1>4, ImageCounted
<1>6. \A r \in InsertedRows(s) : r.at = clock
  BY DEF InsertedRows
<1>7. clock \in Nat /\ IsFiniteSet(reminders) /\ \A r \in reminders : 0 =< r.at
  BY DEF RemindersInv, ScansTyped, DueRest, RemindersBegun
<1>8. IsFiniteSet(reminders \cup InsertedRows(s))
  BY <1>5, <1>7, FS_Union
<1> QED
  BY <1>6, <1>7, <1>8

LEMMA ScannerTypes ==
    ASSUME RemindersInv, DueRest, NEW s \in Scanners, ScanStep(s) \/ FaultyStatement(s)
    PROVE  DueRest'
<1>1. /\ scan[s] \in ScanRecords /\ scan[s].tries \in 0..Attempts - 1 /\ Attempts \in Nat \ {0}
      /\ TriesLeft /\ MaxFaults \in Nat /\ NoScan.tries = 0
  BY ScanOf, DueAssumption DEF DueRest, TriesLeft, NoScan
\* A statement that inserts nothing.
<1>2. ASSUME Elsewhere, UNCHANGED <<reminders, faults>>, TriesLeft' PROVE DueRest'
  BY <1>2 DEF Elsewhere, DueRest, DueEnds, RemindersBegun
<1>3. CASE StartScan(s)
  <2> DEFINE e == [NoScan EXCEPT !.at = "page", !.now = clock, !.tries = scan[s].tries]
  <2>1. Step(s, e) /\ e.tries = scan[s].tries
    BY <1>3 DEF StartScan, NoScan
  <2> HIDE DEF e
  <2>2. TriesLeft'
    BY <1>1, <2>1, TriesStep
  <2> QED
    BY <1>2, <1>3, <2>2 DEF StartScan
<1>4. CASE ReadPage(s)
  <2> DEFINE page == PageAt(scan[s].now, scan[s].cursor)
             P == {<<dueDate[t], t>> : t \in page}
             R == {p \in assignees : p[1] \in page}
  <2>1. \/ Step(s, [scan[s] EXCEPT !.at = "signal"])
        \/ Step(s, [scan[s] EXCEPT !.at = "check", !.page = P, !.rows = R])
    BY <1>4 DEF ReadPage
  <2> HIDE DEF P, R
  <2>2. /\ [scan[s] EXCEPT !.at = "signal"].tries = scan[s].tries
        /\ [scan[s] EXCEPT !.at = "check", !.page = P, !.rows = R].tries = scan[s].tries
    BY <1>1 DEF ScanRecords
  <2>3. TriesLeft'
    BY <1>1, <2>1, <2>2, TriesStep
  <2> QED
    BY <1>2, <1>4, <2>3 DEF ReadPage
<1>5. CASE CheckPairs(s)
  <2> DEFINE R == scan[s].rows \ AlreadyNotified(s)
  <2>1. \/ TurnPage(s, scan[s].told)
        \/ Step(s, [scan[s] EXCEPT !.at = "insert", !.rows = R])
    BY <1>5 DEF CheckPairs
  <2> HIDE DEF R
  <2>2. /\ [scan[s] EXCEPT !.at = "insert", !.rows = R].tries = scan[s].tries
        /\ scan[s].told \in SUBSET Assignees
    BY <1>1 DEF ScanRecords
  <2>3. TriesLeft'
    BY <1>1, <2>1, <2>2, TriesStep, TriesPage
  <2> QED
    BY <1>2, <1>5, <2>3 DEF CheckPairs
<1>6. CASE InsertReminders(s)
  <2>1. CASE FailRun(s) /\ UNCHANGED reminders
    <3>1. TriesLeft'
      BY <1>1, <2>1, TriesFail
    <3> QED
      BY <1>2, <1>6, <2>1, <3>1 DEF InsertReminders
  <2>2. CASE ~(FailRun(s) /\ UNCHANGED reminders)
    <3> DEFINE users == {p[2] : p \in scan[s].rows}
    <3>1. /\ reminders' = reminders \cup InsertedRows(s)
          /\ TurnPage(s, scan[s].told) \/ TurnPage(s, scan[s].told \cup users)
          /\ Elsewhere /\ faults' = faults
      BY <1>6, <2>2 DEF InsertReminders
    <3>2. scan[s].told \in SUBSET Assignees /\ scan[s].told \cup users \in SUBSET Assignees
      BY <1>1 DEF ScanRecords
    <3>3. TriesLeft'
      BY <1>1, <3>1, <3>2, TriesPage
    <3>4. IsFiniteSet(reminders') /\ RemindersBegun'
      BY <3>1, InsertTyped DEF RemindersBegun
    <3> QED
      BY <3>1, <3>3, <3>4 DEF Elsewhere, DueRest, DueEnds
  <2> QED
    BY <2>1, <2>2
<1>7. CASE SignalRecipients(s)
  <2>1. TriesLeft'
    <3>1. Step(s, NoScan) /\ NoScan.tries \in 0..Attempts - 1
      BY <1>1, <1>7 DEF SignalRecipients
    <3> QED
      BY <1>1, <3>1, TriesStep
  <2>2. scan[s].told \subseteq Assignees
    BY <1>1 DEF ScanRecords
  <2> QED
    BY <1>7, <2>1, <2>2 DEF SignalRecipients, DueRest, DueEnds, RemindersBegun
<1>8. CASE FaultyStatement(s)
  <2>1. /\ FailRun(s) /\ Elsewhere /\ faults < MaxFaults /\ faults' = faults + 1
        /\ reminders' = reminders \/ reminders' = reminders \cup InsertedRows(s)
    BY <1>8 DEF FaultyStatement
  <2>2. TriesLeft'
    BY <1>1, <2>1, TriesFail
  <2>3. IsFiniteSet(reminders') /\ RemindersBegun'
    BY <2>1, InsertTyped DEF RemindersBegun, DueRest
  <2>4. faults' \in 0..MaxFaults
    BY <1>1, <2>1 DEF DueRest
  <2> QED
    BY <2>1, <2>2, <2>3, <2>4 DEF Elsewhere, DueRest, DueEnds
<1> QED
  BY <1>3, <1>4, <1>5, <1>6, <1>7, <1>8 DEF ScanStep

LEMMA EditTypes == ASSUME RemindersInv, DueRest, EditDue PROVE DueRest'
<1>1. /\ LastTick \in Nat /\ Window \in Nat \ {0} /\ MaxDueEdits \in Nat /\ clock \in 0..LastTick
      /\ DOMAIN dueDate \subseteq DueTasks /\ DueEnds
  BY DueAssumption DEF DueRest, RemindersInv, ScansTyped
<1>2. /\ UNCHANGED <<clock, scan, unheard, counted, faults>>
      /\ dueEdits' \in 0..MaxDueEdits
  BY <1>1 DEF EditDue, DueRest
<1>3. TriesLeft'
  BY <1>2 DEF DueRest, TriesLeft
<1>4. ASSUME reminders' \subseteq reminders PROVE IsFiniteSet(reminders') /\ RemindersBegun'
  BY <1>4, FS_Subset DEF DueRest, RemindersBegun
<1>5. ASSUME NEW t \in DOMAIN dueDate, NEW d \in {0, clock + 1, clock + Window},
             dueDate' = [dueDate EXCEPT ![t] = d], UNCHANGED <<assignees, reminders>>
      PROVE  DueRest'
  <2>1. d \in 0..LastTick + Window \/ (d = clock + 1)
    BY <1>1
  <2>2. d \in 0..LastTick + Window
    BY <1>1, <2>1
  <2>3. DueEnds' /\ DOMAIN dueDate' = DOMAIN dueDate
    BY <1>1, <1>5, <2>2 DEF DueEnds
  <2> QED
    BY <1>2, <1>3, <1>4, <1>5, <2>3 DEF DueRest
<1>6. ASSUME NEW t \in DOMAIN dueDate, NEW u \in Assignees,
             assignees' \in {assignees \cup {<<t, u>>}, assignees \ {<<t, u>>}},
             UNCHANGED <<dueDate, reminders>>
      PROVE  DueRest'
  <2>1. assignees' \subseteq (DOMAIN dueDate') \X Assignees
    BY <1>6 DEF DueRest
  <2>2. DueEnds'
    BY <1>1, <1>6 DEF DueEnds
  <2> QED
    BY <1>2, <1>3, <1>4, <1>6, <2>1, <2>2 DEF DueRest
<1>7. ASSUME NEW t \in DOMAIN dueDate, dueDate' = [o \in DOMAIN dueDate \ {t} |-> dueDate[o]],
             assignees' = {p \in assignees : p[1] # t}, reminders' = {r \in reminders : r.task # t}
      PROVE  DueRest'
  <2>1. assignees' \subseteq (DOMAIN dueDate') \X Assignees
    BY <1>7 DEF DueRest
  <2>2. DueEnds'
    BY <1>1, <1>7 DEF DueEnds
  <2>3. reminders' \subseteq reminders
    BY <1>7
  <2> QED
    BY <1>2, <1>3, <1>4, <2>1, <2>2, <2>3 DEF DueRest
<1> QED
  BY <1>5, <1>6, <1>7 DEF EditDue

LEMMA DueRestNext == ASSUME RemindersInv, DueRest, [DueNext]_dueVars PROVE DueRest'
<1>1. ASSUME NEW s \in Scanners, ScanStep(s) \/ FaultyStatement(s) PROVE DueRest'
  BY <1>1, ScannerTypes
<1>2. CASE ReadReminder
  <2>1. PICK r \in reminders :
          /\ reminders' = (reminders \ {r}) \cup {[r EXCEPT !.read = TRUE]}
          /\ unheard' = unheard \cup {r.user} /\ dueEdits < MaxDueEdits /\ dueEdits' = dueEdits + 1
          /\ UNCHANGED <<clock, dueDate, assignees, running, scan, counted, faults>>
    BY <1>2 DEF ReadReminder
  <2>2. r \in ReminderRecords
    BY DEF RemindersInv, ScansTyped
  <2>3. [r EXCEPT !.read = TRUE].at = r.at /\ r.user \in Assignees
    BY <2>2 DEF ReminderRecords
  <2>4. IsFiniteSet(reminders \ {r})
    BY FS_Subset, reminders \ {r} \subseteq reminders DEF DueRest
  <2>5. IsFiniteSet(reminders')
    BY <2>1, <2>4, FS_Singleton, FS_Union
  <2>6. RemindersBegun'
    BY <2>1, <2>3 DEF DueRest, RemindersBegun
  <2>7. dueEdits' \in 0..MaxDueEdits
    BY <2>1, DueAssumption DEF DueRest
  <2> QED
    BY <2>1, <2>3, <2>5, <2>6, <2>7 DEF DueRest, DueEnds, TriesLeft
<1>3. CASE DueTick
  <2>1. clock' \in 0..LastTick
    BY <1>3, DueAssumption DEF DueTick, DueRest
  <2> QED
    BY <1>3, <2>1 DEF DueTick, DueRest, DueEnds, RemindersBegun, TriesLeft
<1>4. ASSUME NEW u \in Assignees, CountAgain(u) PROVE DueRest'
  <2>1. UnreadOf(u) \in Nat
    <3>1. IsFiniteSet({r \in reminders : r.user = u /\ ~r.read})
      BY FS_Subset, {r \in reminders : r.user = u /\ ~r.read} \subseteq reminders DEF DueRest
    <3> QED
      BY <3>1, FS_CardinalityType DEF UnreadOf
  <2>2. counted' \in [Assignees -> Nat] /\ unheard' \subseteq Assignees
    BY <1>4, <2>1 DEF CountAgain, DueRest
  <2> QED
    BY <1>4, <2>2 DEF CountAgain, DueRest, DueEnds, RemindersBegun, TriesLeft
<1>5. CASE UNCHANGED dueVars
  BY <1>5 DEF dueVars, DueRest, DueEnds, RemindersBegun, TriesLeft
<1> QED
  BY <1>1, <1>2, <1>3, <1>4, <1>5, EditTypes DEF DueNext

LEMMA DueRestInit == ASSUME DueInit PROVE DueRest
<1>1. /\ {LastTick, MaxFaults, MaxDueEdits} \subseteq Nat /\ Window \in Nat \ {0} /\ Attempts \in Nat \ {0}
  BY DueAssumption
<1>2. DueEnds /\ DOMAIN dueDate = DueTasks
  <2>1. DOMAIN dueDate = DueTasks /\ \A t \in DueTasks : dueDate[t] \in {1, Window}
    BY DEF DueInit
  <2> QED
    BY <1>1, <2>1 DEF DueEnds
<1>3. TriesLeft
  BY <1>1 DEF DueInit, TriesLeft, NoScan
<1>4. assignees \subseteq (DOMAIN dueDate) \X Assignees
  BY <1>2 DEF DueInit
<1> QED
  BY <1>1, <1>2, <1>3, <1>4, FS_EmptySet DEF DueInit, DueRest, RemindersBegun

-----------------------------------------------------------------------------
(* The retention of rows: types *)


\* The rows of InsightTypeOK, and the counters.
RowTypes ==
    /\ keepDays \in ActivityDays
    /\ present \subseteq Visitors
    /\ lanes \in [Lanes -> {"COMPLETED", "other", "gone"}]
    /\ history \subseteq HistoryRows /\ pings \subseteq PingRows /\ oddments \subseteq OddRows
CountRanges ==
    /\ hour \in 0..LastHour
    /\ deeds \in 0..MaxDeeds /\ sweepFaults \in 0..MaxSweepFaults
SweepRanges ==
    /\ retention.table \in 0..5 /\ retention.pass \in 0..MaxBatches - 1
    /\ retention.tries \in 0..CleanupAttempts - 1

LEMMA TypesAreParts == InsightTypeOK <=> RowTypes /\ CountRanges /\ SweepRanges
<1>1. Len(Tables) = 5
  BY DEF Tables
<1> QED
  BY <1>1, Zenon DEF InsightTypeOK, RowTypes, CountRanges, SweepRanges

LEMMA DeedsCounted == CountRanges /\ Deed => CountRanges'
<1> SUFFICES ASSUME CountRanges, Deed PROVE CountRanges'
  OBVIOUS
<1>1. hour' = hour /\ sweepFaults' = sweepFaults /\ deeds < MaxDeeds /\ deeds' = deeds + 1
  BY DEF Deed
<1>2. deeds' \in 0..MaxDeeds
  BY <1>1, InsightsAssumption DEF CountRanges
<1> QED
  BY <1>1, <1>2, Zenon DEF CountRanges

LEMMA RowTypesKept == ASSUME RowTypes, CountRanges, [InsightNext]_insightVars PROVE RowTypes'
<1>1. CASE MoveCard
  <2>1. PICK u \in present, l \in Lanes, type \in {"task.created", "task.moved"}, done \in BOOLEAN :
          history' = history \cup {[user |-> u, type |-> type, at |-> hour, lane |-> l,
                                    completed |-> done]}
    BY <1>1, Zenon DEF MoveCard
  <2>2. hour \in Int /\ u \in Visitors
    BY InsightsAssumption DEF RowTypes, CountRanges
  <2>3. [user |-> u, type |-> type, at |-> hour, lane |-> l, completed |-> done] \in HistoryRows
    BY <2>2 DEF HistoryRows
  <2>4. history' \subseteq HistoryRows
    BY <2>1, <2>3 DEF RowTypes
  <2>5. UNCHANGED <<present, lanes, pings, keepDays, oddments>>
    BY <1>1 DEF MoveCard, Deed
  <2> QED
    BY <2>4, <2>5, Zenon DEF RowTypes
<1>2. CASE ChangeLane
  <2>1. PICK l \in Lanes, to \in {"COMPLETED", "other", "gone"} : lanes' = [lanes EXCEPT ![l] = to]
    BY <1>2, Zenon DEF ChangeLane
  <2>2. lanes' \in [Lanes -> {"COMPLETED", "other", "gone"}]
    BY <2>1 DEF RowTypes
  <2>3. UNCHANGED <<present, history, pings, keepDays, oddments>>
    BY <1>2 DEF ChangeLane, Deed
  <2> QED
    BY <2>2, <2>3, Zenon DEF RowTypes
<1>3. CASE LookAtBoard
  <2>1. PICK u \in present, kind \in {"board_view", "dashboard_view"} :
          pings' \in {pings, IF \E p \in pings : p.user = u /\ p.kind = kind /\ p.day = DayStart(hour)
                            THEN pings
                            ELSE pings \cup {[user |-> u, kind |-> kind, day |-> DayStart(hour), at |-> hour]}}
    BY <1>3, Zenon DEF LookAtBoard
  <2>2. u \in Visitors /\ hour \in Int /\ hour \in 0..LastHour
    BY InsightsAssumption DEF RowTypes, CountRanges
  <2>3. DayStart(hour) \in Int
    BY <2>2, DayHolds
  <2>4. [user |-> u, kind |-> kind, day |-> DayStart(hour), at |-> hour] \in PingRows
    BY <2>2, <2>3 DEF PingRows
  <2>5. pings' \subseteq PingRows
    BY <2>1, <2>4 DEF RowTypes
  <2>6. UNCHANGED <<present, history, lanes, keepDays, oddments>>
    BY <1>3 DEF LookAtBoard, Deed
  <2> QED
    BY <2>5, <2>6, Zenon DEF RowTypes
<1>4. CASE LeaveTeam
  <2>1. present' \subseteq present /\ UNCHANGED <<lanes, history, pings, keepDays, oddments>>
    BY <1>4 DEF LeaveTeam, Deed
  <2>2. present' \subseteq Visitors
    BY <2>1 DEF RowTypes
  <2> QED
    BY <2>1, <2>2, Zenon DEF RowTypes
<1>5. CASE PassHour
  BY <1>5, Zenon DEF PassHour, RowTypes
<1>6. CASE BeginSweep
  BY <1>6, Zenon DEF BeginSweep, UsersAlone, RowTypes
<1>7. CASE DeleteBatch
  <2>1. /\ history' \subseteq history /\ pings' \subseteq pings /\ oddments' \subseteq oddments
        /\ UNCHANGED <<keepDays, present, lanes>>
    BY <1>7 DEF DeleteBatch, UsersAlone
  <2>2. history' \subseteq HistoryRows /\ pings' \subseteq PingRows /\ oddments' \subseteq OddRows
    BY <2>1 DEF RowTypes
  <2> QED
    BY <2>1, <2>2, Zenon DEF RowTypes
<1>8. CASE FailSweep
  BY <1>8, Zenon DEF FailSweep, UsersAlone, RowTypes
<1>9. CASE UNCHANGED insightVars
  BY <1>9, Zenon DEF insightVars, RowTypes
<1> QED
  BY <1>1, <1>2, <1>3, <1>4, <1>5, <1>6, <1>7, <1>8, <1>9, Zenon DEF InsightNext

LEMMA CountsKept == ASSUME CountRanges, [InsightNext]_insightVars PROVE CountRanges'
<1>1. CASE Deed
  BY <1>1, DeedsCounted
<1>2. CASE PassHour
  <2>1. hour' \in 0..LastHour
    BY <1>2, InsightsAssumption DEF PassHour, CountRanges
  <2>2. deeds' = deeds /\ sweepFaults' = sweepFaults
    BY <1>2 DEF PassHour
  <2> QED
    BY <2>1, <2>2, Zenon DEF CountRanges
<1>3. CASE FailSweep
  <2>1. sweepFaults < MaxSweepFaults /\ sweepFaults' = sweepFaults + 1
    BY <1>3 DEF FailSweep
  <2>2. sweepFaults' \in 0..MaxSweepFaults
    BY <2>1, InsightsAssumption DEF CountRanges
  <2>3. hour' = hour /\ deeds' = deeds
    BY <1>3 DEF FailSweep, UsersAlone
  <2> QED
    BY <2>2, <2>3, Zenon DEF CountRanges
<1>4. CASE UNCHANGED <<hour, deeds, sweepFaults>>
  BY <1>4, Zenon DEF CountRanges
<1>5. MoveCard \/ ChangeLane \/ LookAtBoard \/ LeaveTeam => Deed
  BY Zenon DEF MoveCard, ChangeLane, LookAtBoard, LeaveTeam
<1>6. BeginSweep \/ DeleteBatch \/ UNCHANGED insightVars => UNCHANGED <<hour, deeds, sweepFaults>>
  BY DEF BeginSweep, DeleteBatch, UsersAlone, insightVars
<1> QED
  BY <1>1, <1>2, <1>3, <1>4, <1>5, <1>6, Zenon DEF InsightNext

LEMMA SweepRangesKept == ASSUME SweepInv, SweepRanges, [InsightNext]_insightVars PROVE SweepRanges'
<1>1. MaxBatches \in Nat \ {0} /\ CleanupAttempts \in Nat \ {0}
  BY InsightsAssumption
<1>2. /\ retention = [table |-> retention.table, pass |-> retention.pass, now |-> retention.now,
                      tries |-> retention.tries]
      /\ Len(Tables) = 5
  BY DEF SweepInv, Sweeps, Tables
<1>3. CASE BeginSweep
  <2>1. retention'.table = 1 /\ retention'.pass = 0 /\ retention'.tries = retention.tries
    BY <1>2, <1>3 DEF BeginSweep
  <2> QED
    BY <1>1, <2>1 DEF SweepRanges
<1>4. CASE DeleteBatch
  <2>1. PICK full \in BOOLEAN : retention' = NextBatch(full)
    BY <1>4 DEF DeleteBatch
  <2>2. CASE full /\ retention.pass + 1 < MaxBatches
    <3>1. retention'.table = retention.table /\ retention'.pass = retention.pass + 1
          /\ retention'.tries = retention.tries
      BY <1>2, <2>1, <2>2 DEF NextBatch
    <3> QED
      BY <1>1, <2>2, <3>1 DEF SweepRanges
  <2>3. CASE ~(full /\ retention.pass + 1 < MaxBatches) /\ retention.table = 5
    <3>1. retention'.table = 0 /\ retention'.pass = 0 /\ retention'.tries = 0
      BY <1>2, <2>1, <2>3 DEF NextBatch, NoSweep
    <3> QED
      BY <1>1, <3>1 DEF SweepRanges
  <2>4. CASE ~(full /\ retention.pass + 1 < MaxBatches) /\ retention.table # 5
    <3>1. retention'.table = retention.table + 1 /\ retention'.pass = 0
          /\ retention'.tries = retention.tries
      BY <1>2, <2>1, <2>4 DEF NextBatch
    <3> QED
      BY <1>1, <2>4, <3>1 DEF SweepRanges
  <2> QED
    BY <2>2, <2>3, <2>4
<1>5. CASE FailSweep
  <2>1. (retention.tries + 1) % CleanupAttempts \in 0..CleanupAttempts - 1
    BY <1>1 DEF SweepRanges
  <2>2. /\ retention'.table = 0 /\ retention'.pass = 0
        /\ retention'.tries = (retention.tries + 1) % CleanupAttempts
    BY <1>5 DEF FailSweep, NoSweep
  <2> QED
    BY <1>1, <2>1, <2>2 DEF SweepRanges
<1>6. CASE retention' = retention
  BY <1>6, Zenon DEF SweepRanges
<1>7. MoveCard \/ ChangeLane \/ LookAtBoard \/ LeaveTeam \/ PassHour \/ UNCHANGED insightVars
      => retention' = retention
  BY DEF MoveCard, ChangeLane, LookAtBoard, LeaveTeam, Deed, PassHour, insightVars
<1> QED
  BY <1>3, <1>4, <1>5, <1>6, <1>7, Zenon DEF InsightNext

LEMMA InsightTypesNext ==
    ASSUME SweepInv, InsightTypeOK, [InsightNext]_insightVars PROVE InsightTypeOK'
<1>1. RowTypes' /\ CountRanges' /\ SweepRanges'
  BY TypesAreParts, RowTypesKept, CountsKept, SweepRangesKept
<1>2. Len(Tables)' = 5
  BY DEF Tables
<1> QED
  BY <1>1, <1>2, Zenon DEF InsightTypeOK, RowTypes, CountRanges, SweepRanges

LEMMA InsightTypesInit == InsightInit => InsightTypeOK
  BY InsightsAssumption DEF InsightInit, InsightTypeOK, NoSweep, Tables

-----------------------------------------------------------------------------
(* The import: types *)

LEMMA TrelloTypesInit == TrelloInit => TrelloTypeOK
  BY TrelloAssumption DEF TrelloInit, TrelloTypeOK, NoRowsYet, AtRestImporter

LEMMA TrelloTypesNext ==
    ASSUME ImportInv, TrelloTypeOK, [TrelloNext]_importVars PROVE TrelloTypeOK'
<1>1. /\ importer = [step |-> importer.step, left |-> importer.left]
      /\ AtRestImporter.step = "none" /\ DOMAIN NoRowsYet = Listed(PlanTables) /\ MaxImports \in Nat
  BY TrelloAssumption DEF ImportInv, AtRestImporter, NoRowsYet
<1>2. CASE Submit
  <2>1. importer'.step = "read"
    BY <1>2 DEF Submit, AtRestImporter
  <2> QED
    BY <1>1, <1>2, <2>1 DEF Submit, TrelloTypeOK
<1>3. CASE ReadAndPlan
  <2>1. importer'.step \in {"write", "refused"}
    BY <1>1, <1>3 DEF ReadAndPlan
  <2> QED
    BY <1>3, <2>1 DEF ReadAndPlan, TrelloTypeOK
<1>4. CASE WriteChunk
  <2>1. importer'.step = "write" /\ DOMAIN staged' = DOMAIN staged
    BY <1>1, <1>4 DEF WriteChunk
  <2> QED
    BY <1>4, <2>1 DEF WriteChunk, TrelloTypeOK
<1>5. CASE CommitImport
  <2>1. importer'.step \in {"answer", "lost"}
    BY <1>1, <1>5 DEF CommitImport
  <2> QED
    BY <1>1, <1>5, <2>1 DEF CommitImport, TrelloTypeOK
<1>6. CASE FailImport
  <2>1. importer'.step = "refused"
    BY <1>1, <1>6 DEF FailImport
  <2> QED
    BY <1>1, <1>6, <2>1 DEF FailImport, TrelloTypeOK
<1>7. CASE ShowReport
  BY <1>1, <1>7 DEF ShowReport, TrelloTypeOK
<1>8. CASE ShowError
  BY <1>1, <1>8 DEF ShowError, TrelloTypeOK
<1>9. CASE CloseForm \/ OpenForm \/ Dismiss
  BY <1>9 DEF CloseForm, OpenForm, Dismiss, TrelloTypeOK
<1>10. CASE UNCHANGED importVars
  BY <1>10 DEF importVars, TrelloTypeOK
<1> QED
  BY <1>2, <1>3, <1>4, <1>5, <1>6, <1>7, <1>8, <1>9, <1>10 DEF TrelloNext

-----------------------------------------------------------------------------
(* Invitations: types *)

\* When the invitations run out.
ExpiryTyped == \A i \in DOMAIN invites : invites[i].expires \in 0..LastInviteTick + Lifetime

JoinedTyped == joined \in [Addresses -> InviteRoles \cup {"NONE"}]

InviteBounds == offersMade \in 0..MaxOffers /\ faultsMade \in 0..MaxInviteFaults

\* What a step adds to the rows, the mails and the trail.
LEMMA InvitationTypesGrow ==
    ASSUME InvitationTypeOK, InvitesInv', DOMAIN invites \subseteq DOMAIN invites', ExpiryTyped',
           inviteClock' \in 0..LastInviteTick, verified' \subseteq Addresses, JoinedTyped', InviteBounds',
           \A m \in mails' \ mails : m.invite \in DOMAIN invites' /\ m.outcome \in Deliveries,
           \A r \in trail' \ trail : r.delivery \in Deliveries \cup {Unseen}
    PROVE  InvitationTypeOK'
<1>1. /\ DOMAIN invites' \subseteq InviteIds /\ DOMAIN offer' = Inviters /\ DOMAIN acceptance' = Addresses
      /\ invites' \in [DOMAIN invites' -> InviteRows]
  BY DEF InvitesInv, InvitesTyped
<1>2. \A i \in DOMAIN invites' : invites'[i] \in InviteRows
  BY <1>1
<1>3. \A i \in DOMAIN invites' : /\ invites'[i].email \in Addresses /\ invites'[i].role \in InviteRoles
                                 /\ invites'[i].status \in Statuses
                                 /\ invites'[i].expires \in 0..LastInviteTick + Lifetime
  BY <1>2 DEF InviteRows, ExpiryTyped
<1>4. \A r \in trail' : r.invite \in DOMAIN invites' /\ r.delivery \in Deliveries \cup {Unseen}
  BY DEF InvitesInv, TrailHonest, InvitationTypeOK
<1>5. \A m \in mails' : m.invite \in DOMAIN invites' /\ m.outcome \in Deliveries
  BY DEF InvitationTypeOK
<1> QED
  BY <1>1, <1>3, <1>4, <1>5 DEF InvitationTypeOK, JoinedTyped, InviteBounds

\* One row has its status or its expiry written.
LEMMA ExpiryWritten ==
    ASSUME InvitesInv, InvitationTypeOK, NEW i \in DOMAIN invites, NEW status,
           \/ invites' = [invites EXCEPT ![i].status = status]
           \/ invites' = [invites EXCEPT ![i].expires = inviteClock + Lifetime]
    PROVE  DOMAIN invites' = DOMAIN invites /\ ExpiryTyped'
<1>1. /\ invites \in [DOMAIN invites -> InviteRows] /\ inviteClock \in 0..LastInviteTick
      /\ Lifetime \in Nat /\ LastInviteTick \in Nat
      /\ \A j \in DOMAIN invites : invites[j].expires \in 0..LastInviteTick + Lifetime
  BY InvitationsAssumption DEF InvitesInv, InvitesTyped, InvitationTypeOK
<1>2. DOMAIN invites' = DOMAIN invites
  BY <1>1
<1>3. ASSUME NEW j \in DOMAIN invites PROVE invites'[j].expires \in 0..LastInviteTick + Lifetime
  <2>1. invites[j] \in InviteRows /\ invites[i] \in InviteRows
    BY <1>1
  <2>2. CASE invites' = [invites EXCEPT ![i].status = status]
    <3>1. invites'[j] = invites[j] \/ invites'[j] = [invites[j] EXCEPT !.status = status]
      BY <2>2, <1>1
    <3> QED
      BY <3>1, <2>1, <1>1 DEF InviteRows
  <2>3. CASE invites' = [invites EXCEPT ![i].expires = inviteClock + Lifetime]
    <3>1. invites'[j] = invites[j] \/ invites'[j] = [invites[j] EXCEPT !.expires = inviteClock + Lifetime]
      BY <2>3, <1>1
    <3> QED
      BY <3>1, <2>1, <1>1 DEF InviteRows
  <2> QED
    BY <2>2, <2>3
<1> QED
  BY <1>2, <1>3 DEF ExpiryTyped

\* A step that writes no row.
LEMMA RowsAsTheyAre ==
    ASSUME InvitationTypeOK, UNCHANGED <<invites, joined>>
    PROVE  DOMAIN invites \subseteq DOMAIN invites' /\ ExpiryTyped' /\ JoinedTyped'
  BY DEF InvitationTypeOK, ExpiryTyped, JoinedTyped

LEMMA InviterTypes ==
    ASSUME InvitesInv, InvitesInv', InvitationTypeOK, NEW a \in Inviters,
           \/ \E email \in Addresses, role \in InviteRoles \cup {"OWNER"} : Invite(a, email, role)
           \/ CancelStale(a) \/ PluginCreate(a) \/ SendInvitationEmail(a)
           \/ CheckRole(a) \/ RecordOffer(a)
           \/ \E i \in InviteIds : Revoke(a, i)
           \/ CancelInvitation(a)
    PROVE  InvitationTypeOK'
<1> USE InvitationTypesGrow
<1>1. /\ MaxOffers \in Nat /\ MaxInviteFaults \in Nat /\ Lifetime \in Nat /\ LastInviteTick \in Nat
      /\ inviteClock \in 0..LastInviteTick /\ verified \subseteq Addresses /\ JoinedTyped /\ InviteBounds
  BY InvitationsAssumption DEF InvitationTypeOK, JoinedTyped, InviteBounds
<1>2. CASE \E email \in Addresses, role \in InviteRoles \cup {"OWNER"} : Invite(a, email, role)
  <2>1. /\ UNCHANGED <<invites, joined, inviteClock, verified, mails, trail, faultsMade>>
        /\ offersMade < MaxOffers /\ offersMade' = offersMade + 1
    BY <1>2, Zenon DEF Invite, RowsAlone, TheRest, Count
  <2>2. InviteBounds'
    BY <1>1, <2>1 DEF InviteBounds
  <2> QED
    BY <1>1, <2>1, <2>2, RowsAsTheyAre
<1>3. CASE CancelStale(a)
  <2>1. /\ UNCHANGED <<joined, inviteClock, verified, mails, trail, offersMade>>
        /\ faultsMade' = faultsMade \/ (faultsMade < MaxInviteFaults /\ faultsMade' = faultsMade + 1)
    BY <1>3, Zenon DEF CancelStale, TheRest
  <2>2. JoinedTyped' /\ InviteBounds'
    BY <1>1, <2>1 DEF JoinedTyped, InviteBounds
  <2>3. CASE invites' = invites
    BY <1>1, <2>1, <2>2, <2>3, RowsAsTheyAre
  <2>4. CASE \E i \in offer[a].stale : invites' = [invites EXCEPT ![i].status = "canceled"]
    <3>1. PICK i \in offer[a].stale : invites' = [invites EXCEPT ![i].status = "canceled"]
      BY <2>4
    <3>2. i \in DOMAIN invites
      BY <1>3, OfferOf DEF CancelStale, OfferHonest
    <3>3. DOMAIN invites' = DOMAIN invites /\ ExpiryTyped'
      BY <3>1, <3>2, ExpiryWritten
    <3> QED
      BY <1>1, <2>1, <2>2, <3>3
  <2> QED
    BY <1>3, <2>3, <2>4 DEF CancelStale
<1>4. CASE PluginCreate(a)
  <2>1. UNCHANGED <<joined, inviteClock, verified, mails, trail, offersMade, faultsMade>>
    BY <1>4 DEF PluginCreate, TheRest
  <2>2. JoinedTyped' /\ InviteBounds'
    BY <1>1, <2>1 DEF JoinedTyped, InviteBounds
  <2>3. CASE invites' = invites
    BY <1>1, <2>1, <2>2, <2>3, RowsAsTheyAre
  <2>4. CASE \E i \in Pending(offer[a].email) : invites' = [invites EXCEPT ![i].expires = inviteClock + Lifetime]
    <3>1. PICK i \in Pending(offer[a].email) : invites' = [invites EXCEPT ![i].expires = inviteClock + Lifetime]
      BY <2>4
    <3>2. i \in DOMAIN invites
      BY PendingAreRows
    <3>3. DOMAIN invites' = DOMAIN invites /\ ExpiryTyped'
      BY <3>1, <3>2, ExpiryWritten
    <3> QED
      BY <1>1, <2>1, <2>2, <3>3
  <2>5. CASE invites' = [j \in DOMAIN invites \cup {NextInvite} |->
                            IF j \in DOMAIN invites THEN invites[j]
                            ELSE [email |-> offer[a].email, role |-> offer[a].role,
                                  status |-> "pending", expires |-> inviteClock + Lifetime]]
    <3>1. DOMAIN invites \subseteq DOMAIN invites'
      BY <2>5
    <3>2. ASSUME NEW j \in DOMAIN invites' PROVE invites'[j].expires \in 0..LastInviteTick + Lifetime
      <4>1. (invites'[j] = invites[j] /\ j \in DOMAIN invites) \/ invites'[j].expires = inviteClock + Lifetime
        BY <2>5, <3>2
      <4> QED
        BY <4>1, <1>1 DEF InvitationTypeOK
    <3> QED
      BY <1>1, <2>1, <2>2, <3>1, <3>2 DEF ExpiryTyped
  <2> QED
    BY <1>4, <2>3, <2>4, <2>5 DEF PluginCreate
<1>5. CASE SendInvitationEmail(a)
  <2>1. /\ UNCHANGED <<invites, joined, inviteClock, verified, trail, offersMade, faultsMade>>
        /\ offer[a].step = "send"
    BY <1>5 DEF SendInvitationEmail, RowsAlone, TheRest
  <2>2. PICK outcome \in Outcomes :
          mails' = mails \cup {[invite |-> offer[a].invite, by |-> a, outcome |-> outcome]}
    BY <1>5 DEF SendInvitationEmail
  <2>3. offer[a].invite \in DOMAIN invites' /\ outcome \in Deliveries
    BY <2>1, <2>2, OfferOf DEF OfferHonest, Outcomes, Deliveries
  <2>4. \A m \in mails' \ mails : m.invite \in DOMAIN invites' /\ m.outcome \in Deliveries
    BY <2>2, <2>3
  <2>5. InviteBounds'
    BY <1>1, <2>1 DEF InviteBounds
  <2> QED
    BY <1>1, <2>1, <2>4, <2>5, RowsAsTheyAre
<1>6. CASE CheckRole(a)
  <2>1. UNCHANGED <<invites, joined, inviteClock, verified, mails, trail, offersMade, faultsMade>>
    BY <1>6 DEF CheckRole, RowsAlone, TheRest
  <2>2. InviteBounds'
    BY <1>1, <2>1 DEF InviteBounds
  <2> QED
    BY <1>1, <2>1, <2>2, RowsAsTheyAre
<1>7. CASE RecordOffer(a)
  <2>1. UNCHANGED <<invites, joined, inviteClock, verified, mails>> /\ InviteBounds'
    BY <1>1, <1>7 DEF RecordOffer, RowsAlone, TheRest, InviteBounds
  <2>2. offer[a].slot \in Deliveries \cup {Unseen}
    <3>1. offer[a] \in OfferRecords
      BY <1>7, OfferOf DEF RecordOffer, OfferSteps
    <3> QED
      BY <3>1 DEF OfferRecords
  <2>3. \A r \in trail' \ trail : r.delivery \in Deliveries \cup {Unseen}
    BY <1>7, <2>2 DEF RecordOffer
  <2> QED
    BY <1>1, <2>1, <2>3, RowsAsTheyAre
<1>8. CASE \E i \in InviteIds : Revoke(a, i)
  <2>1. UNCHANGED <<invites, joined, inviteClock, verified, mails, trail>> /\ InviteBounds'
    BY <1>1, <1>8 DEF Revoke, RowsAlone, TheRest, Count, InviteBounds
  <2> QED
    BY <1>1, <2>1, RowsAsTheyAre
<1>9. CASE CancelInvitation(a)
  <2>1. /\ UNCHANGED <<joined, inviteClock, verified, mails, offersMade, faultsMade>>
        /\ offer[a].invite \in DOMAIN invites
    BY <1>9, OfferOf DEF CancelInvitation, TheRest, OfferHonest
  <2>2. JoinedTyped' /\ InviteBounds'
    BY <1>1, <2>1 DEF JoinedTyped, InviteBounds
  <2>3. \A r \in trail' \ trail : r.delivery = Unseen
    BY <1>9 DEF CancelInvitation
  <2>4. DOMAIN invites \subseteq DOMAIN invites' /\ ExpiryTyped'
    <3>1. CASE invites' = invites
      BY <3>1, <2>1, RowsAsTheyAre
    <3>2. CASE invites' = [invites EXCEPT ![offer[a].invite].status = "canceled"]
      BY <3>2, <2>1, ExpiryWritten
    <3> QED
      BY <3>1, <3>2, <1>9 DEF CancelInvitation
  <2> QED
    BY <1>1, <2>1, <2>2, <2>3, <2>4
<1> QED
  BY <1>2, <1>3, <1>4, <1>5, <1>6, <1>7, <1>8, <1>9

LEMMA InviteeTypes ==
    ASSUME InvitesInv, InvitesInv', InvitationTypeOK, NEW e \in Addresses,
           \/ \E i \in InviteIds : OpenInvitation(e, i)
           \/ PluginAccept(e) \/ RecordAcceptance(e)
    PROVE  InvitationTypeOK'
<1> USE InvitationTypesGrow
<1>1. /\ MaxInviteFaults \in Nat
      /\ inviteClock \in 0..LastInviteTick /\ verified \subseteq Addresses /\ JoinedTyped /\ InviteBounds
  BY InvitationsAssumption DEF InvitationTypeOK, JoinedTyped, InviteBounds
<1>2. CASE \E i \in InviteIds : OpenInvitation(e, i)
  <2>1. UNCHANGED <<invites, joined, inviteClock, verified, mails, trail, offersMade, faultsMade>>
    BY <1>2 DEF OpenInvitation, RowsAlone
  <2>2. InviteBounds'
    BY <1>1, <2>1 DEF InviteBounds
  <2> QED
    BY <1>1, <2>1, <2>2, RowsAsTheyAre
<1>3. CASE PluginAccept(e)
  <2>1. /\ UNCHANGED <<inviteClock, verified, mails, trail, offersMade, faultsMade>>
        /\ acceptance[e].invite \in DOMAIN invites
    BY <1>3 DEF PluginAccept, InvitesInv
  <2>2. InviteBounds'
    BY <1>1, <2>1 DEF InviteBounds
  <2>3. CASE UNCHANGED <<invites, joined>>
    BY <1>1, <2>1, <2>2, <2>3, RowsAsTheyAre
  <2>4. CASE ~UNCHANGED <<invites, joined>>
    <3> DEFINE i == acceptance[e].invite
    <3>1. /\ invites' = [invites EXCEPT ![i].status = "accepted"]
          /\ joined' = [joined EXCEPT ![e] = IF @ = "NONE" THEN invites[i].role ELSE @]
      BY <1>3, <2>4 DEF PluginAccept, RowsAlone
    <3>2. DOMAIN invites' = DOMAIN invites /\ ExpiryTyped'
      BY <2>1, <3>1, ExpiryWritten
    <3>3. invites[i].role \in InviteRoles
      BY <2>1 DEF InvitationTypeOK
    <3>4. JoinedTyped'
      BY <1>1, <3>1, <3>3 DEF JoinedTyped
    <3> QED
      BY <1>1, <2>1, <2>2, <3>2, <3>4
  <2> QED
    BY <2>3, <2>4
<1>4. CASE RecordAcceptance(e)
  <2>1. UNCHANGED <<invites, joined, inviteClock, verified, mails>> /\ InviteBounds'
    BY <1>1, <1>4 DEF RecordAcceptance, RowsAlone, InviteBounds
  <2>2. \A r \in trail' \ trail : r.delivery = Unseen
    BY <1>4 DEF RecordAcceptance
  <2> QED
    BY <1>1, <2>1, <2>2, RowsAsTheyAre
<1> QED
  BY <1>2, <1>3, <1>4

LEMMA InvitationTypesNext ==
    ASSUME InvitesInv, InvitationTypeOK, [InvitationNext]_inviteVars PROVE InvitationTypeOK'
<1>1. InvitesInv'
  BY InvitesNext
<1>2. ASSUME UNCHANGED <<invites, joined, mails, trail, offer, acceptance, offersMade, faultsMade>>,
             inviteClock' \in 0..LastInviteTick, verified' \subseteq Addresses
      PROVE  InvitationTypeOK'
  BY <1>2 DEF InvitationTypeOK
<1>3. LastInviteTick \in Nat /\ inviteClock \in 0..LastInviteTick /\ verified \subseteq Addresses
  BY InvitationsAssumption DEF InvitationTypeOK
<1>4. CASE ConfirmAddress
  BY <1>2, <1>3, <1>4 DEF ConfirmAddress, RowsAlone
<1>5. CASE InviteTick
  BY <1>2, <1>3, <1>5 DEF InviteTick, RowsAlone
<1>6. CASE UNCHANGED inviteVars
  BY <1>2, <1>3, <1>6 DEF inviteVars
<1> QED
  BY <1>1, <1>4, <1>5, <1>6, InviterTypes, InviteeTypes DEF InvitationNext

LEMMA InvitationTypesInit == InvitationInit => InvitationTypeOK
  BY InvitationsAssumption DEF InvitationInit, InvitationTypeOK

-----------------------------------------------------------------------------
(* The erasure of an account: types *)

\* An erasure that has promoted its heir and holds that row until it ends.
Holding(u) == erasing[u].at \in {"page", "rewrite", "scrub", "leave", "commit"}

\* Of what an erasure is made, and the rows it has written are still there.
EraserTyped(u, e) ==
    /\ e.heir \in Persons \cup {Nobody}
    /\ DOMAIN e.body \subseteq DOMAIN remarks
    /\ e.at = "promote" => e.heir # u
    /\ e.at \in {"page", "rewrite", "scrub", "leave", "commit"} /\ e.heir # Nobody => e.heir \in team \ {u}

\* An heir whose row is held does not leave: no erasure of its own gets past its membership.
HeirsHeld ==
    \A u, v \in Persons : Holding(u) /\ erasing[u].heir = v /\ v # Nobody => erasing[v].at # "commit"

RemovalTyped ==
    /\ removal = [at |-> removal.at, who |-> removal.who]
    /\ removal.at # "rest" => removal.who \in Persons

RollsTyped ==
    /\ erased \subseteq Persons /\ team \subseteq Persons \ erased
    /\ owners \cap Persons \subseteq team
    /\ serial \in Nat /\ payloads \subseteq (1..serial) \X Persons
    /\ RemovalTyped

ErasureRest ==
    /\ RollsTyped
    /\ \A u \in Persons : EraserTyped(u, erasing[u])
    /\ HeirsHeld

LEMMA ErasureRestTypes == ASSUME RedactionInv, ErasureRest PROVE ErasureTypeOK
<1>1. \A u \in Persons : /\ erasing[u].at \in ErasingSteps
                         /\ erasing[u].todo \subseteq DOMAIN erasing[u].page
                         /\ DOMAIN erasing[u].body \subseteq DOMAIN remarks
  BY DEF RedactionInv, Sound, ErasingShape, ErasureRest, EraserTyped
<1>2. /\ \A c \in DOMAIN remarks : remarks[c].names \subseteq remarks[c].ids
      /\ DOMAIN remarks \cap {d.id : d \in drafts} = {}
      /\ DOMAIN remarks \cup {d.id : d \in drafts} \subseteq spent
  BY DEF RedactionInv, TextsTyped, Posted
<1> QED
  BY <1>1, <1>2 DEF ErasureRest, RollsTyped, ErasureTypeOK, ErasingSteps

LEMMA EraserOf ==
    ASSUME RedactionInv, NEW u \in Persons
    PROVE  LET o == erasing[u]
           IN  o = [at |-> o.at, heir |-> o.heir, cursor |-> o.cursor, page |-> o.page, todo |-> o.todo,
                    known |-> o.known, body |-> o.body, scrubbed |-> o.scrubbed]
  BY DEF RedactionInv, Sound, ErasingShape

\* A statement of one erasure that leaves the rows of the others alone.
LEMMA EraserStepTypes ==
    ASSUME RedactionInv, ErasureRest, NEW u \in Persons, NEW e, Proceed(u, e), EraserTyped(u, e),
           UNCHANGED <<erased, team, owners, removal, payloads, serial, remarks>>,
           e.at = "commit" /\ u # Nobody => \A v \in Persons \ {u} : Holding(v) => erasing[v].heir # u,
           e.at \in {"page", "rewrite", "scrub", "leave", "commit"} /\ e.heir # Nobody =>
               erasing[e.heir].at # "commit"
    PROVE  ErasureRest'
<1>1. /\ erasing'[u] = e /\ \A v \in Persons \ {u} : erasing'[v] = erasing[v]
  BY DEF RedactionInv, Proceed
<1>2. RollsTyped'
  BY DEF ErasureRest, RollsTyped, RemovalTyped
<1>3. ASSUME NEW v \in Persons PROVE EraserTyped(v, erasing[v])'
  BY <1>1 DEF ErasureRest, EraserTyped
<1>4. ASSUME NEW v \in Persons, NEW w \in Persons, Holding(v)', erasing'[v].heir = w, w # Nobody
      PROVE  erasing'[w].at # "commit"
  <2>1. CASE v = u /\ w = u
    BY <1>1, <1>4, <2>1 DEF EraserTyped, Holding
  <2>2. CASE v = u /\ w # u
    BY <1>1, <1>4, <2>2 DEF Holding
  <2>3. CASE v # u /\ w = u
    BY <1>1, <1>4, <2>3 DEF Holding
  <2>4. CASE v # u /\ w # u
    BY <1>1, <1>4, <2>4 DEF Holding, ErasureRest, HeirsHeld
  <2> QED
    BY <2>1, <2>2, <2>3, <2>4
<1> QED
  BY <1>2, <1>3, <1>4 DEF ErasureRest, HeirsHeld

LEMMA NotErasingTyped ==
    /\ \A u : EraserTyped(u, NotErasing)
    /\ NotErasing.at = "rest"
  BY DEF EraserTyped, NotErasing, NoRemarks

LEMMA UndoTypes ==
    ASSUME RedactionInv, ErasureRest, NEW u \in Persons, Undo(u), UNCHANGED <<Texts, Rolls>>
    PROVE  ErasureRest'
<1>1. Proceed(u, NotErasing) /\ UNCHANGED <<erased, team, owners, removal, payloads, serial, remarks>>
  BY DEF Undo, Texts, Rolls
<1> QED
  BY <1>1, NotErasingTyped, EraserStepTypes

LEMMA AskTypes == ASSUME RedactionInv, ErasureRest, AskErasure PROVE ErasureRest'
<1>1. PICK u \in Persons, h \in (Persons \cup {Nobody}) :
         Proceed(u, [NotErasing EXCEPT !.at = IF h = Nobody THEN "page" ELSE "heir", !.heir = h])
  BY DEF AskErasure
<1>2. UNCHANGED <<erased, team, owners, removal, payloads, serial, remarks>>
  BY DEF AskErasure, Texts, Rolls
<1> DEFINE e == [NotErasing EXCEPT !.at = IF h = Nobody THEN "page" ELSE "heir", !.heir = h]
<1>3. /\ e.heir = h /\ e.body = NoRemarks /\ (h = Nobody => e.at = "page") /\ (h # Nobody => e.at = "heir")
      /\ DOMAIN NoRemarks = {}
  BY DEF NotErasing, NoRemarks
<1>4. Proceed(u, e)
  BY <1>1
<1> HIDE DEF e
<1>5. EraserTyped(u, e)
  BY <1>3 DEF EraserTyped
<1> QED
  BY <1>2, <1>3, <1>4, <1>5, EraserStepTypes

\* A statement between the promotion of the heir and the end.
LEMMA HolderGoesOn ==
    ASSUME RedactionInv, ErasureRest, NEW u \in Persons, NEW e, Proceed(u, e), Holding(u),
           e.at \in {"page", "rewrite", "scrub", "leave"}, e.heir = erasing[u].heir,
           DOMAIN e.body \subseteq DOMAIN remarks,
           UNCHANGED <<Texts, Rolls>>
    PROVE  ErasureRest'
<1>1. EraserTyped(u, e)
  BY DEF ErasureRest, EraserTyped, Holding
<1>2. e.heir # Nobody => erasing[e.heir].at # "commit"
  <2>1. e.heir # Nobody => e.heir \in Persons
    BY <1>1 DEF EraserTyped
  <2> QED
    BY <2>1 DEF ErasureRest, HeirsHeld
<1>3. UNCHANGED <<erased, team, owners, removal, payloads, serial, remarks>>
  BY DEF Texts, Rolls
<1> QED
  BY <1>1, <1>2, <1>3, EraserStepTypes

LEMMA HeirTypes ==
    ASSUME RedactionInv, ErasureRest, NEW u \in Persons, ReadHeir(u) \/ PromoteHeir(u)
    PROVE  ErasureRest'
<1> DEFINE o == erasing[u]
<1>1. UNCHANGED <<Texts, Rolls>> /\ UNCHANGED <<erased, team, owners, removal, payloads, serial, remarks>>
  BY DEF ReadHeir, PromoteHeir, Texts, Rolls
<1>2. o = [at |-> o.at, heir |-> o.heir, cursor |-> o.cursor, page |-> o.page, todo |-> o.todo,
           known |-> o.known, body |-> o.body, scrubbed |-> o.scrubbed]
  BY EraserOf
<1>3. EraserTyped(u, o) /\ team \subseteq Persons
  BY DEF ErasureRest, RollsTyped
<1>4. CASE Undo(u)
  BY <1>1, <1>4, UndoTypes
<1>5. CASE ReadHeir(u) /\ ~Undo(u)
  <2> DEFINE e == [o EXCEPT !.at = "promote"]
  <2>1. Proceed(u, e) /\ o.heir \in team \ {u}
    BY <1>5 DEF ReadHeir
  <2>2. e.at = "promote" /\ e.heir = o.heir /\ e.body = o.body
    BY <1>2
  <2> HIDE DEF e
  <2>3. EraserTyped(u, e)
    BY <1>3, <2>1, <2>2 DEF EraserTyped
  <2> QED
    BY <1>1, <2>1, <2>2, <2>3, EraserStepTypes
<1>6. CASE PromoteHeir(u) /\ ~Undo(u)
  <2> DEFINE e == [o EXCEPT !.at = "page"]
  <2>1. Proceed(u, e) /\ o.heir \in team /\ o.at = "promote" /\ CanRun(u)
    BY <1>6 DEF PromoteHeir
  <2>2. e.at = "page" /\ e.heir = o.heir /\ e.body = o.body
    BY <1>2
  <2> HIDE DEF e
  <2>3. o.heir # u
    BY <1>3, <2>1 DEF EraserTyped
  <2>4. EraserTyped(u, e)
    BY <1>3, <2>1, <2>2, <2>3 DEF EraserTyped
  <2>5. erasing[o.heir].at # "commit"
    BY <1>3, <2>1, <2>3 DEF CanRun, WaitsFor, HeldRows, OwnRow
  <2> QED
    BY <1>1, <2>1, <2>2, <2>4, <2>5, EraserStepTypes
<1> QED
  BY <1>4, <1>5, <1>6

LEMMA TextStepTypes ==
    ASSUME RedactionInv, ErasureRest, NEW u \in Persons,
           ReadRemarks(u) \/ RewriteRemark(u) \/ TurnRemarks(u) \/ ScrubPayloads(u)
    PROVE  ErasureRest'
<1> DEFINE o == erasing[u]
<1>1. UNCHANGED <<Texts, Rolls>> /\ Holding(u)
  BY DEF ReadRemarks, RewriteRemark, TurnRemarks, ScrubPayloads, Holding, Rewriting
<1>2. o = [at |-> o.at, heir |-> o.heir, cursor |-> o.cursor, page |-> o.page, todo |-> o.todo,
           known |-> o.known, body |-> o.body, scrubbed |-> o.scrubbed]
  BY EraserOf
<1>3. EraserTyped(u, o) /\ DOMAIN o.body \subseteq DOMAIN remarks
  BY DEF ErasureRest, EraserTyped
<1> HIDE DEF o
\* The statement keeps the heir, and adds to the body at most a comment that is there.
<1>4. ASSUME NEW e, Proceed(u, e), e.at \in {"page", "rewrite", "scrub", "leave"}, e.heir = o.heir,
             e.body = o.body
      PROVE  ErasureRest'
  BY <1>1, <1>3, <1>4, HolderGoesOn DEF o
<1>5. CASE ReadRemarks(u)
  <2> DEFINE P == {c \in Carrying(u) : Cardinality({d \in Carrying(u) : d =< c}) =< RedactionPage}
             page == [c \in P |-> remarks[c]]
             at == IF P = {} THEN "scrub" ELSE "rewrite"
             all == DOMAIN remarks
             k == IF o.cursor = 0 THEN [o EXCEPT !.known = all] ELSE o
             e == [k EXCEPT !.at = at, !.page = page, !.todo = P]
  <2>1. Proceed(u, e)
    BY <1>5 DEF ReadRemarks, o
  <2>2. at \in {"scrub", "rewrite"}
    OBVIOUS
  <2> HIDE DEF at, page, P, all
  <2>3. k.heir = o.heir /\ k.body = o.body /\ k = [x \in DOMAIN k |-> k[x]]
        /\ DOMAIN k = {"at", "heir", "cursor", "page", "todo", "known", "body", "scrubbed"}
    BY <1>2
  <2> HIDE DEF k
  <2>4. e.at = at /\ e.heir = o.heir /\ e.body = o.body
    BY <2>3
  <2> HIDE DEF e
  <2> QED
    BY <1>4, <2>1, <2>2, <2>4
<1>6. CASE RewriteRemark(u)
  <2> DEFINE c == NextRemark(u)
             todo == o.todo \ {c}
             e == [o EXCEPT !.todo = todo]
             body == [d \in DOMAIN e.body \cup {c} |-> IF d = c THEN e.page[c].names \ {u} ELSE e.body[d]]
             f == [e EXCEPT !.body = body]
  <2>1. /\ o.at = "rewrite"
        /\ Undo(u) \/ Proceed(u, e) \/ (c \in DOMAIN remarks /\ Proceed(u, f))
    BY <1>6 DEF RewriteRemark, Rewriting, o
  <2>2. DOMAIN body = DOMAIN e.body \cup {c}
    OBVIOUS
  <2> HIDE DEF body, todo, c
  <2>3. e = [at |-> o.at, heir |-> o.heir, cursor |-> o.cursor, page |-> o.page, todo |-> todo,
             known |-> o.known, body |-> o.body, scrubbed |-> o.scrubbed]
    BY <1>2
  <2> HIDE DEF e
  <2>4. f.at = o.at /\ f.heir = o.heir /\ f.body = body /\ e.body = o.body /\ e.at = o.at /\ e.heir = o.heir
    BY <2>3
  <2> HIDE DEF f
  <2>5. CASE Proceed(u, e)
    BY <1>4, <2>1, <2>4, <2>5
  <2>6. CASE c \in DOMAIN remarks /\ Proceed(u, f)
    BY <1>1, <1>3, <2>1, <2>2, <2>4, <2>6, HolderGoesOn DEF o
  <2> QED
    BY <1>1, <2>1, <2>5, <2>6, UndoTypes
<1>7. CASE TurnRemarks(u)
  <2> DEFINE cursor == CHOOSE c \in DOMAIN o.page : \A d \in DOMAIN o.page : d =< c
             e == [o EXCEPT !.at = "page", !.page = NoRemarks, !.cursor = cursor]
             f == [o EXCEPT !.at = "scrub", !.page = NoRemarks]
  <2>1. Proceed(u, e) \/ Proceed(u, f)
    BY <1>7 DEF TurnRemarks, o
  <2> HIDE DEF cursor
  <2>2. e.at = "page" /\ e.heir = o.heir /\ e.body = o.body
    BY <1>2
  <2>3. f.at = "scrub" /\ f.heir = o.heir /\ f.body = o.body
    BY <1>2
  <2> HIDE DEF e, f
  <2> QED
    BY <1>4, <2>1, <2>2, <2>3
<1>8. CASE ScrubPayloads(u)
  <2> DEFINE S == {p \in payloads : p[2] = u}
             e == [o EXCEPT !.at = "leave", !.scrubbed = S]
  <2>1. Proceed(u, e)
    BY <1>8 DEF ScrubPayloads, o
  <2> HIDE DEF S
  <2>2. e.at = "leave" /\ e.heir = o.heir /\ e.body = o.body
    BY <1>2
  <2> HIDE DEF e
  <2> QED
    BY <1>4, <2>1, <2>2
<1> QED
  BY <1>5, <1>6, <1>7, <1>8

LEMMA DropTypes ==
    ASSUME RedactionInv, ErasureRest, NEW u \in Persons, DropMembership(u) PROVE ErasureRest'
<1> DEFINE o == erasing[u]
           e == [o EXCEPT !.at = "commit"]
<1>1. /\ Proceed(u, e) /\ o.at = "leave" /\ CanRun(u)
      /\ UNCHANGED <<erased, team, owners, removal, payloads, serial, remarks>>
  BY DEF DropMembership, Texts, Rolls
<1>2. e.at = "commit" /\ e.heir = o.heir /\ e.body = o.body
  <2>1. o = [at |-> o.at, heir |-> o.heir, cursor |-> o.cursor, page |-> o.page, todo |-> o.todo,
             known |-> o.known, body |-> o.body, scrubbed |-> o.scrubbed]
    BY EraserOf
  <2> QED
    BY <2>1
<1> HIDE DEF e
<1>3. EraserTyped(u, o) /\ Holding(u)
  BY <1>1 DEF ErasureRest, Holding
<1>4. EraserTyped(u, e)
  BY <1>1, <1>2, <1>3 DEF EraserTyped
<1>5. ASSUME NEW v \in Persons \ {u}, Holding(v), u # Nobody PROVE erasing[v].heir # u
  BY <1>1, <1>5 DEF CanRun, WaitsFor, HeldRows, Holding
<1>6. o.heir # Nobody => erasing[o.heir].at # "commit"
  <2>1. o.heir # Nobody => o.heir \in Persons
    BY <1>3 DEF EraserTyped
  <2> QED
    BY <1>3, <2>1 DEF ErasureRest, HeirsHeld
<1> QED
  BY <1>1, <1>2, <1>4, <1>5, <1>6, EraserStepTypes

LEMMA CommitTypes ==
    ASSUME RedactionInv, ErasureRest, NEW u \in Persons, CommitErasure(u) PROVE ErasureRest'
<1> DEFINE o == erasing[u]
           heirs == {o.heir} \ {Nobody}
<1>1. /\ o.at = "commit" /\ Proceed(u, NotErasing) /\ removal' = removal
      /\ DOMAIN remarks' = DOMAIN remarks
      /\ serial' = serial + Cardinality(heirs)
      /\ payloads' = (payloads \ o.scrubbed) \cup ({serial'} \X heirs)
      /\ owners' = (owners \ {u}) \cup heirs
      /\ team' = team \ {u} /\ erased' = erased \cup {u}
  BY DEF CommitErasure
<1>2. /\ erasing'[u] = NotErasing /\ \A v \in Persons \ {u} : erasing'[v] = erasing[v]
  BY <1>1 DEF RedactionInv, Proceed
<1>3. EraserTyped(u, o) /\ RollsTyped
  BY DEF ErasureRest
<1>4. heirs \subseteq team \ {u} /\ heirs \subseteq Persons
  BY <1>1, <1>3 DEF EraserTyped, RollsTyped
<1>5. Cardinality(heirs) \in Nat /\ (heirs # {} => Cardinality(heirs) = 1)
  <2>1. heirs = {} \/ heirs = {o.heir}
    OBVIOUS
  <2> HIDE DEF heirs
  <2>2. CASE heirs = {}
    BY <2>2, FS_EmptySet
  <2>3. CASE heirs = {o.heir}
    <3>1. Cardinality({o.heir}) = 1
      BY FS_Singleton
    <3> QED
      BY <2>3, <3>1
  <2> QED
    BY <2>1, <2>2, <2>3
<1> HIDE DEF heirs, o
<1>6. serial' \in Nat /\ payloads' \subseteq (1..serial') \X Persons
  <2>1. serial \in Nat /\ payloads \subseteq (1..serial) \X Persons
    BY <1>3 DEF RollsTyped
  <2>2. serial' \in Nat /\ serial =< serial' /\ (heirs # {} => serial' \in 1..serial')
    BY <1>1, <1>5, <2>1
  <2>3. 1..serial \subseteq 1..serial'
    BY <2>1, <2>2
  <2>4. payloads \subseteq (1..serial') \X Persons
    BY <2>1, <2>3
  <2>5. {serial'} \X heirs \subseteq (1..serial') \X Persons
    BY <1>4, <2>2
  <2> QED
    BY <1>1, <2>2, <2>4, <2>5
<1>7. RollsTyped'
  BY <1>1, <1>3, <1>4, <1>6 DEF RollsTyped, RemovalTyped
\* The heirs of the others stay: nobody holds the row of one who commits.
<1>8. ASSUME NEW v \in Persons PROVE EraserTyped(v, erasing[v])'
  <2>1. CASE v = u
    BY <1>2, <2>1, NotErasingTyped DEF EraserTyped, NotErasing, NoRemarks
  <2>2. CASE v # u
    <3>1. EraserTyped(v, erasing[v])
      BY DEF ErasureRest
    <3>2. Holding(v) /\ erasing[v].heir # Nobody => erasing[v].heir # u
      BY <1>1 DEF o, ErasureRest, HeirsHeld
    <3> QED
      BY <1>1, <1>2, <2>2, <3>1, <3>2 DEF EraserTyped, Holding
  <2> QED
    BY <2>1, <2>2
<1>9. HeirsHeld'
  BY <1>2, NotErasingTyped DEF ErasureRest, HeirsHeld, Holding
<1> QED
  BY <1>7, <1>8, <1>9 DEF ErasureRest

\* What the others do to the comments, the members and the activity.
LEMMA OthersTypes ==
    ASSUME RedactionInv, ErasureRest, erasing' = erasing, RollsTyped',
           \A u \in Persons : DOMAIN erasing[u].body \cap DOMAIN remarks \subseteq DOMAIN remarks',
           \/ team' = team
           \/ \A u \in Persons : Holding(u) /\ erasing[u].heir # Nobody => erasing[u].heir \in team'
    PROVE  ErasureRest'
<1>1. ASSUME NEW u \in Persons PROVE EraserTyped(u, erasing[u])'
  BY DEF ErasureRest, EraserTyped, Holding
<1> QED
  BY <1>1 DEF ErasureRest, HeirsHeld, Holding

LEMMA RemarkTypes ==
    ASSUME RedactionInv, ErasureRest, DraftRemark \/ PostRemark \/ DeleteRemark PROVE ErasureRest'
<1>1. erasing' = erasing /\ UNCHANGED <<erased, team, owners, removal, payloads, serial>>
  BY DEF DraftRemark, PostRemark, DeleteRemark, Rolls
<1>2. RollsTyped'
  BY <1>1 DEF ErasureRest, RollsTyped, RemovalTyped
<1>3. CASE DraftRemark
  BY <1>1, <1>2, <1>3, OthersTypes DEF DraftRemark
<1>4. CASE PostRemark
  <2>1. DOMAIN remarks \subseteq DOMAIN remarks'
    BY <1>4 DEF PostRemark
  <2> QED
    BY <1>1, <1>2, <2>1, OthersTypes
<1>5. CASE DeleteRemark
  <2>1. PICK c \in DOMAIN remarks :
          /\ \A u \in Persons : c \notin DOMAIN erasing[u].body
          /\ DOMAIN remarks' = DOMAIN remarks \ {c}
    BY <1>5 DEF DeleteRemark
  <2> QED
    BY <1>1, <1>2, <2>1, OthersTypes
<1> QED
  BY <1>3, <1>4, <1>5

LEMMA RemovalTypes ==
    ASSUME RedactionInv, ErasureRest, BeginRemoval \/ RemoveMember \/ RecordRemoval PROVE ErasureRest'
<1>1. erasing' = erasing /\ remarks' = remarks /\ erased' = erased
  BY DEF BeginRemoval, RemoveMember, RecordRemoval, Texts
<1>2. RollsTyped
  BY DEF ErasureRest
<1>3. CASE BeginRemoval
  <2>1. PICK u \in team : removal' = [at |-> "write", who |-> u]
    BY <1>3 DEF BeginRemoval
  <2>2. UNCHANGED <<team, owners, payloads, serial>>
    BY <1>3 DEF BeginRemoval, Texts
  <2>3. RollsTyped'
    BY <1>1, <1>2, <2>1, <2>2 DEF RollsTyped, RemovalTyped
  <2> QED
    BY <1>1, <2>2, <2>3, OthersTypes
<1>4. CASE RemoveMember
  <2>1. /\ removal.at = "write" /\ \A v \in Persons : removal.who \notin HeldRows(v)
        /\ removal' = [removal EXCEPT !.at = "record"] \/ removal' = NoRemoval
        /\ team' = team \ {removal.who} /\ owners' = owners \ {removal.who}
        /\ UNCHANGED <<payloads, serial>>
    BY <1>4 DEF RemoveMember, Texts
  <2>2. RemovalTyped'
    <3>1. removal = [at |-> removal.at, who |-> removal.who] /\ removal.who \in Persons
      BY <1>2, <2>1 DEF RollsTyped, RemovalTyped
    <3>2. CASE removal' = NoRemoval
      BY <3>2 DEF RemovalTyped, NoRemoval
    <3>3. CASE removal' = [removal EXCEPT !.at = "record"]
      BY <3>1, <3>3 DEF RemovalTyped
    <3> QED
      BY <2>1, <3>2, <3>3
  <2>3. RollsTyped'
    BY <1>1, <1>2, <2>1, <2>2 DEF RollsTyped
  <2>4. ASSUME NEW u \in Persons, Holding(u), erasing[u].heir # Nobody PROVE erasing[u].heir \in team'
    BY <2>1, <2>4 DEF HeldRows, Holding, ErasureRest, EraserTyped
  <2> QED
    BY <1>1, <2>3, <2>4, OthersTypes
<1>5. CASE RecordRemoval
  <2>1. /\ removal.at = "record" /\ serial' = serial + 1 /\ removal' = NoRemoval
        /\ payloads' = payloads \cup {<<serial', removal.who>>}
        /\ UNCHANGED <<team, owners>>
    BY <1>5 DEF RecordRemoval
  <2>2. serial \in Nat /\ removal.who \in Persons /\ payloads \subseteq (1..serial) \X Persons
    BY <1>2, <2>1 DEF RollsTyped, RemovalTyped
  <2>3. serial' \in Nat /\ serial' \in 1..serial' /\ 1..serial \subseteq 1..serial'
    BY <2>1, <2>2
  <2>4. payloads' \subseteq (1..serial') \X Persons
    BY <2>1, <2>2, <2>3
  <2>5. RemovalTyped'
    BY <2>1 DEF RemovalTyped, NoRemoval
  <2>6. RollsTyped'
    BY <1>1, <1>2, <2>1, <2>3, <2>4, <2>5 DEF RollsTyped
  <2> QED
    BY <1>1, <2>1, <2>6, OthersTypes
<1> QED
  BY <1>3, <1>4, <1>5

LEMMA ErasureRestNext == ASSUME RedactionInv, ErasureRest, [ErasureNext]_erasureVars PROVE ErasureRest'
<1>1. CASE AskErasure
  BY <1>1, AskTypes
<1>2. CASE TimeOut \/ BreakErasureDeadlock
  <2>1. (\E u \in Persons : Undo(u)) /\ UNCHANGED <<Texts, Rolls>>
    BY <1>2 DEF TimeOut, BreakErasureDeadlock, Deadlocks
  <2> QED
    BY <2>1, UndoTypes
<1>3. CASE \E u \in Persons : ErasureStep(u)
  BY <1>3, HeirTypes, TextStepTypes, DropTypes, CommitTypes DEF ErasureStep
<1>4. CASE DraftRemark \/ PostRemark \/ DeleteRemark
  BY <1>4, RemarkTypes
<1>5. CASE BeginRemoval \/ RemoveMember \/ RecordRemoval
  BY <1>5, RemovalTypes
<1>6. CASE UNCHANGED erasureVars
  <2>1. RollsTyped' /\ erasing' = erasing /\ UNCHANGED <<team, remarks>>
    BY <1>6 DEF erasureVars, ErasureRest, RollsTyped, RemovalTyped
  <2> QED
    BY <2>1, OthersTypes
<1> QED
  BY <1>1, <1>2, <1>3, <1>4, <1>5, <1>6 DEF ErasureNext

LEMMA ErasureRestInit == ASSUME ErasureInit PROVE ErasureRest
<1>1. \A u \in Persons : erasing[u] = NotErasing
  BY DEF ErasureInit
<1>2. HeirsHeld /\ \A u \in Persons : EraserTyped(u, erasing[u])
  BY <1>1, NotErasingTyped DEF HeirsHeld, Holding
<1>3. RollsTyped
  BY DEF ErasureInit, RollsTyped, RemovalTyped, NoRemoval
<1> QED
  BY <1>2, <1>3 DEF ErasureRest

-----------------------------------------------------------------------------
(* All services: types *)

LEMMA EachService ==
    ServicesSpec => /\ DueSpec /\ InsightSpec /\ InvitationSpec /\ Spec
                    /\ TrelloSpec /\ ErasureSpec /\ FarewellSpec
<1>1. ServicesInit => /\ DueInit /\ InsightInit /\ InvitationInit /\ Init
                      /\ TrelloInit /\ ErasureInit /\ FarewellInit
  BY DEF ServicesInit
<1>2. [ServicesNext]_servicesVars =>
        /\ [DueNext]_dueVars /\ [InsightNext]_insightVars /\ [InvitationNext]_inviteVars /\ [Next]_vars
        /\ [TrelloNext]_importVars /\ [ErasureNext]_erasureVars /\ [FarewellNext]_farewellVars
  <2>1. CASE ServicesNext
    BY <2>1, Zenon DEF ServicesNext
  <2>2. CASE UNCHANGED servicesVars
    BY <2>2 DEF servicesVars
  <2> QED
    BY <2>1, <2>2
<1> QED
  BY <1>1, <1>2, PTL DEF ServicesSpec, DueSpec, InsightSpec, InvitationSpec, Spec, TrelloSpec, ErasureSpec,
     FarewellSpec

LEMMA DueTyped == DueSpec => []DueTypeOK
<1>1. DueInit => RemindersInv
  BY RemindersInit
<1>2. DueInit => DueRest
  BY DueRestInit
<1>3. RemindersInv /\ DueRest => DueTypeOK
  BY DueRestTypes
<1>4. RemindersInv /\ DueRest /\ [DueNext]_dueVars => RemindersInv' /\ DueRest'
  BY DueStepKeeps, DueRestNext
<1> QED
  BY <1>1, <1>2, <1>3, <1>4, PTL DEF DueSpec

LEMMA InsightTyped == InsightSpec => []InsightTypeOK
<1>1. SweepInv /\ InsightTypeOK /\ [InsightNext]_insightVars => SweepInv' /\ InsightTypeOK'
  BY SweepKept, InsightTypesNext
<1> QED
  BY <1>1, SweepInit, InsightTypesInit, PTL DEF InsightSpec

LEMMA InvitationTyped == InvitationSpec => []InvitationTypeOK
<1>1. InvitesInv /\ InvitationTypeOK /\ [InvitationNext]_inviteVars => InvitesInv' /\ InvitationTypeOK'
  BY InvitesNext, InvitationTypesNext
<1> QED
  BY <1>1, InvitesInit, InvitationTypesInit, PTL DEF InvitationSpec

LEMMA TrelloTyped == TrelloSpec => []TrelloTypeOK
<1>1. ImportInv /\ TrelloTypeOK /\ [TrelloNext]_importVars => ImportInv' /\ TrelloTypeOK'
  BY ImportStepKeeps, TrelloTypesNext
<1> QED
  BY <1>1, ImportInit, TrelloTypesInit, PTL DEF TrelloSpec

LEMMA ErasureTyped == ErasureSpec => []ErasureTypeOK
<1>1. RedactionInv /\ ErasureRest /\ [ErasureNext]_erasureVars => RedactionInv' /\ ErasureRest'
  BY RedactionKept, ErasureRestNext
<1>2. ErasureInit => ErasureRest
  BY ErasureRestInit
<1>3. RedactionInv /\ ErasureRest => ErasureTypeOK
  BY ErasureRestTypes
<1> QED
  BY <1>1, <1>2, <1>3, RedactionInit, PTL DEF ErasureSpec

(***************************************************************************)
(* Whatever runs next to what in the API's own jobs and long transactions:  *)
(* every variable of the seven services keeps its type, and with it: a scan *)
(* never uses up more attempts than a job has, a count of reminders is one  *)
(* of rows there are, an invitation's mail and its trail are of a row that  *)
(* exists, a page of the upload directory is of files that are old and      *)
(* there, and an owner the team has after an erasure is one of its members: *)
(* an heir, once promoted, is locked until the transfer commits.            *)
(***************************************************************************)
THEOREM ServicesTyped == ServicesSpec => []ServicesTypeOK
<1>1. /\ DueTypeOK /\ InsightTypeOK /\ InvitationTypeOK /\ TypeOK
      /\ TrelloTypeOK /\ ErasureTypeOK /\ FarewellTypeOK
      => ServicesTypeOK
  BY DEF ServicesTypeOK
<1> QED
  BY <1>1, EachService, DueTyped, InsightTyped, InvitationTyped, StoreTypesKept, TrelloTyped,
     ErasureTyped, FarewellTypesKept, PTL

=============================================================================
