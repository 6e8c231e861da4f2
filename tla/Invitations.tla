------------------------------- MODULE Invitations -------------------------------
(***************************************************************************)
(* Invitations to one workspace: administrators who invite, re-invite at    *)
(* another role and revoke (WorkspaceInvitationService), the organization   *)
(* plugin that owns the rows, the mail each offer sends and what the answer *)
(* may say of its delivery, and the invitee who accepts.                    *)
(***************************************************************************)
EXTENDS Integers, FiniteSets

CONSTANTS
    Inviters,        \* administrators, one request at a time each
    Addresses,       \* invited people
    InviteRoles,     \* the roles an invitation can have in this instance
    InviteIds,       \* primary keys, in the order of creation
    SmtpHost,        \* whether SMTP_HOST is set
    Lifetime,        \* ticks an invitation is open for
    LastInviteTick,  \* bound: the clock stops here
    MaxOffers,       \* bound: requests of the inviters
    MaxInviteFaults  \* bound: writes that fail after the plugin has answered

ASSUME InvitationsAssumption ==
    /\ InviteIds \subseteq Nat /\ SmtpHost \in BOOLEAN
    /\ Lifetime \in Nat \ {0} /\ {LastInviteTick, MaxOffers, MaxInviteFaults} \subseteq Nat

VARIABLES
    inviteClock,  \* the time
    invites,      \* WorkspaceInvitation rows
    verified,     \* addresses whose account has confirmed them
    joined,       \* addresses that became members, with the role they were given
    mails,        \* outcomes of the sends: [invite, by, outcome]
    trail,        \* audit rows: [type, invite, role, delivery]
    offer,        \* the request of each inviter
    acceptance,   \* the request of each invitee
    offersMade,   \* requests the inviters have made
    faultsMade    \* writes that have failed

inviteVars == <<inviteClock, invites, verified, joined, mails, trail, offer, acceptance,
                offersMade, faultsMade>>

Statuses == {"pending", "accepted", "canceled"}
Deliveries == {"SENT", "FAILED", "NOT_CONFIGURED"}
Unseen == "unseen"
Idle == [step |-> "idle"]

InvitationTypeOK ==
    /\ inviteClock \in 0..LastInviteTick
    /\ DOMAIN invites \subseteq InviteIds
    /\ \A i \in DOMAIN invites :
          /\ invites[i].email \in Addresses /\ invites[i].role \in InviteRoles
          /\ invites[i].status \in Statuses /\ invites[i].expires \in 0..LastInviteTick + Lifetime
    /\ verified \subseteq Addresses
    /\ joined \in [Addresses -> InviteRoles \cup {"NONE"}]
    /\ \A m \in mails : m.invite \in DOMAIN invites /\ m.outcome \in Deliveries
    /\ \A r \in trail : r.invite \in DOMAIN invites /\ r.delivery \in Deliveries \cup {Unseen}
    /\ DOMAIN offer = Inviters /\ DOMAIN acceptance = Addresses
    /\ offersMade \in 0..MaxOffers /\ faultsMade \in 0..MaxInviteFaults

InvitationInit ==
    /\ inviteClock = 0
    /\ invites = [i \in {} |-> 0]
    /\ verified \in SUBSET Addresses
    /\ joined = [e \in Addresses |-> "NONE"]
    /\ mails = {} /\ trail = {}
    /\ offer = [a \in Inviters |-> Idle]
    /\ acceptance = [e \in Addresses |-> Idle]
    /\ offersMade = 0 /\ faultsMade = 0

\* findPendingInvitations, which is the plugin's own lookup.
Open(i) == invites[i].status = "pending" /\ invites[i].expires > inviteClock
Pending(email) == {i \in DOMAIN invites : invites[i].email = email /\ Open(i)}

Fresh == InviteIds \ DOMAIN invites
NextInvite == CHOOSE i \in Fresh : \A j \in Fresh : i <= j

SetOffer(a, fields) == offer' = [offer EXCEPT ![a] = fields]
Answer(a) == SetOffer(a, Idle)
RowsAlone == UNCHANGED <<invites, joined>>
TheRest == UNCHANGED <<inviteClock, verified, acceptance>>
Count == offersMade < MaxOffers /\ offersMade' = offersMade + 1

-----------------------------------------------------------------------------
(* Inviting *)

\* The role OWNER is refused before anything is read.
Invite(a, email, role) ==
    /\ offer[a] = Idle /\ Count
    /\ IF role = "OWNER" THEN offer' = offer
       ELSE SetOffer(a, [step |-> IF \E i \in Pending(email) : invites[i].role # role
                                  THEN "replace" ELSE "create",
                         email |-> email, role |-> role, stale |-> Pending(email),
                         invite |-> 0, slot |-> Unseen, status |-> ""])
    /\ RowsAlone /\ TheRest /\ UNCHANGED <<mails, trail, faultsMade>>

\* One cancelInvitation per row that was found pending; the plugin refuses one that is not any
\* more, and may refuse another, which ends the request.
CancelStale(a) ==
    /\ offer[a].step = "replace"
    /\ IF offer[a].stale = {}
       THEN SetOffer(a, [offer[a] EXCEPT !.step = "create"]) /\ UNCHANGED <<invites, faultsMade>>
       ELSE \E i \in offer[a].stale :
              \/ /\ invites[i].status = "pending"
                 /\ invites' = [invites EXCEPT ![i].status = "canceled"]
                 /\ SetOffer(a, [offer[a] EXCEPT !.stale = @ \ {i}])
                 /\ UNCHANGED faultsMade
              \/ /\ invites[i].status # "pending"
                 /\ Answer(a)
                 /\ UNCHANGED <<invites, faultsMade>>
              \/ /\ faultsMade < MaxInviteFaults
                 /\ faultsMade' = faultsMade + 1
                 /\ Answer(a)
                 /\ UNCHANGED invites
    /\ TheRest /\ UNCHANGED <<joined, mails, trail, offersMade>>

\* auth.api.createInvitation with resend: a member is refused; a pending row keeps its role
\* and gets a new expiry; else there is a new row.
PluginCreate(a) ==
    /\ offer[a].step = "create"
    /\ LET email == offer[a].email
           again == Pending(email)
           sent(i) == SetOffer(a, [offer[a] EXCEPT !.step = "send", !.invite = i])
       IN  IF joined[email] # "NONE" THEN Answer(a) /\ UNCHANGED invites
           ELSE IF again # {}
           THEN \E i \in again :
                   /\ invites' = [invites EXCEPT ![i].expires = inviteClock + Lifetime]
                   /\ sent(i)
           ELSE /\ Fresh # {}
                /\ LET i == NextInvite IN
                     /\ invites' = [j \in DOMAIN invites \cup {i} |->
                                      IF j \in DOMAIN invites THEN invites[j]
                                      ELSE [email |-> email, role |-> offer[a].role,
                                            status |-> "pending", expires |-> inviteClock + Lifetime]]
                     /\ sent(i)
    /\ TheRest /\ UNCHANGED <<joined, mails, trail, offersMade, faultsMade>>

\* sendWith: a send that throws is FAILED; the log transport delivers nothing.
Outcomes == IF SmtpHost THEN {"SENT", "FAILED"} ELSE {"NOT_CONFIGURED"}

\* Slip: the outcome goes into one slot of the module, which every open request reads.
RecordForEveryone(a, outcome) ==
    offer' = [b \in Inviters |->
                IF b = a THEN [offer[a] EXCEPT !.step = "check", !.slot = outcome]
                ELSE IF offer[b].step \in {"send", "check", "record"}
                THEN [offer[b] EXCEPT !.slot = outcome] ELSE offer[b]]

\* recordMailDelivery: into the slot of the request whose await chain sent the mail.
RecordDelivery(a, outcome) ==
    SetOffer(a, [offer[a] EXCEPT !.step = "check",
                                 !.slot = IF @ \in {Unseen, "SENT"} THEN outcome ELSE @])

\* sendInvitationEmail, inside the plugin's call; a hook the plugin does not await is unseen.
SendInvitationEmail(a) ==
    /\ offer[a].step = "send"
    /\ \E outcome \in Outcomes :
          /\ mails' = mails \cup {[invite |-> offer[a].invite, by |-> a, outcome |-> outcome]}
          /\ \/ RecordDelivery(a, outcome)
             \/ SetOffer(a, [offer[a] EXCEPT !.step = "check"])
    /\ RowsAlone /\ TheRest /\ UNCHANGED <<trail, offersMade, faultsMade>>

\* Slip: the answer describes what was asked for.
TrustTheRequest(a) == TRUE

\* `resend' may have returned another administrator's invitation, at their role.
RoleGranted(a) == invites[offer[a].invite].role = offer[a].role

\* A conflict is answered before anything is recorded.
CheckRole(a) ==
    /\ offer[a].step = "check"
    /\ IF RoleGranted(a) THEN SetOffer(a, [offer[a] EXCEPT !.step = "record"]) ELSE Answer(a)
    /\ RowsAlone /\ TheRest /\ UNCHANGED <<mails, trail, offersMade, faultsMade>>

\* The row of the trail carries what the answer says; losing it loses the answer, not the offer.
RecordOffer(a) ==
    /\ offer[a].step = "record"
    /\ \/ /\ trail' = trail \cup {[type |-> "created", invite |-> offer[a].invite,
                                   role |-> offer[a].role, delivery |-> offer[a].slot, by |-> a]}
          /\ UNCHANGED faultsMade
       \/ /\ faultsMade < MaxInviteFaults
          /\ faultsMade' = faultsMade + 1
          /\ UNCHANGED trail
    /\ Answer(a)
    /\ RowsAlone /\ TheRest /\ UNCHANGED <<mails, offersMade>>

-----------------------------------------------------------------------------
(* Revoking *)

\* The role is read now and quoted in the trail later.
Revoke(a, i) ==
    /\ offer[a] = Idle /\ i \in DOMAIN invites /\ Count
    /\ SetOffer(a, [step |-> "cancel", invite |-> i, role |-> invites[i].role])
    /\ RowsAlone /\ TheRest /\ UNCHANGED <<mails, trail, faultsMade>>

\* cancelInvitation flips the status of a pending row, and refuses any other.
CancelInvitation(a) ==
    /\ offer[a].step = "cancel"
    /\ LET i == offer[a].invite IN
         IF invites[i].status = "pending"
         THEN /\ invites' = [invites EXCEPT ![i].status = "canceled"]
              /\ trail' = trail \cup {[type |-> "revoked", invite |-> i, role |-> offer[a].role,
                                       delivery |-> Unseen, by |-> a]}
         ELSE UNCHANGED <<invites, trail>>
    /\ Answer(a)
    /\ TheRest /\ UNCHANGED <<joined, mails, offersMade, faultsMade>>

-----------------------------------------------------------------------------
(* Accepting *)

SetAcceptance(e, fields) == acceptance' = [acceptance EXCEPT ![e] = fields]

\* acceptInvitation reads the row, and answers 404 unless it is pending.
OpenInvitation(e, i) ==
    /\ acceptance[e] = Idle /\ i \in DOMAIN invites
    /\ invites[i].status = "pending"
    /\ SetAcceptance(e, [step |-> "accept", invite |-> i])
    /\ RowsAlone /\ UNCHANGED <<inviteClock, verified, mails, trail, offer, offersMade, faultsMade>>

\* The plugin reads it again: it must be open, for this address, and the address confirmed.
PluginAccept(e) ==
    /\ acceptance[e].step = "accept"
    /\ LET i == acceptance[e].invite IN
         IF Open(i) /\ invites[i].email = e /\ e \in verified
         THEN /\ invites' = [invites EXCEPT ![i].status = "accepted"]
              /\ joined' = [joined EXCEPT ![e] = IF @ = "NONE" THEN invites[i].role ELSE @]
              /\ SetAcceptance(e, [acceptance[e] EXCEPT !.step = "record"])
         ELSE SetAcceptance(e, Idle) /\ RowsAlone
    /\ UNCHANGED <<inviteClock, verified, mails, trail, offer, offersMade, faultsMade>>

\* The membership stands, whether or not its row in the trail is written.
RecordAcceptance(e) ==
    /\ acceptance[e].step = "record"
    /\ \/ /\ trail' = trail \cup {[type |-> "accepted", invite |-> acceptance[e].invite,
                                   role |-> invites[acceptance[e].invite].role,
                                   delivery |-> Unseen, by |-> e]}
          /\ UNCHANGED faultsMade
       \/ /\ faultsMade < MaxInviteFaults
          /\ faultsMade' = faultsMade + 1
          /\ UNCHANGED trail
    /\ SetAcceptance(e, Idle)
    /\ RowsAlone /\ UNCHANGED <<inviteClock, verified, mails, offer, offersMade>>

\* Better Auth's confirmation link, which needs a mail to have gone out.
ConfirmAddress == \E e \in Addresses \ verified :
    /\ SmtpHost
    /\ verified' = verified \cup {e}
    /\ RowsAlone /\ UNCHANGED <<inviteClock, mails, trail, offer, acceptance, offersMade, faultsMade>>

InviteTick ==
    /\ inviteClock < LastInviteTick
    /\ inviteClock' = inviteClock + 1
    /\ RowsAlone /\ UNCHANGED <<verified, mails, trail, offer, acceptance, offersMade, faultsMade>>

InvitationNext ==
    \/ \E a \in Inviters :
          \/ \E email \in Addresses, role \in InviteRoles \cup {"OWNER"} : Invite(a, email, role)
          \/ CancelStale(a) \/ PluginCreate(a) \/ SendInvitationEmail(a)
          \/ CheckRole(a) \/ RecordOffer(a)
          \/ \E i \in InviteIds : Revoke(a, i)
          \/ CancelInvitation(a)
    \/ \E e \in Addresses :
          \/ \E i \in InviteIds : OpenInvitation(e, i)
          \/ PluginAccept(e) \/ RecordAcceptance(e)
    \/ ConfirmAddress \/ InviteTick

InvitationSpec == InvitationInit /\ [][InvitationNext]_inviteVars

-----------------------------------------------------------------------------
(* Properties *)

(***************************************************************************)
(* What is recorded, and answered, of an offer is true of it: the row has   *)
(* the role, also when another administrator re-invites the same address at *)
(* another role in between, and the delivery is that of this administrator's *)
(* own mail for this invitation, never the outcome of a concurrent one's.   *)
(***************************************************************************)
OffersAreAsRecorded ==
    \A r \in trail :
        /\ r.role = invites[r.invite].role
        /\ r.delivery # Unseen =>
              [invite |-> r.invite, by |-> r.by, outcome |-> r.delivery] \in mails

=============================================================================
