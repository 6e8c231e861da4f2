------------------------------ MODULE AuthScreens ------------------------------
(***************************************************************************)
(* Signing in, signing up, confirming an address and accepting an           *)
(* invitation, as one browser tab of an invited person goes through them:   *)
(* the middleware of the web app, the screens of apps/web/components/auth   *)
(* and the links that are mailed.  Better Auth is external: its answers are *)
(* modelled from how the screens and auth.ts use them.                      *)
(***************************************************************************)
EXTENDS FiniteSets

Nothing == "nothing"

\* The pages of the app that need a session, and those that do not.
ShellPages == {"dashboard", "board", "create"}
PublicPages == {"login", "register", "confirm", "invite"}
Pages == ShellPages \cup PublicPages

\* A destination of another origin, which somebody put into an address.
Elsewhere == "elsewhere"

\* What a link can fail with: a code that the screens know, or any other.
KnownErrors == {"TOKEN_EXPIRED", "USER_NOT_FOUND"}
Codes == KnownErrors \cup {"OTHER"}

VARIABLES
    account,    \* the person's account: "none", "open" or "confirmed"
    browser,    \* the session cookie: whether there is one, and what its cached user says
    screen,     \* the page, its `next' and `error' parameters, and what is rendered of it
    mails,      \* the confirmation links in the mailbox
    offer,      \* the invitation: "pending", "accepted" or "withdrawn"
    pursuing    \* the person is after the invitation and has not turned elsewhere

authVars == <<account, browser, screen, mails, offer, pursuing>>

\* lib/auth-redirect.ts: what may be carried, on the way out as on the way in.
SafeNext(next) == IF next \in Pages THEN next ELSE Nothing

\* Slip: the link to the other form forgets the destination.
NoNext(next) == Nothing
WithNext(next) == SafeNext(next)

AfterLogin(next) == IF SafeNext(next) = Nothing THEN "dashboard" ELSE SafeNext(next)
AfterRegister(next) == IF SafeNext(next) = Nothing THEN "create" ELSE SafeNext(next)

\* What the screen of a page renders first.
FirstView(page, in) ==
    IF page # "invite" THEN "shown" ELSE IF in THEN "asking" ELSE "signin"

Screen(page, next, error, in) ==
    [at |-> page, next |-> next, error |-> error, view |-> FirstView(page, in)]

\* A navigation passes the middleware, which asks the API for the session (`known'); the page
\* then sees the session of the browser (`in').  A protected destination goes inside `next'.
Land(path, next, error, known, in) ==
    CASE path = "home" -> Screen(IF known THEN "dashboard" ELSE "login", next, error, in)
      [] path \in PublicPages \/ (path # "home" /\ known) -> Screen(path, next, error, in)
      [] OTHER -> Screen("login", path, Nothing, in)

\* A navigation inside the app, of a visitor whose session the middleware sees.
Go(path, next) == screen' = Land(path, next, Nothing, browser.in, browser.in)

\* A mailed link lands on the page it was asked for, and on the confirmation page when the
\* caller named none.
ResolveCallback(callback) == IF callback = Nothing THEN "confirm" ELSE callback
MailedLink(callback, from) == [callback |-> ResolveCallback(callback), from |-> from]
InviteCallback == "invite"
ConfirmCallback == "confirm"

\* Better Auth appends a code to a link that failed and nothing to one that worked.
LinkError(code) == IF code \in KnownErrors \cup {Nothing} THEN code ELSE "unknown"

\* The confirmation page congratulates a confirmed session, and a visit without an error that
\* was not made to ask for a link.
ShowsConfirmed ==
    /\ screen.at = "confirm"
    /\ \/ browser.in /\ browser.says
       \/ screen.view # "requested" /\ LinkError(screen.error) = Nothing

AuthInit ==
    /\ account \in {"none", "open", "confirmed"}
    /\ browser = [in |-> FALSE, says |-> FALSE]
    /\ screen = Screen("login", Nothing, Nothing, FALSE)
    \* The mailbox may still hold a link of an account that was deleted since.
    /\ mails \in {{}, {MailedLink(Nothing, "deleted")}}
    /\ offer = "pending"
    /\ pursuing = FALSE

-----------------------------------------------------------------------------

\* The person types an address or follows a bookmark; the middleware may fail to reach the API
\* and then takes the visitor for a signed-out one.
Open ==
    \E path \in {"home", "dashboard", "board", "login", "register"}, known \in {browser.in, FALSE},
       next \in {Nothing, Elsewhere} :
        /\ next = Elsewhere => path \in {"login", "register"}
        /\ screen' = Land(path, next, Nothing, known, browser.in)
        /\ pursuing' = FALSE
        /\ UNCHANGED <<account, browser, mails, offer>>

\* The invitation's mail.
OpenInvitation ==
    /\ screen' = Land("invite", Nothing, Nothing, browser.in, browser.in)
    /\ pursuing' = (offer = "pending")
    /\ UNCHANGED <<account, browser, mails, offer>>

\* The same address again; every state of the screen is lost.
Reload ==
    /\ screen' = Land(screen.at, screen.next, screen.error, browser.in, browser.in)
    /\ screen' # screen /\ screen.view # "requested"
    /\ UNCHANGED <<account, browser, mails, offer, pursuing>>

\* The session ends elsewhere: a page of the shell replaces itself by the sign-in form.
SessionEnds ==
    /\ browser.in
    /\ browser' = [in |-> FALSE, says |-> FALSE]
    /\ screen' = IF screen.at \in ShellPages
                 THEN Screen("login", Nothing, Nothing, FALSE)
                 ELSE [screen EXCEPT !.view = IF screen.at = "invite" THEN "signin" ELSE @]
    /\ UNCHANGED <<account, mails, offer, pursuing>>

\* The session of the browser is renewed and read again.  The invitation's screen keeps what it
\* decided about the address until it is mounted again.
SessionRefreshed ==
    /\ browser.in
    /\ browser.says # (account = "confirmed")
    /\ browser' = [browser EXCEPT !.says = (account = "confirmed")]
    /\ UNCHANGED <<account, screen, mails, offer, pursuing>>

-----------------------------------------------------------------------------

\* The sign-in form.
SignIn ==
    /\ screen.at = "login" /\ account # "none"
    /\ browser' = [in |-> TRUE, says |-> account = "confirmed"]
    /\ screen' = Land(AfterLogin(screen.next), Nothing, Nothing, TRUE, TRUE)
    /\ UNCHANGED <<account, mails, offer, pursuing>>

\* The sign-up form: the account is signed in at once, and gets a link that names no callback.
\* An address that has an account is refused at its field.
SignUp ==
    /\ screen.at = "register"
    /\ IF account = "none"
       THEN /\ account' = "open"
            /\ browser' = [in |-> TRUE, says |-> FALSE]
            /\ mails' = mails \cup {MailedLink(Nothing, "register")}
            /\ screen' = Land(AfterRegister(screen.next), Nothing, Nothing, TRUE, TRUE)
       ELSE /\ screen' = [screen EXCEPT !.view = "refused"]
            /\ UNCHANGED <<account, browser, mails>>
    /\ UNCHANGED <<offer, pursuing>>

\* The links between the two forms carry the destination across.
CrossOver ==
    /\ screen.at \in {"login", "register"}
    /\ Go(IF screen.at = "login" THEN "register" ELSE "login", WithNext(screen.next))
    /\ UNCHANGED <<account, browser, mails, offer, pursuing>>

\* The invitation's screen sends a signed-out invitee to sign in.
SignInFirst ==
    /\ screen.at = "invite" /\ screen.view = "signin"
    /\ Go("login", WithNext(InviteCallback))
    /\ UNCHANGED <<account, browser, mails, offer, pursuing>>

-----------------------------------------------------------------------------

\* The invitation is read: refused for an unconfirmed address, gone, or not answered at all.
InvitationLoads ==
    /\ screen.at = "invite" /\ screen.view = "asking"
    /\ \/ screen' = [screen EXCEPT !.view = "failed"]
       \/ /\ offer = "pending"
          /\ screen' = [screen EXCEPT !.view = IF browser.says THEN "offered" ELSE "unconfirmed"]
    /\ UNCHANGED <<account, browser, mails, offer, pursuing>>

\* Accepting, and entering the workspace: when the second call fails the invitation has been
\* accepted and the screen says that it was not.
Accept ==
    /\ screen.at = "invite" /\ screen.view \in {"offered", "refused"}
    /\ \/ /\ offer = "pending"
          /\ offer' = "accepted"
          /\ \/ Go("dashboard", Nothing)
             \/ screen' = [screen EXCEPT !.view = "refused"]
          /\ pursuing' = FALSE
       \/ /\ screen' = [screen EXCEPT !.view = "refused"]
          /\ UNCHANGED <<offer, pursuing>>
    /\ UNCHANGED <<account, browser, mails>>

\* A failed invitation offers the way back to the app.
BackToApp ==
    /\ screen.at = "invite" /\ screen.view = "failed"
    /\ Go("dashboard", Nothing)
    /\ pursuing' = FALSE
    /\ UNCHANGED <<account, browser, mails, offer>>

\* The invitation is withdrawn by an administrator.
Withdraw ==
    /\ offer = "pending"
    /\ offer' = "withdrawn"
    /\ pursuing' = FALSE
    /\ UNCHANGED <<account, browser, screen, mails>>

-----------------------------------------------------------------------------

\* `Send me another link': from the invitation's screen it comes back to the invitation.  An
\* address without an unconfirmed account gets no mail, whatever the screen says.
Resend ==
    /\ \/ screen.at = "invite" /\ screen.view = "unconfirmed"
       \/ screen.at = "confirm" /\ ~ShowsConfirmed
    /\ account = "open"
    /\ mails' = mails \cup
           {MailedLink(IF screen.at = "invite" THEN InviteCallback ELSE ConfirmCallback, screen.at)}
    /\ UNCHANGED <<account, browser, screen, offer, pursuing>>

\* A link is opened in this browser.  A good one confirms the address and signs in; the link
\* of a deleted account fails, and any link can be too old.
OpenLink ==
    \E m \in mails, code \in {Nothing} \cup Codes :
        /\ m.from = "deleted" <=> code = "USER_NOT_FOUND"
        /\ code = Nothing => account # "none"
        /\ account' = IF code = Nothing THEN "confirmed" ELSE account
        /\ browser' = IF code = Nothing /\ account = "open"
                      THEN [in |-> TRUE, says |-> TRUE] ELSE browser
        /\ screen' = Land(m.callback, Nothing, code, browser'.in, browser'.in)
        /\ mails' = mails \ {m}
        \* A link that was not asked for at the invitation is a turn of the person's own.
        /\ pursuing' = (pursuing /\ m.from = "invite")
        /\ UNCHANGED offer

\* A link is opened in another browser, whose session this one does not share.
OpenLinkElsewhere ==
    \E m \in mails :
        /\ m.from # "deleted" /\ account # "none"
        /\ account' = "confirmed"
        /\ mails' = mails \ {m}
        /\ UNCHANGED <<browser, screen, offer, pursuing>>

\* The confirmation page's ways on: into the app, to the forms, or to an account.
LeaveConfirm ==
    /\ screen.at = "confirm"
    /\ \/ browser.in /\ Go("dashboard", Nothing)
       \/ ShowsConfirmed /\ ~browser.in /\ Go("login", Nothing)
       \/ /\ ~ShowsConfirmed /\ ~browser.in /\ LinkError(screen.error) = "USER_NOT_FOUND"
          /\ Go("register", Nothing)
    /\ UNCHANGED <<account, browser, mails, offer, pursuing>>

\* The sidebar's entry, for a session that says the address is unconfirmed.
AskToConfirm ==
    /\ screen.at \in ShellPages /\ browser.in /\ ~browser.says
    /\ screen' = [Land("confirm", Nothing, Nothing, TRUE, TRUE) EXCEPT !.view = "requested"]
    /\ UNCHANGED <<account, browser, mails, offer, pursuing>>

SignOut ==
    /\ screen.at \in ShellPages /\ browser.in
    /\ browser' = [in |-> FALSE, says |-> FALSE]
    /\ screen' = Land("login", Nothing, Nothing, FALSE, FALSE)
    /\ UNCHANGED <<account, mails, offer, pursuing>>

AuthNext ==
    \/ Open \/ OpenInvitation \/ Reload \/ SessionEnds \/ SessionRefreshed
    \/ SignIn \/ SignUp \/ CrossOver \/ SignInFirst
    \/ InvitationLoads \/ Accept \/ BackToApp \/ Withdraw
    \/ Resend \/ OpenLink \/ OpenLinkElsewhere \/ LeaveConfirm \/ AskToConfirm \/ SignOut

AuthSpec == AuthInit /\ [][AuthNext]_authVars

-----------------------------------------------------------------------------

AuthTypeOK ==
    /\ account \in {"none", "open", "confirmed"}
    /\ browser \in [in : BOOLEAN, says : BOOLEAN]
    /\ screen \in [at : Pages, next : Pages \cup {Elsewhere, Nothing},
                   error : Codes \cup {Nothing},
                   view : {"shown", "asking", "signin", "offered", "unconfirmed", "failed",
                           "refused", "requested"}]
    /\ mails \subseteq [callback : {"confirm", "invite"},
                        from : {"register", "confirm", "invite", "deleted"}]
    /\ offer \in {"pending", "accepted", "withdrawn"}
    /\ pursuing \in BOOLEAN

\* An invitee who set out for the invitation and did not turn elsewhere is at it, or the form
\* they are at takes them back to it (auth-redirect.ts:1-10, email-verification.ts:13-20).
InvitationNotLost == pursuing => "invite" \in {screen.at, SafeNext(screen.next)}

===============================================================================
