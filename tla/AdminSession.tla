------------------------------ MODULE AdminSession ------------------------------
(***************************************************************************)
(* Signing in to the administration console (admin-web): the operator's    *)
(* session, the public pages, the guard in front of the console, and the   *)
(* password an invited administrator has to choose first.                  *)
(*                                                                         *)
(* The identity provider keeps the account and whether its password is     *)
(* still to be chosen; the browser keeps a session for all its tabs, with  *)
(* the user as the provider described it then; this tab hears of it by     *)
(* events.  Redirects are followed at once.                                *)
(***************************************************************************)
EXTENDS Naturals

VARIABLES
    where,      \* the route this tab is at
    session,    \* this tab: NONE, SETUP (metadata asks for a password) or FULL
    loading,    \* auth.loading
    asked,      \* calls of the identity provider under way
    form,       \* the form of the page: FILLING, its call under way, or DONE and a notice
    browser,    \* the session the tabs share
    account     \* the provider: INVITED, or READY with a password

sessionVars == <<where, session, loading, asked, form, browser, account>>

Inside == {"console", "account"}
Routes == {"sign-in", "forgot-password", "set-password"} \cup Inside
Described == IF account = "INVITED" THEN "SETUP" ELSE "FULL"

\* SignInPage: whoever is signed in goes on.
FromSignIn(s, l) ==
    IF ~l /\ s # "NONE" THEN IF s = "SETUP" THEN "set-password" ELSE "console" ELSE "sign-in"

\* Mutant: an invited administrator is let in.
GuardSessions(r, s, l) == IF ~l /\ s = "NONE" THEN "sign-in" ELSE r

\* ProtectedAdmin, in front of every page of the console.
ProtectedAdmin(r, s, l) ==
    IF l THEN r
    ELSE IF s = "NONE" THEN "sign-in"
    ELSE IF s = "SETUP" THEN "set-password"
    ELSE r

Redirect(r, s, l) ==
    CASE r = "sign-in" -> FromSignIn(s, l)
      [] r \in Inside -> ProtectedAdmin(r, s, l)
      [] OTHER -> r

\* Where a tab at route r ends up.
Goes(r) == where' = Redirect(Redirect(r, session', loading'), session', loading')
Stays == Goes(where)

\* Another page, another form.
FormStays(f) == form' = IF where' = where THEN f ELSE "FILLING"

ConsoleShown == where \in Inside /\ ~loading

SessionInit ==
    /\ where \in Routes
    /\ session = "NONE" /\ loading = TRUE
    /\ asked = {} /\ form = "FILLING"
    /\ account \in {"INVITED", "READY"}
    /\ browser \in {"NONE", Described}

\* getSession's answer, or an event: another tab, a refreshed token.  It ends any wait.
AuthStateChange ==
    /\ session # browser \/ loading
    /\ session' = browser
    /\ loading' = FALSE
    /\ Stays
    /\ FormStays(form)
    /\ UNCHANGED <<asked, browser, account>>

\* The links of the pages.
PublicLink(to) == {where, to} = {"sign-in", "forgot-password"}
ConsoleLink(to) == ConsoleShown /\ to \in Inside \ {where}
AccountLink(to) == ConsoleShown /\ where = "account" /\ to = "set-password"
LinkExpired(to) ==
    where = "set-password" /\ session = "NONE" /\ ~loading /\ to = "forgot-password"
PasswordCreated(to) ==
    where = "set-password" /\ session # "NONE" /\ form = "DONE" /\ to = "console"

FollowLink(r) ==
    /\ PublicLink(r) \/ ConsoleLink(r) \/ AccountLink(r) \/ LinkExpired(r) \/ PasswordCreated(r)
    /\ UNCHANGED <<session, loading, asked, browser, account>>
    /\ Goes(r)
    /\ form' = "FILLING"

\* An address typed, a reload: the tab begins again, and nobody waits for its calls.
Restart(r) ==
    /\ where' = r
    /\ session' = "NONE" /\ loading' = TRUE /\ form' = "FILLING" /\ asked' = {}
    /\ UNCHANGED account

Reload(r) == Restart(r) /\ UNCHANGED browser

\* The link of an invitation or of a reset signs in and opens the password page.
OpenLink == Restart("set-password") /\ browser' = Described

-----------------------------------------------------------------------------
(* The calls. *)

\* The forms and buttons; what they refuse by themselves, an address or a password
\* that cannot be one, changes nothing.
SignInForm == where = "sign-in" /\ account = "READY"
ForgotPasswordForm == where = "forgot-password" /\ form # "DONE"
SetPasswordForm == where = "set-password" /\ session # "NONE" /\ form # "DONE"
SignOutOffered == ConsoleShown

Calls == {"signInWithPassword", "resetPasswordForEmail", "updateUser", "signOut"}
FormShown(call) ==
    CASE call = "signInWithPassword" -> SignInForm
      [] call = "resetPasswordForEmail" -> ForgotPasswordForm
      [] call = "updateUser" -> SetPasswordForm
      [] call = "signOut" -> SignOutOffered

\* A form is busy while auth.loading; signing out shows no wait.
Submit(call) ==
    /\ FormShown(call)
    /\ call \notin asked
    /\ call # "signOut" => ~loading
    /\ asked' = asked \cup {call}
    /\ loading' = (loading \/ call # "signOut")
    /\ form' = IF call = "signOut" THEN form ELSE call
    /\ UNCHANGED <<where, session, browser, account>>

\* What the page is told when its own call ends.
FormEnds(call, end) == FormStays(IF form = call THEN end ELSE form)

\* An error, and nothing has changed.  signOut goes to the sign-in page all the same.
CallFails(call) ==
    /\ call \in asked
    /\ asked' = asked \ {call}
    /\ loading' = (loading /\ call = "signOut")
    /\ UNCHANGED <<session, browser, account>>
    /\ IF call = "signOut"
       THEN Goes("sign-in") /\ FormStays(form)
       ELSE Stays /\ FormEnds(call, "FILLING")

\* signIn: the event comes before the answer, and the answer goes to the dashboard.
signIn ==
    /\ "signInWithPassword" \in asked
    /\ asked' = asked \ {"signInWithPassword"}
    /\ browser' = "FULL"
    /\ session' = "FULL" /\ loading' = FALSE
    /\ Goes("console")
    /\ form' = "FILLING"
    /\ UNCHANGED account

sendPasswordReset ==
    /\ "resetPasswordForEmail" \in asked
    /\ asked' = asked \ {"resetPasswordForEmail"}
    /\ loading' = FALSE
    /\ UNCHANGED <<session, browser, account>>
    /\ Stays
    /\ FormEnds("resetPasswordForEmail", "DONE")

\* updatePassword: the provider stores the password and that none is asked for any more;
\* the answer may be lost, and is refused when the session has ended meanwhile.
updatePassword ==
    /\ "updateUser" \in asked /\ browser # "NONE"
    /\ asked' = asked \ {"updateUser"}
    /\ account' = "READY"
    /\ loading' = FALSE
    /\ \/ /\ browser' = "FULL" /\ session' = "FULL"
          /\ Stays /\ FormEnds("updateUser", "DONE")
       \/ UNCHANGED <<session, browser>> /\ Stays /\ FormEnds("updateUser", "FILLING")

signOut ==
    /\ "signOut" \in asked
    /\ asked' = asked \ {"signOut"}
    /\ browser' = "NONE" /\ session' = "NONE"
    /\ UNCHANGED <<loading, account>>
    /\ Goes("sign-in")
    /\ form' = "FILLING"

\* The session ends, its token is refreshed, or another tab signs in or out: what the
\* tabs share changes, and this tab hears of it later.
OthersSession ==
    /\ browser' \in {"NONE", Described} \ {browser}
    /\ UNCHANGED <<where, session, loading, asked, form, account>>

-----------------------------------------------------------------------------
SessionNext ==
    \/ AuthStateChange \/ OpenLink \/ OthersSession
    \/ \E r \in Routes : FollowLink(r) \/ Reload(r)
    \/ \E call \in Calls : Submit(call) \/ CallFails(call)
    \/ signIn \/ sendPasswordReset \/ updatePassword \/ signOut

-----------------------------------------------------------------------------
\* An invited administrator chooses a password before any page of the console comes up,
\* whichever way in: the link, a reload, another tab, an old session, a sign-in.
SetupBeforeConsole == ConsoleShown => session # "NONE" /\ account = "READY"
================================================================================
