------------------------------ MODULE Sessions ------------------------------
(***************************************************************************)
(* Login, logout and the check of every request (session.go, middleware.go *)
(* and handlers.go of src/internal/web), for one browser with several      *)
(* tabs, over the limiter of RateLimiter.                                  *)
(*                                                                         *)
(* The server keeps no sessions: a cookie is a signed session, here its    *)
(* number, and its CSRF token is known by the same number.  The tabs share *)
(* the cookie jar.  A request carries the cookie of the moment it is sent; *)
(* answers come in any order, and each is one step with its handler, since *)
(* only the limiter's part of a handler reads state that others write.     *)
(***************************************************************************)
EXTENDS RateLimiter, Sequences

CONSTANTS
    TTL,         \* sessionTTL
    Ephemeral,   \* the cookie key is made up at every start
    MaxOps,      \* bound on what the user does
    MaxRestarts  \* bound on the daemon's restarts

ASSUME TTLAssumption == TTL \in Nat \ {0}
ASSUME EphemeralAssumption == Ephemeral \in BOOLEAN
ASSUME BoundAssumption == MaxOps \in Nat /\ MaxRestarts \in Nat

\* A slot of the limiter is a tab of the browser.
Tabs == Requests

VARIABLES
    life,    \* restarts so far
    past,    \* history: per earlier life of the daemon, when it ended and what
             \* its limiter had admitted
    issued,  \* the sessions signed; at, life and fresh are history
    jar,     \* the browser's cookie: a number in issued, or 0
    page,    \* per tab: what it shows and the session it was rendered for
    sent,    \* per tab: the request in flight and its cookie
    answer,  \* the last answer given, with the cookie it answers
    ops      \* user actions so far

sessionVars == <<life, past, issued, jar, page, sent, answer, ops>>
allVars == <<vars, sessionVars>>

NoPage == [kind |-> "none", session |-> 0]
Idle == [what |-> "idle", cookie |-> 0]
NoAnswer == [status |-> "none", cookie |-> 0]

SInit ==
    /\ Init
    /\ life = 0 /\ past = <<>> /\ ops = 0
    /\ issued = <<>>
    /\ jar = 0
    /\ page = [t \in Tabs |-> NoPage]
    /\ sent = [t \in Tabs |-> Idle]
    /\ answer = NoAnswer

CookieKey == IF Ephemeral THEN life ELSE 0

\* Mutant of Valid: the expiry is left to the browser.
MutantValidForEver(c) == c # 0 /\ issued[c].key = CookieKey

\* parseSession: signed with the present key, and not expired.
Valid(c) == c # 0 /\ issued[c].key = CookieKey /\ clock < issued[c].expiry

Authorised(c) == Valid(c) /\ issued[c].authed

\* newSession and setSession, in answer to a request with cookie c.
SetSession(authed, c) ==
    /\ issued' = Append(issued, [authed |-> authed, expiry |-> clock + TTL, key |-> CookieKey,
                                 at |-> clock, life |-> life, fresh |-> ~Valid(c)])
    /\ jar' = Len(issued) + 1

KeepSession == UNCHANGED <<issued, jar>>

Answer(t, status) == answer' = [status |-> status, cookie |-> sent[t].cookie]

\* The answer is a page, rendered for session c.
Show(t, kind, c) ==
    /\ page' = [page EXCEPT ![t] = [kind |-> kind, session |-> c]]
    /\ sent' = [sent EXCEPT ![t] = Idle]

\* It is a redirect, which the browser follows with cookie c.
Redirect(t, what, c) ==
    /\ sent' = [sent EXCEPT ![t] = [what |-> what, cookie |-> c]]
    /\ UNCHANGED page

\* It is an error, as plain text.
Refused(t, status) == Show(t, "none", 0) /\ Answer(t, status)

-----------------------------------------------------------------------------
(* The user.                                                               *)

\* Opens a page, or sends the form of the page shown: the login form, or any of
\* the pages behind requireAuth.  The page stays until the answer.
Send(t, what) ==
    /\ ops < MaxOps /\ ops' = ops + 1
    /\ sent[t] = Idle
    /\ \/ what \in {"form", "app"}
       \/ what = "login" /\ page[t].kind = "form"
       \/ what \in {"change", "logout"} /\ page[t].kind = "app"
    /\ sent' = [sent EXCEPT ![t] = [what |-> what, cookie |-> jar]]
    /\ answer' = NoAnswer
    /\ UNCHANGED <<vars, life, past, issued, jar, page>>

-----------------------------------------------------------------------------
(* The server.                                                             *)

Handles(t, what) ==
    /\ sent[t].what = what
    /\ UNCHANGED <<life, past, ops>>

\* Mutant of LoginForm: whoever has a session is sent on, logged in or not.
MutantLoginFormRedirects(t) ==
    LET c == sent[t].cookie
    IN  /\ Handles(t, "form") /\ UNCHANGED vars
        /\ \/ Valid(c) /\ Redirect(t, "app", jar) /\ KeepSession
           \/ ~Valid(c) /\ SetSession(FALSE, c) /\ Show(t, "form", Len(issued) + 1)
        /\ Answer(t, "form")

\* Mutant of LoginForm: every form gets a session of its own.
MutantLoginFormRenews(t) ==
    LET c == sent[t].cookie
    IN  /\ Handles(t, "form") /\ UNCHANGED vars
        /\ \/ Authorised(c) /\ Redirect(t, "app", jar) /\ KeepSession
           \/ ~Authorised(c) /\ SetSession(FALSE, c) /\ Show(t, "form", Len(issued) + 1)
        /\ Answer(t, "form")

\* handleLoginForm.
LoginForm(t) ==
    LET c == sent[t].cookie
    IN  /\ Handles(t, "form") /\ UNCHANGED vars
        /\ \/ Authorised(c) /\ Redirect(t, "app", jar) /\ KeepSession
           \/ ~Valid(c) /\ SetSession(FALSE, c) /\ Show(t, "form", Len(issued) + 1)
           \/ Valid(c) /\ ~Authorised(c) /\ KeepSession /\ Show(t, "form", c)
        /\ Answer(t, "form")

\* handleLogin, up to the limiter's lock.
LoginArrives(t) ==
    /\ Handles(t, "login")
    /\ \E source \in Sources : Login(t, source)
    /\ UNCHANGED <<issued, jar, page, sent, answer>>

\* handleLogin is refused by the limiter.
LoginLimited(t) ==
    /\ Handles(t, "login")
    /\ Refuse(t)
    /\ KeepSession /\ Refused(t, "limited")

\* handleLogin from there on: no session, a token of another session, a wrong
\* access token, or a new session.
LoginAdmitted(t) ==
    LET c == sent[t].cookie
    IN  /\ Handles(t, "login")
        /\ Admit(t)
        /\ \/ ~Valid(c) /\ KeepSession /\ Redirect(t, "form", jar) /\ Answer(t, "expired")
           \/ /\ Valid(c) /\ page[t].session # c
              /\ KeepSession /\ Refused(t, "mismatch")
           \/ /\ Valid(c) /\ page[t].session = c
              /\ \/ KeepSession /\ Redirect(t, "form", jar) /\ Answer(t, "failed")
                 \/ SetSession(TRUE, c) /\ Redirect(t, "app", Len(issued) + 1) /\ Answer(t, "login")

\* handleLogout: the cookie is cleared in the browser, and nothing else.
Logout(t) ==
    /\ Handles(t, "logout") /\ UNCHANGED vars
    /\ jar' = 0 /\ UNCHANGED issued
    /\ Redirect(t, "form", 0)
    /\ Answer(t, "logout")

\* requireAuth before a page.
Page(t) ==
    LET c == sent[t].cookie
    IN  /\ Handles(t, "app") /\ UNCHANGED vars
        /\ KeepSession
        /\ \/ Authorised(c) /\ Show(t, "app", c) /\ Answer(t, "page")
           \/ ~Authorised(c) /\ Redirect(t, "form", jar) /\ Answer(t, "expired")

\* requireAuth before a handler that changes something; the page comes again.
Change(t) ==
    LET c == sent[t].cookie
    IN  /\ Handles(t, "change") /\ UNCHANGED vars
        /\ KeepSession
        /\ \/ ~Authorised(c) /\ Redirect(t, "form", jar) /\ Answer(t, "expired")
           \/ Authorised(c) /\ page[t].session # c /\ Refused(t, "mismatch")
           \/ Authorised(c) /\ page[t].session = c /\ Redirect(t, "app", jar) /\ Answer(t, "change")

Serve(t) ==
    \/ LoginForm(t) \/ LoginArrives(t) \/ LoginLimited(t) \/ LoginAdmitted(t)
    \/ Logout(t) \/ Page(t) \/ Change(t)

\* The daemon stops and starts: the limiter begins anew, and with it its history,
\* which past keeps; requests in flight get no answer; the pages stay on the screen.
Restart ==
    /\ life < MaxRestarts /\ life' = life + 1
    /\ past' = Append(past, [until |-> clock, granted |-> granted])
    /\ hits' = [k \in Sources |-> {}] /\ granted' = [k \in Sources |-> {}]
    /\ request' = [t \in Tabs |-> NoRequest]
    /\ sent' = [t \in Tabs |-> Idle]
    /\ answer' = NoAnswer
    /\ UNCHANGED <<clock, issued, jar, page, ops>>

PassTime ==
    /\ Tick
    /\ answer' = NoAnswer
    /\ UNCHANGED <<life, past, issued, jar, page, sent, ops>>

SNext ==
    \/ \E t \in Tabs :
          \/ \E what \in {"form", "app", "login", "change", "logout"} : Send(t, what)
          \/ Serve(t)
    \/ Restart
    \/ PassTime

\* Every request is answered: no handler of these waits for anything but the
\* limiter's lock, which is held for no longer than the count takes.
SSpec == SInit /\ [][SNext]_allVars /\ \A t \in Tabs : WF_allVars(Serve(t))

-----------------------------------------------------------------------------
(* Properties.                                                             *)

Sessions == [authed : BOOLEAN, expiry : Nat, key : Nat, at : Nat, life : Nat, fresh : BOOLEAN]
Cookies == 0 .. Len(issued)
EarlierLives == [until : 1 .. MaxTime, granted : [Sources -> SUBSET Attempts]]

STypeOK ==
    /\ TypeOK
    /\ life \in 0 .. MaxRestarts /\ ops \in 0 .. MaxOps
    /\ past \in Seq(EarlierLives) /\ Len(past) = life
    /\ issued \in Seq(Sessions)
    /\ jar \in Cookies
    /\ page \in [Tabs -> [kind : {"none", "form", "app"}, session : Cookies]]
    /\ sent \in [Tabs -> [what : {"idle", "form", "app", "login", "change", "logout"}, cookie : Cookies]]
    /\ answer \in [status : {"none", "form", "limited", "expired", "mismatch", "failed", "login",
                             "logout", "page", "change"},
                   cookie : Cookies]

\* Whoever is served a page or makes a change logged in with the access token
\* less than sessionTTL ago, since the last restart if that changes the key.
\* Neither using a session nor opening the login form prolongs it.
ServedAfterLogin ==
    answer.status \in {"page", "change"} =>
        LET s == issued[answer.cookie]
        IN  s.authed /\ clock - s.at < TTL /\ (Ephemeral => s.life = life)

\* The attempts of source k that the limiter of life n has admitted.
GrantedOf(n, k) == IF n \in DOMAIN past THEN past[n].granted[k] ELSE granted[k]

\* Those of every life with an instant in (from, to].
AdmittedIn(k, from, to) ==
    UNION {{n} \X {a \in GrantedOf(n, k) : a.at > from /\ a.at <= to} : n \in 1 .. Len(past) + 1}

\* The lives that ended in (from, to].
EndedIn(from, to) == {n \in DOMAIN past : past[n].until > from /\ past[n].until <= to}

\* New in server.go starts with an empty limiter.  A restart costs no more than that:
\* a window, wherever it begins, admits Max attempts of a source, and Max more for
\* each restart within it, even if requests of several lives are delayed.
LoginsPerStart ==
    \A k \in Sources, end \in 1 .. MaxTime :
        LET from == end - (Window - Skew)
        IN  Cardinality(AdmittedIn(k, from, end)) <= Max * (1 + Cardinality(EndedIn(from, end)))

\* A form is refused as "csrf token mismatch" only because the user logged in
\* elsewhere meanwhile, or two tabs asked for the form when the browser had no valid
\* session.  To open the form in another tab does not spoil one already open.
MismatchIsExplained ==
    answer.status = "mismatch" => issued[answer.cookie].authed \/ issued[answer.cookie].fresh

\* The answers tab t still waits for, if no other tab changes the jar, no session
\* expires and the daemon is not restarted: handleLoginForm sends on whoever is logged
\* in, requireAuth sends back whoever is not.
Hops(t) ==
    LET c == sent[t].cookie
    IN  CASE sent[t].what = "idle"   -> 0
          [] sent[t].what = "form"   -> IF ~Authorised(c) THEN 1 ELSE IF Authorised(jar) THEN 2 ELSE 3
          [] sent[t].what = "app"    -> IF Authorised(c) THEN 1 ELSE IF ~Authorised(jar) THEN 2 ELSE 3
          [] sent[t].what = "login"  -> IF t \in Waiting THEN 3 ELSE 4
          [] sent[t].what = "logout" -> 2
          [] sent[t].what = "change" -> 3

\* Every answer brings a tab closer to a page or an error: / and /login never send it
\* to and fro, even when the cookie it sent is no longer the one in the jar.
RedirectsGetCloser == [][\A t \in Tabs : Serve(t) => Hops(t)' < Hops(t)]_allVars

\* The redirects between /login and / come to an end, whatever the state of the
\* cookie: every request of a tab leads to a page or an error.
NavigationEnds == \A t \in Tabs : (sent[t] # Idle) ~> (sent[t] = Idle)

=============================================================================
