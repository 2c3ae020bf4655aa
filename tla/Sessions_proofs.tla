--------------------------- MODULE Sessions_proofs ---------------------------
(***************************************************************************)
(* For any number of tabs and addresses, any lifetime of sessions and any  *)
(* number of restarts: what requireAuth lets through, which forms are      *)
(* refused, and that the limiter keeps its promise among them.             *)
(***************************************************************************)
EXTENDS Sessions, RateLimiter_proofs, FunctionTheorems, NaturalsInduction, WellFoundedInduction

Requested == {"idle", "form", "app", "login", "change", "logout"}

\* A session keeps the expiry and the key of the moment it was signed, and every
\* cookie is one of them.
SessionsOK ==
    /\ clock \in Nat /\ life \in Nat
    /\ issued \in Seq(Sessions)
    /\ \A k \in DOMAIN issued :
          issued[k].expiry = issued[k].at + TTL /\ issued[k].key = (IF Ephemeral THEN issued[k].life ELSE 0)
    /\ jar \in Cookies
    /\ sent \in [Tabs -> [what : Requested, cookie : Cookies]]

\* Who gets a page or a change is authorised at that moment.
AnswerOK ==
    answer.status \in {"page", "change"} => answer.cookie \in Cookies /\ Authorised(answer.cookie)

CookieInv == SessionsOK /\ AnswerOK

-----------------------------------------------------------------------------
(* Steps of the parts.                                                     *)

\* An answer other than a page or a change asks for nothing.
LEMMA OtherAnswer ==
    ASSUME answer'.status \notin {"page", "change"}
    PROVE  AnswerOK'
BY DEF AnswerOK

\* A new session, whose number the answer may use as a cookie.
LEMMA SetSessionType ==
    ASSUME SessionsOK, NEW authed \in BOOLEAN, NEW c, SetSession(authed, c), UNCHANGED <<clock, life>>,
           NEW t \in Tabs, NEW what \in Requested, NEW cookie \in 0 .. Len(issued) + 1,
           sent' = [sent EXCEPT ![t] = [what |-> what, cookie |-> cookie]]
    PROVE  SessionsOK'
<1> DEFINE s == [authed |-> authed, expiry |-> clock + TTL, key |-> CookieKey,
                 at |-> clock, life |-> life, fresh |-> ~Valid(c)]
<1>1. issued' = Append(issued, s) /\ jar' = Len(issued) + 1
  BY DEF SetSession
<1>2. s \in Sessions
  <2>1. TTL \in Nat /\ clock \in Nat /\ life \in Nat
    BY TTLAssumption DEF SessionsOK
  <2>2. (~Valid(c)) \in BOOLEAN
    BY SMT
  <2> QED BY <2>1, <2>2 DEF Sessions, CookieKey
<1>3. s.expiry = s.at + TTL /\ s.key = (IF Ephemeral THEN s.life ELSE 0)
  BY DEF CookieKey
<1> HIDE DEF s
<1>4. issued \in Seq(Sessions)
  BY DEF SessionsOK
<1>5. /\ issued' \in Seq(Sessions) /\ Len(issued') = Len(issued) + 1
      /\ \A k \in DOMAIN issued' : IF k \in DOMAIN issued THEN issued'[k] = issued[k] ELSE issued'[k] = s
  BY <1>1, <1>2, <1>4
<1>6. \A k \in DOMAIN issued' :
         issued'[k].expiry = issued'[k].at + TTL /\ issued'[k].key = (IF Ephemeral THEN issued'[k].life ELSE 0)
  BY <1>3, <1>5 DEF SessionsOK
<1>7. Len(issued) \in Nat /\ Cookies \subseteq Cookies' /\ Cookies' = 0 .. Len(issued) + 1
  BY <1>4, <1>5 DEF Cookies
<1>8. sent' \in [Tabs -> [what : Requested, cookie : Cookies']]
  BY <1>7 DEF SessionsOK
<1> QED BY <1>1, <1>5, <1>6, <1>7, <1>8 DEF SessionsOK

\* No new session; the jar is kept or emptied.
LEMMA NoSessionType ==
    ASSUME SessionsOK, UNCHANGED <<clock, life, issued>>, jar' \in {jar, 0},
           NEW t \in Tabs, NEW what \in Requested, NEW cookie \in Cookies,
           sent' = [sent EXCEPT ![t] = [what |-> what, cookie |-> cookie]]
    PROVE  SessionsOK'
<1>1. Cookies' = Cookies /\ 0 \in Cookies
  BY DEF SessionsOK, Cookies
<1> QED BY <1>1 DEF SessionsOK

\* The server changes nothing that SessionsOK speaks of.
LEMMA SameSessions ==
    ASSUME SessionsOK, UNCHANGED <<clock, life, issued, jar, sent>>
    PROVE  SessionsOK'
BY DEF SessionsOK, Cookies

-----------------------------------------------------------------------------
(* The actions.                                                            *)

LEMMA InitCookieInv == SInit => CookieInv
<1> SUFFICES ASSUME SInit PROVE CookieInv
  OBVIOUS
<1>1. clock = 1 /\ life = 0 /\ issued = <<>> /\ jar = 0 /\ sent = [t \in Tabs |-> Idle] /\ answer = NoAnswer
  BY DEF SInit, Init
<1>2. Cookies = {0}
  BY <1>1 DEF Cookies
<1>3. SessionsOK
  BY <1>1, <1>2 DEF SessionsOK, Idle, Requested
<1>4. AnswerOK
  BY <1>1 DEF AnswerOK, NoAnswer
<1> QED BY <1>3, <1>4 DEF CookieInv

LEMMA SendCookieInv ==
    ASSUME CookieInv, NEW t \in Tabs, NEW what \in Requested, Send(t, what)
    PROVE  CookieInv'
<1>1. SessionsOK'
  <2>1. SessionsOK /\ jar \in Cookies
    BY DEF CookieInv, SessionsOK
  <2>2. UNCHANGED <<clock, life, issued>> /\ jar' \in {jar, 0}
    BY DEF Send, vars
  <2>3. sent' = [sent EXCEPT ![t] = [what |-> what, cookie |-> jar]]
    BY DEF Send
  <2> QED BY <2>1, <2>2, <2>3, NoSessionType
<1>2. answer'.status \notin {"page", "change"}
  BY DEF Send, NoAnswer
<1> QED BY <1>1, <1>2, OtherAnswer DEF CookieInv

\* A handler that answers other than by a page or a change, and starts no session.
LEMMA AnswerType ==
    ASSUME SessionsOK, NEW t \in Tabs, UNCHANGED <<clock, life, issued>>, jar' \in {jar, 0},
           \/ sent' = [sent EXCEPT ![t] = Idle]
           \/ \E what \in Requested, cookie \in {jar, 0} :
                 sent' = [sent EXCEPT ![t] = [what |-> what, cookie |-> cookie]]
    PROVE  SessionsOK'
<1>1. jar \in Cookies /\ 0 \in Cookies
  BY DEF SessionsOK, Cookies
<1>2. CASE sent' = [sent EXCEPT ![t] = Idle]
  BY <1>1, <1>2, NoSessionType DEF Idle, Requested
<1>3. CASE \E what \in Requested, cookie \in {jar, 0} :
              sent' = [sent EXCEPT ![t] = [what |-> what, cookie |-> cookie]]
  BY <1>1, <1>3, NoSessionType
<1> QED BY <1>2, <1>3

LEMMA LoginFormCookieInv == ASSUME CookieInv, NEW t \in Tabs, LoginForm(t) PROVE CookieInv'
<1> DEFINE c == sent[t].cookie
<1>0. SessionsOK /\ UNCHANGED <<clock, life>>
  BY DEF CookieInv, LoginForm, Handles, vars
<1>1. answer'.status \notin {"page", "change"}
  BY DEF LoginForm, Answer
<1>2. SessionsOK'
  <2>1. CASE Authorised(c) /\ Redirect(t, "app", jar) /\ KeepSession
    BY <1>0, <2>1, AnswerType DEF Redirect, KeepSession, Requested
  <2>2. CASE Valid(c) /\ ~Authorised(c) /\ KeepSession /\ Show(t, "form", c)
    BY <1>0, <2>2, AnswerType DEF Show, KeepSession
  <2>3. CASE ~Valid(c) /\ SetSession(FALSE, c) /\ Show(t, "form", Len(issued) + 1)
    <3>1. Len(issued) \in Nat
      BY <1>0 DEF SessionsOK
    <3>2. sent' = [sent EXCEPT ![t] = [what |-> "idle", cookie |-> 0]]
      BY <2>3 DEF Show, Idle
    <3>3. 0 \in 0 .. Len(issued) + 1 /\ "idle" \in Requested
      BY <3>1 DEF Requested
    <3>4. SetSession(FALSE, c)
      BY <2>3
    <3> HIDE DEF c
    <3> QED BY <1>0, <3>2, <3>3, <3>4, SetSessionType
  <2> QED BY <2>1, <2>2, <2>3 DEF LoginForm
<1> QED BY <1>1, <1>2, OtherAnswer DEF CookieInv

LEMMA LoginAdmittedCookieInv == ASSUME CookieInv, NEW t \in Tabs, LoginAdmitted(t) PROVE CookieInv'
<1> DEFINE c == sent[t].cookie
<1>0. SessionsOK /\ UNCHANGED <<clock, life>>
  BY DEF CookieInv, LoginAdmitted, Handles, Admit, Count
<1>1. answer'.status \notin {"page", "change"}
  <2>1. PICK status \in {"expired", "mismatch", "failed", "login"} : Answer(t, status)
    BY DEF LoginAdmitted, Refused
  <2> QED BY <2>1 DEF Answer
<1>2. SessionsOK'
  <2>1. CASE KeepSession /\ (Refused(t, "mismatch") \/ Redirect(t, "form", jar))
    BY <1>0, <2>1, AnswerType DEF Redirect, Refused, Show, KeepSession, Requested
  <2>2. CASE SetSession(TRUE, c) /\ Redirect(t, "app", Len(issued) + 1)
    <3>1. Len(issued) \in Nat
      BY <1>0 DEF SessionsOK
    <3>2. sent' = [sent EXCEPT ![t] = [what |-> "app", cookie |-> Len(issued) + 1]]
      BY <2>2 DEF Redirect
    <3>3. Len(issued) + 1 \in 0 .. Len(issued) + 1 /\ "app" \in Requested
      BY <3>1 DEF Requested
    <3>4. SetSession(TRUE, c)
      BY <2>2
    <3> HIDE DEF c
    <3> QED BY <1>0, <3>2, <3>3, <3>4, SetSessionType
  <2> QED BY <2>1, <2>2 DEF LoginAdmitted
<1> QED BY <1>1, <1>2, OtherAnswer DEF CookieInv

\* requireAuth, before a page and before a change.
LEMMA RequireAuthCookieInv == ASSUME CookieInv, NEW t \in Tabs, Page(t) \/ Change(t) PROVE CookieInv'
<1> DEFINE c == sent[t].cookie
<1>0. SessionsOK /\ c \in Cookies
  BY DEF CookieInv, SessionsOK
<1>1. UNCHANGED <<clock, life, issued, jar>>
  BY DEF Page, Change, Handles, KeepSession, vars
<1>2. SessionsOK'
  BY <1>0, <1>1, AnswerType DEF Page, Change, Show, Redirect, Refused, Requested
<1>4. answer'.cookie = c
  BY DEF Page, Change, Answer, Refused
<1>5. CASE answer'.status \in {"page", "change"}
  <2>1. Authorised(c)
    BY <1>5 DEF Page, Change, Answer, Refused
  <2>2. Authorised(answer'.cookie)
    BY <1>4, <2>1
  <2>3. AnswerOK'
    BY <1>0, <1>1, <1>4, <2>2 DEF AnswerOK, Authorised, Valid, CookieKey, Cookies
  <2> QED BY <1>2, <2>3 DEF CookieInv
<1>6. CASE answer'.status \notin {"page", "change"}
  BY <1>2, <1>6, OtherAnswer DEF CookieInv
<1> QED BY <1>5, <1>6

\* The invariant is inductive.
LEMMA NextCookieInv == CookieInv /\ [SNext]_allVars => CookieInv'
<1> SUFFICES ASSUME CookieInv, [SNext]_allVars PROVE CookieInv'
  OBVIOUS
<1>0. SessionsOK /\ AnswerOK
  BY DEF CookieInv
<1>1. CASE UNCHANGED <<clock, life, issued, jar, sent, answer>>
  <2>1. SessionsOK'
    BY <1>0, <1>1, SameSessions
  <2> QED BY <1>0, <1>1, <2>1 DEF CookieInv, AnswerOK, Authorised, Valid, CookieKey, Cookies
<1>2. CASE UNCHANGED allVars
  BY <1>1, <1>2 DEF allVars, vars, sessionVars
<1>3. ASSUME NEW t \in Tabs, NEW what \in {"form", "app", "login", "change", "logout"}, Send(t, what)
      PROVE  CookieInv'
  BY <1>3, SendCookieInv DEF Requested
<1>4. ASSUME NEW t \in Tabs, LoginForm(t) PROVE CookieInv'
  BY <1>4, LoginFormCookieInv
<1>5. ASSUME NEW t \in Tabs, LoginArrives(t) PROVE CookieInv'
  <2>1. UNCHANGED <<clock, life, issued, jar, sent, answer>>
    BY <1>5 DEF LoginArrives, Handles, Login
  <2> QED BY <1>1, <2>1
<1>6. ASSUME NEW t \in Tabs, LoginLimited(t) PROVE CookieInv'
  <2>1. SessionsOK'
    BY <1>0, <1>6, AnswerType DEF LoginLimited, Handles, Refuse, Count, KeepSession, Refused, Show
  <2>2. answer'.status \notin {"page", "change"}
    BY <1>6 DEF LoginLimited, Refused, Answer
  <2> QED BY <2>1, <2>2, OtherAnswer DEF CookieInv
<1>7. ASSUME NEW t \in Tabs, LoginAdmitted(t) PROVE CookieInv'
  BY <1>7, LoginAdmittedCookieInv
<1>8. ASSUME NEW t \in Tabs, Logout(t) PROVE CookieInv'
  <2>1. SessionsOK'
    BY <1>0, <1>8, AnswerType DEF Logout, Handles, Redirect, vars, Requested
  <2>2. answer'.status \notin {"page", "change"}
    BY <1>8 DEF Logout, Answer
  <2> QED BY <2>1, <2>2, OtherAnswer DEF CookieInv
<1>9. ASSUME NEW t \in Tabs, Page(t) \/ Change(t) PROVE CookieInv'
  BY <1>9, RequireAuthCookieInv
<1>10. CASE Restart
  <2>1. SessionsOK'
    BY <1>0, <1>10 DEF Restart, SessionsOK, Cookies, Idle, Requested
  <2>2. answer'.status \notin {"page", "change"}
    BY <1>10 DEF Restart, NoAnswer
  <2> QED BY <2>1, <2>2, OtherAnswer DEF CookieInv
<1>11. CASE PassTime
  <2>1. SessionsOK'
    BY <1>0, <1>11 DEF PassTime, Tick, SessionsOK, Cookies
  <2>2. answer'.status \notin {"page", "change"}
    BY <1>11 DEF PassTime, NoAnswer
  <2> QED BY <2>1, <2>2, OtherAnswer DEF CookieInv
<1> QED
  BY <1>2, <1>3, <1>4, <1>5, <1>6, <1>7, <1>8, <1>9, <1>10, <1>11 DEF SNext, Serve

LEMMA CookiesInductive == SSpec => []CookieInv
BY InitCookieInv, NextCookieInv, PTL DEF SSpec

-----------------------------------------------------------------------------
(* The theorems.                                                           *)

\* requireAuth lets through only who logged in within sessionTTL, and since the
\* last start if the key is made up at every start.
THEOREM PagesNeedALogin == SSpec => []ServedAfterLogin
<1>1. CookieInv => ServedAfterLogin
  <2> SUFFICES ASSUME CookieInv, answer.status \in {"page", "change"}
               PROVE  LET s == issued[answer.cookie]
                      IN  s.authed /\ clock - s.at < TTL /\ (Ephemeral => s.life = life)
    BY DEF ServedAfterLogin
  <2> DEFINE c == answer.cookie
  <2>1. c \in DOMAIN issued /\ Valid(c) /\ issued[c].authed
    BY DEF CookieInv, AnswerOK, Authorised, Valid, SessionsOK, Cookies
  <2>2. issued[c] \in Sessions /\ issued[c].expiry = issued[c].at + TTL
        /\ issued[c].key = (IF Ephemeral THEN issued[c].life ELSE 0)
    BY <2>1 DEF CookieInv, SessionsOK
  <2>3. clock < issued[c].at + TTL /\ clock \in Nat /\ issued[c].at \in Nat /\ TTL \in Nat
    BY <2>1, <2>2, TTLAssumption DEF Valid, Sessions, CookieInv, SessionsOK
  <2>4. clock - issued[c].at < TTL
    BY <2>3
  <2>5. Ephemeral => issued[c].life = life
    BY <2>1, <2>2 DEF Valid, CookieKey
  <2> QED BY <2>1, <2>4, <2>5
<1> QED BY <1>1, CookiesInductive, PTL

-----------------------------------------------------------------------------
(* Refused forms.                                                          *)

\* The server signs a session for one who has none, or for one who logs in.
HasReason(s) == s.authed \/ s.fresh

MInv ==
    /\ CookieInv
    /\ \A k \in DOMAIN issued : HasReason(issued[k])
    /\ answer.status = "mismatch" => answer.cookie \in DOMAIN issued

\* What a step may do to the sessions.
LEMMA IssuedGrows ==
    ASSUME CookieInv, [SNext]_allVars
    PROVE  \/ issued' = issued
           \/ /\ answer'.status # "mismatch"
              /\ \E s : issued' = Append(issued, s) /\ HasReason(s)
<1>1. ASSUME NEW t \in Tabs, LoginForm(t), issued' # issued
      PROVE  answer'.status # "mismatch" /\ \E s : issued' = Append(issued, s) /\ HasReason(s)
  <2>1. ~Valid(sent[t].cookie) /\ SetSession(FALSE, sent[t].cookie)
    BY <1>1 DEF LoginForm, KeepSession
  <2> DEFINE s == [authed |-> FALSE, expiry |-> clock + TTL, key |-> CookieKey,
                   at |-> clock, life |-> life, fresh |-> ~Valid(sent[t].cookie)]
  <2>2. HasReason(s) /\ issued' = Append(issued, s)
    BY <2>1 DEF HasReason, SetSession
  <2>3. answer'.status # "mismatch"
    BY <1>1 DEF LoginForm, Answer
  <2> QED BY <2>2, <2>3
<1>2. ASSUME NEW t \in Tabs, LoginAdmitted(t), issued' # issued
      PROVE  answer'.status # "mismatch" /\ \E s : issued' = Append(issued, s) /\ HasReason(s)
  <2>1. SetSession(TRUE, sent[t].cookie) /\ Answer(t, "login")
    <3>1. ~KeepSession
      BY <1>2 DEF KeepSession
    <3> QED BY <1>2, <3>1 DEF LoginAdmitted
  <2> DEFINE s == [authed |-> TRUE, expiry |-> clock + TTL, key |-> CookieKey,
                   at |-> clock, life |-> life, fresh |-> ~Valid(sent[t].cookie)]
  <2>2. HasReason(s) /\ issued' = Append(issued, s)
    BY <2>1 DEF HasReason, SetSession
  <2>3. answer'.status # "mismatch"
    BY <2>1 DEF Answer
  <2> QED BY <2>2, <2>3
<1>3. \A t \in Tabs, what \in {"form", "app", "login", "change", "logout"} :
         Send(t, what) => issued' = issued
  BY DEF Send
<1>4. ASSUME NEW t \in Tabs,
             LoginArrives(t) \/ LoginLimited(t) \/ Logout(t) \/ Page(t) \/ Change(t)
      PROVE  issued' = issued
  BY <1>4 DEF LoginArrives, LoginLimited, Logout, Page, Change, KeepSession
<1>5. Restart \/ PassTime \/ UNCHANGED allVars => issued' = issued
  BY DEF Restart, PassTime, allVars, sessionVars
<1> QED BY <1>1, <1>2, <1>3, <1>4, <1>5 DEF SNext, Serve

\* What a step may answer.
LEMMA MismatchAnswered ==
    ASSUME MInv, [SNext]_allVars, answer'.status = "mismatch", issued' = issued
    PROVE  answer'.cookie \in DOMAIN issued
<1>1. CASE answer' = answer
  BY <1>1 DEF MInv
<1>2. ASSUME NEW t \in Tabs, LoginAdmitted(t) \/ Change(t) PROVE answer'.cookie \in DOMAIN issued
  <2>1. Valid(sent[t].cookie) /\ answer'.cookie = sent[t].cookie
    <3>1. CASE LoginAdmitted(t)
      <4>1. \/ Valid(sent[t].cookie) /\ Answer(t, "mismatch")
            \/ \E status \in {"expired", "failed", "login"} : Answer(t, status)
        BY <3>1 DEF LoginAdmitted, Refused
      <4> QED BY <4>1 DEF Answer
    <3>2. CASE Change(t)
      <4>1. \/ Valid(sent[t].cookie) /\ Answer(t, "mismatch")
            \/ \E status \in {"expired", "change"} : Answer(t, status)
        BY <3>2 DEF Change, Refused, Authorised
      <4> QED BY <4>1 DEF Answer
    <3> QED BY <1>2, <3>1, <3>2
  <2>2. sent[t].cookie \in Cookies /\ sent[t].cookie # 0
    BY <2>1 DEF MInv, CookieInv, SessionsOK, Valid
  <2> QED BY <2>1, <2>2 DEF MInv, CookieInv, SessionsOK, Cookies
<1>3. ASSUME NEW t \in Tabs, NEW what \in {"form", "app", "login", "change", "logout"}, Send(t, what)
      PROVE  FALSE
  BY <1>3 DEF Send, NoAnswer
<1>4. ASSUME NEW t \in Tabs, LoginForm(t) \/ LoginLimited(t) \/ Logout(t) \/ Page(t) PROVE FALSE
  <2>1. \E status \in {"form", "limited", "logout", "page", "expired"} : Answer(t, status)
    BY <1>4 DEF LoginForm, LoginLimited, Logout, Page, Refused
  <2> QED BY <2>1 DEF Answer
<1>5. ASSUME NEW t \in Tabs, LoginArrives(t) PROVE answer' = answer
  BY <1>5 DEF LoginArrives
<1>6. ~Restart /\ ~PassTime /\ (UNCHANGED allVars => answer' = answer)
  BY DEF Restart, PassTime, NoAnswer, allVars, sessionVars
<1> QED BY <1>1, <1>2, <1>3, <1>4, <1>5, <1>6 DEF SNext, Serve

LEMMA NextMInv == MInv /\ [SNext]_allVars => MInv'
<1> SUFFICES ASSUME MInv, [SNext]_allVars PROVE MInv'
  OBVIOUS
<1>0. CookieInv /\ CookieInv' /\ issued \in Seq(Sessions)
  BY NextCookieInv DEF MInv, CookieInv, SessionsOK
<1>1. CASE issued' = issued
  BY <1>0, <1>1, MismatchAnswered DEF MInv, HasReason
<1>2. CASE issued' # issued
  <2>1. PICK s : answer'.status # "mismatch" /\ issued' = Append(issued, s) /\ HasReason(s)
    BY <1>0, <1>2, IssuedGrows
  <2>2. \A k \in DOMAIN issued' : IF k \in DOMAIN issued THEN issued'[k] = issued[k] ELSE issued'[k] = s
    BY <1>0, <2>1
  <2>3. \A k \in DOMAIN issued' : HasReason(issued'[k])
    BY <2>1, <2>2 DEF MInv
  <2> QED BY <1>0, <2>1, <2>3 DEF MInv, HasReason
<1> QED BY <1>1, <1>2

\* handleLoginForm keeps the session that a browser has: a form refused with "csrf
\* token mismatch" belongs to a browser that had logged in meanwhile, or was asked for
\* when the browser had no valid session, however many tabs are open.
THEOREM MismatchHasCause == SSpec => []MismatchIsExplained
<1>1. SInit => MInv
  BY InitCookieInv DEF SInit, MInv, NoAnswer
<1>2. MInv => MismatchIsExplained
  BY DEF MInv, HasReason, MismatchIsExplained
<1> QED BY <1>1, <1>2, NextMInv, PTL DEF SSpec

-----------------------------------------------------------------------------
(* The limiter inside the login.                                           *)

\* A step of the login is one of the limiter's own, or leaves the limiter alone, or
\* begins it anew.
LEMMA LimiterSteps == [SNext]_allVars => [Next]_vars \/ Restart
<1> SUFFICES ASSUME [SNext]_allVars, ~Restart PROVE [Next]_vars
  OBVIOUS
<1>1. \A t \in Tabs : LoginArrives(t) \/ LoginLimited(t) \/ LoginAdmitted(t) => Next
  BY DEF LoginArrives, LoginLimited, LoginAdmitted, Next, Tabs
<1>2. \A t \in Tabs : LoginForm(t) \/ Logout(t) \/ Page(t) \/ Change(t) => UNCHANGED vars
  BY DEF LoginForm, Logout, Page, Change
<1>3. \A t \in Tabs, what \in {"form", "app", "login", "change", "logout"} :
         Send(t, what) => UNCHANGED vars
  BY DEF Send
<1>4. PassTime => Next
  BY DEF PassTime, Next
<1>5. UNCHANGED allVars => UNCHANGED vars
  BY DEF allVars
<1> QED BY <1>1, <1>2, <1>3, <1>4, <1>5 DEF SNext, Serve

LEMMA NextLimiterInv == IInv /\ [SNext]_allVars => IInv'
<1> SUFFICES ASSUME IInv, Restart PROVE IInv'
  BY LimiterSteps, NextIInv
<1>0. /\ clock' = clock /\ clock \in 1 .. MaxTime
      /\ request' = [t \in Requests |-> NoRequest]
      /\ hits' = [k \in Sources |-> {}] /\ granted' = [k \in Sources |-> {}]
  BY DEF Restart, Tabs, IInv, TypeOK
<1>1. IsFiniteSet({}) /\ Cardinality({}) = 0 /\ 0 <= Max
  BY FS_EmptySet, LimitAssumption
<1>2. TypeOK'
  BY <1>0, <1>1 DEF TypeOK
<1>3. WaitIsShort' /\ DroppedIsOld' /\ CountedWasGranted' /\ Numbered'
  BY <1>0 DEF WaitIsShort, Waiting, DroppedIsOld, CountedWasGranted, Numbered
<1>4. WindowBound'
  <2>1. ASSUME NEW k \in Sources, NEW from, NEW to
        PROVE  GrantedIn(k, from, to)' = {}
    BY <1>0 DEF GrantedIn
  <2> QED BY <1>1, <2>1 DEF WindowBound
<1> QED BY <1>2, <1>3, <1>4 DEF IInv

-----------------------------------------------------------------------------
(* Counting over lives.                                                    *)

LEMMA Smallest == ASSUME NEW S \in SUBSET Nat, S # {} PROVE \E i \in S : \A j \in S : i <= j
<1>1. PICK i \in S : \A j \in S : ~(<<j, i>> \in OpToRel(<, Nat))
  BY NatLessThanWellFounded, WFMin
<1>2. ASSUME NEW j \in S PROVE i <= j
  <2>1. <<j, i>> \in Nat \X Nat
    OBVIOUS
  <2>2. ~(j < i)
    BY <1>1, <2>1 DEF OpToRel
  <2> QED BY <2>2
<1> QED BY <1>2

LEMMA Largest ==
    ASSUME NEW n \in Nat, NEW S \in SUBSET (1 .. n), S # {}
    PROVE  \E i \in S : \A j \in S : j <= i
<1> DEFINE T == {j \in Nat : n - j \in S}
<1>1. T # {}
  <2>1. PICK i \in S : TRUE
    OBVIOUS
  <2>2. i \in 1 .. n
    OBVIOUS
  <2>3. n - i \in Nat /\ n - (n - i) = i
    BY <2>2
  <2> QED BY <2>1, <2>3
<1>2. PICK i \in T : \A j \in T : i <= j
  BY <1>1, Smallest
<1>3. ASSUME NEW j \in S PROVE j <= n - i
  <2>1. j \in 1 .. n
    OBVIOUS
  <2>2. n - j \in Nat /\ n - (n - j) = j
    BY <2>1
  <2>3. i <= n - j
    BY <1>2, <2>2
  <2> QED BY <1>2, <2>1, <2>3
<1> QED BY <1>2, <1>3

\* A set of at most Max members can be numbered up to Max.
LEMMA Numbering ==
    ASSUME NEW S, IsFiniteSet(S), Cardinality(S) <= Max
    PROVE  \E f \in [S -> 1 .. Max] : \A a, b \in S : f[a] = f[b] => a = b
<1>1. Cardinality(S) \in Nat /\ ExistsBijection(1 .. Cardinality(S), S)
  BY FS_CardinalityType
<1>2. PICK f : f \in Bijection(S, 1 .. Cardinality(S))
  BY <1>1, Fun_ExistsBijSymmetric DEF ExistsBijection
<1>3. f \in [S -> 1 .. Cardinality(S)] /\ \A a, b \in S : f[a] = f[b] => a = b
  BY <1>2 DEF Bijection, Injection, IsInjective
<1>4. 1 .. Cardinality(S) \subseteq 1 .. Max
  BY <1>1, LimitAssumption
<1> QED BY <1>3, <1>4

\* So many lives, and at most Max attempts in each.
LEMMA AtMostMaxEach ==
    ASSUME NEW L, IsFiniteSet(L), NEW G,
           \A n \in L : IsFiniteSet(G[n]) /\ Cardinality(G[n]) <= Max
    PROVE  /\ IsFiniteSet(UNION {{n} \X G[n] : n \in L})
           /\ Cardinality(UNION {{n} \X G[n] : n \in L}) <= Cardinality(L) * Max
<1> DEFINE U == UNION {{n} \X G[n] : n \in L}
           Numbers(n) == {f \in [G[n] -> 1 .. Max] : \A a, b \in G[n] : f[a] = f[b] => a = b}
           number == [n \in L |-> CHOOSE f : f \in Numbers(n)]
           pair == [x \in U |-> <<x[1], number[x[1]][x[2]]>>]
<1>1. ASSUME NEW n \in L PROVE number[n] \in Numbers(n)
  <2>1. Numbers(n) # {}
    BY Numbering
  <2> HIDE DEF Numbers
  <2> QED BY <2>1
<1>2. ASSUME NEW x \in U PROVE x[1] \in L /\ x[2] \in G[x[1]] /\ x = <<x[1], x[2]>>
  OBVIOUS
<1> HIDE DEF number, U
<1>3. pair \in [U -> L \X (1 .. Max)]
  <2>1. ASSUME NEW x \in U PROVE number[x[1]][x[2]] \in 1 .. Max
    BY <1>1, <1>2
  <2> QED BY <1>2, <2>1
<1>4. ASSUME NEW x \in U, NEW y \in U, pair[x] = pair[y] PROVE x = y
  <2>1. x[1] = y[1] /\ number[x[1]][x[2]] = number[y[1]][y[2]]
    BY <1>4
  <2>2. x[2] = y[2]
    BY <1>1, <1>2, <2>1
  <2> QED BY <1>2, <2>1, <2>2
<1> HIDE DEF pair
<1>5. pair \in Injection(U, L \X (1 .. Max))
  BY <1>3, <1>4, Fun_IsInj
<1>6. IsFiniteSet(1 .. Max) /\ Cardinality(1 .. Max) = Max
  BY FS_Interval, LimitAssumption
<1>7. IsFiniteSet(L \X (1 .. Max)) /\ Cardinality(L \X (1 .. Max)) = Cardinality(L) * Max
  BY <1>6, FS_Product
<1>8. IsFiniteSet(U) /\ Cardinality(U) <= Cardinality(L \X (1 .. Max))
  BY <1>5, <1>7, FS_Injection
<1> QED BY <1>7, <1>8 DEF U

-----------------------------------------------------------------------------
(* The lives of the daemon.                                                *)

\* What WindowBound says of the present life, of the attempts g of another one.
Bounded(g) ==
    \A k \in Sources :
        /\ IsFiniteSet(g[k])
        /\ \A end \in 1 .. MaxTime :
              Cardinality({a \in g[k] : a.at > end - (Window - Skew) /\ a.at <= end}) <= Max

\* The attempts of a life come after the end of the lives before it and before its own.
LivesOK ==
    /\ past \in Seq(EarlierLives) /\ Len(past) = life
    /\ \A n \in DOMAIN past : Bounded(past[n].granted)
    /\ \A n \in DOMAIN past, k \in Sources : \A a \in past[n].granted[k] : a.at <= past[n].until
    /\ \A n, m \in DOMAIN past, k \in Sources :
          n < m => \A a \in past[m].granted[k] : past[n].until <= a.at
    /\ \A n \in DOMAIN past, k \in Sources : \A a \in granted[k] : past[n].until <= a.at
    /\ \A n \in DOMAIN past : past[n].until <= clock
    /\ \A n \in DOMAIN past, t \in Waiting : past[n].until <= request[t].now

LivesInv == IInv /\ LivesOK

LEMMA InitLivesInv == SInit => LivesInv
<1> SUFFICES ASSUME SInit PROVE LivesInv
  OBVIOUS
<1>1. IInv /\ past = <<>> /\ life = 0
  BY InitIInv DEF SInit
<1>2. past \in Seq(EarlierLives) /\ Len(past) = 0 /\ DOMAIN past = {}
  BY <1>1
<1> QED BY <1>1, <1>2 DEF LivesInv, LivesOK

\* The clock goes on; requests and attempts of the present life are not of before it.
LEMMA LimiterGoesOn ==
    ASSUME IInv, [Next]_vars
    PROVE  /\ clock \in Nat /\ clock' \in Nat /\ clock <= clock'
           /\ \A t \in Waiting' : (t \in Waiting /\ request'[t] = request[t]) \/ request'[t].now = clock
           /\ \A k \in Sources : \A a \in granted'[k] :
                 a \in granted[k] \/ \E t \in Waiting : a.at = request[t].now
<1>0. TypeOK
  BY DEF IInv
<1>1. CASE Tick
  BY <1>0, <1>1 DEF Tick, TypeOK, Waiting
<1>2. ASSUME NEW r \in Requests, NEW source \in Sources, Login(r, source)
      PROVE  /\ clock' = clock /\ granted' = granted
             /\ \A t \in Waiting' : (t \in Waiting /\ request'[t] = request[t]) \/ request'[t].now = clock
  BY <1>0, <1>2 DEF Login, TypeOK, Waiting
<1>3. ASSUME NEW r \in Requests, Refuse(r)
      PROVE  clock' = clock /\ granted' = granted /\ \A t \in Waiting' : t \in Waiting /\ request'[t] = request[t]
  BY <1>0, <1>3 DEF Refuse, Count, TypeOK, Waiting
<1>4. ASSUME NEW r \in Requests, Admit(r)
      PROVE  /\ clock' = clock /\ \A t \in Waiting' : t \in Waiting /\ request'[t] = request[t]
             /\ r \in Waiting
             /\ \A k \in Sources : \A a \in granted'[k] : a \in granted[k] \/ a.at = request[r].now
  <2>1. clock' = clock /\ r \in Waiting /\ \A t \in Waiting' : t \in Waiting /\ request'[t] = request[t]
    BY <1>0, <1>4 DEF Admit, Count, TypeOK, Waiting
  <2>2. granted' = [granted EXCEPT ![request[r].source] = @ \cup {Attempt(r)}] /\ Attempt(r).at = request[r].now
    BY <1>4 DEF Admit, Attempt
  <2>3. granted \in [Sources -> SUBSET Attempts]
    BY <1>0 DEF TypeOK
  <2> HIDE DEF Attempt
  <2> QED BY <2>1, <2>2, <2>3
<1>5. clock \in Nat
  BY <1>0 DEF TypeOK
<1>6. CASE UNCHANGED vars
  BY <1>5, <1>6 DEF vars, Waiting
<1> QED BY <1>1, <1>2, <1>3, <1>4, <1>5, <1>6 DEF Next

LEMMA PastStays == ASSUME [SNext]_allVars, ~Restart PROVE UNCHANGED <<life, past>>
<1>1. \A t \in Tabs, what \in {"form", "app", "login", "change", "logout"} :
         Send(t, what) => UNCHANGED <<life, past>>
  BY DEF Send
<1>2. \A t \in Tabs : Serve(t) => UNCHANGED <<life, past>>
  BY DEF Serve, LoginForm, LoginArrives, LoginLimited, LoginAdmitted, Logout, Page, Change, Handles
<1>3. PassTime \/ UNCHANGED allVars => UNCHANGED <<life, past>>
  BY DEF PassTime, allVars, sessionVars
<1> QED BY <1>1, <1>2, <1>3 DEF SNext

LEMMA NextLivesInv == LivesInv /\ [SNext]_allVars => LivesInv'
<1> SUFFICES ASSUME LivesInv, [SNext]_allVars PROVE LivesInv'
  OBVIOUS
<1>0. IInv /\ IInv' /\ LivesOK /\ TypeOK
  BY NextLimiterInv DEF LivesInv, IInv
<1>1. past \in Seq(EarlierLives) /\ Len(past) \in Nat /\ DOMAIN past = 1 .. Len(past)
  BY <1>0 DEF LivesOK
<1>2. ASSUME NEW n \in DOMAIN past PROVE past[n].until \in Nat /\ past[n] \in EarlierLives
  <2>1. past[n] \in EarlierLives
    BY <1>1
  <2> QED BY <2>1 DEF EarlierLives
<1>3. CASE ~Restart
  <2>1. UNCHANGED <<life, past>> /\ [Next]_vars
    BY <1>3, LimiterSteps, PastStays
  <2>2. /\ clock \in Nat /\ clock' \in Nat /\ clock <= clock'
        /\ \A t \in Waiting' : (t \in Waiting /\ request'[t] = request[t]) \/ request'[t].now = clock
        /\ \A k \in Sources : \A a \in granted'[k] :
              a \in granted[k] \/ \E t \in Waiting : a.at = request[t].now
    BY <1>0, <2>1, LimiterGoesOn
  <2>3. ASSUME NEW n \in DOMAIN past, NEW k \in Sources, NEW a \in granted'[k] PROVE past[n].until <= a.at
    BY <1>0, <2>2 DEF LivesOK
  <2>4. ASSUME NEW n \in DOMAIN past PROVE past[n].until <= clock'
    BY <1>0, <1>2, <2>2 DEF LivesOK
  <2>5. ASSUME NEW n \in DOMAIN past, NEW t \in Waiting' PROVE past[n].until <= request'[t].now
    BY <1>0, <2>2 DEF LivesOK
  <2> QED BY <1>0, <2>1, <2>3, <2>4, <2>5 DEF LivesInv, LivesOK
<1>4. CASE Restart
  <2> DEFINE ended == [until |-> clock, granted |-> granted]
  <2>1. /\ past' = Append(past, ended) /\ life' = life + 1 /\ clock' = clock
        /\ granted' = [k \in Sources |-> {}] /\ Waiting' = {}
    BY <1>4 DEF Restart, Waiting, Tabs
  <2>2. ended \in EarlierLives
    BY <1>0 DEF TypeOK, EarlierLives
  <2>3. Bounded(ended.granted)
    BY <1>0 DEF IInv, WindowBound, GrantedIn, Bounded, TypeOK
  <2>4. /\ clock \in Nat /\ ended.until = clock /\ ended.granted = granted
        /\ \A k \in Sources : \A a \in granted[k] : a.at <= clock
    BY <1>0 DEF IInv, TypeOK, DroppedIsOld
  <2> HIDE DEF ended
  <2>5. /\ past' \in Seq(EarlierLives) /\ Len(past') = Len(past) + 1 /\ DOMAIN past' = 1 .. Len(past) + 1
        /\ past'[Len(past) + 1] = ended /\ \A n \in DOMAIN past : past'[n] = past[n]
    BY <1>1, <2>1, <2>2
  <2>6. ASSUME NEW n \in DOMAIN past' PROVE n \in DOMAIN past \/ (n = Len(past) + 1 /\ past'[n] = ended)
    BY <1>1, <2>5
  <2>7. ASSUME NEW n \in DOMAIN past'
        PROVE  /\ Bounded(past'[n].granted)
               /\ \A k \in Sources : \A a \in past'[n].granted[k] : a.at <= past'[n].until
               /\ past'[n].until <= clock
    <3>1. CASE n \in DOMAIN past
      BY <1>0, <2>5, <3>1 DEF LivesOK
    <3>2. CASE n = Len(past) + 1 /\ past'[n] = ended
      BY <2>3, <2>4, <3>2
    <3> QED BY <2>6, <3>1, <3>2
  <2>8. ASSUME NEW n \in DOMAIN past', NEW m \in DOMAIN past', NEW k \in Sources, n < m,
               NEW a \in past'[m].granted[k]
        PROVE  past'[n].until <= a.at
    <3>1. n \in DOMAIN past
      BY <1>1, <2>5, <2>8
    <3>2. CASE m \in DOMAIN past
      BY <1>0, <2>5, <2>8, <3>1, <3>2 DEF LivesOK
    <3>3. CASE past'[m] = ended
      BY <1>0, <2>4, <2>5, <2>8, <3>1, <3>3 DEF LivesOK
    <3> QED BY <2>6, <3>2, <3>3
  <2>9. \A k \in Sources : granted'[k] = {}
    BY <2>1
  <2> QED BY <1>0, <2>1, <2>5, <2>7, <2>8, <2>9 DEF LivesInv, LivesOK
<1> QED BY <1>3, <1>4

\* The attempts of a window, life by life.
LEMMA EveryLifeBounded ==
    ASSUME LivesInv, NEW k \in Sources, NEW end \in 1 .. MaxTime, NEW n \in 1 .. Len(past) + 1
    PROVE  LET mine == {a \in GrantedOf(n, k) : a.at > end - (Window - Skew) /\ a.at <= end}
           IN  IsFiniteSet(mine) /\ Cardinality(mine) <= Max
<1> DEFINE mine == {a \in GrantedOf(n, k) : a.at > end - (Window - Skew) /\ a.at <= end}
<1>1. CASE n \in DOMAIN past
  <2>1. GrantedOf(n, k) = past[n].granted[k] /\ Bounded(past[n].granted)
    BY <1>1 DEF GrantedOf, LivesInv, LivesOK
  <2>2. IsFiniteSet(GrantedOf(n, k)) /\ Cardinality(mine) <= Max
    BY <2>1 DEF Bounded
  <2> QED BY <2>2, Part
<1>2. CASE n \notin DOMAIN past
  <2>1. GrantedOf(n, k) = granted[k] /\ mine = GrantedIn(k, end - (Window - Skew), end)
    BY <1>2 DEF GrantedOf, GrantedIn
  <2>2. IsFiniteSet(GrantedOf(n, k)) /\ Cardinality(mine) <= Max
    BY <2>1 DEF LivesInv, IInv, TypeOK, WindowBound
  <2> QED BY <2>2, Part
<1> QED BY <1>1, <1>2

\* Of the lives that have admitted something in a window, all but the last ended in it.
LEMMA EndedButOne ==
    ASSUME LivesInv, NEW k \in Sources, NEW from \in Int, NEW end \in Int,
           NEW L \in SUBSET (1 .. Len(past) + 1), L # {},
           \A n \in L : \E a \in GrantedOf(n, k) : a.at > from /\ a.at <= end
    PROVE  IsFiniteSet(L) /\ Cardinality(L) <= 1 + Cardinality(EndedIn(from, end))
<1>0. Len(past) \in Nat /\ DOMAIN past = 1 .. Len(past) /\ past \in Seq(EarlierLives)
  BY DEF LivesInv, LivesOK
<1>1. PICK last \in L : \A n \in L : n <= last
  <2>1. Len(past) + 1 \in Nat
    BY <1>0
  <2> QED BY <2>1, Largest
<1>2. ASSUME NEW n \in L, n # last PROVE n \in EndedIn(from, end)
  <2>1. n \in DOMAIN past /\ n < last
    BY <1>0, <1>1, <1>2
  <2>2. PICK a \in past[n].granted[k] : a.at > from
    BY <2>1 DEF GrantedOf
  <2>3. a.at <= past[n].until
    BY <2>1 DEF LivesInv, LivesOK
  <2>4. PICK b \in GrantedOf(last, k) : b.at <= end
    OBVIOUS
  <2>5. past[n].until <= b.at
    <3>1. CASE last \in DOMAIN past
      BY <2>1, <3>1 DEF GrantedOf, LivesInv, LivesOK
    <3>2. CASE last \notin DOMAIN past
      BY <2>1, <3>2 DEF GrantedOf, LivesInv, LivesOK
    <3> QED BY <3>1, <3>2
  <2>6. past[n] \in EarlierLives /\ granted[k] \subseteq Attempts
    BY <1>0, <2>1 DEF LivesInv, IInv, TypeOK
  <2>7. a.at \in Int /\ past[n].until \in Int
    BY <2>2, <2>6 DEF EarlierLives, Attempts
  <2>8. b.at \in Int
    <3>1. last \in DOMAIN past => past[last] \in EarlierLives
      BY <1>0
    <3> QED BY <2>4, <2>6, <3>1 DEF GrantedOf, EarlierLives, Attempts
  <2> QED BY <2>1, <2>2, <2>3, <2>4, <2>5, <2>7, <2>8 DEF EndedIn
<1>3. L \subseteq EndedIn(from, end) \cup {last}
  BY <1>2
<1>4. IsFiniteSet(1 .. Len(past))
  BY <1>0, FS_Interval
<1>5. IsFiniteSet(EndedIn(from, end))
  <2>1. EndedIn(from, end) \subseteq 1 .. Len(past)
    BY <1>0 DEF EndedIn
  <2> QED BY <1>4, <2>1, Part
<1>6. /\ IsFiniteSet(EndedIn(from, end) \cup {last})
      /\ Cardinality(EndedIn(from, end)) \in Nat
      /\ Cardinality(EndedIn(from, end) \cup {last}) <= Cardinality(EndedIn(from, end)) + 1
      /\ Cardinality(EndedIn(from, end) \cup {last}) \in Nat
  BY <1>5, OneMore
<1>7. IsFiniteSet(L) /\ Cardinality(L) \in Nat /\ Cardinality(L) <= Cardinality(EndedIn(from, end) \cup {last})
  BY <1>3, <1>6, Part
<1> QED BY <1>6, <1>7

LEMMA LivesAreLimited == LivesInv => LoginsPerStart
<1> SUFFICES ASSUME LivesInv, NEW k \in Sources, NEW end \in 1 .. MaxTime
             PROVE  LET from == end - (Window - Skew)
                    IN  Cardinality(AdmittedIn(k, from, end)) <= Max * (1 + Cardinality(EndedIn(from, end)))
  BY DEF LoginsPerStart
<1> DEFINE from == end - (Window - Skew)
           Mine(n) == {a \in GrantedOf(n, k) : a.at > from /\ a.at <= end}
           all == 1 .. Len(past) + 1
           L == {n \in all : Mine(n) # {}}
           G == [n \in L |-> Mine(n)]
           ended == Cardinality(EndedIn(from, end))
<1>1. from \in Int /\ end \in Int
  BY LimitAssumption, SkewAssumption
<1>2. ended \in Nat
  <2>1. Len(past) \in Nat /\ DOMAIN past = 1 .. Len(past)
    BY DEF LivesInv, LivesOK
  <2>2. EndedIn(from, end) \subseteq 1 .. Len(past) /\ IsFiniteSet(1 .. Len(past))
    BY <2>1, FS_Interval DEF EndedIn
  <2> QED BY <2>2, Part
<1>3. AdmittedIn(k, from, end) = UNION {{n} \X G[n] : n \in L}
  <2>1. AdmittedIn(k, from, end) = UNION {{n} \X Mine(n) : n \in all}
    BY DEF AdmittedIn
  <2>2. UNION {{n} \X Mine(n) : n \in all} = UNION {{n} \X Mine(n) : n \in L}
    <3> HIDE DEF Mine, all
    <3> QED OBVIOUS
  <2>3. \A n \in L : G[n] = Mine(n)
    OBVIOUS
  <2> HIDE DEF Mine, all, L, G
  <2> QED BY <2>1, <2>2, <2>3
<1>4. CASE L = {}
  <2>1. AdmittedIn(k, from, end) = {}
    <3> HIDE DEF L, G
    <3> QED BY <1>3, <1>4
  <2>2. Cardinality(AdmittedIn(k, from, end)) = 0
    BY <2>1, FS_EmptySet
  <2>3. Max * (1 + ended) \in Nat
    <3> HIDE DEF ended
    <3> QED BY <1>2, LimitAssumption
  <2> QED BY <2>2, <2>3
<1>5. CASE L # {}
  <2>1. IsFiniteSet(L) /\ Cardinality(L) <= 1 + ended
    <3>1. \A n \in L : \E a \in GrantedOf(n, k) : a.at > from /\ a.at <= end
      OBVIOUS
    <3>2. L \in SUBSET (1 .. Len(past) + 1)
      OBVIOUS
    <3> HIDE DEF from, L
    <3> QED BY <1>1, <1>5, <3>1, <3>2, EndedButOne
  <2>2. ASSUME NEW n \in L PROVE IsFiniteSet(G[n]) /\ Cardinality(G[n]) <= Max
    <3>1. IsFiniteSet(Mine(n)) /\ Cardinality(Mine(n)) <= Max
      BY EveryLifeBounded
    <3> QED BY <3>1
  <2>3. Cardinality(AdmittedIn(k, from, end)) <= Cardinality(L) * Max
    <3> HIDE DEF L, G
    <3> QED BY <1>3, <2>1, <2>2, AtMostMaxEach
  <2>4. Cardinality(L) \in Nat
    BY <2>1, FS_CardinalityType
  <2>5. Cardinality(L) * Max <= Max * (1 + ended)
    <3> HIDE DEF L, ended
    <3> QED BY <1>2, <2>1, <2>4, LimitAssumption
  <2>6. Cardinality(AdmittedIn(k, from, end)) \in Int
    <3>1. IsFiniteSet(AdmittedIn(k, from, end))
      <4> HIDE DEF L, G
      <4> QED BY <1>3, <2>1, <2>2, AtMostMaxEach
    <3> QED BY <3>1, FS_CardinalityType
  <2> QED BY <1>2, <2>3, <2>4, <2>5, <2>6, LimitAssumption
<1> QED BY <1>4, <1>5

\* server.go, New: however often the daemon is restarted, and however logins,
\* redirects and expiry go on around the limiter, a window admits Max attempts of an
\* address and Max more for each restart in it.
THEOREM LoginsAreLimited == SSpec => []LoginsPerStart
BY InitLivesInv, NextLivesInv, LivesAreLimited, PTL DEF SSpec

-----------------------------------------------------------------------------
(* The types of everything.                                                *)

Kinds == {"none", "form", "app"}
Statuses == {"none", "form", "limited", "expired", "mismatch", "failed", "login", "logout", "page", "change"}

\* What the user sees, and the two counters.
ViewOK ==
    /\ life \in 0 .. MaxRestarts /\ ops \in 0 .. MaxOps
    /\ page \in [Tabs -> [kind : Kinds, session : Cookies]]
    /\ answer \in [status : Statuses, cookie : Cookies]

\* A cookie once issued keeps its number.
LEMMA CookiesStay ==
    ASSUME CookieInv, [SNext]_allVars
    PROVE  /\ Len(issued) \in Nat /\ Cookies \subseteq Cookies'
           /\ issued' # issued => Len(issued) + 1 \in Cookies'
<1>1. issued \in Seq(Sessions)
  BY DEF CookieInv, SessionsOK
<1>2. issued' = issued \/ \E s : issued' = Append(issued, s)
  BY IssuedGrows
<1> QED BY <1>1, <1>2 DEF Cookies

\* The page and the answer that a handler gives name cookies that were issued.
LEMMA ServeView ==
    ASSUME CookieInv, ViewOK, NEW t \in Tabs, Serve(t), [SNext]_allVars
    PROVE  /\ page' \in [Tabs -> [kind : Kinds, session : Cookies']]
           /\ answer' \in [status : Statuses, cookie : Cookies']
<1> DEFINE c == sent[t].cookie
<1>0. c \in Cookies /\ 0 \in Cookies /\ page[t].session \in Cookies
  BY DEF CookieInv, SessionsOK, ViewOK, Cookies
<1>1. \/ page' = page
      \/ \E kind \in Kinds, n \in {0, c} : Show(t, kind, n)
      \/ SetSession(FALSE, c) /\ Show(t, "form", Len(issued) + 1)
  BY DEF Serve, LoginForm, LoginArrives, LoginLimited, LoginAdmitted, Logout, Page, Change,
         Redirect, Refused, Kinds
<1>2. answer' = answer \/ \E status \in Statuses : Answer(t, status)
  BY DEF Serve, LoginForm, LoginArrives, LoginLimited, LoginAdmitted, Logout, Page, Change,
         Refused, Statuses
<1>3. Cookies \subseteq Cookies'
  BY CookiesStay
<1>4. ASSUME SetSession(FALSE, c) PROVE Len(issued) + 1 \in Cookies'
  <2>1. issued \in Seq(Sessions)
    BY DEF CookieInv, SessionsOK
  <2>2. issued' # issued
    BY <1>4, <2>1 DEF SetSession
  <2> QED BY <2>2, CookiesStay
<1>5. page' \in [Tabs -> [kind : Kinds, session : Cookies']]
  <2>1. ASSUME NEW kind \in Kinds, NEW n \in Cookies', Show(t, kind, n)
        PROVE  page' \in [Tabs -> [kind : Kinds, session : Cookies']]
    BY <1>3, <2>1 DEF ViewOK, Show
  <2> QED BY <1>0, <1>1, <1>3, <1>4, <2>1 DEF ViewOK, Kinds
<1>6. answer' \in [status : Statuses, cookie : Cookies']
  BY <1>0, <1>2, <1>3 DEF ViewOK, Answer
<1> QED BY <1>5, <1>6

LEMMA NextView ==
    ASSUME CookieInv, ViewOK, [SNext]_allVars
    PROVE  ViewOK'
<1>0. Cookies \subseteq Cookies' /\ MaxOps \in Nat /\ MaxRestarts \in Nat /\ NoAnswer \in [status : Statuses, cookie : Cookies']
  BY CookiesStay, BoundAssumption DEF NoAnswer, Statuses, Cookies
<1>1. ASSUME NEW t \in Tabs, Serve(t) PROVE ViewOK'
  <2>1. UNCHANGED <<life, ops>>
    BY <1>1 DEF Serve, LoginForm, LoginArrives, LoginLimited, LoginAdmitted, Logout, Page, Change, Handles
  <2> QED BY <1>1, <2>1, ServeView DEF ViewOK
<1>2. ASSUME NEW t \in Tabs, NEW what \in {"form", "app", "login", "change", "logout"}, Send(t, what)
      PROVE  ViewOK'
  BY <1>0, <1>2 DEF Send, ViewOK
<1>3. CASE Restart
  BY <1>0, <1>3 DEF Restart, ViewOK
<1>4. CASE PassTime
  BY <1>0, <1>4 DEF PassTime, ViewOK
<1>5. CASE UNCHANGED allVars
  BY <1>0, <1>5 DEF allVars, sessionVars, ViewOK
<1> QED BY <1>1, <1>2, <1>3, <1>4, <1>5 DEF SNext

\* Everything keeps its type: in particular a page, a request or an answer never
\* names a session that the server has not signed.
THEOREM SessionTypes == SSpec => []STypeOK
<1> DEFINE TInv == CookieInv /\ LivesInv /\ ViewOK
<1>1. SInit => TInv
  <2> SUFFICES ASSUME SInit PROVE ViewOK
    BY InitCookieInv, InitIInv, InitLivesInv DEF SInit
  <2>1. issued = <<>> /\ Cookies = {0}
    BY DEF SInit, Cookies
  <2> QED BY <2>1, BoundAssumption DEF SInit, ViewOK, NoPage, NoAnswer, Kinds, Statuses
<1>2. TInv /\ [SNext]_allVars => TInv'
  BY NextCookieInv, NextLivesInv, NextView
<1>3. TInv => STypeOK
  BY DEF CookieInv, SessionsOK, LivesInv, IInv, LivesOK, ViewOK, STypeOK, Requested, Kinds, Statuses
<1> HIDE DEF TInv
<1> QED BY <1>1, <1>2, <1>3, PTL DEF SSpec

-----------------------------------------------------------------------------
(* Redirects.                                                              *)

LEMMA HopsOfAnswered ==
    ASSUME SessionsOK, NEW t \in Tabs
    PROVE  Hops(t) \in Nat /\ (sent[t].what # "idle" => Hops(t) >= 1)
<1>1. sent[t].what \in Requested
  BY DEF SessionsOK
<1> QED BY <1>1 DEF Hops, Requested

\* A page or an error.
LEMMA ShownIsCloser ==
    ASSUME SessionsOK, NEW t \in Tabs, sent[t].what # "idle", sent' = [sent EXCEPT ![t] = Idle]
    PROVE  Hops(t)' < Hops(t)
<1>1. sent'[t].what = "idle"
  BY DEF SessionsOK, Idle
<1>2. Hops(t)' = 0
  BY <1>1 DEF Hops
<1> QED BY <1>2, HopsOfAnswered

\* A redirect that the browser follows with the cookie in the jar.
LEMMA HopsAfterRedirect ==
    ASSUME SessionsOK, NEW t \in Tabs, NEW what \in {"form", "app"}, Redirect(t, what, jar),
           UNCHANGED <<clock, life, issued, jar>>
    PROVE  /\ what = "form" => Hops(t)' = IF Authorised(jar) THEN 2 ELSE 1
           /\ what = "app" => Hops(t)' = IF Authorised(jar) THEN 1 ELSE 2
<1>1. sent'[t].what = what /\ sent'[t].cookie = jar /\ jar' = jar
  BY DEF Redirect, SessionsOK
<1>2. Authorised(jar)' <=> Authorised(jar)
  BY DEF Authorised, Valid, CookieKey
<1>3. Authorised(sent[t].cookie)' <=> Authorised(jar)
  BY <1>1 DEF Authorised, Valid, CookieKey
<1> QED BY <1>1, <1>2, <1>3 DEF Hops

LEMMA FormIsCloser == ASSUME SessionsOK, NEW t \in Tabs, LoginForm(t) PROVE Hops(t)' < Hops(t)
<1> DEFINE c == sent[t].cookie
<1>0. sent[t].what = "form" /\ UNCHANGED <<clock, life>>
  BY DEF LoginForm, Handles, vars
<1>1. CASE Authorised(c) /\ Redirect(t, "app", jar) /\ KeepSession
  <2>1. Hops(t)' = IF Authorised(jar) THEN 1 ELSE 2
    BY <1>0, <1>1, HopsAfterRedirect DEF KeepSession
  <2>2. Hops(t) = IF Authorised(jar) THEN 2 ELSE 3
    BY <1>0, <1>1 DEF Hops
  <2> QED BY <2>1, <2>2
<1>2. CASE sent' = [sent EXCEPT ![t] = Idle]
  BY <1>0, <1>2, ShownIsCloser
<1> QED BY <1>1, <1>2 DEF LoginForm, Show

LEMMA LoginIsCloser ==
    ASSUME SessionsOK, TypeOK, NEW t \in Tabs, LoginArrives(t) \/ LoginLimited(t) \/ LoginAdmitted(t)
    PROVE  Hops(t)' < Hops(t)
<1> DEFINE c == sent[t].cookie
<1>0. sent[t].what = "login" /\ life' = life
  BY DEF LoginArrives, LoginLimited, LoginAdmitted, Handles
<1>1. CASE LoginArrives(t)
  <2>1. PICK source \in Sources : Login(t, source)
    BY <1>1 DEF LoginArrives
  <2>2. t \notin Waiting /\ request'[t].now = clock /\ clock # 0
    BY <2>1 DEF Login, TypeOK, Tabs
  <2>3. t \in Waiting'
    BY <2>2 DEF Waiting, NoRequest, Tabs
  <2>4. sent'[t].what = "login"
    BY <1>0, <1>1 DEF LoginArrives
  <2> QED BY <1>0, <2>2, <2>3, <2>4 DEF Hops
<1>2. CASE LoginLimited(t)
  BY <1>0, <1>2, ShownIsCloser DEF LoginLimited, Refused, Show
<1>3. CASE LoginAdmitted(t)
  <2>0. t \in Waiting /\ clock' = clock
    BY <1>3 DEF LoginAdmitted, Admit, Count
  <2>1. Hops(t) = 3
    BY <1>0, <2>0 DEF Hops
  <2>2. CASE KeepSession /\ Redirect(t, "form", jar)
    <3>1. Hops(t)' = IF Authorised(jar) THEN 2 ELSE 1
      BY <1>0, <2>0, <2>2, HopsAfterRedirect DEF KeepSession
    <3> QED BY <2>1, <3>1
  <2>3. CASE sent' = [sent EXCEPT ![t] = Idle]
    BY <1>0, <2>3, ShownIsCloser
  <2>4. CASE SetSession(TRUE, c) /\ Redirect(t, "app", Len(issued) + 1)
    <3> DEFINE n == Len(issued) + 1
               s == [authed |-> TRUE, expiry |-> clock + TTL, key |-> CookieKey,
                     at |-> clock, life |-> life, fresh |-> ~Valid(c)]
    <3>1. issued \in Seq(Sessions) /\ issued' = Append(issued, s)
      BY <2>4 DEF SessionsOK, SetSession
    <3>2. issued'[n] = s /\ n # 0
      BY <3>1
    <3>3. sent'[t].what = "app" /\ sent'[t].cookie = n
      BY <2>4 DEF Redirect, SessionsOK
    <3>4. issued'[n].authed /\ issued'[n].key = CookieKey /\ clock < issued'[n].expiry
      BY <3>2, TTLAssumption DEF SessionsOK
    <3> HIDE DEF n
    <3>5. Authorised(sent[t].cookie)'
      BY <1>0, <2>0, <3>2, <3>3, <3>4 DEF Authorised, Valid, CookieKey
    <3>6. Hops(t)' = 1
      BY <3>3, <3>5 DEF Hops
    <3> QED BY <2>1, <3>6
  <2> QED BY <1>3, <2>2, <2>3, <2>4 DEF LoginAdmitted, Refused, Show
<1> QED BY <1>1, <1>2, <1>3

LEMMA LogoutIsCloser == ASSUME SessionsOK, NEW t \in Tabs, Logout(t) PROVE Hops(t)' < Hops(t)
<1>1. sent[t].what = "logout" /\ sent'[t].what = "form" /\ sent'[t].cookie = 0
  BY DEF Logout, Handles, Redirect, SessionsOK
<1>2. ~Authorised(sent[t].cookie)'
  BY <1>1 DEF Authorised, Valid
<1> QED BY <1>1, <1>2 DEF Hops

\* requireAuth sends on to a form that is shown or that sends back for good.
LEMMA RequireAuthIsCloser == ASSUME SessionsOK, NEW t \in Tabs, Page(t) \/ Change(t) PROVE Hops(t)' < Hops(t)
<1> DEFINE c == sent[t].cookie
<1>0. sent[t].what \in {"app", "change"} /\ UNCHANGED <<clock, life, issued, jar>>
  BY DEF Page, Change, Handles, KeepSession, vars
<1>1. CASE sent' = [sent EXCEPT ![t] = Idle]
  BY <1>0, <1>1, ShownIsCloser
<1>2. CASE ~Authorised(c) /\ Redirect(t, "form", jar)
  <2>1. Hops(t)' = IF Authorised(jar) THEN 2 ELSE 1
    BY <1>0, <1>2, HopsAfterRedirect
  <2>2. Hops(t) >= IF Authorised(jar) THEN 3 ELSE 2
    BY <1>0, <1>2 DEF Hops
  <2> QED BY <2>1, <2>2, HopsOfAnswered
<1>3. CASE sent[t].what = "change" /\ Redirect(t, "app", jar)
  <2>1. Hops(t)' = IF Authorised(jar) THEN 1 ELSE 2
    BY <1>0, <1>3, HopsAfterRedirect
  <2>2. Hops(t) = 3
    BY <1>3 DEF Hops
  <2> QED BY <2>1, <2>2
<1> QED BY <1>1, <1>2, <1>3 DEF Page, Change, Refused, Show, Handles

\* handleLoginForm and requireAuth agree on who is logged in: the redirects between
\* them lead to a page or an error after at most three answers, as long as nothing
\* else changes who is.
THEOREM RedirectsEnd == SSpec => RedirectsGetCloser
<1>1. SInit => CookieInv /\ IInv
  BY InitCookieInv, InitIInv DEF SInit
<1>2. CookieInv /\ IInv /\ [SNext]_allVars => (CookieInv /\ IInv)'
  BY NextCookieInv, NextLimiterInv
<1>3. CookieInv /\ IInv => [\A t \in Tabs : Serve(t) => Hops(t)' < Hops(t)]_allVars
  <2> SUFFICES ASSUME CookieInv, IInv, NEW t \in Tabs, Serve(t) PROVE Hops(t)' < Hops(t)
    OBVIOUS
  <2>1. SessionsOK /\ TypeOK
    BY DEF CookieInv, IInv
  <2> QED BY <2>1, FormIsCloser, LoginIsCloser, LogoutIsCloser, RequireAuthIsCloser DEF Serve
<1> QED BY <1>1, <1>2, <1>3, PTL DEF SSpec, RedirectsGetCloser

=============================================================================
