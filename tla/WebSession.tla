----------------------------- MODULE WebSession -----------------------------
(***************************************************************************)
(* The user's account in the web server (middleware/user_account.rs,       *)
(* middleware/browser_cache_control.rs, and the session set-up of          *)
(* main_web.rs), with one browser that has several tabs open.              *)
(*                                                                         *)
(* The server keeps nothing: the session travels in an encrypted cookie.   *)
(* A handler sees the cookie as it was when its request was sent, and what *)
(* its answer sets reaches the browser when the answer does; so a request  *)
(* is handled in the step that receives its answer.  Every answer may be   *)
(* kept for 30 days (Cache-Control: public), unless it clears the cache;   *)
(* the browser is free not to keep it.                                     *)
(*                                                                         *)
(* External: the browser, Google's consent page, and actix-session, which  *)
(* sets the cookie only when a handler has changed the session.            *)
(***************************************************************************)
EXTENDS FiniteSets

CONSTANTS
    Tabs, Users,
    AuthorizedUsers,     \* the email_* entries of the configuration
    Nobody               \* no user: an absent identity or email

ASSUME UsersAssumption == AuthorizedUsers \subseteq Users /\ Nobody \notin Users

VARIABLES
    session,   \* the browser's session cookie: [identity, user_email]
    cache,     \* the browser's cache: path -> answer or NotStored
    tab        \* what each tab is at

vars == <<session, cache, tab>>

Paths == {"/", "login", "userinfo", "authorized_sample", "logout", "bust"}
ReturnUrls == {"/", "userinfo"}    \* the returnUrl given to login
MayBeUser == Users \cup {Nobody}
Session == [identity : MayBeUser, user_email : MayBeUser]
NoSession == [identity |-> Nobody, user_email |-> Nobody]
Unchanged == [identity |-> "unchanged", user_email |-> "unchanged"]

Pages == [kind : {"blank", "nouser", "index", "unauthorized", "login_required",
                  "hello", "welcome", "denied", "busted", "error"},
          user : MayBeUser]
Page(kind, user) == [kind |-> kind, user |-> user]
Blank == Page("blank", Nobody)

\* An answer: a page, or a redirection when location is not "none"; the session
\* it sets, and what its Clear-Site-Data header clears.
Answers == [page : Pages, location : {"none", "google"} \cup ReturnUrls,
            session : Session \cup {Unchanged}, clears : {"nothing", "cache", "all"}]
Shows(page) ==
    [page |-> page, location |-> "none", session |-> Unchanged, clears |-> "nothing"]
Found(location) == [Shows(Blank) EXCEPT !.location = location]
NotStored == [Shows(Blank) EXCEPT !.location = "not_stored"]

\* follows: the redirection the tab has come by.  alone (history): no other tab
\* has had a request on its way, and no cookie has expired, since then.
TabType ==
    [pc : {"idle", "sent", "google"}, path : Paths \cup {"callback"}, sent : Session,
     google_user : MayBeUser, return_url : ReturnUrls, page : Pages,
     follows : {"none", "login", "logout"}, alone : BOOLEAN]

\* Nothing is kept that would send the browser to Google, or log it out, without
\* the server.
TypeOK ==
    /\ session \in Session
    /\ \A p \in DOMAIN cache : cache[p] \in Answers \cup {NotStored}
    /\ \A p \in DOMAIN cache : cache[p] # NotStored =>
          /\ cache[p].session = Unchanged
          /\ cache[p].location \in {"none"} \cup ReturnUrls
    /\ tab \in [Tabs -> TabType]

Init ==
    /\ session = NoSession
    /\ cache = [p \in Paths |-> NotStored]
    /\ tab = [t \in Tabs |->
                [pc |-> "idle", path |-> "/", sent |-> NoSession, google_user |-> Nobody,
                 return_url |-> "/", page |-> Blank, follows |-> "none", alone |-> FALSE]]

-----------------------------------------------------------------------------
\* The handlers, from the session of the request.

root_index(s) ==
    IF s.identity = Nobody THEN Page("nouser", Nobody)
    ELSE IF s.user_email = Nobody THEN Page("login_required", Nobody)
    ELSE IF s.user_email \in AuthorizedUsers THEN Page("index", s.user_email)
    ELSE Page("unauthorized", s.user_email)

user_infor(s) ==
    IF s.user_email = Nobody THEN Page("login_required", Nobody)
                             ELSE Page("hello", s.user_email)

authorized_sample(s) ==
    IF s.user_email = Nobody THEN Page("login_required", Nobody)
    ELSE IF s.user_email \in AuthorizedUsers THEN Page("welcome", s.user_email)
    ELSE Page("denied", s.user_email)

\* Mutant: the cache is not cleared.
LoginKeepsCache(s, return_url) ==
    IF s.identity # Nobody THEN Found(return_url) ELSE Found("google")

\* Nothing to do for who is logged in; otherwise to Google, clearing the cache
\* (given the OAuth entries of the configuration).
login(s, return_url) ==
    IF s.identity # Nobody THEN Found(return_url)
                           ELSE [Found("google") EXCEPT !.clears = "cache"]

\* Mutant: the cookies go, the cache stays.
LogoutKeepsCache(s) == [Found("/") EXCEPT !.session = NoSession]

\* id.logout() and session.clear(); the header clears cache, cookies, storage.
logout(s) == [Found("/") EXCEPT !.session = NoSession, !.clears = "all"]

\* Mutant: the identity only.
CallbackIdentityOnly(s, google_user, return_url) ==
    {Shows(Page("error", Nobody)),
     [Found(return_url) EXCEPT !.session = [s EXCEPT !.identity = google_user]]}

\* The code may be missing and the two requests to Google may fail; else email
\* and identity are set to the user Google names, whoever was logged in.
google_callback(s, google_user, return_url) ==
    {Shows(Page("error", Nobody)),
     [Found(return_url) EXCEPT !.session =
         [identity |-> google_user, user_email |-> google_user]]}

PageAt(path, s) ==
    CASE path = "/" -> root_index(s)
      [] path = "userinfo" -> user_infor(s)
      [] path = "authorized_sample" -> authorized_sample(s)

AnswersTo(f) ==
    CASE f.path \in {"/", "userinfo", "authorized_sample"} -> {Shows(PageAt(f.path, f.sent))}
      [] f.path = "login" -> {login(f.sent, f.return_url)}
      [] f.path = "logout" -> {logout(f.sent)}
      [] f.path = "callback" -> google_callback(f.sent, f.google_user, f.return_url)
      [] f.path = "bust" -> {[Shows(Page("busted", Nobody)) EXCEPT !.clears = "cache"]}

-----------------------------------------------------------------------------
\* Mutant: the lifetime of the cookie is renewed on every request.
SetCookieAlways(answer, f) == IF answer.session = Unchanged THEN f.sent ELSE answer.session

\* PersistentSession::default(): the cookie is set when the session changed.
SetCookie(answer, f) == IF answer.session = Unchanged THEN session ELSE answer.session

\* What the cache may be behind an answer.
CachesAfter(answer, f) ==
    IF answer.clears # "nothing" THEN {[p \in Paths |-> NotStored]}
    ELSE IF f.path = "callback" THEN {cache}     \* its URL never comes again
    ELSE {cache, [cache EXCEPT ![f.path] = answer]}

\* A tab goes on where a location or the user sends it, with cookie s.
Sends(f, path, s) == [f EXCEPT !.pc = "sent", !.path = path, !.sent = s, !.page = Blank, !.google_user = Nobody]
AtRest(f, path, page) ==
    [f EXCEPT !.pc = "idle", !.path = path, !.page = page,
              !.sent = NoSession, !.google_user = Nobody, !.return_url = "/"]
Navigate(f, path, c, s) ==
    LET to == IF c[path].location \in ReturnUrls THEN c[path].location ELSE path IN
    IF c[to] = NotStored THEN Sends(f, to, s)
    ELSE AtRest(f, to, c[to].page)

\* Another tab's request is on its way, or t's own: nobody else is alone.
AreAlone(g, t) == [u \in Tabs |-> IF u # t /\ g[t].pc = "sent"
                                    THEN [g[u] EXCEPT !.alone = FALSE] ELSE g[u]]
NobodySends(t) == \A u \in Tabs \ {t} : tab[u].pc # "sent"

\* The user types a URL or follows a link, with or without the cache.
Go(t, path) ==
    /\ tab[t].pc = "idle"
    /\ \E return_url \in ReturnUrls, reload \in BOOLEAN :
          LET f == [tab[t] EXCEPT !.return_url = return_url, !.follows = "none",
                                  !.alone = FALSE]
              g == IF reload THEN Sends(f, path, session) ELSE Navigate(f, path, cache, session)
          IN  /\ path # "login" => return_url = "/"
              /\ tab' = AreAlone([tab EXCEPT ![t] = g], t)
    /\ UNCHANGED <<session, cache>>

\* An answer arrives: cookie, cache, and where the tab goes next.
Receive(t) ==
    /\ tab[t].pc = "sent"
    /\ \E answer \in AnswersTo(tab[t]) :
       \E c \in CachesAfter(answer, tab[t]) :
          LET s == SetCookie(answer, tab[t])
              f == IF tab[t].path \in {"callback", "logout"}
                     THEN [tab[t] EXCEPT !.follows = IF tab[t].path = "logout" THEN "logout"
                                                                               ELSE "login",
                                         !.alone = NobodySends(t)]
                     ELSE tab[t]
          IN  /\ session' = s
              /\ cache' = c
              /\ tab' = AreAlone([tab EXCEPT ![t] =
                    CASE answer.location = "none" -> AtRest(f, f.path, answer.page)
                      [] answer.location = "google" -> [f EXCEPT !.pc = "google", !.sent = NoSession]
                      [] answer.location \in ReturnUrls -> Navigate(f, answer.location, c, s)], t)

\* The user chooses an account on Google's page, which redirects to the callback.
Consents(t) ==
    /\ tab[t].pc = "google"
    /\ \E u \in Users :
          tab' = AreAlone([tab EXCEPT ![t] =
                    [Sends(tab[t], "callback", session) EXCEPT !.google_user = u]], t)
    /\ UNCHANGED <<session, cache>>

\* The user turns back from Google's page.
Leaves(t) ==
    /\ tab[t].pc = "google"
    /\ tab' = [tab EXCEPT ![t] = AtRest(tab[t], "login", Blank)]
    /\ UNCHANGED <<session, cache>>

\* session_ttl: the cookie expires, a year behind its last change.
CookieExpires ==
    /\ session # NoSession
    /\ session' = NoSession
    /\ tab' = [t \in Tabs |-> [tab[t] EXCEPT !.alone = FALSE]]
    /\ UNCHANGED cache

Next ==
    \/ \E t \in Tabs :
          \/ \E path \in Paths : Go(t, path)
          \/ Receive(t) \/ Consents(t) \/ Leaves(t)
    \/ CookieExpires

Spec == Init /\ [][Next]_vars

-----------------------------------------------------------------------------
\* Whatever the order in which the answers of the tabs arrive, identity (by
\* which "/" decides) and user_email (which it shows) are of one user.
SessionWhole == session.identity = session.user_email

\* Only a callback logs the browser in: no answer that was on its way brings
\* back the session of a user who has logged out.
OnlyCallbackLogsIn ==
    [][session' # session /\ session' # NoSession =>
          \E t \in Tabs : tab[t].path = "callback" /\ tab[t].pc = "sent"
                          /\ session'.identity = tab[t].google_user]_vars

\* The page a tab shows behind a redirection is the one the server would give
\* now, unless another tab had a request on its way meanwhile.
FreshBehind(redirection) ==
    \A t \in Tabs :
        /\ tab[t].pc = "idle" /\ tab[t].follows = redirection /\ tab[t].alone
        /\ tab[t].page.kind # "error"
        => tab[t].page = PageAt(tab[t].path, session)

\* The page behind a logout is never an old one of the user who left.
FreshAfterLogout == FreshBehind("logout")

\* user_account.rs:90, of clearing the cache at login: "This will ensure that
\* the browser fetches fresh data for the logged-in user, instead of using
\* potentially stale cached data from before login."
FreshAfterLogin == FreshBehind("login")
=============================================================================
