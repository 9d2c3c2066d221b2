-------------------------- MODULE WebSessionProofs --------------------------
(***************************************************************************)
(* Theorems about WebSession, for any tabs and users.                      *)
(***************************************************************************)
EXTENDS WebSession, TLAPS

\* Behind a logout, as long as no other tab has a request on its way, the tab
\* asks for "/" with the cookie the browser has, and then shows its answer.
BehindLogoutInv ==
    \A t \in Tabs : tab[t].alone =>
        /\ \A u \in Tabs \ {t} : tab[u].pc # "sent"
        /\ tab[t].follows = "logout" =>
              /\ tab[t].path = "/" /\ tab[t].pc # "google"
              /\ tab[t].pc = "sent" => tab[t].sent = session
              /\ tab[t].pc = "idle" => tab[t].page = root_index(session)

\* Caches: nothing that acts without the server.
CacheOK(c) ==
    /\ c \in [Paths -> Answers \cup {NotStored}]
    /\ \A p \in Paths : c[p] # NotStored =>
          c[p].session = Unchanged /\ c[p].location \in {"none"} \cup ReturnUrls

IInv == TypeOK /\ CacheOK(cache) /\ SessionWhole /\ BehindLogoutInv

-----------------------------------------------------------------------------
LEMMA ConstantsTyped ==
    /\ Blank \in Pages /\ NoSession \in Session /\ Nobody \in MayBeUser
    /\ NoSession.identity = NoSession.user_email
    /\ NotStored.page \in Pages
    /\ NotStored.location = "not_stored"
  BY DEF Blank, Page, Pages, NoSession, Session, MayBeUser, NotStored, Shows

LEMMA PagesTyped ==
    ASSUME NEW s \in Session, NEW path \in {"/", "userinfo", "authorized_sample"}
    PROVE  PageAt(path, s) \in Pages
<1>1. s.identity \in MayBeUser /\ s.user_email \in MayBeUser
  BY DEF Session
<1>2. root_index(s) \in Pages
  BY <1>1 DEF root_index, Page, Pages, MayBeUser
<1>3. user_infor(s) \in Pages
  BY <1>1 DEF user_infor, Page, Pages, MayBeUser
<1>4. authorized_sample(s) \in Pages
  BY <1>1 DEF authorized_sample, Page, Pages, MayBeUser
<1> QED
  BY <1>2, <1>3, <1>4 DEF PageAt

\* What a handler answers, from the request's own session.
AnswerFacts(answer, f) ==
    /\ answer \in Answers
    /\ answer.session # Unchanged =>
          /\ answer.session \in Session
          /\ answer.session.identity = answer.session.user_email
          /\ answer.session # NoSession =>
                f.path = "callback" /\ answer.session.identity = f.google_user
    /\ answer.clears = "nothing" /\ f.path # "callback" =>
          answer.session = Unchanged /\ answer.location \in {"none"} \cup ReturnUrls
    /\ f.path = "logout" => answer.clears = "all" /\ answer.location = "/"
    /\ f.path = "/" =>
          /\ answer.session = Unchanged /\ answer.location = "none"
          /\ answer.page = root_index(f.sent)

LEMMA HandlersAnswer ==
    ASSUME NEW f \in TabType, NEW answer \in AnswersTo(f)
    PROVE  AnswerFacts(answer, f)
<1>1. /\ f.path \in Paths \cup {"callback"} /\ f.sent \in Session
      /\ f.google_user \in MayBeUser /\ f.return_url \in ReturnUrls
  BY DEF TabType
<1>2. CASE f.path \in {"/", "userinfo", "authorized_sample"}
  <2>1. answer = Shows(PageAt(f.path, f.sent))
    BY <1>2 DEF AnswersTo
  <2>2. PageAt(f.path, f.sent) \in Pages
    BY <1>1, <1>2, PagesTyped
  <2>3. f.path = "/" => PageAt(f.path, f.sent) = root_index(f.sent)
    BY DEF PageAt
  <2> QED
    BY <1>2, <2>1, <2>2, <2>3 DEF AnswerFacts, Shows, Answers
<1>3. CASE f.path = "login"
  <2>1. answer = Found(f.return_url) \/ answer = [Found("google") EXCEPT !.clears = "cache"]
    BY <1>3 DEF AnswersTo, login
  <2> QED
    BY <1>1, <1>3, <2>1, ConstantsTyped DEF AnswerFacts, Found, Shows, Answers, ReturnUrls
<1>4. CASE f.path = "logout"
  <2>1. answer = [Found("/") EXCEPT !.session = NoSession, !.clears = "all"]
    BY <1>4 DEF AnswersTo, logout
  <2> QED
    BY <1>1, <1>4, <2>1, ConstantsTyped DEF AnswerFacts, Found, Shows, Answers, ReturnUrls
<1>5. CASE f.path = "callback"
  <2> DEFINE s == [identity |-> f.google_user, user_email |-> f.google_user]
  <2>1. \/ answer = Shows(Page("error", Nobody))
        \/ answer = [Found(f.return_url) EXCEPT !.session = s]
    BY <1>5 DEF AnswersTo, google_callback
  <2>2. s \in Session /\ s.identity = s.user_email /\ s.identity = f.google_user
    BY <1>1 DEF Session
  <2>3. Page("error", Nobody) \in Pages
    BY DEF Page, Pages, MayBeUser
  <2> HIDE DEF s
  <2>4. CASE answer = Shows(Page("error", Nobody))
    BY <1>5, <2>3, <2>4 DEF AnswerFacts, Shows, Answers
  <2>5. CASE answer = [Found(f.return_url) EXCEPT !.session = s]
    <3>1. answer = [page |-> Blank, location |-> f.return_url, session |-> s, clears |-> "nothing"]
      BY <2>5 DEF Found, Shows
    <3> QED
      BY <1>1, <1>5, <2>2, <3>1, ConstantsTyped DEF AnswerFacts, Answers
  <2> QED
    BY <2>1, <2>4, <2>5
<1>6. CASE f.path = "bust"
  <2>1. answer = [Shows(Page("busted", Nobody)) EXCEPT !.clears = "cache"]
    BY <1>6 DEF AnswersTo
  <2>2. Page("busted", Nobody) \in Pages
    BY DEF Page, Pages, MayBeUser
  <2> QED
    BY <1>6, <2>1, <2>2 DEF AnswerFacts, Shows, Answers
<1> QED
  BY <1>1, <1>2, <1>3, <1>4, <1>5, <1>6 DEF Paths

LEMMA EmptyCache == CacheOK([p \in Paths |-> NotStored])
  BY DEF CacheOK

LEMMA CachesOK ==
    ASSUME NEW f \in TabType, CacheOK(cache), NEW answer \in AnswersTo(f),
           NEW c \in CachesAfter(answer, f)
    PROVE  /\ CacheOK(c)
           /\ answer.clears # "nothing" => c = [p \in Paths |-> NotStored]
<1>1. AnswerFacts(answer, f)
  BY HandlersAnswer
<1>2. CASE answer.clears # "nothing"
  BY <1>2, EmptyCache DEF CachesAfter
<1>3. CASE answer.clears = "nothing" /\ f.path = "callback"
  BY <1>3 DEF CachesAfter
<1>4. CASE answer.clears = "nothing" /\ f.path # "callback"
  <2>1. c = cache \/ c = [cache EXCEPT ![f.path] = answer]
    BY <1>4 DEF CachesAfter
  <2>2. f.path \in Paths /\ answer \in Answers /\ answer.session = Unchanged
        /\ answer.location \in {"none"} \cup ReturnUrls
    BY <1>1, <1>4 DEF AnswerFacts, TabType
  <2> QED
    BY <1>4, <2>1, <2>2 DEF CacheOK
<1> QED
  BY <1>2, <1>3, <1>4

\* The fields of a tab behind each change of it.
LEMMA NoLongerAlone ==
    ASSUME NEW f \in TabType
    PROVE  LET g == [f EXCEPT !.alone = FALSE] IN
           /\ g \in TabType /\ ~ g.alone
           /\ g.pc = f.pc /\ g.follows = f.follows /\ g.path = f.path
           /\ g.sent = f.sent /\ g.page = f.page
  BY DEF TabType

LEMMA SendsFields ==
    ASSUME NEW f \in TabType, NEW path \in Paths \cup {"callback"}, NEW s \in Session
    PROVE  LET g == Sends(f, path, s) IN
           /\ g \in TabType /\ g.alone = f.alone /\ g.follows = f.follows
           /\ g.pc = "sent" /\ g.path = path /\ g.sent = s
<1>1. Blank \in Pages /\ Nobody \in MayBeUser
  BY ConstantsTyped
<1> QED
  BY <1>1 DEF Sends, TabType

LEMMA AtRestFields ==
    ASSUME NEW f \in TabType, NEW path \in Paths \cup {"callback"}, NEW page \in Pages
    PROVE  LET g == AtRest(f, path, page) IN
           /\ g \in TabType /\ g.alone = f.alone /\ g.follows = f.follows
           /\ g.pc = "idle" /\ g.path = path /\ g.page = page
<1>1. NoSession \in Session /\ Nobody \in MayBeUser /\ "/" \in ReturnUrls
  BY ConstantsTyped DEF ReturnUrls
<1> QED
  BY <1>1 DEF AtRest, TabType

\* Where a navigation takes a tab: to the server, or to a stored page.
LEMMA NavigateFields ==
    ASSUME NEW f \in TabType, NEW path \in Paths, NEW c, CacheOK(c), NEW s \in Session
    PROVE  LET g == Navigate(f, path, c, s) IN
           g \in TabType /\ g.alone = f.alone /\ g.follows = f.follows
<1> DEFINE to == IF c[path].location \in ReturnUrls THEN c[path].location ELSE path
<1>1. to \in Paths
  BY DEF ReturnUrls, Paths
<1>2. c[to] # NotStored => c[to].page \in Pages
  BY <1>1 DEF CacheOK, Answers
<1>3. Navigate(f, path, c, s) = IF c[to] = NotStored THEN Sends(f, to, s)
                                                     ELSE AtRest(f, to, c[to].page)
  BY DEF Navigate
<1> HIDE DEF to
<1> QED
  BY <1>1, <1>2, <1>3, SendsFields, AtRestFields

\* A step of one tab leaves the others alone, unless it sends a request.
LEMMA TabStepPreserves ==
    ASSUME IInv, NEW t \in Tabs, NEW f \in TabType,
           tab' = AreAlone([tab EXCEPT ![t] = f], t),
           CacheOK(cache'), session' \in Session, SessionWhole',
           session' = session \/ tab[t].pc = "sent",
           f.alone => \A u \in Tabs \ {t} : tab[u].pc # "sent",
           f.alone /\ f.follows = "logout" =>
              /\ f.path = "/" /\ f.pc # "google"
              /\ f.pc = "sent" => f.sent = session'
              /\ f.pc = "idle" => f.page = root_index(session')
    PROVE  IInv'
<1>1. /\ tab' \in [Tabs -> TabType]
      /\ tab'[t] = f
      /\ \A u \in Tabs \ {t} :
            tab'[u] = IF f.pc = "sent" THEN [tab[u] EXCEPT !.alone = FALSE] ELSE tab[u]
  <2>1. tab \in [Tabs -> TabType]
    BY DEF IInv, TypeOK
  <2>2. \A u \in Tabs : [tab[u] EXCEPT !.alone = FALSE] \in TabType
    BY <2>1, NoLongerAlone
  <2> QED
    BY <2>1, <2>2 DEF AreAlone
<1>2. \A u \in Tabs \ {t} :
         /\ tab'[u].pc = tab[u].pc /\ tab'[u].follows = tab[u].follows
         /\ tab'[u].path = tab[u].path /\ tab'[u].sent = tab[u].sent
         /\ tab'[u].page = tab[u].page
         /\ tab'[u].alone => tab[u].alone /\ f.pc # "sent"
  <2>1. \A u \in Tabs : tab[u] \in TabType
    BY DEF IInv, TypeOK
  <2> SUFFICES ASSUME NEW u \in Tabs \ {t}
               PROVE  /\ tab'[u].pc = tab[u].pc /\ tab'[u].follows = tab[u].follows
                      /\ tab'[u].path = tab[u].path /\ tab'[u].sent = tab[u].sent
                      /\ tab'[u].page = tab[u].page
                      /\ tab'[u].alone => tab[u].alone /\ f.pc # "sent"
    OBVIOUS
  <2> DEFINE h == [tab[u] EXCEPT !.alone = FALSE]
  <2>2. tab'[u] = IF f.pc = "sent" THEN h ELSE tab[u]
    BY <1>1
  <2>3. /\ ~ h.alone /\ h.pc = tab[u].pc /\ h.follows = tab[u].follows
        /\ h.path = tab[u].path /\ h.sent = tab[u].sent /\ h.page = tab[u].page
    BY <2>1, NoLongerAlone
  <2> HIDE DEF h
  <2> QED
    BY <2>2, <2>3
<1>3. TypeOK'
  <2>1. DOMAIN cache' = Paths
    BY DEF CacheOK
  <2>2. \A p \in Paths :
           /\ cache'[p] \in Answers \cup {NotStored}
           /\ cache'[p] # NotStored =>
                 cache'[p].session = Unchanged /\ cache'[p].location \in {"none"} \cup ReturnUrls
    BY DEF CacheOK
  <2>3. \A p \in DOMAIN cache' : cache'[p] \in Answers \cup {NotStored}
    BY <2>1, <2>2
  <2>4. \A p \in DOMAIN cache' : cache'[p] # NotStored =>
           cache'[p].session = Unchanged /\ cache'[p].location \in {"none"} \cup ReturnUrls
    BY <2>1, <2>2
  <2> QED
    BY <1>1, <2>3, <2>4, Zenon DEF TypeOK
<1>4. BehindLogoutInv'
  <2> SUFFICES ASSUME NEW u \in Tabs, tab'[u].alone
               PROVE  /\ \A w \in Tabs \ {u} : tab'[w].pc # "sent"
                      /\ tab'[u].follows = "logout" =>
                            /\ tab'[u].path = "/" /\ tab'[u].pc # "google"
                            /\ tab'[u].pc = "sent" => tab'[u].sent = session'
                            /\ tab'[u].pc = "idle" => tab'[u].page = root_index(session')
    BY DEF BehindLogoutInv, root_index, Page
  <2>1. CASE u = t
    BY <1>1, <1>2, <2>1
  <2>2. CASE u # t
    <3>1. tab[u].alone /\ f.pc # "sent"
      BY <1>2, <2>2
    <3>2. \A w \in Tabs \ {u} : tab[w].pc # "sent"
      BY <3>1 DEF IInv, BehindLogoutInv
    <3>3. session' = session
      BY <2>2, <3>2
    <3>4. \A w \in Tabs \ {u} : tab'[w].pc # "sent"
      <4> SUFFICES ASSUME NEW w \in Tabs \ {u} PROVE tab'[w].pc # "sent"
        OBVIOUS
      <4>1. CASE w = t
        BY <1>1, <3>1, <4>1
      <4>2. CASE w # t
        BY <1>2, <3>2, <4>2
      <4> QED
        BY <4>1, <4>2
    <3>5. tab'[u] = tab[u]
      BY <1>1, <2>2, <3>1
    <3>6. tab[u].follows = "logout" =>
             /\ tab[u].path = "/" /\ tab[u].pc # "google"
             /\ tab[u].pc = "sent" => tab[u].sent = session
             /\ tab[u].pc = "idle" => tab[u].page = root_index(session)
      BY <3>1 DEF IInv, BehindLogoutInv
    <3> QED
      BY <3>3, <3>4, <3>5, <3>6
  <2> QED
    BY <2>1, <2>2
<1> QED
  BY <1>3, <1>4 DEF IInv, CacheOK

\* The user opens a page: nothing follows a redirection any more.
LEMMA GoPreserves ==
    ASSUME IInv, NEW t \in Tabs, NEW path \in Paths, Go(t, path)
    PROVE  IInv'
<1>1. PICK return_url \in ReturnUrls, reload \in BOOLEAN :
         LET f == [tab[t] EXCEPT !.return_url = return_url, !.follows = "none",
                                 !.alone = FALSE]
             g == IF reload THEN Sends(f, path, session) ELSE Navigate(f, path, cache, session)
         IN  tab' = AreAlone([tab EXCEPT ![t] = g], t)
  BY DEF Go
<1> DEFINE f == [tab[t] EXCEPT !.return_url = return_url, !.follows = "none", !.alone = FALSE]
           g == IF reload THEN Sends(f, path, session) ELSE Navigate(f, path, cache, session)
<1>2. f \in TabType /\ ~ f.alone
  BY DEF IInv, TypeOK, TabType
<1>3. g \in TabType /\ ~ g.alone
  <2> HIDE DEF f
  <2>1. session \in Session /\ CacheOK(cache)
    BY DEF IInv, TypeOK
  <2> QED
    BY <1>2, <2>1, SendsFields, NavigateFields
<1>4. tab' = AreAlone([tab EXCEPT ![t] = g], t)
  BY <1>1
<1>5. UNCHANGED <<session, cache>>
  BY DEF Go
<1> HIDE DEF g
<1>6. CacheOK(cache') /\ session' \in Session /\ SessionWhole' /\ session' = session
  BY <1>5 DEF IInv, TypeOK, SessionWhole
<1> QED
  BY <1>3, <1>4, <1>6, TabStepPreserves

\* Google sends the tab to the callback, or the user turns back.
LEMMA GooglePreserves ==
    ASSUME IInv, NEW t \in Tabs, Consents(t) \/ Leaves(t)
    PROVE  IInv'
<1>1. tab[t] \in TabType /\ tab[t].pc = "google" /\ session \in Session
  BY DEF IInv, TypeOK, Consents, Leaves
<1>2. CacheOK(cache') /\ session' \in Session /\ SessionWhole' /\ session' = session
  BY DEF IInv, TypeOK, SessionWhole, Consents, Leaves
<1>3. tab[t].alone => /\ \A u \in Tabs \ {t} : tab[u].pc # "sent"
                      /\ tab[t].follows # "logout"
  BY <1>1 DEF IInv, BehindLogoutInv
<1>4. CASE Consents(t)
  <2>1. PICK u \in Users : tab' = AreAlone([tab EXCEPT ![t] =
             [Sends(tab[t], "callback", session) EXCEPT !.google_user = u]], t)
    BY <1>4 DEF Consents
  <2> DEFINE f == [Sends(tab[t], "callback", session) EXCEPT !.google_user = u]
  <2>2. f \in TabType /\ f.alone = tab[t].alone /\ f.follows = tab[t].follows
    <3>1. u \in MayBeUser
      BY DEF MayBeUser
    <3> DEFINE h == Sends(tab[t], "callback", session)
    <3>2. h \in TabType /\ h.alone = tab[t].alone /\ h.follows = tab[t].follows
      BY <1>1, SendsFields
    <3> HIDE DEF h
    <3>3. f = [h EXCEPT !.google_user = u]
      BY DEF h
    <3> HIDE DEF f
    <3> QED
      BY <3>1, <3>2, <3>3 DEF TabType
  <2>3. tab' = AreAlone([tab EXCEPT ![t] = f], t)
    BY <2>1
  <2> HIDE DEF f
  <2>4. f.alone => \A w \in Tabs \ {t} : tab[w].pc # "sent"
    BY <1>3, <2>2
  <2>5. ~ (f.alone /\ f.follows = "logout")
    BY <1>3, <2>2
  <2> QED
    BY <1>2, <2>2, <2>3, <2>4, <2>5, TabStepPreserves
<1>5. CASE Leaves(t)
  <2> DEFINE f == AtRest(tab[t], "login", Blank)
  <2>1. f \in TabType /\ f.alone = tab[t].alone /\ f.follows = tab[t].follows /\ f.pc = "idle"
    <3>1. "login" \in Paths \cup {"callback"} /\ Blank \in Pages
      BY ConstantsTyped DEF Paths
    <3> QED
      BY <1>1, <3>1, AtRestFields
  <2>2. tab' = AreAlone([tab EXCEPT ![t] = f], t)
    <3>1. tab' = [tab EXCEPT ![t] = f] /\ tab \in [Tabs -> TabType]
      BY <1>5 DEF Leaves, IInv, TypeOK
    <3> HIDE DEF f
    <3> QED
      BY <2>1, <3>1 DEF AreAlone
  <2> HIDE DEF f
  <2> QED
    BY <1>2, <1>3, <2>1, <2>2, TabStepPreserves
<1> QED
  BY <1>4, <1>5

\* An answer arrives.  A logout's leaves the cookie and the cache empty, so
\* that the tab must ask for "/" anew; any other keeps what TypeOK says.
LEMMA ReceivePreserves ==
    ASSUME IInv, NEW t \in Tabs, Receive(t)
    PROVE  IInv'
<1>1. tab[t] \in TabType /\ tab[t].pc = "sent" /\ session \in Session /\ CacheOK(cache)
  BY DEF IInv, TypeOK, Receive
<1> DEFINE f == IF tab[t].path \in {"callback", "logout"}
                  THEN [tab[t] EXCEPT !.follows = IF tab[t].path = "logout" THEN "logout"
                                                                            ELSE "login",
                                      !.alone = NobodySends(t)]
                  ELSE tab[t]
<1>2. PICK answer \in AnswersTo(tab[t]) : \E c \in CachesAfter(answer, tab[t]) :
         /\ session' = SetCookie(answer, tab[t])
         /\ cache' = c
         /\ tab' = AreAlone([tab EXCEPT ![t] =
               CASE answer.location = "none" -> AtRest(f, f.path, answer.page)
                 [] answer.location = "google" -> [f EXCEPT !.pc = "google", !.sent = NoSession]
                 [] answer.location \in ReturnUrls
                      -> Navigate(f, answer.location, c, SetCookie(answer, tab[t]))], t)
  BY DEF Receive
<1>3. AnswerFacts(answer, tab[t])
  BY <1>1, HandlersAnswer
<1>4. CacheOK(cache') /\ (answer.clears # "nothing" => cache' = [p \in Paths |-> NotStored])
  BY <1>1, <1>2, CachesOK
<1>5. /\ session' \in Session /\ SessionWhole'
      /\ answer.session = Unchanged => session' = session
  BY <1>1, <1>2, <1>3 DEF SetCookie, AnswerFacts, SessionWhole, IInv
<1>6. /\ f \in TabType /\ f.path = tab[t].path /\ f.sent = tab[t].sent
      /\ f.path \in {"callback", "logout"} =>
            /\ f.alone => \A u \in Tabs \ {t} : tab[u].pc # "sent"
            /\ f.follows = "logout" => f.path = "logout"
      /\ f.path \notin {"callback", "logout"} => f = tab[t]
  BY <1>1 DEF TabType, NobodySends
<1> HIDE DEF f
<1> DEFINE g == CASE answer.location = "none" -> AtRest(f, f.path, answer.page)
                  [] answer.location = "google" -> [f EXCEPT !.pc = "google", !.sent = NoSession]
                  [] answer.location \in ReturnUrls
                       -> Navigate(f, answer.location, cache', session')
<1>7. tab' = AreAlone([tab EXCEPT ![t] = g], t)
  BY <1>2
<1>8. f.alone => \A u \in Tabs \ {t} : tab[u].pc # "sent"
  BY <1>6 DEF IInv, BehindLogoutInv
<1>9. f.alone /\ f.follows = "logout" =>
         \/ f.path = "logout"
         \/ f.path = "/" /\ f.sent = session
  BY <1>1, <1>6 DEF IInv, BehindLogoutInv
<1>10. answer.page \in Pages /\ answer.location \in {"none", "google"} \cup ReturnUrls
  BY <1>3 DEF AnswerFacts, Answers
<1>11. g \in TabType /\ g.alone = f.alone /\ g.follows = f.follows
  <2>1. CASE answer.location = "none"
    <3>1. g = AtRest(f, f.path, answer.page)
      BY <2>1 DEF ReturnUrls
    <3>2. f.path \in Paths \cup {"callback"}
      BY <1>6 DEF TabType
    <3> QED
      BY <1>6, <1>10, <3>1, <3>2, AtRestFields
  <2>2. CASE answer.location = "google"
    <3>1. g = [f EXCEPT !.pc = "google", !.sent = NoSession]
      BY <2>2 DEF ReturnUrls
    <3>2. NoSession \in Session
      BY ConstantsTyped
    <3> HIDE DEF g
    <3> QED
      BY <1>6, <3>1, <3>2 DEF TabType
  <2>3. CASE answer.location \in ReturnUrls
    <3>1. g = Navigate(f, answer.location, cache', session')
      BY <2>3 DEF ReturnUrls
    <3>2. answer.location \in Paths
      BY <2>3 DEF ReturnUrls, Paths
    <3> HIDE DEF g
    <3> QED
      BY <1>4, <1>5, <1>6, <3>1, <3>2, NavigateFields
  <2> QED
    BY <1>10, <2>1, <2>2, <2>3
<1>12. g.alone /\ g.follows = "logout" =>
          /\ g.path = "/" /\ g.pc # "google"
          /\ g.pc = "sent" => g.sent = session'
          /\ g.pc = "idle" => g.page = root_index(session')
  <2>1. CASE f.path = "logout"
    <3>1. answer.location = "/" /\ cache' = [p \in Paths |-> NotStored]
      BY <1>3, <1>4, <1>6, <2>1 DEF AnswerFacts
    <3>2. g = Navigate(f, "/", cache', session')
      BY <3>1 DEF ReturnUrls
    <3>3. cache'["/"] = NotStored /\ cache'["/"].location \notin ReturnUrls
      BY <3>1, ConstantsTyped DEF Paths, ReturnUrls
    <3>4. g = Sends(f, "/", session')
      BY <3>2, <3>3 DEF Navigate
    <3> HIDE DEF g
    <3>5. "/" \in Paths \cup {"callback"}
      BY DEF Paths
    <3>6. g.pc = "sent" /\ g.path = "/" /\ g.sent = session'
      BY <1>5, <1>6, <3>4, <3>5, SendsFields
    <3> QED
      BY <3>6
  <2>2. CASE f.path = "/" /\ f.sent = session
    <3>1. answer.location = "none" /\ answer.page = root_index(session) /\ session' = session
      BY <1>3, <1>5, <1>6, <2>2 DEF AnswerFacts
    <3>2. g = AtRest(f, "/", answer.page)
      BY <2>2, <3>1 DEF ReturnUrls
    <3> HIDE DEF g
    <3>3. "/" \in Paths \cup {"callback"}
      BY DEF Paths
    <3>4. g.pc = "idle" /\ g.path = "/" /\ g.page = answer.page
      BY <1>6, <1>10, <3>2, <3>3, AtRestFields
    <3> QED
      BY <3>1, <3>4
  <2> QED
    BY <1>9, <1>11, <2>1, <2>2
<1> HIDE DEF g
<1> QED
  BY <1>1, <1>4, <1>5, <1>7, <1>8, <1>11, <1>12, TabStepPreserves

\* The cookie expires: no tab counts as alone any more.
LEMMA ExpiryPreserves == IInv /\ CookieExpires => IInv'
<1> SUFFICES ASSUME IInv, CookieExpires PROVE IInv'
  OBVIOUS
<1>1. /\ session' = NoSession /\ cache' = cache
      /\ tab' = [t \in Tabs |-> [tab[t] EXCEPT !.alone = FALSE]]
  BY DEF CookieExpires
<1>2. tab' \in [Tabs -> TabType] /\ \A t \in Tabs : ~ tab'[t].alone
  BY <1>1 DEF IInv, TypeOK, TabType
<1>3. TypeOK'
  BY <1>1, <1>2, ConstantsTyped, Zenon DEF IInv, TypeOK
<1>4. CacheOK(cache') /\ SessionWhole' /\ BehindLogoutInv'
  BY <1>1, <1>2, ConstantsTyped DEF IInv, SessionWhole, BehindLogoutInv
<1> QED
  BY <1>3, <1>4 DEF IInv

LEMMA InitEstablishes == Init => IInv
<1> SUFFICES ASSUME Init PROVE IInv
  OBVIOUS
<1>1. /\ session = NoSession /\ cache = [p \in Paths |-> NotStored]
      /\ tab = [t \in Tabs |->
                [pc |-> "idle", path |-> "/", sent |-> NoSession, google_user |-> Nobody,
                 return_url |-> "/", page |-> Blank, follows |-> "none", alone |-> FALSE]]
  BY DEF Init
<1>2. tab \in [Tabs -> TabType] /\ \A t \in Tabs : ~ tab[t].alone
  BY <1>1, ConstantsTyped DEF TabType, ReturnUrls, Paths
<1>3. CacheOK(cache) /\ \A p \in DOMAIN cache : cache[p] = NotStored
  BY <1>1, EmptyCache
<1>4. TypeOK
  BY <1>1, <1>2, <1>3, ConstantsTyped, Zenon DEF TypeOK
<1>5. SessionWhole /\ BehindLogoutInv
  BY <1>1, <1>2, ConstantsTyped DEF SessionWhole, BehindLogoutInv
<1> QED
  BY <1>3, <1>4, <1>5 DEF IInv

-----------------------------------------------------------------------------
\* The inductive invariant of the browser and its tabs.
THEOREM SessionInvariant == Spec => []IInv
<1>1. IInv /\ [Next]_vars => IInv'
  <2> SUFFICES ASSUME IInv, [Next]_vars PROVE IInv'
    OBVIOUS
  <2>1. CASE UNCHANGED vars
    BY <2>1 DEF vars, IInv, TypeOK, SessionWhole, BehindLogoutInv
  <2> QED
    BY <2>1, GoPreserves, ReceivePreserves, GooglePreserves, ExpiryPreserves DEF Next
<1> QED
  BY InitEstablishes, <1>1, PTL DEF Spec

\* The state keeps its types; the cache never holds an answer that sets a
\* cookie or leads to Google without the server.
THEOREM SessionTypeCorrect == Spec => []TypeOK
<1>1. IInv => TypeOK
  BY DEF IInv
<1> QED
  BY SessionInvariant, <1>1, PTL

\* Identity and user_email are always of one user, in whatever order the
\* answers of any number of tabs arrive.
THEOREM SessionStaysWhole == Spec => []SessionWhole
<1>1. IInv => SessionWhole
  BY DEF IInv
<1> QED
  BY SessionInvariant, <1>1, PTL

\* The page behind a logout is the one the server would give now: clearing
\* the cache with the cookies makes the tab ask again.
THEOREM LogoutIsFresh == Spec => []FreshAfterLogout
<1>1. IInv => FreshAfterLogout
  BY DEF IInv, BehindLogoutInv, FreshAfterLogout, FreshBehind, PageAt
<1> QED
  BY SessionInvariant, <1>1, PTL

\* Only the answer of a callback brings a user into the session.
THEOREM OnlyCallbacksLogIn == Spec => OnlyCallbackLogsIn
<1> DEFINE Step == session' # session /\ session' # NoSession =>
                      \E t \in Tabs : tab[t].path = "callback" /\ tab[t].pc = "sent"
                                      /\ session'.identity = tab[t].google_user
<1>1. IInv /\ [Next]_vars => [Step]_vars
  <2> SUFFICES ASSUME IInv, Next, session' # session, session' # NoSession
               PROVE  \E t \in Tabs : tab[t].path = "callback" /\ tab[t].pc = "sent"
                                      /\ session'.identity = tab[t].google_user
    BY DEF vars
  <2>1. PICK t \in Tabs : Receive(t)
    BY DEF Next, Go, Consents, Leaves, CookieExpires
  <2>2. tab[t] \in TabType /\ tab[t].pc = "sent"
    BY <2>1 DEF IInv, TypeOK, Receive
  <2>3. PICK answer \in AnswersTo(tab[t]) : session' = SetCookie(answer, tab[t])
    BY <2>1 DEF Receive
  <2>4. AnswerFacts(answer, tab[t])
    BY <2>2, HandlersAnswer
  <2> QED
    BY <2>2, <2>3, <2>4 DEF SetCookie, AnswerFacts
<1> QED
  BY SessionInvariant, <1>1, PTL DEF Spec, OnlyCallbackLogsIn
=============================================================================
