------------------------- MODULE AppDetectionProofs -------------------------
(***************************************************************************)
(* What the detection of the client keeps to, for any number of pages and  *)
(* of times the client comes and goes.                                     *)
(***************************************************************************)
EXTENDS AppDetection, TLAPS

\* A request in flight is for the address it is named for, and its callback
\* has not run.
InFlightUndone ==
  /\ "local" \in DOMAIN pool => ~ page.localDone
  /\ "remote" \in DOMAIN pool => ~ page.remoteDone

\* Who made the callback.
CallsCounted ==
  /\ page.calls <= 1
  /\ ~ page.cookieDone /\ ~ page.localDone /\ ~ page.remoteDone => page.calls = 0

\* The flags of the base handler and of the client's answer.
BaseOnce ==
  /\ answered => "local" \notin DOMAIN pool /\ page.localDone
  /\ page.handled => flashed \/ answered
  /\ LocalOverrides

\* The cookie goes with the last check.
CookieFollows ==
  /\ lastCheck = "failed" => ~ cookie
  /\ NotTrustedAfterFailure

----------------------------------------------------------------------------
(* Requests and callbacks                                                  *)

LEMMA PoolTypes ==
  ASSUME NEW p, DOMAIN p \subseteq Tags,
         \A id \in DOMAIN p : p[id] \in Requests({id}, BOOLEAN),
         NEW i \in Tags
  PROVE  /\ \A json \in BOOLEAN : i \in DOMAIN p =>
              /\ DOMAIN JsonpCallback(p, i, json) = DOMAIN p
              /\ \A id \in DOMAIN p : JsonpCallback(p, i, json)[id] \in Requests({id}, BOOLEAN)
         /\ DOMAIN RemoveScript(p, i) = DOMAIN p \ {i}
         /\ \A id \in DOMAIN RemoveScript(p, i) :
              RemoveScript(p, i)[id] \in Requests({id}, BOOLEAN)
  BY DEF Requests, JsonpCallback, RemoveScript, Tags

LEMMA GetTypes ==
  ASSUME NEW p, DOMAIN p \subseteq Tags,
         \A id \in DOMAIN p : p[id] \in Requests({id}, BOOLEAN),
         NEW i \in Tags
  PROVE  /\ DOMAIN Get(p, i, i) = DOMAIN p \cup {i}
         /\ \A id \in DOMAIN Get(p, i, i) : Get(p, i, i)[id] \in Requests({id}, BOOLEAN)
  BY DEF Requests, Get, Tags

LEMMA CallbackTypes ==
  ASSUME NEW p \in Page, NEW found \in BOOLEAN
  PROVE  /\ NpapiCallback(p) \in Page /\ CookieCallback(p) \in Page
         /\ LocalCallback(p, found) \in Page /\ RemoteCallback(p, found) \in Page
<1>1. ASSUME NEW q \in Page, NEW f \in BOOLEAN PROVE MakeCallbacks(q, f) \in Page
  <2>1. (IF f THEN "present" ELSE "absent") \in {"unknown", "present", "absent"}
    BY Zenon
  <2>2. q.calls + 1 \in Nat
    BY DEF Page
  <2> QED
    BY <2>1, <2>2 DEF Page, MakeCallbacks
<1>2. /\ [p EXCEPT !.cookieDone = TRUE] \in Page
      /\ [p EXCEPT !.cookieDone = TRUE, !.fromCookie = TRUE] \in Page
      /\ [p EXCEPT !.localDone = TRUE] \in Page
      /\ [p EXCEPT !.remoteDone = TRUE] \in Page
  BY DEF Page
<1> QED
  BY <1>1, <1>2 DEF NpapiCallback, CookieCallback, LocalCallback, RemoteCallback

LEMMA HandlerTypes ==
  ASSUME NEW p \in Page, NEW c \in BOOLEAN
  PROVE  /\ NotFound(State(p, c)).page \in Page /\ NotFound(State(p, c)).cookie \in BOOLEAN
         /\ Base(State(p, c)).page \in Page /\ Base(State(p, c)).cookie \in BOOLEAN
         /\ Found(State(p, c)).page \in Page /\ Found(State(p, c)).cookie \in BOOLEAN
<1>1. LocalCallback(p, TRUE) \in Page /\ LocalCallback(p, FALSE) \in Page
  BY CallbackTypes
<1>2. LocalCallback(LocalCallback(p, TRUE), FALSE) \in Page
  BY <1>1, CallbackTypes
<1>3. ASSUME NEW q \in Page, NEW d \in BOOLEAN
      PROVE  Base(State(q, d)).page \in Page /\ Base(State(q, d)).cookie \in BOOLEAN
  BY DEF Base, State, Page
<1>4. NotFound(State(p, c)).page \in Page /\ NotFound(State(p, c)).cookie \in BOOLEAN
  BY <1>1 DEF NotFound, State
<1>5. NotFound(State(LocalCallback(p, TRUE), TRUE)).page \in Page
      /\ NotFound(State(LocalCallback(p, TRUE), TRUE)).cookie \in BOOLEAN
  BY <1>2 DEF NotFound, State
<1>6. Base(State(LocalCallback(p, TRUE), TRUE)).page \in Page
      /\ Base(State(LocalCallback(p, TRUE), TRUE)).cookie \in BOOLEAN
  BY <1>1, <1>3
<1>7. State(p, c).page = p
  BY DEF State
<1> QED
  BY <1>3, <1>4, <1>5, <1>6, <1>7 DEF Found

----------------------------------------------------------------------------
(* Types                                                                   *)

LEMMA TypeStep == TypeOK /\ [Next]_vars => TypeOK'
<1> SUFFICES ASSUME TypeOK, [Next]_vars PROVE TypeOK'
  OBVIOUS
<1> USE DetectionAssumption
<1>1. ASSUME NEW plugin \in BOOLEAN, Load(plugin) PROVE TypeOK'
  <2>1. DOMAIN <<>> = {}
    OBVIOUS
  <2>2. /\ DOMAIN Get(<<>>, "local", "local") = {"local"}
        /\ \A id \in DOMAIN Get(<<>>, "local", "local") :
             Get(<<>>, "local", "local")[id] \in Requests({id}, BOOLEAN)
    BY <2>1, GetTypes DEF Tags
  <2>3. LET p == Get(Get(<<>>, "local", "local"), "remote", "remote")
        IN DOMAIN p \subseteq Tags /\ \A id \in DOMAIN p : p[id] \in Requests({id}, BOOLEAN)
    BY <2>2, GetTypes DEF Tags
  <2>4. NewPage \in Page
    BY DEF NewPage, Page
  <2>5. page' \in Page
    BY <1>1, <2>4, CallbackTypes DEF Load
  <2>6. DOMAIN pool' \subseteq Tags /\ \A id \in DOMAIN pool' : pool'[id] \in Requests({id}, BOOLEAN)
    BY <1>1, <2>1, <2>2, <2>3 DEF Load, Tags
  <2>7. loads' \in Nat
    BY <1>1 DEF Load, TypeOK
  <2>8. /\ trusted' \in Checks /\ lastCheck' \in Checks
        /\ running' \in BOOLEAN /\ changes' \in Nat /\ cookie' \in BOOLEAN
        /\ answered' \in BOOLEAN /\ flashed' \in BOOLEAN
    BY <1>1, Zenon DEF Load, TypeOK
  <2> QED
    BY <2>5, <2>6, <2>7, <2>8 DEF TypeOK
<1>2. CASE Switch
  BY <1>2 DEF Switch, TypeOK
<1>3. CASE LocalAnswer
  BY <1>3, PoolTypes DEF LocalAnswer, Unanswered, TypeOK, Tags
<1>4. ASSUME NEW found \in BOOLEAN, RemoteAnswer(found) PROVE TypeOK'
  BY <1>4, PoolTypes DEF RemoteAnswer, Unanswered, TypeOK, Tags
<1>5. CASE FromFlash
  BY <1>5, HandlerTypes DEF FromFlash, TypeOK, Checks
<1>6. CASE LocalLoaded
  <2>1. page' \in Page /\ cookie' \in BOOLEAN
    BY <1>6, HandlerTypes DEF LocalLoaded, TypeOK
  <2> QED
    BY <1>6, <2>1, PoolTypes DEF LocalLoaded, TypeOK, Tags, Checks
<1>7. CASE LocalFailed
  <2>1. page' \in Page /\ cookie' \in BOOLEAN
    BY <1>7, HandlerTypes DEF LocalFailed, TypeOK
  <2> QED
    BY <1>7, <2>1, PoolTypes DEF LocalFailed, TypeOK, Tags, Checks
<1>8. CASE RemoteLoaded
  <2>1. Head(pool["remote"].json) \in BOOLEAN
    BY <1>8 DEF RemoteLoaded, IoCheck, Unanswered, TypeOK, Requests
  <2>2. page' \in Page
    BY <1>8, <2>1, CallbackTypes DEF RemoteLoaded, TypeOK
  <2> QED
    BY <1>8, <2>2, PoolTypes DEF RemoteLoaded, TypeOK, Tags
<1>9. CASE RemoteFailed
  <2>1. page' \in Page
    BY <1>9, CallbackTypes DEF RemoteFailed, TypeOK
  <2> QED
    BY <1>9, <2>1, PoolTypes DEF RemoteFailed, TypeOK, Tags
<1>10. CASE UNCHANGED vars
  BY <1>10 DEF vars, TypeOK
<1> QED
  BY <1>1, <1>2, <1>3, <1>4, <1>5, <1>6, <1>7, <1>8, <1>9, <1>10 DEF Next, Finish

\* The types, on either site.
THEOREM DetectionTypeCorrect == Spec => []TypeOK
<1>1. Init => TypeOK
  <2> SUFFICES ASSUME Init PROVE TypeOK
    OBVIOUS
  <2>1. DOMAIN pool = {}
    BY DEF Init
  <2>2. page \in Page
    BY DEF Init, NewPage, Page
  <2> QED
    BY <2>1, <2>2 DEF Init, TypeOK, Checks
<1> QED
  BY <1>1, TypeStep, PTL DEF Spec

----------------------------------------------------------------------------
(* The pages of the main site: the callbacks race, the client's own answer  *)
(* decides                                                                 *)

IInv == TypeOK /\ InFlightUndone /\ CallsCounted /\ BaseOnce /\ AnsweredKeepsCookie

\* What the handlers leave of the page, in the terms of the invariant.
LEMMA FoundPage ==
  ASSUME HasBase, NEW p \in Page, NEW c \in BOOLEAN
  PROVE  LET s == Found(State(p, c))
         IN /\ s.cookie = TRUE
            /\ s.page.localDone /\ s.page.handled
            /\ s.page.remoteDone = p.remoteDone /\ s.page.cookieDone = p.cookieDone
            /\ s.page.fromCookie = p.fromCookie
            /\ s.page.calls = IF p.cookieDone \/ p.remoteDone THEN p.calls ELSE p.calls + 1
            /\ ~ p.handled => s.page.got = "present"
  BY DEF Found, Base, State, LocalCallback, MakeCallbacks, Page

LEMMA NotFoundPage ==
  ASSUME NEW p \in Page, NEW c \in BOOLEAN
  PROVE  LET s == NotFound(State(p, c))
         IN /\ s.cookie = FALSE
            /\ s.page.localDone /\ s.page.handled = p.handled
            /\ s.page.remoteDone = p.remoteDone /\ s.page.cookieDone = p.cookieDone
            /\ s.page.fromCookie = p.fromCookie
            /\ s.page.calls = IF p.cookieDone \/ p.remoteDone THEN p.calls ELSE p.calls + 1
  BY DEF NotFound, State, LocalCallback, MakeCallbacks, Page

LEMMA RemotePage ==
  ASSUME NEW p \in Page, NEW found \in BOOLEAN
  PROVE  LET q == RemoteCallback(p, found)
         IN /\ q.localDone = p.localDone /\ q.handled = p.handled
            /\ q.cookieDone = p.cookieDone /\ q.fromCookie = p.fromCookie
            /\ p.localDone => q = p
            /\ q.calls = IF p.cookieDone \/ p.localDone THEN p.calls ELSE p.calls + 1
            /\ ~ p.cookieDone /\ ~ p.localDone => q.remoteDone
            /\ p.cookieDone => q = p
  BY DEF RemoteCallback, MakeCallbacks, Page

LEMMA BasePage ==
  ASSUME NEW p \in Page, NEW c \in BOOLEAN, ~ p.handled
  PROVE  LET s == Base(State(p, c))
         IN /\ s.cookie = TRUE
            /\ s.page.localDone = p.localDone /\ s.page.handled
            /\ s.page.remoteDone = p.remoteDone /\ s.page.cookieDone = p.cookieDone
            /\ s.page.fromCookie = p.fromCookie /\ s.page.calls = p.calls
            /\ s.page.got = "present"
  BY DEF Base, State, Page

LEMMA NewPages ==
  /\ NewPage \in Page
  /\ NpapiCallback(NewPage).calls = 1 /\ CookieCallback(NewPage).calls = 1
  /\ ~ NpapiCallback(NewPage).localDone /\ ~ CookieCallback(NewPage).localDone
  /\ ~ NpapiCallback(NewPage).remoteDone /\ ~ CookieCallback(NewPage).remoteDone
  /\ NpapiCallback(NewPage).cookieDone /\ CookieCallback(NewPage).cookieDone
  /\ ~ NpapiCallback(NewPage).handled /\ ~ CookieCallback(NewPage).handled
  /\ ~ NpapiCallback(NewPage).fromCookie /\ ~ NewPage.fromCookie
  /\ NewPage.calls = 0 /\ ~ NewPage.localDone /\ ~ NewPage.remoteDone
  /\ ~ NewPage.handled /\ ~ NewPage.cookieDone
  BY DEF NewPage, Page, NpapiCallback, CookieCallback, MakeCallbacks

LEMMA IInvStep ==
  ASSUME HasBase, IInv, [Next]_vars
  PROVE  IInv'
<1> USE DEF IInv
<1>0. TypeOK' /\ page \in Page /\ cookie \in BOOLEAN /\ page.calls \in Nat
  BY TypeStep DEF TypeOK, Page
<1>1. ASSUME NEW plugin \in BOOLEAN, Load(plugin) PROVE IInv'
  <2>1. ~ answered' /\ ~ flashed' /\ lastCheck' = lastCheck /\ cookie' = cookie
    BY <1>1 DEF Load
  <2>2. page' \in {NpapiCallback(NewPage), CookieCallback(NewPage), NewPage}
    BY <1>1 DEF Load
  <2>3. /\ page'.calls <= 1 /\ (page'.calls = 0 \/ page'.cookieDone)
        /\ ~ page'.localDone /\ ~ page'.remoteDone /\ ~ page'.handled
    BY <2>2, NewPages
  <2> QED
    BY <1>0, <2>1, <2>3
    DEF InFlightUndone, CallsCounted, BaseOnce, LocalOverrides, AnsweredKeepsCookie
<1>2. CASE Switch
  BY <1>0, <1>2 DEF Switch, InFlightUndone, CallsCounted, BaseOnce, LocalOverrides,
                    AnsweredKeepsCookie
<1>3. ASSUME LocalAnswer \/ \E found \in BOOLEAN : RemoteAnswer(found) PROVE IInv'
  <2>1. DOMAIN pool' = DOMAIN pool
    BY <1>3 DEF LocalAnswer, RemoteAnswer, JsonpCallback
  <2>2. UNCHANGED <<cookie, lastCheck, answered, flashed, page>>
    BY <1>3 DEF LocalAnswer, RemoteAnswer
  <2> QED
    BY <1>0, <2>1, <2>2 DEF InFlightUndone, CallsCounted, BaseOnce, LocalOverrides,
                            AnsweredKeepsCookie
<1>5. CASE FromFlash
  <2>1. /\ flashed' /\ lastCheck' = "flash" /\ UNCHANGED <<answered, pool>>
        /\ ~ page.handled /\ page' = Base(State(page, cookie)).page
    BY <1>5 DEF FromFlash
  <2>2. /\ page'.localDone = page.localDone /\ page'.remoteDone = page.remoteDone
        /\ page'.cookieDone = page.cookieDone /\ page'.calls = page.calls
    BY <1>0, <2>1, BasePage
  <2> QED
    BY <1>0, <2>1, <2>2 DEF InFlightUndone, CallsCounted, BaseOnce, LocalOverrides,
                            AnsweredKeepsCookie
<1>6. CASE LocalLoaded
  <2>1. /\ answered' /\ lastCheck' = "answered" /\ flashed' = flashed
        /\ DOMAIN pool' = DOMAIN pool \ {"local"} /\ "local" \in DOMAIN pool
        /\ page' = Found(State(page, cookie)).page
        /\ cookie' = Found(State(page, cookie)).cookie
    BY <1>6 DEF LocalLoaded, IoCheck, RemoveScript
  <2>2. /\ cookie' /\ page'.localDone /\ page'.handled
        /\ page'.remoteDone = page.remoteDone /\ page'.cookieDone = page.cookieDone
        /\ page'.calls = IF page.cookieDone \/ page.remoteDone THEN page.calls
                         ELSE page.calls + 1
        /\ ~ page.handled => page'.got = "present"
    <3>1. cookie' = TRUE
      BY <1>0, <2>1, FoundPage
    <3> QED
      BY <1>0, <2>1, <3>1, FoundPage
  <2>3. ~ page.localDone /\ ~ answered /\ (flashed \/ ~ page.handled)
    BY <2>1 DEF InFlightUndone, BaseOnce
  <2>4. InFlightUndone'
    BY <2>1, <2>2 DEF InFlightUndone
  <2>5. CallsCounted'
    BY <1>0, <2>2, <2>3 DEF CallsCounted
  <2> QED
    BY <1>0, <2>1, <2>2, <2>3, <2>4, <2>5 DEF BaseOnce, LocalOverrides, AnsweredKeepsCookie
<1>7. CASE LocalFailed
  <2>1. /\ answered' = answered /\ lastCheck' = "failed" /\ flashed' = flashed
        /\ DOMAIN pool' = DOMAIN pool \ {"local"} /\ "local" \in DOMAIN pool
        /\ page' = NotFound(State(page, cookie)).page
    BY <1>7 DEF LocalFailed, Unanswered, RemoveScript
  <2>2. /\ page'.localDone /\ page'.handled = page.handled
        /\ page'.remoteDone = page.remoteDone /\ page'.cookieDone = page.cookieDone
        /\ page'.calls = IF page.cookieDone \/ page.remoteDone THEN page.calls
                         ELSE page.calls + 1
    BY <1>0, <2>1, NotFoundPage
  <2>3. ~ page.localDone /\ ~ answered
    BY <2>1 DEF InFlightUndone, BaseOnce
  <2>4. InFlightUndone'
    BY <2>1, <2>2 DEF InFlightUndone
  <2>5. CallsCounted'
    BY <1>0, <2>2, <2>3 DEF CallsCounted
  <2> QED
    BY <1>0, <2>1, <2>2, <2>3, <2>4, <2>5 DEF BaseOnce, LocalOverrides, AnsweredKeepsCookie
<1>8. CASE RemoteLoaded \/ RemoteFailed
  <2>1. PICK found \in BOOLEAN : page' = RemoteCallback(page, found)
    <3>1. CASE RemoteLoaded
      <4>1. Head(pool["remote"].json) \in BOOLEAN
        BY <3>1 DEF RemoteLoaded, IoCheck, Unanswered, TypeOK, Requests
      <4> QED
        BY <3>1, <4>1 DEF RemoteLoaded
    <3>2. CASE RemoteFailed
      BY <3>2 DEF RemoteFailed
    <3> QED
      BY <1>8, <3>1, <3>2
  <2>2. /\ UNCHANGED <<answered, lastCheck, flashed, cookie>>
        /\ DOMAIN pool' = DOMAIN pool \ {"remote"} /\ "remote" \in DOMAIN pool
    BY <1>8 DEF RemoteLoaded, RemoteFailed, IoCheck, Unanswered, RemoveScript
  <2>3. /\ page'.localDone = page.localDone /\ page'.handled = page.handled
        /\ page'.cookieDone = page.cookieDone
        /\ page.localDone => page' = page
        /\ page'.calls = IF page.cookieDone \/ page.localDone THEN page.calls
                         ELSE page.calls + 1
        /\ ~ page.cookieDone /\ ~ page.localDone => page'.remoteDone
        /\ page.cookieDone => page' = page
    BY <1>0, <2>1, RemotePage
  <2>4. ~ page.remoteDone
    BY <2>2 DEF InFlightUndone
  <2>5. InFlightUndone'
    BY <2>2, <2>3 DEF InFlightUndone
  <2>6. CallsCounted'
    BY <1>0, <2>3, <2>4 DEF CallsCounted
  <2>7. BaseOnce'
    BY <2>2, <2>3 DEF BaseOnce, LocalOverrides
  <2> QED
    BY <1>0, <2>2, <2>5, <2>6, <2>7 DEF AnsweredKeepsCookie
<1>10. CASE UNCHANGED vars
  BY <1>0, <1>10 DEF vars, InFlightUndone, CallsCounted, BaseOnce, LocalOverrides,
                     AnsweredKeepsCookie
<1> QED
  BY <1>1, <1>2, <1>3, <1>5, <1>6, <1>7, <1>8, <1>10 DEF Next, Finish

LEMMA IInvInit == Init => IInv
<1> SUFFICES ASSUME Init PROVE IInv
  OBVIOUS
<1>1. TypeOK
  <2>1. DOMAIN pool = {}
    BY DEF Init
  <2> QED
    BY <2>1, NewPages DEF Init, TypeOK, Checks
<1> QED
  BY <1>1, NewPages DEF Init, IInv, InFlightUndone, CallsCounted, BaseOnce, LocalOverrides,
                        AnsweredKeepsCookie

\* The page's own callbacks run once at most, in whatever order the cookie, the
\* client, the server and Flash answer.
THEOREM OneCallbackHolds == ASSUME HasBase PROVE Spec => []OneCallback
<1>1. IInv => OneCallback
  BY DEF IInv, CallsCounted, OneCallback
<1>2. IInv /\ [Next]_vars => IInv'
  BY IInvStep
<1> QED
  BY <1>1, <1>2, IInvInit, PTL DEF Spec

\* A page that the client has answered knows that it is there.
THEOREM LocalOverridesHolds == ASSUME HasBase PROVE Spec => []LocalOverrides
<1>1. IInv => LocalOverrides
  BY DEF IInv, BaseOnce
<1>2. IInv /\ [Next]_vars => IInv'
  BY IInvStep
<1> QED
  BY <1>1, <1>2, IInvInit, PTL DEF Spec

\* A check that the client has answered leaves the cookie.
THEOREM AnsweredKeepsCookieHolds == ASSUME HasBase PROVE Spec => []AnsweredKeepsCookie
<1>1. IInv => AnsweredKeepsCookie
  BY DEF IInv
<1>2. IInv /\ [Next]_vars => IInv'
  BY IInvStep
<1> QED
  BY <1>1, <1>2, IInvInit, PTL DEF Spec

----------------------------------------------------------------------------
(* The cookie and a client that has gone, on either site                   *)

\* No handler touches what the page took from the cookie when it was loaded.
LEMMA FromCookieKept ==
  ASSUME NEW p \in Page, NEW c \in BOOLEAN
  PROVE  /\ Found(State(p, c)).page.fromCookie = p.fromCookie
         /\ NotFound(State(p, c)).page.fromCookie = p.fromCookie
         /\ Base(State(p, c)).page.fromCookie = p.fromCookie
         /\ \A found \in BOOLEAN : RemoteCallback(p, found).fromCookie = p.fromCookie
<1>1. /\ LocalCallback(p, TRUE) \in Page
      /\ LocalCallback(p, TRUE).fromCookie = p.fromCookie
  BY CallbackTypes DEF LocalCallback, MakeCallbacks, Page
<1>2. \A q \in Page : /\ NotFound(State(q, TRUE)).page.fromCookie = q.fromCookie
                      /\ Base(State(q, TRUE)).page.fromCookie = q.fromCookie
  BY DEF NotFound, Base, State, LocalCallback, MakeCallbacks, Page
<1>3. State(p, c).page = p
  BY DEF State
<1>4. Found(State(p, c)).page.fromCookie = p.fromCookie
  BY <1>1, <1>2, <1>3 DEF Found
<1>5. /\ NotFound(State(p, c)).page.fromCookie = p.fromCookie
      /\ Base(State(p, c)).page.fromCookie = p.fromCookie
  BY DEF NotFound, Base, State, LocalCallback, MakeCallbacks, Page
<1> QED
  BY <1>4, <1>5, RemotePage

\* The cookie (NotFound) that a check erases when it has failed stays away until
\* the client is found: no page loaded in between trusts it.
THEOREM NotTrustedAfterFailureHolds == Spec => []NotTrustedAfterFailure
<1>1. Init => CookieFollows
  BY NewPages DEF Init, CookieFollows, NotTrustedAfterFailure
<1>2. TypeOK /\ CookieFollows /\ [Next]_vars => CookieFollows'
  <2> SUFFICES ASSUME TypeOK, CookieFollows, [Next]_vars PROVE CookieFollows'
    OBVIOUS
  <2>0. page \in Page /\ cookie \in BOOLEAN
    BY DEF TypeOK
  <2>1. ASSUME NEW plugin \in BOOLEAN, Load(plugin) PROVE CookieFollows'
    <3>1. trusted' = lastCheck /\ UNCHANGED <<lastCheck, cookie>>
      BY <2>1 DEF Load
    <3>2. page' = NpapiCallback(NewPage) \/ page' = NewPage \/ cookie
      BY <2>1 DEF Load
    <3> QED
      BY <3>1, <3>2, NewPages DEF CookieFollows, NotTrustedAfterFailure
  <2>2. ASSUME \/ Switch \/ LocalAnswer \/ UNCHANGED vars
               \/ \E found \in BOOLEAN : RemoteAnswer(found)
        PROVE  CookieFollows'
    <3>1. UNCHANGED <<cookie, lastCheck, trusted, page>>
      BY <2>2 DEF Switch, LocalAnswer, RemoteAnswer, vars
    <3> QED
      BY <3>1 DEF CookieFollows, NotTrustedAfterFailure
  <2>3. CASE FromFlash
    <3>1. lastCheck' = "flash" /\ UNCHANGED trusted /\ page' = Base(State(page, cookie)).page
      BY <2>3 DEF FromFlash
    <3> QED
      BY <2>0, <3>1, FromCookieKept DEF CookieFollows, NotTrustedAfterFailure
  <2>4. CASE LocalLoaded
    <3>1. lastCheck' = "answered" /\ UNCHANGED trusted /\ page' = Found(State(page, cookie)).page
      BY <2>4 DEF LocalLoaded
    <3> QED
      BY <2>0, <3>1, FromCookieKept DEF CookieFollows, NotTrustedAfterFailure
  <2>5. CASE LocalFailed
    <3>1. /\ UNCHANGED trusted /\ page' = NotFound(State(page, cookie)).page
          /\ cookie' = NotFound(State(page, cookie)).cookie
      BY <2>5 DEF LocalFailed
    <3>2. ~ cookie'
      BY <3>1 DEF NotFound, State
    <3> QED
      BY <2>0, <3>1, <3>2, FromCookieKept DEF CookieFollows, NotTrustedAfterFailure
  <2>6. CASE RemoteLoaded \/ RemoteFailed
    <3>1. UNCHANGED <<cookie, lastCheck, trusted>>
      BY <2>6 DEF RemoteLoaded, RemoteFailed
    <3>2. page'.fromCookie = page.fromCookie
      <4>1. CASE RemoteLoaded
        <5>1. Head(pool["remote"].json) \in BOOLEAN
          BY <4>1 DEF RemoteLoaded, IoCheck, Unanswered, TypeOK, Requests
        <5> QED
          BY <2>0, <4>1, <5>1, FromCookieKept DEF RemoteLoaded
      <4>2. CASE RemoteFailed
        BY <2>0, <4>2, FromCookieKept DEF RemoteFailed
      <4> QED
        BY <2>6, <4>1, <4>2
    <3> QED
      BY <3>1, <3>2 DEF CookieFollows, NotTrustedAfterFailure
  <2> QED
    BY <2>1, <2>2, <2>3, <2>4, <2>5, <2>6 DEF Next, Finish
<1>3. CookieFollows => NotTrustedAfterFailure
  BY DEF CookieFollows
<1> QED
  BY <1>1, <1>2, <1>3, DetectionTypeCorrect, PTL DEF Spec
=============================================================================
