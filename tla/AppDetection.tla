---------------------------- MODULE AppDetection ----------------------------
(***************************************************************************)
(* How a page finds out whether the LittleShoot client is there: the       *)
(* plugin, a cookie, a request to the client on this computer, a request   *)
(* to the server, and Flash.  Their answers race; the cookie outlives the  *)
(* page.  One browser that loads pages of one site, one after the other.   *)
(***************************************************************************)
EXTENDS ScriptIo

CONSTANTS Site,       (* the pages: "appengine" or "politicalvideo"         *)
          MaxLoads,   (* bound: how many pages are loaded                   *)
          MaxChanges  (* bound: how often the client starts or stops        *)

ASSUME DetectionAssumption ==
  /\ Site \in {"appengine", "politicalvideo"}
  /\ MaxLoads \in Nat /\ MaxChanges \in Nat

\* onLittleShootFromJavaScript and the Flash movie are parts of one site only.
HasBase == Site = "appengine"

VARIABLES
  running,   \* the client answers on this computer
  changes,   \* how often it has started or stopped
  cookie,    \* CLIENT_COOKIE_KEY says that the client is there
  lastCheck, \* how the last finished check of any page ended; Flash counts
  loads,     \* how many pages have been loaded
  trusted,   \* lastCheck when this page was loaded
  pool,      \* the script requests of this page
  answered,  \* the client has answered this page's check
  flashed,   \* Flash has found the client for this page
  page       \* the callback flags and what the page believes

vars == <<running, changes, cookie, lastCheck, loads, trusted, pool, answered,
          flashed, page>>

Tags == {"local", "remote"}

Page == [cookieDone : BOOLEAN, localDone : BOOLEAN, remoteDone : BOOLEAN,
         got : {"unknown", "present", "absent"}, \* window.gotLittleShoot
         handled : BOOLEAN, \* document.handledLittleShootCallback
         calls : Nat,       \* callbacks made to littleShootConfig
         fromCookie : BOOLEAN]

NewPage == [cookieDone |-> FALSE, localDone |-> FALSE, remoteDone |-> FALSE,
            got |-> "unknown", handled |-> FALSE, calls |-> 0,
            fromCookie |-> FALSE]

----------------------------------------------------------------------------
(* The callbacks, as functions of the page and the cookie                   *)

State(p, c) == [page |-> p, cookie |-> c]

MakeCallbacks(p, found) ==
  [p EXCEPT !.got = IF found THEN "present" ELSE "absent", !.calls = @ + 1]

NpapiCallback(p) == MakeCallbacks([p EXCEPT !.cookieDone = TRUE], TRUE)

CookieCallback(p) ==
  MakeCallbacks([p EXCEPT !.cookieDone = TRUE, !.fromCookie = TRUE], TRUE)

\* A bug the checks must see: absence is left to the server's answer.
LocalCallbackPresent(p, found) ==
  LET q == [p EXCEPT !.localDone = TRUE] IN
  IF p.cookieDone \/ p.remoteDone \/ ~ found THEN q ELSE MakeCallbacks(q, found)

LocalCallback(p, found) ==
  LET q == [p EXCEPT !.localDone = TRUE] IN
  IF p.cookieDone \/ p.remoteDone THEN q ELSE MakeCallbacks(q, found)

\* A bug the checks must see: the client's own answer does not stop the server's.
RemoteCallbackAnyway(p, found) ==
  IF p.cookieDone THEN p
  ELSE MakeCallbacks([p EXCEPT !.remoteDone = TRUE], found)

RemoteCallback(p, found) ==
  IF p.cookieDone \/ p.localDone THEN p
  ELSE MakeCallbacks([p EXCEPT !.remoteDone = TRUE], found)

\* A bug the checks must see: the flag is left to the callbacks.
BaseOnlyCookie(s) ==
  IF s.page.handled THEN s ELSE State([s.page EXCEPT !.handled = TRUE], TRUE)

\* onLittleShootBase: once for each page.
Base(s) ==
  IF s.page.handled THEN s
  ELSE State([s.page EXCEPT !.handled = TRUE, !.got = "present"], TRUE)

\* A bug the checks must see: nothing to do when the cookie has spoken.
NotFoundUnlessCookie(s) ==
  IF s.page.cookieDone THEN s ELSE State(LocalCallback(s.page, FALSE), FALSE)

\* onAppChecked without the client: the cookie goes whoever has spoken.
NotFound(s) == State(LocalCallback(s.page, FALSE), FALSE)

\* A bug the checks must see: a load handler that throws on every page.
FoundThrows(s) == NotFound(Base(State(LocalCallback(s.page, TRUE), TRUE)))

\* onAppChecked with the client's answer.  Where onLittleShootFromJavaScript
\* is not declared the test for it throws, and Deferred hands the exception to
\* the error handler of the same request.
Found(s) ==
  LET told == State(LocalCallback(s.page, TRUE), TRUE)
  IN IF HasBase THEN Base(told) ELSE NotFound(told)

----------------------------------------------------------------------------
(* The browser                                                             *)

\* A page is loaded and hasLittleShoot runs: the plugin is enough, the cookie
\* saves asking the server, and the client is asked in any case.
Load(plugin) ==
  /\ loads < MaxLoads /\ loads' = loads + 1
  /\ trusted' = lastCheck
  /\ answered' = FALSE /\ flashed' = FALSE
  /\ page' = IF plugin THEN NpapiCallback(NewPage)
             ELSE IF cookie THEN CookieCallback(NewPage) ELSE NewPage
  /\ pool' = LET local == Get(<<>>, "local", "local")
             IN IF plugin THEN <<>>
                ELSE IF cookie THEN local ELSE Get(local, "remote", "remote")
  /\ UNCHANGED <<running, changes, cookie, lastCheck>>

\* The client is started, stopped or removed.
Switch ==
  /\ changes < MaxChanges /\ changes' = changes + 1
  /\ running' = ~ running
  /\ UNCHANGED <<cookie, lastCheck, loads, trusted, pool, answered, flashed, page>>

\* The client's script arrives ...
LocalAnswer ==
  /\ running /\ "local" \in Unanswered(pool)
  /\ pool' = JsonpCallback(pool, "local", TRUE)
  /\ UNCHANGED <<running, changes, cookie, lastCheck, loads, trusted, answered,
                 flashed, page>>

\* ... and the server's: it goes by a cookie of the client's own.
RemoteAnswer(found) ==
  /\ "remote" \in Unanswered(pool)
  /\ pool' = JsonpCallback(pool, "remote", found)
  /\ UNCHANGED <<running, changes, cookie, lastCheck, loads, trusted, answered,
                 flashed, page>>

\* checkApp's load handler.
LocalLoaded ==
  /\ "local" \in IoCheck(pool)
  /\ LET s == Found(State(page, cookie))
     IN page' = s.page /\ cookie' = s.cookie
  /\ pool' = RemoveScript(pool, "local")
  /\ answered' = TRUE /\ lastCheck' = "answered"
  /\ UNCHANGED <<running, changes, loads, trusted, flashed>>

\* checkApp's error handler, after three seconds.
LocalFailed ==
  /\ "local" \in Unanswered(pool)
  /\ LET s == NotFound(State(page, cookie))
     IN page' = s.page /\ cookie' = s.cookie
  /\ pool' = RemoveScript(pool, "local")
  /\ lastCheck' = "failed"
  /\ UNCHANGED <<running, changes, loads, trusted, answered, flashed>>

\* hasLittleShoot's load handler.
RemoteLoaded ==
  /\ "remote" \in IoCheck(pool)
  /\ page' = RemoteCallback(page, Head(pool["remote"].json))
  /\ pool' = RemoveScript(pool, "remote")
  /\ UNCHANGED <<running, changes, cookie, lastCheck, loads, trusted, answered,
                 flashed>>

\* hasLittleShoot's error handler, after thirty seconds.
RemoteFailed ==
  /\ "remote" \in Unanswered(pool)
  /\ page' = RemoteCallback(page, FALSE)
  /\ pool' = RemoveScript(pool, "remote")
  /\ UNCHANGED <<running, changes, cookie, lastCheck, loads, trusted, answered,
                 flashed>>

\* The Flash movie polls the client by itself.
FromFlash ==
  /\ HasBase /\ running /\ loads > 0 /\ ~ page.handled
  /\ LET s == Base(State(page, cookie))
     IN page' = s.page /\ cookie' = s.cookie
  /\ flashed' = TRUE /\ lastCheck' = "flash"
  /\ UNCHANGED <<running, changes, loads, trusted, pool, answered>>

Init ==
  /\ running \in BOOLEAN /\ changes = 0
  /\ cookie \in BOOLEAN /\ lastCheck = "none"
  /\ loads = 0 /\ trusted = "none" /\ pool = <<>>
  /\ answered = FALSE /\ flashed = FALSE /\ page = NewPage

Finish == LocalLoaded \/ LocalFailed \/ RemoteLoaded \/ RemoteFailed

Next ==
  \/ \E plugin \in BOOLEAN : Load(plugin)
  \/ Switch \/ LocalAnswer \/ FromFlash
  \/ \E found \in BOOLEAN : RemoteAnswer(found)
  \/ Finish

Spec == Init /\ [][Next]_vars

\* A request in flight is looked at every 50 ms and times out.
FairSpec == Spec /\ WF_vars(Finish)

----------------------------------------------------------------------------
(* Properties                                                              *)

Checks == {"none", "answered", "failed", "flash"}

TypeOK ==
  /\ running \in BOOLEAN /\ changes \in Nat /\ cookie \in BOOLEAN
  /\ lastCheck \in Checks /\ loads \in Nat /\ trusted \in Checks
  /\ DOMAIN pool \subseteq Tags
  /\ \A id \in DOMAIN pool : pool[id] \in Requests({id}, BOOLEAN)
  /\ answered \in BOOLEAN /\ flashed \in BOOLEAN /\ page \in Page

\* However the cookie, the client's and the server's answers race, the page's
\* own callbacks (littleShootPresent, littleShootNotPresent) run once at most.
OneCallback == page.calls <= 1

\* When the client has answered this page the page knows it, also when the
\* server's "absent" came first and suppressed the callback.  Not claimed when
\* Flash was first: onLittleShootBase runs once, and a later "absent" stays.
LocalOverrides == answered /\ ~ flashed => page.got = "present"

\* A check the client has answered leaves the cookie in place, for the next
\* page: "we just erase the cookie if our call to the LittleShoot client fails".
AnsweredKeepsCookie == lastCheck = "answered" => cookie

\* Once a check has finished failing no page trusts the cookie until the client
\* is found again.  Pages loaded before it has finished do trust it, as many as
\* the user loads and leaves within the check's time limit.
NotTrustedAfterFailure == page.fromCookie => trusted # "failed"

\* Every page is told something, unless the user leaves it before.
EveryPageDecides ==
  \A n \in 1 .. MaxLoads :
    loads = n /\ page.got = "unknown" ~> (loads # n \/ page.got # "unknown")
=============================================================================
