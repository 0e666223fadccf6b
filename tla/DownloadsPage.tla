---------------------------- MODULE DownloadsPage ----------------------------
(***************************************************************************)
(* The downloads page.  It asks the client for its downloads every two     *)
(* seconds and draws a row for each; it draws them anew only when their    *)
(* number has changed.  The buttons of a row look the download up in a map *)
(* and send the client a command, whose effect the next answers show.      *)
(***************************************************************************)
EXTENDS ScriptIo

CONSTANTS Downloads,    (* the downloads the client may have                 *)
          GiveUpAfter,  (* failures in a row before the list is emptied      *)
          MaxClicks,    (* bound: what the user does                         *)
          MaxChanges,   (* bound: what the client does by itself             *)
          MaxFailures   (* bound: requests that fail                         *)

ASSUME DownloadsAssumption ==
  /\ GiveUpAfter \in Nat
  /\ MaxClicks \in Nat /\ MaxChanges \in Nat /\ MaxFailures \in Nat

Statuses == {"downloading", "paused", "ended"}
Lists    == UNION {[ds -> Statuses] : ds \in SUBSET Downloads}

VARIABLES
  client,    \* the client's downloads and how they are
  changes,   \* how much it has done by itself
  commands,  \* sent by the page and not obeyed yet
  loading,   \* window.downloadsLoading
  pool,      \* the requests for the list
  timers,    \* timers of queueRequest that are pending
  failures,  \* failureCount
  failed,    \* how many requests have failed in all
  old,       \* window.oldDownloads, empty for null, else a sequence of one list
  rows,      \* the rows drawn, each with the status and the icon it shows
  map,       \* downloadsMap
  hiding,    \* hide animations whose callback has not run
  clicks,    \* how much the user has done
  pressed,   \* rows whose icon was pressed after their last update
  blanked    \* the error handler has emptied the list

server == <<client, changes>>
refresh == <<loading, pool, timers, failures, failed>>
list == <<old, rows, map, hiding>>
vars == <<server, commands, refresh, list, clicks, pressed, blanked>>

Commands == [name : {"pause", "resume", "stop"}, download : Downloads]
              \cup [name : {"clear"}]

----------------------------------------------------------------------------
(* Drawing                                                                 *)

\* A row of the template, and the same after updateDownloadBase: the icon is
\* one to press while the download is under way or paused, and hidden after.
NewRow == [status |-> "ended", icon |-> "pause"]

\* A bug the checks must see: the redundant case is left out.
UpdatedOncePaused(row, status) ==
  [status |-> status, icon |-> IF status = "paused" THEN "play" ELSE row.icon]

Updated(row, status) ==
  [status |-> status,
   icon   |-> CASE status = "paused" -> "play"
                [] status = "downloading" -> "pause"
                [] OTHER -> row.icon]

\* Only the number of downloads is compared.
NewDownloadData(json) == old = <<>> \/ Cardinality(DOMAIN old[1]) # Cardinality(DOMAIN json)

Rendered(json) ==
  IF NewDownloadData(json) THEN [d \in DOMAIN json |-> NewRow] ELSE rows

\* A bug the checks must see: the map is reset at every update.
MappedAnew(json) == json

\* The map keeps what it has: setting the length of an object resets nothing.
Mapped(json) ==
  [d \in DOMAIN map \cup DOMAIN json |-> IF d \in DOMAIN json THEN json[d] ELSE map[d]]

\* A bug the checks must see: the answer is kept first and then compared.
UpdateDownloadsAfter(json) ==
  /\ old' = <<json>>
  /\ map' = Mapped(json)
  /\ rows' = [d \in DOMAIN rows |->
                IF d \in DOMAIN json THEN Updated(rows[d], json[d]) ELSE rows[d]]

\* updateDownloads, and the answer kept for the next comparison.
UpdateDownloads(json) ==
  /\ old' = <<json>>
  /\ IF DOMAIN json = {} THEN rows' = <<>> /\ UNCHANGED map
     ELSE LET drawn == Rendered(json)
          IN /\ map' = Mapped(json)
             /\ rows' = [d \in DOMAIN drawn |->
                           IF d \in DOMAIN json THEN Updated(drawn[d], json[d])
                           ELSE drawn[d]]

----------------------------------------------------------------------------
(* Refreshing                                                              *)

RefreshJson == pool' = Get(pool, FreshId(pool), "downloads")

QueueRequest == timers' = timers + 1

\* A bug the checks must see: opening the tab again starts another loop.
LoadAgain ==
  /\ clicks < MaxClicks /\ clicks' = clicks + 1
  /\ loading' = TRUE
  /\ RefreshJson
  /\ UNCHANGED <<server, commands, timers, failures, failed, list, pressed, blanked>>

\* The tab is opened; when it was open before there is nothing to do.
LoadAllDownloads ==
  /\ clicks < MaxClicks /\ clicks' = clicks + 1
  /\ ~ loading /\ loading' = TRUE
  /\ RefreshJson
  /\ UNCHANGED <<server, commands, timers, failures, failed, list, pressed, blanked>>

TimerFires ==
  /\ timers > 0 /\ timers' = timers - 1
  /\ RefreshJson
  /\ UNCHANGED <<server, commands, loading, failures, failed, list, clicks,
                 pressed, blanked>>

ClientAnswers ==
  /\ \E id \in Unanswered(pool) : pool' = JsonpCallback(pool, id, client)
  /\ UNCHANGED <<server, commands, loading, timers, failures, failed, list,
                 clicks, pressed, blanked>>

Success ==
  /\ \E id \in IoCheck(pool) :
       LET json == Head(pool[id].json)
       IN /\ UpdateDownloads(json)
          /\ pressed' = pressed \ DOMAIN json
          /\ blanked' = (blanked /\ DOMAIN json # {} /\ ~ NewDownloadData(json))
          /\ pool' = RemoveScript(pool, id)
  /\ failures' = 0
  /\ QueueRequest
  /\ UNCHANGED <<server, commands, loading, failed, hiding, clicks>>

\* After too many failures the list is emptied; oldDownloads is kept, so that
\* the list stays empty until the number of downloads changes.
Error ==
  /\ failed < MaxFailures /\ failed' = failed + 1
  /\ \E id \in Unanswered(pool) : pool' = RemoveScript(pool, id)
  /\ failures' = failures + 1
  /\ QueueRequest
  /\ IF failures + 1 > GiveUpAfter THEN rows' = <<>> /\ blanked' = TRUE
     ELSE UNCHANGED <<rows, blanked>>
  /\ UNCHANGED <<server, commands, loading, old, map, hiding, clicks, pressed>>

----------------------------------------------------------------------------
(* The user                                                                *)

\* The buttons are hidden unless the row shows a download under way or paused.
Press(d) ==
  /\ clicks < MaxClicks /\ clicks' = clicks + 1
  /\ d \in DOMAIN rows /\ rows[d].status # "ended"
  /\ UNCHANGED <<server, refresh, old, map, hiding, blanked>>

\* What is sent goes by the map, which knows the last answer; the icon changes
\* at once.
PauseResume(d) ==
  /\ Press(d)
  /\ commands' = commands \cup
       {[name |-> IF map[d] = "paused" THEN "resume" ELSE "pause", download |-> d]}
  /\ rows' = [rows EXCEPT ![d].icon = IF map[d] = "paused" THEN "pause" ELSE "play"]
  /\ pressed' = pressed \cup {d}

\* Stop, and the dialog confirmed.
Stop(d) ==
  /\ Press(d)
  /\ commands' = commands \cup {[name |-> "stop", download |-> d]}
  /\ UNCHANGED <<rows, pressed>>

\* downloadsCall: the list fades while the client clears it.
Clear ==
  /\ loading /\ clicks < MaxClicks /\ clicks' = clicks + 1
  /\ hiding' = hiding + 1
  /\ commands' = commands \cup {[name |-> "clear"]}
  /\ UNCHANGED <<server, refresh, old, rows, map, pressed, blanked>>

\* A bug the checks must see: the next answer is compared with the last.
HiddenKeepsOld ==
  /\ hiding > 0 /\ hiding' = hiding - 1
  /\ rows' = <<>>
  /\ UNCHANGED <<server, commands, refresh, old, map, clicks, pressed, blanked>>

\* The callback of the animation.  Answers may have come meanwhile.
Hidden ==
  /\ hiding > 0 /\ hiding' = hiding - 1
  /\ rows' = <<>> /\ old' = <<>>
  /\ UNCHANGED <<server, commands, refresh, map, clicks, pressed, blanked>>

----------------------------------------------------------------------------
(* The client                                                              *)

After(c) ==
  CASE c.name = "clear" ->
         [d \in {e \in DOMAIN client : client[e] # "ended"} |-> client[d]]
    [] c.name = "stop" -> [d \in DOMAIN client \ {c.download} |-> client[d]]
    [] OTHER -> [d \in DOMAIN client |->
                   IF d # c.download \/ client[d] = "ended" THEN client[d]
                   ELSE IF c.name = "pause" THEN "paused" ELSE "downloading"]

\* Commands arrive in any order.
ClientObeys ==
  /\ \E c \in commands : client' = After(c) /\ commands' = commands \ {c}
  /\ UNCHANGED <<changes, refresh, list, clicks, pressed, blanked>>

\* A download is begun, or one ends or is removed elsewhere.
ClientChanges ==
  /\ changes < MaxChanges /\ changes' = changes + 1
  /\ \E d \in Downloads :
       \/ d \notin DOMAIN client
          /\ client' = [e \in DOMAIN client \cup {d} |->
                          IF e = d THEN "downloading" ELSE client[e]]
       \/ d \in DOMAIN client /\ client' = [client EXCEPT ![d] = "ended"]
       \/ d \in DOMAIN client /\ client' = [e \in DOMAIN client \ {d} |-> client[e]]
  /\ UNCHANGED <<commands, refresh, list, clicks, pressed, blanked>>

Init ==
  /\ client = <<>> /\ changes = 0 /\ commands = {}
  /\ loading = FALSE /\ pool = <<>> /\ timers = 0 /\ failures = 0 /\ failed = 0
  /\ old = <<>> /\ rows = <<>> /\ map = <<>> /\ hiding = 0
  /\ clicks = 0 /\ pressed = {} /\ blanked = FALSE

Page == TimerFires \/ Success \/ Error \/ Hidden
User == LoadAllDownloads \/ Clear \/ \E d \in Downloads : PauseResume(d) \/ Stop(d)

Next == Page \/ User \/ ClientAnswers \/ ClientObeys \/ ClientChanges

Spec == Init /\ [][Next]_vars

\* The client obeys and answers, and the page's timers and callbacks run.
FairSpec ==
  /\ Spec
  /\ WF_vars(ClientAnswers) /\ WF_vars(ClientObeys)
  /\ WF_vars(TimerFires) /\ WF_vars(Success) /\ WF_vars(Hidden)

----------------------------------------------------------------------------
(* Properties                                                              *)

Rows == [status : Statuses, icon : {"pause", "play"}]

TypeOK ==
  /\ client \in Lists /\ changes \in Nat /\ commands \subseteq Commands
  /\ loading \in BOOLEAN
  /\ \A id \in DOMAIN pool : pool[id] \in Requests({"downloads"}, Lists)
  /\ timers \in Nat /\ failures \in Nat /\ failed \in Nat
  /\ old = <<>> \/ (old = <<Head(old)>> /\ Head(old) \in Lists)
  /\ DOMAIN rows \subseteq Downloads /\ \A d \in DOMAIN rows : rows[d] \in Rows
  /\ map \in Lists /\ hiding \in Nat /\ clicks \in Nat
  /\ pressed \subseteq Downloads /\ blanked \in BOOLEAN

\* Success, failure and the tab opened again leave one request in flight or
\* one timer: the page neither stops asking nor asks twice as often.
OneLoop ==
  timers + Cardinality(DOMAIN pool) = IF loading THEN 1 ELSE 0

\* Comparing numbers is enough to keep as many rows as the last answer had,
\* also when the animation that empties the list ends after the answer.
RowsCounted ==
  old # <<>> /\ ~ blanked => Cardinality(DOMAIN rows) = Cardinality(DOMAIN old[1])

\* A row that another download has replaced, or that the client has lost, stays;
\* its buttons still find a download, and the one whose status the row shows.
MapKnowsRows ==
  \A d \in DOMAIN rows : d \in DOMAIN map /\ map[d] = rows[d].status

\* The icon offers to resume exactly what the map says is paused, except on
\* rows pressed after the last answer.
IconHonest ==
  \A d \in DOMAIN rows \ pressed :
    rows[d].status # "ended" => (rows[d].icon = "play") = (map[d] = "paused")

\* The page ends with as many rows as the client has downloads, and the rows of
\* downloads that the client has show their status.  Not claimed once the error
\* handler has emptied the list.
Settled ==
  blanked \/ ~ loading \/
    /\ Cardinality(DOMAIN rows) = Cardinality(DOMAIN client)
    /\ \A d \in DOMAIN rows \cap DOMAIN client : rows[d].status = client[d]

Settles == <>[]Settled
=============================================================================
