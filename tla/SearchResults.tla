---------------------------- MODULE SearchResults ----------------------------
(***************************************************************************)
(* The search page.  The client searches and collects results; for every   *)
(* search that is opened the page makes an instance that polls the client  *)
(* for one page of results and draws what has changed.  Instances are      *)
(* stopped, never taken back: their timers, their requests and the links   *)
(* they have drawn outlive them.                                           *)
(***************************************************************************)
EXTENDS ScriptIo, SequencesExt, Functions

CONSTANTS Pages,        (* the pages of results, from 0                      *)
          MaxSearches,  (* bound: the searches the client runs               *)
          MaxRank,      (* how far the client gets with a search             *)
          ResultsAt,    (* the results of [search, rank, page]               *)
          Downloading,  (* the results that are being downloaded             *)
          MaxEvents     (* bound: what the user does and what goes wrong     *)

Searches == 1 .. MaxSearches
Ranks    == 0 .. MaxRank

ASSUME SearchAssumption ==
  /\ MaxSearches \in Nat /\ MaxRank \in Nat /\ MaxEvents \in Nat
  /\ Pages \subseteq Nat /\ 0 \in Pages
  /\ ResultsAt \in [Searches \X Ranks \X Pages -> Seq(STRING)]

VARIABLES
  started,  \* the client's searches are 1 .. started
  rank,     \* how far it is with each
  asked,    \* the requests to search
  polls,    \* the requests for results, each of an instance for a page
  insts,    \* the SearchResults made so far
  cur,      \* window.searchResults, 0 for null
  guid,     \* the cookie lastSearchGuid, 0 for none
  last,     \* window.lastJsonSearchData
  shown,    \* the two columns: the answer drawn and the instance that drew it
  buttons,  \* the searches before and after, 0 for a disabled button
  nav,      \* the instance whose page links are on the page
  visited,  \* the pages in the browser's history
  events,   \* how much the user has done, and how much has gone wrong
  lost,     \* instances with a poll that ended and was not followed by another
  overlaps  \* instances that switched pages while a poll was in flight

client == <<started, rank>>
window == <<cur, guid, last, shown, buttons, nav, visited>>
history == <<lost, overlaps>>
vars == <<client, asked, polls, insts, window, events, history>>

\* An answer.  known is the number of searches in searchData, 0 without it;
\* listed says whether the one asked for is among them.
Answers == [guid : Searches, page : Pages, results : Range(ResultsAt),
            complete : BOOLEAN, known : 0 .. MaxSearches, listed : BOOLEAN]

\* The answer to a poll of an instance for a page.
Answer(tag, known, listed) ==
  LET g == insts[tag.inst].guid
  IN [guid |-> g, page |-> tag.page, results |-> ResultsAt[g, rank[g], tag.page],
      complete |-> rank[g] = MaxRank, known |-> known, listed |-> listed]

NoAnswer == [guid |-> 0, page |-> 0, results |-> <<>>, complete |-> FALSE,
             known |-> 0, listed |-> FALSE]

Cleared == [inst |-> 0, answer |-> NoAnswer]

----------------------------------------------------------------------------
(* Instances and their timers                                              *)

NewInstance(g, force) ==
  [guid |-> g, forceReload |-> force, stopped |-> FALSE, wasComplete |-> FALSE,
   page |-> 0,
   timer |-> FALSE, \* the timer that timeoutId names is pending
   older |-> 0]     \* pending timers that no variable names any more

\* A second schedule forgets the first one's timer but does not clear it.
ScheduleCall(n) ==
  IF n.stopped THEN n
  ELSE [n EXCEPT !.older = IF n.timer THEN @ + 1 ELSE @, !.timer = TRUE]

\* A bug the checks must see: a search is replaced and goes on polling.
StopNothing(all, i) == all

Stop(all, i) == IF i = 0 THEN all ELSE [all EXCEPT ![i].stopped = TRUE]

\* A bug the checks must see: stop only stops the drawing.
LoadAnyway(all, i, p) ==
  /\ insts' = [all EXCEPT ![i].timer = FALSE, ![i].page = p]
  /\ polls' = Get(polls, FreshId(polls), [inst |-> i, page |-> p])

\* loadResultsPage of instance i of all.
Load(all, i, p) ==
  IF all[i].stopped THEN insts' = all /\ UNCHANGED polls
  ELSE /\ insts' = [all EXCEPT ![i].timer = FALSE, ![i].page = p]
       /\ polls' = Get(polls, FreshId(polls), [inst |-> i, page |-> p])

\* A new window.searchResults, which clears the columns, and its first load.
Open(all, g, force) ==
  /\ cur' = Len(all) + 1
  /\ guid' = g
  /\ shown' = Cleared
  /\ Load(Append(all, NewInstance(g, force)), Len(all) + 1, 0)

Event == events < MaxEvents /\ events' = events + 1

----------------------------------------------------------------------------
(* The client                                                              *)

\* It starts a search it was asked for; the script brings the new guid.
ClientSearches ==
  \E id \in Unanswered(asked) :
    /\ started < MaxSearches /\ started' = started + 1
    /\ asked' = JsonpCallback(asked, id, started + 1)
    /\ UNCHANGED <<rank, polls, insts, window, events, history>>

ClientFinds ==
  \E g \in 1 .. started :
    /\ rank[g] < MaxRank /\ rank' = [rank EXCEPT ![g] = @ + 1]
    /\ UNCHANGED <<started, asked, polls, insts, window, events, history>>

\* It answers a poll with what it has now, or it has forgotten that search, or all.
ClientAnswers(id) ==
  /\ id \in Unanswered(polls)
  /\ polls' = JsonpCallback(polls, id, Answer(polls[id].tag, started, TRUE))
  /\ UNCHANGED <<client, asked, insts, window, events, history>>

ClientForgets(id) ==
  /\ Event /\ id \in Unanswered(polls)
  /\ \E known \in {0, started} :
       polls' = JsonpCallback(polls, id, Answer(polls[id].tag, known, FALSE))
  /\ UNCHANGED <<client, asked, insts, window, history>>

----------------------------------------------------------------------------
(* An answer is processed                                                  *)

\* Length and last result, of the page drawn last, whichever search drew it.
SameResults(a) ==
  /\ last.results # <<>> /\ a.results # <<>>
  /\ last.page = a.page
  /\ Len(last.results) = Len(a.results)
  /\ Last(last.results) = Last(a.results)

UpdateForwardBackButtons(a) ==
  buttons' = IF a.known = 1 THEN [back |-> 0, forward |-> 0]
             ELSE [back    |-> a.guid - 1,
                   forward |-> IF a.guid < 5 /\ a.guid < a.known THEN a.guid + 1 ELSE 0]

\* updateDownload throws for a result that has no div.
DownloadsThrow(a, drawn) == (ToSet(a.results) \cap Downloading) \ ToSet(drawn) # {}

\* A bug the checks must see: nothing more can come.
ContinueUntilComplete(i, n, a, drawn) ==
  /\ insts' = [insts EXCEPT ![i] = IF a.complete THEN n ELSE ScheduleCall(n)]
  /\ lost' = IF DownloadsThrow(a, drawn) THEN lost \cup {i} ELSE lost

\* What follows updateDownloads: the next call, unless it threw.
Continue(i, n, a, drawn) ==
  IF DownloadsThrow(a, drawn)
  THEN insts' = [insts EXCEPT ![i] = n] /\ lost' = lost \cup {i}
  ELSE insts' = [insts EXCEPT ![i] = ScheduleCall(n)] /\ UNCHANGED lost

\* A bug the checks must see: a stopped instance still draws.
DroppedUnlisted(i, a) == a.known = 0 \/ ~ a.listed

\* Returns and exceptions before anything is drawn.
Dropped(i, a) == a.known = 0 \/ insts[i].stopped \/ ~ a.listed

Drop(i, a) ==
  /\ Dropped(i, a)
  /\ lost' = IF insts[i].stopped THEN lost ELSE lost \cup {i}
  /\ UNCHANGED <<insts, last, shown, buttons, nav>>

\* A bug the checks must see: a forced reload is not.
UnchangedForced(i, a) == (insts[i].wasComplete /\ a.complete) \/ SameResults(a)

\* Two complete answers one after the other, or no change to be seen.
Unchanged(i, a) ==
  \/ insts[i].wasComplete /\ a.complete
  \/ ~ insts[i].forceReload /\ SameResults(a)

Keep(i, a) ==
  LET n == [insts[i] EXCEPT !.wasComplete = a.complete]
  IN /\ ~ Dropped(i, a) /\ Unchanged(i, a)
     /\ UpdateForwardBackButtons(a)
     /\ Continue(i, n, a, shown.answer.results)
     /\ UNCHANGED <<last, shown, nav>>

Draw(i, a) ==
  LET n == [insts[i] EXCEPT !.wasComplete = a.complete]
  IN /\ ~ Dropped(i, a) /\ ~ Unchanged(i, a)
     /\ UpdateForwardBackButtons(a)
     /\ last' = a
     /\ shown' = [inst |-> i, answer |-> a]
     /\ nav' = i
     /\ Continue(i, n, a, a.results)

PollLoaded(id) ==
  /\ id \in IoCheck(polls)
  /\ LET i == polls[id].tag.inst
         a == Head(polls[id].json)
     IN Drop(i, a) \/ Keep(i, a) \/ Draw(i, a)
  /\ polls' = RemoveScript(polls, id)
  /\ UNCHANGED <<client, asked, cur, guid, visited, events, overlaps>>

\* The error handler takes the spinner away, and nobody polls again.
PollFailed(id) ==
  /\ Event /\ id \in Unanswered(polls)
  /\ polls' = RemoveScript(polls, id)
  /\ lost' = IF insts[polls[id].tag.inst].stopped THEN lost
             ELSE lost \cup {polls[id].tag.inst}
  /\ UNCHANGED <<client, asked, insts, window, overlaps>>

\* A timer fires, be it the one that timeoutId names or not.
TimerFires(i) ==
  /\ i \in DOMAIN insts
  /\ LET n == insts[i]
     IN \E fired \in {[n EXCEPT !.timer = FALSE], [n EXCEPT !.older = @ - 1]} :
          /\ fired # n /\ fired.older \in Nat
          /\ Load([insts EXCEPT ![i] = fired], i, n.page)
  /\ UNCHANGED <<client, asked, window, events, history>>

----------------------------------------------------------------------------
(* The user                                                                *)

\* startSearch with words in the form.
StartSearch ==
  /\ Event
  /\ asked' = Get(asked, FreshId(asked), "search")
  /\ UNCHANGED <<client, polls, insts, window, history>>

\* The client has begun: the old results are stopped and new ones opened,
\* whatever tab the user has gone to meanwhile.
SearchStarted ==
  \E id \in IoCheck(asked) :
    /\ asked' = RemoveScript(asked, id)
    /\ Open(Stop(insts, cur), Head(asked[id].json), FALSE)
    /\ UNCHANGED <<client, last, buttons, nav, visited, events, history>>

SearchFailed ==
  /\ Event
  /\ \E id \in Unanswered(asked) : asked' = RemoveScript(asked, id)
  /\ UNCHANGED <<client, polls, insts, window, history>>

\* SearchResultUtils.reload.  With results on the page it looks their search up
\* in the answer drawn last, and throws, with nothing opened, if it is not there.
Reload(g, force) ==
  IF cur # 0 /\ last.known # 0 /\ g > last.known
  THEN /\ insts' = Stop(insts, cur) /\ cur' = 0
       /\ UNCHANGED <<polls, guid, shown>>
  ELSE Open(Stop(insts, cur), g, force)

BackOrForward ==
  /\ Event
  /\ \E g \in {buttons.back, buttons.forward} \ {0} : Reload(g, FALSE)
  /\ UNCHANGED <<client, asked, last, buttons, nav, visited, history>>

\* The search tab is opened: the last search is drawn again.
SearchTab ==
  /\ Event /\ guid # 0
  /\ Reload(guid, TRUE)
  /\ UNCHANGED <<client, asked, last, buttons, nav, visited, history>>

\* Another tab is opened.
OtherTab ==
  /\ Event /\ cur # 0
  /\ insts' = Stop(insts, cur)
  /\ UNCHANGED <<client, asked, polls, window, history>>

InFlight(i) == {id \in DOMAIN polls : polls[id].tag.inst = i}

\* A bug the checks must see: the old page's completeness is kept.
SwitchKeepsComplete(i, p) ==
  /\ Load([insts EXCEPT ![i].timer = FALSE], i, p)
  /\ overlaps' = IF InFlight(i) # {} THEN overlaps \cup {i} ELSE overlaps

\* switchResultsPageBase.  A poll in flight is not given up.
Switch(i, p) ==
  /\ Load([insts EXCEPT ![i].timer = FALSE, ![i].wasComplete = FALSE], i, p)
  /\ overlaps' = IF InFlight(i) # {} THEN overlaps \cup {i} ELSE overlaps

\* A page link belongs to the instance that drew it.
PageLink ==
  /\ Event /\ nav # 0
  /\ \E p \in Pages : Switch(nav, p) /\ visited' = visited \cup {p}
  /\ UNCHANGED <<client, asked, cur, guid, last, shown, buttons, nav, lost>>

\* The browser's back button switches the current instance, whichever search
\* the page belonged to.
BrowserBack ==
  /\ Event /\ cur # 0
  /\ \E p \in visited : Switch(cur, p)
  /\ UNCHANGED <<client, asked, window, lost>>

Init ==
  /\ started = 0 /\ rank = [g \in Searches |-> 0]
  /\ asked = <<>> /\ polls = <<>> /\ insts = <<>>
  /\ cur = 0 /\ guid = 0 /\ last = NoAnswer /\ shown = Cleared
  /\ buttons = [back |-> 0, forward |-> 0] /\ nav = 0 /\ visited = {}
  /\ events = 0 /\ lost = {} /\ overlaps = {}

\* Every instance, and every poll, goes back to something the user did.
Ids == 1 .. MaxEvents

Poll(id) == ClientAnswers(id) \/ PollLoaded(id)

Client == ClientSearches \/ ClientFinds 
            \/ \E id \in Ids : ClientAnswers(id) \/ ClientForgets(id)
Page   == \/ SearchStarted \/ SearchFailed
          \/ \E id \in Ids : PollLoaded(id) \/ PollFailed(id) \/ TimerFires(id)
User   == StartSearch \/ BackOrForward \/ SearchTab \/ OtherTab \/ PageLink
            \/ BrowserBack

Next == Client \/ Page \/ User

Spec == Init /\ [][Next]_vars

\* The client works and answers, answers are processed and timers fire.  The
\* user need not do anything.
FairSpec ==
  /\ Spec
  /\ WF_vars(ClientSearches) /\ WF_vars(ClientFinds) /\ WF_vars(SearchStarted)
  /\ \A id \in Ids : WF_vars(Poll(id)) /\ WF_vars(TimerFires(id))

----------------------------------------------------------------------------
(* Properties                                                              *)

Instances == [guid : Searches, forceReload : BOOLEAN, stopped : BOOLEAN,
              wasComplete : BOOLEAN, page : Pages, timer : BOOLEAN, older : Nat]

InstanceIds == DOMAIN insts

TypeOK ==
  /\ started \in 0 .. MaxSearches /\ rank \in [Searches -> Ranks]
  /\ \A id \in DOMAIN asked : asked[id] \in Requests({"search"}, 1 .. started)
  /\ \A id \in DOMAIN polls :
       polls[id] \in Requests([inst : InstanceIds, page : Pages], Answers)
  /\ insts \in Seq(Instances)
  /\ cur \in {0} \cup InstanceIds /\ nav \in {0} \cup InstanceIds
  /\ guid \in 0 .. MaxSearches
  /\ last \in Answers \cup {NoAnswer}
  /\ shown.inst \in {0} \cup InstanceIds
  /\ shown.answer \in Answers \cup {NoAnswer}
  /\ buttons \in [back : 0 .. MaxSearches, forward : 0 .. MaxSearches]
  /\ visited \subseteq Pages /\ events \in Nat
  /\ lost \subseteq InstanceIds /\ overlaps \subseteq InstanceIds

\* Replaced instances are stopped, so one instance at most polls.
OneAlive == \A i \in InstanceIds : insts[i].stopped \/ i = cur

\* The results on the page are those of the search the page is at, although
\* older searches still have requests in flight when it is replaced.
ShownIsCurrent == shown.inst # 0 /\ cur # 0 => shown.inst = cur

\* The page goes on polling until it is stopped, a request fails, the client
\* has forgotten the search, or a result that is downloading has no div.
KeepsPolling ==
  cur # 0 =>
    \/ insts[cur].stopped \/ cur \in lost
    \/ insts[cur].timer \/ insts[cur].older > 0 \/ InFlight(cur) # {}

\* Once the user has switched to another page of results, that page is drawn
\* or has been asked for.
Follows(i) ==
  \/ insts[i].stopped \/ i \in lost
  \/ shown.inst # i \/ shown.answer.page = insts[i].page
  \/ \E id \in InFlight(i) : polls[id].tag.page = insts[i].page

\* ... if no poll was in flight when the user switched.
SwitchFollows == cur # 0 => cur \in overlaps \/ Follows(cur)

\* A stopped instance asks for nothing more, although its timers still fire, its
\* page links are still there and the browser's back button may go to it.
AsksNoMore ==
  [][\A i \in InstanceIds :
       insts[i].stopped => InFlight(i)' \subseteq InFlight(i)]_vars

\* What the client ends with is what the page ends with.  Not claimed when the
\* search drawn before looks the same: then the cleared columns stay empty.
Settled ==
  \/ cur = 0 \/ insts[cur].stopped \/ cur \in lost \cup overlaps
  \/ /\ ~ insts[cur].forceReload /\ shown.inst = 0
     /\ SameResults(Answer([inst |-> cur, page |-> insts[cur].page], started, TRUE))
  \/ /\ shown.inst = cur /\ shown.answer.complete
     /\ shown.answer.guid = insts[cur].guid /\ shown.answer.page = insts[cur].page

Settles == <>[]Settled
=============================================================================
