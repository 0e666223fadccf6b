# LittleShoot, specified

TLA+ specifications of the LittleShoot client's own protocols, with TLC model
checking of small instances and TLAPS proofs for every instance. Sources are
quoted relative to the repository; `RUDP` stands for
`src/common/rudp/src/main/java/org/lastbamboo/common/rudp`, `MEDIA` for
`src/server/appengine/media`, `CLIENT` for
`src/client/services/src/main/java/org/lastbamboo/client`.

Contents: [the system](#the-system) · [what is modelled](#the-modules) ·
[the runs](#the-runs) · [fairness](#fairness) · [the proofs](#the-proofs) ·
[disagreements](#disagreements-between-code-and-text) ·
[what is not modelled](#what-is-not-modelled) · [the plan](#the-plan)

To check one run: `tlc -config Established.cfg MCRudpConnection.tla`; one proof
module: `tlapm RudpConnectionProofs.tla`. `PROJECT.json` lists the runs, the source
lines behind each definition, the hazards and the theorems.

## The system

LittleShoot (2007 - 2011, Java and JavaScript) is a peer-to-peer file-sharing
client with a web front end. Pages of the web site, in the user's browser, find
out whether the client runs on the same computer and then talk to it with script
requests: they search, show results and downloads, and publish files. Two
clients that want a file from each other exchange an offer and an answer over
SIP or XMPP, use ICE (with STUN and TURN) to find a path, speak either TCP or
their own reliable protocol over UDP on it, and then speak HTTP over that
socket; a downloader fetches the ranges of one file from several such peers.
A web server keeps who is online and who has which file.

| component | where | state | operations | talks to |
|---|---|---|---|---|
| **rudp connection** | `RUDP/ConnectionImpl`, `RetransmitterImpl`, `state/*` | a state object with a record of six numbers and held-back data; tracked segments with a timer task each | open, close, send, receive, handle of a segment, a state's timer | the manager (callbacks for open and closed), the session (write) |
| **rudp manager** | `RUDP/RudpManagerImpl`, `ListeningConnectionImpl`, `RaceRunnableImpl`, `RudpServiceImpl` | map of connections, map of listening connections, a backlog each | listen, accept, open, close, handle, sessionClosed | MINA's I/O threads, connections, users' threads |
| **rudp streams** | `RUDP/RudpSocket`, `RudpInputStream`, `RudpOutputStream` | buffers, `m_closing` and `m_closed`, a flush timer | read, write, flush, close of a stream or of the socket | the manager through the service |
| rudp codec | `RUDP/segment/*`, `RudpUtils` | none | encode, decode, checksum | MINA |
| ice | `common/ice`, `common/ice-rudp` | check lists of candidate pairs, each with a state; the agent's role | form lists, schedule checks, triggered checks, nominate, role conflicts | stun, offer/answer, rudp |
| stun | `common/stun` | client transactions, keyed by id | write, retransmit, succeed, fail, notify | MINA, ice, turn |
| turn | `common/turn` | allocations; a TCP connection per permitted remote address | allocate, send indication, data indication, connection status | stun, sip |
| sip | `common/sip`, `common/sip-turn` | transactions; the registrar's map; a client's connections to proxies | invite, register, respond, proxy | offer/answer, turn |
| online status | `common/online` | status per user, queue of updates still to be sent | update, retry, reset | the server |
| downloader | `common/download` | ranges still to get, active and done; the queue of sources; the file's completed ranges | next range, range complete or failed, connect, stop, write to a stream while downloading | http client, ice sockets, the local file server |
| searchers, rest, http client | `common/searchers`, `common/rest`, `common/http-client` | none of their own | queries | web services |
| **script requests** | `dojo.io.script` in `MEDIA/littleshootlib.js.uncompressed.js` | requests in flight, each with the JSON its script has left | get, the script's call, the check for answers, removal | every page, the client, the server |
| **app detection** | `MEDIA/LittleShootLoader.js`, `AppMonitor.js`, `CommonUtils.js`, `appDetection*.js`; copies in `src/server/politicalvideo` | a cookie; per page three flags, what it believes | load, answers of plugin, cookie, client, server and Flash | the client, the server |
| **search results page** | `MEDIA/SearchResults.js`, `SearchResultUtils.js`, `Search.js`, `pageNav.js`, `tabbedContent.js` | `window.searchResults`, the answer drawn last, timers | search, poll, draw, switch page, back and forward, leave the tab | the client |
| **downloads page** | `MEDIA/downloads.js`, `download.js` | the rows, `downloadsMap`, `oldDownloads`, a timer | refresh, pause, resume, stop, clear | the client |
| **publishing** | `MEDIA/publisher.js`, `littleshoot/key.py`, `decorators.py`, `CLIENT/handlers/PublishController`, `CLIENT/services/*` (`DirectoryUpdater` and the file mapper among them) | cookies, sessions with keys, pending files and the map of published ones | ask for keys, sign, check, hash, publish; refresh the shared directory | page, client and server |
| client services | `client/services` | maps of downloads and their states | requests of the browser | downloader, searchers |
| server | `server/*` | a database | controllers | online status, clients |
| nio, mina utilities, port mapping, torrent, launcher, plugins, utilities | see `PROJECT.json` | | | |

What is hard in it, in the order of how much of the rest depends on it:

* **rudp.** The transport is written here, not taken from a library: loss,
  duplication and reordering of segments, retransmission tasks that race
  acknowledgments, cumulative and selective acknowledgments that overtake each
  other, windows two ends must agree on, sequence numbers that wrap, handshake
  segments that come late or again, and closing against all of these. Around
  it threads that accept, I/O threads of sessions, users that receive, and
  callbacks between them, under four different kinds of monitor. It is
  *correct* if a connection is a reliable, flow-controlled stream each way; if
  senders and receivers wait only for what can come; and if the manager's map
  holds just the connections that are alive.
* **downloader.** Ranges are taken, completed and given back by callbacks of
  several sources, while other threads read what has arrived and ask whether
  more is to come. It is correct if every range is downloaded, none is taken
  by two sources at once, and the threads that wait for the end see it.
* **ice.** Two agents' check lists must reach the same nominated pair while
  ordinary and triggered checks overlap and either role may have to change.
* **stun, turn, sip.** Retransmission against late answers, listeners told
  once, allocations against the connections that carry them.
* **online status.** A retry must not overwrite a newer status.
* **the pages.** One thread, but callbacks of timers, requests, animations and
  the user in every order. Answers arrive for searches that have been replaced,
  timers outlive the variable that names them, a cookie outlives its page, an
  exception in a handler becomes the failure of a request that succeeded. They
  are *correct* if a page is told once, and rightly, whether the client is there;
  if what it shows is what was asked for last, and in the end what the client
  has; and if it asks on, once, until it is left.
* **publishing.** Three parties and one set of cookies for all tabs, sessions
  read and written as a whole, keys that expire, and a thread whose outcome nobody
  waits for; beside them the client publishes its shared directory by itself, with
  the same file mapper. It is correct if an attempt on its own succeeds, if what
  was not published does not stay mapped, and if nothing stays pending.

`PROJECT.json` lists, under `hazards`, what can go wrong at which line, and the
properties about it.

## The modules

```
RudpSegments -- RudpStates -+- RudpConnection - MCRudpConnection
                            |      | implements
                            |      +--- ReliableStream
                            +- RudpManager ---- MCRudpManager
                RudpReceive ------------------- MCRudpReceive

ScriptIo -+- AppDetection
          +- SearchResults ---- MCSearchResults
          +- DownloadsPage
             Publishing

RudpStatesProofs -+- RudpConnectionProofs
                  +- RudpManagerProofs        RudpReceiveProofs
AppDetectionProofs   SearchResultsProofs   DownloadsPageProofs   PublishingProofs
```

**RudpSegments** has the data: sequence numbers modulo `Modulus`, the segments
with the fields the protocol looks at, records. A message is its number in the
sender's order. `Modulus` is 2^32 in the code and any number above
`2 * MaxBuffered` here.

**RudpStates** is `RUDP/state/`: for every state what `getNext`, `open`,
`close`, `send` and `timerExpired` do. The code returns a new state and calls
`StateOutput`; the operators return one *effect*, a record of both: the next
state and its record, the messages queued for the user, the segments
transmitted, and what is acknowledged (`cum` by `acknowledge`, `one` by
`acknowledgeOne`). `OpenNext`, `SynRcvdNext`, ... have one alternative per
visitor method. Nothing is left out of a handler: `InOrder` is the whole
of `handleData` with `queueBlocked`, its release of held-back data and its
acknowledgment. The loop of `queueBlocked` is written as the length of the
run it finds (`Gap`), so that it can be reasoned about.

**RudpConnection** puts two endpoints on a network. A call on a `ConnectionImpl`
holds its monitor throughout, `setState` included, so a call is one action:
`Open`, `Send`, `Close`, `Handle`, `Expire`. The retransmitter's task runs on a
timer thread under a monitor of its own: `Fire` is the moment it begins, after
which `TimerTask.cancel` has no effect on it, `Retransmit` the moment it has the
monitor. `SendWaits` and `SendTimesOut` are the wait in `send(data, timeout)`;
a notified sender is one that may `Send` again. A closed connection has left
the manager's map (`Registered`).

| variable | in the code |
|---|---|
| `st`, `rec` | `ConnectionImpl.m_state`, its `ConnectionRecord` |
| `retr`, `fired` | `RetransmitterImpl.m_transmitted`, and the task that has begun |
| `timer` | the `setTimer` of SYN-SENT and CLOSE-WAIT |
| `waiting` | the thread in `ConnectionImpl.send` |
| `net`, `sent`, `delivered` | segments in flight; what users have given and been given |

With `Lossy = FALSE` a segment stays in the network once it is sent: as far as
the endpoints can tell it may then be lost (never handled), repeated and
overtaken in every way, with fewer states. With `Lossy = TRUE` segments leave
by arriving, by being handled by nobody or by `Lose`; liveness needs that.
Two initial states: `Init`, one end closed and about to open, one listening
(or both about to open), and `EstablishedInit`, what a handshake without loss
leaves, with copies of its segments still about.

**ReliableStream** is what a connection promises: per direction, messages
arrive complete, in order, once, and the sender is at most a window ahead.
`RudpConnection` implements it (`ImplementsStream`) by the identity on `sent`
and `delivered`.

**RudpManager** is one local address: the map of connections, the listening
connection's backlog, accepting threads, one I/O thread per session, the
retransmission-free half of a connection (what it does with handshakes, RST,
close and timers comes from `RudpStates`), and the closed callback. What a
thread does under one monitor is a step: the lookup in the map (`Arrive`), the
connection's handler (`Handle`), `remainingCapacity` (`CheckRoom`) and `put`
(`Put`), `take` with the rest of `accept` (`Accept`), the map's `put`
(`PutConnection`), `setDelegate` (`SetDelegate`) and its replay (`Replay`), the
count in `RaceRunnable.run` (`Count`). `OneAtATime` says which of the code's two
handlers is used: `RudpServiceImpl.listen`'s synchronizes on the service,
`RudpServerIoHandler` does not (and says in a TODO that it should). A peer is
a remote address that sends a SYN, the ACK of our SYN/ACK and an RST; remote
behaviour beyond that is RudpConnection's subject. `RaceRunnable.run` reads its
delegate without a lock, so a read may miss a delegate that has been set: `Sees`
is the choice.

**RudpReceive** is the user's end of a connection: `m_messages` with its
monitor, `receive` with its wait, timeout and two exceptions, `tryReceive`, and
the close in its three steps (state, callback that leaves the map, notifyAll),
which other threads can come between because `receive` does not hold the
connection's monitor. Spurious wake-ups are left out: like a message that
another thread took first, one would make `receive` report a timeout.

**ScriptIo** is `dojo.io.script`: a function from request ids to requests, each
with the JSON its script has brought or nothing yet (`<<>>`). Answers come in any
order. That a script has run (`JsonpCallback`) and that the page's handler runs
(a page's action for an id in `IoCheck`) are two steps, because Dojo looks for
finished requests from a timer.

**AppDetection** is one browser that loads up to `MaxLoads` pages of a site while
the client starts and stops up to `MaxChanges` times. `Load` is `hasLittleShoot`
with what it calls; `LocalLoaded`, `RemoteLoaded` and their failures are the
handlers; `FromFlash` is the Flash movie. The callbacks and `onAppChecked` are
functions of the page's flags and the cookie (`LocalCallback`, `Found`, `Base`,
...). `Site` says which copy of the scripts it is: on `politicalvideo`,
`onLittleShootFromJavaScript` is not declared, and `Found` ends in `NotFound`
because `dojo.Deferred` passes an exception on to the error handler. `lastCheck`,
`trusted`, `answered` and `flashed` are history.

**SearchResults** has every `littleshoot.SearchResults` instance ever made
(`insts`), `window.searchResults` (`cur`), `lastJsonSearchData` (`last`), the
columns and whose results are in them (`shown`), the requests that start searches
(`asked`) and the polls. `processResultSet` is split by its returns: `Drop`
(before anything is drawn), `Keep` (nothing new) and `Draw`. A timer that a second
`scheduleCall` forgets stays pending (`older`). The client gives each search a
rank, how much it has found; an answer is a pure function of it (`Answer`).
`lost` (the client forgot the search, a request failed, an exception) and
`overlaps` (a page was chosen with a poll in flight) are history.

**DownloadsPage** has the client's downloads, the commands on their way to it,
the refresh loop, the rows and the map behind them, and the animations whose
callback is to come. A row is drawn by `Rendered` and brought up to date by
`Updated`. Commands may overtake each other. `pressed` and `blanked` are history.

**Publishing** has, for each attempt to publish, the page's progress, the server's
handling of its key request, the request to the client and the client's thread;
for all of them the cookies and sessions of one browser, the client's pending
files and its file mapper. A session is read (`LoadSession`) and written back
with the new key (`GenerateKey`) in two steps. A key is named for the attempt it
was made for, so a signature is the name of its key, and `ValidSignature` is what
`validateSignature` finds. Cookies are read when the page signs (`PublishLocal`)
and sent when the request is (`ScriptGet`). `crowded`, `expired`, `accepted` and
`refused` are history.

The mapper has a second writer. `FileRefresherImpl`, from the heartbeat's thread,
has `DirectoryUpdater` go through the shared directory: a file that the mapper does
not have is mapped first (`UpdateDirectoryFile`, `MapShared`) and published
afterwards, without a signature (`PublishRaw`), and it is taken out of the mapper
if that fails (`PublishRawFails`), whoever put it there. So `AlreadyPublished`
answers "published" also for a file whose refresh is under way and fails a moment
later. The mapper is kept in Preferences, so it outlives the client's process;
its threads, the pending list and the refresher do not (`Restart`). `cut` is history:
the files whose refresh a restart cut short between the mapping and the answer.

## The runs

Runs that pass. Bounds are constants of the MC modules and cfgs, all named.

| run | instance | properties | what it shows |
|---|---|---|---|
| `established` | 3 messages one way and 1 the other, `MaxBuffered` 1 and `MaxOutstanding` 2, the main sender may close, a SYN and a SYN/ACK left over; 535 thousand states | `DeliveredIsPrefix`, `AckedWasTaken`, `FitsReceiveWindow`, `StreamInv` (with `KeptUntilTaken` in it), `NeverBack`, `ImplementsStream` | with loss, duplication, reordering and racing retransmission tasks the connection is a reliable stream each way, and the invariant of the proofs holds |
| `handshake` | from `Init`, 2 messages, either end may close; 15 thousand | `InOrderAfterFirst`, `ThreeWay`, `NothingLost` | an old or repeated handshake segment opens nothing wrong; at most the first message is missing; an OPEN end still tracks what the other has neither queued for its user nor holds back, except the first message when SYN-RCVD drops it |
| `live` | 3 messages, window 2, lossy | `AllDelivered`, `SenderWakes` | retransmission gets everything through, and wakes the sender |
| `quiet` | 2 messages, lossy | `GoesQuiet` | retransmissions and acknowledgments end |
| `manager` | two peers opening to us and one we open to, two accepting threads, backlog 1, repeated segments, our first number at the modulus; 293 thousand | `TypeOK`, `HandlersNeverWait`, `OnlyRaceForgets`, `OnlyClosedLeave` | the service's monitor makes the check of the backlog good for the put; a closed connection stays in the map only if `RaceRunnable` lost its callback; and a peer's entry leaves it only with a close of a connection of that peer, or its replay, or an idle session |
| `receive` | two threads, 3 messages, timeouts; 1 thousand | `NoneSleepsThrough`, `ReceivedInOrder`, `CloseWakesWaiters` | no lost wake-up while messages arrive, nothing lost or overtaken; who waits when the connection closes is woken |
| `detection` | `MaxLoads` 3, `MaxChanges` 3; 2 thousand | `OneCallback`, `LocalOverrides`, `AnsweredKeepsCookie`, `NotTrustedAfterFailure`, `EveryPageDecides` | one callback per page whatever races, the local check decides, no page trusts the cookie after a check that has finished failing |
| `search` | `MaxSearches` 2, `MaxRank` 1, `MaxEvents` 3, two pages; 78 thousand | `OneAlive`, `ShownIsCurrent`, `KeepsPolling`, `SwitchFollows`, `AsksNoMore`, `Settles` | one search polls and is drawn, until it is left or lost; the page ends with what the client has |
| `downloads` | two downloads, `GiveUpAfter` 1, `MaxClicks` 3, `MaxChanges` 3, `MaxFailures` 2; 140 thousand | `OneLoop`, `RowsCounted`, `MapKnowsRows`, `IconHonest`, `Settles` | one refresh loop; rows, map and buttons fit each other although rows are only drawn anew when their number changes |
| `publishing` | two attempts at one file of the shared directory, with or without an earlier session, the refresher and restarts; 838 thousand | `TypeOK`, `AloneIsAccepted`, `OnlyPublishedStays`, `PendingUntilDone`, `PendingEnds` | only overlapping key requests or an expiry get a signature refused; a file that was not published stays mapped only if the client's process ended while it was being refreshed; nothing stays pending. The definitions look at one file at a time, so two attempts at one file meet in every way; the proofs are for any number |

Why the bounds suffice for what the runs are about: with a window of two and
three messages the window fills, moves, holds data back and releases it, with
a gap and with a run behind a gap. In `established` the listener is the main
sender: it is told a window of `MaxOutstanding`, against a receiver that holds
back up to `2 * MaxBuffered`, just as many; the opener's window is
`MaxBuffered`, so acknowledgments ride on data both ways under two different
windows. (Both constants are 200 in the code, in `ListeningConnectionImpl.accept`
and `RudpManagerImpl.open`; the theorems cover every value that
`SegmentsAssumption` allows.) Two accepting threads and two peers are what the
check-then-put of a backlog of one needs. Two receivers and three messages
reach every order of take, wake, time-out and throw.

Of the pages: three loads are one that sets a cookie, one that trusts it wrongly
and the next; three changes let the client come, go and come back between any of
their steps. Two searches with one more rank each give answers that differ, that
look the same, and that come late; `MaxEvents` counts what the user does and what
goes wrong (a search, a failure, a page chosen, a tab left), and three suffice
for a second search, back, and a failure or a switch in one behaviour. Six
failures in the code, `GiveUpAfter` 1 here: `MaxFailures` 2 empties the list.
With two attempts each can disturb, or be disturbed by, one other; the session of
an `Earlier` visit lets both write back to one session.

`CHECK_DEADLOCK FALSE` is in every cfg: a connection whose users have sent
everything, or closed, really comes to rest.

Every property of a passing run has a mutant in `PROJECT.json`: a definition
and a plausible wrong version of it, defined just before it (`OutOfOrderQueued`
gives the user data that is held back, `UnackedTooFew` forgets one segment too
many, `HasRoomForMore` is an off-by-one in the backlog, ...), with which the
run's instance violates the property.

## Fairness

`Fairness` (RudpConnection): weak fairness of `Retransmit` and `Expire`, threads of
`java.util.Timer` that have begun and are blocked by nobody for long; strong
fairness of `FireOne(e, n)`, because a tracked segment's task is periodic and
is cancelled only with the segment; strong fairness of `ReceiveData` and
`ReceiveAck` per segment, the usual assumption about a lossy network: what is
sent again and again arrives again and again. Nothing obliges a user to send,
close or time out. `SenderWakes` therefore says that acknowledgments alone wake
a sender.

`NoEndlessRace` (only in `QuietSpec`): acknowledgments do not *always* arrive
while a retransmission task has begun and not yet run. Without it the task puts
its segment back each time, which TLC finds; a task runs for microseconds every
few seconds, so the assumption is about timing, and it is stated apart.

`RudpReceive!Fairness`: a thread in `receive` that can run does, and a thread in
`setState` finishes.

`RudpReceive!FairSpec` has the two; `CloseWakesWaiters` needs that the closing
thread goes on, and that a woken thread runs.

`AppDetection!FairSpec`: weak fairness of the handlers, which Dojo's timer runs
for every request, because each has a time limit: it ends with an answer or as a
failure. `SearchResults!FairSpec`: the client answers, handlers run and timers
fire; that a request fails is never obliged, and a failure counts among the
`MaxEvents`. `DownloadsPage!FairSpec`: likewise, and the client obeys the commands
it has been sent. `Publishing!FairSpec`: the client's thread goes on; its HTTP
request ends in an answer or an exception. Nothing obliges a user, the plugin, or
Flash, and in `Publishing` neither page nor server.

`RudpManager` states no liveness.

## The proofs

All from the modules' own assumptions (`SegmentsAssumption`,
`ConnectionAssumption`, `ManagerAssumption`, `ReceiveAssumption`,
`DetectionAssumption`, `SearchAssumption`, `DownloadsAssumption`,
`PublishingAssumption`, `SharedAssumption`) and, for what is said of the stream, `NoWrap`: the numbers of this connection stay below
`Modulus`. The code draws the opener's number at random and fixes the
listener's at 17, so `NoWrap` is what nearly all connections satisfy; the
type theorems and `wrap_reliable` are about the others.

| module | theorem | for all |
|---|---|---|
| RudpConnectionProofs | `TypeCorrect`, `EstablishedTypeCorrect`; `ThreeWayHolds` if one end opens (`OneOpens`) | windows, moduli, numbers, messages, both opening or one; no `NoWrap` |
| | `StreamSafe` (`StreamInv`), `InOrderDelivery`, `NoEarlyRelease`, `WindowHonest`, `WindowsAgree`, `NumbersNeverBack`, `ImplementsStreams` from an established connection, with `NoWrap` | windows, numbers of messages, leftovers, closers |
| | `InOrderAfterFirstHolds`, `NothingLostFromHandshake`, `WindowsAgreeFromHandshake`, `NumbersNeverBackFromHandshake` from `Init`, if one end opens, with `NoWrap` | the same, and whatever the handshake met |
| RudpManagerProofs | `ManagerTypeCorrect`, `OnlyRaceForgetsHolds`, `OnlyClosedLeaveHolds`; `NoHandlerWaits` if `OneAtATime` | peers, acceptors, backlogs, numbers of connections |
| RudpReceiveProofs | `NoReceiverSleepsThrough`, `EachReceivedInOrder` | receivers, messages, with a timeout or without |
| AppDetectionProofs | `DetectionTypeCorrect`, `OneCallbackHolds`, `NotTrustedAfterFailureHolds`; `LocalOverridesHolds` and `AnsweredKeepsCookieHolds` if `HasBase` | numbers of pages and changes |
| SearchResultsProofs | `SearchTypeCorrect`, `OneAliveHolds`, `ShownIsCurrentHolds`, `KeepsPollingHolds`, `SwitchFollowsHolds`, `AsksNoMoreHolds` | searches, ranks, pages, results, events |
| DownloadsPageProofs | `DownloadsTypeCorrect`, `OneLoopHolds`, `RowsCountedHolds`, `MapKnowsRowsHolds`, `IconHonestHolds` | sets of downloads, limits and bounds |
| PublishingProofs | `PublishingTypeCorrect`, `AloneIsAcceptedHolds`, `OnlyPublishedStaysHolds`, `PendingUntilDoneHolds` | attempts, files, shared files, with an earlier session or without |

*Type correctness.* An effect is of its type if the record and segment it is
made from are (`RudpStatesProofs`, a lemma per handler). The one fact that is
not typing: `Gap` finds the end of a run because held-back data is finite and
cannot fill all of `UInt`. `TypeInv` adds the finiteness to `TypeOK`; each action
then applies an effect of the right type.

*The handshake.* `Greeting` says of each end which states it can be in, that its
SYNs carry its number and are SYN/ACKs just if it accepts, and that the opening end
has ACKs in the network, or tracks any, only once it has taken the other's number.
So the ACK that takes SYN-RCVD to OPEN proves the opening end's half. If both ends
open, `ThreeWay` is false: SYN-SENT answers a SYN with a number that is not its own.

*The stream.* No property listed is inductive: that data is a prefix depends on
sequence numbers carrying the message they say, in the network, tracked, about
to be retransmitted and held back. `StreamInv` collects this: `Numbers` (each
number against the other end's), `Prefix` (what the user has is just what the
record says), `Honest` (each segment anywhere says only what is so) and
`KeptUntilTaken` (what is not tracked the other end's record has). `IInv` is
`TypeInv /\ StreamInv`. `NothingLost` follows from `KeptUntilTaken` with `Prefix`
and `Numbers`: on an established connection what the record counts the user was given. The step is proved in two
halves. First, an effect that is *sound* for its endpoint, given honest
segments, keeps the invariant, whatever handler made it; second, each handler's
effect is sound. `OPEN`'s handler needs the most: `InOrder` delivers the run
`last + 1 .. Gap`, which is consecutive messages because held-back data carries
its own number, and `OutOfOrder` adds one element beyond it. A retransmission
that comes after its acknowledgment sends an honest segment, which is why
racing tasks are harmless to safety.

*What a handler does to the stream.* `InOrderInStream` and `OutOfOrderInStream`
(`RudpStatesProofs`) say it of the operators alone, of any record whose data is
that of one stream (`OfStream`): what is queued is the next messages, as many as
`last` moved, and what is held back stays of the stream. Both the established
connection and the one that follows use them.

*From the handshake on.* `Delivery` says how what a user has been given ends
where the record's `last` says, less what was skipped: nothing, or the first
message, which is what `SYN-RCVD` drops (`Skipped`, `Consecutive`). Until then
`last` is the peer's initial number, which `Greeting` provides; data carries the
number of its message; and an end that has closed keeps what it had. It is
preserved by every step that *follows* it (`Follows`); `HandleFollows` has one case
per state, `SendDelivers` the one step that sends data. `InOrderAfterFirst` is
`Consecutive`, read from the first element and the last.

`Flow` is the other half, what has been sent and not yet taken. `Keeps` says which
numbers an end has in each state of the handshake; `Ahead`, that an end which may
have sent has been heard (the peer's record holds its number) and keeps to the
window it was told (`Told`: the opener is told `MaxBuffered`, the accepting end
`MaxOutstanding`); `Sincere`, that a segment acknowledges what its sender's record
has taken, and a SYN/ACK that a SYN was taken. `KeptUntilTaken` is a conjunct,
because only with it do acknowledgments keep it; it speaks of numbers, not of messages. `Serves` is what an effect owes to `Flow`:
what it acknowledges the peer has, and while an end opens nothing is tracked. A
retransmission puts back a segment in the place of one with the same number, which
carries the same message (`Delivery`). The window, and that numbers never move back,
are read from `Ahead` and `Serves`; the runs check these two on an established connection
only. The message that SYN-RCVD acknowledges and drops counts as taken in the record,
so `KeptUntilTaken` and `Flow` hold of it although no user ever gets it. `NothingLost`
is about the message itself: not tracked, it must be in the other user's queue or
held back, or be the first one and dropped (`FirstDropped`). It follows from `Flow` and
`Delivery` together: the record counts at most one message more than it queued.

*Refinement.* `ImplementsStreams` follows from `IInv`: a step that changes `sent` is
`Send`, within the window since `oldest` is never beyond what was taken; a step
that changes `delivered` appends the next messages; all others stutter.

*The backlog.* With `OneAtATime` at most one handler is at work (`HandlersExclude`, a
conjunct of the invariant there), so between a handler's check and its put only accepting threads touch the queue, and they
make it shorter.

*The map.* `OnlyRaceForgets` is not inductive: a connection could close before it
is in the map, and be put there closed. `Safe` adds that nobody but its acceptor
names a connection that is not in the map yet (`NewUntouched`), which takes fresh
indices, types (`RudpStatesProofs`' lemmas for the effects) and that acceptors
serve the peers that open to us; `Accounted` is then the property with the thread that
is about to count. `OnlyClosedLeave` needs in addition that a connection whose close
was counted, or is about to be, is closed (`CountedClosed`): then a replay removes
an entry only for a connection that did close.

*Receiving.* `NoneSleepsThrough` and `ReceivedInOrder` are inductive with
`TypeOK`.

*Detection.* The invariant relates the flags to the calls made (a call for each
flag that was set first), the requests still unanswered to the flags their
handlers will set, and the cookie to how the last check ended.

*Search results.* `IInv` (`TypeOK`, `OneAlive`, `ShownIsCurrent`, `KeepsPolling`) is
inductive: an instance that is replaced is stopped in the same step, a stopped one
is dropped before it draws, and each way through `processResultSet` schedules the
next call or loses the instance. `SwitchFollows` needs `FInv` besides: each answer
fits its poll, what is shown is the answer drawn last, and the current instance's
polls are for its page unless it is in `overlaps`; so the answer to a switch is not
taken for one that is complete already.

*Downloads.* `OneLoop` needs that handlers and timers exchange one for the other;
`RowsCounted` follows the two cases of `Rendered`, with the cardinality of finite
sets, and `MapKnowsRows` that every answer writes the map before it writes the row.

*Publishing.* Three facts carry `AloneIsAccepted`. `Apart`: two attempts whose key
requests are open at once are both `crowded`, so one that is not has the cookies to
itself from its key to its request (`Undisturbed`). `Kept`: its key is in its session,
and in whatever copy of that session a later request has read and will write
back; it was read before the key was saved only by a request that overlapped.
`Unseen`: the name that a new session gets is not in use, so a new session is
not an old one's. With these `ValidSignature` finds the key the page signed with,
on the client and, after the hashing, on the server. Apart from them `TrackInv`:
a thread maps only what the server accepted; the mapper has, besides, the file
whose refresh is not answered, which is accepted or withdrawn by the next step of
the refresher, or becomes one of `cut`; and the thread that removes a file from the
pending list is the one that ends.

Only model-checked, because it is beyond TLAPS: `AllDelivered`, `SenderWakes`, `GoesQuiet`,
`CloseWakesWaiters`, `EveryPageDecides`, `PendingEnds` and the two `Settles`
(liveness). Every safety property of the runs is a theorem.

## Disagreements between code and text

Two are runs that TLC must find violated, and findings in `PROJECT.json` with the
text they contradict.

| run | the code | shown by |
|---|---|---|
| `wrap_reliable` | `isSeqNumOk` compares a wrapped bound as a plain number | numbers near 2^32 |
| `political_page` | a successful check throws where `onLittleShootFromJavaScript` is not declared; Deferred runs the error handler, which erases the cookie | one page, one answer |

Seen while translating, and kept by the modules as the code has them, without
a run of their own: SYN-SENT's timer changes nothing and its SYN is sent once
(`TimerNext`, `SynSentNext`); SYN-SENT's SYN/ACK has two arguments swapped
(`SynSentNext`); an EACK that makes room for a waiting sender notifies nobody
(`Wakes`); a receiver that is woken throws after a close although a message is
queued, and reports a timeout when another took the message (`Resume`);
`RudpServerIoHandler` calls the manager without the monitor that
`HandlersNeverWait` depends on (`OneAtATime`);
SYN-RCVD acknowledges data without queueing it (`SynRcvdData`; hence
`InOrderAfterFirst`, and the exception `FirstDropped`); a retransmission task that has begun tracks its segment
again after `cancelActive` (`Retransmit`); `RaceRunnable.run` reads outside the
lock and counts inside it, so that a close during `setDelegate` is forgotten
(`Count`, `Replay`; hence `OnlyRaceForgets`); a repeated SYN is queued twice, which
makes two connections with one identifier (`CheckRoom`); `receive` waits without
looking at the state first, and a thread that starts to wait after the close is
woken by nobody (`Receive`; `CloseWakesWaiters` is about those that wait already).

In the pages: the server's "absent" after Flash has found the client leaves
`gotLittleShoot` false (`RemoteCallback`); a page that trusted a stale cookie stays
"present" after its check failed (`LocalCallback`), although AppMonitor.js:37 says
that the local check always overrides; a page of results chosen with a poll in
flight may never be drawn (`Switch`; hence `overlaps`), and then two loops poll;
`reload` throws for a search that the last answer did not have, and leaves
`window.searchResults` null (`Reload`); results that look like the last ones drawn
leave the cleared columns empty (`SameResults`; hence the exception in `Settled`);
one time-out or exception ends the polling (`lost`); an answer to a search opens
its results on whatever tab the user has gone to (`SearchStarted`); rows of
downloads that are replaced by as many others are not drawn anew
(`NewDownloadData`); the list that failures have emptied stays empty until the
number of downloads changes (`Error`); pressed twice quickly, a button sends the
same command again (`PauseResume`). In publishing: "Successfully published" is said
before the file is hashed and the server asked, and a refusal afterwards is only
logged (`InsertResource`, `SignedRequestForbidden`); keys of overlapping requests
replace each other in the cookies, and in a session that both have read
(`KeyArrives`, `GenerateKey`); a shared file is mapped before it is published, so a page
may be told that it is published when its refresh is about to fail
(`MapShared`, `AlreadyPublished`), a client that ends between the two never publishes it
(`Restart`; hence `cut`), and a refresh that fails removes a mapping that a thread
has made meanwhile (`Withdrawn`), after which the file is published again.

## What is not modelled

* **In rudp**: the byte codec and checksum; NUL segments (decoded, never sent by
  this code); the untimed `send`, which is the timed one without its wait;
  interrupts; several listening addresses and the removal of a listening
  connection; the streams and the socket (planned). In `RudpManager` dialled
  peers share one initial number, peers send no data, and at most `MaxConns`
  connections are made.
* **Time.** A timer may fire at any moment after it is set. Durations (retransmission
  delay, 8 and 20 s timers, 800 ms flush, accept's waits) are not compared.
* **In the pages**: rendering, layout, dialogs, the many forms and the kinds of
  results; the Dojo, jQuery, Pure and YUI libraries except for the script requests.
  Most lines of JavaScript in the repository are these libraries, bundled by the
  build or copied (`littleshootlib.js.uncompressed.js` alone has 11,558 lines, the
  YUI player 8,000), or a second copy of the pages' own scripts for another site;
  the modules map the part that has state of its own and is LittleShoot's.
  In `SearchResults` what the client finds is a rank per search; in `Publishing`
  a file's content, its hash and the server's database are left out, the
  cookies are never cleared, and files of equal content, which share one key of the
  mapper, are not told apart. Left out of its client: `RemoveFileService` and
  `FilesPurgerImpl`, which take files out of the mapper and off the server, files
  that are gone from the disk, and `LittleShootFilePublisher`, which publishes a
  download when it has ended and maps it after the server's answer.
* **Other components**: not yet, see the plan; or never: pure I/O and glue
  (port mapping, XMPP, HTTP client, utilities), a database's transactions
  (server), native code, and the vendored trees. `PROJECT.json` gives the reason
  for each.

## The plan

Done: rudp states, connection, stream refinement and proofs; manager; receiving;
script requests, app detection, search results, downloads page, publishing, with
proofs.

1. **RudpStreams**: `RudpOutputStream` (buffer, flush timer, close), `RudpInputStream`,
   `RudpSocket.close`, over an abstract service. Properties: what is written
   before a close is sent; a close ends with everything closed, in whatever
   order streams and socket are closed and the remote end closes; no two
   closers wait for each other.
2. **RangeTracker** and **MultiSourceDownload** (`common/download`): ranges
   pending, active and done, callbacks of sources, the queue of sources, stop,
   and **FileLauncher**, the threads that read a file as it grows. Abstract
   specification: a set of ranges, each got once; the downloader implements it.
   Theorem: ranges pending, active and done partition the file.
3. **IceCheckList**, then two of them against each other: pair states, scheduler,
   triggered checks, nomination. Properties: the states' order, one
   nomination, agreement of the two agents.
4. **StunTransaction**, **TurnAllocation**, **SipClient**, **OnlineStatus**: each small, a
   timer or a retry against a late answer.
5. **RudpCodec**: field layout and the checksum as functions, decode after encode
   over bounded inputs.
6. Proofs to add: the range tracker's partition; the downloader's refinement.
