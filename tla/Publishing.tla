----------------------------- MODULE Publishing -----------------------------
(***************************************************************************)
(* Publishing a file.  The page asks the server for a pair of keys under   *)
(* an identifier of its own; the server keeps one in the session and sends *)
(* both back as cookies.  The page signs a request to the local client     *)
(* with the one, the client checks it against the same cookie, answers at  *)
(* once, hashes the file in a thread of its own and publishes it signed    *)
(* with the other.  All the tabs of a browser share its cookies.  Beside   *)
(* that, the client publishes the files of its shared directory by itself. *)
(***************************************************************************)
EXTENDS FiniteSets

CONSTANTS Attempts,  (* publications, in any tabs; each has its own keyId    *)
          Files,     (* files the user may choose                           *)
          Shared,    (* those of them in the shared directory               *)
          Earlier,   (* an attempt of an earlier visit                      *)
          None       (* a cookie that is not set                            *)

ASSUME PublishingAssumption == Earlier \notin Attempts /\ None \notin Attempts \cup {Earlier}
ASSUME SharedAssumption == Shared \subseteq Files

VARIABLES
  page,      \* how far each attempt's page is
  file,      \* the file of each attempt
  request,   \* the server's side of the key request
  sessions,  \* the keys of each live session, named for the attempt that made it;
             \* one that has expired is not in it
  cookies,   \* the browser's cookies: whose keys they are, and the session
  signature, \* whose site key the page signed with
  call,      \* the request to the client: "none", "sent" or "handled"
  carried,   \* the cookies it was sent with
  thread,    \* the client's SHA-1 thread of each attempt
  pending,   \* PublishedFilesTracker
  mapped,    \* the client's FileMapper, which outlives the client's process
  refresher, \* the DirectoryUpdater of the heartbeat's thread, and its file
  accepted,  \* files the server has published
  refused,   \* attempts the server or the client refused for their signature
  crowded,   \* attempts whose key request overlapped with another's
  expired,   \* attempts whose session expired
  cut        \* files whose refresh the end of the client's process cut short

keys   == <<request, sessions, cookies>>
mapper == <<mapped, refresher, cut>>
client == <<call, thread, pending, mapper>>
history == <<refused, crowded, expired>>
vars == <<page, file, keys, signature, carried, client, accepted, history>>

\* Each attempt has a key pair of its own, so a key is named for its attempt.
Names     == Attempts \cup {Earlier, None}
Cookies   == [key : Names, session : Names]
NoCookies == [key |-> None, session |-> None]

Idle      == [step |-> "idle", file |-> None]

TypeOK ==
  /\ page \in [Attempts -> {"ready", "asked", "answered", "signed", "sent",
                            "published", "error", "silent"}]
  /\ file \in [Attempts -> Files \cup {None}]
  /\ request \in [Attempts -> [step : {"none", "sent", "loaded", "saved"},
                               session : Names,
                               keys : SUBSET Attempts]]
  /\ DOMAIN sessions \subseteq Attempts \cup {Earlier}
  /\ \A s \in DOMAIN sessions : sessions[s] \subseteq Attempts
  /\ cookies \in Cookies
  /\ signature \in [Attempts -> Names]
  /\ call \in [Attempts -> {"none", "sent", "handled"}]
  /\ carried \in [Attempts -> Cookies]
  /\ thread \in [Attempts -> {"none", "hashing", "posting", "accepted", "mapped",
                              "failed", "done", "stopped"}]
  /\ pending \subseteq Files /\ mapped \subseteq Files /\ accepted \subseteq Files
  /\ refresher \in {Idle} \cup [step : {"hashing", "posting"}, file : Shared]
  /\ refused \subseteq Attempts /\ crowded \subseteq Attempts /\ expired \subseteq Attempts
  /\ cut \subseteq Files

Init ==
  /\ page = [a \in Attempts |-> "ready"] /\ file = [a \in Attempts |-> None]
  /\ request = [a \in Attempts |-> [step |-> "none", session |-> None, keys |-> {}]]
  /\ \/ sessions = <<>> /\ cookies = NoCookies
     \/ /\ sessions = [s \in {Earlier} |-> {}]
        /\ cookies = [key |-> Earlier, session |-> Earlier]
  /\ call = [a \in Attempts |-> "none"]
  /\ signature = [a \in Attempts |-> None]
  /\ carried = [a \in Attempts |-> NoCookies]
  /\ thread = [a \in Attempts |-> "none"]
  /\ pending = {} /\ mapped = {} /\ accepted = {}
  /\ refused = {} /\ crowded = {} /\ expired = {}
  /\ refresher = Idle /\ cut = {}

----------------------------------------------------------------------------
(* The page asks for keys, and the server makes them                       *)

\* From the request for the keys until the client has been sent the cookies.
Busy(a) == \/ page[a] \in {"asked", "answered", "signed"}
           \/ request[a].step \in {"sent", "loaded"}

\* postPublish and requestKey: an XMLHttpRequest with the session cookie.
PostPublish(a, f) ==
  LET others == {b \in Attempts : Busy(b)}
  IN /\ page[a] = "ready"
     /\ page' = [page EXCEPT ![a] = "asked"] /\ file' = [file EXCEPT ![a] = f]
     /\ request' = [request EXCEPT ![a].step = "sent", ![a].session = cookies.session]
     /\ crowded' = IF others = {} THEN crowded ELSE crowded \cup others \cup {a}
     /\ UNCHANGED <<sessions, cookies, signature, carried, client, accepted, refused, expired>>

Known(a) == request[a].session \in DOMAIN sessions

\* A bug the checks must see: what is not found is saved under the name it
\* was asked for.
SessionNamed(a) == request[a].session

\* A session that has expired, or that the request does not name, is made anew.
SessionFor(a) == IF Known(a) THEN request[a].session ELSE a

\* The session is read when the view first touches it.
LoadSession(a) ==
  /\ request[a].step = "sent"
  /\ request' = [request EXCEPT ![a] =
       [step |-> "loaded", session |-> SessionFor(a),
        keys |-> IF Known(a) THEN sessions[request[a].session] ELSE {}]]
  /\ UNCHANGED <<page, file, sessions, cookies, signature, carried, client, accepted, history>>

\* A bug the checks must see: the session has room for one key.
KeyStoredAlone(keysOf, a) == {a}

\* request.session[keyId] = base64ClientKey
KeyStored(keysOf, a) == keysOf \cup {a}

\* generateKey's changes are written back when the response is made: the
\* whole session as it was read, with the new key.
GenerateKey(a) ==
  LET s == request[a].session
      stored == KeyStored(request[a].keys, a)
  IN /\ request[a].step = "loaded"
     /\ request' = [request EXCEPT ![a].step = "saved"]
     /\ sessions' = [t \in DOMAIN sessions \cup {s} |-> IF t = s THEN stored ELSE sessions[t]]
     /\ UNCHANGED <<page, file, cookies, signature, carried, client, accepted, history>>

\* Eighty seconds after it was last saved.
Expire(s) ==
  /\ s \in DOMAIN sessions
  /\ sessions' = [t \in DOMAIN sessions \ {s} |-> sessions[t]]
  /\ expired' = expired \cup sessions[s]
  /\ UNCHANGED <<page, file, request, cookies, signature, carried, client, accepted,
                 refused, crowded>>

\* The browser takes the cookies as the response arrives; the page's handler
\* runs later, from the timer of _watchInFlight.
KeyArrives(a) ==
  /\ page[a] = "asked" /\ request[a].step = "saved"
  /\ page' = [page EXCEPT ![a] = "answered"]
  /\ cookies' = [key |-> a, session |-> request[a].session]
  /\ UNCHANGED <<file, request, sessions, signature, carried, client, accepted, history>>

\* An error or the time limit of twenty seconds; the server may be at work yet.
\* The error handler only writes to the console.
KeyFails(a) ==
  /\ page[a] = "asked"
  /\ page' = [page EXCEPT ![a] = "silent"]
  /\ UNCHANGED <<file, keys, signature, carried, client, accepted, history>>

----------------------------------------------------------------------------
(* The page asks the client                                                *)

\* publishLocal reads the cookie and signs; some key has been set by now.
PublishLocal(a) ==
  /\ page[a] = "answered"
  /\ page' = [page EXCEPT ![a] = "signed"]
  /\ signature' = [signature EXCEPT ![a] = cookies.key]
  /\ UNCHANGED <<file, keys, carried, client, accepted, history>>

\* dojoLoader.scriptGet waits until dojo.io.script is there.  The cookies the
\* client is sent are those of this moment.
ScriptGet(a) ==
  /\ page[a] = "signed"
  /\ page' = [page EXCEPT ![a] = "sent"]
  /\ call' = [call EXCEPT ![a] = "sent"]
  /\ carried' = [carried EXCEPT ![a] = cookies]
  /\ UNCHANGED <<file, keys, signature, thread, pending, mapper, accepted, history>>

\* No answer within forty seconds, though the request may be handled all the same.
ScriptTimesOut(a) ==
  /\ page[a] = "sent"
  /\ page' = [page EXCEPT ![a] = "silent"]
  /\ UNCHANGED <<file, keys, signature, carried, client, accepted, history>>

----------------------------------------------------------------------------
(* The client                                                              *)

\* The client's answer, which a page that no longer waits does not show.
Answers(a, shown) ==
  /\ call[a] = "sent" /\ call' = [call EXCEPT ![a] = "handled"]
  /\ page' = IF page[a] = "sent" THEN [page EXCEPT ![a] = shown] ELSE page
  /\ UNCHANGED <<file, keys, signature, carried, mapper, accepted>>

Matches(a) == signature[a] = carried[a].key

\* PublishController refuses a signature that another key was used for.
Forbid(a) ==
  /\ ~Matches(a)
  /\ Answers(a, "error")
  /\ refused' = refused \cup {a}
  /\ UNCHANGED <<thread, pending, crowded, expired>>

\* fileMapper.hasFile: the client answers success and does nothing, also for
\* a file that the refresher has mapped and not published yet.
AlreadyPublished(a) ==
  /\ Matches(a) /\ file[a] \in mapped
  /\ Answers(a, "published")
  /\ UNCHANGED <<thread, pending, history>>

\* The file cannot be opened: FileInputStream throws, and the page is told.
Unreadable(a) ==
  /\ Matches(a) /\ file[a] \notin mapped
  /\ Answers(a, "error")
  /\ UNCHANGED <<thread, pending, history>>

\* insertResource lists the file as pending and starts its thread; the answer,
\* "Successfully published", does not wait for the thread.
InsertResource(a) ==
  /\ Matches(a) /\ file[a] \notin mapped
  /\ Answers(a, "published")
  /\ pending' = pending \cup {file[a]}
  /\ thread' = [thread EXCEPT ![a] = "hashing"]
  /\ UNCHANGED history

----------------------------------------------------------------------------
(* The thread                                                              *)

\* A bug the checks must see: hashing has ended, so the file is not pending.
HashedAndListed(a) == pending \ {file[a]}

\* The tracker lists the file until the thread is over.
Hashed(a) == pending

\* createSha1Urn ends, or throws.
Hash(a) ==
  /\ thread[a] = "hashing"
  /\ \E next \in {"posting", "failed"} : thread' = [thread EXCEPT ![a] = next]
  /\ pending' = Hashed(a)
  /\ UNCHANGED <<page, file, keys, signature, carried, call, mapper, accepted, history>>

\* validateSignature: the session has a key under the attempt's identifier,
\* and it is the one that signed.
ValidSignature(a) ==
  /\ carried[a].session \in DOMAIN sessions
  /\ a \in sessions[carried[a].session]
  /\ carried[a].key = a

\* signedRequest reaches the server, which publishes the file.  The answer may
\* be lost, and the thread then ends as if it had not.
SignedRequest(a) ==
  /\ thread[a] = "posting" /\ ValidSignature(a)
  /\ accepted' = accepted \cup {file[a]}
  /\ \E next \in {"accepted", "failed"} : thread' = [thread EXCEPT ![a] = next]
  /\ UNCHANGED <<page, file, keys, signature, carried, call, pending, mapper, history>>

\* HttpResponseForbidden: a ForbiddenException, which is only logged.
SignedRequestForbidden(a) ==
  /\ thread[a] = "posting" /\ ~ValidSignature(a)
  /\ refused' = refused \cup {a}
  /\ thread' = [thread EXCEPT ![a] = "failed"]
  /\ UNCHANGED <<page, file, keys, signature, carried, call, pending, mapper, accepted,
                 crowded, expired>>

\* The server is not reached.
SignedRequestFails(a) ==
  /\ thread[a] = "posting"
  /\ thread' = [thread EXCEPT ![a] = "failed"]
  /\ UNCHANGED <<page, file, keys, signature, carried, call, pending, mapper, accepted, history>>

\* fileMapper.map
MapFile(a) ==
  /\ thread[a] = "accepted"
  /\ mapped' = mapped \cup {file[a]}
  /\ thread' = [thread EXCEPT ![a] = "mapped"]
  /\ UNCHANGED <<page, file, keys, signature, carried, call, pending, refresher, accepted,
                 history, cut>>

\* A bug the checks must see: what failed is not removed.
EndsIfMapped(a) == thread[a] = "mapped"

Ends(a) == thread[a] \in {"mapped", "failed"}

\* finally: pendingFilesTracker.removeFile
RemoveFile(a) ==
  /\ Ends(a)
  /\ pending' = pending \ {file[a]}
  /\ thread' = [thread EXCEPT ![a] = "done"]
  /\ UNCHANGED <<page, file, keys, signature, carried, call, mapper, accepted, history>>

----------------------------------------------------------------------------
(* The shared directory                                                    *)

\* The refresher's steps leave the pages, the server's sessions and the
\* threads alone.
Refreshing(next) ==
  /\ refresher' = next
  /\ UNCHANGED <<page, file, keys, signature, carried, call, thread, pending, history, cut>>

\* updateFiles comes to a file of the directory that hasFile does not find.
UpdateDirectoryFile(f) ==
  /\ refresher = Idle /\ f \notin mapped
  /\ Refreshing([step |-> "hashing", file |-> f])
  /\ UNCHANGED <<mapped, accepted>>

\* map(file): the file is mapped before it is published, or not at all when it
\* cannot be hashed, which is only logged.
MapShared ==
  /\ refresher.step = "hashing"
  /\ mapped' \in {mapped, mapped \cup {refresher.file}}
  /\ Refreshing([refresher EXCEPT !.step = "posting"])
  /\ UNCHANGED accepted

\* A bug the checks must see: an exception is logged and the file stays mapped.
StillMapped(f) == mapped

\* fileMapper.removeFile, in each catch block: whoever mapped the file.
Withdrawn(f) == mapped \ {f}

\* publishRaw, which is not signed, reaches the server; the answer may be lost.
PublishRaw ==
  /\ refresher.step = "posting"
  /\ accepted' = accepted \cup {refresher.file}
  /\ mapped' \in {mapped, Withdrawn(refresher.file)}
  /\ Refreshing(Idle)

\* The second hash throws, or the server refuses or is not reached.
PublishRawFails ==
  /\ refresher.step = "posting"
  /\ mapped' = Withdrawn(refresher.file)
  /\ Refreshing(Idle)
  /\ UNCHANGED accepted

\* The files the refresher has mapped and not heard the server's answer for.
Unanswered == {f \in Shared : refresher = [step |-> "posting", file |-> f]}

\* The client's process ends, its daemon threads with it, and is started again.
\* The mapper's Preferences stay.
Restart ==
  /\ thread' = [a \in Attempts |-> IF thread[a] \in {"none", "done"} THEN thread[a] ELSE "stopped"]
  /\ pending' = {} /\ refresher' = Idle
  /\ cut' = cut \cup (Unanswered \cap mapped)
  /\ UNCHANGED <<page, file, keys, signature, carried, call, mapped, accepted, history>>

----------------------------------------------------------------------------

PageStep(a) == \/ KeyArrives(a) \/ KeyFails(a) \/ PublishLocal(a) \/ ScriptGet(a)
               \/ ScriptTimesOut(a)

ServerStep(a) == LoadSession(a) \/ GenerateKey(a)

ClientStep(a) == \/ Forbid(a) \/ AlreadyPublished(a) \/ Unreadable(a)
                 \/ InsertResource(a)

ThreadStep(a) == \/ Hash(a) \/ SignedRequest(a) \/ SignedRequestForbidden(a)
                 \/ SignedRequestFails(a) \/ MapFile(a) \/ RemoveFile(a)

RefresherStep == \/ \E f \in Shared : UpdateDirectoryFile(f)
                 \/ MapShared \/ PublishRaw \/ PublishRawFails

Next == \/ \E a \in Attempts, f \in Files : PostPublish(a, f)
        \/ \E a \in Attempts : \/ PageStep(a) \/ ServerStep(a) \/ ClientStep(a)
                               \/ ThreadStep(a)
        \/ \E s \in Attempts \cup {Earlier} : Expire(s)
        \/ RefresherStep \/ Restart

Spec == Init /\ [][Next]_vars

\* The thread runs on, and its request ends in an answer or an exception.
FairSpec == Spec /\ \A a \in Attempts : WF_vars(ThreadStep(a))

----------------------------------------------------------------------------
(* What publishing promises                                                *)

\* An attempt whose key request overlapped with no other, and whose session
\* did not expire, has its signature refused neither by the client nor by the
\* server, however many attempts come before it or after it while its file is
\* being hashed: generateKey keeps the keys of a session under their own
\* identifiers, and the client signs with the cookies it was sent.
AloneIsAccepted == refused \subseteq crowded \cup expired

\* A file the server has not published does not stay in the mapper, where
\* hasFile would answer for it for good: the threads map it after the server's
\* answer, and the refresher, which maps it first, takes it back when it fails.
\* Only the end of the client's process between the two leaves it there.
OnlyPublishedStays == mapped \subseteq accepted \cup Unanswered \cup cut

\* The list of pending files has the file of every thread that is not over,
\* unless another attempt at the same file has ended meanwhile: the tracker
\* is keyed by file and both remove the same entry.
PendingUntilDone ==
  \A a \in Attempts :
    thread[a] \notin {"none", "done", "stopped"} =>
      \/ file[a] \in pending
      \/ \E b \in Attempts \ {a} : file[b] = file[a] /\ thread[b] = "done"

\* A file does not stay in the list of pending files for ever, though its
\* hash fails, the server refuses it or the answer is lost.
PendingEnds == \A f \in Files : f \in pending ~> f \notin pending

=============================================================================
