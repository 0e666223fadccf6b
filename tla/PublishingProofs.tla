-------------------------- MODULE PublishingProofs --------------------------
(***************************************************************************)
(* What publishing keeps to, for any number of attempts and files.         *)
(***************************************************************************)
EXTENDS Publishing, TLAPS

\* How far an attempt is with the server, the client and its thread fits how
\* far its page is.
Ordered(a) ==
  /\ page[a] = "ready" => request[a].step = "none" /\ call[a] = "none"
  /\ page[a] # "ready" => file[a] \in Files
  /\ page[a] = "asked" => call[a] = "none"
  /\ page[a] \in {"answered", "signed"} => request[a].step = "saved" /\ call[a] = "none"
  /\ call[a] # "none" => request[a].step = "saved"
  /\ thread[a] # "none" => call[a] = "handled"
  /\ request[a].step \in {"loaded", "saved"} => request[a].session \in Attempts \cup {Earlier}

\* A thread maps its file after the server has published it.
MappedAfter(a) == thread[a] \in {"accepted", "mapped"} => file[a] \in accepted

\* The name an attempt would give a session is not in use before it is read.
Unseen(b) ==
  request[b].step \in {"none", "sent"} =>
    /\ b \notin DOMAIN sessions /\ cookies.session # b
    /\ \A c \in Attempts : request[c].session # b

\* The key of an attempt that was alone stays in its session: what was read
\* before it was saved is not saved after it.
Kept(a) ==
  request[a].step = "saved" /\ a \notin crowded /\ a \notin expired =>
    /\ request[a].session \in DOMAIN sessions
    /\ a \in sessions[request[a].session]
    /\ \A b \in Attempts : request[b].step = "loaded" /\ request[b].session = request[a].session
                             => a \in request[b].keys

Mine(a) == [key |-> a, session |-> request[a].session]

\* The cookies of an attempt that was alone are its own until it has sent them.
Undisturbed(a) ==
  a \notin crowded =>
    /\ page[a] \in {"answered", "signed"} => cookies = Mine(a)
    /\ page[a] = "signed" \/ call[a] # "none" => signature[a] = a
    /\ call[a] # "none" => carried[a] = Mine(a)

\* Those whose key requests overlap know it.
Apart == \A a, b \in Attempts : a # b /\ Busy(a) /\ Busy(b) => a \in crowded

PublishInv ==
  /\ TypeOK /\ Apart /\ AloneIsAccepted
  /\ \A a \in Attempts : Ordered(a) /\ Unseen(a) /\ Kept(a) /\ Undisturbed(a)

----------------------------------------------------------------------------
(* The refresher                                                           *)

\* What the refresher, and the end of the client's process, leave alone.
LEMMA RefresherKeeps ==
  ASSUME RefresherStep \/ Restart
  PROVE  /\ UNCHANGED <<page, file, request, sessions, cookies, signature, carried, call,
                       refused, crowded, expired>>
         /\ RefresherStep => UNCHANGED <<thread, pending, cut>>
BY DEF RefresherStep, UpdateDirectoryFile, MapShared, PublishRaw, PublishRawFails, Refreshing,
       Restart, keys, history

\* It works on one shared file at a time.
LEMMA RefresherAt ==
  ASSUME TypeOK
  PROVE  /\ refresher = Idle => Unanswered = {}
         /\ refresher.step = "hashing" =>
              /\ refresher.file \in Shared
              /\ [refresher EXCEPT !.step = "posting"] = [step |-> "posting", file |-> refresher.file]
         /\ refresher.step = "posting" => refresher.file \in Shared /\ Unanswered = {refresher.file}
<1>1. CASE refresher = Idle
  BY <1>1 DEF Idle, Unanswered
<1>2. CASE refresher \in [step : {"hashing", "posting"}, file : Shared]
  BY <1>2 DEF Idle, Unanswered
<1> QED
  BY <1>1, <1>2 DEF TypeOK

----------------------------------------------------------------------------
(* Types                                                                   *)

LEMMA TypeInit == Init => TypeOK
<1> SUFFICES ASSUME Init PROVE TypeOK
  OBVIOUS
<1>1. DOMAIN sessions \subseteq Attempts \cup {Earlier} /\ \A s \in DOMAIN sessions : sessions[s] = {}
  BY DEF Init
<1>2. cookies \in Cookies /\ NoCookies \in Cookies
  BY DEF Init, Cookies, NoCookies, Names
<1>3. request \in [Attempts -> [step : {"none", "sent", "loaded", "saved"},
                               session : Names, keys : SUBSET Attempts]]
  BY DEF Init, Names
<1> QED
  BY <1>1, <1>2, <1>3 DEF Init, TypeOK, Names, Idle

Requests == [step : {"none", "sent", "loaded", "saved"}, session : Names,
             keys : SUBSET Attempts]

LEMMA TypeStep == TypeOK /\ (\A a \in Attempts : Ordered(a)) /\ [Next]_vars => TypeOK'
<1> SUFFICES ASSUME TypeOK, \A a \in Attempts : Ordered(a), [Next]_vars PROVE TypeOK'
  OBVIOUS
<1> USE DEF keys, client, mapper, history
<1>1. ASSUME NEW a \in Attempts, NEW f \in Files, PostPublish(a, f) PROVE TypeOK'
  <2>1. request[a] \in Requests /\ cookies.session \in Names
    BY DEF TypeOK, Requests, Cookies
  <2>2. request'[a] = [step |-> "sent", session |-> cookies.session, keys |-> request[a].keys]
    BY <1>1, <2>1 DEF PostPublish, Requests, TypeOK
  <2>3. request'[a] \in Requests
    BY <2>1, <2>2 DEF Requests
  <2>4. \A b \in Attempts \ {a} : request'[b] = request[b]
    BY <1>1 DEF PostPublish, TypeOK
  <2>5. request' = [b \in Attempts |-> request'[b]]
    BY <1>1 DEF PostPublish, TypeOK
  <2>6. request' \in [Attempts -> Requests]
    BY <2>3, <2>4, <2>5 DEF TypeOK, Requests
  <2>7. crowded' \subseteq Attempts /\ page' \in [Attempts -> {"ready", "asked", "answered",
          "signed", "sent", "published", "error", "silent"}] /\ file' \in [Attempts -> Files \cup {None}]
    BY <1>1 DEF PostPublish, TypeOK
  <2> QED
    BY <1>1, <2>6, <2>7 DEF PostPublish, TypeOK, Requests
<1>2. ASSUME NEW a \in Attempts, LoadSession(a) PROVE TypeOK'
  <2>1. SessionFor(a) \in Names
    BY DEF SessionFor, TypeOK, Names
  <2>2. (IF Known(a) THEN sessions[request[a].session] ELSE {}) \in SUBSET Attempts
    BY DEF Known, TypeOK
  <2> QED
    BY <1>2, <2>1, <2>2 DEF LoadSession, TypeOK
<1>3. ASSUME NEW a \in Attempts, GenerateKey(a) PROVE TypeOK'
  <2>1. request[a].session \in Attempts \cup {Earlier} /\ request[a] \in Requests
    BY <1>3 DEF Ordered, GenerateKey, TypeOK, Requests
  <2>2. KeyStored(request[a].keys, a) \subseteq Attempts
    BY <2>1 DEF KeyStored, Requests
  <2>3. request'[a] = [step |-> "saved", session |-> request[a].session, keys |-> request[a].keys]
    BY <1>3, <2>1 DEF GenerateKey, Requests, TypeOK
  <2>4. request'[a] \in Requests
    BY <2>1, <2>3 DEF Requests
  <2>5. request' \in [Attempts -> Requests]
    BY <1>3, <2>4 DEF GenerateKey, TypeOK, Requests
  <2>6. /\ DOMAIN sessions' = DOMAIN sessions \cup {request[a].session}
        /\ \A t \in DOMAIN sessions' : sessions'[t] = IF t = request[a].session
             THEN KeyStored(request[a].keys, a) ELSE sessions[t]
    BY <1>3 DEF GenerateKey
  <2>7. DOMAIN sessions' \subseteq Attempts \cup {Earlier} /\ \A s \in DOMAIN sessions' : sessions'[s] \subseteq Attempts
    BY <2>1, <2>2, <2>6 DEF TypeOK
  <2> QED
    BY <1>3, <2>5, <2>7 DEF GenerateKey, TypeOK, Requests
<1>4. ASSUME NEW s \in Attempts \cup {Earlier}, Expire(s) PROVE TypeOK'
  <2>1. /\ DOMAIN sessions' = DOMAIN sessions \ {s} /\ s \in DOMAIN sessions
        /\ \A t \in DOMAIN sessions' : sessions'[t] = sessions[t]
    BY <1>4 DEF Expire
  <2>2. expired' \subseteq Attempts
    BY <1>4, <2>1 DEF Expire, TypeOK
  <2> QED
    BY <1>4, <2>1, <2>2 DEF Expire, TypeOK
<1>5. ASSUME NEW a \in Attempts, PageStep(a) PROVE TypeOK'
  <2>1. CASE KeyArrives(a)
    <3>1. cookies' \in Cookies
      BY <2>1 DEF KeyArrives, TypeOK, Cookies, Names
    <3> QED
      BY <2>1, <3>1 DEF KeyArrives, TypeOK
  <2>2. CASE KeyFails(a)
    BY <2>2 DEF KeyFails, TypeOK
  <2>3. CASE PublishLocal(a)
    <3>1. cookies.key \in Names
      BY DEF TypeOK, Cookies
    <3> QED
      BY <2>3, <3>1 DEF PublishLocal, TypeOK
  <2>4. CASE ScriptGet(a)
    BY <2>4 DEF ScriptGet, TypeOK
  <2>5. CASE ScriptTimesOut(a)
    BY <2>5 DEF ScriptTimesOut, TypeOK
  <2> QED
    BY <1>5, <2>1, <2>2, <2>3, <2>4, <2>5 DEF PageStep
<1>6. ASSUME NEW a \in Attempts, ClientStep(a) PROVE TypeOK'
  <2>1. CASE Forbid(a)
    BY <2>1 DEF Forbid, Answers, TypeOK
  <2>2. CASE AlreadyPublished(a)
    BY <2>2 DEF AlreadyPublished, Answers, TypeOK
  <2>3. CASE Unreadable(a)
    BY <2>3 DEF Unreadable, Answers, TypeOK
  <2>4. CASE InsertResource(a)
    <3>1. file[a] \in Files
      BY <2>4 DEF InsertResource, Answers, Ordered
    <3> QED
      BY <2>4, <3>1 DEF InsertResource, Answers, TypeOK
  <2> QED
    BY <1>6, <2>1, <2>2, <2>3, <2>4 DEF ClientStep
<1>7. ASSUME NEW a \in Attempts, ThreadStep(a) PROVE TypeOK'
  <2>1. CASE Hash(a)
    BY <2>1 DEF Hash, Hashed, TypeOK
  <2>2. CASE SignedRequest(a)
    <3>1. file[a] \in Files
      BY <2>2 DEF SignedRequest, Ordered
    <3> QED
      BY <2>2, <3>1 DEF SignedRequest, TypeOK
  <2>3. CASE SignedRequestForbidden(a)
    BY <2>3 DEF SignedRequestForbidden, TypeOK
  <2>4. CASE SignedRequestFails(a)
    BY <2>4 DEF SignedRequestFails, TypeOK
  <2>5. CASE MapFile(a)
    <3>1. file[a] \in Files
      BY <2>5 DEF MapFile, Ordered
    <3> QED
      BY <2>5, <3>1 DEF MapFile, TypeOK
  <2>6. CASE RemoveFile(a)
    BY <2>6 DEF RemoveFile, TypeOK
  <2> QED
    BY <1>7, <2>1, <2>2, <2>3, <2>4, <2>5, <2>6 DEF ThreadStep
<1>8. CASE UNCHANGED vars
  BY <1>8 DEF vars, TypeOK
<1>9. ASSUME RefresherStep \/ Restart PROVE TypeOK'
  <2>1. CASE RefresherStep
    <3>1. refresher' \in {Idle} \cup [step : {"hashing", "posting"}, file : Shared]
      BY <2>1, RefresherAt DEF RefresherStep, UpdateDirectoryFile, MapShared, PublishRaw,
                               PublishRawFails, Refreshing
    <3>2. mapped' \subseteq Files /\ accepted' \subseteq Files
      BY <2>1, RefresherAt, SharedAssumption
         DEF RefresherStep, UpdateDirectoryFile, MapShared, PublishRaw, PublishRawFails, Withdrawn, TypeOK
    <3> QED
      BY <2>1, <3>1, <3>2, RefresherKeeps DEF TypeOK
  <2>2. CASE Restart
    <3>1. Unanswered \subseteq Files
      BY SharedAssumption DEF Unanswered
    <3> QED
      BY <2>2, <3>1, RefresherKeeps DEF Restart, TypeOK
  <2> QED
    BY <1>9, <2>1, <2>2
<1> QED
  BY <1>1, <1>2, <1>3, <1>4, <1>5, <1>6, <1>7, <1>8, <1>9 DEF Next, ServerStep

----------------------------------------------------------------------------
(* Order                                                                   *)

LEMMA OrderedInit == Init => \A a \in Attempts : Ordered(a)
BY DEF Init, Ordered

LEMMA OrderedStep ==
  ASSUME TypeOK, \A a \in Attempts : Ordered(a), [Next]_vars, NEW c \in Attempts
  PROVE  Ordered(c)'
<1> USE DEF keys, client, mapper, history
<1>1. ASSUME NEW a \in Attempts, NEW f \in Files, PostPublish(a, f) PROVE Ordered(c)'
  BY <1>1 DEF PostPublish, TypeOK, Ordered
<1>2. ASSUME NEW a \in Attempts, LoadSession(a) PROVE Ordered(c)'
  BY <1>2 DEF LoadSession, SessionFor, Known, TypeOK, Ordered
<1>3. ASSUME NEW a \in Attempts, GenerateKey(a) PROVE Ordered(c)'
  BY <1>3 DEF GenerateKey, TypeOK, Ordered
<1>4. ASSUME NEW s \in Attempts \cup {Earlier}, Expire(s) PROVE Ordered(c)'
  BY <1>4 DEF Expire, Ordered
<1>5. ASSUME NEW a \in Attempts, PageStep(a) PROVE Ordered(c)'
  BY <1>5 DEF PageStep, KeyArrives, KeyFails, PublishLocal, ScriptGet, ScriptTimesOut, TypeOK, Ordered
<1>6. ASSUME NEW a \in Attempts, ClientStep(a) PROVE Ordered(c)'
  BY <1>6 DEF ClientStep, Forbid, AlreadyPublished, Unreadable, InsertResource, Answers, TypeOK, Ordered
<1>7. ASSUME NEW a \in Attempts, ThreadStep(a) PROVE Ordered(c)'
  <2>1. UNCHANGED <<page, file, request, call>> /\ thread[a] # "none" /\ \E v : thread' = [thread EXCEPT ![a] = v]
    BY <1>7 DEF ThreadStep, Hash, SignedRequest, SignedRequestForbidden, SignedRequestFails,
                MapFile, RemoveFile, Ends
  <2>2. thread'[c] # "none" => thread[c] # "none"
    BY <2>1 DEF TypeOK
  <2> QED
    BY <2>1, <2>2 DEF Ordered
<1>8. CASE UNCHANGED vars
  BY <1>8 DEF vars, Ordered
<1>9. ASSUME RefresherStep \/ Restart PROVE Ordered(c)'
  <2>1. thread'[c] # "none" => thread[c] # "none"
    BY <1>9, RefresherKeeps DEF Restart
  <2> QED
    BY <1>9, <2>1, RefresherKeeps DEF Ordered
<1> QED
  BY <1>1, <1>2, <1>3, <1>4, <1>5, <1>6, <1>7, <1>8, <1>9 DEF Next, ServerStep

\* What the steps of the client and its threads leave alone.
LEMMA ClientKeeps ==
  ASSUME TypeOK, NEW a \in Attempts, ClientStep(a) \/ ThreadStep(a)
  PROVE  /\ UNCHANGED <<request, sessions, cookies, signature, carried, crowded, expired>>
         /\ \A c \in Attempts : /\ Busy(c)' <=> Busy(c)
                                /\ page'[c] # page[c] => page'[c] \in {"published", "error"}
                                /\ call'[c] # "none" => call[c] # "none"
<1> USE DEF keys, client, mapper, history
<1>1. CASE ThreadStep(a)
  <2>1. UNCHANGED <<page, call, request, sessions, cookies, signature, carried, crowded, expired>>
    BY <1>1 DEF ThreadStep, Hash, SignedRequest, SignedRequestForbidden, SignedRequestFails,
                MapFile, RemoveFile
  <2> QED
    BY <2>1 DEF Busy
<1>2. CASE ClientStep(a)
  <2>1. /\ UNCHANGED <<request, sessions, cookies, signature, carried, crowded, expired>>
        /\ call[a] = "sent" /\ call' = [call EXCEPT ![a] = "handled"]
        /\ \E shown \in {"published", "error"} :
             page' = IF page[a] = "sent" THEN [page EXCEPT ![a] = shown] ELSE page
    BY <1>2 DEF ClientStep, Forbid, AlreadyPublished, Unreadable, InsertResource, Answers
  <2> QED
    BY <2>1 DEF Busy, TypeOK
<1> QED
  BY <1>1, <1>2

----------------------------------------------------------------------------
(* Those that overlap                                                      *)

LEMMA ApartStep ==
  ASSUME TypeOK, Apart, [Next]_vars
  PROVE  Apart'
<1> USE DEF keys, client, mapper, history
<1> SUFFICES ASSUME NEW b \in Attempts, NEW c \in Attempts, b # c, Busy(b)', Busy(c)'
             PROVE  b \in crowded'
  BY DEF Apart
<1>1. ASSUME NEW a \in Attempts, NEW f \in Files, PostPublish(a, f) PROVE b \in crowded'
  <2>1. \A d \in Attempts \ {a} : Busy(d)' => Busy(d)
    BY <1>1 DEF PostPublish, TypeOK, Busy
  <2>2. CASE b = a
    BY <1>1, <2>1, <2>2 DEF PostPublish
  <2>3. CASE b # a
    BY <1>1, <2>1, <2>3 DEF PostPublish, Apart
  <2> QED
    BY <2>2, <2>3
<1>2. ASSUME crowded' = crowded, Busy(b)' => Busy(b), Busy(c)' => Busy(c) PROVE b \in crowded'
  BY <1>2 DEF Apart
<1>3. ASSUME NEW a \in Attempts, ServerStep(a) PROVE b \in crowded'
  <2>1. crowded' = crowded /\ \A d \in Attempts : Busy(d)' => Busy(d)
    BY <1>3 DEF ServerStep, LoadSession, GenerateKey, TypeOK, Busy
  <2> QED
    BY <1>2, <2>1
<1>4. ASSUME NEW s \in Attempts \cup {Earlier}, Expire(s) PROVE b \in crowded'
  BY <1>2, <1>4 DEF Expire, Busy
<1>5. ASSUME NEW a \in Attempts, PageStep(a) PROVE b \in crowded'
  <2>1. crowded' = crowded /\ \A d \in Attempts : Busy(d)' => Busy(d)
    BY <1>5 DEF PageStep, KeyArrives, KeyFails, PublishLocal, ScriptGet, ScriptTimesOut, TypeOK, Busy
  <2> QED
    BY <1>2, <2>1
<1>6. ASSUME NEW a \in Attempts, ClientStep(a) \/ ThreadStep(a) PROVE b \in crowded'
  BY <1>2, <1>6, ClientKeeps
<1>7. CASE UNCHANGED vars
  BY <1>2, <1>7 DEF vars, Busy
<1>8. ASSUME RefresherStep \/ Restart PROVE b \in crowded'
  BY <1>2, <1>8, RefresherKeeps DEF Busy
<1> QED
  BY <1>1, <1>3, <1>4, <1>5, <1>6, <1>7, <1>8 DEF Next

----------------------------------------------------------------------------
(* The sessions                                                            *)

LEMMA UnseenStep ==
  ASSUME TypeOK, \A a \in Attempts : Ordered(a) /\ Unseen(a), [Next]_vars, NEW b \in Attempts
  PROVE  Unseen(b)'
<1> USE DEF keys, client, mapper, history
<1> SUFFICES ASSUME request'[b].step \in {"none", "sent"}
             PROVE  /\ b \notin DOMAIN sessions' /\ cookies'.session # b
                    /\ \A c \in Attempts : request'[c].session # b
  BY DEF Unseen
<1>1. ASSUME NEW a \in Attempts, NEW f \in Files, PostPublish(a, f)
      PROVE  Unseen(b)'
  <2>1. request[b].step \in {"none", "sent"}
    <3>1. CASE b = a
      BY <1>1, <3>1 DEF PostPublish, Ordered
    <3>2. CASE b # a
      BY <1>1, <3>2 DEF PostPublish, TypeOK
    <3> QED
      BY <3>1, <3>2
  <2>2. /\ UNCHANGED <<sessions, cookies>>
        /\ \A c \in Attempts : request'[c].session \in {request[c].session, cookies.session}
    BY <1>1 DEF PostPublish, TypeOK
  <2> QED
    BY <2>1, <2>2 DEF Unseen
<1>2. ASSUME NEW a \in Attempts, LoadSession(a) PROVE Unseen(b)'
  <2>1. b # a /\ request[b].step \in {"none", "sent"} /\ UNCHANGED <<sessions, cookies>>
    BY <1>2 DEF LoadSession, TypeOK
  <2>2. \A c \in Attempts : request'[c].session \in {request[c].session, a}
    BY <1>2 DEF LoadSession, SessionFor, TypeOK
  <2> QED
    BY <2>1, <2>2 DEF Unseen
<1>3. ASSUME NEW a \in Attempts, GenerateKey(a) PROVE Unseen(b)'
  <2>1. b # a /\ request[b].step \in {"none", "sent"} /\ cookies' = cookies
    BY <1>3 DEF GenerateKey, TypeOK
  <2>2. \A c \in Attempts : request'[c].session = request[c].session
    BY <1>3 DEF GenerateKey, TypeOK
  <2>3. DOMAIN sessions' = DOMAIN sessions \cup {request[a].session}
    BY <1>3 DEF GenerateKey
  <2> QED
    BY <2>1, <2>2, <2>3 DEF Unseen
<1>4. ASSUME NEW s \in Attempts \cup {Earlier}, Expire(s) PROVE Unseen(b)'
  <2>1. DOMAIN sessions' = DOMAIN sessions \ {s} /\ UNCHANGED <<request, cookies>>
    BY <1>4 DEF Expire
  <2> QED
    BY <2>1 DEF Unseen
<1>5. ASSUME NEW a \in Attempts, PageStep(a) PROVE Unseen(b)'
  <2>1. UNCHANGED <<request, sessions>> /\ cookies'.session \in {cookies.session, request[a].session}
    BY <1>5 DEF PageStep, KeyArrives, KeyFails, PublishLocal, ScriptGet, ScriptTimesOut
  <2> QED
    BY <2>1 DEF Unseen
<1>6. ASSUME NEW a \in Attempts, ClientStep(a) \/ ThreadStep(a) PROVE Unseen(b)'
  BY <1>6, ClientKeeps DEF Unseen
<1>7. CASE UNCHANGED vars
  BY <1>7 DEF vars, Unseen
<1>8. ASSUME RefresherStep \/ Restart PROVE Unseen(b)'
  BY <1>8, RefresherKeeps DEF Unseen
<1> QED
  BY <1>1, <1>2, <1>3, <1>4, <1>5, <1>6, <1>7, <1>8 DEF Next, ServerStep, Unseen

LEMMA KeptStep ==
  ASSUME TypeOK, Apart, \A a \in Attempts : Ordered(a) /\ Unseen(a) /\ Kept(a), [Next]_vars,
         NEW c \in Attempts
  PROVE  Kept(c)'
<1> USE DEF keys, client, mapper, history
<1>1. ASSUME NEW a \in Attempts, NEW f \in Files, PostPublish(a, f) PROVE Kept(c)'
  <2>1. /\ UNCHANGED <<sessions, expired>> /\ crowded \subseteq crowded'
        /\ request'[a].step = "sent" /\ \A b \in Attempts \ {a} : request'[b] = request[b]
    BY <1>1 DEF PostPublish, TypeOK
  <2> QED
    BY <2>1 DEF Kept
<1>2. ASSUME NEW a \in Attempts, LoadSession(a) PROVE Kept(c)'
  <2>1. /\ UNCHANGED <<sessions, crowded, expired>> /\ request[a].step = "sent"
        /\ request'[a].step = "loaded" /\ \A b \in Attempts \ {a} : request'[b] = request[b]
        /\ request'[a].session = SessionFor(a)
        /\ Known(a) => request'[a].keys = sessions[request[a].session]
    BY <1>2 DEF LoadSession, TypeOK
  <2>2. request[c].session # a
    BY <2>1 DEF Unseen
  <2> QED
    BY <2>1, <2>2 DEF Kept, SessionFor, Known
<1>3. ASSUME NEW a \in Attempts, GenerateKey(a) PROVE Kept(c)'
  <2>1. /\ UNCHANGED <<crowded, expired>> /\ request[a].step = "loaded"
        /\ request'[a].step = "saved" /\ \A b \in Attempts \ {a} : request'[b] = request[b]
        /\ request'[a].session = request[a].session
    BY <1>3 DEF GenerateKey, TypeOK
  <2>2. /\ DOMAIN sessions' = DOMAIN sessions \cup {request[a].session}
        /\ sessions'[request[a].session] = request[a].keys \cup {a}
        /\ \A t \in DOMAIN sessions \ {request[a].session} : sessions'[t] = sessions[t]
    BY <1>3 DEF GenerateKey, KeyStored
  <2>3. CASE c = a
    <3>1. \A b \in Attempts \ {a} : request[b].step = "loaded" => a \in crowded
      BY <2>1 DEF Apart, Busy
    <3> QED
      BY <2>1, <2>2, <2>3, <3>1 DEF Kept
  <2>4. CASE c # a
    BY <2>1, <2>2, <2>4 DEF Kept
  <2> QED
    BY <2>3, <2>4
<1>4. ASSUME NEW s \in Attempts \cup {Earlier}, Expire(s) PROVE Kept(c)'
  <2>1. /\ DOMAIN sessions' = DOMAIN sessions \ {s} /\ UNCHANGED <<request, crowded>>
        /\ \A t \in DOMAIN sessions \ {s} : sessions'[t] = sessions[t]
        /\ expired' = expired \cup sessions[s]
    BY <1>4 DEF Expire
  <2> QED
    BY <2>1 DEF Kept
<1>5. ASSUME NEW a \in Attempts, PageStep(a) PROVE Kept(c)'
  <2>1. UNCHANGED <<request, sessions, crowded, expired>>
    BY <1>5 DEF PageStep, KeyArrives, KeyFails, PublishLocal, ScriptGet, ScriptTimesOut
  <2> QED
    BY <2>1 DEF Kept
<1>6. ASSUME NEW a \in Attempts, ClientStep(a) \/ ThreadStep(a) PROVE Kept(c)'
  BY <1>6, ClientKeeps DEF Kept
<1>7. CASE UNCHANGED vars
  BY <1>7 DEF vars, Kept
<1>8. ASSUME RefresherStep \/ Restart PROVE Kept(c)'
  BY <1>8, RefresherKeeps DEF Kept
<1> QED
  BY <1>1, <1>2, <1>3, <1>4, <1>5, <1>6, <1>7, <1>8 DEF Next, ServerStep

----------------------------------------------------------------------------
(* The cookies                                                             *)

LEMMA UndisturbedStep ==
  ASSUME TypeOK, Apart, \A a \in Attempts : Ordered(a) /\ Undisturbed(a), [Next]_vars,
         NEW c \in Attempts
  PROVE  Undisturbed(c)'
<1> USE DEF keys, client, mapper, history
<1>1. ASSUME NEW a \in Attempts, NEW f \in Files, PostPublish(a, f) PROVE Undisturbed(c)'
  <2>1. /\ UNCHANGED <<cookies, signature, carried, call>> /\ crowded \subseteq crowded'
        /\ page'[a] = "asked" /\ page[a] = "ready"
        /\ \A b \in Attempts \ {a} : request'[b] = request[b] /\ page'[b] = page[b]
    BY <1>1 DEF PostPublish, TypeOK
  <2> QED
    BY <2>1 DEF Undisturbed, Ordered, Mine
<1>2. ASSUME NEW a \in Attempts, ServerStep(a) PROVE Undisturbed(c)'
  <2>1. /\ UNCHANGED <<page, cookies, signature, carried, call, crowded>>
        /\ request[a].step \in {"sent", "loaded"}
        /\ \A b \in Attempts \ {a} : request'[b] = request[b]
    BY <1>2 DEF ServerStep, LoadSession, GenerateKey, TypeOK
  <2> QED
    BY <2>1 DEF Undisturbed, Ordered, Mine
<1>3. ASSUME NEW s \in Attempts \cup {Earlier}, Expire(s) PROVE Undisturbed(c)'
  BY <1>3 DEF Expire, Undisturbed, Mine
<1>4. ASSUME NEW a \in Attempts, PageStep(a) PROVE Undisturbed(c)'
  <2>1. CASE KeyArrives(a)
    <3>1. /\ UNCHANGED <<request, signature, carried, call, crowded>> /\ cookies' = Mine(a)
          /\ page[a] = "asked" /\ page' = [page EXCEPT ![a] = "answered"]
      BY <2>1 DEF KeyArrives, Mine
    <3>2. CASE c = a
      BY <3>1, <3>2 DEF Undisturbed, Ordered, Mine, TypeOK
    <3>3. CASE c # a
      <4>1. page[c] \in {"answered", "signed"} => c \in crowded
        BY <3>1, <3>3 DEF Apart, Busy
      <4> QED
        BY <3>1, <3>3, <4>1 DEF Undisturbed, Mine, TypeOK
    <3> QED
      BY <3>2, <3>3
  <2>2. CASE KeyFails(a)
    BY <2>2 DEF KeyFails, Undisturbed, Mine, TypeOK
  <2>3. CASE PublishLocal(a)
    BY <2>3 DEF PublishLocal, Undisturbed, Mine, TypeOK
  <2>4. CASE ScriptGet(a)
    BY <2>4 DEF ScriptGet, Undisturbed, Mine, TypeOK
  <2>5. CASE ScriptTimesOut(a)
    BY <2>5 DEF ScriptTimesOut, Undisturbed, Mine, TypeOK
  <2> QED
    BY <1>4, <2>1, <2>2, <2>3, <2>4, <2>5 DEF PageStep
<1>5. ASSUME NEW a \in Attempts, ClientStep(a) \/ ThreadStep(a) PROVE Undisturbed(c)'
  BY <1>5, ClientKeeps DEF Undisturbed, Mine
<1>6. CASE UNCHANGED vars
  BY <1>6 DEF vars, Undisturbed, Mine
<1>7. ASSUME RefresherStep \/ Restart PROVE Undisturbed(c)'
  BY <1>7, RefresherKeeps DEF Undisturbed, Mine
<1> QED
  BY <1>1, <1>2, <1>3, <1>4, <1>5, <1>6, <1>7 DEF Next

LEMMA AloneStep == PublishInv /\ [Next]_vars => AloneIsAccepted'
<1> USE DEF keys, client, mapper, history
<1> SUFFICES ASSUME PublishInv, [Next]_vars PROVE AloneIsAccepted'
  OBVIOUS
<1> SUFFICES ASSUME NEW c \in Attempts, c \in refused', c \notin refused
             PROVE  c \in crowded \/ c \in expired
  <2>1. crowded \subseteq crowded' /\ expired \subseteq expired' /\ refused' \subseteq Attempts
    <3>1. refused' \subseteq Attempts
      BY TypeStep DEF PublishInv, TypeOK
    <3>2. ASSUME NEW a \in Attempts, NEW f \in Files, PostPublish(a, f)
          PROVE  crowded \subseteq crowded' /\ expired \subseteq expired'
      BY <3>2 DEF PostPublish
    <3>3. ASSUME NEW s \in Attempts \cup {Earlier}, Expire(s)
          PROVE  crowded \subseteq crowded' /\ expired \subseteq expired'
      BY <3>3 DEF Expire
    <3>4. ASSUME NEW a \in Attempts, PageStep(a) \/ ServerStep(a)
          PROVE  crowded' = crowded /\ expired' = expired
      BY <3>4 DEF PageStep, ServerStep, LoadSession, GenerateKey, KeyArrives, KeyFails, PublishLocal,
                  ScriptGet, ScriptTimesOut
    <3>5. ASSUME NEW a \in Attempts, ClientStep(a) \/ ThreadStep(a)
          PROVE  crowded' = crowded /\ expired' = expired
      BY <3>5, ClientKeeps DEF PublishInv
    <3> QED
      BY <3>1, <3>2, <3>3, <3>4, <3>5, RefresherKeeps DEF Next, vars
  <2> QED
    BY <2>1 DEF AloneIsAccepted, PublishInv
<1>1. ASSUME NEW a \in Attempts, PageStep(a) \/ ServerStep(a) PROVE FALSE
  BY <1>1 DEF PageStep, ServerStep, LoadSession, GenerateKey, KeyArrives, KeyFails, PublishLocal,
              ScriptGet, ScriptTimesOut
<1>2. ASSUME NEW a \in Attempts, ClientStep(a) PROVE c \in crowded
  <2>1. Forbid(a) /\ c = a
    BY <1>2 DEF ClientStep, Forbid, AlreadyPublished, Unreadable, InsertResource
  <2>2. call[a] = "sent" /\ signature[a] # carried[a].key
    BY <2>1 DEF Forbid, Answers, Matches
  <2>3. a \notin crowded => signature[a] = a /\ carried[a] = Mine(a)
    BY <2>2 DEF PublishInv, Undisturbed
  <2>4. Mine(a).key = a
    BY DEF Mine
  <2> QED
    BY <2>1, <2>2, <2>3, <2>4
<1>3. ASSUME NEW a \in Attempts, ThreadStep(a) PROVE c \in crowded \/ c \in expired
  <2>1. SignedRequestForbidden(a) /\ c = a
    BY <1>3 DEF ThreadStep, Hash, SignedRequest, SignedRequestForbidden, SignedRequestFails,
                MapFile, RemoveFile
  <2>2. call[a] # "none" /\ request[a].step = "saved" /\ ~ ValidSignature(a)
    BY <2>1 DEF SignedRequestForbidden, PublishInv, Ordered
  <2>3. CASE a \notin crowded /\ a \notin expired
    <3>1. carried[a].key = a /\ carried[a].session = request[a].session
      <4>1. carried[a] = Mine(a)
        BY <2>2, <2>3 DEF PublishInv, Undisturbed
      <4>2. Mine(a).key = a /\ Mine(a).session = request[a].session
        BY DEF Mine
      <4> QED
        BY <4>1, <4>2
    <3>2. request[a].session \in DOMAIN sessions /\ a \in sessions[request[a].session]
      BY <2>2, <2>3 DEF PublishInv, Kept
    <3> QED
      BY <2>2, <3>1, <3>2 DEF ValidSignature
  <2> QED
    BY <2>1, <2>3
<1>4. ASSUME NEW a \in Attempts, NEW f \in Files, PostPublish(a, f) PROVE FALSE
  BY <1>4 DEF PostPublish
<1>5. ASSUME NEW s \in Attempts \cup {Earlier}, Expire(s) PROVE FALSE
  BY <1>5 DEF Expire
<1>6. ASSUME RefresherStep \/ Restart PROVE FALSE
  BY <1>6, RefresherKeeps
<1> QED
  BY <1>1, <1>2, <1>3, <1>4, <1>5, <1>6 DEF Next, vars

LEMMA PublishInit == Init => PublishInv
<1> SUFFICES ASSUME Init PROVE PublishInv
  OBVIOUS
<1>1. TypeOK /\ \A a \in Attempts : Ordered(a)
  BY TypeInit, OrderedInit
<1>2. ASSUME NEW a \in Attempts PROVE Unseen(a)
  <2>1. DOMAIN sessions \subseteq {Earlier} /\ cookies.session \in {None, Earlier}
    BY DEF Init, NoCookies
  <2> QED
    BY <2>1, PublishingAssumption DEF Init, Unseen
<1>3. ASSUME NEW a \in Attempts PROVE Kept(a) /\ Undisturbed(a) /\ ~ Busy(a)
  BY DEF Init, Kept, Undisturbed, Busy
<1> QED
  BY <1>1, <1>2, <1>3 DEF PublishInv, Apart, AloneIsAccepted, Init

LEMMA PublishStep == PublishInv /\ [Next]_vars => PublishInv'
<1> SUFFICES ASSUME PublishInv, [Next]_vars PROVE PublishInv'
  OBVIOUS
<1>1. TypeOK' /\ Apart' /\ AloneIsAccepted'
  BY TypeStep, ApartStep, AloneStep DEF PublishInv
<1>2. ASSUME NEW c \in Attempts
      PROVE  Ordered(c)' /\ Unseen(c)' /\ Kept(c)' /\ Undisturbed(c)'
  BY OrderedStep, UnseenStep, KeptStep, UndisturbedStep DEF PublishInv
<1> QED
  BY <1>1, <1>2 DEF PublishInv

\* Every attempt's page, request, cookies, call and thread keep their types.
THEOREM PublishingTypeCorrect == Spec => []TypeOK
<1>1. PublishInv => TypeOK
  BY DEF PublishInv
<1> QED
  BY <1>1, PublishInit, PublishStep, PTL DEF Spec

\* Signatures: an attempt that overlapped with no other and kept its session
\* is refused by nobody (GenerateKey, PublishLocal, ValidSignature).
THEOREM AloneIsAcceptedHolds == Spec => []AloneIsAccepted
<1>1. PublishInv => AloneIsAccepted
  BY DEF PublishInv
<1> QED
  BY <1>1, PublishInit, PublishStep, PTL DEF Spec

----------------------------------------------------------------------------
(* The mapper and the tracker                                              *)

LEMMA MappedStep ==
  ASSUME TypeOK, \A a \in Attempts : Ordered(a) /\ MappedAfter(a), [Next]_vars, NEW c \in Attempts
  PROVE  MappedAfter(c)'
<1> USE DEF keys, client, mapper, history
<1>1. ASSUME NEW a \in Attempts, NEW f \in Files, PostPublish(a, f) PROVE MappedAfter(c)'
  <2>1. /\ UNCHANGED <<accepted, thread>> /\ thread[a] = "none"
        /\ \A b \in Attempts \ {a} : file'[b] = file[b]
    BY <1>1 DEF PostPublish, TypeOK, Ordered
  <2> QED
    BY <2>1 DEF MappedAfter
<1>2. ASSUME NEW a \in Attempts, ServerStep(a) \/ PageStep(a) PROVE MappedAfter(c)'
  BY <1>2 DEF ServerStep, LoadSession, GenerateKey, PageStep, KeyArrives, KeyFails, PublishLocal,
              ScriptGet, ScriptTimesOut, MappedAfter
<1>3. ASSUME NEW s \in Attempts \cup {Earlier}, Expire(s) PROVE MappedAfter(c)'
  BY <1>3 DEF Expire, MappedAfter
<1>4. ASSUME NEW a \in Attempts, ClientStep(a) PROVE MappedAfter(c)'
  <2>1. /\ UNCHANGED <<file, accepted>>
        /\ thread' \in {thread, [thread EXCEPT ![a] = "hashing"]}
    BY <1>4 DEF ClientStep, Forbid, AlreadyPublished, Unreadable, InsertResource, Answers
  <2> QED
    BY <2>1 DEF MappedAfter, TypeOK
<1>5. ASSUME NEW a \in Attempts, ThreadStep(a) PROVE MappedAfter(c)'
  <2>1. CASE Hash(a)
    BY <2>1 DEF Hash, MappedAfter, TypeOK
  <2>2. CASE SignedRequest(a)
    BY <2>2 DEF SignedRequest, MappedAfter, TypeOK
  <2>3. CASE SignedRequestForbidden(a) \/ SignedRequestFails(a)
    BY <2>3 DEF SignedRequestForbidden, SignedRequestFails, MappedAfter, TypeOK
  <2>4. CASE MapFile(a)
    BY <2>4 DEF MapFile, MappedAfter, TypeOK
  <2>5. CASE RemoveFile(a)
    BY <2>5 DEF RemoveFile, MappedAfter, Ends, TypeOK
  <2> QED
    BY <1>5, <2>1, <2>2, <2>3, <2>4, <2>5 DEF ThreadStep
<1>6. CASE UNCHANGED vars
  BY <1>6 DEF vars, MappedAfter
<1>7. ASSUME RefresherStep \/ Restart PROVE MappedAfter(c)'
  <2>1. accepted \subseteq accepted'
    BY <1>7 DEF RefresherStep, UpdateDirectoryFile, MapShared, PublishRaw, PublishRawFails, Restart
  <2>2. thread'[c] \in {"accepted", "mapped"} => thread[c] \in {"accepted", "mapped"}
    BY <1>7, RefresherKeeps DEF Restart
  <2> QED
    BY <1>7, <2>1, <2>2, RefresherKeeps DEF MappedAfter
<1> QED
  BY <1>1, <1>2, <1>3, <1>4, <1>5, <1>6, <1>7 DEF Next

LEMMA StaysStep ==
  ASSUME TypeOK, \A a \in Attempts : MappedAfter(a), OnlyPublishedStays, [Next]_vars
  PROVE  OnlyPublishedStays'
<1> USE DEF keys, client, mapper, history
<1>1. ASSUME mapped' = mapped, accepted \subseteq accepted', refresher' = refresher, cut' = cut
      PROVE  OnlyPublishedStays'
  BY <1>1 DEF OnlyPublishedStays, Unanswered
<1>2. ASSUME NEW a \in Attempts, \/ ServerStep(a) \/ PageStep(a) \/ ClientStep(a)
                                 \/ \E f \in Files : PostPublish(a, f)
      PROVE  OnlyPublishedStays'
  BY <1>1, <1>2 DEF ServerStep, LoadSession, GenerateKey, PageStep, KeyArrives, KeyFails, PublishLocal,
     ScriptGet, ScriptTimesOut, ClientStep, Forbid, AlreadyPublished, Unreadable, InsertResource,
     Answers, PostPublish
<1>3. ASSUME NEW s \in Attempts \cup {Earlier}, Expire(s) PROVE OnlyPublishedStays'
  BY <1>1, <1>3 DEF Expire
<1>4. ASSUME NEW a \in Attempts, ThreadStep(a) PROVE OnlyPublishedStays'
  <2>1. CASE MapFile(a)
    <3>1. mapped' = mapped \cup {file[a]} /\ file[a] \in accepted
      BY <2>1 DEF MapFile, MappedAfter
    <3> QED
      BY <2>1, <3>1 DEF MapFile, OnlyPublishedStays, Unanswered
  <2>2. CASE ~ MapFile(a)
    BY <1>1, <1>4, <2>2 DEF ThreadStep, Hash, SignedRequest, SignedRequestForbidden,
                            SignedRequestFails, RemoveFile
  <2> QED
    BY <2>1, <2>2
<1>5. CASE \E f \in Shared : UpdateDirectoryFile(f)
  <2>1. UNCHANGED <<mapped, accepted, cut>> /\ Unanswered = {}
    BY <1>5, RefresherAt DEF UpdateDirectoryFile, Refreshing
  <2> QED
    BY <2>1 DEF OnlyPublishedStays
<1>6. CASE MapShared
  <2>1. /\ mapped' \subseteq mapped \cup {refresher.file} /\ UNCHANGED <<accepted, cut>>
        /\ refresher.step = "hashing" /\ refresher' = [refresher EXCEPT !.step = "posting"]
    BY <1>6 DEF MapShared, Refreshing
  <2>2. Unanswered = {} /\ refresher.file \in Unanswered'
    BY <2>1, RefresherAt DEF Unanswered
  <2> QED
    BY <2>1, <2>2 DEF OnlyPublishedStays
<1>7. CASE PublishRaw \/ PublishRawFails
  <2>1. /\ mapped' \subseteq mapped /\ accepted \subseteq accepted' /\ cut' = cut
        /\ refresher.file \in mapped' => refresher.file \in accepted'
        /\ refresher.step = "posting"
    BY <1>7 DEF PublishRaw, PublishRawFails, Refreshing, Withdrawn
  <2>2. Unanswered = {refresher.file}
    BY <2>1, RefresherAt
  <2> QED
    BY <2>1, <2>2 DEF OnlyPublishedStays
<1>8. CASE Restart
  BY <1>8 DEF Restart, OnlyPublishedStays
<1>9. CASE UNCHANGED vars
  BY <1>1, <1>9 DEF vars
<1> QED
  BY <1>2, <1>3, <1>4, <1>5, <1>6, <1>7, <1>8, <1>9 DEF Next, RefresherStep

LEMMA PendingStep ==
  ASSUME TypeOK, \A a \in Attempts : Ordered(a), PendingUntilDone, [Next]_vars
  PROVE  PendingUntilDone'
<1> USE DEF keys, client, mapper, history
<1> SUFFICES ASSUME NEW c \in Attempts, thread'[c] \notin {"none", "done", "stopped"}
             PROVE  \/ file'[c] \in pending'
                    \/ \E b \in Attempts \ {c} : file'[b] = file'[c] /\ thread'[b] = "done"
  BY DEF PendingUntilDone
<1> DEFINE Goal == \/ file'[c] \in pending'
                   \/ \E b \in Attempts \ {c} : file'[b] = file'[c] /\ thread'[b] = "done"
<1>1. ASSUME NEW a \in Attempts, NEW f \in Files, PostPublish(a, f) PROVE Goal
  <2>1. /\ UNCHANGED <<pending, thread>> /\ thread[a] = "none"
        /\ \A b \in Attempts \ {a} : file'[b] = file[b]
    BY <1>1 DEF PostPublish, TypeOK, Ordered
  <2> QED
    BY <2>1 DEF PendingUntilDone
<1>2. ASSUME UNCHANGED <<file, pending, thread>> PROVE Goal
  BY <1>2 DEF PendingUntilDone
<1>3. ASSUME NEW a \in Attempts, ServerStep(a) \/ PageStep(a) PROVE Goal
  BY <1>2, <1>3 DEF ServerStep, LoadSession, GenerateKey, PageStep, KeyArrives, KeyFails, PublishLocal,
                    ScriptGet, ScriptTimesOut
<1>4. ASSUME NEW s \in Attempts \cup {Earlier}, Expire(s) PROVE Goal
  BY <1>2, <1>4 DEF Expire
<1>5. ASSUME NEW a \in Attempts, ClientStep(a) PROVE Goal
  <2>1. CASE InsertResource(a)
    <3>1. /\ file' = file /\ pending' = pending \cup {file[a]}
          /\ \A b \in Attempts \ {a} : thread'[b] = thread[b]
      BY <2>1 DEF InsertResource, Answers, TypeOK
    <3>2. call[a] = "sent" /\ thread[a] = "none"
      BY <2>1 DEF InsertResource, Answers, Ordered, TypeOK
    <3>3. CASE c = a
      BY <3>1, <3>2, <3>3
    <3>4. CASE c # a
      BY <3>1, <3>2, <3>4 DEF PendingUntilDone
    <3> QED
      BY <3>3, <3>4
  <2>2. CASE ~ InsertResource(a)
    BY <1>2, <1>5, <2>2 DEF ClientStep, Forbid, AlreadyPublished, Unreadable, Answers
  <2> QED
    BY <2>1, <2>2
<1>6. ASSUME NEW a \in Attempts, ThreadStep(a) PROVE Goal
  <2>1. CASE RemoveFile(a)
    <3>1. /\ file' = file /\ pending' = pending \ {file[a]} /\ thread'[a] = "done"
          /\ \A b \in Attempts \ {a} : thread'[b] = thread[b]
          /\ thread[a] \in {"mapped", "failed"}
      BY <2>1 DEF RemoveFile, Ends, TypeOK
    <3>2. c # a
      BY <3>1
    <3>3. CASE file[c] = file[a]
      BY <3>1, <3>2, <3>3
    <3>4. CASE file[c] # file[a]
      BY <3>1, <3>2, <3>4 DEF PendingUntilDone
    <3> QED
      BY <3>3, <3>4
  <2>2. CASE ~ RemoveFile(a)
    <3>1. /\ file' = file /\ pending' = pending /\ thread[a] \notin {"none", "done", "stopped"}
          /\ \A b \in Attempts \ {a} : thread'[b] = thread[b]
      BY <1>6, <2>2 DEF ThreadStep, Hash, Hashed, SignedRequest, SignedRequestForbidden,
                        SignedRequestFails, MapFile, TypeOK
    <3> QED
      BY <3>1 DEF PendingUntilDone
  <2> QED
    BY <2>1, <2>2
<1>7. CASE UNCHANGED vars
  BY <1>2, <1>7 DEF vars
<1>8. ASSUME RefresherStep \/ Restart PROVE Goal
  BY <1>2, <1>8, RefresherKeeps DEF Restart
<1> QED
  BY <1>1, <1>3, <1>4, <1>5, <1>6, <1>7, <1>8 DEF Next

\* The invariant of the mapper and the tracker, with the order it rests on.
TrackInv ==
  /\ TypeOK /\ OnlyPublishedStays /\ PendingUntilDone
  /\ \A a \in Attempts : Ordered(a) /\ MappedAfter(a)

LEMMA TrackInit == Init => TrackInv
<1> SUFFICES ASSUME Init PROVE TrackInv
  OBVIOUS
<1>1. TypeOK /\ \A a \in Attempts : Ordered(a)
  BY TypeInit, OrderedInit
<1>2. \A a \in Attempts : MappedAfter(a) /\ thread[a] = "none"
  BY DEF Init, MappedAfter
<1> QED
  BY <1>1, <1>2 DEF TrackInv, OnlyPublishedStays, PendingUntilDone, Init

LEMMA TrackStep == TrackInv /\ [Next]_vars => TrackInv'
<1> SUFFICES ASSUME TrackInv, [Next]_vars PROVE TrackInv'
  OBVIOUS
<1>1. TypeOK' /\ OnlyPublishedStays' /\ PendingUntilDone'
  BY TypeStep, StaysStep, PendingStep DEF TrackInv
<1>2. ASSUME NEW c \in Attempts PROVE Ordered(c)' /\ MappedAfter(c)'
  BY OrderedStep, MappedStep DEF TrackInv
<1> QED
  BY <1>1, <1>2 DEF TrackInv

\* The mapper (MapFile, MapShared, PublishRawFails, Restart) keeps no file the
\* server has not published once its refresh is over, but where the client's
\* process ended in the midst of it.
THEOREM OnlyPublishedStaysHolds == Spec => []OnlyPublishedStays
<1>1. TrackInv => OnlyPublishedStays
  BY DEF TrackInv
<1> QED
  BY <1>1, TrackInit, TrackStep, PTL DEF Spec

\* The tracker (InsertResource, RemoveFile) lists the file of every thread that
\* is not over, unless another attempt at it has ended.
THEOREM PendingUntilDoneHolds == Spec => []PendingUntilDone
<1>1. TrackInv => PendingUntilDone
  BY DEF TrackInv
<1> QED
  BY <1>1, TrackInit, TrackStep, PTL DEF Spec
=============================================================================
