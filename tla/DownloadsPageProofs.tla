------------------------- MODULE DownloadsPageProofs -------------------------
(***************************************************************************)
(* What the downloads page keeps to, for any number of downloads, clicks,  *)
(* failures and changes.                                                   *)
(***************************************************************************)
EXTENDS DownloadsPage, FiniteSetTheorems, TLAPS

\* The loop, with the request in flight named: it follows OneLoop.
Loop ==
  \/ ~ loading /\ timers = 0 /\ DOMAIN pool = {}
  \/ loading /\ timers = 1 /\ DOMAIN pool = {}
  \/ loading /\ timers = 0 /\ \E id : DOMAIN pool = {id}

----------------------------------------------------------------------------
(* Lists and requests                                                      *)

LEMMA ListChar ==
  ASSUME NEW f
  PROVE  f \in Lists <=> /\ f = [d \in DOMAIN f |-> f[d]]
                         /\ DOMAIN f \subseteq Downloads
                         /\ \A d \in DOMAIN f : f[d] \in Statuses
<1>1. ASSUME f \in Lists
      PROVE  /\ f = [d \in DOMAIN f |-> f[d]] /\ DOMAIN f \subseteq Downloads
             /\ \A d \in DOMAIN f : f[d] \in Statuses
  BY <1>1 DEF Lists
<1>2. ASSUME f = [d \in DOMAIN f |-> f[d]], DOMAIN f \subseteq Downloads,
             \A d \in DOMAIN f : f[d] \in Statuses
      PROVE  f \in Lists
  <2>1. f \in [DOMAIN f -> Statuses]
    BY <1>2
  <2>2. DOMAIN f \in SUBSET Downloads
    BY <1>2
  <2> QED
    BY <2>1, <2>2 DEF Lists
<1> QED
  BY <1>1, <1>2

LEMMA PoolTypes ==
  ASSUME NEW p, \A id \in DOMAIN p : p[id] \in Requests({"downloads"}, Lists), NEW i
  PROVE  /\ DOMAIN Get(p, i, "downloads") = DOMAIN p \cup {i}
         /\ \A id \in DOMAIN Get(p, i, "downloads") :
              Get(p, i, "downloads")[id] \in Requests({"downloads"}, Lists)
         /\ DOMAIN RemoveScript(p, i) = DOMAIN p \ {i}
         /\ \A id \in DOMAIN RemoveScript(p, i) :
              RemoveScript(p, i)[id] \in Requests({"downloads"}, Lists)
         /\ i \in DOMAIN p => \A json \in Lists :
              /\ DOMAIN JsonpCallback(p, i, json) = DOMAIN p
              /\ \A id \in DOMAIN p :
                   JsonpCallback(p, i, json)[id] \in Requests({"downloads"}, Lists)
  BY DEF Requests, Get, RemoveScript, JsonpCallback

\* What a finished request brings is a list.
LEMMA Answered ==
  ASSUME TypeOK, NEW id \in IoCheck(pool)
  PROVE  id \in DOMAIN pool /\ Head(pool[id].json) \in Lists
  BY DEF TypeOK, IoCheck, Unanswered, Requests

----------------------------------------------------------------------------
(* Types                                                                   *)

LEMMA UpdateTypes ==
  ASSUME TypeOK, NEW json \in Lists, UpdateDownloads(json)
  PROVE  /\ old' = <<json>> /\ map' \in Lists
         /\ DOMAIN rows' \subseteq Downloads /\ \A d \in DOMAIN rows' : rows'[d] \in Rows
<1>1. /\ DOMAIN json \subseteq Downloads /\ \A d \in DOMAIN json : json[d] \in Statuses
      /\ DOMAIN map \subseteq Downloads /\ \A d \in DOMAIN map : map[d] \in Statuses
  BY ListChar DEF TypeOK
<1>2. Mapped(json) \in Lists
  BY <1>1, ListChar DEF Mapped
<1>3. ASSUME NEW r \in Rows, NEW s \in Statuses PROVE Updated(r, s) \in Rows
  BY <1>3 DEF Rows, Updated, Statuses
<1>4. NewRow \in Rows
  BY DEF NewRow, Rows, Statuses
<1>5. /\ DOMAIN Rendered(json) \subseteq Downloads
      /\ \A d \in DOMAIN Rendered(json) : Rendered(json)[d] \in Rows
  BY <1>1, <1>4 DEF Rendered, TypeOK
<1>6. CASE DOMAIN json = {}
  <2>1. DOMAIN rows' = {}
    BY <1>6 DEF UpdateDownloads
  <2> QED
    BY <1>6, <2>1 DEF UpdateDownloads, TypeOK
<1>7. CASE DOMAIN json # {}
  <2>1. /\ map' = Mapped(json) /\ old' = <<json>>
        /\ rows' = [d \in DOMAIN Rendered(json) |->
                      IF d \in DOMAIN json THEN Updated(Rendered(json)[d], json[d])
                      ELSE Rendered(json)[d]]
    BY <1>7 DEF UpdateDownloads
  <2> QED
    BY <1>1, <1>2, <1>3, <1>5, <2>1
<1> QED
  BY <1>6, <1>7

LEMMA TypeStep == TypeOK /\ [Next]_vars => TypeOK'
<1> SUFFICES ASSUME TypeOK, [Next]_vars PROVE TypeOK'
  OBVIOUS
<1> USE DownloadsAssumption
<1>1. CASE LoadAllDownloads
  <2>1. \A i \in DOMAIN pool' : pool'[i] \in Requests({"downloads"}, Lists)
    BY <1>1, PoolTypes DEF LoadAllDownloads, RefreshJson, TypeOK
  <2>2. loading' \in BOOLEAN /\ clicks' \in Nat
    BY <1>1 DEF LoadAllDownloads, TypeOK
  <2> QED
    BY <1>1, <2>1, <2>2 DEF LoadAllDownloads, TypeOK, server, list
<1>2. CASE TimerFires
  <2>1. \A i \in DOMAIN pool' : pool'[i] \in Requests({"downloads"}, Lists)
    BY <1>2, PoolTypes DEF TimerFires, RefreshJson, TypeOK
  <2>2. timers' \in Nat
    BY <1>2 DEF TimerFires, TypeOK
  <2> QED
    BY <1>2, <2>1, <2>2 DEF TimerFires, TypeOK, server, list
<1>3. CASE ClientAnswers
  BY <1>3, PoolTypes DEF ClientAnswers, Unanswered, TypeOK, server, list
<1>4. CASE Success
  <2>1. PICK id \in IoCheck(pool) :
          /\ UpdateDownloads(Head(pool[id].json))
          /\ pressed' = pressed \ DOMAIN Head(pool[id].json)
          /\ blanked' = (blanked /\ DOMAIN Head(pool[id].json) # {}
                           /\ ~ NewDownloadData(Head(pool[id].json)))
          /\ pool' = RemoveScript(pool, id)
    BY <1>4 DEF Success
  <2> DEFINE json == Head(pool[id].json)
  <2>2. json \in Lists
    BY Answered
  <2>3. /\ old' = <<json>> /\ map' \in Lists
        /\ DOMAIN rows' \subseteq Downloads /\ \A d \in DOMAIN rows' : rows'[d] \in Rows
    BY <2>1, <2>2, UpdateTypes
  <2>4. old' = <<Head(old')>> /\ Head(old') \in Lists
    BY <2>2, <2>3
  <2>5. \A i \in DOMAIN pool' : pool'[i] \in Requests({"downloads"}, Lists)
    BY <2>1, PoolTypes DEF TypeOK
  <2>6. timers' \in Nat /\ failures' \in Nat /\ failed' \in Nat /\ hiding' \in Nat /\ clicks' \in Nat
    BY <1>4 DEF Success, QueueRequest, TypeOK
  <2>7. client' \in Lists /\ changes' \in Nat /\ commands' \subseteq Commands
    BY <1>4 DEF Success, TypeOK, server
  <2>8. loading' \in BOOLEAN /\ blanked' \in BOOLEAN /\ pressed' \subseteq Downloads
    BY <1>4, <2>1, Zenon DEF Success, TypeOK
  <2> QED
    BY <2>3, <2>4, <2>5, <2>6, <2>7, <2>8 DEF TypeOK
<1>5. CASE Error
  <2>1. PICK id \in Unanswered(pool) : pool' = RemoveScript(pool, id)
    BY <1>5 DEF Error
  <2>2. \A i \in DOMAIN pool' : pool'[i] \in Requests({"downloads"}, Lists)
    BY <2>1, PoolTypes DEF TypeOK
  <2>3. /\ DOMAIN rows' \subseteq Downloads /\ \A d \in DOMAIN rows' : rows'[d] \in Rows
        /\ blanked' \in BOOLEAN
    <3>1. CASE rows' = <<>> /\ blanked' = TRUE
      <4>1. DOMAIN rows' = {}
        BY <3>1
      <4> QED
        BY <3>1, <4>1
    <3>2. CASE UNCHANGED <<rows, blanked>>
      BY <3>2 DEF TypeOK
    <3> QED
      BY <1>5, <3>1, <3>2 DEF Error
  <2> QED
    BY <1>5, <2>2, <2>3 DEF Error, QueueRequest, TypeOK, server
<1>6. ASSUME NEW d \in Downloads, PauseResume(d) PROVE TypeOK'
  <2>1. /\ DOMAIN rows' \subseteq Downloads
        /\ \A e \in DOMAIN rows' : rows'[e] \in Rows
    BY <1>6 DEF PauseResume, Press, TypeOK, Rows
  <2> QED
    BY <1>6, <2>1 DEF PauseResume, Press, TypeOK, Commands, server, refresh
<1>7. ASSUME NEW d \in Downloads, Stop(d) PROVE TypeOK'
  BY <1>7 DEF Stop, Press, TypeOK, Commands, server, refresh
<1>8. CASE Clear
  BY <1>8 DEF Clear, TypeOK, Commands, server, refresh
<1>9. CASE Hidden
  <2>1. DOMAIN rows' = {}
    BY <1>9 DEF Hidden
  <2> QED
    BY <1>9, <2>1 DEF Hidden, TypeOK, server, refresh
<1>10. CASE ClientObeys
  <2>1. PICK c \in commands : client' = After(c) /\ commands' = commands \ {c}
    BY <1>10 DEF ClientObeys
  <2>2. DOMAIN client \subseteq Downloads /\ \A d \in DOMAIN client : client[d] \in Statuses
    BY ListChar DEF TypeOK
  <2>3. After(c) \in Lists
    BY <2>2, ListChar DEF After, Statuses
  <2> QED
    BY <1>10, <2>1, <2>3 DEF ClientObeys, TypeOK, refresh, list
<1>11. CASE ClientChanges
  <2>1. DOMAIN client \subseteq Downloads /\ \A d \in DOMAIN client : client[d] \in Statuses
    BY ListChar DEF TypeOK
  <2>2. client' \in Lists
    <3>1. PICK d \in Downloads :
            \/ client' = [e \in DOMAIN client \cup {d} |->
                            IF e = d THEN "downloading" ELSE client[e]]
            \/ client' = [client EXCEPT ![d] = "ended"]
            \/ client' = [e \in DOMAIN client \ {d} |-> client[e]]
      BY <1>11 DEF ClientChanges
    <3> QED
      BY <2>1, <3>1, ListChar DEF Statuses
  <2> QED
    BY <1>11, <2>2 DEF ClientChanges, TypeOK, refresh, list
<1>12. CASE UNCHANGED vars
  BY <1>12 DEF vars, server, refresh, list, TypeOK
<1> QED
  BY <1>1, <1>2, <1>3, <1>4, <1>5, <1>6, <1>7, <1>8, <1>9, <1>10, <1>11, <1>12
  DEF Next, Page, User

\* The types.
THEOREM DownloadsTypeCorrect == Spec => []TypeOK
<1>1. Init => TypeOK
  <2> SUFFICES ASSUME Init PROVE TypeOK
    OBVIOUS
  <2>1. DOMAIN pool = {} /\ DOMAIN rows = {}
    BY DEF Init
  <2>2. <<>> \in Lists
    <3>1. <<>> = [d \in {} |-> "ended"]
      OBVIOUS
    <3> QED
      BY <3>1, ListChar
  <2> QED
    BY <2>1, <2>2 DEF Init, TypeOK
<1> QED
  BY <1>1, TypeStep, PTL DEF Spec

----------------------------------------------------------------------------
(* The loop                                                                *)

LEMMA LoopStep == TypeOK /\ Loop /\ [Next]_vars => Loop'
<1> SUFFICES ASSUME TypeOK, Loop, [Next]_vars PROVE Loop'
  OBVIOUS
<1>0. timers \in Nat
  BY DEF TypeOK
<1>1. ASSUME LoadAllDownloads \/ TimerFires PROVE Loop'
  <2>1. DOMAIN pool = {} /\ loading' /\ timers' = 0
    BY <1>0, <1>1 DEF LoadAllDownloads, TimerFires, Loop
  <2>2. PICK i : pool' = Get(pool, i, "downloads")
    BY <1>1 DEF LoadAllDownloads, TimerFires, RefreshJson
  <2>3. DOMAIN pool' = {i}
    BY <2>1, <2>2 DEF Get
  <2> QED
    BY <2>1, <2>3 DEF Loop
<1>2. CASE ClientAnswers
  BY <1>2 DEF ClientAnswers, JsonpCallback, Loop
<1>3. ASSUME Success \/ Error PROVE Loop'
  <2>1. PICK id \in DOMAIN pool : pool' = RemoveScript(pool, id)
    BY <1>3 DEF Success, Error, IoCheck, Unanswered
  <2>2. DOMAIN pool = {id} /\ loading /\ timers = 0
    BY DEF Loop
  <2>3. DOMAIN pool' = {}
    BY <2>1, <2>2 DEF RemoveScript
  <2>4. loading' /\ timers' = timers + 1
    BY <1>3, <2>2, Zenon DEF Success, Error, QueueRequest
  <2>5. timers' = 1
    BY <2>2, <2>4
  <2> QED
    BY <2>3, <2>4, <2>5 DEF Loop
<1>4. ASSUME NEW d \in Downloads, PauseResume(d) \/ Stop(d) PROVE Loop'
  BY <1>4 DEF PauseResume, Stop, Press, refresh, Loop
<1>5. CASE Clear \/ Hidden \/ ClientObeys \/ ClientChanges
  BY <1>5 DEF Clear, Hidden, ClientObeys, ClientChanges, refresh, Loop
<1>6. CASE UNCHANGED vars
  BY <1>6 DEF vars, refresh, Loop
<1> QED
  BY <1>1, <1>2, <1>3, <1>4, <1>5, <1>6 DEF Next, Page, User

\* One request or one timer, once the tab has been opened, for ever: whatever
\* fails, and however often the tab is opened.
THEOREM OneLoopHolds == Spec => []OneLoop
<1>1. Init => Loop
  <2> SUFFICES ASSUME Init PROVE Loop
    OBVIOUS
  <2>1. DOMAIN pool = {}
    BY DEF Init
  <2> QED
    BY <2>1 DEF Init, Loop
<1>2. Loop => OneLoop
  <2> SUFFICES ASSUME Loop PROVE OneLoop
    OBVIOUS
  <2>1. Cardinality({}) = 0
    BY FS_EmptySet
  <2>2. \A id : Cardinality({id}) = 1
    BY FS_Singleton
  <2>3. CASE ~ loading /\ timers = 0 /\ DOMAIN pool = {}
    BY <2>1, <2>3 DEF OneLoop
  <2>4. CASE loading /\ timers = 1 /\ DOMAIN pool = {}
    BY <2>1, <2>4 DEF OneLoop
  <2>5. CASE loading /\ timers = 0 /\ \E id : DOMAIN pool = {id}
    <3>1. Cardinality(DOMAIN pool) = 1
      BY <2>2, <2>5
    <3> QED
      BY <2>5, <3>1 DEF OneLoop
  <2> QED
    BY <2>3, <2>4, <2>5 DEF Loop
<1> QED
  BY <1>1, <1>2, LoopStep, DownloadsTypeCorrect, PTL DEF Spec

----------------------------------------------------------------------------
(* The rows                                                                *)

RowInv == RowsCounted /\ MapKnowsRows /\ IconHonest

\* An update keeps the three together.
LEMMA UpdateRows ==
  ASSUME TypeOK, RowInv, NEW json \in Lists, UpdateDownloads(json),
         pressed' = pressed \ DOMAIN json,
         blanked' = (blanked /\ DOMAIN json # {} /\ ~ NewDownloadData(json))
  PROVE  RowInv'
<1>1. CASE DOMAIN json = {}
  <2>1. rows' = <<>> /\ DOMAIN rows' = {} /\ old' = <<json>>
    BY <1>1 DEF UpdateDownloads
  <2>2. old'[1] = json
    BY <2>1
  <2> QED
    BY <1>1, <2>1, <2>2 DEF RowInv, RowsCounted, MapKnowsRows, IconHonest
<1>2. CASE DOMAIN json # {}
  <2> DEFINE drawn == Rendered(json)
  <2>1. /\ map' = Mapped(json) /\ old' = <<json>>
        /\ rows' = [d \in DOMAIN drawn |->
                      IF d \in DOMAIN json THEN Updated(drawn[d], json[d]) ELSE drawn[d]]
    BY <1>2 DEF UpdateDownloads
  <2>2. DOMAIN rows' = DOMAIN drawn
    BY <2>1
  <2>3. \A d \in DOMAIN drawn \ DOMAIN json : d \in DOMAIN rows /\ drawn[d] = rows[d]
    BY DEF Rendered
  <2>4. RowsCounted'
    <3>1. old'[1] = json
      BY <2>1
    <3>2. CASE NewDownloadData(json)
      BY <2>2, <3>1, <3>2 DEF RowsCounted, Rendered
    <3>3. CASE ~ NewDownloadData(json)
      <4>1. old # <<>> /\ Cardinality(DOMAIN old[1]) = Cardinality(DOMAIN json)
        BY <3>3 DEF NewDownloadData
      <4>2. DOMAIN rows' = DOMAIN rows
        BY <2>2, <3>3 DEF Rendered
      <4>3. ~ blanked' => ~ blanked
        BY <1>2, <3>3
      <4> QED
        BY <3>1, <4>1, <4>2, <4>3 DEF RowInv, RowsCounted
    <3> QED
      BY <3>2, <3>3
  <2>5. \A d \in DOMAIN json : d \in DOMAIN map' /\ map'[d] = json[d]
    BY <2>1 DEF Mapped
  <2>6. \A d \in DOMAIN map \ DOMAIN json : d \in DOMAIN map' /\ map'[d] = map[d]
    BY <2>1 DEF Mapped
  <2>7. \A d \in DOMAIN rows' \cap DOMAIN json : rows'[d] = Updated(drawn[d], json[d])
    BY <2>1
  <2>8. \A d \in DOMAIN rows' \ DOMAIN json : d \in DOMAIN rows /\ rows'[d] = rows[d]
    BY <2>1, <2>3
  <2>9. MapKnowsRows'
    <3> SUFFICES ASSUME NEW d \in DOMAIN rows'
                 PROVE  d \in DOMAIN map' /\ map'[d] = rows'[d].status
      BY DEF MapKnowsRows
    <3>1. CASE d \in DOMAIN json
      BY <2>5, <2>7, <3>1 DEF Updated
    <3>2. CASE d \notin DOMAIN json
      BY <2>6, <2>8, <3>2 DEF RowInv, MapKnowsRows
    <3> QED
      BY <3>1, <3>2
  <2>10. IconHonest'
    <3> SUFFICES ASSUME NEW d \in DOMAIN rows' \ pressed', rows'[d].status # "ended"
                 PROVE  (rows'[d].icon = "play") = (map'[d] = "paused")
      BY DEF IconHonest
    <3>1. CASE d \in DOMAIN json
      <4>1. json[d] \in Statuses
        BY <3>1, ListChar
      <4>2. rows'[d] = Updated(drawn[d], json[d]) /\ map'[d] = json[d]
        BY <2>5, <2>7, <3>1
      <4>3. json[d] = "paused" \/ json[d] = "downloading"
        BY <4>1, <4>2 DEF Updated, Statuses
      <4> QED
        BY <4>2, <4>3 DEF Updated
    <3>2. CASE d \notin DOMAIN json
      <4>1. d \in DOMAIN rows \ pressed /\ rows'[d] = rows[d]
        BY <2>8, <3>2
      <4>2. map'[d] = map[d]
        BY <2>6, <3>2, <4>1 DEF RowInv, MapKnowsRows
      <4> QED
        BY <4>1, <4>2 DEF RowInv, IconHonest
    <3> QED
      BY <3>1, <3>2
  <2> QED
    BY <2>4, <2>9, <2>10 DEF RowInv
<1> QED
  BY <1>1, <1>2

LEMMA RowStep == TypeOK /\ RowInv /\ [Next]_vars => RowInv'
<1> SUFFICES ASSUME TypeOK, RowInv, [Next]_vars PROVE RowInv'
  OBVIOUS
<1> USE DEF RowInv
<1>1. ASSUME UNCHANGED <<list, pressed, blanked>> PROVE RowInv'
  BY <1>1 DEF list, RowsCounted, MapKnowsRows, IconHonest
<1>2. CASE \/ LoadAllDownloads \/ TimerFires \/ ClientAnswers \/ ClientObeys \/ ClientChanges
           \/ UNCHANGED vars
  BY <1>1, <1>2 DEF LoadAllDownloads, TimerFires, ClientAnswers, ClientObeys,
                    ClientChanges, vars
<1>3. CASE Success
  <2>1. PICK id \in IoCheck(pool) :
          /\ UpdateDownloads(Head(pool[id].json))
          /\ pressed' = pressed \ DOMAIN Head(pool[id].json)
          /\ blanked' = (blanked /\ DOMAIN Head(pool[id].json) # {}
                           /\ ~ NewDownloadData(Head(pool[id].json)))
    BY <1>3 DEF Success
  <2> QED
    BY <2>1, Answered, UpdateRows
<1>4. CASE Error
  <2>1. CASE rows' = <<>> /\ blanked' = TRUE
    <3>1. DOMAIN rows' = {}
      BY <2>1
    <3> QED
      BY <1>4, <2>1, <3>1 DEF Error, RowsCounted, MapKnowsRows, IconHonest
  <2>2. CASE UNCHANGED <<rows, blanked>>
    BY <1>1, <1>4, <2>2 DEF Error, list
  <2> QED
    BY <1>4, <2>1, <2>2 DEF Error
<1>5. ASSUME NEW d \in Downloads, PauseResume(d) PROVE RowInv'
  <2>1. /\ DOMAIN rows' = DOMAIN rows
        /\ \A e \in DOMAIN rows : rows'[e].status = rows[e].status
        /\ \A e \in DOMAIN rows \ {d} : rows'[e] = rows[e]
        /\ pressed' = pressed \cup {d} /\ UNCHANGED <<old, map, blanked>>
    BY <1>5 DEF PauseResume, Press, TypeOK, Rows
  <2> QED
    BY <2>1 DEF RowsCounted, MapKnowsRows, IconHonest
<1>6. ASSUME NEW d \in Downloads, Stop(d) PROVE RowInv'
  BY <1>1, <1>6 DEF Stop, Press, list
<1>7. CASE Clear
  BY <1>7 DEF Clear, RowsCounted, MapKnowsRows, IconHonest
<1>8. CASE Hidden
  <2>1. DOMAIN rows' = {} /\ old' = <<>>
    BY <1>8 DEF Hidden
  <2> QED
    BY <2>1 DEF RowsCounted, MapKnowsRows, IconHonest
<1> QED
  BY <1>2, <1>3, <1>4, <1>5, <1>6, <1>7, <1>8 DEF Next, Page, User

LEMMA RowInvariant == Spec => []RowInv
<1>1. Init => RowInv
  <2> SUFFICES ASSUME Init PROVE RowInv
    OBVIOUS
  <2>1. DOMAIN rows = {}
    BY DEF Init
  <2> QED
    BY <2>1 DEF Init, RowInv, RowsCounted, MapKnowsRows, IconHonest
<1> QED
  BY <1>1, RowStep, DownloadsTypeCorrect, PTL DEF Spec

\* As many rows as the last answer had, although only numbers are compared and
\* an animation may empty the list after the next answer.
THEOREM RowsCountedHolds == Spec => []RowsCounted
<1>1. RowInv => RowsCounted
  BY DEF RowInv
<1> QED
  BY <1>1, RowInvariant, PTL

\* Buttons find their download, with the status that the row shows.
THEOREM MapKnowsRowsHolds == Spec => []MapKnowsRows
<1>1. RowInv => MapKnowsRows
  BY DEF RowInv
<1> QED
  BY <1>1, RowInvariant, PTL

\* Icons agree with the map on rows that were not pressed since.
THEOREM IconHonestHolds == Spec => []IconHonest
<1>1. RowInv => IconHonest
  BY DEF RowInv
<1> QED
  BY <1>1, RowInvariant, PTL
=============================================================================
