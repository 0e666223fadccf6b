------------------------- MODULE SearchResultsProofs -------------------------
(***************************************************************************)
(* What the search page keeps to, for any number of searches, pages,       *)
(* clicks and failures.                                                    *)
(***************************************************************************)
EXTENDS SearchResults, SequenceTheorems, TLAPS

PollRequests(ids) == Requests([inst : ids, page : Pages], Answers)

----------------------------------------------------------------------------
(* Requests                                                                *)

LEMMA GetPolls ==
  ASSUME NEW ids, NEW id, NEW tag \in [inst : ids, page : Pages], NEW p,
         \A x \in DOMAIN p : p[x] \in PollRequests(ids)
  PROVE  /\ DOMAIN Get(p, id, tag) = DOMAIN p \cup {id}
         /\ Get(p, id, tag)[id] = [tag |-> tag, json |-> <<>>]
         /\ \A x \in DOMAIN p \ {id} : Get(p, id, tag)[x] = p[x]
         /\ \A x \in DOMAIN Get(p, id, tag) : Get(p, id, tag)[x] \in PollRequests(ids)
  BY DEF Get, PollRequests, Requests

LEMMA AnswerPolls ==
  ASSUME NEW ids, NEW p, \A x \in DOMAIN p : p[x] \in PollRequests(ids),
         NEW id \in DOMAIN p, NEW json \in Answers
  PROVE  /\ DOMAIN JsonpCallback(p, id, json) = DOMAIN p
         /\ \A x \in DOMAIN p : JsonpCallback(p, id, json)[x].tag = p[x].tag
         /\ JsonpCallback(p, id, json)[id].json = <<json>>
         /\ \A x \in DOMAIN p \ {id} : JsonpCallback(p, id, json)[x] = p[x]
         /\ \A x \in DOMAIN p : JsonpCallback(p, id, json)[x] \in PollRequests(ids)
  BY DEF JsonpCallback, PollRequests, Requests

LEMMA RemovePolls ==
  ASSUME NEW p, NEW id
  PROVE  /\ DOMAIN RemoveScript(p, id) = DOMAIN p \ {id}
         /\ \A x \in DOMAIN p \ {id} : RemoveScript(p, id)[x] = p[x]
  BY DEF RemoveScript

\* More instances, more requests.
LEMMA MorePolls ==
  ASSUME NEW ids, NEW more, ids \subseteq more
  PROVE  PollRequests(ids) \subseteq PollRequests(more)
  BY DEF PollRequests, Requests

----------------------------------------------------------------------------
(* Instances                                                               *)

LEMMA InstanceAt ==
  ASSUME NEW all \in Seq(Instances), NEW i \in 1 .. Len(all)
  PROVE  /\ all[i] \in Instances
         /\ all[i].stopped \in BOOLEAN /\ all[i].wasComplete \in BOOLEAN
         /\ all[i].guid \in Searches /\ all[i].page \in Pages
<1>1. all[i] \in Instances
  BY ElementOfSeq
<1> QED
  BY <1>1 DEF Instances

LEMMA StopProps ==
  ASSUME TypeOK
  PROVE  /\ Stop(insts, cur) \in Seq(Instances)
         /\ Len(Stop(insts, cur)) = Len(insts)
         /\ \A j \in 1 .. Len(insts) :
              /\ Stop(insts, cur)[j].stopped = (insts[j].stopped \/ j = cur)
              /\ j # cur => Stop(insts, cur)[j] = insts[j]
<1>1. insts \in Seq(Instances) /\ DOMAIN insts = 1 .. Len(insts) /\ Len(insts) \in Nat
  BY DEF TypeOK
<1>2. CASE cur = 0
  <2>1. \A j \in 1 .. Len(insts) : j # cur /\ insts[j].stopped \in BOOLEAN
    BY <1>1, <1>2, InstanceAt
  <2>2. Stop(insts, cur) = insts
    BY <1>2 DEF Stop
  <2> QED
    BY <1>1, <2>1, <2>2
<1>3. CASE cur # 0
  <2>1. cur \in 1 .. Len(insts)
    BY <1>1, <1>3 DEF TypeOK, InstanceIds
  <2>2. insts[cur] \in Instances
    BY <1>1, <2>1, ElementOfSeq
  <2> DEFINE e == [insts[cur] EXCEPT !.stopped = TRUE]
  <2>3. e \in Instances /\ e.stopped
    BY <2>2 DEF Instances
  <2>4. Stop(insts, cur) = [insts EXCEPT ![cur] = e]
    BY <1>3 DEF Stop
  <2>5. /\ [insts EXCEPT ![cur] = e] \in Seq(Instances)
        /\ Len([insts EXCEPT ![cur] = e]) = Len(insts)
        /\ \A j \in 1 .. Len(insts) : [insts EXCEPT ![cur] = e][j] = IF j = cur THEN e ELSE insts[j]
    BY <1>1, <2>1, <2>3, ExceptSeq
  <2>6. \A j \in 1 .. Len(insts) : insts[j].stopped \in BOOLEAN
    BY <1>1, InstanceAt
  <2> HIDE DEF e
  <2> QED
    BY <2>3, <2>4, <2>5, <2>6
<1> QED
  BY <1>2, <1>3

\* What a load leaves: a stopped instance nothing, another one its request.
LoadLeaves(all, i, p) ==
  /\ insts' \in Seq(Instances) /\ Len(insts') = Len(all)
  /\ \A j \in 1 .. Len(all) : /\ insts'[j].stopped = all[j].stopped
                              /\ j # i => insts'[j] = all[j]
  /\ all[i].stopped => insts' = all /\ polls' = polls
  /\ ~ all[i].stopped =>
       /\ insts'[i] = [all[i] EXCEPT !.timer = FALSE, !.page = p]
       /\ FreshId(polls) \in DOMAIN polls'
       /\ polls'[FreshId(polls)] = [tag |-> [inst |-> i, page |-> p], json |-> <<>>]
       /\ \A x \in DOMAIN polls' :
            x # FreshId(polls) => x \in DOMAIN polls /\ polls'[x] = polls[x]
  /\ \A x \in DOMAIN polls' : polls'[x] \in PollRequests(1 .. Len(all))

LEMMA LoadProps ==
  ASSUME NEW all \in Seq(Instances), NEW i \in 1 .. Len(all), NEW p \in Pages,
         Load(all, i, p), \A x \in DOMAIN polls : polls[x] \in PollRequests(1 .. Len(all))
  PROVE  LoadLeaves(all, i, p)
<1>1. CASE all[i].stopped
  <2>1. insts' = all /\ polls' = polls
    BY <1>1 DEF Load
  <2>2. \A j \in 1 .. Len(all) : all[j].stopped \in BOOLEAN
    BY InstanceAt
  <2> QED
    BY <1>1, <2>1, <2>2 DEF LoadLeaves
<1>2. CASE ~ all[i].stopped
  <2> DEFINE e == [all[i] EXCEPT !.timer = FALSE, !.page = p]
             tag == [inst |-> i, page |-> p]
             ids == 1 .. Len(all)
             id  == FreshId(polls)
             got == Get(polls, id, tag)
  <2>1. e \in Instances /\ e.stopped = all[i].stopped
    <3>1. all[i] \in Instances
      BY InstanceAt
    <3> QED
      BY <3>1 DEF Instances
  <2>2. insts' = [all EXCEPT ![i] = e] /\ polls' = got
    BY <1>2 DEF Load
  <2>3. /\ [all EXCEPT ![i] = e] \in Seq(Instances)
        /\ Len([all EXCEPT ![i] = e]) = Len(all)
        /\ \A j \in 1 .. Len(all) : [all EXCEPT ![i] = e][j] = IF j = i THEN e ELSE all[j]
    BY <2>1, ExceptSeq
  <2>4. /\ tag \in [inst : ids, page : Pages]
        /\ \A x \in DOMAIN polls : polls[x] \in PollRequests(ids)
    OBVIOUS
  <2> HIDE DEF tag, e, ids, id
  <2>5. /\ DOMAIN got = DOMAIN polls \cup {id}
        /\ got[id] = [tag |-> tag, json |-> <<>>]
        /\ \A x \in DOMAIN polls \ {id} : got[x] = polls[x]
        /\ \A x \in DOMAIN got : got[x] \in PollRequests(ids)
    BY <2>4, GetPolls
  <2>6. insts'[i] = e
    BY <2>2, <2>3
  <2>7. insts' \in Seq(Instances) /\ Len(insts') = Len(all)
        /\ \A j \in 1 .. Len(all) : /\ insts'[j].stopped = all[j].stopped
                                    /\ j # i => insts'[j] = all[j]
    BY <2>1, <2>2, <2>3
  <2> HIDE DEF got
  <2>8. /\ id \in DOMAIN polls' /\ polls'[id] = [tag |-> tag, json |-> <<>>]
        /\ \A x \in DOMAIN polls' : x # id => x \in DOMAIN polls /\ polls'[x] = polls[x]
        /\ \A x \in DOMAIN polls' : polls'[x] \in PollRequests(ids)
    BY <2>2, <2>5
  <2> QED
    BY <1>2, <2>2, <2>6, <2>7, <2>8 DEF tag, e, ids, id, got, LoadLeaves
<1> QED
  BY <1>1, <1>2

\* A new instance is loaded at once, and is the only one that is not stopped
\* if the others are.
LEMMA OpenProps ==
  ASSUME NEW all \in Seq(Instances), NEW g \in Searches, NEW force \in BOOLEAN,
         Open(all, g, force), \A x \in DOMAIN polls : polls[x] \in PollRequests(1 .. Len(all))
  PROVE  /\ cur' = Len(all) + 1 /\ guid' = g /\ shown' = Cleared
         /\ insts' \in Seq(Instances) /\ Len(insts') = Len(all) + 1
         /\ \A j \in 1 .. Len(all) : insts'[j] = all[j]
         /\ ~ insts'[cur'].stopped /\ ~ insts'[cur'].wasComplete /\ insts'[cur'].page = 0
         /\ FreshId(polls) \in DOMAIN polls'
         /\ polls'[FreshId(polls)] = [tag |-> [inst |-> cur', page |-> 0], json |-> <<>>]
         /\ \A x \in DOMAIN polls' :
              x # FreshId(polls) => x \in DOMAIN polls /\ polls'[x] = polls[x]
         /\ \A x \in DOMAIN polls' : polls'[x] \in PollRequests(1 .. Len(insts'))
<1> DEFINE more == Append(all, NewInstance(g, force))
           i    == Len(all) + 1
<1>1. NewInstance(g, force) \in Instances
  BY SearchAssumption DEF NewInstance, Instances
<1>2. /\ more \in Seq(Instances) /\ Len(more) = i
      /\ \A j \in 1 .. Len(all) : more[j] = all[j]
      /\ more[i] = NewInstance(g, force)
  BY <1>1, AppendProperties
<1>3. i \in 1 .. Len(more) /\ ~ more[i].stopped /\ ~ more[i].wasComplete
  BY <1>2 DEF NewInstance
<1>4. \A x \in DOMAIN polls : polls[x] \in PollRequests(1 .. Len(more))
  <2>1. 1 .. Len(all) \subseteq 1 .. Len(more)
    BY <1>2
  <2> QED
    BY <2>1, MorePolls
<1>5. Load(more, i, 0) /\ cur' = i /\ guid' = g /\ shown' = Cleared
  BY DEF Open
<1>6. 0 \in Pages
  BY SearchAssumption
<1>a. more \in Seq(Instances)
  BY <1>2
<1>b. i \in 1 .. Len(more)
  BY <1>3
<1>c. Load(more, i, 0) /\ ~ more[i].stopped
  BY <1>3, <1>5
<1> HIDE DEF more, i
<1>7. LoadLeaves(more, i, 0)
  BY <1>a, <1>b, <1>c, <1>4, <1>6, LoadProps
<1>8. ~ insts'[i].stopped /\ ~ insts'[i].wasComplete /\ insts'[i].page = 0
  <2>1. more[i] \in Instances
    BY <1>2, <1>3, ElementOfSeq
  <2> QED
    BY <1>c, <1>3, <1>7, <2>1 DEF Instances, LoadLeaves
<1> QED
  BY <1>c, <1>2, <1>3, <1>5, <1>7, <1>8 DEF i, LoadLeaves

----------------------------------------------------------------------------
(* The invariant                                                           *)

IInv == TypeOK /\ OneAlive /\ ShownIsCurrent /\ KeepsPolling

\* A stopped instance asks for nothing in this step.
NoMore ==
  \A i \in InstanceIds : insts[i].stopped => InFlight(i)' \subseteq InFlight(i)

LEMMA TypeFacts ==
  ASSUME TypeOK
  PROVE  /\ insts \in Seq(Instances) /\ Len(insts) \in Nat
         /\ InstanceIds = 1 .. Len(insts)
         /\ \A x \in DOMAIN polls : polls[x] \in PollRequests(1 .. Len(insts))
         /\ \A x \in DOMAIN polls : /\ polls[x].tag.inst \in 1 .. Len(insts)
                                    /\ polls[x].tag.page \in Pages
<1>1. insts \in Seq(Instances) /\ Len(insts) \in Nat /\ InstanceIds = 1 .. Len(insts)
  BY DEF TypeOK, InstanceIds
<1> DEFINE ids == 1 .. Len(insts)
<1>2. \A x \in DOMAIN polls : polls[x] \in PollRequests(ids)
  BY <1>1 DEF TypeOK, PollRequests
<1> HIDE DEF ids
<1>3. \A x \in DOMAIN polls : polls[x].tag.inst \in ids /\ polls[x].tag.page \in Pages
  BY <1>2 DEF PollRequests, Requests
<1> QED
  BY <1>1, <1>2, <1>3 DEF ids

LEMMA InFlightIs ==
  ASSUME NEW i
  PROVE  /\ \A x : x \in InFlight(i) <=> x \in DOMAIN polls /\ polls[x].tag.inst = i
         /\ \A x : x \in InFlight(i)' <=> x \in DOMAIN polls' /\ polls'[x].tag.inst = i
  BY DEF InFlight

\* What is left of the pool is what was in it: nobody has asked for more.
LEMMA FewerPolls ==
  ASSUME \A x \in DOMAIN polls' : x \in DOMAIN polls /\ polls'[x].tag = polls[x].tag
  PROVE  NoMore
  BY DEF NoMore, InFlight

\* A load of an instance that is there, from all its neighbours as they are.
LEMMA LoadStep ==
  ASSUME IInv, NEW all \in Seq(Instances), Len(all) = Len(insts),
         NEW i \in 1 .. Len(all), NEW p \in Pages,
         \A j \in 1 .. Len(all) : /\ all[j].stopped = insts[j].stopped
                                  /\ j # i => all[j] = insts[j],
         Load(all, i, p), cur' = cur, lost' = lost
  PROVE  /\ insts' \in Seq(Instances) /\ InstanceIds' = InstanceIds
         /\ \A x \in DOMAIN polls' :
              polls'[x] \in Requests([inst : InstanceIds', page : Pages], Answers)
         /\ OneAlive' /\ KeepsPolling' /\ NoMore
<1>1. /\ insts \in Seq(Instances) /\ Len(insts) \in Nat /\ InstanceIds = 1 .. Len(insts)
      /\ \A x \in DOMAIN polls : polls[x] \in PollRequests(1 .. Len(all))
      /\ cur \in {0} \cup InstanceIds
  BY TypeFacts DEF IInv, TypeOK
<1>2. LoadLeaves(all, i, p)
  BY <1>1, LoadProps
<1>3. insts' \in Seq(Instances) /\ Len(insts') = Len(insts) /\ InstanceIds' = InstanceIds
  BY <1>1, <1>2 DEF LoadLeaves, InstanceIds
<1>4. \A x \in DOMAIN polls' :
        polls'[x] \in Requests([inst : InstanceIds', page : Pages], Answers)
  BY <1>1, <1>2, <1>3 DEF LoadLeaves, PollRequests
<1>5. \A j \in InstanceIds : insts'[j].stopped = insts[j].stopped
  BY <1>1, <1>2 DEF LoadLeaves
<1>6. OneAlive'
  BY <1>3, <1>5 DEF OneAlive, IInv
<1>7. NoMore
  <2>1. CASE all[i].stopped
    BY <1>2, <2>1, FewerPolls DEF LoadLeaves
  <2>2. CASE ~ all[i].stopped
    <3>1. SUFFICES ASSUME NEW j \in InstanceIds, insts[j].stopped
                   PROVE  InFlight(j)' \subseteq InFlight(j)
      BY DEF NoMore
    <3>2. j # i
      BY <1>1, <2>2, <3>1
    <3>3. /\ polls'[FreshId(polls)].tag.inst = i
          /\ \A x \in DOMAIN polls' :
               x # FreshId(polls) => x \in DOMAIN polls /\ polls'[x] = polls[x]
      BY <1>2, <2>2 DEF LoadLeaves
    <3> QED
      BY <3>2, <3>3, InFlightIs
  <2> QED
    BY <2>1, <2>2
<1>8. KeepsPolling'
  <2>1. SUFFICES ASSUME cur # 0, ~ insts[cur].stopped, cur \notin lost
                 PROVE  \/ insts'[cur].timer \/ insts'[cur].older > 0
                        \/ InFlight(cur)' # {}
    BY <1>1, <1>5 DEF KeepsPolling, InFlight
  <2>2. CASE i = cur
    <3>1. ~ all[i].stopped
      BY <2>1, <2>2
    <3>2. FreshId(polls) \in DOMAIN polls' /\ polls'[FreshId(polls)].tag.inst = i
      BY <1>2, <3>1 DEF LoadLeaves
    <3> QED
      BY <2>2, <3>2, InFlightIs
  <2>3. CASE i # cur
    <3>1. all[i].stopped
      BY <1>1, <2>3 DEF OneAlive, IInv
    <3>2. insts'[cur] = insts[cur] /\ polls' = polls
      BY <1>1, <1>2, <2>1, <2>3, <3>1 DEF LoadLeaves
    <3>3. InFlight(cur)' = InFlight(cur)
      BY <3>2 DEF InFlight
    <3>4. insts[cur].timer \/ insts[cur].older > 0 \/ InFlight(cur) # {}
      BY <2>1 DEF KeepsPolling, IInv
    <3> QED
      BY <3>2, <3>3, <3>4
  <2> QED
    BY <2>2, <2>3
<1> QED
  BY <1>3, <1>4, <1>6, <1>7, <1>8

\* The current instance is stopped and a new one takes its place.
LEMMA OpenStep ==
  ASSUME IInv, NEW g \in Searches, NEW force \in BOOLEAN,
         Open(Stop(insts, cur), g, force), lost' = lost
  PROVE  /\ insts' \in Seq(Instances) /\ InstanceIds \subseteq InstanceIds'
         /\ cur' \in InstanceIds' /\ guid' = g /\ shown' = Cleared
         /\ \A x \in DOMAIN polls' :
              polls'[x] \in Requests([inst : InstanceIds', page : Pages], Answers)
         /\ OneAlive' /\ ShownIsCurrent' /\ KeepsPolling' /\ NoMore
<1> DEFINE all == Stop(insts, cur)
<1>1. /\ insts \in Seq(Instances) /\ Len(insts) \in Nat /\ InstanceIds = 1 .. Len(insts)
      /\ \A x \in DOMAIN polls : polls[x] \in PollRequests(1 .. Len(insts))
      /\ \A x \in DOMAIN polls : polls[x].tag.inst \in 1 .. Len(insts)
  BY TypeFacts DEF IInv
<1>2. /\ all \in Seq(Instances) /\ Len(all) = Len(insts)
      /\ \A j \in 1 .. Len(insts) : all[j].stopped = (insts[j].stopped \/ j = cur)
  BY StopProps DEF IInv
<1>3. \A j \in 1 .. Len(insts) : all[j].stopped
  BY <1>1, <1>2 DEF OneAlive, IInv
<1>4. Open(all, g, force) /\ \A x \in DOMAIN polls : polls[x] \in PollRequests(1 .. Len(all))
  BY <1>1, <1>2
<1> HIDE DEF all
<1>5. /\ cur' = Len(insts) + 1 /\ guid' = g /\ shown' = Cleared
      /\ insts' \in Seq(Instances) /\ Len(insts') = Len(insts) + 1
      /\ \A j \in 1 .. Len(insts) : insts'[j] = all[j]
      /\ FreshId(polls) \in DOMAIN polls'
      /\ polls'[FreshId(polls)] = [tag |-> [inst |-> cur', page |-> 0], json |-> <<>>]
      /\ \A x \in DOMAIN polls' :
           x # FreshId(polls) => x \in DOMAIN polls /\ polls'[x] = polls[x]
      /\ \A x \in DOMAIN polls' : polls'[x] \in PollRequests(1 .. Len(insts'))
  BY <1>2, <1>4, OpenProps
<1>6. InstanceIds' = 1 .. Len(insts) + 1 /\ InstanceIds' = 1 .. Len(insts')
  BY <1>1, <1>5 DEF InstanceIds
<1>7. InstanceIds \subseteq InstanceIds' /\ cur' \in InstanceIds'
  BY <1>1, <1>5, <1>6
<1>8. \A x \in DOMAIN polls' :
        polls'[x] \in Requests([inst : InstanceIds', page : Pages], Answers)
  BY <1>5, <1>6 DEF PollRequests
<1>9. OneAlive'
  <2>1. SUFFICES ASSUME NEW j \in InstanceIds' PROVE insts'[j].stopped \/ j = cur'
    BY DEF OneAlive
  <2>2. j \in 1 .. Len(insts) \/ j = cur'
    BY <1>1, <1>5, <1>6
  <2> QED
    BY <1>3, <1>5, <2>2
<1>10. ShownIsCurrent'
  BY <1>5 DEF ShownIsCurrent, Cleared
<1>11. polls'[FreshId(polls)].tag.inst = cur'
  BY <1>5
<1>12. KeepsPolling'
  <2>1. FreshId(polls) \in {id \in DOMAIN polls' : polls'[id].tag.inst = cur'}
    BY <1>5, <1>11
  <2> QED
    BY <2>1 DEF KeepsPolling, InFlight
<1>13. NoMore
  <2>1. SUFFICES ASSUME NEW j \in InstanceIds PROVE InFlight(j)' \subseteq InFlight(j)
    BY DEF NoMore
  <2>2. j # cur'
    BY <1>1, <1>5
  <2> QED
    BY <1>5, <1>11, <2>2, InFlightIs
<1> QED
  BY <1>5, <1>7, <1>8, <1>9, <1>10, <1>12, <1>13

----------------------------------------------------------------------------
(* An answer is processed                                                  *)

\* What the three ways to process an answer have in common: the instance stays
\* what it was but for its timers, and goes on polling unless it is lost.
LEMMA ProcessProps ==
  ASSUME TypeOK, NEW i \in InstanceIds, NEW a \in Answers,
         Drop(i, a) \/ Keep(i, a) \/ Draw(i, a)
  PROVE  /\ insts' \in Seq(Instances) /\ InstanceIds' = InstanceIds
         /\ \A j \in InstanceIds : insts'[j].stopped = insts[j].stopped
         /\ \A j \in InstanceIds : j # i => insts'[j] = insts[j]
         /\ lost' \subseteq InstanceIds /\ lost \subseteq lost'
         /\ insts[i].stopped \/ i \in lost' \/ insts'[i].timer
         /\ last' \in Answers \cup {NoAnswer}
         /\ \/ shown' = shown
            \/ shown' = [inst |-> i, answer |-> a] /\ ~ insts[i].stopped
         /\ buttons' \in [back : 0 .. MaxSearches, forward : 0 .. MaxSearches]
         /\ nav' \in {0} \cup InstanceIds
<1>1. /\ insts \in Seq(Instances) /\ Len(insts) \in Nat /\ InstanceIds = 1 .. Len(insts)
      /\ lost \subseteq InstanceIds /\ nav \in {0} \cup InstanceIds
      /\ last \in Answers \cup {NoAnswer}
      /\ buttons \in [back : 0 .. MaxSearches, forward : 0 .. MaxSearches]
  BY TypeFacts DEF TypeOK
<1>2. \A j \in InstanceIds : insts[j] \in Instances /\ insts[j].stopped \in BOOLEAN
  BY <1>1, InstanceAt
<1>3. CASE Drop(i, a)
  <2>1. InstanceIds' = InstanceIds
    BY <1>3 DEF Drop, InstanceIds
  <2>2. lost' \subseteq InstanceIds /\ lost \subseteq lost'
        /\ (insts[i].stopped \/ i \in lost')
    BY <1>1, <1>3 DEF Drop
  <2> QED
    BY <1>1, <1>3, <2>1, <2>2 DEF Drop
<1>4. CASE Keep(i, a) \/ Draw(i, a)
  <2> DEFINE n == [insts[i] EXCEPT !.wasComplete = a.complete]
             Continued(m) == /\ m \in Instances /\ m.stopped = insts[i].stopped
                             /\ insts' = [insts EXCEPT ![i] = m]
                             /\ insts[i].stopped \/ i \in lost' \/ m.timer
  <2>1. n \in Instances /\ n.stopped = insts[i].stopped
    BY <1>2 DEF Instances, Answers
  <2>2. ScheduleCall(n) \in Instances /\ ScheduleCall(n).stopped = n.stopped
        /\ (n.stopped \/ ScheduleCall(n).timer)
    <3>1. CASE n.stopped
      BY <2>1, <3>1 DEF ScheduleCall
    <3>2. CASE ~ n.stopped
      <4> HIDE DEF n
      <4>1. n.older \in Nat /\ n.older + 1 \in Nat
        BY <2>1 DEF Instances
      <4>2. ScheduleCall(n) =
              [n EXCEPT !.older = IF n.timer THEN n.older + 1 ELSE n.older, !.timer = TRUE]
        BY <2>1, <3>2 DEF ScheduleCall, Instances
      <4> QED
        BY <2>1, <3>2, <4>1, <4>2 DEF Instances
    <3> QED
      BY <3>1, <3>2
  <2> HIDE DEF n
  <2>3. \/ insts' = [insts EXCEPT ![i] = n] /\ lost' = lost \cup {i}
        \/ insts' = [insts EXCEPT ![i] = ScheduleCall(n)] /\ lost' = lost
    BY <1>4 DEF Keep, Draw, Continue, n
  <2>4. PICK m : Continued(m)
    <3>1. CASE insts' = [insts EXCEPT ![i] = n] /\ lost' = lost \cup {i}
      BY <2>1, <3>1
    <3>2. CASE insts' = [insts EXCEPT ![i] = ScheduleCall(n)] /\ lost' = lost
      BY <2>1, <2>2, <3>2
    <3> QED
      BY <2>3, <3>1, <3>2
  <2>5. /\ insts' \in Seq(Instances) /\ Len(insts') = Len(insts)
        /\ \A j \in 1 .. Len(insts) : insts'[j] = IF j = i THEN m ELSE insts[j]
    BY <1>1, <2>4, ExceptSeq
  <2>6. InstanceIds' = InstanceIds
    BY <1>1, <2>5 DEF InstanceIds
  <2>7. /\ \A j \in InstanceIds : insts'[j].stopped = insts[j].stopped
        /\ \A j \in InstanceIds : j # i => insts'[j] = insts[j]
        /\ insts[i].stopped \/ i \in lost' \/ insts'[i].timer
    BY <1>1, <2>4, <2>5
  <2>8. lost' \subseteq InstanceIds /\ lost \subseteq lost'
    BY <1>1, <2>3
  <2>9. buttons' \in [back : 0 .. MaxSearches, forward : 0 .. MaxSearches]
    <3>1. UpdateForwardBackButtons(a)
      BY <1>4 DEF Keep, Draw
    <3>2. /\ a.guid \in 1 .. MaxSearches /\ a.known \in 0 .. MaxSearches
          /\ MaxSearches \in Nat
      BY SearchAssumption DEF Answers, Searches
    <3> QED
      BY <3>1, <3>2 DEF UpdateForwardBackButtons
  <2>10. /\ last' \in Answers \cup {NoAnswer} /\ nav' \in {0} \cup InstanceIds
         /\ \/ shown' = shown
            \/ shown' = [inst |-> i, answer |-> a] /\ ~ insts[i].stopped
    BY <1>1, <1>2, <1>4 DEF Keep, Draw, Dropped
  <2> QED
    BY <2>5, <2>6, <2>7, <2>8, <2>9, <2>10
<1> QED
  BY <1>3, <1>4
----------------------------------------------------------------------------
(* One step                                                                *)

\* The requests to search, typed on their own.
AskedOK == \A id \in DOMAIN asked : asked[id] \in Requests({"search"}, 1 .. started)

\* The part of the state that a page without polls in it still has.
RestOK ==
  /\ started \in 0 .. MaxSearches /\ rank \in [Searches -> Ranks] /\ AskedOK
  /\ guid \in 0 .. MaxSearches /\ visited \subseteq Pages /\ events \in Nat
  /\ last \in Answers \cup {NoAnswer} /\ shown.answer \in Answers \cup {NoAnswer}
  /\ buttons \in [back : 0 .. MaxSearches, forward : 0 .. MaxSearches]

\* The instances and what refers to them.
InstsOK ==
  /\ \A id \in DOMAIN polls :
       polls[id] \in Requests([inst : InstanceIds, page : Pages], Answers)
  /\ insts \in Seq(Instances)
  /\ cur \in {0} \cup InstanceIds /\ nav \in {0} \cup InstanceIds
  /\ shown.inst \in {0} \cup InstanceIds
  /\ lost \subseteq InstanceIds /\ overlaps \subseteq InstanceIds

LEMMA TypeParts == /\ TypeOK <=> RestOK /\ InstsOK
                   /\ TypeOK' <=> RestOK' /\ InstsOK'
  BY DEF TypeOK, RestOK, InstsOK, AskedOK

\* Requests to search come and go.
LEMMA AskedStep ==
  ASSUME TypeOK
  PROVE  /\ \A id \in Unanswered(asked) :
              started < MaxSearches /\ started' = started + 1
              /\ asked' = JsonpCallback(asked, id, started + 1) => AskedOK'
         /\ \A id : started' = started /\ asked' = RemoveScript(asked, id) => AskedOK'
         /\ \A id : started' = started /\ asked' = Get(asked, id, "search") => AskedOK'
         /\ UNCHANGED <<started, asked>> => AskedOK'
         /\ \A id \in IoCheck(asked) : Head(asked[id].json) \in Searches
<1>1. started \in Nat /\ MaxSearches \in Nat /\ started =< MaxSearches
      /\ \A id \in DOMAIN asked : asked[id] \in Requests({"search"}, 1 .. started)
  BY SearchAssumption DEF TypeOK
<1>2. ASSUME NEW id \in Unanswered(asked), started < MaxSearches, started' = started + 1,
             asked' = JsonpCallback(asked, id, started + 1)
      PROVE  AskedOK'
  BY <1>1, <1>2 DEF AskedOK, JsonpCallback, Requests, Unanswered
<1>3. ASSUME NEW id, started' = started, asked' = RemoveScript(asked, id)
      PROVE  AskedOK'
  BY <1>1, <1>3 DEF AskedOK, RemoveScript
<1>4. ASSUME NEW id, started' = started, asked' = Get(asked, id, "search")
      PROVE  AskedOK'
  BY <1>1, <1>4 DEF AskedOK, Get, Requests
<1>5. ASSUME UNCHANGED <<started, asked>>
      PROVE  AskedOK'
  BY <1>1, <1>5 DEF AskedOK
<1>6. ASSUME NEW id \in IoCheck(asked)
      PROVE  Head(asked[id].json) \in Searches
  <2>1. id \in DOMAIN asked /\ asked[id].json # <<>>
    BY <1>6 DEF IoCheck, Unanswered
  <2>2. PICK g \in 1 .. started : asked[id].json = <<g>>
    BY <1>1, <2>1 DEF Requests
  <2>3. Head(<<g>>) = g
    OBVIOUS
  <2> QED
    BY <1>1, <2>2, <2>3 DEF Searches
<1> QED
  BY <1>2, <1>3, <1>4, <1>5, <1>6

\* Polls are answered and taken away, and the page stays as it is.
LEMMA PageStays ==
  ASSUME IInv, UNCHANGED <<insts, cur, nav, shown, overlaps>>,
         lost' \subseteq InstanceIds, lost \subseteq lost',
         \A x \in DOMAIN polls' :
           /\ x \in DOMAIN polls /\ polls'[x].tag = polls[x].tag
           /\ polls'[x] \in PollRequests(InstanceIds),
         \A x \in DOMAIN polls : \/ x \in DOMAIN polls'
                                 \/ insts[polls[x].tag.inst].stopped
                                 \/ polls[x].tag.inst \in lost'
  PROVE  InstsOK' /\ OneAlive' /\ ShownIsCurrent' /\ KeepsPolling' /\ NoMore
<1>1. InstanceIds' = InstanceIds
  BY DEF InstanceIds
<1>2. InstsOK'
  BY <1>1 DEF InstsOK, IInv, TypeOK, PollRequests
<1>3. OneAlive' /\ ShownIsCurrent'
  BY <1>1 DEF OneAlive, ShownIsCurrent, IInv
<1>4. KeepsPolling'
  <2>1. SUFFICES ASSUME cur # 0, ~ insts[cur].stopped, cur \notin lost',
                        ~ insts[cur].timer, ~ insts[cur].older > 0
                 PROVE  InFlight(cur)' # {}
    BY DEF KeepsPolling
  <2>2. PICK x \in DOMAIN polls : polls[x].tag.inst = cur
    BY <2>1 DEF KeepsPolling, InFlight, IInv
  <2>3. x \in DOMAIN polls' /\ polls'[x].tag.inst = cur
    BY <2>1, <2>2
  <2>4. cur' = cur
    OBVIOUS
  <2> QED
    BY <2>3, <2>4 DEF InFlight
<1> QED
  BY <1>2, <1>3, <1>4, FewerPolls
\* An answer has the type of answers.
LEMMA AnswerTyped ==
  ASSUME TypeOK, NEW id \in DOMAIN polls, NEW known \in 0 .. MaxSearches,
         NEW listed \in BOOLEAN
  PROVE  Answer(polls[id].tag, known, listed) \in Answers
<1> DEFINE tag == polls[id].tag
           g   == insts[tag.inst].guid
           key == <<g, rank[g], tag.page>>
<1>1. tag.inst \in 1 .. Len(insts) /\ tag.page \in Pages /\ insts \in Seq(Instances)
  BY TypeFacts
<1>2. g \in Searches
  BY <1>1, InstanceAt
<1>3. rank[g] \in Ranks
  BY <1>2 DEF TypeOK
<1> HIDE DEF tag, g
<1>4. key \in Searches \X Ranks \X Pages
  BY <1>1, <1>2, <1>3
<1>5. DOMAIN ResultsAt = Searches \X Ranks \X Pages
  BY SearchAssumption
<1> HIDE DEF key
<1>6. ResultsAt[key] \in Range(ResultsAt)
  BY <1>4, <1>5 DEF Range
<1>7. Answer(tag, known, listed) =
        [guid |-> g, page |-> tag.page, results |-> ResultsAt[key],
         complete |-> rank[g] = MaxRank, known |-> known, listed |-> listed]
  BY DEF Answer, g, key
<1> QED
  BY <1>1, <1>2, <1>6, <1>7 DEF Answers, tag

LEMMA ClientStep ==
  ASSUME IInv, Client
  PROVE  IInv' /\ NoMore
<1>1. /\ started \in 0 .. MaxSearches /\ MaxSearches \in Nat /\ rank \in [Searches -> Ranks]
      /\ MaxRank \in Nat /\ lost \subseteq InstanceIds /\ events \in Nat
      /\ \A x \in DOMAIN polls : polls[x] \in PollRequests(InstanceIds)
  BY SearchAssumption DEF IInv, TypeOK, PollRequests
<1>2. UNCHANGED <<insts, cur, guid, last, shown, buttons, nav, visited, lost, overlaps>>
  BY DEF Client, ClientSearches, ClientFinds, ClientAnswers, ClientForgets, window, history
<1>3. RestOK'
  <2>1. CASE ClientSearches
    <3>1. AskedOK'
      BY <2>1, AskedStep DEF ClientSearches, IInv
    <3> QED
      BY <1>1, <1>2, <2>1, <3>1 DEF ClientSearches, RestOK, IInv, TypeOK
  <2>2. CASE ClientFinds
    <3>1. PICK g \in 1 .. started : rank[g] < MaxRank /\ rank' = [rank EXCEPT ![g] = @ + 1]
      BY <2>2 DEF ClientFinds
    <3>2. rank' \in [Searches -> Ranks]
      BY <1>1, <3>1 DEF Searches, Ranks
    <3>3. AskedOK'
      BY <2>2, AskedStep DEF ClientFinds, IInv
    <3> QED
      BY <1>1, <1>2, <2>2, <3>2, <3>3 DEF ClientFinds, RestOK, IInv, TypeOK
  <2>3. CASE \E id \in Ids : ClientAnswers(id) \/ ClientForgets(id)
    <3>1. UNCHANGED <<started, rank, asked>> /\ events' \in Nat
      <4>1. ASSUME NEW id, ClientAnswers(id)
            PROVE  UNCHANGED <<started, rank, asked, events>>
        BY <4>1 DEF ClientAnswers, client
      <4>2. ASSUME NEW id, ClientForgets(id)
            PROVE  UNCHANGED <<started, rank, asked>> /\ events' = events + 1
        BY <4>2 DEF ClientForgets, client, Event
      <4> QED
        BY <1>1, <2>3, <4>1, <4>2
    <3>2. AskedOK'
      BY <3>1, AskedStep DEF IInv
    <3> QED
      BY <1>1, <1>2, <3>1, <3>2 DEF RestOK, IInv, TypeOK
  <2> QED
    BY <2>1, <2>2, <2>3 DEF Client
<1>4. \/ polls' = polls
      \/ \E id \in DOMAIN polls, a \in Answers : polls' = JsonpCallback(polls, id, a)
  <2>1. CASE ClientSearches \/ ClientFinds
    BY <2>1 DEF ClientSearches, ClientFinds
  <2>2. ASSUME NEW id \in Ids, ClientAnswers(id)
        PROVE  \E x \in DOMAIN polls, a \in Answers : polls' = JsonpCallback(polls, x, a)
    <3>1. id \in DOMAIN polls
      BY <2>2 DEF ClientAnswers, Unanswered
    <3>2. Answer(polls[id].tag, started, TRUE) \in Answers
      BY <1>1, <3>1, AnswerTyped DEF IInv
    <3> QED
      BY <2>2, <3>1, <3>2 DEF ClientAnswers
  <2>3. ASSUME NEW id \in Ids, ClientForgets(id)
        PROVE  \E x \in DOMAIN polls, a \in Answers : polls' = JsonpCallback(polls, x, a)
    <3>1. id \in DOMAIN polls
      BY <2>3 DEF ClientForgets, Unanswered
    <3>2. PICK known \in {0, started} :
            polls' = JsonpCallback(polls, id, Answer(polls[id].tag, known, FALSE))
      BY <2>3 DEF ClientForgets
    <3>3. known \in 0 .. MaxSearches
      BY <1>1, <3>2
    <3>4. Answer(polls[id].tag, known, FALSE) \in Answers
      BY <3>1, <3>3, AnswerTyped DEF IInv
    <3> QED
      BY <3>1, <3>2, <3>4
  <2> QED
    BY <2>1, <2>2, <2>3 DEF Client
<1>5. /\ DOMAIN polls' = DOMAIN polls
      /\ \A x \in DOMAIN polls : polls'[x].tag = polls[x].tag
      /\ \A x \in DOMAIN polls : polls'[x] \in PollRequests(InstanceIds)
  <2>1. ASSUME NEW id \in DOMAIN polls, NEW a \in Answers, polls' = JsonpCallback(polls, id, a)
        PROVE  /\ DOMAIN polls' = DOMAIN polls
               /\ \A x \in DOMAIN polls : polls'[x].tag = polls[x].tag
               /\ \A x \in DOMAIN polls : polls'[x] \in PollRequests(InstanceIds)
    BY <1>1, <2>1, AnswerPolls
  <2> QED
    BY <1>1, <1>4, <2>1
<1>6. InstsOK' /\ OneAlive' /\ ShownIsCurrent' /\ KeepsPolling' /\ NoMore
  BY <1>1, <1>2, <1>5, PageStays
<1> QED
  BY <1>3, <1>6, TypeParts DEF IInv

LEMMA PollLoadedStep ==
  ASSUME IInv, NEW id \in Ids, PollLoaded(id)
  PROVE  IInv' /\ NoMore
<1> DEFINE i == polls[id].tag.inst
           a == Head(polls[id].json)
<1>1. /\ insts \in Seq(Instances) /\ InstanceIds = 1 .. Len(insts)
      /\ \A x \in DOMAIN polls : polls[x] \in PollRequests(InstanceIds)
      /\ shown.inst \in {0} \cup InstanceIds /\ cur \in {0} \cup InstanceIds
      /\ shown.answer \in Answers \cup {NoAnswer} /\ overlaps \subseteq InstanceIds
  BY TypeFacts DEF IInv, TypeOK
<1>2. id \in DOMAIN polls /\ polls[id].json # <<>>
  BY DEF PollLoaded, IoCheck, Unanswered
<1>3. i \in InstanceIds /\ a \in Answers
  <2>1. PICK answer \in Answers : polls[id].json = <<answer>>
    BY <1>1, <1>2 DEF PollRequests, Requests
  <2> QED
    BY <1>1, <1>2, <2>1 DEF PollRequests, Requests
<1>4. Drop(i, a) \/ Keep(i, a) \/ Draw(i, a)
  BY DEF PollLoaded
<1>5. /\ polls' = RemoveScript(polls, id) /\ cur' = cur /\ overlaps' = overlaps
      /\ UNCHANGED <<started, rank, asked, guid, visited, events>>
  BY DEF PollLoaded, client
<1> HIDE DEF i, a
<1>6. /\ insts' \in Seq(Instances) /\ InstanceIds' = InstanceIds
      /\ \A j \in InstanceIds : insts'[j].stopped = insts[j].stopped
      /\ \A j \in InstanceIds : j # i => insts'[j] = insts[j]
      /\ lost' \subseteq InstanceIds /\ lost \subseteq lost'
      /\ insts[i].stopped \/ i \in lost' \/ insts'[i].timer
      /\ last' \in Answers \cup {NoAnswer}
      /\ \/ shown' = shown
         \/ shown' = [inst |-> i, answer |-> a] /\ ~ insts[i].stopped
      /\ buttons' \in [back : 0 .. MaxSearches, forward : 0 .. MaxSearches]
      /\ nav' \in {0} \cup InstanceIds
  BY <1>3, <1>4, ProcessProps DEF IInv
<1>7. /\ DOMAIN polls' = DOMAIN polls \ {id}
      /\ \A x \in DOMAIN polls \ {id} : polls'[x] = polls[x]
  BY <1>5, RemovePolls
<1>8. AskedOK'
  BY <1>5, AskedStep DEF IInv
<1>9. /\ shown'.inst \in {0} \cup InstanceIds
      /\ shown'.answer \in Answers \cup {NoAnswer}
  BY <1>1, <1>3, <1>6
<1>10. RestOK'
  BY <1>5, <1>6, <1>8, <1>9 DEF RestOK, IInv, TypeOK
<1>11. \A x \in DOMAIN polls' : polls'[x] \in PollRequests(InstanceIds)
  BY <1>1, <1>7
<1>12. InstsOK'
  BY <1>1, <1>5, <1>6, <1>9, <1>11 DEF InstsOK, PollRequests
<1>13. OneAlive'
  BY <1>5, <1>6 DEF OneAlive, IInv
<1>14. ShownIsCurrent'
  BY <1>3, <1>5, <1>6 DEF ShownIsCurrent, OneAlive, IInv
<1>15. KeepsPolling'
  <2>1. SUFFICES ASSUME cur # 0, ~ insts[cur].stopped, cur \notin lost'
                 PROVE  insts'[cur].timer \/ insts'[cur].older > 0 \/ InFlight(cur)' # {}
    BY <1>1, <1>5, <1>6 DEF KeepsPolling, InFlight
  <2>2. CASE i = cur
    BY <1>6, <2>1, <2>2
  <2>3. CASE i # cur
    <3>1. insts'[cur] = insts[cur] /\ cur \notin lost
      BY <1>1, <1>6, <2>1, <2>3
    <3>2. InFlight(cur) \subseteq InFlight(cur)'
      BY <1>5, <1>7, <2>3 DEF InFlight, i
    <3> QED
      BY <2>1, <3>1, <3>2 DEF KeepsPolling, IInv
  <2> QED
    BY <2>2, <2>3
<1>16. NoMore
  BY <1>7, FewerPolls
<1> QED
  BY <1>10, <1>12, <1>13, <1>14, <1>15, <1>16, TypeParts DEF IInv
LEMMA PollFailedStep ==
  ASSUME IInv, NEW id \in Ids, PollFailed(id)
  PROVE  IInv' /\ NoMore
<1>1. /\ \A x \in DOMAIN polls : polls[x] \in PollRequests(InstanceIds)
      /\ \A x \in DOMAIN polls : polls[x].tag.inst \in InstanceIds
      /\ lost \subseteq InstanceIds /\ events \in Nat
  BY TypeFacts DEF IInv, TypeOK
<1>2. id \in DOMAIN polls /\ polls' = RemoveScript(polls, id) /\ events' = events + 1
      /\ lost' = IF insts[polls[id].tag.inst].stopped THEN lost
                 ELSE lost \cup {polls[id].tag.inst}
  BY DEF PollFailed, Unanswered, Event
<1>3. /\ UNCHANGED <<insts, cur, nav, shown, overlaps>>
      /\ UNCHANGED <<started, rank, asked, guid, last, buttons, visited>>
  BY DEF PollFailed, client, window
<1>4. /\ DOMAIN polls' = DOMAIN polls \ {id}
      /\ \A x \in DOMAIN polls \ {id} : polls'[x] = polls[x]
  BY <1>2, RemovePolls
<1>5. /\ lost' \subseteq InstanceIds /\ lost \subseteq lost'
      /\ insts[polls[id].tag.inst].stopped \/ polls[id].tag.inst \in lost'
  BY <1>1, <1>2
<1>6. InstsOK' /\ OneAlive' /\ ShownIsCurrent' /\ KeepsPolling' /\ NoMore
  BY <1>1, <1>3, <1>4, <1>5, PageStays
<1>7. AskedOK'
  BY <1>3, AskedStep DEF IInv
<1>8. RestOK'
  BY <1>1, <1>2, <1>3, <1>7 DEF RestOK, IInv, TypeOK
<1> QED
  BY <1>6, <1>8, TypeParts DEF IInv

LEMMA TimerFiresStep ==
  ASSUME IInv, NEW i \in Ids, TimerFires(i)
  PROVE  IInv' /\ NoMore
<1>1. /\ insts \in Seq(Instances) /\ InstanceIds = 1 .. Len(insts)
      /\ DOMAIN insts = 1 .. Len(insts)
  BY TypeFacts DEF IInv, InstanceIds
<1>2. i \in 1 .. Len(insts)
  BY <1>1 DEF TimerFires
<1>3. insts[i] \in Instances
  BY <1>1, <1>2, ElementOfSeq
<1>4. PICK fired \in {[insts[i] EXCEPT !.timer = FALSE],
                     [insts[i] EXCEPT !.older = insts[i].older - 1]} :
        /\ fired.older \in Nat
        /\ Load([insts EXCEPT ![i] = fired], i, insts[i].page)
  BY <1>3 DEF TimerFires, Instances
<1>5. fired \in Instances /\ fired.stopped = insts[i].stopped
  BY <1>3, <1>4 DEF Instances
<1> DEFINE all == [insts EXCEPT ![i] = fired]
<1>6. /\ all \in Seq(Instances) /\ Len(all) = Len(insts)
      /\ \A j \in 1 .. Len(insts) : all[j] = IF j = i THEN fired ELSE insts[j]
  BY <1>1, <1>2, <1>5, ExceptSeq
<1>7. insts[i].page \in Pages
  BY <1>3 DEF Instances
<1>8. Load(all, i, insts[i].page)
  BY <1>4
<1>9. UNCHANGED <<started, rank, asked, cur, guid, last, shown, buttons, nav, visited,
                  events, lost, overlaps>>
  BY DEF TimerFires, client, window, history
<1> HIDE DEF all
<1>10. /\ insts' \in Seq(Instances) /\ InstanceIds' = InstanceIds
       /\ \A x \in DOMAIN polls' :
            polls'[x] \in Requests([inst : InstanceIds', page : Pages], Answers)
       /\ OneAlive' /\ KeepsPolling' /\ NoMore
  <2>1. \A j \in 1 .. Len(all) : /\ all[j].stopped = insts[j].stopped
                                 /\ j # i => all[j] = insts[j]
    BY <1>5, <1>6
  <2> QED
    BY <1>2, <1>6, <1>7, <1>8, <1>9, <2>1, LoadStep
<1>11. AskedOK'
  BY <1>9, AskedStep DEF IInv
<1>12. RestOK'
  BY <1>9, <1>11 DEF RestOK, IInv, TypeOK
<1>13. InstsOK'
  BY <1>9, <1>10 DEF InstsOK, IInv, TypeOK
<1>14. ShownIsCurrent'
  BY <1>9 DEF ShownIsCurrent, IInv
<1> QED
  BY <1>10, <1>12, <1>13, <1>14, TypeParts DEF IInv

LEMMA SwitchStep ==
  ASSUME IInv, NEW i \in InstanceIds, NEW p \in Pages, Switch(i, p),
         cur' = cur, lost' = lost, nav' = nav, shown' = shown
  PROVE  InstsOK' /\ OneAlive' /\ ShownIsCurrent' /\ KeepsPolling' /\ NoMore
<1>1. /\ insts \in Seq(Instances) /\ InstanceIds = 1 .. Len(insts)
      /\ overlaps \subseteq InstanceIds
  BY TypeFacts DEF IInv, TypeOK
<1> DEFINE e   == [insts[i] EXCEPT !.timer = FALSE, !.wasComplete = FALSE]
           all == [insts EXCEPT ![i] = e]
<1>2. insts[i] \in Instances
  BY <1>1, ElementOfSeq
<1>3. e \in Instances /\ e.stopped = insts[i].stopped
  BY <1>2 DEF Instances
<1>4. Load([insts EXCEPT ![i].timer = FALSE, ![i].wasComplete = FALSE], i, p)
      /\ overlaps' \subseteq InstanceIds
  BY <1>1 DEF Switch
<1>5. [insts EXCEPT ![i].timer = FALSE, ![i].wasComplete = FALSE] = all
  BY <1>1, <1>2 DEF Instances
<1> HIDE DEF e
<1>6. /\ all \in Seq(Instances) /\ Len(all) = Len(insts)
      /\ \A j \in 1 .. Len(insts) : all[j] = IF j = i THEN e ELSE insts[j]
  BY <1>1, <1>3, ExceptSeq
<1> HIDE DEF all
<1>7. Load(all, i, p) /\ i \in 1 .. Len(all)
  BY <1>1, <1>4, <1>5, <1>6
<1>8. \A j \in 1 .. Len(all) : /\ all[j].stopped = insts[j].stopped
                               /\ j # i => all[j] = insts[j]
  BY <1>3, <1>6
<1>9. /\ insts' \in Seq(Instances) /\ InstanceIds' = InstanceIds
      /\ \A x \in DOMAIN polls' :
           polls'[x] \in Requests([inst : InstanceIds', page : Pages], Answers)
      /\ OneAlive' /\ KeepsPolling' /\ NoMore
  BY <1>6, <1>7, <1>8, LoadStep
<1>10. InstsOK'
  BY <1>4, <1>9 DEF InstsOK, IInv, TypeOK
<1>11. ShownIsCurrent'
  BY DEF ShownIsCurrent, IInv
<1> QED
  BY <1>9, <1>10, <1>11
LEMMA LinkStep ==
  ASSUME IInv, PageLink \/ BrowserBack
  PROVE  IInv' /\ NoMore
<1>1. PICK i \in InstanceIds, p \in Pages : Switch(i, p)
  <2>1. CASE PageLink
    BY <2>1 DEF PageLink, IInv, TypeOK
  <2>2. CASE BrowserBack
    BY <2>2 DEF BrowserBack, IInv, TypeOK
  <2> QED
    BY <2>1, <2>2
<1>2. /\ UNCHANGED <<started, rank, asked, cur, guid, last, shown, buttons, nav, lost>>
      /\ events' = events + 1 /\ visited' \subseteq Pages
  BY DEF PageLink, BrowserBack, client, window, Event, IInv, TypeOK
<1>3. InstsOK' /\ OneAlive' /\ ShownIsCurrent' /\ KeepsPolling' /\ NoMore
  BY <1>1, <1>2, SwitchStep
<1>4. AskedOK'
  BY <1>2, AskedStep DEF IInv
<1>5. RestOK'
  <2>1. events' \in Nat
    BY <1>2 DEF IInv, TypeOK
  <2> QED
    BY <1>2, <1>4, <2>1 DEF RestOK, IInv, TypeOK
<1> QED
  BY <1>3, <1>5, TypeParts DEF IInv

\* A search is opened by the answer to a request, by a button or by the tab.
LEMMA ReloadStep ==
  ASSUME IInv, NEW g \in Searches, NEW force \in BOOLEAN,
         Reload(g, force) \/ Open(Stop(insts, cur), g, force),
         UNCHANGED <<nav, lost, overlaps>>
  PROVE  /\ InstsOK' /\ OneAlive' /\ ShownIsCurrent' /\ KeepsPolling' /\ NoMore
         /\ guid' \in {guid, g}
         /\ shown'.answer \in {shown.answer, NoAnswer}
<1>1. CASE Open(Stop(insts, cur), g, force)
  <2>1. /\ insts' \in Seq(Instances) /\ InstanceIds \subseteq InstanceIds'
        /\ cur' \in InstanceIds' /\ guid' = g /\ shown' = Cleared
        /\ \A x \in DOMAIN polls' :
             polls'[x] \in Requests([inst : InstanceIds', page : Pages], Answers)
        /\ OneAlive' /\ ShownIsCurrent' /\ KeepsPolling' /\ NoMore
    BY <1>1, OpenStep
  <2>2. InstsOK'
    BY <2>1 DEF InstsOK, Cleared, IInv, TypeOK
  <2> QED
    BY <2>1, <2>2 DEF Cleared
<1>2. CASE ~ Open(Stop(insts, cur), g, force)
  <2>1. insts' = Stop(insts, cur) /\ cur' = 0 /\ UNCHANGED <<polls, guid, shown>>
    BY <1>2 DEF Reload
  <2>2. /\ insts \in Seq(Instances) /\ Len(insts) \in Nat /\ InstanceIds = 1 .. Len(insts)
    BY TypeFacts DEF IInv
  <2>3. /\ insts' \in Seq(Instances) /\ Len(insts') = Len(insts)
        /\ \A j \in 1 .. Len(insts) : insts'[j].stopped = (insts[j].stopped \/ j = cur)
    BY <2>1, StopProps DEF IInv
  <2>4. InstanceIds' = InstanceIds
    BY <2>2, <2>3 DEF InstanceIds
  <2>5. InstsOK'
    BY <2>1, <2>3, <2>4 DEF InstsOK, IInv, TypeOK
  <2>6. OneAlive'
    BY <2>2, <2>3, <2>4 DEF OneAlive, IInv
  <2>7. ShownIsCurrent' /\ KeepsPolling'
    BY <2>1 DEF ShownIsCurrent, KeepsPolling
  <2>8. NoMore
    BY <2>1, FewerPolls
  <2> QED
    BY <2>1, <2>5, <2>6, <2>7, <2>8
<1> QED
  BY <1>1, <1>2

LEMMA SearchStartedStep ==
  ASSUME IInv, SearchStarted
  PROVE  IInv' /\ NoMore
<1>1. PICK id \in IoCheck(asked) :
        /\ asked' = RemoveScript(asked, id)
        /\ Open(Stop(insts, cur), Head(asked[id].json), FALSE)
  BY DEF SearchStarted
<1>2. UNCHANGED <<started, rank, last, buttons, nav, visited, events, lost, overlaps>>
  BY DEF SearchStarted, client, history
<1>3. Head(asked[id].json) \in Searches /\ AskedOK'
  BY <1>1, <1>2, AskedStep DEF IInv
<1>4. /\ InstsOK' /\ OneAlive' /\ ShownIsCurrent' /\ KeepsPolling' /\ NoMore
      /\ guid' \in {guid, Head(asked[id].json)}
      /\ shown'.answer \in {shown.answer, NoAnswer}
  BY <1>1, <1>2, <1>3, ReloadStep
<1>5. RestOK'
  BY <1>2, <1>3, <1>4 DEF RestOK, Searches, IInv, TypeOK
<1> QED
  BY <1>4, <1>5, TypeParts DEF IInv

LEMMA ReloadedStep ==
  ASSUME IInv, BackOrForward \/ SearchTab
  PROVE  IInv' /\ NoMore
<1>1. PICK g \in Searches, force \in BOOLEAN : Reload(g, force)
  <2>1. CASE BackOrForward
    <3>1. PICK g \in {buttons.back, buttons.forward} \ {0} : Reload(g, FALSE)
      BY <2>1 DEF BackOrForward
    <3>2. g \in Searches
      BY SearchAssumption, <3>1 DEF Searches, IInv, TypeOK
    <3> QED
      BY <3>1, <3>2
  <2>2. CASE SearchTab
    <3>1. guid \in Searches
      BY SearchAssumption, <2>2 DEF SearchTab, Searches, IInv, TypeOK
    <3> QED
      BY <2>2, <3>1 DEF SearchTab
  <2> QED
    BY <2>1, <2>2
<1>2. /\ UNCHANGED <<started, rank, asked, last, buttons, nav, visited, lost, overlaps>>
      /\ events' = events + 1
  BY DEF BackOrForward, SearchTab, client, history, Event
<1>3. AskedOK' /\ events' \in Nat
  <2>1. AskedOK'
    BY <1>2, AskedStep DEF IInv
  <2> QED
    BY <1>2, <2>1 DEF IInv, TypeOK
<1>4. /\ InstsOK' /\ OneAlive' /\ ShownIsCurrent' /\ KeepsPolling' /\ NoMore
      /\ guid' \in {guid, g} /\ shown'.answer \in {shown.answer, NoAnswer}
  BY <1>1, <1>2, ReloadStep
<1>5. RestOK'
  BY <1>2, <1>3, <1>4 DEF RestOK, Searches, IInv, TypeOK
<1> QED
  BY <1>4, <1>5, TypeParts DEF IInv

\* Another tab is opened: the current instance stops and stays.
LEMMA OtherTabStep ==
  ASSUME IInv, OtherTab
  PROVE  IInv' /\ NoMore
<1>1. /\ insts' = Stop(insts, cur) /\ events' = events + 1
      /\ UNCHANGED <<started, rank, asked, polls, cur, guid, last, shown, buttons, nav,
                     visited, lost, overlaps>>
  BY DEF OtherTab, client, window, history, Event
<1>2. insts \in Seq(Instances) /\ Len(insts) \in Nat /\ InstanceIds = 1 .. Len(insts)
  BY TypeFacts DEF IInv
<1>3. /\ insts' \in Seq(Instances) /\ Len(insts') = Len(insts)
      /\ \A j \in 1 .. Len(insts) : insts'[j].stopped = (insts[j].stopped \/ j = cur)
  BY <1>1, StopProps DEF IInv
<1>4. InstanceIds' = InstanceIds
  BY <1>2, <1>3 DEF InstanceIds
<1>5. InstsOK'
  BY <1>1, <1>3, <1>4 DEF InstsOK, IInv, TypeOK
<1>6. AskedOK' /\ events' \in Nat
  <2>1. AskedOK'
    BY <1>1, AskedStep DEF IInv
  <2> QED
    BY <1>1, <2>1 DEF IInv, TypeOK
<1>7. RestOK'
  BY <1>1, <1>6 DEF RestOK, IInv, TypeOK
<1>8. OneAlive'
  BY <1>1, <1>2, <1>3, <1>4 DEF OneAlive, IInv
<1>9. cur = 0 \/ insts'[cur].stopped
  BY <1>2, <1>3 DEF IInv, TypeOK
<1>10. ShownIsCurrent' /\ KeepsPolling'
  BY <1>1, <1>9 DEF ShownIsCurrent, KeepsPolling, IInv
<1>11. NoMore
  BY <1>1, FewerPolls
<1> QED
  BY <1>5, <1>7, <1>8, <1>10, <1>11, TypeParts DEF IInv

LEMMA FormStep ==
  ASSUME IInv, StartSearch \/ SearchFailed \/ UNCHANGED vars
  PROVE  IInv' /\ NoMore
<1>1. UNCHANGED <<started, rank, polls, insts, cur, guid, last, shown, buttons, nav,
                  visited, lost, overlaps>>
  BY DEF StartSearch, SearchFailed, vars, client, window, history
<1>2. AskedOK'
  BY <1>1, AskedStep DEF StartSearch, SearchFailed, vars, IInv
<1>3. events' \in Nat
  BY DEF StartSearch, SearchFailed, vars, Event, IInv, TypeOK
<1>4. RestOK'
  BY <1>1, <1>2, <1>3 DEF RestOK, IInv, TypeOK
<1>5. InstsOK' /\ OneAlive' /\ ShownIsCurrent' /\ KeepsPolling'
  BY <1>1 DEF InstsOK, InstanceIds, OneAlive, ShownIsCurrent, KeepsPolling, InFlight,
              IInv, TypeOK
<1>6. NoMore
  BY <1>1, FewerPolls
<1> QED
  BY <1>4, <1>5, <1>6, TypeParts DEF IInv

LEMMA Step ==
  ASSUME IInv, [Next]_vars
  PROVE  IInv' /\ NoMore
<1>1. CASE Client
  BY <1>1, ClientStep
<1>2. CASE Page
  BY <1>2, SearchStartedStep, FormStep, PollLoadedStep, PollFailedStep, TimerFiresStep
     DEF Page
<1>3. CASE User
  BY <1>3, FormStep, ReloadedStep, OtherTabStep, LinkStep DEF User
<1>4. CASE UNCHANGED vars
  BY <1>4, FormStep
<1> QED
  BY <1>1, <1>2, <1>3, <1>4 DEF Next

LEMMA Start == Init => IInv
<1> SUFFICES ASSUME Init PROVE IInv
  OBVIOUS
<1>2. insts = <<>> /\ insts \in Seq(Instances) /\ DOMAIN insts = {} /\ InstanceIds = {}
  BY DEF Init, InstanceIds
<1>3. rank \in [Searches -> Ranks]
  BY SearchAssumption DEF Init, Ranks
<1>4. DOMAIN polls = {} /\ DOMAIN asked = {}
  BY DEF Init
<1>5. TypeOK
  BY <1>2, <1>3, <1>4, SearchAssumption DEF Init, TypeOK, Cleared
<1>6. OneAlive /\ ShownIsCurrent /\ KeepsPolling
  BY <1>2 DEF Init, OneAlive, ShownIsCurrent, KeepsPolling
<1> QED
  BY <1>5, <1>6 DEF IInv

----------------------------------------------------------------------------
(* The page follows the user's switch                                      *)

\* Without a switch while a poll was in flight, every poll of the current
\* instance is for its page, and what was complete was of that page.
Following ==
  /\ \A x \in InFlight(cur) : polls[x].tag.page = insts[cur].page
  /\ shown.inst = cur /\ insts[cur].wasComplete => shown.answer.page = insts[cur].page
  /\ Follows(cur)

AnswersFit ==
  \A x \in DOMAIN polls :
    polls[x].json # <<>> => Head(polls[x].json).page = polls[x].tag.page

FInv ==
  /\ AnswersFit
  /\ shown.inst # 0 => shown.answer = last
  /\ cur # 0 /\ cur \notin overlaps => Following

\* What the client does is answer.
LEMMA ClientDoes ==
  ASSUME Client
  PROVE  /\ UNCHANGED <<insts, cur, last, shown, lost, overlaps>>
         /\ \/ polls' = polls
            \/ \E id \in DOMAIN polls, known \in {0, started}, listed \in BOOLEAN :
                 polls' = JsonpCallback(polls, id, Answer(polls[id].tag, known, listed))
<1>1. UNCHANGED <<insts, cur, last, shown, lost, overlaps>>
  BY DEF Client, ClientSearches, ClientFinds, ClientAnswers, ClientForgets, window, history
<1>2. CASE ClientSearches \/ ClientFinds
  BY <1>1, <1>2 DEF ClientSearches, ClientFinds
<1>3. CASE \E id \in Ids : ClientAnswers(id)
  <2>1. PICK id \in DOMAIN polls :
          polls' = JsonpCallback(polls, id, Answer(polls[id].tag, started, TRUE))
    BY <1>3 DEF ClientAnswers, Unanswered
  <2> QED
    BY <1>1, <2>1
<1>4. CASE \E id \in Ids : ClientForgets(id)
  <2>1. PICK id \in DOMAIN polls, known \in {0, started} :
          polls' = JsonpCallback(polls, id, Answer(polls[id].tag, known, FALSE))
    BY <1>4 DEF ClientForgets, Unanswered
  <2> QED
    BY <1>1, <2>1
<1> QED
  BY <1>2, <1>3, <1>4 DEF Client

\* An answer is for the page that was asked for.
LEMMA AnswerPage ==
  ASSUME NEW tag, NEW known, NEW listed
  PROVE  Answer(tag, known, listed).page = tag.page
BY DEF Answer

\* Nothing is drawn, and the current instance asks for nothing.
LEMMA FollowsStays ==
  ASSUME FInv, UNCHANGED <<last, shown, overlaps>>, lost \subseteq lost',
         cur' \in {cur, 0},
         cur' # 0 => /\ insts'[cur].page = insts[cur].page
                     /\ insts'[cur].wasComplete = insts[cur].wasComplete
                     /\ insts[cur].stopped => insts'[cur].stopped,
         AnswersFit',
         \A x \in DOMAIN polls' : x \in DOMAIN polls /\ polls'[x].tag = polls[x].tag,
         \A x \in DOMAIN polls :
           \/ x \in DOMAIN polls'
           \/ polls[x].tag.inst # cur \/ insts'[cur].stopped \/ cur \in lost'
  PROVE  FInv'
<1>1. SUFFICES ASSUME cur' # 0, cur' \notin overlaps' PROVE Following'
  BY DEF FInv
<1>2. cur' = cur /\ Following
  BY <1>1 DEF FInv
<1>3. \A x : x \in InFlight(cur)' => x \in InFlight(cur) /\ polls'[x].tag = polls[x].tag
  BY <1>2 DEF InFlight
<1>4. Follows(cur)'
  <2>1. SUFFICES ASSUME ~ insts'[cur].stopped, cur \notin lost', shown.inst = cur,
                        shown.answer.page # insts'[cur].page
                 PROVE  \E x \in InFlight(cur)' : polls'[x].tag.page = insts'[cur].page
    BY <1>2 DEF Follows
  <2>2. PICK x \in InFlight(cur) : polls[x].tag.page = insts[cur].page
    BY <1>1, <1>2, <2>1 DEF Following, Follows
  <2>3. x \in DOMAIN polls' /\ polls'[x].tag = polls[x].tag
    BY <2>1, <2>2 DEF InFlight
  <2>4. x \in InFlight(cur)'
    BY <1>2, <2>2, <2>3 DEF InFlight
  <2> QED
    BY <1>1, <1>2, <2>2, <2>3, <2>4
<1>5. \A x \in InFlight(cur)' : polls'[x].tag.page = insts'[cur'].page
  BY <1>1, <1>2, <1>3 DEF Following
<1> QED
  BY <1>1, <1>2, <1>4, <1>5 DEF Following

LEMMA ClientFollows ==
  ASSUME FInv, Client
  PROVE  FInv'
<1>1. UNCHANGED <<insts, cur, last, shown, lost, overlaps>>
  BY ClientDoes
<1>2. /\ DOMAIN polls' = DOMAIN polls
      /\ \A x \in DOMAIN polls : polls'[x].tag = polls[x].tag
      /\ AnswersFit'
  <2>1. CASE polls' = polls
    BY <2>1 DEF AnswersFit, FInv
  <2>2. ASSUME NEW id \in DOMAIN polls, NEW known, NEW listed,
               polls' = JsonpCallback(polls, id, Answer(polls[id].tag, known, listed))
        PROVE  /\ DOMAIN polls' = DOMAIN polls
               /\ \A x \in DOMAIN polls : polls'[x].tag = polls[x].tag
               /\ AnswersFit'
    <3> DEFINE a == Answer(polls[id].tag, known, listed)
    <3>1. a.page = polls[id].tag.page
      BY AnswerPage
    <3>2. Head(<<a>>) = a
      OBVIOUS
    <3> HIDE DEF a
    <3>3. polls' = [polls EXCEPT ![id].json = <<a>>]
      BY <2>2 DEF JsonpCallback, a
    <3>4. /\ DOMAIN polls' = DOMAIN polls
          /\ \A x \in DOMAIN polls \ {id} : polls'[x] = polls[x]
          /\ polls'[id] = [polls[id] EXCEPT !.json = <<a>>]
      BY <3>3
    <3>5. polls'[id].tag = polls[id].tag /\ polls'[id].json \in {<<a>>, polls[id].json}
      BY <3>4
    <3>6. Head(polls[id].json).page = polls[id].tag.page \/ polls[id].json = <<>>
      BY DEF AnswersFit, FInv
    <3>7. ASSUME NEW x \in DOMAIN polls, polls'[x].json # <<>>
          PROVE  Head(polls'[x].json).page = polls'[x].tag.page
      <4>1. CASE x = id
        BY <4>1, <3>1, <3>2, <3>5, <3>6, <3>7
      <4>2. CASE x # id
        <5>1. polls'[x] = polls[x]
          BY <4>2, <3>4
        <5> QED
          BY <5>1, <3>7 DEF AnswersFit, FInv
      <4> QED
        BY <4>1, <4>2
    <3>8. \A x \in DOMAIN polls : polls'[x].tag = polls[x].tag
      BY <3>4, <3>5
    <3> QED
      BY <3>4, <3>7, <3>8 DEF AnswersFit
  <2> QED
    BY <2>1, <2>2, ClientDoes
<1> QED
  BY <1>1, <1>2, FollowsStays
\* An instance loads its page, or the one the user has switched it to.
LEMMA LoadFollows ==
  ASSUME IInv, FInv, NEW all \in Seq(Instances), Len(all) = Len(insts),
         NEW i \in 1 .. Len(all), NEW p \in Pages, Load(all, i, p),
         \A j \in 1 .. Len(all) : /\ all[j].stopped = insts[j].stopped
                                  /\ j # i => all[j] = insts[j],
         all[i].page = insts[i].page,
         \/ p = insts[i].page /\ all[i].wasComplete = insts[i].wasComplete
            /\ overlaps' = overlaps
         \/ ~ all[i].wasComplete
            /\ overlaps' = IF InFlight(i) # {} THEN overlaps \cup {i} ELSE overlaps,
         UNCHANGED <<cur, last, shown, lost>>
  PROVE  FInv'
<1>1. /\ insts \in Seq(Instances) /\ Len(insts) \in Nat /\ InstanceIds = 1 .. Len(insts)
      /\ \A x \in DOMAIN polls : polls[x] \in PollRequests(1 .. Len(all))
      /\ cur \in {0} \cup InstanceIds
  BY TypeFacts DEF IInv, TypeOK
<1>2. LoadLeaves(all, i, p)
  BY <1>1, LoadProps
<1>3. AnswersFit'
  BY <1>2 DEF LoadLeaves, AnswersFit, FInv
<1>4. SUFFICES ASSUME cur # 0, cur \notin overlaps' PROVE Following'
  BY <1>3 DEF FInv
<1>5. cur \notin overlaps /\ Following
  BY <1>4 DEF FInv
<1>6. CASE i # cur \/ all[i].stopped
  <2>1. all[i].stopped
    BY <1>1, <1>6 DEF OneAlive, IInv
  <2>2. insts' = all /\ polls' = polls
    BY <1>2, <2>1 DEF LoadLeaves
  <2>3. CASE i # cur
    <3>1. insts'[cur] = insts[cur]
      BY <1>1, <1>4, <2>2, <2>3
    <3> QED
      BY <1>5, <2>2, <3>1 DEF Following, Follows, InFlight
  <2>4. CASE i = cur
    <3>1. insts'[cur].page = insts[cur].page /\ insts'[cur].stopped
          /\ (insts'[cur].wasComplete => insts[cur].wasComplete)
      BY <2>1, <2>2, <2>4
    <3> QED
      BY <1>5, <2>2, <3>1 DEF Following, Follows, InFlight
  <2> QED
    BY <2>3, <2>4
<1>7. CASE i = cur /\ ~ all[i].stopped
  <2>1. /\ insts'[i] = [all[i] EXCEPT !.timer = FALSE, !.page = p]
        /\ FreshId(polls) \in DOMAIN polls'
        /\ polls'[FreshId(polls)] = [tag |-> [inst |-> i, page |-> p], json |-> <<>>]
        /\ \A x \in DOMAIN polls' :
             x # FreshId(polls) => x \in DOMAIN polls /\ polls'[x] = polls[x]
    BY <1>2, <1>7 DEF LoadLeaves
  <2>2. insts'[i].page = p /\ insts'[i].wasComplete = all[i].wasComplete
    <3>1. all[i] \in Instances
      BY ElementOfSeq
    <3> QED
      BY <2>1, <3>1 DEF Instances
  <2>3. FreshId(polls) \in InFlight(cur)' /\ polls'[FreshId(polls)].tag.page = p
    BY <1>7, <2>1 DEF InFlight
  <2>4. Follows(cur)'
    BY <1>7, <2>2, <2>3 DEF Follows
  <2>5. \A x \in InFlight(cur)' : polls'[x].tag.page = p
    <3>1. SUFFICES ASSUME NEW x \in InFlight(cur)', x # FreshId(polls)
                   PROVE  polls'[x].tag.page = p
      BY <2>3
    <3>2. x \in InFlight(cur) /\ polls'[x] = polls[x]
      BY <2>1, <3>1 DEF InFlight
    <3>3. p = insts[i].page
      BY <1>4, <1>7, <3>2
    <3> QED
      BY <1>5, <1>7, <3>2, <3>3 DEF Following
  <2>6. shown.inst = cur /\ insts'[i].wasComplete => shown.answer.page = p
    BY <1>5, <1>7, <2>2 DEF Following
  <2> QED
    BY <1>7, <2>2, <2>4, <2>5, <2>6 DEF Following
<1> QED
  BY <1>6, <1>7

LEMMA OpenFollows ==
  ASSUME IInv, FInv, NEW g \in Searches, NEW force \in BOOLEAN,
         Open(Stop(insts, cur), g, force), UNCHANGED <<last, lost, overlaps>>
  PROVE  FInv'
<1> DEFINE all == Stop(insts, cur)
<1>1. /\ Len(insts) \in Nat
      /\ \A x \in DOMAIN polls : polls[x] \in PollRequests(1 .. Len(insts))
      /\ \A x \in DOMAIN polls : polls[x].tag.inst \in 1 .. Len(insts)
  BY TypeFacts DEF IInv
<1>2. all \in Seq(Instances) /\ Len(all) = Len(insts)
  BY StopProps DEF IInv
<1>3. Open(all, g, force) /\ \A x \in DOMAIN polls : polls[x] \in PollRequests(1 .. Len(all))
  BY <1>1, <1>2
<1> HIDE DEF all
<1>4. /\ cur' = Len(all) + 1 /\ shown' = Cleared
      /\ insts'[cur'].page = 0
      /\ FreshId(polls) \in DOMAIN polls'
      /\ polls'[FreshId(polls)] = [tag |-> [inst |-> cur', page |-> 0], json |-> <<>>]
      /\ \A x \in DOMAIN polls' :
           x # FreshId(polls) => x \in DOMAIN polls /\ polls'[x] = polls[x]
  BY <1>2, <1>3, OpenProps
<1>5. AnswersFit'
  BY <1>4 DEF AnswersFit, FInv
<1>6. shown'.inst = 0 /\ cur' # 0 /\ shown'.inst # cur'
  BY <1>1, <1>2, <1>4 DEF Cleared
<1>7. \A x \in InFlight(cur)' : polls'[x].tag.page = 0
  <2>1. SUFFICES ASSUME NEW x \in InFlight(cur)', x # FreshId(polls) PROVE FALSE
    BY <1>4
  <2>2. x \in DOMAIN polls /\ polls[x].tag.inst = cur'
    BY <1>4, <2>1 DEF InFlight
  <2> QED
    BY <1>1, <1>2, <1>4, <2>2
<1>8. Follows(cur)'
  BY <1>6 DEF Follows
<1>9. Following'
  BY <1>4, <1>6, <1>7, <1>8 DEF Following
<1> QED
  BY <1>5, <1>6, <1>9 DEF FInv

LEMMA PollFollows ==
  ASSUME IInv, FInv, NEW id \in Ids, PollLoaded(id)
  PROVE  FInv'
<1> DEFINE i == polls[id].tag.inst
           a == Head(polls[id].json)
           n == [insts[i] EXCEPT !.wasComplete = a.complete]
<1>1. /\ insts \in Seq(Instances) /\ InstanceIds = 1 .. Len(insts)
      /\ \A x \in DOMAIN polls : polls[x] \in PollRequests(InstanceIds)
      /\ lost \subseteq InstanceIds
  BY TypeFacts DEF IInv, TypeOK
<1>2. id \in DOMAIN polls /\ polls[id].json # <<>>
  BY DEF PollLoaded, IoCheck, Unanswered
<1>3. i \in InstanceIds /\ a \in Answers
  <2>1. PICK answer \in Answers : polls[id].json = <<answer>>
    BY <1>1, <1>2 DEF PollRequests, Requests
  <2> QED
    BY <1>1, <1>2, <2>1 DEF PollRequests, Requests
<1>4. a.page = polls[id].tag.page
  BY <1>2 DEF AnswersFit, FInv
<1>5. Drop(i, a) \/ Keep(i, a) \/ Draw(i, a)
  BY DEF PollLoaded
<1>6. polls' = RemoveScript(polls, id) /\ UNCHANGED <<cur, overlaps>>
  BY DEF PollLoaded
<1>7. insts[i] \in Instances
  BY <1>1, <1>3, ElementOfSeq
<1>8. n \in Instances /\ n.page = insts[i].page /\ n.wasComplete = a.complete
  BY <1>3, <1>7 DEF Instances, Answers
<1>9. ScheduleCall(n).page = n.page /\ ScheduleCall(n).wasComplete = n.wasComplete
  <2> HIDE DEF n
  <2> QED
    BY <1>8 DEF ScheduleCall, Instances
<1> HIDE DEF i, a, n
<1>10. /\ DOMAIN polls' = DOMAIN polls \ {id}
       /\ \A x \in DOMAIN polls \ {id} : polls'[x] = polls[x]
  BY <1>6, RemovePolls
<1>11. AnswersFit'
  BY <1>10 DEF AnswersFit, FInv
<1>12. CASE Drop(i, a)
  <2>1. UNCHANGED <<insts, last, shown>> /\ lost \subseteq lost'
        /\ (insts[i].stopped \/ i \in lost')
    BY <1>12 DEF Drop
  <2> QED
    BY <1>6, <1>10, <1>11, <2>1, FollowsStays DEF i
<1>13. CASE Keep(i, a) \/ Draw(i, a)
  <2>1. i = cur /\ ~ Dropped(i, a)
    BY <1>3, <1>13 DEF Keep, Draw, Dropped, OneAlive, IInv
  <2>2. PICK m \in {n, ScheduleCall(n)} : insts' = [insts EXCEPT ![i] = m]
    BY <1>13 DEF Keep, Draw, Continue, n
  <2>3. insts'[cur].page = insts[cur].page /\ insts'[cur].wasComplete = a.complete
    BY <1>1, <1>3, <1>8, <1>9, <2>1, <2>2
  <2>4. shown'.inst # 0 => shown'.answer = last'
    <3>1. CASE Keep(i, a)
      BY <3>1 DEF Keep, FInv
    <3>2. CASE Draw(i, a)
      BY <3>2 DEF Draw
    <3> QED
      BY <1>13, <3>1, <3>2
  <2>5. SUFFICES ASSUME cur # 0, cur \notin overlaps PROVE Following'
    BY <1>6, <1>11, <2>4 DEF FInv
  <2>6. Following
    BY <2>5 DEF FInv
  <2>7. a.page = insts[cur].page
    BY <1>2, <1>4, <2>1, <2>6 DEF Following, InFlight, i
  <2>8. shown'.inst = cur => shown'.answer.page = insts[cur].page
    <3>1. CASE Draw(i, a)
      BY <2>7, <3>1 DEF Draw
    <3>2. CASE Keep(i, a)
      <4>1. shown' = shown /\ Unchanged(i, a)
        BY <3>2 DEF Keep
      <4>2. CASE insts[i].wasComplete
        BY <2>1, <2>6, <4>1, <4>2 DEF Following
      <4>3. CASE ~ insts[i].wasComplete
        <5>1. last.page = a.page
          BY <4>1, <4>3 DEF Unchanged, SameResults
        <5> QED
          BY <2>5, <2>7, <4>1, <5>1 DEF FInv
      <4> QED
        BY <4>2, <4>3
    <3> QED
      BY <1>13, <3>1, <3>2
  <2>9. \A x \in InFlight(cur)' : polls'[x].tag.page = insts[cur].page
    BY <1>6, <1>10, <2>6 DEF Following, InFlight
  <2> QED
    BY <1>6, <2>3, <2>8, <2>9 DEF Following, Follows
<1> QED
  BY <1>5, <1>12, <1>13
LEMMA FollowsStep ==
  ASSUME IInv, FInv, [Next]_vars
  PROVE  FInv'
<1>0. /\ insts \in Seq(Instances) /\ InstanceIds = 1 .. Len(insts)
      /\ DOMAIN insts = 1 .. Len(insts) /\ cur \in {0} \cup InstanceIds
      /\ nav \in {0} \cup InstanceIds
  BY TypeFacts DEF IInv, TypeOK, InstanceIds
<1>1. CASE Client
  BY <1>1, ClientFollows
<1>2. ASSUME NEW id \in Ids, PollLoaded(id) PROVE FInv'
  BY <1>2, PollFollows
<1>3. ASSUME NEW id \in Ids, PollFailed(id) PROVE FInv'
  <2>1. /\ polls' = RemoveScript(polls, id) /\ UNCHANGED <<insts, last, shown, overlaps, cur>>
        /\ lost \subseteq lost'
        /\ insts[polls[id].tag.inst].stopped \/ polls[id].tag.inst \in lost'
    BY <1>3 DEF PollFailed, window
  <2>2. /\ DOMAIN polls' = DOMAIN polls \ {id}
        /\ \A x \in DOMAIN polls \ {id} : polls'[x] = polls[x]
    BY <2>1, RemovePolls
  <2>3. AnswersFit'
    BY <2>2 DEF AnswersFit, FInv
  <2> QED
    BY <2>1, <2>2, <2>3, FollowsStays
<1>4. ASSUME NEW i \in Ids, TimerFires(i) PROVE FInv'
  <2>1. i \in 1 .. Len(insts)
    BY <1>0, <1>4 DEF TimerFires
  <2>2. insts[i] \in Instances
    BY <1>0, <2>1, ElementOfSeq
  <2>3. PICK fired \in {[insts[i] EXCEPT !.timer = FALSE],
                       [insts[i] EXCEPT !.older = insts[i].older - 1]} :
          /\ fired.older \in Nat
          /\ Load([insts EXCEPT ![i] = fired], i, insts[i].page)
    BY <1>4, <2>2 DEF TimerFires, Instances
  <2>4. /\ fired \in Instances /\ fired.stopped = insts[i].stopped
        /\ fired.page = insts[i].page /\ fired.wasComplete = insts[i].wasComplete
    BY <2>2, <2>3 DEF Instances
  <2> DEFINE all == [insts EXCEPT ![i] = fired]
  <2>5. /\ all \in Seq(Instances) /\ Len(all) = Len(insts)
        /\ \A j \in 1 .. Len(insts) : all[j] = IF j = i THEN fired ELSE insts[j]
    BY <1>0, <2>1, <2>4, ExceptSeq
  <2>6. Load(all, i, insts[i].page) /\ insts[i].page \in Pages
    BY <2>2, <2>3 DEF Instances
  <2>7. UNCHANGED <<cur, last, shown, lost, overlaps>>
    BY <1>4 DEF TimerFires, window, history
  <2> HIDE DEF all
  <2>8. /\ i \in 1 .. Len(all) /\ all[i].page = insts[i].page
        /\ all[i].wasComplete = insts[i].wasComplete
        /\ \A j \in 1 .. Len(all) : /\ all[j].stopped = insts[j].stopped
                                    /\ j # i => all[j] = insts[j]
    BY <2>1, <2>4, <2>5
  <2> QED
    BY <2>5, <2>6, <2>7, <2>8, LoadFollows
<1>5. CASE PageLink \/ BrowserBack
  <2>1. PICK i \in InstanceIds, p \in Pages : Switch(i, p)
    BY <1>0, <1>5 DEF PageLink, BrowserBack, IInv, TypeOK
  <2>2. UNCHANGED <<cur, last, shown, lost>>
    BY <1>5 DEF PageLink, BrowserBack, window
  <2> DEFINE e   == [insts[i] EXCEPT !.timer = FALSE, !.wasComplete = FALSE]
             all == [insts EXCEPT ![i] = e]
  <2>3. insts[i] \in Instances
    BY <1>0, <2>1, ElementOfSeq
  <2>4. /\ e \in Instances /\ e.stopped = insts[i].stopped
        /\ e.page = insts[i].page /\ ~ e.wasComplete
    BY <2>3 DEF Instances
  <2>5. /\ Load([insts EXCEPT ![i].timer = FALSE, ![i].wasComplete = FALSE], i, p)
        /\ overlaps' = IF InFlight(i) # {} THEN overlaps \cup {i} ELSE overlaps
    BY <2>1 DEF Switch
  <2>6. [insts EXCEPT ![i].timer = FALSE, ![i].wasComplete = FALSE] = all
    BY <1>0, <2>3 DEF Instances
  <2> HIDE DEF e
  <2>7. /\ all \in Seq(Instances) /\ Len(all) = Len(insts)
        /\ \A j \in 1 .. Len(insts) : all[j] = IF j = i THEN e ELSE insts[j]
    BY <1>0, <2>4, ExceptSeq
  <2> HIDE DEF all
  <2>8. /\ i \in 1 .. Len(all) /\ Load(all, i, p) /\ all[i].page = insts[i].page
        /\ ~ all[i].wasComplete
        /\ \A j \in 1 .. Len(all) : /\ all[j].stopped = insts[j].stopped
                                    /\ j # i => all[j] = insts[j]
    BY <1>0, <2>4, <2>5, <2>6, <2>7
  <2> QED
    BY <2>2, <2>5, <2>7, <2>8, LoadFollows
<1>6. CASE SearchStarted
  <2>1. PICK id \in IoCheck(asked) : Open(Stop(insts, cur), Head(asked[id].json), FALSE)
    BY <1>6 DEF SearchStarted
  <2>2. Head(asked[id].json) \in Searches
    BY AskedStep DEF IInv
  <2>3. UNCHANGED <<last, lost, overlaps>>
    BY <1>6 DEF SearchStarted, history
  <2> QED
    BY <2>1, <2>2, <2>3, OpenFollows
<1>7. CASE BackOrForward \/ SearchTab \/ OtherTab
  <2>1. UNCHANGED <<last, lost, overlaps>>
    BY <1>7 DEF BackOrForward, SearchTab, OtherTab, history, window
  <2>2. CASE \E g \in Searches, force \in BOOLEAN : Open(Stop(insts, cur), g, force)
    BY <2>1, <2>2, OpenFollows
  <2>3. CASE ~ \E g \in Searches, force \in BOOLEAN : Open(Stop(insts, cur), g, force)
    <3>1. insts' = Stop(insts, cur) /\ cur' \in {cur, 0} /\ UNCHANGED <<polls, shown>>
      <4>1. CASE OtherTab
        BY <4>1 DEF OtherTab, window
      <4>2. CASE SearchTab
        <5>1. guid \in Searches
          BY SearchAssumption, <4>2 DEF SearchTab, Searches, IInv, TypeOK
        <5>2. Reload(guid, TRUE)
          BY <4>2 DEF SearchTab
        <5> QED
          BY <2>3, <5>1, <5>2 DEF Reload
      <4>3. CASE BackOrForward
        <5>1. PICK g \in {buttons.back, buttons.forward} \ {0} : Reload(g, FALSE)
          BY <4>3 DEF BackOrForward
        <5>2. g \in Searches
          BY SearchAssumption, <5>1 DEF Searches, IInv, TypeOK
        <5> QED
          BY <2>3, <5>1, <5>2 DEF Reload
      <4> QED
        BY <1>7, <4>1, <4>2, <4>3
    <3>2. cur # 0 => /\ insts'[cur].page = insts[cur].page
                     /\ insts'[cur].wasComplete = insts[cur].wasComplete
                     /\ insts'[cur].stopped
      <4>1. SUFFICES ASSUME cur # 0
                     PROVE  /\ insts'[cur].page = insts[cur].page
                            /\ insts'[cur].wasComplete = insts[cur].wasComplete
                            /\ insts'[cur].stopped
        OBVIOUS
      <4>2. insts[cur] \in Instances
        BY <1>0, <4>1, ElementOfSeq
      <4>3. insts' = [insts EXCEPT ![cur] = [insts[cur] EXCEPT !.stopped = TRUE]]
        BY <3>1, <4>1 DEF Stop
      <4>4. insts'[cur] = [insts[cur] EXCEPT !.stopped = TRUE]
        BY <1>0, <4>1, <4>3
      <4> QED
        BY <4>2, <4>4 DEF Instances
    <3>3. AnswersFit'
      BY <3>1 DEF AnswersFit, FInv
    <3>4. cur' # 0 => /\ insts'[cur].page = insts[cur].page
                      /\ insts'[cur].wasComplete = insts[cur].wasComplete
                      /\ insts[cur].stopped => insts'[cur].stopped
      BY <3>1, <3>2
    <3> QED
      BY <2>1, <3>1, <3>3, <3>4, FollowsStays
  <2> QED
    BY <2>2, <2>3
<1>8. CASE StartSearch \/ SearchFailed \/ UNCHANGED vars
  <2>1. UNCHANGED <<polls, insts, cur, last, shown, lost, overlaps>>
    BY <1>8 DEF StartSearch, SearchFailed, vars, window, history
  <2>2. AnswersFit'
    BY <2>1 DEF AnswersFit, FInv
  <2> QED
    BY <2>1, <2>2, FollowsStays
<1> QED
  BY <1>1, <1>2, <1>3, <1>4, <1>5, <1>6, <1>7, <1>8 DEF Next, Page, User

LEMMA FollowsStart == Init => FInv
  BY DEF Init, FInv, AnswersFit, Cleared

----------------------------------------------------------------------------
(* Theorems                                                                *)

\* The instances, the polls in flight, the answer drawn and the buttons always
\* refer to searches and instances there are.
THEOREM SearchTypeCorrect == Spec => []TypeOK
<1>1. Spec => []IInv
  BY Start, Step, PTL DEF Spec
<1> QED
  BY <1>1, PTL DEF IInv

\* Of all the SearchResults ever made, the one the window knows at most has not
\* been stopped.
THEOREM OneAliveHolds == Spec => []OneAlive
<1>1. Spec => []IInv
  BY Start, Step, PTL DEF Spec
<1> QED
  BY <1>1, PTL DEF IInv

\* What is drawn is of the search the page is at, whatever was in flight when
\* the user went from one search to the next.
THEOREM ShownIsCurrentHolds == Spec => []ShownIsCurrent
<1>1. Spec => []IInv
  BY Start, Step, PTL DEF Spec
<1> QED
  BY <1>1, PTL DEF IInv

\* The current search has a timer or a poll until it is stopped or lost.
THEOREM KeepsPollingHolds == Spec => []KeepsPolling
<1>1. Spec => []IInv
  BY Start, Step, PTL DEF Spec
<1> QED
  BY <1>1, PTL DEF IInv

\* No timer, page link or browser history makes a stopped instance poll.
THEOREM AsksNoMoreHolds == Spec => AsksNoMore
<1>1. Spec => []IInv
  BY Start, Step, PTL DEF Spec
<1>2. IInv /\ [Next]_vars =>
        [\A i \in InstanceIds :
           insts[i].stopped => InFlight(i)' \subseteq InFlight(i)]_vars
  BY Step DEF NoMore
<1> QED
  BY <1>1, <1>2, PTL DEF Spec, AsksNoMore

\* A switch to another page of results takes, if no poll was in flight.
THEOREM SwitchFollowsHolds == Spec => []SwitchFollows
<1>1. Spec => [](IInv /\ FInv)
  BY Start, Step, FollowsStart, FollowsStep, PTL DEF Spec
<1>2. FInv => SwitchFollows
  BY DEF FInv, Following, SwitchFollows
<1> QED
  BY <1>1, <1>2, PTL
=============================================================================
