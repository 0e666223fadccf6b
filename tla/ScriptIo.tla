------------------------------ MODULE ScriptIo ------------------------------
(***************************************************************************)
(* dojo.io.script, through which the pages ask the client on this computer *)
(* and the server: a request is a script element, and the script calls     *)
(* back with the JSON.  A pool maps each request in flight to what it asks *)
(* and, when its script has run, to the answer, in a sequence of at most   *)
(* one.  A request leaves the pool when its Deferred fires.                *)
(***************************************************************************)
EXTENDS Naturals, Sequences, FiniteSets

Requests(tags, answers) ==
  [tag : tags, json : {<<>>} \cup {<<answer>> : answer \in answers}]

\* The element is attached under a fresh id and watched.
Get(pool, id, tag) ==
  [i \in DOMAIN pool \cup {id} |->
     IF i = id THEN [tag |-> tag, json |-> <<>>] ELSE pool[i]]

\* Scripts that have not run yet: the callback is still registered for them.
Unanswered(pool) == {id \in DOMAIN pool : pool[id].json = <<>>}

\* The script runs.  The answer is kept; the Deferred fires later.
JsonpCallback(pool, id, json) == [pool EXCEPT ![id].json = <<json>>]

\* What the next look at the requests in flight finds finished.  One that is
\* not finished may be found timed out: the answer is looked at first.
IoCheck(pool) == DOMAIN pool \ Unanswered(pool)

\* The element is removed, and the callback with it: a later answer to a
\* request that timed out finds nobody.
RemoveScript(pool, id) == [i \in DOMAIN pool \ {id} |-> pool[i]]

\* An id for the next request: no two in flight have the same one.
FreshId(pool) ==
  CHOOSE id \in 1 .. Cardinality(DOMAIN pool) + 1 : id \notin DOMAIN pool
=============================================================================
