-------------------------- MODULE ProjectRequests --------------------------
(***************************************************************************)
(* Requests about projects, from the middleware to the database: the rate  *)
(* limiter and the list cache, both in Redis, the use cases on projects,   *)
(* and the audit trail.  One tenant, one identity, one page of the list.   *)
(*                                                                         *)
(* A request is a coroutine that others overtake at every await: each      *)
(* action is one command to Redis or the database.  Redis keeps its keys   *)
(* when the API process crashes; how long a key lives is left open, only   *)
(* whether it expires counts.  The publication of events changes nothing   *)
(* here.                                                                   *)
(***************************************************************************)
EXTENDS Integers, FiniteSets

CONSTANTS
  None, Projects,
  Workers,      \* the requests in flight
  Asked,        \* bound: statuses an update asks for, None for no status
  Limit,        \* requests per window
  MaxRequests,  \* bound
  MaxFaults     \* bound: Redis errors, failed audit writes and crashes

ProjectStatus == {"active", "on_hold", "completed", "archived"}

Operations == {"list", "create", "update", "delete"}

ASSUME NoneAssumption == None \notin ProjectStatus \cup Operations
ASSUME AskedAssumption == Asked \subseteq ProjectStatus \cup {None}
ASSUME LimitAssumption == Limit \in Nat \ {0}

VARIABLES
  row,       \* status of each project, None without a row
  used,      \* the projects whose id was given out
  cache,     \* the cached list, if any: [list, expires]
  unsettled, \* a list that was out of date when it was cached, or whose
             \* invalidation did not happen, is in the cache
  count,     \* the counter of the rate limiter, 0 without a key
  expires,   \* whether that key has a time to live
  req,       \* where each request stands
  auditing,  \* number of audit tasks for changes to projects
  trail,     \* number of rows that they wrote
  commits,   \* number of committed changes to projects
  requests,  \* number of requests that have arrived
  faults     \* number of faults

redis == <<cache, unsettled, count, expires>>
database == <<row, used, commits>>
audit == <<auditing, trail>>
vars == <<redis, database, audit, req, requests, faults>>

(* copy and found are the status in the entity and in the row that merge   *)
(* found; page is the list a list request has read.                        *)
Idle == [at |-> "idle", op |-> None, p |-> None, asks |-> None,
         copy |-> None, found |-> None, page |-> None]
At(w, place) == req[w].at = place
Goes(w, place) == req' = [req EXCEPT ![w].at = place]
Ends(w) == req' = [req EXCEPT ![w] = Idle]
Faulty == faults < MaxFaults /\ faults' = faults + 1
-----------------------------------------------------------------------------
(* The rate limiter counts the request before anything else happens to it. *)

Arrive(w, op, p, asks) ==
  /\ At(w, "idle")
  /\ requests < MaxRequests
  /\ requests' = requests + 1
  /\ op = "create" => p \notin used
  /\ used' = IF op = "create" THEN used \cup {p} ELSE used
  /\ req' = [req EXCEPT ![w] = [Idle EXCEPT !.at = "count", !.op = op, !.p = p, !.asks = asks]]
  /\ UNCHANGED <<redis, row, commits, audit, faults>>

\* Variant with a fault: counts start at 0.
IsFirst(n) == n = 0
FirstOfWindow(n) == n = 1

(* INCR; a request over the limit is refused, after a TTL for the answer's *)
(* header, which changes nothing: should it fail, LimiterFails counts the  *)
(* request and lets it run, as the handler of the exception does.          *)
Count(w) ==
  /\ At(w, "count")
  /\ count' = count + 1
  /\ IF count' > Limit THEN Ends(w)
     ELSE Goes(w, IF FirstOfWindow(count') THEN "expire" ELSE "run")
  /\ UNCHANGED <<cache, unsettled, expires, database, audit, requests, faults>>

Expire(w) ==
  /\ At(w, "expire")
  /\ expires' = TRUE
  /\ Goes(w, "run")
  /\ UNCHANGED <<cache, unsettled, count, database, audit, requests, faults>>

(* A RedisError, with or without the command's effect: fail open.          *)
LimiterFails(w) ==
  /\ Faulty
  /\ Goes(w, "run")
  /\ \/ At(w, "count") /\ count' \in {count, count + 1} /\ expires' = expires
     \/ At(w, "expire") /\ expires' \in {expires, TRUE} /\ count' = count
  /\ UNCHANGED <<cache, unsettled, database, audit, requests>>

WindowEnds ==
  /\ expires
  /\ expires' = FALSE
  /\ count' = 0
  /\ UNCHANGED <<cache, unsettled, database, audit, req, requests, faults>>
-----------------------------------------------------------------------------
(* list_projects: cache-aside.                                             *)

CacheGet(w) ==
  /\ At(w, "run") /\ req[w].op = "list"
  /\ IF cache # None THEN Ends(w) ELSE Goes(w, "query")
  /\ UNCHANGED <<redis, database, audit, requests, faults>>

CacheGetFails(w) ==
  /\ Faulty
  /\ At(w, "run") /\ req[w].op = "list" /\ cache # None
  /\ Goes(w, "query")
  /\ UNCHANGED <<redis, database, audit, requests>>

Query(w) ==
  /\ At(w, "query")
  /\ req' = [req EXCEPT ![w].page = row, ![w].at = "fill"]
  /\ UNCHANGED <<redis, database, audit, requests, faults>>

\* Variant with a fault: SET without a time to live.
Lasting(list) == [list |-> list, expires |-> FALSE]
Entry(list) == [list |-> list, expires |-> TRUE]

CacheSet(w) ==
  /\ At(w, "fill")
  /\ cache' = Entry(req[w].page)
  /\ unsettled' = (req[w].page # row)
  /\ Ends(w)
  /\ UNCHANGED <<count, expires, database, audit, requests, faults>>

CacheSetFails(w) ==
  /\ Faulty
  /\ At(w, "fill")
  /\ Ends(w)
  /\ UNCHANGED <<redis, database, audit, requests>>

CacheExpires ==
  /\ cache # None
  /\ cache.expires
  /\ cache' = None /\ unsettled' = FALSE
  /\ UNCHANGED <<count, expires, database, audit, req, requests, faults>>
-----------------------------------------------------------------------------
(* The use cases that write.  The last statement of a transaction and its  *)
(* commit are one step: until then nobody sees the row, and a request for  *)
(* the same row waits.                                                     *)

ValidTransitions ==
  [active |-> {"on_hold", "completed", "archived"}, on_hold |-> {"active", "archived"},
   completed |-> {"archived"}, archived |-> {}]

\* Variant with a fault: a commit after which the cache is left alone.
CommitsOnly(w, status) ==
  /\ row' = [row EXCEPT ![req[w].p] = status]
  /\ commits' = commits + 1
  /\ Goes(w, "respond")
  /\ UNCHANGED <<redis, used, audit, requests, faults>>
(* Commits the row of a request, which then invalidates the cache.         *)
Commit(w, status) ==
  /\ row' = [row EXCEPT ![req[w].p] = status]
  /\ commits' = commits + 1
  /\ Goes(w, "invalidate")
  /\ UNCHANGED <<redis, used, audit, requests, faults>>

(* A request that raises leaves the database alone.                        *)
Raises(w) == Ends(w) /\ UNCHANGED <<redis, database, audit, requests, faults>>

CreateProject(w) ==
  /\ At(w, "run") /\ req[w].op = "create"
  /\ Commit(w, "active")

(* update_project up to its call of update(): a status that is not the old *)
(* one needs a legal transition.                                           *)
Load(w) ==
  /\ At(w, "run") /\ req[w].op \in {"update", "delete"}
  /\ LET old == row[req[w].p]
         new == req[w].asks IN
     IF \/ old = None
        \/ new \notin {None, old} /\ new \notin ValidTransitions[old]
     THEN Ends(w)
     ELSE req' = [req EXCEPT ![w].copy = IF new = None THEN old ELSE new,
                             ![w].at = IF req[w].op = "update" THEN "merge" ELSE "delete"]
  /\ UNCHANGED <<redis, database, audit, requests, faults>>

\* Variant with a fault: the copy is not taken along.
MergeBlank(w) ==
  /\ At(w, "merge")
  /\ req' = [req EXCEPT ![w].found = row[req[w].p], ![w].copy = None, ![w].at = "write"]
  /\ UNCHANGED <<redis, database, audit, requests, faults>>

(* The SELECT of session.merge.                                            *)
Merge(w) ==
  /\ At(w, "merge")
  /\ req' = [req EXCEPT ![w].found = row[req[w].p], ![w].at = "write"]
  /\ UNCHANGED <<redis, database, audit, requests, faults>>

(* INSERT if it found no row, otherwise UPDATE of the columns that differ; *)
(* updated_at always does.                                                 *)
Write(w) ==
  /\ At(w, "write")
  /\ LET now == row[req[w].p] IN
     \/ (req[w].found = None) # (now = None) /\ Raises(w)
     \/ /\ (req[w].found = None) = (now = None)
        /\ Commit(w, IF req[w].copy # req[w].found THEN req[w].copy ELSE now)

DeleteProject(w) ==
  /\ At(w, "delete")
  /\ Commit(w, None)

(* SCAN and DEL.  The one page there is here is found by the SCAN or not   *)
(* there yet, so one step has the effect of both.                          *)
Invalidate(w) ==
  /\ At(w, "invalidate")
  /\ cache' = None /\ unsettled' = FALSE
  /\ Goes(w, "respond")
  /\ UNCHANGED <<count, expires, database, audit, requests, faults>>

InvalidateFails(w) ==
  /\ Faulty
  /\ At(w, "invalidate")
  /\ unsettled' = (cache # None)
  /\ Goes(w, "respond")
  /\ UNCHANGED <<cache, count, expires, database, audit, requests>>
-----------------------------------------------------------------------------
(* The audit middleware sits inside the rate limiter.  It starts a task    *)
(* for a request with a writing method; tasks for requests that changed    *)
(* nothing are left out.                                                   *)

\* Variant with a fault: DELETE is not an auditable method.
NotDeletions(op) == op \in {"create", "update"}
Auditable(op) == op \in {"create", "update", "delete"}

Respond(w) ==
  /\ At(w, "respond")
  /\ auditing' = IF Auditable(req[w].op) THEN auditing + 1 ELSE auditing
  /\ Ends(w)
  /\ UNCHANGED <<redis, database, trail, requests, faults>>

PersistAuditLog ==
  /\ auditing > 0
  /\ auditing' = auditing - 1
  /\ trail' = trail + 1
  /\ UNCHANGED <<redis, database, req, requests, faults>>

PersistFails ==
  /\ Faulty
  /\ auditing > 0
  /\ auditing' = auditing - 1
  /\ UNCHANGED <<redis, database, trail, req, requests>>

Crash ==
  /\ Faulty
  /\ unsettled' = (unsettled \/ (cache # None /\ \E w \in Workers : At(w, "invalidate")))
  /\ req' = [w \in Workers |-> Idle]
  /\ auditing' = 0
  /\ UNCHANGED <<cache, count, expires, database, trail, requests>>
-----------------------------------------------------------------------------
Init ==
  /\ row = [p \in Projects |-> None] /\ used = {}
  /\ cache = None /\ unsettled = FALSE
  /\ count = 0 /\ expires = FALSE
  /\ req = [w \in Workers |-> Idle]
  /\ auditing = 0 /\ trail = 0 /\ commits = 0
  /\ requests = 0 /\ faults = 0

Step(w) ==
  \/ Count(w) \/ Expire(w)
  \/ CacheGet(w) \/ Query(w) \/ CacheSet(w)
  \/ CreateProject(w) \/ Load(w) \/ Merge(w) \/ Write(w) \/ DeleteProject(w)
  \/ Invalidate(w) \/ Respond(w)

Fails(w) == LimiterFails(w) \/ CacheGetFails(w) \/ CacheSetFails(w) \/ InvalidateFails(w)

Next ==
  \/ \E w \in Workers :
       \/ Arrive(w, "list", None, None)
       \/ \E p \in Projects :
            \/ Arrive(w, "create", p, None) \/ Arrive(w, "delete", p, None)
            \/ \E asks \in Asked : Arrive(w, "update", p, asks)
       \/ Step(w) \/ Fails(w)
  \/ WindowEnds \/ CacheExpires \/ PersistAuditLog \/ PersistFails \/ Crash

(* The event loop resumes every coroutine, and Redis removes what expires. *)
Fairness ==
  /\ \A w \in Workers : WF_vars(Step(w))
  /\ WF_vars(WindowEnds) /\ WF_vars(CacheExpires) /\ WF_vars(PersistAuditLog)

Spec == Init /\ [][Next]_vars
FairSpec == Spec /\ Fairness
-----------------------------------------------------------------------------
(* Properties.                                                             *)

Lists == [Projects -> ProjectStatus \cup {None}]
Places == {"idle", "count", "expire", "run", "query", "fill", "merge", "write",
           "delete", "invalidate", "respond"}

\* A request has a subject where it needs one, a copy where it writes one
\* back, and every stored value is one the code stores.
TypeOK ==
  /\ row \in Lists /\ used \subseteq Projects
  /\ cache \in [list : Lists, expires : BOOLEAN] \cup {None}
  /\ unsettled \in BOOLEAN /\ expires \in BOOLEAN
  /\ count \in Nat /\ auditing \in Nat /\ trail \in Nat
  /\ commits \in Nat /\ requests \in Nat /\ faults \in Nat
  /\ req \in [Workers -> [at : Places, op : Operations \cup {None},
                          p : Projects \cup {None}, asks : ProjectStatus \cup {None},
                          copy : ProjectStatus \cup {None},
                          found : ProjectStatus \cup {None}, page : Lists \cup {None}]]
  /\ \A w \in Workers :
       /\ req[w].op \in {"create", "update", "delete"} => req[w].p \in Projects
       /\ At(w, "fill") => req[w].page \in Lists
       /\ At(w, "merge") \/ At(w, "write") => req[w].copy \in ProjectStatus
       /\ req[w].at \in {"merge", "write", "delete", "invalidate", "respond"} =>
            req[w].op \in {"create", "update", "delete"}

\* A cached list that differs from the database is about to be invalidated by
\* the request that changed the database, unless it was out of date when it
\* was stored, or Redis or the process failed before the invalidation.
StaleIsExplained ==
  cache # None /\ cache.list # row =>
    unsettled \/ \E w \in Workers : At(w, "invalidate")

\* Without a fault, a counter that has no time to live is about to get one
\* from the request that created it: no identity stays blocked.
NeverStuckQuietly ==
  faults = 0 /\ count > 0 /\ ~expires => \E w \in Workers : At(w, "expire")

\* Once nobody writes any more the list is fresh, whatever raced or failed:
\* staleness is bounded by the time to live.
FreshInTheEnd == <>[](cache = None \/ cache.list = row)

\* An identity that has used up its window gets a new one.
BlockEnds == [](faults = 0) => (count > Limit ~> count = 0)

\* Every change that is committed is in the audit trail, in the end, although
\* nobody waits for the tasks that write it.
AuditedInTheEnd == [](faults = 0) => <>[](trail = commits)
=============================================================================
