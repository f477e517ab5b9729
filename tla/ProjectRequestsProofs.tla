----------------------- MODULE ProjectRequestsProofs -----------------------
(***************************************************************************)
(* Safety of ProjectRequests for any number of projects, requests in       *)
(* flight and faults, and any limit of the rate limiter.                   *)
(***************************************************************************)
EXTENDS ProjectRequests, TLAPS

Request ==
  [at : Places, op : Operations \cup {None},
   p : Projects \cup {None}, asks : ProjectStatus \cup {None},
   copy : ProjectStatus \cup {None},
   found : ProjectStatus \cup {None}, page : Lists \cup {None}]

(* What the code has put into a request that stands where r stands.        *)
Fits(r) ==
  /\ r \in Request
  /\ r.op \in {"create", "update", "delete"} => r.p \in Projects
  /\ r.at = "fill" => r.page \in Lists
  /\ r.at \in {"merge", "write"} => r.copy \in ProjectStatus
  /\ r.at \in {"merge", "write", "delete", "invalidate", "respond"} =>
       r.op \in {"create", "update", "delete"}

RequestsOK == req \in [Workers -> Request] /\ \A w \in Workers : Fits(req[w])

TablesOK ==
  /\ row \in Lists /\ used \subseteq Projects
  /\ cache \in [list : Lists, expires : BOOLEAN] \cup {None}

FlagsOK == unsettled \in BOOLEAN /\ expires \in BOOLEAN

CountersOK ==
  /\ count \in Nat /\ auditing \in Nat /\ trail \in Nat
  /\ commits \in Nat /\ requests \in Nat /\ faults \in Nat

(* The inductive invariant.                                                *)
Inv ==
  /\ RequestsOK /\ TablesOK /\ FlagsOK /\ CountersOK
  /\ StaleIsExplained /\ NeverStuckQuietly

(* Request w is at r now, the others are where they were.                  *)
Becomes(w, r) == req' = [req EXCEPT ![w] = r]
-----------------------------------------------------------------------------
LEMMA IdleFits == Fits(Idle)
BY NoneAssumption DEF Fits, Request, Idle, Places, Operations

LEMMA OneRequestChanges ==
  ASSUME RequestsOK, NEW w \in Workers, NEW r, Fits(r), Becomes(w, r)
  PROVE  RequestsOK' /\ req'[w] = r /\ \A v \in Workers \ {w} : req'[v] = req[v]
<1>1. r \in Request
  BY DEF Fits
<1>2. /\ req' \in [Workers -> Request]
      /\ req'[w] = r /\ \A v \in Workers \ {w} : req'[v] = req[v]
  BY <1>1 DEF RequestsOK, Becomes
<1>3. \A v \in Workers : Fits(req'[v])
  BY <1>2 DEF RequestsOK
<1> QED
  BY <1>2, <1>3 DEF RequestsOK

LEMMA Ending ==
  ASSUME RequestsOK, NEW w \in Workers, Ends(w)
  PROVE  RequestsOK' /\ req'[w] = Idle /\ \A v \in Workers \ {w} : req'[v] = req[v]
BY IdleFits, OneRequestChanges DEF Ends, Becomes

(* Moving on needs what the next place needs.                              *)
LEMMA Going ==
  ASSUME RequestsOK, NEW w \in Workers, NEW place \in Places, Goes(w, place),
         place \in {"merge", "write", "fill"} => FALSE,
         place \in {"delete", "invalidate", "respond"} => req[w].op \in {"create", "update", "delete"}
  PROVE  /\ RequestsOK'
         /\ req'[w].at = place /\ \A v \in Workers \ {w} : req'[v] = req[v]
<1> DEFINE r == [req[w] EXCEPT !.at = place]
<1>1. req[w] \in Request /\ Fits(req[w])
  BY DEF RequestsOK
<1>2. Fits(r) /\ r.at = place
  BY <1>1 DEF Fits, Request, Places
<1>3. Becomes(w, r)
  BY <1>1 DEF Goes, Becomes, RequestsOK
<1> HIDE DEF r
<1> QED
  BY <1>2, <1>3, OneRequestChanges
-----------------------------------------------------------------------------
(* The two explanations survive a step after which whoever was about to    *)
(* invalidate, or to set the expiry, still is.                             *)

LEMMA StaleStays ==
  ASSUME StaleIsExplained, NEW w \in Workers, ~At(w, "invalidate"),
         \A v \in Workers \ {w} : req'[v] = req[v], UNCHANGED <<cache, row, unsettled>>
  PROVE  StaleIsExplained'
BY DEF StaleIsExplained, At

LEMMA StuckStays ==
  ASSUME NeverStuckQuietly, NEW w \in Workers, ~At(w, "expire"),
         \A v \in Workers \ {w} : req'[v] = req[v], UNCHANGED <<count, expires, faults>>
  PROVE  NeverStuckQuietly'
BY DEF NeverStuckQuietly, At

LEMMA InitInv == Init => Inv
<1> SUFFICES ASSUME Init PROVE Inv
  OBVIOUS
<1>1. RequestsOK
  <2>1. req = [w \in Workers |-> Idle] /\ Idle \in Request
    BY IdleFits DEF Init, Fits
  <2> QED
    BY <2>1, IdleFits DEF RequestsOK
<1>2. TablesOK /\ FlagsOK /\ CountersOK
  BY DEF Init, TablesOK, FlagsOK, CountersOK, Lists
<1>3. StaleIsExplained /\ NeverStuckQuietly
  BY DEF Init, StaleIsExplained, NeverStuckQuietly
<1> QED
  BY <1>1, <1>2, <1>3 DEF Inv
-----------------------------------------------------------------------------
(* The rate limiter.                                                       *)

LEMMA ArriveKeepsInv ==
  ASSUME Inv, NEW w \in Workers, NEW op \in Operations, NEW p \in Projects \cup {None},
         NEW asks \in ProjectStatus \cup {None}, op # "list" => p \in Projects,
         Arrive(w, op, p, asks)
  PROVE  Inv'
<1> DEFINE r == [Idle EXCEPT !.at = "count", !.op = op, !.p = p, !.asks = asks]
<1>1. Fits(r)
  BY NoneAssumption DEF Fits, Request, Idle, Places, Operations
<1>2. Becomes(w, r)
  BY DEF Arrive, Becomes
<1>3. RequestsOK' /\ \A v \in Workers \ {w} : req'[v] = req[v]
  <2> HIDE DEF r
  <2> QED
    BY <1>1, <1>2, OneRequestChanges DEF Inv
<1>4. TablesOK' /\ FlagsOK'
  BY DEF Arrive, Inv, TablesOK, FlagsOK, redis, Operations
<1>5. CountersOK'
  BY DEF Arrive, Inv, CountersOK, redis, audit
<1>6. StaleIsExplained' /\ NeverStuckQuietly'
  BY <1>3, StaleStays, StuckStays DEF Arrive, Inv, At, redis
<1> QED
  BY <1>3, <1>4, <1>5, <1>6 DEF Inv

(* The request that creates the counter goes on to EXPIRE: a window admits *)
(* at least one request.                                                   *)
LEMMA CountKeepsInv ==
  ASSUME Inv, NEW w \in Workers, Count(w)
  PROVE  Inv'
<1>1. /\ RequestsOK' /\ \A v \in Workers \ {w} : req'[v] = req[v]
      /\ count' = 1 => req'[w].at = "expire"
  <2>1. CASE count' > Limit
    BY <2>1, Ending, LimitAssumption DEF Count, Inv
  <2>2. CASE ~(count' > Limit) /\ FirstOfWindow(count')
    <3>1. Goes(w, "expire") /\ "expire" \in Places
      BY <2>2 DEF Count, Places
    <3> QED
      BY <3>1, Going DEF Inv
  <2>3. CASE ~(count' > Limit) /\ ~FirstOfWindow(count')
    <3>1. Goes(w, "run") /\ "run" \in Places
      BY <2>3 DEF Count, Places
    <3> QED
      BY <2>3, <3>1, Going DEF Inv, FirstOfWindow
  <2> QED
    BY <2>1, <2>2, <2>3
<1>2. TablesOK' /\ FlagsOK' /\ CountersOK'
  BY DEF Count, Inv, TablesOK, FlagsOK, CountersOK, database, audit
<1>3. StaleIsExplained'
  BY <1>1, StaleStays DEF Count, Inv, At, database
<1>4. NeverStuckQuietly'
  <2>1. CASE count = 0
    BY <2>1, <1>1 DEF Count, NeverStuckQuietly, At
  <2>2. CASE count > 0
    BY <2>2, <1>1 DEF Count, Inv, NeverStuckQuietly, At
  <2> QED
    BY <2>1, <2>2 DEF Inv, CountersOK
<1> QED
  BY <1>1, <1>2, <1>3, <1>4 DEF Inv

LEMMA ExpireKeepsInv ==
  ASSUME Inv, NEW w \in Workers, Expire(w)
  PROVE  Inv'
<1>1. RequestsOK' /\ \A v \in Workers \ {w} : req'[v] = req[v]
  <2>1. Goes(w, "run") /\ "run" \in Places
    BY DEF Expire, Places
  <2> QED
    BY <2>1, Going DEF Inv
<1>2. TablesOK' /\ FlagsOK' /\ CountersOK'
  BY DEF Expire, Inv, TablesOK, FlagsOK, CountersOK, database, audit
<1>3. StaleIsExplained' /\ NeverStuckQuietly'
  BY <1>1, StaleStays DEF Expire, Inv, NeverStuckQuietly, At, database
<1> QED
  BY <1>1, <1>2, <1>3 DEF Inv

LEMMA LimiterFailsKeepsInv ==
  ASSUME Inv, NEW w \in Workers, LimiterFails(w)
  PROVE  Inv'
<1>1. RequestsOK' /\ \A v \in Workers \ {w} : req'[v] = req[v]
  <2>1. Goes(w, "run") /\ "run" \in Places
    BY DEF LimiterFails, Places
  <2> QED
    BY <2>1, Going DEF Inv
<1>2. TablesOK'
  BY DEF LimiterFails, Inv, TablesOK, database
<1>3. CountersOK'
  <2>1. count' \in {count, count + 1} /\ faults' = faults + 1
    BY ZenonT(30) DEF LimiterFails, Faulty
  <2> QED
    BY <2>1 DEF LimiterFails, Inv, CountersOK, database, audit
<1>4. FlagsOK'
  BY DEF LimiterFails, Inv, FlagsOK
<1>5. StaleIsExplained'
  BY <1>1, StaleStays DEF LimiterFails, Inv, At, database
<1>6. NeverStuckQuietly'
  BY DEF LimiterFails, Faulty, Inv, CountersOK, NeverStuckQuietly
<1> QED
  BY <1>1, <1>2, <1>3, <1>4, <1>5, <1>6 DEF Inv

LEMMA WindowEndsKeepsInv ==
  ASSUME Inv, WindowEnds
  PROVE  Inv'
<1>1. RequestsOK' /\ TablesOK' /\ FlagsOK' /\ CountersOK'
  BY DEF WindowEnds, Inv, RequestsOK, TablesOK, FlagsOK, CountersOK, database, audit
<1>2. StaleIsExplained' /\ NeverStuckQuietly'
  BY DEF WindowEnds, Inv, StaleIsExplained, NeverStuckQuietly, At, database
<1> QED
  BY <1>1, <1>2 DEF Inv
-----------------------------------------------------------------------------
(* The list cache.                                                         *)

LEMMA CacheGetKeepsInv ==
  ASSUME Inv, NEW w \in Workers, CacheGet(w) \/ CacheGetFails(w)
  PROVE  Inv'
<1>1. Ends(w) \/ Goes(w, "query")
  BY DEF CacheGet, CacheGetFails
<1>2. RequestsOK' /\ \A v \in Workers \ {w} : req'[v] = req[v]
  BY <1>1, Ending, Going DEF Inv, Places
<1>3. TablesOK' /\ FlagsOK'
  BY DEF CacheGet, CacheGetFails, Inv, TablesOK, FlagsOK, redis, database
<1>4. CountersOK'
  BY DEF CacheGet, CacheGetFails, Faulty, Inv, CountersOK, redis, database, audit
<1>5. StaleIsExplained'
  BY <1>2, StaleStays DEF CacheGet, CacheGetFails, Inv, At, redis, database
<1>6. NeverStuckQuietly'
  <2>1. CASE CacheGet(w)
    BY <2>1, <1>2, StuckStays DEF CacheGet, Inv, At, redis
  <2>2. CASE CacheGetFails(w)
    BY <2>2 DEF CacheGetFails, Faulty, Inv, CountersOK, NeverStuckQuietly
  <2> QED
    BY <2>1, <2>2
<1> QED
  BY <1>2, <1>3, <1>4, <1>5, <1>6 DEF Inv

LEMMA QueryKeepsInv ==
  ASSUME Inv, NEW w \in Workers, Query(w)
  PROVE  Inv'
<1> DEFINE r == [req[w] EXCEPT !.page = row, !.at = "fill"]
<1>1. req[w] \in Request /\ Fits(req[w])
  BY DEF Inv, RequestsOK
<1>2. Fits(r)
  BY <1>1 DEF Fits, Request, Places, Inv, TablesOK
<1>3. Becomes(w, r)
  BY <1>1 DEF Query, Becomes, Inv, RequestsOK
<1>4. RequestsOK' /\ \A v \in Workers \ {w} : req'[v] = req[v]
  <2> HIDE DEF r
  <2> QED
    BY <1>2, <1>3, OneRequestChanges DEF Inv
<1>5. TablesOK' /\ FlagsOK' /\ CountersOK'
  BY DEF Query, Inv, TablesOK, FlagsOK, CountersOK, redis, database, audit
<1>6. StaleIsExplained' /\ NeverStuckQuietly'
  BY <1>4, StaleStays, StuckStays DEF Query, Inv, At, redis, database
<1> QED
  BY <1>4, <1>5, <1>6 DEF Inv

(* A list that is out of date when it is stored is remembered as such.     *)
LEMMA CacheSetKeepsInv ==
  ASSUME Inv, NEW w \in Workers, CacheSet(w)
  PROVE  Inv'
<1>1. RequestsOK' /\ \A v \in Workers \ {w} : req'[v] = req[v]
  BY Ending DEF CacheSet, Inv
<1>2. req[w].page \in Lists
  BY DEF CacheSet, At, Inv, RequestsOK, Fits
<1>3. cache' = [list |-> req[w].page, expires |-> TRUE] /\ unsettled' = (req[w].page # row)
  BY DEF CacheSet, Entry
<1>4. TablesOK'
  BY <1>2, <1>3 DEF CacheSet, Inv, TablesOK, database
<1>5. FlagsOK' /\ CountersOK'
  BY <1>3 DEF CacheSet, Inv, FlagsOK, CountersOK, database, audit
<1>6. StaleIsExplained'
  <2>1. row' = row /\ cache'.list = req[w].page
    BY <1>3 DEF CacheSet, database
  <2> QED
    BY <1>3, <2>1 DEF StaleIsExplained
<1>7. NeverStuckQuietly'
  BY <1>1, StuckStays DEF CacheSet, Inv, At
<1> QED
  BY <1>1, <1>4, <1>5, <1>6, <1>7 DEF Inv

LEMMA CacheSetFailsKeepsInv ==
  ASSUME Inv, NEW w \in Workers, CacheSetFails(w)
  PROVE  Inv'
<1>1. RequestsOK' /\ \A v \in Workers \ {w} : req'[v] = req[v]
  BY Ending DEF CacheSetFails, Inv
<1>2. TablesOK' /\ FlagsOK'
  BY DEF CacheSetFails, Inv, TablesOK, FlagsOK, redis, database
<1>3. CountersOK'
  BY DEF CacheSetFails, Faulty, Inv, CountersOK, redis, database, audit
<1>4. StaleIsExplained'
  BY <1>1, StaleStays DEF CacheSetFails, Inv, At, redis, database
<1>5. NeverStuckQuietly'
  BY DEF CacheSetFails, Faulty, Inv, CountersOK, NeverStuckQuietly
<1> QED
  BY <1>1, <1>2, <1>3, <1>4, <1>5 DEF Inv

LEMMA CacheExpiresKeepsInv ==
  ASSUME Inv, CacheExpires
  PROVE  Inv'
<1>1. RequestsOK' /\ TablesOK' /\ FlagsOK' /\ CountersOK'
  BY DEF CacheExpires, Inv, RequestsOK, TablesOK, FlagsOK, CountersOK, database, audit
<1>2. StaleIsExplained' /\ NeverStuckQuietly'
  BY DEF CacheExpires, Inv, StaleIsExplained, NeverStuckQuietly, At
<1> QED
  BY <1>1, <1>2 DEF Inv
-----------------------------------------------------------------------------
(* The transactions.                                                       *)

(* Committing a legal status puts the request before its invalidation.     *)
LEMMA CommitKeepsInv ==
  ASSUME Inv, NEW w \in Workers, NEW status \in ProjectStatus \cup {None},
         req[w].op \in {"create", "update", "delete"}, ~At(w, "expire"), Commit(w, status)
  PROVE  Inv'
<1>1. /\ RequestsOK' /\ req'[w].at = "invalidate"
      /\ \A v \in Workers \ {w} : req'[v] = req[v]
  <2>1. Goes(w, "invalidate") /\ "invalidate" \in Places
    BY DEF Commit, Places
  <2> QED
    BY <2>1, Going DEF Inv
<1>2. TablesOK' /\ FlagsOK' /\ CountersOK'
  <2>1. row' \in Lists
    BY DEF Commit, Inv, TablesOK, Lists
  <2>2. TablesOK'
    BY <2>1 DEF Commit, Inv, TablesOK, redis
  <2>3. FlagsOK' /\ CountersOK'
    BY DEF Commit, Inv, FlagsOK, CountersOK, redis, audit
  <2> QED
    BY <2>2, <2>3
<1>3. StaleIsExplained'
  BY <1>1 DEF StaleIsExplained, At
<1>4. NeverStuckQuietly'
  BY <1>1, StuckStays DEF Commit, Inv, redis
<1> QED
  BY <1>1, <1>2, <1>3, <1>4 DEF Inv

LEMMA RaisesKeepsInv ==
  ASSUME Inv, NEW w \in Workers, ~At(w, "invalidate"), ~At(w, "expire"), Raises(w)
  PROVE  Inv'
<1>1. RequestsOK' /\ \A v \in Workers \ {w} : req'[v] = req[v]
  BY Ending DEF Raises, Inv
<1>2. TablesOK' /\ FlagsOK' /\ CountersOK'
  BY DEF Raises, Inv, TablesOK, FlagsOK, CountersOK, redis, database, audit
<1>3. StaleIsExplained' /\ NeverStuckQuietly'
  BY <1>1, StaleStays, StuckStays DEF Raises, Inv, redis, database
<1> QED
  BY <1>1, <1>2, <1>3 DEF Inv

LEMMA CreateProjectKeepsInv ==
  ASSUME Inv, NEW w \in Workers, CreateProject(w)
  PROVE  Inv'
<1>1. "active" \in ProjectStatus
  BY DEF ProjectStatus
<1> QED
  BY <1>1, CommitKeepsInv DEF CreateProject, At

LEMMA LoadKeepsInv ==
  ASSUME Inv, NEW w \in Workers, Load(w)
  PROVE  Inv'
<1> DEFINE old == row[req[w].p]
           new == req[w].asks
           kept == IF new = None THEN old ELSE new
           place == IF req[w].op = "update" THEN "merge" ELSE "delete"
           r == [req[w] EXCEPT !.copy = kept, !.at = place]
<1>1. req[w] \in Request /\ Fits(req[w]) /\ req[w].op \in {"update", "delete"}
  BY DEF Load, Inv, RequestsOK
<1>2. old \in ProjectStatus \cup {None} /\ new \in ProjectStatus \cup {None}
  BY <1>1 DEF Fits, Request, Inv, TablesOK, Lists
<1>3. RequestsOK' /\ \A v \in Workers \ {w} : req'[v] = req[v]
  <2>1. CASE Ends(w)
    BY <2>1, Ending DEF Inv
  <2>2. CASE old # None /\ Becomes(w, r)
    <3>1. kept \in ProjectStatus /\ place \in {"merge", "delete"}
      BY <1>2, <2>2
    <3>2. r.op = req[w].op /\ r.p = req[w].p /\ r.at \in {"merge", "delete"} /\ r.copy \in ProjectStatus
      BY <1>1, <3>1 DEF Request
    <3>3. r \in Request
      <4> HIDE DEF kept, place
      <4> QED
        BY <1>1, <3>1 DEF Request, Places
    <3>4. Fits(r)
      <4> HIDE DEF r
      <4> QED
        BY <1>1, <3>2, <3>3 DEF Fits
    <3> HIDE DEF r
    <3> QED
      BY <2>2, <3>4, OneRequestChanges DEF Inv
  <2>3. Ends(w) \/ (old # None /\ Becomes(w, r))
    BY <1>1 DEF Load, Becomes, Inv, RequestsOK
  <2> QED
    BY <2>1, <2>2, <2>3
<1>4. TablesOK' /\ FlagsOK' /\ CountersOK'
  BY DEF Load, Inv, TablesOK, FlagsOK, CountersOK, redis, database, audit
<1>5. StaleIsExplained' /\ NeverStuckQuietly'
  BY <1>3, StaleStays, StuckStays DEF Load, Inv, At, redis, database
<1> QED
  BY <1>3, <1>4, <1>5 DEF Inv

LEMMA MergeKeepsInv ==
  ASSUME Inv, NEW w \in Workers, Merge(w)
  PROVE  Inv'
<1> DEFINE r == [req[w] EXCEPT !.found = row[req[w].p], !.at = "write"]
<1>1. req[w] \in Request /\ Fits(req[w]) /\ req[w].at = "merge"
  BY DEF Merge, At, Inv, RequestsOK
<1>2. row[req[w].p] \in ProjectStatus \cup {None}
  BY <1>1 DEF Fits, Inv, TablesOK, Lists
<1>3. Fits(r)
  BY <1>1, <1>2 DEF Fits, Request, Places
<1>4. Becomes(w, r)
  BY <1>1 DEF Merge, Becomes, Inv, RequestsOK
<1>5. RequestsOK' /\ \A v \in Workers \ {w} : req'[v] = req[v]
  <2> HIDE DEF r
  <2> QED
    BY <1>3, <1>4, OneRequestChanges DEF Inv
<1>6. TablesOK' /\ FlagsOK' /\ CountersOK'
  BY DEF Merge, Inv, TablesOK, FlagsOK, CountersOK, redis, database, audit
<1>7. StaleIsExplained' /\ NeverStuckQuietly'
  BY <1>5, StaleStays, StuckStays DEF Merge, Inv, At, redis, database
<1> QED
  BY <1>5, <1>6, <1>7 DEF Inv

LEMMA WriteKeepsInv ==
  ASSUME Inv, NEW w \in Workers, Write(w)
  PROVE  Inv'
<1>1. Fits(req[w]) /\ req[w].at = "write"
  BY DEF Write, At, Inv, RequestsOK
<1>2. ~At(w, "invalidate") /\ ~At(w, "expire")
  BY <1>1 DEF At
<1>3. CASE Raises(w)
  BY <1>2, <1>3, RaisesKeepsInv
<1>4. CASE Commit(w, IF req[w].copy # req[w].found THEN req[w].copy ELSE row[req[w].p])
  <2>1. req[w].copy \in ProjectStatus /\ row[req[w].p] \in ProjectStatus \cup {None}
    BY <1>1 DEF Fits, Inv, TablesOK, Lists
  <2>2. req[w].op \in {"create", "update", "delete"}
    BY <1>1 DEF Fits
  <2> QED
    BY <1>2, <1>4, <2>1, <2>2, CommitKeepsInv
<1> QED
  BY <1>3, <1>4 DEF Write

LEMMA DeleteProjectKeepsInv ==
  ASSUME Inv, NEW w \in Workers, DeleteProject(w)
  PROVE  Inv'
<1>1. Fits(req[w]) /\ req[w].at = "delete"
  BY DEF DeleteProject, At, Inv, RequestsOK
<1> QED
  BY <1>1, CommitKeepsInv DEF DeleteProject, Fits, At

LEMMA InvalidateKeepsInv ==
  ASSUME Inv, NEW w \in Workers, Invalidate(w) \/ InvalidateFails(w)
  PROVE  Inv'
<1>1. RequestsOK' /\ \A v \in Workers \ {w} : req'[v] = req[v]
  <2>1. Goes(w, "respond") /\ "respond" \in Places /\ req[w].at = "invalidate"
    BY DEF Invalidate, InvalidateFails, At, Places
  <2>2. req[w].op \in {"create", "update", "delete"}
    BY <2>1 DEF Inv, RequestsOK, Fits
  <2> QED
    BY <2>1, <2>2, Going DEF Inv
<1>2. TablesOK'
  BY DEF Invalidate, InvalidateFails, Inv, TablesOK, database
<1>3. FlagsOK'
  BY DEF Invalidate, InvalidateFails, Inv, FlagsOK
<1>4. CountersOK'
  BY DEF Invalidate, InvalidateFails, Faulty, Inv, CountersOK, database, audit
<1>5. StaleIsExplained'
  BY DEF Invalidate, InvalidateFails, StaleIsExplained
<1>6. NeverStuckQuietly'
  <2>1. CASE Invalidate(w)
    BY <2>1, <1>1, StuckStays DEF Invalidate, Inv, At
  <2>2. CASE InvalidateFails(w)
    BY <2>2 DEF InvalidateFails, Faulty, Inv, CountersOK, NeverStuckQuietly
  <2> QED
    BY <2>1, <2>2
<1> QED
  BY <1>1, <1>2, <1>3, <1>4, <1>5, <1>6 DEF Inv
-----------------------------------------------------------------------------
(* The audit trail, and the crash.                                         *)

LEMMA RespondKeepsInv ==
  ASSUME Inv, NEW w \in Workers, Respond(w)
  PROVE  Inv'
<1>1. RequestsOK' /\ \A v \in Workers \ {w} : req'[v] = req[v]
  BY Ending DEF Respond, Inv
<1>2. TablesOK' /\ FlagsOK'
  BY DEF Respond, Inv, TablesOK, FlagsOK, redis, database
<1>3. CountersOK'
  BY DEF Respond, Inv, CountersOK, redis, database
<1>4. StaleIsExplained' /\ NeverStuckQuietly'
  BY <1>1, StaleStays, StuckStays DEF Respond, Inv, At, redis, database
<1> QED
  BY <1>1, <1>2, <1>3, <1>4 DEF Inv

LEMMA PersistAuditLogKeepsInv ==
  ASSUME Inv, PersistAuditLog \/ PersistFails
  PROVE  Inv'
<1>1. RequestsOK' /\ TablesOK' /\ FlagsOK'
  BY DEF PersistAuditLog, PersistFails, Inv, RequestsOK, TablesOK, FlagsOK, redis, database
<1>2. CountersOK'
  BY DEF PersistAuditLog, PersistFails, Faulty, Inv, CountersOK, redis, database
<1>3. StaleIsExplained'
  BY DEF PersistAuditLog, PersistFails, Inv, StaleIsExplained, At, redis, database
<1>4. NeverStuckQuietly'
  BY DEF PersistAuditLog, PersistFails, Faulty, Inv, CountersOK, NeverStuckQuietly, At, redis
<1> QED
  BY <1>1, <1>2, <1>3, <1>4 DEF Inv

LEMMA CrashKeepsInv ==
  ASSUME Inv, Crash
  PROVE  Inv'
<1>1. RequestsOK'
  <2>1. req' = [w \in Workers |-> Idle] /\ Idle \in Request
    BY IdleFits DEF Crash, Fits
  <2> QED
    BY <2>1, IdleFits DEF RequestsOK
<1>2. TablesOK'
  BY DEF Crash, Inv, TablesOK, database
<1>3. FlagsOK'
  BY DEF Crash, Inv, FlagsOK
<1>4. CountersOK'
  BY DEF Crash, Faulty, Inv, CountersOK, database
<1>5. StaleIsExplained'
  BY DEF Crash, Inv, StaleIsExplained, database
<1>6. NeverStuckQuietly'
  BY DEF Crash, Faulty, Inv, CountersOK, NeverStuckQuietly
<1> QED
  BY <1>1, <1>2, <1>3, <1>4, <1>5, <1>6 DEF Inv

LEMMA NextInv == Inv /\ [Next]_vars => Inv'
<1> SUFFICES ASSUME Inv, [Next]_vars PROVE Inv'
  OBVIOUS
<1>1. ASSUME NEW w \in Workers, Arrive(w, "list", None, None) PROVE Inv'
  BY <1>1, ArriveKeepsInv DEF Operations
<1>2. ASSUME NEW w \in Workers, NEW p \in Projects,
             Arrive(w, "create", p, None) \/ Arrive(w, "delete", p, None)
      PROVE  Inv'
  BY <1>2, ArriveKeepsInv DEF Operations
<1>3. ASSUME NEW w \in Workers, NEW p \in Projects, NEW asks \in Asked,
             Arrive(w, "update", p, asks)
      PROVE  Inv'
  BY <1>3, ArriveKeepsInv, AskedAssumption DEF Operations
<1>4. ASSUME NEW w \in Workers, Step(w) PROVE Inv'
  <2>1. CASE Count(w) \/ Expire(w)
    BY <2>1, CountKeepsInv, ExpireKeepsInv
  <2>2. CASE CacheGet(w) \/ Query(w) \/ CacheSet(w) \/ Invalidate(w)
    BY <2>2, CacheGetKeepsInv, QueryKeepsInv, CacheSetKeepsInv, InvalidateKeepsInv
  <2>3. CASE CreateProject(w) \/ Load(w) \/ Merge(w) \/ Write(w) \/ DeleteProject(w)
    BY <2>3, CreateProjectKeepsInv, LoadKeepsInv, MergeKeepsInv, WriteKeepsInv,
       DeleteProjectKeepsInv
  <2>4. CASE Respond(w)
    BY <2>4, RespondKeepsInv
  <2> QED
    BY <1>4, <2>1, <2>2, <2>3, <2>4 DEF Step
<1>5. ASSUME NEW w \in Workers, Fails(w) PROVE Inv'
  BY <1>5, LimiterFailsKeepsInv, CacheGetKeepsInv, CacheSetFailsKeepsInv, InvalidateKeepsInv
  DEF Fails
<1>6. CASE WindowEnds \/ CacheExpires \/ PersistAuditLog \/ PersistFails \/ Crash
  BY <1>6, WindowEndsKeepsInv, CacheExpiresKeepsInv, PersistAuditLogKeepsInv, CrashKeepsInv
<1>7. CASE UNCHANGED vars
  <2>1. UNCHANGED <<row, used, cache, unsettled, count, expires, req, auditing, trail,
                    commits, requests, faults>>
    BY <1>7 DEF vars, redis, database, audit
  <2> QED
    BY <2>1 DEF Inv, RequestsOK, TablesOK, FlagsOK, CountersOK, StaleIsExplained,
                NeverStuckQuietly, At
<1> QED
  BY <1>1, <1>2, <1>3, <1>4, <1>5, <1>6, <1>7 DEF Next

(* The invariant holds of every state the requests reach.                  *)
THEOREM Invariance == Spec => []Inv
<1> QED
  BY InitInv, NextInv, PTL DEF Spec

(* Rows, cache, counters and requests always have the shape the code gives *)
(* them; a request that is about to write has what it writes.              *)
THEOREM TypeCorrect == Spec => []TypeOK
<1>1. Inv => TypeOK
  <2> SUFFICES ASSUME Inv PROVE TypeOK
    OBVIOUS
  <2>1. \A w \in Workers :
          /\ req[w].op \in {"create", "update", "delete"} => req[w].p \in Projects
          /\ At(w, "fill") => req[w].page \in Lists
          /\ At(w, "merge") \/ At(w, "write") => req[w].copy \in ProjectStatus
          /\ req[w].at \in {"merge", "write", "delete", "invalidate", "respond"} =>
               req[w].op \in {"create", "update", "delete"}
    BY DEF Inv, RequestsOK, Fits, At
  <2> QED
    BY <2>1 DEF Inv, TypeOK, RequestsOK, TablesOK, FlagsOK, CountersOK, Request
<1> QED
  BY <1>1, Invariance, PTL

(* A cached project list that differs from the database is about to be     *)
(* invalidated, was stored by a list request that an update overtook, or   *)
(* lost its invalidation to a fault.                                       *)
THEOREM StaleListsAreExplained == Spec => []StaleIsExplained
<1> QED
  BY Invariance, PTL DEF Inv

(* Without a fault the rate limiter never leaves a counter without expiry. *)
THEOREM CountersExpire == Spec => []NeverStuckQuietly
<1> QED
  BY Invariance, PTL DEF Inv
=============================================================================
