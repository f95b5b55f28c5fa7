--------------------------- MODULE GeocodeProofs ---------------------------
(***************************************************************************)
(* geocode() against the quarterly refresh, proved for any requests,       *)
(* queries, rows, segments, states and versions: whatever is cached under  *)
(* a version is part of that version or of a later one; and an address     *)
(* that no refresh touches is found by its row, at any moment of one.      *)
(***************************************************************************)
EXTENDS Geocode, TLAPS, FiniteSetTheorems, WellFoundedInduction

\* A row or a segment that is still served once version v is published.
Lasts(source, v) == \E w \in source.versions : w >= v

\* A shard holds no rows that the deployed version has left behind.
Shards ==
    /\ deployed \in Nat
    /\ shard \in [States -> SUBSET Nat]
    /\ \A s \in States : \A v \in shard[s] : v >= deployed

\* What a request has read since it began is not older than its version.
Read(r) ==
    /\ version[r] \in Nat /\ version[r] <= deployed
    /\ pc[r] = "idle" => rows[r] = {}
    /\ pc[r] \in {"zip", "street"} => ParseState(query[r]) \in States
    /\ waiting[r] \subseteq States
    /\ \A w \in rows[r] : w.state \in States /\ Lasts(w, version[r])
    /\ pc[r] = "put" => Lasts(answer[r].source, version[r])

Tables ==
    /\ pc = [r \in Requests |-> pc[r]] /\ version = [r \in Requests |-> version[r]]
    /\ waiting = [r \in Requests |-> waiting[r]] /\ rows = [r \in Requests |-> rows[r]]
    /\ answer = [r \in Requests |-> answer[r]]
    /\ entries = [k \in Keys |-> entries[k]]

Fresh == Shards /\ Tables /\ NoDeletedRowsCached /\ \A r \in Requests : Read(r)

-----------------------------------------------------------------------------
(* The row that geocode() picks is one of those the shards answered.       *)

LEMMA FirstIs ==
  ASSUME NEW S, S \subseteq Nat, S # {}
  PROVE  First(S) \in S /\ \A j \in S : First(S) <= j
<1> DEFINE less == {p \in Nat \X Nat : p[1] < p[2]}
<1>1. IsWellFoundedOn(less, Nat)
  BY NatLessThanWellFounded DEF OpToRel
<1>2. \E i \in S : \A j \in S : ~(<<j, i>> \in less)
  <2> HIDE DEF less
  <2> QED
    BY <1>1, WFMin
<1>3. \A i, j \in Nat : <<j, i>> \in less <=> j < i
  OBVIOUS
<1>4. PICK i \in S : \A j \in S : ~(<<j, i>> \in less)
  BY <1>2
<1>5. \A j \in S : i <= j
  <2> TAKE j \in S
  <2>1. i \in Nat /\ j \in Nat /\ ~(j < i)
    BY <1>3, <1>4
  <2> QED
    BY <2>1
<1> QED
  BY <1>5 DEF First

LEMMA FirstIn == ASSUME NEW S, S \subseteq Nat, S # {} PROVE First(S) \in S
  BY FirstIs

LEMMA RowOfIn ==
  ASSUME NEW W, W # {}, \A w \in W : w.state \in States
  PROVE  RowOf(W, First({i \in DOMAIN states : \E w \in W : w.state = states[i]})) \in W
<1> DEFINE S == {i \in DOMAIN states : \E w \in W : w.state = states[i]}
<1>1. S # {}
  BY DEF States
<1>2. S \subseteq Nat
  BY StatesAssumption
<1>3. First(S) \in S
  BY <1>1, <1>2, FirstIn
<1> QED
  BY <1>3 DEF RowOf

LEMMA PreferredIn ==
  ASSUME NEW W, W # {}, \A w \in W : w.state \in States
  PROVE  Preferred(W) \in W
<1> DEFINE roofs == {w \in W : w.tier = "rooftop"}
           best == IF roofs # {} THEN roofs ELSE W
<1>1. best # {} /\ best \subseteq W
  OBVIOUS
<1>2. RowOf(best, First({i \in DOMAIN states : \E w \in best : w.state = states[i]})) \in best
  <2> HIDE DEF best
  <2> QED
    BY <1>1, RowOfIn
<1> QED
  BY <1>1, <1>2 DEF Preferred

-----------------------------------------------------------------------------
LEMMA InitFresh == Init => Fresh
<1> SUFFICES ASSUME Init PROVE Fresh
  OBVIOUS
<1>1. Shards
  BY DEF Init, Shards
<1>2. Tables
  BY DEF Init, Tables
<1>3. NoDeletedRowsCached
  BY DEF Init, NoDeletedRowsCached
<1>4. ASSUME NEW r \in Requests PROVE Read(r)
  BY <1>4 DEF Init, Read
<1> QED
  BY <1>1, <1>2, <1>3, <1>4 DEF Fresh

\* A refresh only adds rows of the next version and takes away what the next
\* version does not have; requests keep what they have read.
LEMMA RefreshFresh ==
  ASSUME Fresh,
         \/ \E s \in States : InsertNew(s) \/ DeleteOld(s)
         \/ Publish
  PROVE  Fresh'
<1>1. UNCHANGED <<entries, requestVars>> /\ deployed' \in Nat /\ deployed' >= deployed
  BY DEF Fresh, Shards, InsertNew, DeleteOld, Publish, vars
<1>2. Shards'
  <2>1. ASSUME NEW s \in States, InsertNew(s) PROVE Shards'
    BY <2>1 DEF Fresh, Shards, InsertNew
  <2>2. ASSUME NEW s \in States, DeleteOld(s) PROVE Shards'
    BY <2>2 DEF Fresh, Shards, DeleteOld
  <2>3. CASE Publish
    BY <2>3 DEF Fresh, Shards, Publish
  <2> QED
    BY <2>1, <2>2, <2>3
<1>3. Tables' /\ NoDeletedRowsCached'
  BY <1>1 DEF Fresh, Tables, NoDeletedRowsCached, requestVars
<1>4. ASSUME NEW r \in Requests PROVE Read(r)'
  <2>1. Read(r) /\ version[r] <= deployed'
    BY <1>1 DEF Fresh, Shards, Read
  <2> QED
    BY <1>1, <2>1 DEF Read, requestVars, Lasts
<1> QED
  BY <1>2, <1>3, <1>4 DEF Fresh

\* A step of a request changes that request alone and, at most, one entry.
LEMMA RequestFresh ==
  ASSUME Fresh, NEW r \in Requests,
         UNCHANGED <<shard, deployed, query>>,
         Tables', NoDeletedRowsCached', Read(r)',
         \A o \in Requests \ {r} :
            UNCHANGED <<pc[o], version[o], waiting[o], rows[o], answer[o]>>
  PROVE  Fresh'
<1>1. Shards'
  BY DEF Fresh, Shards
<1>2. ASSUME NEW o \in Requests PROVE Read(o)'
  BY DEF Fresh, Read, Lasts
<1> QED
  BY <1>1, <1>2 DEF Fresh

\* What a shard answers is a row of its state that the next version still has.
LEMMA MatchingLasts ==
  ASSUME Fresh, NEW r \in Requests, NEW s \in States, NEW w \in Matching(s, NormalizeQuery(query[r]))
  PROVE  w.state = s /\ Lasts(w, version[r])
<1>1. w.state = s /\ w.versions \cap shard[s] # {}
  BY DEF Matching, Held
<1>2. PICK v \in w.versions \cap shard[s] : v \in Nat /\ v >= deployed
  BY <1>1 DEF Fresh, Shards
<1>3. version[r] \in Nat /\ version[r] <= deployed /\ deployed \in Nat
  BY DEF Fresh, Read, Shards
<1> QED
  BY <1>1, <1>2, <1>3 DEF Lasts

LEMMA RankedIn == ASSUME NEW W, NEW w \in Ranked(W) PROVE w \in W
  BY DEF Ranked

\* So does a segment.
LEMMA OnStreetLasts ==
  ASSUME Fresh, NEW r \in Requests, NEW s \in States, NEW p, NEW g \in OnStreet(s, p)
  PROVE  Lasts(g, version[r])
<1>1. PICK v \in g.versions \cap shard[s] : v \in Nat /\ v >= deployed
  BY DEF OnStreet, Fresh, Shards
<1>2. version[r] \in Nat /\ version[r] <= deployed /\ deployed \in Nat
  BY DEF Fresh, Read, Shards
<1> QED
  BY <1>1, <1>2 DEF Lasts

-----------------------------------------------------------------------------
(* The steps of a request.                                                 *)

LEMMA AskFresh == ASSUME Fresh, NEW r \in Requests, Ask(r) PROVE Fresh'
<1>1. Tables' /\ NoDeletedRowsCached'
  BY DEF Ask, Fresh, Tables, Answered, NoDeletedRowsCached
<1>2. Read(r)'
  <2>1. version'[r] = deployed /\ deployed' = deployed /\ deployed \in Nat
    BY DEF Ask, Fresh, Tables, Shards
  <2>2. rows'[r] = {} /\ waiting'[r] \subseteq States /\ query' = query
    BY DEF Ask, Fresh, Read
  <2>3. pc'[r] \in {"answered", "cache"}
    BY DEF Ask, Fresh, Tables, Answered
  <2> QED
    BY <2>1, <2>2, <2>3 DEF Read
<1> QED
  BY <1>1, <1>2, RequestFresh DEF Ask, Answered, Fresh, Tables

LEMMA CacheFresh ==
  ASSUME Fresh, NEW r \in Requests, CacheHit(r) \/ CacheMiss(r) \/ KvFails(r) PROVE Fresh'
<1>1. Tables' /\ NoDeletedRowsCached'
  BY DEF CacheHit, CacheMiss, KvFails, Fresh, Tables, Answered, NoDeletedRowsCached
<1>2. Read(r)'
  <2>1. /\ version' = version /\ deployed' = deployed /\ rows' = rows /\ query' = query
        /\ waiting'[r] \subseteq States
    BY DEF CacheHit, CacheMiss, KvFails, Fresh, Read, Tables, Asked
  <2>2. pc'[r] \in {"answered", "shards"}
    BY DEF CacheHit, CacheMiss, KvFails, Fresh, Tables, Answered
  <2> QED
    BY <2>1, <2>2 DEF Read, Fresh, Lasts
<1> QED
  BY <1>1, <1>2, RequestFresh DEF CacheHit, CacheMiss, KvFails, Answered, Fresh, Tables

LEMMA ShardFresh ==
  ASSUME Fresh, NEW r \in Requests, NEW s \in States, QueryShard(r, s) \/ ShardFails(r, s)
  PROVE  Fresh'
<1>1. Tables' /\ NoDeletedRowsCached'
  BY DEF QueryShard, ShardFails, Fresh, Tables, NoDeletedRowsCached
<1>2. /\ UNCHANGED <<pc, version, deployed, query, answer>> /\ pc[r] = "shards"
      /\ waiting'[r] \subseteq States
  BY DEF QueryShard, ShardFails, Fresh, Read, Tables
<1>3. \A w \in rows'[r] : w.state \in States /\ Lasts(w, version[r])
  <2>1. \A w \in rows[r] : w.state \in States /\ Lasts(w, version[r])
    BY DEF Fresh, Read
  <2>2. CASE UNCHANGED rows
    BY <2>1, <2>2
  <2>3. ASSUME NEW w \in Ranked(Matching(s, NormalizeQuery(query[r]))),
               rows' = [rows EXCEPT ![r] = @ \cup {w}]
        PROVE  \A o \in rows'[r] : o.state \in States /\ Lasts(o, version[r])
    <3>1. w.state \in States /\ Lasts(w, version[r])
      BY RankedIn, MatchingLasts
    <3>2. rows'[r] = rows[r] \cup {w}
      BY <2>3 DEF Fresh, Tables
    <3> QED
      BY <2>1, <3>1, <3>2
  <2> QED
    BY <2>2, <2>3 DEF QueryShard, ShardFails
<1>4. Read(r)'
  BY <1>2, <1>3 DEF Fresh, Read, Lasts
<1> QED
  BY <1>1, <1>4, RequestFresh DEF QueryShard, ShardFails, Fresh, Tables

LEMMA ChooseFresh == ASSUME Fresh, NEW r \in Requests, Choose(r) PROVE Fresh'
<1>1. Tables' /\ NoDeletedRowsCached'
  BY DEF Choose, Fresh, Tables, Answered, NoDeletedRowsCached
<1>2. UNCHANGED <<version, deployed, query, rows, waiting>>
  BY DEF Choose
<1>3. pc'[r] \in {"zip", "street"} => ParseState(query[r]) \in States
  BY DEF Choose, Fresh, Tables, Answered
<1>4. pc'[r] = "put" => Lasts(answer'[r].source, version[r])
  <2> SUFFICES ASSUME pc'[r] = "put" PROVE Lasts(answer'[r].source, version[r])
    OBVIOUS
  <2>1. rows[r] # {} /\ answer'[r].source = Preferred(rows[r])
    BY DEF Choose, Fresh, Tables, Answered, Hit
  <2>2. \A w \in rows[r] : w.state \in States /\ Lasts(w, version[r])
    BY DEF Fresh, Read
  <2>3. Preferred(rows[r]) \in rows[r]
    BY <2>1, <2>2, PreferredIn
  <2> QED
    BY <2>1, <2>2, <2>3
<1>5. pc'[r] # "idle"
  BY DEF Choose, Fresh, Tables, Answered
<1>6. Read(r)'
  BY <1>2, <1>3, <1>4, <1>5 DEF Fresh, Read, Lasts
<1> QED
  BY <1>1, <1>6, RequestFresh DEF Choose, Answered, Fresh, Tables

LEMMA StreetFresh ==
  ASSUME Fresh, NEW r \in Requests, Interpolate(r) \/ SegmentsFail(r) PROVE Fresh'
<1>1. Tables' /\ NoDeletedRowsCached'
  BY DEF Interpolate, SegmentsFail, Fresh, Tables, Answered, NoDeletedRowsCached
<1>2. UNCHANGED <<version, deployed, query, rows, waiting>> /\ ParseState(query[r]) \in States
  BY DEF Interpolate, SegmentsFail, Fresh, Read
<1>3. pc'[r] = "put" => Lasts(answer'[r].source, version[r])
  <2> SUFFICES ASSUME pc'[r] = "put" PROVE Lasts(answer'[r].source, version[r])
    OBVIOUS
  <2>1. PICK g \in OnStreet(ParseState(query[r]), ParseHouseAndStreet(query[r])) :
            answer'[r].source = g
    BY DEF Interpolate, SegmentsFail, Fresh, Tables, Answered, Interpolated, Hit
  <2> QED
    BY <1>2, <2>1, OnStreetLasts
<1>4. pc'[r] \in {"put", "street", "answered"}
  BY DEF Interpolate, SegmentsFail, Fresh, Tables, Answered
<1>5. Read(r)'
  BY <1>2, <1>3, <1>4 DEF Fresh, Read, Lasts
<1> QED
  BY <1>1, <1>5, RequestFresh DEF Interpolate, SegmentsFail, Answered, Fresh, Tables

LEMMA PutFresh == ASSUME Fresh, NEW r \in Requests, Put(r) PROVE Fresh'
<1>1. Tables'
  BY DEF Put, Fresh, Tables, Answered
<1>2. NoDeletedRowsCached'
  <2> SUFFICES ASSUME NEW k \in Keys, entries'[k] # None
               PROVE  Lasts(entries'[k].source, k[1])
    BY DEF NoDeletedRowsCached, Lasts
  <2>1. CASE k = Key(r)
    <3>1. entries'[k] = answer[r] /\ k[1] = version[r]
      BY <2>1 DEF Put, Fresh, Tables, Key
    <3> QED
      BY <3>1 DEF Put, Fresh, Read
  <2>2. CASE k # Key(r)
    BY <2>2 DEF Put, Fresh, Tables, NoDeletedRowsCached, Lasts
  <2> QED
    BY <2>1, <2>2
<1>3. Read(r)'
  <2>1. UNCHANGED <<version, deployed, query, rows, waiting>> /\ pc'[r] = "answered"
    BY DEF Put, Fresh, Tables, Answered
  <2> QED
    BY <2>1 DEF Fresh, Read, Lasts
<1> QED
  BY <1>1, <1>2, <1>3, RequestFresh DEF Put, Answered, Fresh, Tables

-----------------------------------------------------------------------------
LEMMA NextFresh == Fresh /\ [Next]_vars => Fresh'
<1> SUFFICES ASSUME Fresh, [Next]_vars PROVE Fresh'
  OBVIOUS
<1>1. ASSUME NEW r \in Requests, Handle(r) \/ SegmentsFail(r) \/ KvFails(r) PROVE Fresh'
  BY <1>1, AskFresh, CacheFresh, ShardFresh, ChooseFresh, StreetFresh, PutFresh DEF Handle
<1>2. ASSUME NEW r \in Requests, NEW s \in States, ShardFails(r, s) PROVE Fresh'
  BY <1>2, ShardFresh
<1>3. CASE UNCHANGED vars
  BY <1>3 DEF vars, requestVars, Fresh, Shards, Tables, NoDeletedRowsCached, Read, Lasts
<1> QED
  BY <1>1, <1>2, <1>3, RefreshFresh DEF Next

\* geocode() under its runbook's promise that bumping GEO_VERSION last never caches
\* a row about to be deleted: in any interleaving of any requests with a refresh,
\* an entry of the KV cache is of its version or of a later one.
THEOREM NoDeletedRows == Spec => []NoDeletedRowsCached
<1>1. Fresh => NoDeletedRowsCached
  BY DEF Fresh
<1> QED
  BY <1>1, InitFresh, NextFresh, PTL DEF Spec

-----------------------------------------------------------------------------
(* What a query is answered with.  Two queries of the same words that name *)
(* the same state are due the same rows.                                   *)

AskedOf(q) == (IF ParseState(q) = None THEN States ELSE {ParseState(q)}) \cap States
DueOf(q) == {w \in Rows : /\ w.versions = Version /\ w.state \in AskedOf(q)
                          /\ Matches(w, NormalizeQuery(q))}
RooftopDue(q) ==
    /\ ParseState(q) = None
    /\ \E w \in DueOf(q) : \A o \in Rows :
            o.state = w.state /\ Matches(o, NormalizeQuery(q)) => o.tier = "rooftop"

\* A hit that takes nothing from an address that is due.
Right(q, hit) ==
    /\ DueOf(q) # {} => hit.source \in Rows
    /\ RooftopDue(q) => hit.match = "rooftop"

\* A hit that answers words, and rightly unless a shard failed on the way.
AnswerTo(hit, norm) ==
    /\ hit \in Hits /\ NormalizeQuery(hit.asked) = norm
    /\ ~hit.troubled => Right(hit.asked, hit)

\* A shard holds some version, the deployed one or the next, and both in between.
Served ==
    /\ deployed \in Version
    /\ shard \in [States -> SUBSET Version]
    /\ \A s \in States : shard[s] \in {{deployed}, {deployed, deployed + 1}, {deployed + 1}}

Posed == query \in [Requests -> Queries] /\ troubled \in [Requests -> BOOLEAN]
Kept == \A k \in Keys : entries[k] # None => AnswerTo(entries[k], k[2])

Typed(r) ==
    /\ pc[r] \in {"idle", "cache", "shards", "zip", "street", "put", "answered"}
    /\ version[r] \in 1..deployed
    /\ waiting[r] \subseteq AskedOf(query[r]) /\ (pc[r] # "shards" => waiting[r] = {})
    /\ pc[r] \in {"idle", "cache"} => rows[r] = {}
    /\ \A w \in rows[r] : w \in Rows /\ w.state \in AskedOf(query[r]) \ waiting[r]
    /\ pc[r] \in {"put", "answered"} <=> answer[r] # None
    /\ answer[r] \in Hits \cup {NOT_FOUND, Error, None}

\* The shards of the rows that are due to it have yet to answer, or have.
Reads(r) ==
    /\ \A o \in rows[r] : Matches(o, NormalizeQuery(query[r]))
    /\ pc[r] = "shards" /\ ~troubled[r] =>
            \A w \in DueOf(query[r]) : w.state \in waiting[r] \/ \E o \in rows[r] : o.state = w.state
    /\ pc[r] \in {"zip", "street"} /\ ~troubled[r] => DueOf(query[r]) = {}

\* A request of an address that went undisturbed.
Searched(r) ==
    /\ pc[r] = "answered" /\ answer[r] # Error /\ ~troubled[r]
    /\ query[r] \notin Coordinates /\ HasHouseNumber(NormalizeQuery(query[r]))

Answers(r) ==
    /\ pc[r] = "put" =>
            /\ answer[r] \in Hits /\ answer[r].asked = query[r] /\ answer[r].troubled = troubled[r]
            /\ ~troubled[r] => Right(query[r], answer[r])
    /\ Searched(r) =>
            IF answer[r] = NOT_FOUND THEN DueOf(query[r]) = {}
            ELSE AnswerTo(answer[r], NormalizeQuery(query[r]))

Inv ==
    /\ Fresh /\ Served /\ Posed /\ Kept
    /\ \A r \in Requests : Typed(r) /\ Reads(r) /\ Answers(r)

-----------------------------------------------------------------------------
LEMMA LastIn ==
  ASSUME NEW n \in Nat, NEW S, S \subseteq 1..n, S # {}
  PROVE  Last(S) \in S
<1> DEFINE left == {n - i : i \in S}
<1>1. left \subseteq Nat /\ left # {}
  <2>1. \A i \in S : i \in Nat /\ n - i \in Nat
    OBVIOUS
  <2> QED
    BY <2>1
<1>2. First(left) \in left /\ \A j \in left : First(left) <= j
  <2> HIDE DEF left
  <2> QED
    BY <1>1, FirstIs
<1>3. PICK i \in S : First(left) = n - i
  BY <1>2
<1>4. \A j \in S : j <= i
  <2> TAKE j \in S
  <2>1. n - j \in left
    OBVIOUS
  <2>2. n - i <= n - j
    BY <1>2, <1>3, <2>1
  <2>3. i \in Nat /\ j \in Nat
    OBVIOUS
  <2> QED
    BY <2>2, <2>3
<1> QED
  BY <1>4 DEF Last

\* parseState() returns a code of its table or nothing.
LEMMA StateIsCode == ASSUME NEW q \in Queries PROVE ParseState(q) \in VALID_CODES \cup {None}
<1>1. q \in Seq(STRING) /\ Len(q) \in Nat /\ DOMAIN q = 1..Len(q)
  BY DataAssumption
<1>2. CodesIn(q) # {} => Last(CodesIn(q)) \in CodesIn(q)
  <2>1. CodesIn(q) \subseteq 1..Len(q)
    BY <1>1 DEF CodesIn
  <2> QED
    BY <1>1, <2>1, LastIn
<1>3. CodesIn(q) # {} => q[Last(CodesIn(q))] \in VALID_CODES
  BY <1>2 DEF CodesIn
<1>4. NamesIn(q) # {} => STATE_NAMES[First(NamesIn(q))].code \in VALID_CODES
  <2> SUFFICES ASSUME NamesIn(q) # {} PROVE STATE_NAMES[First(NamesIn(q))].code \in VALID_CODES
    OBVIOUS
  <2>1. NamesIn(q) \subseteq Nat
    BY CodesAssumption DEF NamesIn
  <2>2. First(NamesIn(q)) \in DOMAIN STATE_NAMES
    BY <2>1, FirstIn DEF NamesIn
  <2>3. STATE_NAMES[First(NamesIn(q))] \in [name : Seq(STRING), code : VALID_CODES]
    <3> DEFINE Named == [name : Seq(STRING), code : VALID_CODES]
    <3>1. STATE_NAMES \in Seq(Named)
      BY CodesAssumption
    <3> HIDE DEF Named
    <3>2. \A i \in DOMAIN STATE_NAMES : STATE_NAMES[i] \in Named
      BY <3>1
    <3> QED
      BY <2>2, <3>2 DEF Named
  <2> QED
    BY <2>3
<1> QED
  BY <1>3, <1>4, CodesAssumption DEF ParseState

\* The row that is picked is a rooftop row when there is one.
LEMMA PreferredRoof ==
  ASSUME NEW W, \A w \in W : w.state \in States, NEW o \in W, o.tier = "rooftop"
  PROVE  Preferred(W).tier = "rooftop"
<1> DEFINE roofs == {w \in W : w.tier = "rooftop"}
<1>1. roofs # {} /\ \A w \in roofs : w.state \in States
  OBVIOUS
<1>2. RowOf(roofs, First({i \in DOMAIN states : \E w \in roofs : w.state = states[i]})) \in roofs
  <2> HIDE DEF roofs
  <2> QED
    BY <1>1, RowOfIn
<1>3. Preferred(W) = RowOf(roofs, First({i \in DOMAIN states : \E w \in roofs : w.state = states[i]}))
  BY <1>1 DEF Preferred
<1> QED
  BY <1>2, <1>3

\* A shard with a match answers one.
LEMMA RankedSome ==
  ASSUME NEW W, W \subseteq Rows, W # {}
  PROVE  Ranked(W) # {}
<1> DEFINE lengths == {Len(w.words) : w \in W}
           short == {w \in W : \A o \in W : Len(w.words) <= Len(o.words)}
<1>1. \A w \in W : Len(w.words) \in Nat
  <2> TAKE w \in W
  <2>1. w.words \in Seq(STRING)
    BY DataAssumption DEF RowType
  <2> QED
    BY <2>1
<1>2. lengths \subseteq Nat /\ lengths # {}
  BY <1>1
<1>3. First(lengths) \in lengths /\ \A j \in lengths : First(lengths) <= j
  <2> HIDE DEF lengths
  <2> QED
    BY <1>2, FirstIs
<1>4. PICK w \in W : First(lengths) = Len(w.words)
  BY <1>3
<1>5. \A o \in W : Len(w.words) <= Len(o.words)
  BY <1>3, <1>4
<1>6. short # {}
  BY <1>5
<1> QED
  BY <1>6 DEF Ranked

LEMMA SameWords ==
  ASSUME NEW p, NEW q, NormalizeQuery(p) = NormalizeQuery(q), ParseState(p) = ParseState(q), NEW hit,
         Right(p, hit)
  PROVE  Right(q, hit)
<1>1. DueOf(p) = DueOf(q)
  BY DEF DueOf, AskedOf
<1>2. RooftopDue(p) <=> RooftopDue(q)
  BY <1>1 DEF RooftopDue
<1> QED
  BY <1>1, <1>2 DEF Right

-----------------------------------------------------------------------------
LEMMA InitInv == Init => Inv
<1> SUFFICES ASSUME Init PROVE Inv
  OBVIOUS
<1>1. Fresh
  BY InitFresh
<1>2. Served
  BY BoundsAssumption DEF Init, Served, Version
<1>3. Posed /\ Kept
  BY DEF Init, Posed, Kept
<1>4. ASSUME NEW r \in Requests PROVE Typed(r) /\ Reads(r) /\ Answers(r)
  <2>1. /\ pc[r] = "idle" /\ version[r] = 1 /\ waiting[r] = {} /\ rows[r] = {} /\ answer[r] = None
        /\ deployed = 1
    BY <1>4 DEF Init
  <2>2. Typed(r)
    BY <2>1 DEF Typed
  <2>3. Reads(r) /\ Answers(r)
    BY <2>1 DEF Reads, Answers, Searched
  <2> QED
    BY <2>2, <2>3
<1> QED
  BY <1>1, <1>2, <1>3, <1>4 DEF Inv

\* The refresh leaves what requests have read alone.
LEMMA RefreshInv ==
  ASSUME Inv,
         \/ \E s \in States : InsertNew(s) \/ DeleteOld(s)
         \/ Publish
  PROVE  Inv'
<1>1. Fresh'
  BY RefreshFresh DEF Inv
<1>2. UNCHANGED <<entries, requestVars>> /\ deployed \in Nat /\ deployed' \in Nat /\ deployed <= deployed'
  BY DEF Inv, Fresh, Shards, InsertNew, DeleteOld, Publish
<1>3. Served'
  <2>1. MaxVersion \in Nat /\ deployed \in 1..MaxVersion /\ Version = 1..MaxVersion
    BY BoundsAssumption DEF Inv, Served, Version
  <2>2. ASSUME NEW s \in States, InsertNew(s) PROVE Served'
    BY <2>1, <2>2 DEF Inv, Served, InsertNew
  <2>3. ASSUME NEW s \in States, DeleteOld(s) PROVE Served'
    <3>1. shard[s] # {deployed}
      <4>1. Cardinality(shard[s]) = 2
        BY <2>3 DEF DeleteOld
      <4>2. Cardinality({deployed}) = 1
        BY FS_Singleton
      <4> QED
        BY <4>1, <4>2
    <3>2. deployed + 1 \in Version
      <4>1. shard[s] \in {{deployed, deployed + 1}, {deployed + 1}} /\ shard[s] \subseteq Version
        BY <3>1 DEF Inv, Served
      <4> QED
        BY <4>1
    <3> QED
      BY <2>1, <2>3, <3>2 DEF Inv, Served, DeleteOld
  <2>4. CASE Publish
    BY <2>1, <2>4 DEF Inv, Served, Publish
  <2> QED
    BY <2>2, <2>3, <2>4
<1>4. Posed' /\ Kept'
  BY <1>2 DEF Inv, Posed, Kept, requestVars
<1>5. ASSUME NEW r \in Requests PROVE (Typed(r) /\ Reads(r) /\ Answers(r))'
  <2>1. Typed(r)'
    <3>1. version[r] \in 1..deployed'
      BY <1>2, <1>5 DEF Inv, Typed
    <3> QED
      BY <1>2, <1>5, <3>1 DEF Inv, Typed, requestVars
  <2>2. Reads(r)' /\ Answers(r)'
    BY <1>2, <1>5 DEF Inv, Reads, Answers, Searched, requestVars
  <2> QED
    BY <2>1, <2>2
<1> QED
  BY <1>1, <1>3, <1>4, <1>5 DEF Inv

LEMMA RequestInv ==
  ASSUME Inv, Fresh', NEW r \in Requests,
         UNCHANGED <<shard, deployed, query>>,
         Posed', Kept', Typed(r)', Reads(r)', Answers(r)',
         \A o \in Requests \ {r} :
            UNCHANGED <<pc[o], version[o], waiting[o], rows[o], answer[o], troubled[o]>>
  PROVE  Inv'
<1>1. Served'
  BY DEF Inv, Served
<1>2. ASSUME NEW o \in Requests PROVE (Typed(o) /\ Reads(o) /\ Answers(o))'
  <2>1. CASE o = r
    BY <2>1
  <2>2. CASE o # r
    <3>1. Typed(o) /\ Reads(o) /\ Answers(o)
      BY DEF Inv
    <3>2. UNCHANGED <<deployed, query, pc[o], version[o], waiting[o], rows[o], answer[o], troubled[o]>>
      BY <2>2
    <3>3. Typed(o)'
      BY <3>1, <3>2 DEF Typed
    <3>4. Reads(o)'
      BY <3>1, <3>2 DEF Reads
    <3>5. Answers(o)'
      BY <3>1, <3>2 DEF Answers, Searched
    <3> QED
      BY <3>3, <3>4, <3>5
  <2> QED
    BY <2>1, <2>2
<1> QED
  BY <1>1, <1>2 DEF Inv

-----------------------------------------------------------------------------
(* The steps of a request once more.                                       *)

\* The key of a request is one of the cache.
LEMMA KeyIn == ASSUME Inv, NEW r \in Requests PROVE Key(r) \in Keys
<1>1. version[r] \in 1..deployed /\ deployed \in 1..MaxVersion /\ MaxVersion \in Nat
  BY BoundsAssumption DEF Inv, Typed, Served, Version
<1>2. version[r] \in Version
  BY <1>1 DEF Version
<1>3. NormalizeQuery(query[r]) \in Norms
  BY DEF Inv, Posed, Norms
<1> QED
  BY <1>2, <1>3 DEF Key, Keys

LEMMA AskInv == ASSUME Inv, NEW r \in Requests, Ask(r) PROVE Inv'
<1>1. Fresh'
  BY AskFresh DEF Inv
<1>2. UNCHANGED <<shard, deployed, entries, query, waiting, rows, troubled>>
  BY DEF Ask
<1>3. Posed' /\ Kept'
  BY <1>2 DEF Inv, Posed, Kept
<1>4. /\ pc[r] = "idle" /\ rows[r] = {} /\ waiting[r] = {} /\ answer[r] = None
      /\ troubled[r] \in BOOLEAN /\ query[r] \in Queries
  BY DEF Ask, Inv, Typed, Posed
<1>5. version'[r] = deployed /\ deployed \in 1..deployed
  <2>1. deployed \in 1..MaxVersion /\ MaxVersion \in Nat
    BY BoundsAssumption DEF Inv, Served, Version
  <2> QED
    BY <2>1 DEF Ask, Inv, Fresh, Tables
<1>6. \/ pc'[r] = "cache" /\ answer'[r] = None
      \/ pc'[r] = "answered" /\ answer'[r] = NOT_FOUND /\ ~HasHouseNumber(NormalizeQuery(query[r]))
      \/ pc'[r] = "answered" /\ answer'[r] = Coords(r) /\ query[r] \in Coordinates
  BY <1>4 DEF Ask, Answered, Inv, Fresh, Tables
<1>7. Coords(r) \in Hits
  <2>1. ParseState(query[r]) \in VALID_CODES \cup {None}
    BY <1>4, StateIsCode
  <2> QED
    BY <1>4, <2>1 DEF Coords, Hit, Hits, Sources
<1>8. Typed(r)'
  BY <1>2, <1>4, <1>5, <1>6, <1>7, AnswersAssumption DEF Typed
<1>9. Reads(r)' /\ Answers(r)'
  BY <1>2, <1>4, <1>6 DEF Reads, Answers, Searched
<1>10. \A o \in Requests \ {r} :
          UNCHANGED <<pc[o], version[o], waiting[o], rows[o], answer[o], troubled[o]>>
  BY DEF Ask, Answered, Inv, Fresh, Tables
<1> QED
  BY <1>1, <1>2, <1>3, <1>8, <1>9, <1>10, RequestInv

LEMMA CacheHitInv == ASSUME Inv, NEW r \in Requests, CacheHit(r) PROVE Inv'
<1>1. Fresh'
  BY CacheFresh DEF Inv
<1>2. UNCHANGED <<shard, deployed, entries, query, version, waiting, rows, troubled>>
  BY DEF CacheHit
<1>3. Posed' /\ Kept'
  BY <1>2 DEF Inv, Posed, Kept
<1>4. /\ pc[r] = "cache" /\ pc'[r] = "answered" /\ answer'[r] = entries[Key(r)]
      /\ entries[Key(r)] # None
  BY DEF CacheHit, Answered, Inv, Fresh, Tables
<1>5. AnswerTo(answer'[r], NormalizeQuery(query[r]))
  BY <1>4, KeyIn DEF Inv, Kept, Key
<1>6. answer'[r] \in Hits
  BY <1>5 DEF AnswerTo
<1>7. Typed(r)'
  <2>1. Typed(r)
    BY DEF Inv
  <2> QED
    BY <1>2, <1>4, <1>6, <2>1, AnswersAssumption DEF Typed
<1>8. Reads(r)'
  BY <1>2, <1>4 DEF Inv, Reads
<1>9. Answers(r)'
  <2>1. answer'[r] # NOT_FOUND
    BY <1>6, AnswersAssumption
  <2> QED
    BY <1>2, <1>4, <1>5, <2>1 DEF Answers, Searched
<1>10. \A o \in Requests \ {r} :
          UNCHANGED <<pc[o], version[o], waiting[o], rows[o], answer[o], troubled[o]>>
  BY DEF CacheHit, Answered, Inv, Fresh, Tables
<1> QED
  BY <1>1, <1>2, <1>3, <1>7, <1>8, <1>9, <1>10, RequestInv

LEMMA CacheMissInv == ASSUME Inv, NEW r \in Requests, CacheMiss(r) PROVE Inv'
<1>1. Fresh'
  BY CacheFresh DEF Inv
<1>2. UNCHANGED <<shard, deployed, entries, query, version, rows, answer, troubled>>
  BY DEF CacheMiss
<1>3. Posed' /\ Kept'
  BY <1>2 DEF Inv, Posed, Kept
<1>4. pc[r] = "cache" /\ pc'[r] = "shards" /\ waiting'[r] = AskedOf(query[r])
  BY DEF CacheMiss, Inv, Fresh, Tables, Asked, AskedOf
<1>5. rows[r] = {} /\ Typed(r)
  BY <1>4 DEF Inv, Typed
<1>6. Typed(r)'
  BY <1>2, <1>4, <1>5 DEF Typed
<1>7. Reads(r)' /\ Answers(r)'
  BY <1>2, <1>4, <1>5 DEF Reads, Answers, Searched, DueOf
<1>8. \A o \in Requests \ {r} :
          UNCHANGED <<pc[o], version[o], waiting[o], rows[o], answer[o], troubled[o]>>
  BY DEF CacheMiss, Inv, Fresh, Tables
<1> QED
  BY <1>1, <1>2, <1>3, <1>6, <1>7, <1>8, RequestInv

\* A read that throws: the request ends in an error, or knows that one failed.
LEMMA KvFailsInv == ASSUME Inv, NEW r \in Requests, KvFails(r) PROVE Inv'
<1>1. Fresh'
  BY CacheFresh DEF Inv
<1>2. UNCHANGED <<shard, deployed, entries, query, version, waiting, rows, troubled>>
  BY DEF KvFails
<1>3. Posed' /\ Kept'
  BY <1>2 DEF Inv, Posed, Kept
<1>4. pc[r] \in {"cache", "put"} /\ pc'[r] = "answered" /\ answer'[r] = Error
  BY DEF KvFails, Answered, Inv, Fresh, Tables
<1>5. Typed(r)'
  <2>1. Typed(r)
    BY DEF Inv
  <2> QED
    BY <1>2, <1>4, <2>1, AnswersAssumption DEF Typed
<1>6. Reads(r)' /\ Answers(r)'
  BY <1>2, <1>4 DEF Inv, Reads, Answers, Searched
<1>7. \A o \in Requests \ {r} :
          UNCHANGED <<pc[o], version[o], waiting[o], rows[o], answer[o], troubled[o]>>
  BY DEF KvFails, Answered, Inv, Fresh, Tables
<1> QED
  BY <1>1, <1>2, <1>3, <1>5, <1>6, <1>7, RequestInv

LEMMA SegmentsFailInv == ASSUME Inv, NEW r \in Requests, SegmentsFail(r) PROVE Inv'
<1>1. Fresh'
  BY StreetFresh DEF Inv
<1>2. UNCHANGED <<shard, deployed, entries, query, version, waiting, rows>>
  BY DEF SegmentsFail
<1>3. Posed' /\ Kept' /\ troubled'[r] = TRUE
  BY <1>2 DEF Inv, Posed, Kept, SegmentsFail
<1>4. pc[r] \in {"zip", "street"} /\ pc'[r] = "answered" /\ answer'[r] = NOT_FOUND
  BY DEF SegmentsFail, Answered, Inv, Fresh, Tables
<1>5. Typed(r)'
  <2>1. Typed(r)
    BY DEF Inv
  <2> QED
    BY <1>2, <1>4, <2>1, AnswersAssumption DEF Typed
<1>6. Reads(r)' /\ Answers(r)'
  BY <1>2, <1>3, <1>4 DEF Inv, Reads, Answers, Searched
<1>7. \A o \in Requests \ {r} :
          UNCHANGED <<pc[o], version[o], waiting[o], rows[o], answer[o], troubled[o]>>
  BY DEF SegmentsFail, Answered, Inv, Fresh, Tables, Posed
<1> QED
  BY <1>1, <1>2, <1>3, <1>5, <1>6, <1>7, RequestInv

\* The rows of a state are of the shards a query asks.
LEMMA AskedInStates == ASSUME NEW q PROVE AskedOf(q) \subseteq States
  BY DEF AskedOf

\* A shard that answers has a row for the query when one of its rows is due.
LEMMA DueIsMatched ==
  ASSUME Inv, NEW r \in Requests, NEW w \in DueOf(query[r])
  PROVE  w \in Matching(w.state, NormalizeQuery(query[r])) /\ w.state \in States
<1>1. /\ w \in Rows /\ w.versions = Version /\ w.state \in States
      /\ Matches(w, NormalizeQuery(query[r]))
  BY AskedInStates DEF DueOf
<1>2. PICK v \in shard[w.state] : v \in Version
  <2>1. shard[w.state] \subseteq Version /\ shard[w.state] # {}
    BY <1>1 DEF Inv, Served
  <2> QED
    BY <2>1
<1> QED
  BY <1>1, <1>2 DEF Matching, Held

LEMMA QueryShardInv == ASSUME Inv, NEW r \in Requests, NEW s \in States, QueryShard(r, s) PROVE Inv'
<1> DEFINE norm == NormalizeQuery(query[r])
           best == Ranked(Matching(s, norm))
<1>1. Fresh'
  BY ShardFresh DEF Inv
<1>2. UNCHANGED <<shard, deployed, entries, pc, query, version, answer, troubled>>
  BY DEF QueryShard
<1>3. Posed' /\ Kept'
  BY <1>2 DEF Inv, Posed, Kept
<1>4. pc[r] = "shards" /\ s \in waiting[r] /\ waiting'[r] = waiting[r] \ {s}
  BY DEF QueryShard, Inv, Fresh, Tables
<1>5. \/ best = {} /\ rows'[r] = rows[r]
      \/ best # {} /\ \E w \in best : rows'[r] = rows[r] \cup {w}
  BY DEF QueryShard, Inv, Fresh, Tables
<1>6. \A w \in best : w \in Rows /\ w.state = s /\ Matches(w, norm)
  BY RankedIn DEF Matching, Held
<1>7. Typed(r)
  BY DEF Inv
<1>8. \A w \in rows'[r] : w \in rows[r] \/ w \in best
  BY <1>5
<1>9. Typed(r)'
  <2>1. \A w \in rows'[r] : w \in Rows /\ w.state \in AskedOf(query[r]) \ waiting'[r]
    BY <1>4, <1>6, <1>7, <1>8 DEF Typed
  <2> QED
    BY <1>2, <1>4, <1>7, <2>1 DEF Typed
<1>10. Reads(r)'
  <2>1. \A o \in rows'[r] : Matches(o, norm)
    BY <1>6, <1>8 DEF Inv, Reads
  <2>2. ASSUME ~troubled[r], NEW w \in DueOf(query[r])
        PROVE  w.state \in waiting'[r] \/ \E o \in rows'[r] : o.state = w.state
    <3>1. CASE w.state # s
      <4>1. w.state \in waiting[r] \/ \E o \in rows[r] : o.state = w.state
        BY <1>4, <2>2 DEF Inv, Reads
      <4>2. rows[r] \subseteq rows'[r]
        BY <1>5
      <4> QED
        BY <1>4, <3>1, <4>1, <4>2
    <3>2. CASE w.state = s
      <4>1. Matching(s, norm) # {} /\ Matching(s, norm) \subseteq Rows
        BY <3>2, DueIsMatched DEF Matching, Held
      <4>2. best # {}
        BY <4>1, RankedSome
      <4> QED
        BY <1>5, <1>6, <3>2, <4>2
    <3> QED
      BY <3>1, <3>2
  <2> HIDE DEF norm
  <2> QED
    BY <1>2, <1>4, <2>1, <2>2 DEF Reads, norm
<1>11. Answers(r)'
  BY <1>2, <1>4 DEF Answers, Searched
<1>12. \A o \in Requests \ {r} :
          UNCHANGED <<pc[o], version[o], waiting[o], rows[o], answer[o], troubled[o]>>
  BY DEF QueryShard, Inv, Fresh, Tables
<1> QED
  BY <1>1, <1>2, <1>3, <1>9, <1>10, <1>11, <1>12, RequestInv

LEMMA ShardFailsInv == ASSUME Inv, NEW r \in Requests, NEW s \in States, ShardFails(r, s) PROVE Inv'
<1>1. Fresh'
  BY ShardFresh DEF Inv
<1>2. UNCHANGED <<shard, deployed, entries, pc, query, version, rows, answer>>
  BY DEF ShardFails
<1>3. Posed' /\ Kept' /\ troubled'[r] = TRUE
  BY <1>2 DEF Inv, Posed, Kept, ShardFails
<1>4. pc[r] = "shards" /\ waiting'[r] = waiting[r] \ {s}
  BY DEF ShardFails, Inv, Fresh, Tables
<1>5. Typed(r)'
  <2>1. Typed(r)
    BY DEF Inv
  <2> QED
    BY <1>2, <1>4, <2>1 DEF Typed
<1>6. Reads(r)' /\ Answers(r)'
  BY <1>2, <1>3, <1>4 DEF Inv, Reads, Answers, Searched
<1>7. \A o \in Requests \ {r} :
          UNCHANGED <<pc[o], version[o], waiting[o], rows[o], answer[o], troubled[o]>>
  BY DEF ShardFails, Inv, Fresh, Tables, Posed
<1> QED
  BY <1>1, <1>2, <1>3, <1>5, <1>6, <1>7, RequestInv

\* The row that is chosen is one the shards answered, and a rooftop row when a state
\* has no other for the query.
LEMMA ChosenIsRight ==
  ASSUME Inv, NEW r \in Requests, AllAnswered(r), rows[r] # {}, Choose(r)
  PROVE  /\ answer'[r] \in Hits /\ answer'[r].asked = query[r] /\ answer'[r].troubled = troubled[r]
         /\ ~troubled[r] => Right(query[r], answer'[r])
<1> DEFINE w == Preferred(rows[r])
           hit == Hit(w.tier, w, ParseState(query[r]), r)
<1>1. answer'[r] = hit
  BY DEF Choose, Inv, Fresh, Tables
<1>2. /\ \A o \in rows[r] : o \in Rows /\ o.state \in AskedOf(query[r])
      /\ query[r] \in Queries /\ troubled[r] \in BOOLEAN
  BY DEF Inv, Typed, Posed
<1>3. \A o \in rows[r] : o.state \in States
  BY <1>2, AskedInStates
<1>4. w \in rows[r]
  BY <1>3, PreferredIn
<1>5. w \in Rows /\ w.tier \in {"rooftop", "interpolated"}
  BY <1>2, <1>4, DataAssumption DEF RowType
<1>6. ParseState(query[r]) \in VALID_CODES \cup {None}
  BY <1>2, StateIsCode
<1>7. /\ hit.match = w.tier /\ hit.source = w /\ hit.asked = query[r] /\ hit.troubled = troubled[r]
      /\ hit \in Hits
  <2> HIDE DEF w
  <2> QED
    BY <1>2, <1>5, <1>6 DEF Hit, Hits, Sources
<1>8. ASSUME ~troubled[r], RooftopDue(query[r]) PROVE w.tier = "rooftop"
  <2>1. PICK d \in DueOf(query[r]) : \A o \in Rows :
            o.state = d.state /\ Matches(o, NormalizeQuery(query[r])) => o.tier = "rooftop"
    BY <1>8 DEF RooftopDue
  <2>2. PICK o \in rows[r] : o.state = d.state
    BY <1>8 DEF Inv, Reads, AllAnswered
  <2>3. o \in Rows /\ Matches(o, NormalizeQuery(query[r]))
    BY <1>2 DEF Inv, Reads
  <2>4. o.tier = "rooftop"
    BY <2>1, <2>2, <2>3
  <2> QED
    BY <1>3, <2>4, PreferredRoof
<1> HIDE DEF hit, w
<1> QED
  BY <1>1, <1>5, <1>7, <1>8 DEF Right

LEMMA ChooseInv == ASSUME Inv, NEW r \in Requests, Choose(r) PROVE Inv'
<1>1. Fresh'
  BY ChooseFresh DEF Inv
<1>2. UNCHANGED <<shard, deployed, entries, query, version, waiting, rows, troubled>>
  BY DEF Choose
<1>3. Posed' /\ Kept'
  BY <1>2 DEF Inv, Posed, Kept
<1>4. AllAnswered(r) /\ Typed(r) /\ pc[r] = "shards" /\ waiting[r] = {} /\ answer[r] = None
  BY DEF Choose, AllAnswered, Inv, Typed
<1>5. \/ rows[r] # {} /\ pc'[r] = "put"
      \/ rows[r] = {} /\ pc'[r] \in {"zip", "street"} /\ answer'[r] = None
      \/ rows[r] = {} /\ pc'[r] = "answered" /\ answer'[r] = NOT_FOUND
  BY <1>4 DEF Choose, Answered, Inv, Fresh, Tables
<1>6. rows[r] = {} /\ ~troubled[r] => DueOf(query[r]) = {}
  BY <1>4 DEF Inv, Reads
<1>7. rows[r] # {} =>
        /\ answer'[r] \in Hits /\ answer'[r].asked = query[r] /\ answer'[r].troubled = troubled[r]
        /\ ~troubled[r] => Right(query[r], answer'[r])
  BY <1>4, ChosenIsRight
<1>8. Typed(r)'
  BY <1>2, <1>4, <1>5, <1>7, AnswersAssumption DEF Typed
<1>9. Reads(r)'
  BY <1>2, <1>4, <1>5, <1>6 DEF Inv, Reads
<1>10. Answers(r)'
  BY <1>2, <1>5, <1>6, <1>7 DEF Answers, Searched
<1>11. \A o \in Requests \ {r} :
          UNCHANGED <<pc[o], version[o], waiting[o], rows[o], answer[o], troubled[o]>>
  BY DEF Choose, Answered, Inv, Fresh, Tables
<1> QED
  BY <1>1, <1>2, <1>3, <1>8, <1>9, <1>10, <1>11, RequestInv

\* The segments are read when no row is due.
LEMMA InterpolateInv == ASSUME Inv, NEW r \in Requests, Interpolate(r) PROVE Inv'
<1>1. Fresh'
  BY StreetFresh DEF Inv
<1>2. UNCHANGED <<shard, deployed, entries, query, version, waiting, rows, troubled>>
  BY DEF Interpolate
<1>3. Posed' /\ Kept'
  BY <1>2 DEF Inv, Posed, Kept
<1>4. Typed(r) /\ pc[r] \in {"zip", "street"} /\ waiting[r] = {} /\ answer[r] = None
  BY DEF Interpolate, Inv, Typed
<1>5. \/ pc'[r] = "put" /\ \E g \in Segments : answer'[r] = Interpolated(r, g)
      \/ pc'[r] = "street" /\ answer'[r] = None
      \/ pc'[r] = "answered" /\ answer'[r] = NOT_FOUND
  BY <1>4 DEF Interpolate, Answered, OnStreet, Inv, Fresh, Tables
<1>6. ~troubled[r] => DueOf(query[r]) = {}
  BY <1>4 DEF Inv, Reads
<1>7. ASSUME NEW g \in Segments
      PROVE  /\ Interpolated(r, g) \in Hits /\ Interpolated(r, g).asked = query[r]
             /\ Interpolated(r, g).troubled = troubled[r]
  <2>1. query[r] \in Queries /\ troubled[r] \in BOOLEAN
    BY DEF Inv, Posed
  <2>2. ParseState(query[r]) \in VALID_CODES \cup {None}
    BY <2>1, StateIsCode
  <2> QED
    BY <2>1, <2>2 DEF Interpolated, Hit, Hits, Sources
<1>8. pc'[r] = "put" =>
        answer'[r] \in Hits /\ answer'[r].asked = query[r] /\ answer'[r].troubled = troubled[r]
  BY <1>5, <1>7
<1>9. DueOf(query[r]) = {} => Right(query[r], answer'[r])
  BY DEF Right, RooftopDue
<1>10. Typed(r)'
  BY <1>2, <1>4, <1>5, <1>8, AnswersAssumption DEF Typed
<1>11. Reads(r)'
  BY <1>2, <1>4, <1>5, <1>6 DEF Inv, Reads
<1>12. Answers(r)'
  BY <1>2, <1>5, <1>6, <1>8, <1>9 DEF Answers, Searched
<1>13. \A o \in Requests \ {r} :
          UNCHANGED <<pc[o], version[o], waiting[o], rows[o], answer[o], troubled[o]>>
  BY DEF Interpolate, Answered, Inv, Fresh, Tables
<1> QED
  BY <1>1, <1>2, <1>3, <1>10, <1>11, <1>12, <1>13, RequestInv

LEMMA PutInv == ASSUME Inv, NEW r \in Requests, Put(r) PROVE Inv'
<1>1. Fresh'
  BY PutFresh DEF Inv
<1>2. UNCHANGED <<shard, deployed, query, version, waiting, rows, troubled>>
  BY DEF Put
<1>3. pc[r] = "put" /\ pc'[r] = "answered" /\ answer'[r] = answer[r]
  BY DEF Put, Answered, Inv, Fresh, Tables
<1>4. /\ answer[r] \in Hits /\ answer[r].asked = query[r] /\ answer[r].troubled = troubled[r]
      /\ ~troubled[r] => Right(query[r], answer[r])
  BY <1>3 DEF Inv, Answers
<1>5. AnswerTo(answer[r], NormalizeQuery(query[r]))
  BY <1>4 DEF AnswerTo
<1>6. Posed'
  BY <1>2 DEF Inv, Posed
<1>7. Kept'
  <2> SUFFICES ASSUME NEW k \in Keys, entries'[k] # None PROVE AnswerTo(entries'[k], k[2])
    BY DEF Kept
  <2>1. CASE k = Key(r)
    <3>1. entries'[k] = answer[r] /\ k[2] = NormalizeQuery(query[r])
      BY <2>1 DEF Put, Inv, Fresh, Tables, Key
    <3> QED
      BY <1>5, <3>1
  <2>2. CASE k # Key(r)
    <3>1. entries'[k] = entries[k]
      BY <2>2 DEF Put, Inv, Fresh, Tables
    <3> QED
      BY <3>1 DEF Inv, Kept
  <2> QED
    BY <2>1, <2>2
<1>8. Typed(r)'
  <2>1. Typed(r)
    BY DEF Inv
  <2> QED
    BY <1>2, <1>3, <1>4, <2>1, AnswersAssumption DEF Typed
<1>9. Reads(r)'
  BY <1>2, <1>3 DEF Inv, Reads
<1>10. Answers(r)'
  <2>1. answer[r] # NOT_FOUND
    BY <1>4, AnswersAssumption
  <2> QED
    BY <1>2, <1>3, <1>5, <2>1 DEF Answers, Searched
<1>11. \A o \in Requests \ {r} :
          UNCHANGED <<pc[o], version[o], waiting[o], rows[o], answer[o], troubled[o]>>
  BY DEF Put, Answered, Inv, Fresh, Tables
<1> QED
  BY <1>1, <1>2, <1>6, <1>7, <1>8, <1>9, <1>10, <1>11, RequestInv

LEMMA NextInv == Inv /\ [Next]_vars => Inv'
<1> SUFFICES ASSUME Inv, [Next]_vars PROVE Inv'
  OBVIOUS
<1>1. ASSUME NEW r \in Requests, Handle(r) \/ SegmentsFail(r) \/ KvFails(r) PROVE Inv'
  BY <1>1, AskInv, CacheHitInv, CacheMissInv, QueryShardInv, ChooseInv, InterpolateInv, PutInv,
     SegmentsFailInv, KvFailsInv DEF Handle
<1>2. ASSUME NEW r \in Requests, NEW s \in States, ShardFails(r, s) PROVE Inv'
  BY <1>2, ShardFailsInv
<1>3. CASE UNCHANGED vars
  <2>1. Fresh'
    BY <1>3, NextFresh DEF Inv
  <2>2. (Served /\ Posed /\ Kept)'
    BY <1>3 DEF vars, requestVars, Inv, Served, Posed, Kept
  <2>3. ASSUME NEW r \in Requests PROVE (Typed(r) /\ Reads(r) /\ Answers(r))'
    BY <1>3 DEF vars, requestVars, Inv, Typed, Reads, Answers, Searched
  <2> QED
    BY <2>1, <2>2, <2>3 DEF Inv
<1> QED
  BY <1>1, <1>2, <1>3, RefreshInv DEF Next

LEMMA Invariance == Spec => []Inv
  BY InitInv, NextInv, PTL DEF Spec

-----------------------------------------------------------------------------
\* The variables of geocode() keep their types: an answer is a hit of the cache's kind
\* or one of the two without a hit, and is given exactly when the request has one.
THEOREM TypeCorrect == Spec => []TypeOK
<1>1. Inv => TypeOK
  <2> SUFFICES ASSUME Inv PROVE TypeOK
    OBVIOUS
  <2>1. \A s \in States : shard[s] \in {{deployed}, {deployed, deployed + 1}, {deployed + 1}}
    BY DEF Inv, Served
  <2>2. \A k \in Keys : entries[k] \in Hits \cup {None}
    BY DEF Inv, Kept, AnswerTo
  <2>3. ASSUME NEW r \in Requests
        PROVE  /\ version[r] \in 1..deployed
               /\ waiting[r] \subseteq Asked(r) /\ (pc[r] # "shards" => waiting[r] = {})
               /\ rows[r] \subseteq Rows /\ {w.state : w \in rows[r]} \subseteq Asked(r) \ waiting[r]
               /\ pc[r] \in {"put", "answered"} <=> answer[r] # None
               /\ answer[r] \in Hits \cup {NOT_FOUND, Error, None}
    <3>1. Typed(r) /\ Asked(r) = AskedOf(query[r])
      BY <2>3 DEF Inv, Asked, AskedOf
    <3> QED
      BY <3>1 DEF Typed
  <2> QED
    BY <2>1, <2>2, <2>3 DEF TypeOK
<1> QED
  BY <1>1, Invariance, PTL

LEMMA FoundIsRight ==
  ASSUME Inv, NEW r \in Requests, Undisturbed(r), Due(r) # {}
  PROVE  Found(r) /\ Right(query[r], answer[r])
<1>1. DueOf(query[r]) # {}
  BY DEF Due, DueOf, Asked, AskedOf
<1>2. Searched(r)
  BY DEF Undisturbed, Searched
<1>3. answer[r] # NOT_FOUND /\ AnswerTo(answer[r], NormalizeQuery(query[r]))
  BY <1>1, <1>2 DEF Inv, Answers
<1>4. Found(r)
  BY <1>2, <1>3 DEF Found, Searched
<1>5. Right(answer[r].asked, answer[r]) /\ ParseState(answer[r].asked) = ParseState(query[r])
  BY <1>3, <1>4 DEF Undisturbed, AnswerTo
<1>6. NormalizeQuery(answer[r].asked) = NormalizeQuery(query[r])
  BY <1>3 DEF AnswerTo
<1> QED
  BY <1>4, <1>5, <1>6, SameWords

\* An address that every version of the data has is found by its row at any moment of a
\* refresh, whatever order the shards answer in and whichever request filled the cache,
\* unless a read failed for this request or for that one, or that one named another state.
THEOREM SurvivorsAreFound == Spec => []SurvivorsFound
<1>1. Inv => SurvivorsFound
  <2> SUFFICES ASSUME Inv, NEW r \in Requests, Undisturbed(r), Due(r) # {}
               PROVE  Found(r) /\ answer[r].source \in Rows
    BY DEF SurvivorsFound
  <2>1. Found(r) /\ Right(query[r], answer[r])
    BY FoundIsRight
  <2>2. DueOf(query[r]) # {}
    BY DEF Due, DueOf, Asked, AskedOf
  <2> QED
    BY <2>1, <2>2 DEF Right
<1> QED
  BY <1>1, Invariance, PTL

\* A query that names no state gets a rooftop row when some shard has nothing else for
\* it, however many shards hold interpolated ones.
THEOREM RooftopIsPreferred == Spec => []RooftopWins
<1>1. Inv => RooftopWins
  <2> SUFFICES ASSUME Inv, NEW r \in Requests, Undisturbed(r), ParseState(query[r]) = None,
                      \E w \in Due(r) : \A o \in Rows :
                        o.state = w.state /\ Matches(o, NormalizeQuery(query[r])) => o.tier = "rooftop"
               PROVE  Found(r) /\ answer[r].match = "rooftop"
    BY DEF RooftopWins
  <2>1. Found(r) /\ Right(query[r], answer[r])
    BY FoundIsRight
  <2>2. Due(r) = DueOf(query[r])
    BY DEF Due, DueOf, Asked, AskedOf
  <2>3. RooftopDue(query[r])
    BY <2>2 DEF RooftopDue
  <2> QED
    BY <2>1, <2>3 DEF Right
<1> QED
  BY <1>1, Invariance, PTL
=============================================================================
