------------------------------ MODULE Geocode ------------------------------
(***************************************************************************)
(* geocode() and the parsers it uses (src/geocode.ts, src/interpolate.ts,  *)
(* src/state_parser.ts, src/normalize.ts): a query is normalised, looked   *)
(* up in the KV cache, then in the shard of its state (or all of them),    *)
(* then in the street segments of that state; what is found is cached for  *)
(* thirty days under the version of the address data.  Meanwhile the       *)
(* quarterly refresh replaces the rows of one shard after another and      *)
(* publishes the next GEO_VERSION.                                         *)
(*                                                                         *)
(* A query is a sequence of lower-case words and commas.  Words are atoms: *)
(* a name inside a longer word, punctuation other than the comma, ZIP+4    *)
(* and house numbers with letters are left out.                            *)
(***************************************************************************)
EXTENDS Integers, Sequences, FiniteSets

CONSTANTS
    Requests,
    None,
    NOT_FOUND, Error,   \* answers without a hit
    Queries,        \* set of sequences of words
    states,         \* those with a GEOCODE_<state> binding, in the order of geocode()
    SUFFIX_ABBR,    \* [word -> word], with DIR_ABBR
    VALID_CODES,    \* the two-letter words that are state codes
    STATE_NAMES,    \* Seq([name : Seq(word), code : state]), in source order
    ZIP3,           \* [five-digit words the prefix table knows -> state]
    Coordinates,    \* queries that are a literal "lat,lng"
    Numbers,        \* [words of digits -> Nat]
    FiveDigits,     \* those that look like a ZIP
    Short,          \* words of at most two characters
    Rows,           \* address rows, see RowType
    Segments,       \* street segments, see SegmentType
    MaxVersion,     \* bound: versions of the address data
    MaxFailures     \* bound: reads of a shard or of KV that fail

States == {states[i] : i \in DOMAIN states}

ASSUME StatesAssumption == states \in Seq(STRING)
ASSUME BoundsAssumption == MaxVersion \in Nat \ {0} /\ MaxFailures \in Nat

Version == 1..MaxVersion
\* What a refresh publishes: a row is part of some versions of its state's data.
RowType == [state : States, versions : SUBSET Version, words : Seq(STRING), tier : {"rooftop", "interpolated"}]
SegmentType == [state : States, versions : SUBSET Version, street : Seq(STRING), zip : STRING, from : Nat, to : Nat]
ASSUME DataAssumption == Rows \subseteq RowType /\ Segments \subseteq SegmentType /\ Queries \subseteq Seq(STRING)
\* VALID_CODES is the set of the codes of STATE_NAMES; the ZIP table maps into it.
ASSUME CodesAssumption ==
    /\ STATE_NAMES \in Seq([name : Seq(STRING), code : VALID_CODES])
    /\ \A z \in DOMAIN ZIP3 : ZIP3[z] \in VALID_CODES

\* A hit, with the row or the segment it comes from, the asking query and whether
\* a shard failed on the way, as history.
Sources == Rows \cup Segments \cup {None}
Hits == [match : {"coords", "rooftop", "interpolated"}, source : Sources, state : VALID_CODES \cup {None},
         asked : Queries, troubled : BOOLEAN]
ASSUME AnswersAssumption == {None, NOT_FOUND, Error} \cap Hits = {} /\ None \notin {NOT_FOUND, Error}

-----------------------------------------------------------------------------
(* normalize.ts                                                            *)

Words(q) == SelectSeq(q, LAMBDA w : w # ",")
Abbreviated(ws) == [i \in DOMAIN ws |-> IF ws[i] \in DOMAIN SUFFIX_ABBR THEN SUFFIX_ABBR[ws[i]] ELSE ws[i]]
NormalizeQuery(q) == Abbreviated(Words(q))

\* The first word is a number, and not a ZIP with nothing but a state code.
HasHouseNumber(norm) ==
    /\ Len(norm) > 1 /\ norm[1] \in DOMAIN Numbers
    /\ norm[1] \in FiveDigits => \E i \in 2..Len(norm) : norm[i] \notin Short \cup DOMAIN Numbers

(* state_parser.ts                                                         *)

Last(S) == CHOOSE i \in S : \A j \in S : j <= i
First(S) == CHOOSE i \in S : \A j \in S : i <= j

Contains(q, name) ==
    \E i \in 0..(Len(q) - Len(name)) : \A k \in DOMAIN name : q[i + k] = name[k]
CodesIn(q) == {i \in DOMAIN q : q[i] \in VALID_CODES}
NamesIn(q) == {i \in DOMAIN STATE_NAMES : Contains(q, STATE_NAMES[i].name)}
ZipsIn(q) == {i \in DOMAIN q : q[i] \in FiveDigits}

\* The rightmost state code anywhere, or the first name of the table that occurs,
\* or the state of the first ZIP-shaped word.
ParseState(q) ==
    IF CodesIn(q) # {} THEN q[Last(CodesIn(q))]
    ELSE IF NamesIn(q) # {} THEN STATE_NAMES[First(NamesIn(q))].code
    ELSE IF ZipsIn(q) # {} /\ q[First(ZipsIn(q))] \in DOMAIN ZIP3 THEN ZIP3[q[First(ZipsIn(q))]]
    ELSE None

(* interpolate.ts                                                          *)

\* Where the street ends: a comma, a ZIP or the end.  It has one word at least.
StreetEnd(q) == First({i \in 3..Len(q) : q[i] = "," \/ q[i] \in FiveDigits} \cup {Len(q) + 1})
ParseHouseAndStreet(q) ==
    IF Len(q) < 2 \/ q[1] \notin DOMAIN Numbers \/ Numbers[q[1]] = 0 \/ q[2] = "," THEN None
    ELSE [number |-> Numbers[q[1]],
          street |-> Abbreviated(SubSeq(q, 2, StreetEnd(q) - 1)),
          zip |-> IF ZipsIn(q) = {} THEN None ELSE q[Last(ZipsIn(q))]]

-----------------------------------------------------------------------------
VARIABLES
    shard,      \* [States -> SUBSET Version], the versions whose rows it holds
    deployed,   \* GEO_VERSION of the Worker
    entries,    \* the KV cache: [Keys -> Hit or None]
    pc,         \* [Requests -> "idle", "cache", "shards", "zip", "street", "put", "answered"]
    query,      \* [Requests -> Queries]
    version,    \* [Requests -> Version], GEO_VERSION when the request began
    waiting,    \* [Requests -> SUBSET States], shards still to answer
    rows,       \* [Requests -> SUBSET Rows], what the others answered
    answer,     \* [Requests -> Hit, NOT_FOUND, Error or None]
    failures,   \* counter of the bound
    troubled    \* history: [Requests -> a read of a shard failed]

requestVars == <<pc, query, version, waiting, rows, answer, troubled>>
vars == <<shard, deployed, entries, failures, requestVars>>

Norms == {NormalizeQuery(q) : q \in Queries}
Keys == Version \X Norms
Key(r) == <<version[r], NormalizeQuery(query[r])>>

Hit(m, x, s, r) == [match |-> m, source |-> x, state |-> s, asked |-> query[r], troubled |-> troubled[r]]
Coords(r) == Hit("coords", None, None, r)

Init ==
    /\ shard = [s \in States |-> {1}] /\ deployed = 1
    /\ entries = [k \in Keys |-> None]
    /\ pc = [r \in Requests |-> "idle"] /\ query \in [Requests -> Queries]
    /\ version = [r \in Requests |-> 1]
    /\ waiting = [r \in Requests |-> {}] /\ rows = waiting
    /\ answer = [r \in Requests |-> None]
    /\ failures = 0 /\ troubled = [r \in Requests |-> FALSE]

Answered(r, a) ==
    /\ pc' = [pc EXCEPT ![r] = "answered"]
    /\ answer' = [answer EXCEPT ![r] = a]

\* Coordinates are their own answer; a query without a house number has none.
Ask(r) ==
    /\ pc[r] = "idle"
    /\ version' = [version EXCEPT ![r] = deployed]
    /\ CASE query[r] \in Coordinates -> Answered(r, Coords(r))
         [] query[r] \notin Coordinates /\ ~HasHouseNumber(NormalizeQuery(query[r])) ->
                Answered(r, NOT_FOUND)
         [] OTHER -> pc' = [pc EXCEPT ![r] = "cache"] /\ UNCHANGED answer
    /\ UNCHANGED <<shard, deployed, entries, failures, query, waiting, rows, troubled>>

\* KV answers what it holds, or nothing: an entry expires or has not arrived yet.
Asked(r) ==
    (IF ParseState(query[r]) = None THEN States ELSE {ParseState(query[r])}) \cap States
CacheHit(r) ==
    /\ pc[r] = "cache" /\ entries[Key(r)] # None
    /\ Answered(r, entries[Key(r)])
    /\ UNCHANGED <<shard, deployed, entries, failures, query, version, waiting, rows, troubled>>
CacheMiss(r) ==
    /\ pc[r] = "cache"
    /\ pc' = [pc EXCEPT ![r] = "shards"]
    /\ waiting' = [waiting EXCEPT ![r] = Asked(r)]
    /\ UNCHANGED <<shard, deployed, entries, failures, query, version, rows, answer, troubled>>

Held(s) == {w \in Rows : w.state = s /\ w.versions \cap shard[s] # {}}
\* Rows with every word of the query; the rank prefers the shorter ones (external
\* to src/), then rooftop rows come first, then any.
Matches(w, norm) == \A i \in DOMAIN norm : \E j \in DOMAIN w.words : w.words[j] = norm[i]
Matching(s, norm) == {w \in Held(s) : Matches(w, norm)}
Ranked(W) ==
    LET short == {w \in W : \A o \in W : Len(w.words) <= Len(o.words)}
        roofs == {w \in short : w.tier = "rooftop"}
    IN IF roofs # {} THEN roofs ELSE short

QueryShard(r, s) ==
    /\ pc[r] = "shards" /\ s \in waiting[r]
    /\ waiting' = [waiting EXCEPT ![r] = @ \ {s}]
    /\ LET best == Ranked(Matching(s, NormalizeQuery(query[r])))
       IN IF best = {} THEN UNCHANGED rows
          ELSE \E w \in best : rows' = [rows EXCEPT ![r] = @ \cup {w}]
    /\ UNCHANGED <<shard, deployed, entries, failures, pc, query, version, answer, troubled>>

\* A query that throws counts as one that finds nothing.
ShardFails(r, s) ==
    /\ pc[r] = "shards" /\ s \in waiting[r] /\ failures < MaxFailures
    /\ failures' = failures + 1
    /\ waiting' = [waiting EXCEPT ![r] = @ \ {s}]
    /\ troubled' = [troubled EXCEPT ![r] = TRUE]
    /\ UNCHANGED <<shard, deployed, entries, pc, query, version, rows, answer>>

\* The row of the first state that has a rooftop row, else of the first that has any.
RowOf(W, i) == CHOOSE w \in W : w.state = states[i]
FaultyPreferred(W) == RowOf(W, First({i \in DOMAIN states : \E w \in W : w.state = states[i]}))
Preferred(W) ==
    LET roofs == {w \in W : w.tier = "rooftop"}
        best == IF roofs # {} THEN roofs ELSE W
    IN RowOf(best, First({i \in DOMAIN states : \E w \in best : w.state = states[i]}))

FaultyAllAnswered(r) == pc[r] = "shards" /\ waiting[r] # Asked(r)   \* the first answer counts
AllAnswered(r) == pc[r] = "shards" /\ waiting[r] = {}
Choose(r) ==
    /\ AllAnswered(r)
    /\ LET state == ParseState(query[r])
       IN IF rows[r] # {}
          THEN /\ answer' = [answer EXCEPT ![r] =
                        Hit(Preferred(rows[r]).tier, Preferred(rows[r]), state, r)]
               /\ pc' = [pc EXCEPT ![r] = "put"]
          ELSE IF state \in States /\ ParseHouseAndStreet(query[r]) # None
          THEN /\ pc' = [pc EXCEPT ![r] =
                        IF ParseHouseAndStreet(query[r]).zip = None THEN "street" ELSE "zip"]
               /\ UNCHANGED answer
          ELSE Answered(r, NOT_FOUND)
    /\ UNCHANGED <<shard, deployed, entries, failures, query, version, waiting, rows, troubled>>

\* The segments of the street with the house number in range, near the ZIP first.
OnStreet(s, p) ==
    {g \in Segments : /\ g.state = s /\ g.versions \cap shard[s] # {}
                      /\ g.street = p.street /\ g.from <= p.number /\ p.number <= g.to}
Interpolated(r, g) == Hit("interpolated", g, ParseState(query[r]), r)
Interpolate(r) ==
    LET p == ParseHouseAndStreet(query[r])
        found == {g \in OnStreet(ParseState(query[r]), p) : pc[r] = "zip" => g.zip = p.zip}
    IN /\ pc[r] \in {"zip", "street"}
       /\ \/ /\ \E g \in found : answer' = [answer EXCEPT ![r] = Interpolated(r, g)]
             /\ pc' = [pc EXCEPT ![r] = "put"]
          \/ found = {} /\ pc[r] = "zip" /\ pc' = [pc EXCEPT ![r] = "street"] /\ UNCHANGED answer
          \/ found = {} /\ pc[r] = "street" /\ Answered(r, NOT_FOUND)
       /\ UNCHANGED <<shard, deployed, entries, failures, query, version, waiting, rows, troubled>>
SegmentsFail(r) ==
    /\ pc[r] \in {"zip", "street"} /\ failures < MaxFailures
    /\ failures' = failures + 1
    /\ troubled' = [troubled EXCEPT ![r] = TRUE]
    /\ Answered(r, NOT_FOUND)
    /\ UNCHANGED <<shard, deployed, entries, query, version, waiting, rows>>

\* Only what was found is cached.
FaultyPut(r) ==                 \* under the version that is deployed by now
    /\ pc[r] = "put"
    /\ entries' = [entries EXCEPT ![<<deployed, NormalizeQuery(query[r])>>] = answer[r]]
    /\ Answered(r, answer[r])
    /\ UNCHANGED <<shard, deployed, failures, query, version, waiting, rows, troubled>>
Put(r) ==
    /\ pc[r] = "put"
    /\ entries' = [entries EXCEPT ![Key(r)] = answer[r]]
    /\ Answered(r, answer[r])
    /\ UNCHANGED <<shard, deployed, failures, query, version, waiting, rows, troubled>>

\* A read or a write of KV that throws ends the request.
KvFails(r) ==
    /\ pc[r] \in {"cache", "put"} /\ failures < MaxFailures
    /\ failures' = failures + 1
    /\ Answered(r, Error)
    /\ UNCHANGED <<shard, deployed, entries, query, version, waiting, rows, troubled>>

-----------------------------------------------------------------------------
(* The refresh (etl/sync_d1.py, refresh.sh): each shard gets the new rows, *)
(* then loses the old ones; then the next version is published.            *)

FaultyInsertNew(s) ==           \* empties the table, to load it again
    /\ shard[s] = {deployed} /\ deployed < MaxVersion
    /\ shard' = [shard EXCEPT ![s] = {}]
    /\ UNCHANGED <<deployed, entries, failures, requestVars>>
InsertNew(s) ==
    /\ shard[s] = {deployed} /\ deployed < MaxVersion
    /\ shard' = [shard EXCEPT ![s] = @ \cup {deployed + 1}]
    /\ UNCHANGED <<deployed, entries, failures, requestVars>>
DeleteOld(s) ==
    /\ Cardinality(shard[s]) = 2
    /\ shard' = [shard EXCEPT ![s] = {deployed + 1}]
    /\ UNCHANGED <<deployed, entries, failures, requestVars>>
Publish ==
    /\ deployed < MaxVersion
    /\ \A s \in States : shard[s] = {deployed + 1}
    /\ deployed' = deployed + 1
    /\ UNCHANGED <<shard, entries, failures, requestVars>>

Handle(r) ==
    \/ Ask(r) \/ CacheHit(r) \/ CacheMiss(r) \/ Choose(r) \/ Interpolate(r) \/ Put(r)
    \/ \E s \in States : QueryShard(r, s)
Next ==
    \/ \E r \in Requests : Handle(r) \/ SegmentsFail(r) \/ KvFails(r)
    \/ \E r \in Requests, s \in States : ShardFails(r, s)
    \/ \E s \in States : InsertNew(s) \/ DeleteOld(s)
    \/ Publish

Spec == Init /\ [][Next]_vars

-----------------------------------------------------------------------------
TypeOK ==
    /\ \A s \in States : shard[s] \in {{deployed}, {deployed, deployed + 1}, {deployed + 1}}
    /\ \A k \in Keys : entries[k] \in Hits \cup {None}
    /\ \A r \in Requests :
        /\ version[r] \in 1..deployed
        /\ waiting[r] \subseteq Asked(r) /\ (pc[r] # "shards" => waiting[r] = {})
        /\ rows[r] \subseteq Rows /\ {w.state : w \in rows[r]} \subseteq Asked(r) \ waiting[r]
        /\ pc[r] \in {"put", "answered"} <=> answer[r] # None
        /\ answer[r] \in Hits \cup {NOT_FOUND, Error, None}

Found(r) == pc[r] = "answered" /\ answer[r] \notin {NOT_FOUND, Error}

\* "Bumping earlier would re-cache rows that are about to be deleted": what is
\* cached under a version is still part of that version or of a later one,
\* whatever the refresh does between the steps of a request.
NoDeletedRowsCached ==
    \A k \in Keys : entries[k] # None => \E v \in entries[k].source.versions : v >= k[1]

\* An address that no refresh touches is found at any moment of one, by a row and
\* not by interpolation, unless a read failed for this request or for the one that
\* filled the cache, or that one spelled the same words so that they name another
\* state.  A failed read is remembered as an interpolated answer for thirty days.
Due(r) == {w \in Rows : /\ w.versions = Version /\ w.state \in Asked(r)
                         /\ Matches(w, NormalizeQuery(query[r]))}
Undisturbed(r) ==
    /\ pc[r] = "answered" /\ answer[r] # Error /\ ~troubled[r]
    /\ query[r] \notin Coordinates /\ HasHouseNumber(NormalizeQuery(query[r]))
    /\ Found(r) => /\ ~answer[r].troubled
                    /\ ParseState(answer[r].asked) = ParseState(query[r])
SurvivorsFound ==
    \A r \in Requests : Undisturbed(r) /\ Due(r) # {} => Found(r) /\ answer[r].source \in Rows

\* "pick first OK with highest tier": a query that names no state is answered with a
\* rooftop row when some shard has no other for it.
RooftopWins ==
    \A r \in Requests :
        /\ Undisturbed(r) /\ ParseState(query[r]) = None
        /\ \E w \in Due(r) : \A o \in Rows :
                o.state = w.state /\ Matches(o, NormalizeQuery(query[r])) => o.tier = "rooftop"
        => Found(r) /\ answer[r].match = "rooftop"

\* "Order of attempts": a code at the end or before a ZIP, a full state name, and
\* then the ZIP.
AtEnd(q) == {i \in CodesIn(q) : \A j \in (i + 1)..Len(q) : q[j] \in FiveDigits \cup {","}}
Longest(N) == CHOOSE i \in N : \A j \in N : Len(STATE_NAMES[j].name) <= Len(STATE_NAMES[i].name)
StateAsDocumented ==
    \A r \in Requests : Found(r) /\ answer[r].match # "coords" =>
        LET q == answer[r].asked
        IN answer[r].state =
            IF AtEnd(q) # {} THEN q[Last(AtEnd(q))]
            ELSE IF NamesIn(q) # {} THEN STATE_NAMES[Longest(NamesIn(q))].code
            ELSE ParseState(q)
=============================================================================
