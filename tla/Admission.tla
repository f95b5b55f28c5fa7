----------------------------- MODULE Admission -----------------------------
(***************************************************************************)
(* The gate in front of /maps/api/distancematrix/json.  A Worker counts    *)
(* the elements of a request, rejects an oversize one, asks the client's   *)
(* RateLimiter object, then the one GlobalLimiter object, and only then    *)
(* computes the matrix.  The two checks are remote calls: the call may     *)
(* fail before or after the object acted on it, an object processes one    *)
(* check at a time and may be evicted, which loses its counters.           *)
(* Operators named Faulty... are plausible mistakes in the code.  Nothing  *)
(* uses them: putting one in the place of the definition after it must     *)
(* break a property, which shows that the property can fail.               *)
(*                                                                         *)
(* Time is in seconds, SecPerDay of them to a day.  Any number of requests *)
(* are in flight at once.                                                  *)
(***************************************************************************)
EXTENDS Integers, FiniteSets, FiniteSetsExt

CONSTANTS
    Requests,      \* the requests of a behaviour
    IPs,           \* the clients, one RateLimiter object each
    Global,        \* the account of the one GlobalLimiter object
    Elements,      \* the element counts a request may have (0: malformed)
    MaxElements,   \* MAX_ELEMENTS
    PerSec,        \* RL_PER_SEC, requests; <= 0 disables the tier
    PerDay,        \* RL_ELEMENTS_PER_DAY, elements; <= 0 disables the tier
    GlobalPerDay,  \* GLOBAL_ELEMENTS_PER_DAY, elements; <= 0 disables the cap
    SecPerDay,     \* 86400
    MaxTime        \* bound: the last second of the behaviour

ASSUME AccountsAssumption == Global \notin IPs
ASSUME LimitsAssumption ==
    /\ PerSec \in Int /\ PerDay \in Int /\ GlobalPerDay \in Int
    /\ MaxElements \in Nat \ {0}
    /\ Elements \subseteq Nat
ASSUME ClockAssumption == SecPerDay \in Nat \ {0} /\ MaxTime \in Nat

VARIABLES
    now,        \* the clock the objects read
    ipCtr,      \* [IPs -> [Tier -> Counter]], memory of the RateLimiters
    globalCtr,  \* Counter, memory of the GlobalLimiter
    pc,         \* [Requests -> Phase], where the Worker is
    input,      \* [Requests -> [ip, elements]]
    sent,       \* [Requests -> SUBSET Limiter], checks not yet processed
    rl, gl,     \* [Requests -> Verdict], answers of the two limiters
    status,     \* [Requests -> Status], what the client got
    paidAt,     \* history: [Accounts -> [Requests -> Int]], second of the charge
    live        \* history: [Accounts -> SUBSET Requests], charged since eviction

limiterVars == <<ipCtr, globalCtr, paidAt, live>>
workerVars == <<pc, input, status>>
vars == <<now, limiterVars, workerVars, sent, rl, gl>>

-----------------------------------------------------------------------------
(* Tiers, windows and counters: ratelimit.ts, ratelimiter_do.ts and        *)
(* global_limiter_do.ts.                                                   *)

Tier == {"sec", "day"}
Account == IPs \cup {Global}
Counter == [bucket : Int, count : Nat]
Fresh == [bucket |-> -1, count |-> 0]   \* no window yet
NotPaid == -1

Limit(t) == IF t = "sec" THEN PerSec ELSE PerDay
Active == {t \in Tier : Limit(t) > 0}
Day(s) == s \div SecPerDay
Bucket(t) == IF t = "sec" THEN now ELSE Day(now)
Cost(t, e) == IF t = "sec" THEN 1 ELSE e

\* What a counter says of the current window: nothing once the window rolled.
FaultyUsed(ctr, bucket) == ctr.count       \* the window never rolls
Used(ctr, bucket) == IF ctr.bucket = bucket THEN ctr.count ELSE 0
IpUsed(ip, t) == Used(ipCtr[ip][t], Bucket(t))
GlobalUsed == Used(globalCtr, Day(now))

\* evaluateTiers: the tiers already at or over their limit; "sec" comes first.
FaultyFull(ip) == {t \in Active : IpUsed(ip, t) > Limit(t)}    \* off by one
Full(ip) == {t \in Active : IpUsed(ip, t) >= Limit(t)}
Blocking(ip) == IF "sec" \in Full(ip) THEN "sec" ELSE "day"

\* The counters after an admitted request: a disabled tier keeps its own.
FaultyCharged(ip, e) ==                    \* counts down, not up
    [t \in Tier |-> IF t \in Active
        THEN [bucket |-> Bucket(t), count |-> IpUsed(ip, t) - Cost(t, e)] ELSE ipCtr[ip][t]]
Charged(ip, e) ==
    [t \in Tier |->
        IF t \in Active
        THEN [bucket |-> Bucket(t), count |-> IpUsed(ip, t) + Cost(t, e)]
        ELSE ipCtr[ip][t]]

\* GlobalLimiter.check rolls the day before it looks at the count.
FaultyRolled == [bucket |-> Day(now), count |-> globalCtr.count]    \* no reset
Rolled == [bucket |-> Day(now), count |-> GlobalUsed]

-----------------------------------------------------------------------------
Phase == {"new", "perIp", "global", "serve", "done"}
Limiter == {"ip", "global"}
Verdict == {"none", "ok", "sec", "day", "fault"}
Status == {"none", "served", "429", "503", "MAX_ELEMENTS_EXCEEDED"}
Input == [ip : IPs, elements : Elements]

Init ==
    /\ now = 0
    /\ ipCtr = [ip \in IPs |-> [t \in Tier |-> Fresh]]
    /\ globalCtr = Fresh
    /\ pc = [r \in Requests |-> "new"]
    /\ input \in [Requests -> Input]
    /\ sent = [r \in Requests |-> {}]
    /\ rl = [r \in Requests |-> "none"]
    /\ gl = [r \in Requests |-> "none"]
    /\ status = [r \in Requests |-> "none"]
    /\ paidAt = [a \in Account |-> [r \in Requests |-> NotPaid]]
    /\ live = [a \in Account |-> {}]

Answer(r, s) ==
    /\ pc' = [pc EXCEPT ![r] = "done"]
    /\ status' = [status EXCEPT ![r] = s]

Pay(a, r) ==
    /\ paidAt' = [paidAt EXCEPT ![a][r] = now]
    /\ live' = [live EXCEPT ![a] = @ \cup {r}]

-----------------------------------------------------------------------------
(* The Worker: the distancematrix branch of fetch() in index.ts.           *)

\* Both limiters are asked at once, to save a round trip.
FaultyArrive(r) ==
    /\ pc[r] = "new" /\ input[r].elements <= MaxElements
    /\ pc' = [pc EXCEPT ![r] = "perIp"]
    /\ sent' = [sent EXCEPT ![r] = Limiter]
    /\ UNCHANGED <<now, limiterVars, input, status, rl, gl>>

\* Count the elements; an oversize request is answered here, and any other
\* goes to the client's limiter.
Arrive(r) ==
    /\ pc[r] = "new"
    /\ \/ /\ input[r].elements > MaxElements
          /\ Answer(r, "MAX_ELEMENTS_EXCEEDED")
          /\ UNCHANGED sent
       \/ /\ input[r].elements <= MaxElements
          /\ pc' = [pc EXCEPT ![r] = "perIp"]
          /\ sent' = [sent EXCEPT ![r] = @ \cup {"ip"}]
          /\ UNCHANGED status
    /\ UNCHANGED <<now, limiterVars, input, rl, gl>>

\* A client that passed its own limiter skips the account-wide cap.
FaultyAskGlobal(r) ==
    pc' = [pc EXCEPT ![r] = "serve"] /\ UNCHANGED <<sent, status>>

\* On to the account-wide cap.
AskGlobal(r) ==
    /\ pc' = [pc EXCEPT ![r] = "global"]
    /\ sent' = [sent EXCEPT ![r] = @ \cup {"global"}]
    /\ UNCHANGED status

\* The 429 goes out, but the handler does not return.
FaultyIpAnswered(r) ==
    /\ pc[r] = "perIp"
    /\ \/ rl[r] = "ok" /\ AskGlobal(r)
       \/ /\ rl[r] \in Tier
          /\ Answer(r, "429")
          /\ sent' = [sent EXCEPT ![r] = @ \cup {"global"}]
    /\ UNCHANGED <<now, limiterVars, input, rl, gl>>

\* The client's limiter answered.
IpAnswered(r) ==
    /\ pc[r] = "perIp"
    /\ \/ rl[r] = "ok" /\ AskGlobal(r)
       \/ rl[r] \in Tier /\ Answer(r, "429") /\ UNCHANGED sent
    /\ UNCHANGED <<now, limiterVars, input, rl, gl>>

\* The call is retried for as long as it fails.
FaultyIpFault(r) ==
    /\ pc[r] = "perIp"
    /\ sent' = [sent EXCEPT ![r] = @ \cup {"ip"}]
    /\ UNCHANGED <<now, limiterVars, workerVars, rl, gl>>

\* The call threw: before the object saw it, after it answered, or while the
\* check is still on its way (it stays in sent).  Fail open.
IpFault(r) ==
    /\ pc[r] = "perIp"
    /\ rl' = [rl EXCEPT ![r] = "fault"]
    /\ AskGlobal(r)
    /\ UNCHANGED <<now, limiterVars, input, gl>>

GlobalAnswered(r) ==
    /\ pc[r] = "global"
    /\ \/ /\ gl[r] = "ok"
          /\ pc' = [pc EXCEPT ![r] = "serve"]
          /\ UNCHANGED status
       \/ gl[r] = "day" /\ Answer(r, "503")
    /\ UNCHANGED <<now, limiterVars, input, sent, rl, gl>>

GlobalFault(r) ==
    /\ pc[r] = "global"
    /\ gl' = [gl EXCEPT ![r] = "fault"]
    /\ pc' = [pc EXCEPT ![r] = "serve"]
    /\ UNCHANGED <<now, limiterVars, input, sent, rl, status>>

\* handleDistanceMatrix runs and its answer goes out.
Serve(r) ==
    /\ pc[r] = "serve"
    /\ Answer(r, "served")
    /\ UNCHANGED <<now, limiterVars, input, sent, rl, gl>>

-----------------------------------------------------------------------------
(* The limiter objects.  An answer nobody waits for any more is dropped.   *)

\* RateLimiter.fetch -> check: an atomic read-decide-charge on its counters.
IpCheck(r) ==
    LET ip == input[r].ip
        full == Full(ip)
    IN /\ "ip" \in sent[r]
       /\ sent' = [sent EXCEPT ![r] = @ \ {"ip"}]
       /\ IF full = {}
          THEN /\ ipCtr' = [ipCtr EXCEPT ![ip] = Charged(ip, input[r].elements)]
               /\ Pay(ip, r)
          ELSE UNCHANGED <<ipCtr, paidAt, live>>
       /\ rl' = IF pc[r] # "perIp" THEN rl
                ELSE [rl EXCEPT ![r] = IF full = {} THEN "ok" ELSE Blocking(ip)]
       /\ UNCHANGED <<now, globalCtr, workerVars, gl>>

\* GlobalLimiter.fetch -> check.  A disabled cap admits and counts nothing.
GlobalCheck(r) ==
    LET verdict == IF GlobalPerDay <= 0 \/ GlobalUsed < GlobalPerDay
                   THEN "ok" ELSE "day"
    IN /\ "global" \in sent[r]
       /\ sent' = [sent EXCEPT ![r] = @ \ {"global"}]
       /\ \/ GlobalPerDay <= 0 /\ UNCHANGED <<globalCtr, paidAt, live>>
          \/ /\ GlobalPerDay > 0 /\ verdict = "ok"
             /\ globalCtr' = [Rolled EXCEPT !.count = @ + input[r].elements]
             /\ Pay(Global, r)
          \/ /\ verdict = "day"
             /\ globalCtr' = Rolled
             /\ UNCHANGED <<paidAt, live>>
       /\ gl' = IF pc[r] # "global" THEN gl ELSE [gl EXCEPT ![r] = verdict]
       /\ UNCHANGED <<now, ipCtr, workerVars, rl>>

\* The platform evicts an object: the next call constructs it anew.
EvictIp(ip) ==
    /\ ipCtr' = [ipCtr EXCEPT ![ip] = [t \in Tier |-> Fresh]]
    /\ live' = [live EXCEPT ![ip] = {}]
    /\ UNCHANGED <<now, globalCtr, paidAt, workerVars, sent, rl, gl>>

EvictGlobal ==
    /\ globalCtr' = Fresh
    /\ live' = [live EXCEPT ![Global] = {}]
    /\ UNCHANGED <<now, ipCtr, paidAt, workerVars, sent, rl, gl>>

Tick ==
    /\ now < MaxTime
    /\ now' = now + 1
    /\ UNCHANGED <<limiterVars, workerVars, sent, rl, gl>>

-----------------------------------------------------------------------------
Worker(r) ==
    \/ Arrive(r)
    \/ IpAnswered(r)
    \/ IpFault(r)
    \/ GlobalAnswered(r)
    \/ GlobalFault(r)
    \/ Serve(r)

Next ==
    \/ \E r \in Requests : Worker(r) \/ IpCheck(r) \/ GlobalCheck(r)
    \/ \E ip \in IPs : EvictIp(ip)
    \/ EvictGlobal
    \/ Tick

\* A request handler keeps running and each of its awaits settles, by an
\* answer or by a throw.  The limiters are not fair: they may never answer.
Fairness == \A r \in Requests : WF_vars(Worker(r))

Spec == Init /\ [][Next]_vars
FairSpec == Spec /\ Fairness

-----------------------------------------------------------------------------
TypeOK ==
    /\ now \in Nat
    /\ ipCtr \in [IPs -> [Tier -> Counter]]
    /\ globalCtr \in Counter
    /\ pc \in [Requests -> Phase]
    /\ input \in [Requests -> Input]
    /\ sent \in [Requests -> SUBSET Limiter]
    /\ rl \in [Requests -> Verdict]
    /\ gl \in [Requests -> Verdict]
    /\ status \in [Requests -> Status]
    /\ paidAt \in [Account -> [Requests -> Int]]
    /\ live \in [Account -> SUBSET Requests]

PaidOn(a, d) == {r \in Requests : paidAt[a][r] # NotPaid /\ Day(paidAt[a][r]) = d}
ElementsOf(S) == MapThenSumSet(LAMBDA r : input[r].elements, S)

\* What an object has charged in the window it is in, as far as it remembers.
ChargedNow(ip) == Cardinality({r \in live[ip] : paidAt[ip][r] = now})
ChargedToday(a) == ElementsOf(PaidOn(a, Day(now)) \cap live[a])

\* No window is charged past its limit by more than the last request: at most
\* PerSec requests a second, fewer than PerDay + MaxElements elements a day for
\* a client, and fewer than GlobalPerDay + MaxElements for the service, in any
\* interleaving of checks (evaluateTiers, GlobalLimiter.check).
OvershootBounded ==
    /\ \A ip \in IPs :
        /\ PerSec > 0 => IpUsed(ip, "sec") <= PerSec
        /\ PerDay > 0 => IpUsed(ip, "day") < PerDay + MaxElements
    /\ GlobalPerDay > 0 => GlobalUsed < GlobalPerDay + MaxElements

\* A counter is the sum of the charges of its current window since the object
\* was last constructed: nothing is counted twice or into the wrong day, and a
\* blocked check leaves no trace.
CountersMatchCharges ==
    /\ \A ip \in IPs :
        /\ PerDay > 0 => IpUsed(ip, "day") = ChargedToday(ip)
        /\ PerSec > 0 => IpUsed(ip, "sec") = ChargedNow(ip)
    /\ GlobalPerDay > 0 => GlobalUsed = ChargedToday(Global)

\* Who is turned away pays nothing further in: an oversize request is charged to
\* nobody, a 429 neither to the client nor to the service, a 503 not to the
\* service (index.ts: "Charged to nobody", "so a single abuser ... never burns
\* the global budget").
RejectedPayNothing ==
    \A r \in Requests :
        /\ status[r] = "MAX_ELEMENTS_EXCEEDED" =>
            \A a \in Account : paidAt[a][r] = NotPaid
        /\ status[r] = "429" =>
            \A a \in Account : paidAt[a][r] = NotPaid
        /\ status[r] = "503" => paidAt[Global][r] = NotPaid

\* Nobody is turned away by a stale window: when a limiter decides to reject,
\* the requests or elements it has charged in the very second or day of that
\* decision, and since it was constructed, already fill its limit; and a 429 or a
\* 503 goes out only on such a decision about this request, however late it or
\* the answers to others come in (evaluateTiers, GlobalLimiter.check, index.ts).
RejectionsJustified ==
    [][\A r \in Requests :
        /\ rl'[r] = "sec" /\ rl[r] # "sec" => ChargedNow(input[r].ip) >= PerSec
        /\ rl'[r] = "day" /\ rl[r] # "day" => ChargedToday(input[r].ip) >= PerDay
        /\ gl'[r] = "day" /\ gl[r] # "day" => ChargedToday(Global) >= GlobalPerDay
        /\ status'[r] = "429" => rl[r] \in Tier
        /\ status'[r] = "503" => gl[r] = "day"]_vars

\* Elements are given away only by a fault: a served request that saw no limiter
\* error was charged to the client and to the service, each with its budget on.
ServedPay ==
    \A r \in Requests : status[r] = "served" =>
        /\ rl[r] # "fault" => paidAt[input[r].ip][r] # NotPaid
        /\ gl[r] # "fault" /\ GlobalPerDay > 0 => paidAt[Global][r] # NotPaid

\* The service is charged only for a request its client's limiter let through,
\* or could not judge: the global count never moves for a request the per-IP
\* gate is still holding or has turned away (README, "Global daily cap").
GlobalChargeAfterIpGate ==
    [][\A r \in Requests :
        paidAt'[Global][r] # paidAt[Global][r] => rl[r] \in {"ok", "fault"}]_vars

\* "A limiter fault must never take the API down": every request that arrived
\* is answered, though a limiter may never answer its check.
EveryRequestAnswered ==
    \A r \in Requests : pc[r] # "new" ~> pc[r] = "done"

\* What the accounts have spent today, as the limiters remember it.
Spent == [a \in Account |-> IF a = Global THEN GlobalUsed ELSE IpUsed(a, "day")]
B == INSTANCE Budget WITH
        Accounts <- Account,
        Allowance <- [a \in Account |-> IF a = Global THEN GlobalPerDay ELSE PerDay],
        Charges <- Elements,
        spent <- Spent

\* The counters with their lazily rolled windows, and the messages around them,
\* implement the daily budgets.
ImplementsBudget == B!Spec
=============================================================================
