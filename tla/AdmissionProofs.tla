--------------------------- MODULE AdmissionProofs ---------------------------
(***************************************************************************)
(* Proofs about the admission gate, for any number of clients and requests *)
(* and any limits: type correctness, the bound on what a window admits,    *)
(* and that whoever is turned away, or still held by the per-client gate,  *)
(* costs the service nothing.                                              *)
(***************************************************************************)
EXTENDS Admission, SetFacts

-----------------------------------------------------------------------------
(* Facts about the counters.                                               *)

LEMMA DayInt == ASSUME NEW s \in Nat PROVE Day(s) \in Nat
  BY ClockAssumption DEF Day

LEMMA UsedNat ==
  ASSUME NEW ctr \in Counter, NEW b PROVE Used(ctr, b) \in Nat
  BY DEF Used, Counter

LEMMA UsedAtMost ==
  ASSUME NEW ctr \in Counter, NEW b PROVE Used(ctr, b) <= ctr.count
  BY DEF Used, Counter

LEMMA CostNat ==
  ASSUME NEW t \in Tier, NEW e \in Nat PROVE Cost(t, e) \in Nat
  BY DEF Cost

LEMMA BucketInt == ASSUME TypeOK, NEW t \in Tier PROVE Bucket(t) \in Int
  BY DayInt DEF Bucket, TypeOK

\* An admitted request leaves counters.
LEMMA ChargedType ==
  ASSUME TypeOK, NEW ip \in IPs, NEW e \in Nat
  PROVE  Charged(ip, e) \in [Tier -> Counter]
<1>1. ASSUME NEW t \in Tier, t \in Active
      PROVE  [bucket |-> Bucket(t), count |-> IpUsed(ip, t) + Cost(t, e)] \in Counter
  <2>1. IpUsed(ip, t) \in Nat
    BY <1>1, UsedNat DEF IpUsed, TypeOK
  <2> QED
    BY <1>1, <2>1, CostNat, BucketInt DEF Counter
<1>2. ASSUME NEW t \in Tier PROVE ipCtr[ip][t] \in Counter
  BY <1>2 DEF TypeOK
<1> QED
  BY <1>1, <1>2 DEF Charged

LEMMA RolledType ==
  ASSUME TypeOK, NEW e \in Nat
  PROVE  Rolled \in Counter /\ [Rolled EXCEPT !.count = @ + e] \in Counter
<1>1. GlobalUsed \in Nat
  BY UsedNat DEF GlobalUsed, TypeOK
<1>2. Day(now) \in Int
  BY DayInt DEF TypeOK
<1> QED
  BY <1>1, <1>2 DEF Rolled, Counter

LEMMA PayType ==
  ASSUME TypeOK, NEW a \in Account, NEW r \in Requests, Pay(a, r)
  PROVE  /\ paidAt' \in [Account -> [Requests -> Int]]
         /\ live' \in [Account -> SUBSET Requests]
<1>1. [paidAt[a] EXCEPT ![r] = now] \in [Requests -> Int]
  BY DEF TypeOK
<1>2. paidAt' = [paidAt EXCEPT ![a] = [paidAt[a] EXCEPT ![r] = now]]
  BY DEF Pay
<1>3. live[a] \cup {r} \in SUBSET Requests
  BY DEF TypeOK
<1>4. live' = [live EXCEPT ![a] = live[a] \cup {r}]
  BY DEF Pay
<1>5. paidAt' \in [Account -> [Requests -> Int]]
  BY <1>1, <1>2 DEF TypeOK
<1>6. live' \in [Account -> SUBSET Requests]
  BY <1>3, <1>4 DEF TypeOK
<1> QED
  BY <1>5, <1>6

LEMMA FreshType == Fresh \in Counter
  BY DEF Fresh, Counter

-----------------------------------------------------------------------------
(* Type correctness.                                                       *)

LEMMA InitType == Init => TypeOK
  BY FreshType, LimitsAssumption
  DEF Init, TypeOK, Phase, Limiter, Verdict, Status, Input, Account, NotPaid

LEMMA NextType == TypeOK /\ [Next]_vars => TypeOK'
<1> SUFFICES ASSUME TypeOK, [Next]_vars PROVE TypeOK'
  OBVIOUS
<1> USE DEF TypeOK, Phase, Limiter, Verdict, Status
<1>1. ASSUME NEW r \in Requests, Worker(r) PROVE TypeOK'
  <2>1. CASE Arrive(r)
    <3>1. /\ pc' \in [Requests -> Phase]
          /\ sent' \in [Requests -> SUBSET Limiter]
          /\ status' \in [Requests -> Status]
      <4>1. CASE Answer(r, "MAX_ELEMENTS_EXCEEDED") /\ UNCHANGED sent
        BY <4>1 DEF Answer
      <4>2. CASE /\ pc' = [pc EXCEPT ![r] = "perIp"]
                 /\ sent' = [sent EXCEPT ![r] = @ \cup {"ip"}]
                 /\ UNCHANGED status
        BY <4>2
      <4> QED
        BY <2>1, <4>1, <4>2 DEF Arrive
    <3> QED
      BY <2>1, <3>1 DEF Arrive, limiterVars
  <2>2. CASE IpAnswered(r)
    BY <2>2 DEF IpAnswered, Answer, AskGlobal, limiterVars
  <2>3. CASE IpFault(r)
    BY <2>3 DEF IpFault, AskGlobal, limiterVars
  <2>4. CASE GlobalAnswered(r)
    BY <2>4 DEF GlobalAnswered, Answer, limiterVars
  <2>5. CASE GlobalFault(r)
    BY <2>5 DEF GlobalFault, limiterVars
  <2>6. CASE Serve(r)
    BY <2>6 DEF Serve, Answer, limiterVars
  <2> QED
    BY <1>1, <2>1, <2>2, <2>3, <2>4, <2>5, <2>6 DEF Worker
<1>2. ASSUME NEW r \in Requests, IpCheck(r) PROVE TypeOK'
  <2> DEFINE ip == input[r].ip
  <2>1. ip \in IPs /\ input[r].elements \in Nat
    BY LimitsAssumption DEF Input
  <2>2. Charged(ip, input[r].elements) \in [Tier -> Counter]
    BY <2>1, ChargedType
  <2>3. ip \in Account /\ now \in Int
    BY <2>1 DEF Account
  <2>4. ipCtr' \in [IPs -> [Tier -> Counter]]
    BY <1>2, <2>1, <2>2 DEF IpCheck
  <2>5. paidAt' \in [Account -> [Requests -> Int]] /\ live' \in [Account -> SUBSET Requests]
    BY <1>2, <2>3, PayType DEF IpCheck
  <2>6. Blocking(ip) \in Tier
    BY DEF Blocking, Tier
  <2>7. rl' \in [Requests -> Verdict]
    BY <1>2, <2>6 DEF IpCheck, Tier
  <2> QED
    BY <1>2, <2>4, <2>5, <2>7 DEF IpCheck, workerVars
<1>3. ASSUME NEW r \in Requests, GlobalCheck(r) PROVE TypeOK'
  <2>1. input[r].elements \in Nat
    BY LimitsAssumption DEF Input
  <2>2. globalCtr' \in Counter
    BY <1>3, <2>1, RolledType DEF GlobalCheck
  <2>3. Global \in Account /\ now \in Int
    BY DEF Account
  <2>4. paidAt' \in [Account -> [Requests -> Int]] /\ live' \in [Account -> SUBSET Requests]
    BY <1>3, <2>3, PayType DEF GlobalCheck
  <2>5. gl' \in [Requests -> Verdict]
    BY <1>3 DEF GlobalCheck
  <2> QED
    BY <1>3, <2>2, <2>4, <2>5 DEF GlobalCheck, workerVars
<1>4. ASSUME NEW ip \in IPs, EvictIp(ip) PROVE TypeOK'
  BY <1>4, FreshType DEF EvictIp, workerVars, Account
<1>5. CASE EvictGlobal
  BY <1>5, FreshType DEF EvictGlobal, workerVars, Account
<1>6. CASE Tick
  BY <1>6 DEF Tick, workerVars, limiterVars
<1>7. CASE UNCHANGED vars
  BY <1>7 DEF vars, workerVars, limiterVars
<1> QED
  BY <1>1, <1>2, <1>3, <1>4, <1>5, <1>6, <1>7 DEF Next

\* Every variable keeps its type, whatever the limits.
THEOREM TypeCorrect == Spec => []TypeOK
<1>1. Init => TypeOK
  BY InitType
<1>2. TypeOK /\ [Next]_vars => TypeOK'
  BY NextType
<1> QED
  BY <1>1, <1>2, PTL DEF Spec

-----------------------------------------------------------------------------
(* The bound on a window.  OvershootBounded speaks of the current window   *)
(* and is not inductive: a check adds to what a counter says, so that the  *)
(* count itself must be bounded, whatever window it is of, and so must the *)
(* elements of every request whose check may still be processed.           *)

Bounded ==
    /\ \A ip \in IPs :
        /\ PerSec > 0 => ipCtr[ip]["sec"].count <= PerSec
        /\ PerDay > 0 => ipCtr[ip]["day"].count < PerDay + MaxElements
    /\ GlobalPerDay > 0 => globalCtr.count < GlobalPerDay + MaxElements
    /\ \A r \in Requests :
        pc[r] \in {"perIp", "global"} \/ sent[r] # {} => input[r].elements <= MaxElements

LEMMA InitBounded == Init => Bounded
  BY LimitsAssumption DEF Init, Bounded, Fresh, Tier

\* A counter that is not full has room for one more charge.
LEMMA ChargedBounded ==
  ASSUME TypeOK, Bounded, NEW ip \in IPs, NEW e \in Nat, e <= MaxElements, Full(ip) = {}
  PROVE  /\ PerSec > 0 => Charged(ip, e)["sec"].count <= PerSec
         /\ PerDay > 0 => Charged(ip, e)["day"].count < PerDay + MaxElements
<1>1. IpUsed(ip, "sec") \in Nat /\ IpUsed(ip, "day") \in Nat
  BY UsedNat DEF IpUsed, TypeOK, Tier
<1>2. ASSUME PerSec > 0 PROVE Charged(ip, e)["sec"].count <= PerSec
  <2>1. "sec" \in Active
    BY <1>2 DEF Active, Tier, Limit
  <2>2. IpUsed(ip, "sec") < PerSec
    BY <1>1, <2>1, LimitsAssumption DEF Full, Limit
  <2>3. Charged(ip, e)["sec"].count = IpUsed(ip, "sec") + 1
    BY <2>1 DEF Charged, Cost, Tier
  <2> QED
    BY <1>1, <2>2, <2>3, LimitsAssumption
<1>3. ASSUME PerDay > 0 PROVE Charged(ip, e)["day"].count < PerDay + MaxElements
  <2>1. "day" \in Active
    BY <1>3 DEF Active, Tier, Limit
  <2>2. IpUsed(ip, "day") < PerDay
    BY <1>1, <2>1, LimitsAssumption DEF Full, Limit
  <2>3. Charged(ip, e)["day"].count = IpUsed(ip, "day") + e
    BY <2>1 DEF Charged, Cost, Tier
  <2> QED
    BY <1>1, <2>2, <2>3, LimitsAssumption
<1> QED
  BY <1>2, <1>3

LEMMA RolledBounded ==
  ASSUME TypeOK, Bounded, GlobalPerDay > 0
  PROVE  Rolled.count = GlobalUsed /\ GlobalUsed \in Nat
         /\ GlobalUsed < GlobalPerDay + MaxElements
<1>1. GlobalUsed \in Nat /\ GlobalUsed <= globalCtr.count
  BY UsedNat, UsedAtMost DEF GlobalUsed, TypeOK
<1>2. globalCtr.count \in Nat
  BY DEF TypeOK, Counter
<1> QED
  BY <1>1, <1>2, LimitsAssumption DEF Rolled, Bounded

\* The steps of the Worker leave the counters alone, and let only a request
\* within MAX_ELEMENTS on its way.
LEMMA WorkerBounded ==
  ASSUME TypeOK, Bounded, NEW r \in Requests, Worker(r)
  PROVE  Bounded'
<1>1. UNCHANGED <<ipCtr, globalCtr, input>>
  BY DEF Worker, Arrive, IpAnswered, IpFault, GlobalAnswered, GlobalFault, Serve, limiterVars
<1>2. /\ pc' \in [Requests -> Phase] /\ sent' \in [Requests -> SUBSET Limiter]
      /\ \A q \in Requests \ {r} : pc'[q] = pc[q] /\ sent'[q] = sent[q]
  BY NextType DEF TypeOK, Next, Worker, Arrive, IpAnswered, IpFault, GlobalAnswered,
     GlobalFault, Serve, Answer, AskGlobal
<1>3. ASSUME pc'[r] \in {"perIp", "global"} \/ sent'[r] # {}
      PROVE  input[r].elements <= MaxElements
  BY <1>3 DEF TypeOK, Bounded, Worker, Arrive, IpAnswered, IpFault, GlobalAnswered,
     GlobalFault, Serve, Answer, AskGlobal
<1> QED
  BY <1>1, <1>2, <1>3 DEF Bounded

LEMMA NextBounded == TypeOK /\ Bounded /\ [Next]_vars => Bounded'
<1> SUFFICES ASSUME TypeOK, Bounded, [Next]_vars PROVE Bounded'
  OBVIOUS
<1>1. ASSUME NEW r \in Requests, Worker(r) PROVE Bounded'
  BY <1>1, WorkerBounded
<1>2. ASSUME NEW r \in Requests, IpCheck(r) PROVE Bounded'
  <2> DEFINE ip == input[r].ip
             e == input[r].elements
  <2>1. ip \in IPs /\ e \in Nat
    BY LimitsAssumption DEF TypeOK, Input
  <2>2. e <= MaxElements
    BY <1>2 DEF IpCheck, Bounded
  <2>3. UNCHANGED <<globalCtr, input, pc>> /\ \A q \in Requests : sent'[q] \subseteq sent[q]
    BY <1>2 DEF IpCheck, workerVars, TypeOK
  <2>4. ASSUME NEW other \in IPs
        PROVE  /\ PerSec > 0 => ipCtr'[other]["sec"].count <= PerSec
               /\ PerDay > 0 => ipCtr'[other]["day"].count < PerDay + MaxElements
    <3>1. CASE other = ip /\ Full(ip) = {}
      <4>1. ipCtr'[ip] = Charged(ip, e)
        BY <1>2, <2>1, <3>1 DEF IpCheck, TypeOK
      <4> QED
        BY <2>1, <2>2, <3>1, <4>1, ChargedBounded
    <3>2. CASE other # ip \/ Full(ip) # {}
      <4>1. ipCtr'[other] = ipCtr[other]
        BY <1>2, <2>1, <2>4, <3>2 DEF IpCheck, TypeOK
      <4> QED
        BY <2>4, <4>1 DEF Bounded
    <3> QED
      BY <3>1, <3>2
  <2> QED
    BY <2>3, <2>4 DEF Bounded
<1>3. ASSUME NEW r \in Requests, GlobalCheck(r) PROVE Bounded'
  <2> DEFINE e == input[r].elements
  <2>1. e \in Nat /\ e <= MaxElements
    BY <1>3, LimitsAssumption DEF TypeOK, Input, GlobalCheck, Bounded
  <2>2. UNCHANGED <<ipCtr, input, pc>> /\ \A q \in Requests : sent'[q] \subseteq sent[q]
    BY <1>3 DEF GlobalCheck, workerVars, TypeOK
  <2>3. ASSUME GlobalPerDay > 0 PROVE globalCtr'.count < GlobalPerDay + MaxElements
    <3>1. /\ Rolled.count = GlobalUsed /\ GlobalUsed \in Nat
          /\ GlobalUsed < GlobalPerDay + MaxElements
      BY <2>3, RolledBounded
    <3>2. CASE GlobalUsed < GlobalPerDay
      <4>1. globalCtr' = [Rolled EXCEPT !.count = @ + e]
        BY <1>3, <2>3, <3>2, LimitsAssumption DEF GlobalCheck
      <4>2. globalCtr'.count = GlobalUsed + e
        BY <3>1, <4>1 DEF Rolled
      <4> QED
        BY <2>1, <3>1, <3>2, <4>2, LimitsAssumption
    <3>3. CASE ~(GlobalUsed < GlobalPerDay)
      <4>1. globalCtr' = Rolled
        BY <1>3, <2>3, <3>3, LimitsAssumption DEF GlobalCheck
      <4> QED
        BY <3>1, <4>1
    <3> QED
      BY <3>2, <3>3
  <2> QED
    BY <2>2, <2>3 DEF Bounded
<1>4. ASSUME NEW ip \in IPs, EvictIp(ip) PROVE Bounded'
  BY <1>4, LimitsAssumption DEF EvictIp, Bounded, TypeOK, Fresh, Tier, workerVars
<1>5. CASE EvictGlobal
  BY <1>5, LimitsAssumption DEF EvictGlobal, Bounded, Fresh, workerVars
<1>6. CASE Tick
  BY <1>6 DEF Tick, Bounded, workerVars, limiterVars
<1>7. CASE UNCHANGED vars
  BY <1>7 DEF vars, Bounded, workerVars, limiterVars
<1> QED
  BY <1>1, <1>2, <1>3, <1>4, <1>5, <1>6, <1>7 DEF Next

LEMMA BoundedSuffices == TypeOK /\ Bounded => OvershootBounded
<1> SUFFICES ASSUME TypeOK, Bounded PROVE OvershootBounded
  OBVIOUS
<1>1. ASSUME NEW ip \in IPs, NEW t \in Tier
      PROVE  IpUsed(ip, t) \in Nat /\ IpUsed(ip, t) <= ipCtr[ip][t].count
             /\ ipCtr[ip][t].count \in Nat
  <2>1. ipCtr[ip][t] \in Counter
    BY <1>1 DEF TypeOK
  <2> QED
    BY <2>1, UsedNat, UsedAtMost DEF IpUsed, Counter
<1>2. ASSUME NEW ip \in IPs
      PROVE  /\ PerSec > 0 => IpUsed(ip, "sec") <= PerSec
             /\ PerDay > 0 => IpUsed(ip, "day") < PerDay + MaxElements
  <2>1. "sec" \in Tier /\ "day" \in Tier
    BY DEF Tier
  <2> QED
    BY <1>1, <1>2, <2>1, LimitsAssumption DEF Bounded
<1>3. GlobalPerDay > 0 => GlobalUsed < GlobalPerDay + MaxElements
  BY RolledBounded
<1> QED
  BY <1>2, <1>3 DEF OvershootBounded

\* No interleaving of checks, faults, evictions and midnights charges a window
\* past its limit by more than the one request that crossed it.
THEOREM WindowsBounded == Spec => []OvershootBounded
<1>1. Init => TypeOK /\ Bounded
  BY InitType, InitBounded
<1>2. TypeOK /\ Bounded /\ [Next]_vars => (TypeOK /\ Bounded)'
  BY NextType, NextBounded
<1>3. TypeOK /\ Bounded => OvershootBounded
  BY BoundedSuffices
<1> QED
  BY <1>1, <1>2, <1>3, PTL DEF Spec

-----------------------------------------------------------------------------
(* Who pays.  What a request has paid depends on where its two checks are: *)
(* one that is still on its way has charged nobody, and the global one     *)
(* leaves only after the client's limiter let the request through, or      *)
(* failed.  Gate says this of one request; RejectedPayNothing follows.     *)

Paid(a, r) == paidAt[a][r] # NotPaid

Gate(r) ==
    /\ pc[r] = "new" => sent[r] = {} /\ rl[r] = "none" /\ \A a \in Account : ~Paid(a, r)
    /\ status[r] # "none" => pc[r] = "done"
    /\ \A a \in Account : Paid(a, r) => a \in {Global, input[r].ip}
    /\ "ip" \in sent[r] => ~Paid(input[r].ip, r)
    /\ "global" \in sent[r] =>
        /\ pc[r] \in {"global", "serve", "done"}
        /\ rl[r] \in {"ok", "fault"}
        /\ gl[r] # "day" /\ ~Paid(Global, r)
    /\ Paid(Global, r) =>
        /\ pc[r] \in {"global", "serve", "done"}
        /\ rl[r] \in {"ok", "fault"}
        /\ gl[r] # "day"
    /\ rl[r] \in Tier => "ip" \notin sent[r] /\ ~Paid(input[r].ip, r)
    /\ pc[r] \in {"new", "perIp"} => gl[r] = "none"
    /\ status[r] = "429" => rl[r] \in Tier
    /\ status[r] = "503" => gl[r] = "day"
    /\ status[r] = "MAX_ELEMENTS_EXCEEDED" =>
        sent[r] = {} /\ \A a \in Account : ~Paid(a, r)

Gates == \A r \in Requests : Gate(r)

LEMMA InitGates == Init => Gates
  BY DEF Init, Gates, Gate, Paid, Account, Tier, Input

\* A step that leaves a request alone leaves its gate alone.
LEMMA GateFrame ==
  ASSUME Gates, NEW q \in Requests,
         pc'[q] = pc[q], input'[q] = input[q], sent'[q] = sent[q], rl'[q] = rl[q],
         gl'[q] = gl[q], status'[q] = status[q],
         \A a \in Account : paidAt'[a][q] = paidAt[a][q],
         input[q].ip \in IPs
  PROVE  Gate(q)'
<1>1. Global \in Account /\ input[q].ip \in Account
  BY DEF Account
<1>2. \A a \in Account : Paid(a, q)' <=> Paid(a, q)
  BY DEF Paid
<1>3. Paid(Global, q)' <=> Paid(Global, q)
  BY <1>1, <1>2
<1>4. Paid(input[q].ip, q)' <=> Paid(input[q].ip, q)
  BY <1>1 DEF Paid
<1> QED
  BY <1>2, <1>3, <1>4 DEF Gates, Gate

\* A charge is entered for one account and one request.
LEMMA PayEffect ==
  ASSUME TypeOK, NEW a \in Account, NEW r \in Requests, Pay(a, r)
  PROVE  /\ paidAt'[a][r] = now
         /\ \A b \in Account, q \in Requests :
                b # a \/ q # r => paidAt'[b][q] = paidAt[b][q]
<1>1. paidAt' = [paidAt EXCEPT ![a] = [paidAt[a] EXCEPT ![r] = now]]
  BY DEF Pay
<1>2. paidAt[a] \in [Requests -> Int] /\ paidAt \in [Account -> [Requests -> Int]]
  BY DEF TypeOK
<1> QED
  BY <1>1, <1>2

LEMMA WorkerGate ==
  ASSUME TypeOK, Gates, NEW r \in Requests, Worker(r)
  PROVE  Gates'
<1>1. UNCHANGED <<paidAt, input>>
  BY DEF Worker, Arrive, IpAnswered, IpFault, GlobalAnswered, GlobalFault, Serve, limiterVars
<1>2. ASSUME NEW q \in Requests, q # r
      PROVE  /\ pc'[q] = pc[q] /\ sent'[q] = sent[q] /\ rl'[q] = rl[q]
             /\ gl'[q] = gl[q] /\ status'[q] = status[q]
  BY <1>2 DEF TypeOK, Worker, Arrive, IpAnswered, IpFault, GlobalAnswered,
     GlobalFault, Serve, Answer, AskGlobal
<1>3. ASSUME NEW q \in Requests, q # r PROVE Gate(q)'
  BY <1>1, <1>2, <1>3, GateFrame DEF TypeOK, Input
<1>4. \A a \in Account : Paid(a, r)' <=> Paid(a, r)
  BY <1>1 DEF Paid
<1>5. Global \in Account /\ input[r].ip \in Account /\ input[r].ip \in IPs
  BY DEF TypeOK, Input, Account
<1>6. Paid(Global, r)' <=> Paid(Global, r)
  BY <1>4, <1>5
<1>7. Paid(input[r].ip, r)' <=> Paid(input[r].ip, r)
  BY <1>1 DEF Paid
<1>8. Gate(r)
  BY DEF Gates
<1>9. Gate(r)'
  <2> USE <1>1, <1>4, <1>6, <1>7, <1>8 DEF TypeOK, Gate, Tier
  <2>1. CASE Arrive(r)
    <3>1. pc[r] = "new" /\ UNCHANGED <<rl, gl>> /\ status[r] = "none"
      BY <2>1 DEF Arrive, Status
    <3>2. CASE Answer(r, "MAX_ELEMENTS_EXCEEDED") /\ UNCHANGED sent
      BY <3>1, <3>2 DEF Answer
    <3>3. CASE /\ pc' = [pc EXCEPT ![r] = "perIp"]
               /\ sent' = [sent EXCEPT ![r] = @ \cup {"ip"}]
               /\ UNCHANGED status
      <4>1. pc'[r] = "perIp" /\ sent'[r] = {"ip"} /\ status'[r] = "none"
        BY <3>1, <3>3
      <4>2. rl'[r] = "none" /\ gl'[r] = "none" /\ \A a \in Account : ~Paid(a, r)
        BY <3>1
      <4>3. ~Paid(Global, r) /\ ~Paid(input[r].ip, r)
        BY <1>5, <4>2
      <4> QED
        BY <4>1, <4>2, <4>3
    <3> QED
      BY <2>1, <3>2, <3>3 DEF Arrive
  <2>2. CASE IpAnswered(r)
    BY <2>2 DEF IpAnswered, Answer, AskGlobal
  <2>3. CASE IpFault(r)
    BY <2>3 DEF IpFault, AskGlobal
  <2>4. CASE GlobalAnswered(r)
    BY <2>4 DEF GlobalAnswered, Answer
  <2>5. CASE GlobalFault(r)
    BY <2>5 DEF GlobalFault
  <2>6. CASE Serve(r)
    BY <2>6 DEF Serve, Answer
  <2> QED
    BY <2>1, <2>2, <2>3, <2>4, <2>5, <2>6 DEF Worker
<1> QED
  BY <1>3, <1>9 DEF Gates

LEMMA IpCheckGate ==
  ASSUME TypeOK, Gates, NEW r \in Requests, IpCheck(r)
  PROVE  Gates'
<1> DEFINE ip == input[r].ip
<1>1. ip \in IPs /\ ip \in Account /\ Global \in Account /\ ip # Global /\ now \in Nat
  BY AccountsAssumption DEF TypeOK, Input, Account
<1>2. UNCHANGED <<pc, input, status, gl>>
  BY DEF IpCheck, workerVars
<1>3. \A b \in Account, q \in Requests :
        b # ip \/ q # r \/ Full(ip) # {} => paidAt'[b][q] = paidAt[b][q]
  BY <1>1, PayEffect DEF IpCheck
<1>4. \A q \in Requests \ {r} : sent'[q] = sent[q] /\ rl'[q] = rl[q]
  BY DEF IpCheck, TypeOK
<1>5. ASSUME NEW q \in Requests, q # r PROVE Gate(q)'
  BY <1>2, <1>3, <1>4, <1>5, GateFrame DEF TypeOK, Input
<1>6. Gate(r) /\ "ip" \in sent[r] /\ ~Paid(ip, r)
  BY DEF Gates, Gate, IpCheck
<1>7. sent'[r] = sent[r] \ {"ip"}
  BY DEF IpCheck, TypeOK
<1>8. \A b \in Account : b # ip \/ Full(ip) # {} => (Paid(b, r)' <=> Paid(b, r))
  BY <1>3 DEF Paid
<1>9. Paid(Global, r)' <=> Paid(Global, r)
  BY <1>1, <1>8
<1>10. rl'[r] = IF pc[r] # "perIp" THEN rl[r]
                ELSE IF Full(ip) = {} THEN "ok" ELSE Blocking(ip)
  BY DEF IpCheck, TypeOK
<1>11. rl'[r] \in Tier => "ip" \notin sent'[r] /\ ~Paid(ip, r)'
  <2>1. CASE Full(ip) # {}
    <3>1. paidAt'[ip][r] = paidAt[ip][r]
      BY <1>1, <1>3, <2>1
    <3> QED
      BY <1>2, <1>6, <1>7, <3>1 DEF Paid
  <2>2. CASE Full(ip) = {}
    BY <1>6, <1>10, <2>2 DEF Gate, Tier
  <2> QED
    BY <2>1, <2>2
<1>12. Paid(input[r].ip, r)' <=> Paid(ip, r)'
  BY <1>2 DEF Paid
<1>13. pc[r] # "new" /\ status[r] # "MAX_ELEMENTS_EXCEEDED"
  BY <1>6 DEF Gate
<1>14. status[r] # "none" => pc[r] # "perIp"
  BY <1>6 DEF Gate
<1>15. "global" \in sent'[r] \/ Paid(Global, r)' => rl'[r] = rl[r]
  BY <1>6, <1>7, <1>9, <1>10 DEF Gate
<1>16. \A b \in Account : Paid(b, r)' => b \in {Global, ip}
  BY <1>6, <1>8 DEF Gate
<1>17. status[r] = "429" => rl'[r] \in Tier
  BY <1>6, <1>10, <1>14 DEF Gate
<1>18. "global" \in sent'[r] => "global" \in sent[r]
  BY <1>7
<1>19. "ip" \notin sent'[r]
  BY <1>7
<1>20. Gate(r)'
  BY <1>2, <1>6, <1>9, <1>11, <1>12, <1>13, <1>15, <1>16, <1>17, <1>18, <1>19 DEF Gate
<1> QED
  BY <1>5, <1>20 DEF Gates

LEMMA GlobalCheckGate ==
  ASSUME TypeOK, Gates, NEW r \in Requests, GlobalCheck(r)
  PROVE  Gates'
<1>1. Global \in Account /\ now \in Nat /\ input[r].ip \in IPs /\ input[r].ip \in Account
      /\ input[r].ip # Global
  BY AccountsAssumption DEF TypeOK, Input, Account
<1>2. UNCHANGED <<pc, input, status, rl>>
  BY DEF GlobalCheck, workerVars
<1>3. \A b \in Account, q \in Requests :
        b # Global \/ q # r => paidAt'[b][q] = paidAt[b][q]
  BY <1>1, PayEffect DEF GlobalCheck
<1>4. \A q \in Requests \ {r} : sent'[q] = sent[q] /\ gl'[q] = gl[q]
  BY DEF GlobalCheck, TypeOK
<1>5. ASSUME NEW q \in Requests, q # r PROVE Gate(q)'
  BY <1>2, <1>3, <1>4, <1>5, GateFrame DEF TypeOK, Input
<1>6. /\ Gate(r) /\ "global" \in sent[r]
      /\ pc[r] \in {"global", "serve", "done"} /\ rl[r] \in {"ok", "fault"}
      /\ gl[r] # "day" /\ ~Paid(Global, r)
  BY DEF Gates, Gate, GlobalCheck
<1>7. sent'[r] = sent[r] \ {"global"}
  BY DEF GlobalCheck, TypeOK
<1>8. \A b \in Account : b # Global => (Paid(b, r)' <=> Paid(b, r))
  BY <1>3 DEF Paid
<1>9. Paid(input[r].ip, r)' <=> Paid(input[r].ip, r)
  BY <1>1, <1>2, <1>3 DEF Paid
<1>10. gl'[r] = "day" => ~Paid(Global, r)'
  <2>1. CASE GlobalPerDay <= 0 \/ GlobalUsed < GlobalPerDay
    BY <1>6, <2>1 DEF GlobalCheck, TypeOK
  <2>2. CASE ~(GlobalPerDay <= 0 \/ GlobalUsed < GlobalPerDay)
    <3>1. UNCHANGED paidAt
      BY <2>2 DEF GlobalCheck
    <3> QED
      BY <1>6, <3>1 DEF Paid
  <2> QED
    BY <2>1, <2>2
<1>11. pc[r] # "global" => gl'[r] = gl[r]
  BY DEF GlobalCheck
<1>12. status[r] # "MAX_ELEMENTS_EXCEEDED" /\ (status[r] = "503" => gl'[r] = "day")
  BY <1>6, <1>11 DEF Gate
<1>13. \A b \in Account : Paid(b, r)' => b \in {Global, input[r].ip}
  BY <1>6, <1>8 DEF Gate
<1>14. "global" \notin sent'[r] /\ ("ip" \in sent'[r] => "ip" \in sent[r])
  BY <1>7
<1>15. Gate(r)'
  BY <1>2, <1>6, <1>9, <1>10, <1>12, <1>13, <1>14 DEF Gate, Tier
<1> QED
  BY <1>5, <1>15 DEF Gates

LEMMA NextGates == TypeOK /\ Gates /\ [Next]_vars => Gates'
<1> SUFFICES ASSUME TypeOK, Gates, [Next]_vars PROVE Gates'
  OBVIOUS
<1>1. ASSUME NEW r \in Requests, Worker(r) \/ IpCheck(r) \/ GlobalCheck(r) PROVE Gates'
  BY <1>1, WorkerGate, IpCheckGate, GlobalCheckGate
<1>2. ASSUME UNCHANGED <<pc, input, status, sent, rl, gl, paidAt>> PROVE Gates'
  <2>1. ASSUME NEW q \in Requests PROVE Gate(q)'
    BY <1>2, <2>1, GateFrame DEF TypeOK, Input
  <2> QED
    BY <2>1 DEF Gates
<1>3. ASSUME NEW ip \in IPs, EvictIp(ip) PROVE Gates'
  BY <1>2, <1>3 DEF EvictIp, workerVars
<1>4. CASE EvictGlobal
  BY <1>2, <1>4 DEF EvictGlobal, workerVars
<1>5. CASE Tick
  BY <1>2, <1>5 DEF Tick, workerVars, limiterVars
<1>6. CASE UNCHANGED vars
  BY <1>2, <1>6 DEF vars, workerVars, limiterVars
<1> QED
  BY <1>1, <1>3, <1>4, <1>5, <1>6 DEF Next

LEMMA GatesSuffice == TypeOK /\ Gates => RejectedPayNothing
<1> SUFFICES ASSUME TypeOK, Gates, NEW r \in Requests
             PROVE  /\ status[r] = "MAX_ELEMENTS_EXCEEDED" =>
                        \A a \in Account : ~Paid(a, r)
                    /\ status[r] = "429" => \A a \in Account : ~Paid(a, r)
                    /\ status[r] = "503" => ~Paid(Global, r)
  BY DEF RejectedPayNothing, Paid
<1>1. Gate(r)
  BY DEF Gates
<1>2. status[r] = "429" => ~Paid(Global, r) /\ ~Paid(input[r].ip, r)
  BY <1>1 DEF Gate, Tier
<1> QED
  BY <1>1, <1>2 DEF Gate

\* An oversize request is charged to nobody, a 429 to neither account, a 503 not
\* to the service, though the checks of a request outlive its answer.
THEOREM RejectionsAreFree == Spec => []RejectedPayNothing
<1>1. Init => TypeOK /\ Gates
  BY InitType, InitGates
<1>2. TypeOK /\ Gates /\ [Next]_vars => (TypeOK /\ Gates)'
  BY NextType, NextGates
<1>3. TypeOK /\ Gates => RejectedPayNothing
  BY GatesSuffice
<1> QED
  BY <1>1, <1>2, <1>3, PTL DEF Spec

\* Only the global check charges the service, and it is on its way only for a
\* request the per-client gate let through or could not judge.
LEMMA ChargeAfterGate ==
  ASSUME TypeOK, Gates, [Next]_vars, NEW r \in Requests,
         paidAt'[Global][r] # paidAt[Global][r]
  PROVE  rl[r] \in {"ok", "fault"}
<1>1. Global \in Account
  BY DEF Account
<1>2. ASSUME NEW q \in Requests, Worker(q) PROVE FALSE
  BY <1>2 DEF Worker, Arrive, IpAnswered, IpFault, GlobalAnswered, GlobalFault, Serve,
     limiterVars
<1>3. ASSUME NEW q \in Requests, IpCheck(q) PROVE FALSE
  <2>1. input[q].ip \in Account /\ input[q].ip # Global
    BY AccountsAssumption DEF TypeOK, Input, Account
  <2> QED
    BY <1>1, <1>3, <2>1, PayEffect DEF IpCheck
<1>4. ASSUME NEW q \in Requests, GlobalCheck(q) PROVE rl[r] \in {"ok", "fault"}
  <2>1. q = r
    BY <1>1, <1>4, PayEffect DEF GlobalCheck
  <2> QED
    BY <1>4, <2>1 DEF GlobalCheck, Gates, Gate
<1>5. UNCHANGED paidAt => FALSE
  OBVIOUS
<1> QED
  BY <1>2, <1>3, <1>4, <1>5 DEF Next, vars, limiterVars, EvictIp, EvictGlobal, Tick

\* The count of the service moves only behind the per-client gate.
THEOREM ServiceChargedLast == Spec => GlobalChargeAfterIpGate
<1>1. Init => TypeOK /\ Gates
  BY InitType, InitGates
<1>2. TypeOK /\ Gates /\ [Next]_vars => (TypeOK /\ Gates)'
  BY NextType, NextGates
<1>3. TypeOK /\ Gates /\ [Next]_vars
      => [\A r \in Requests :
            paidAt'[Global][r] # paidAt[Global][r] => rl[r] \in {"ok", "fault"}]_vars
  BY ChargeAfterGate
<1> QED
  BY <1>1, <1>2, <1>3, PTL DEF Spec, GlobalChargeAfterIpGate

-----------------------------------------------------------------------------
(* What a served request has paid.  A verdict of "ok" comes with a charge, *)
(* and the Worker goes on only with such a verdict or after a fault.       *)

Owed(r) ==
    /\ rl[r] = "ok" => Paid(input[r].ip, r)
    /\ gl[r] = "ok" /\ GlobalPerDay > 0 => Paid(Global, r)
    /\ pc[r] \in {"global", "serve"} \/ status[r] = "served" => rl[r] \in {"ok", "fault"}
    /\ pc[r] = "serve" \/ status[r] = "served" => gl[r] \in {"ok", "fault"}

Owes == \A r \in Requests : Owed(r)

\* A charge, once entered, stays, in whatever second it was made.
LEMMA ChargesStay ==
  ASSUME TypeOK, [Next]_vars, NEW a \in Account, NEW r \in Requests, Paid(a, r)
  PROVE  Paid(a, r)'
<1>1. now \in Nat /\ NotPaid \notin Nat
  BY DEF TypeOK, NotPaid
<1>2. UNCHANGED paidAt => Paid(a, r)'
  BY DEF Paid
<1>3. ASSUME NEW b \in Account, NEW q \in Requests, Pay(b, q)
      PROVE  Paid(a, r)'
  <2>1. CASE b = a /\ q = r
    <3>1. paidAt'[a][r] = now
      BY <1>3, <2>1, PayEffect
    <3> QED
      BY <1>1, <3>1 DEF Paid
  <2>2. CASE b # a \/ q # r
    <3>1. paidAt'[a][r] = paidAt[a][r]
      BY <1>3, <2>2, PayEffect
    <3> QED
      BY <3>1 DEF Paid
  <2> QED
    BY <2>1, <2>2
<1>4. ASSUME NEW q \in Requests, Worker(q)
      PROVE  UNCHANGED paidAt
  BY <1>4 DEF Worker, Arrive, IpAnswered, IpFault, GlobalAnswered, GlobalFault, Serve,
     limiterVars
<1>5. ASSUME NEW q \in Requests, IpCheck(q)
      PROVE  UNCHANGED paidAt \/ Pay(input[q].ip, q)
  BY <1>5 DEF IpCheck
<1>6. ASSUME NEW q \in Requests, GlobalCheck(q)
      PROVE  UNCHANGED paidAt \/ Pay(Global, q)
  BY <1>6 DEF GlobalCheck
<1>7. \A q \in Requests : input[q].ip \in Account /\ Global \in Account
  BY DEF TypeOK, Input, Account
<1>8. (\E ip \in IPs : EvictIp(ip)) \/ EvictGlobal \/ Tick \/ UNCHANGED vars => UNCHANGED paidAt
  BY DEF EvictIp, EvictGlobal, Tick, vars, limiterVars
<1> QED
  BY <1>2, <1>3, <1>4, <1>5, <1>6, <1>7, <1>8 DEF Next

\* What has to be shown of a step: the charges made before stay.
LEMMA OwedFrame ==
  ASSUME TypeOK, [Next]_vars, NEW r \in Requests, Owed(r), input'[r] = input[r],
         rl'[r] = rl[r] \/ (rl'[r] = "ok" => Paid(input[r].ip, r)'),
         gl'[r] = gl[r] \/ (gl'[r] = "ok" /\ GlobalPerDay > 0 => Paid(Global, r)'),
         pc'[r] \in {"global", "serve"} \/ status'[r] = "served" => rl'[r] \in {"ok", "fault"},
         pc'[r] = "serve" \/ status'[r] = "served" => gl'[r] \in {"ok", "fault"}
  PROVE  Owed(r)'
<1>1. input[r].ip \in Account /\ Global \in Account
  BY DEF TypeOK, Input, Account
<1>2. Paid(input[r].ip, r) => Paid(input[r].ip, r)'
  <2>1. ASSUME NEW a \in Account, a = input[r].ip, Paid(a, r)
        PROVE  paidAt'[a][r] # NotPaid
    BY <2>1, ChargesStay DEF Paid
  <2> QED
    BY <1>1, <2>1 DEF Paid
<1>3. Paid(Global, r) => Paid(Global, r)'
  BY <1>1, ChargesStay
<1>4. Paid(input[r].ip, r)' => paidAt'[input'[r].ip][r] # NotPaid
  BY DEF Paid
<1> QED
  BY <1>2, <1>3, <1>4 DEF Owed, Paid

LEMMA WorkerOwes ==
  ASSUME TypeOK, Gates, Owes, NEW r \in Requests, Worker(r)
  PROVE  Owes'
<1>1. UNCHANGED <<paidAt, input>> /\ [Next]_vars
  BY DEF Next, Worker, Arrive, IpAnswered, IpFault, GlobalAnswered, GlobalFault, Serve,
     limiterVars
<1>2. ASSUME NEW q \in Requests, q # r
      PROVE  /\ pc'[q] = pc[q] /\ rl'[q] = rl[q]
             /\ gl'[q] = gl[q] /\ status'[q] = status[q]
  BY <1>2 DEF TypeOK, Worker, Arrive, IpAnswered, IpFault, GlobalAnswered,
     GlobalFault, Serve, Answer, AskGlobal
<1>3. ASSUME NEW q \in Requests, q # r
      PROVE  Owed(q)'
  <2>1. Owed(q)
    BY DEF Owes
  <2>2. /\ pc'[q] \in {"global", "serve"} \/ status'[q] = "served" => rl'[q] \in {"ok", "fault"}
        /\ pc'[q] = "serve" \/ status'[q] = "served" => gl'[q] \in {"ok", "fault"}
    BY <1>2, <1>3, <2>1 DEF Owed
  <2> QED
    BY <1>1, <1>2, <1>3, <2>1, <2>2, OwedFrame
<1>4. Owed(r) /\ (status[r] # "none" => pc[r] = "done")
  BY DEF Owes, Gates, Gate
<1>5. /\ rl'[r] = rl[r] \/ rl'[r] = "fault"
      /\ gl'[r] = gl[r] \/ gl'[r] = "fault"
  BY DEF TypeOK, Worker, Arrive, IpAnswered, IpFault, GlobalAnswered, GlobalFault, Serve
<1>6. pc'[r] \in {"global", "serve"} \/ status'[r] = "served" => rl'[r] \in {"ok", "fault"}
  BY <1>4 DEF TypeOK, Owed, Worker, Arrive, IpAnswered, IpFault, GlobalAnswered,
     GlobalFault, Serve, Answer, AskGlobal
<1>7. pc'[r] = "serve" \/ status'[r] = "served" => gl'[r] \in {"ok", "fault"}
  BY <1>4 DEF TypeOK, Owed, Worker, Arrive, IpAnswered, IpFault, GlobalAnswered,
     GlobalFault, Serve, Answer, AskGlobal
<1>8. Owed(r)'
  BY <1>1, <1>4, <1>5, <1>6, <1>7, OwedFrame
<1> QED
  BY <1>3, <1>8 DEF Owes

LEMMA IpCheckOwes ==
  ASSUME TypeOK, Gates, Owes, NEW r \in Requests, IpCheck(r)
  PROVE  Owes'
<1> DEFINE ip == input[r].ip
<1>1. /\ UNCHANGED <<pc, input, status, gl>> /\ [Next]_vars
      /\ \A q \in Requests \ {r} : rl'[q] = rl[q]
  BY DEF IpCheck, workerVars, TypeOK, Next
<1>2. ip \in Account /\ now # NotPaid
  BY DEF TypeOK, Input, Account, NotPaid
<1>3. rl'[r] = rl[r] \/ (pc[r] = "perIp" /\ (rl'[r] = "ok" => Paid(ip, r)'))
  <2>1. CASE pc[r] = "perIp" /\ Full(ip) = {}
    <3>1. paidAt'[ip][r] = now
      BY <1>2, <2>1, PayEffect DEF IpCheck
    <3> QED
      BY <1>1, <1>2, <2>1, <3>1 DEF Paid
  <2>2. CASE pc[r] = "perIp" /\ Full(ip) # {}
    <3>1. rl'[r] = Blocking(ip) /\ Blocking(ip) # "ok"
      BY <2>2 DEF IpCheck, TypeOK, Blocking
    <3> QED
      BY <2>2, <3>1
  <2>3. CASE pc[r] # "perIp"
    BY <2>3 DEF IpCheck
  <2> QED
    BY <2>1, <2>2, <2>3
<1>4. ASSUME NEW q \in Requests
      PROVE  Owed(q)'
  <2>1. Owed(q) /\ (status[q] # "none" => pc[q] = "done")
    BY DEF Owes, Gates, Gate
  <2>2. rl'[q] = rl[q] \/ (pc[q] = "perIp" /\ (rl'[q] = "ok" => Paid(input[q].ip, q)'))
    BY <1>1, <1>3
  <2>3. /\ pc'[q] \in {"global", "serve"} \/ status'[q] = "served" => rl'[q] \in {"ok", "fault"}
        /\ pc'[q] = "serve" \/ status'[q] = "served" => gl'[q] \in {"ok", "fault"}
    BY <1>1, <2>1, <2>2 DEF Owed
  <2> QED
    BY <1>1, <2>1, <2>2, <2>3, OwedFrame
<1> QED
  BY <1>4 DEF Owes

LEMMA GlobalCheckOwes ==
  ASSUME TypeOK, Gates, Owes, NEW r \in Requests, GlobalCheck(r)
  PROVE  Owes'
<1>1. /\ UNCHANGED <<pc, input, status, rl>> /\ [Next]_vars
      /\ \A q \in Requests \ {r} : gl'[q] = gl[q]
  BY DEF GlobalCheck, workerVars, TypeOK, Next
<1>2. Global \in Account /\ now # NotPaid /\ GlobalPerDay \in Int
  BY LimitsAssumption DEF TypeOK, Account, NotPaid
<1>3. gl'[r] = gl[r] \/
        (pc[r] = "global" /\ (gl'[r] = "ok" /\ GlobalPerDay > 0 => Paid(Global, r)'))
  <2>1. CASE GlobalPerDay > 0 /\ GlobalUsed < GlobalPerDay
    <3>1. paidAt'[Global][r] = now
      BY <1>2, <2>1, PayEffect DEF GlobalCheck
    <3> QED
      BY <1>2, <2>1, <3>1 DEF Paid, GlobalCheck
  <2>2. CASE GlobalPerDay > 0 /\ ~(GlobalUsed < GlobalPerDay)
    <3>1. gl'[r] = gl[r] \/ (pc[r] = "global" /\ gl'[r] = "day")
      BY <1>2, <2>2 DEF GlobalCheck, TypeOK
    <3> QED
      BY <3>1
  <2>3. CASE ~(GlobalPerDay > 0)
    BY <2>3 DEF GlobalCheck
  <2> QED
    BY <2>1, <2>2, <2>3
<1>4. ASSUME NEW q \in Requests
      PROVE  Owed(q)'
  <2>1. Owed(q) /\ (status[q] # "none" => pc[q] = "done")
    BY DEF Owes, Gates, Gate
  <2>2. gl'[q] = gl[q] \/
            (pc[q] = "global" /\ (gl'[q] = "ok" /\ GlobalPerDay > 0 => Paid(Global, q)'))
    BY <1>1, <1>3
  <2>3. /\ pc'[q] \in {"global", "serve"} \/ status'[q] = "served" => rl'[q] \in {"ok", "fault"}
        /\ pc'[q] = "serve" \/ status'[q] = "served" => gl'[q] \in {"ok", "fault"}
    BY <1>1, <2>1, <2>2 DEF Owed
  <2> QED
    BY <1>1, <2>1, <2>2, <2>3, OwedFrame
<1> QED
  BY <1>4 DEF Owes

LEMMA NextOwes == TypeOK /\ Gates /\ Owes /\ [Next]_vars => Owes'
<1> SUFFICES ASSUME TypeOK, Gates, Owes, [Next]_vars PROVE Owes'
  OBVIOUS
<1>1. ASSUME NEW r \in Requests, Worker(r) \/ IpCheck(r) \/ GlobalCheck(r) PROVE Owes'
  BY <1>1, WorkerOwes, IpCheckOwes, GlobalCheckOwes
<1>2. ASSUME UNCHANGED <<pc, input, status, rl, gl, paidAt>> PROVE Owes'
  BY <1>2 DEF Owes, Owed, Paid
<1>3. (\E ip \in IPs : EvictIp(ip)) \/ EvictGlobal \/ Tick \/ UNCHANGED vars
        => UNCHANGED <<pc, input, status, rl, gl, paidAt>>
  BY DEF EvictIp, EvictGlobal, Tick, vars, limiterVars, workerVars
<1> QED
  BY <1>1, <1>2, <1>3 DEF Next

\* index.ts: elements are given away only by a limiter that failed.
THEOREM ServedHavePaid == Spec => []ServedPay
<1>1. Init => TypeOK /\ Gates /\ Owes
  <2>1. Init => Owes
    BY DEF Init, Owes, Owed
  <2> QED
    BY <2>1, InitType, InitGates
<1>2. TypeOK /\ Gates /\ Owes /\ [Next]_vars => (TypeOK /\ Gates /\ Owes)'
  BY NextType, NextGates, NextOwes
<1>3. Owes => ServedPay
  BY DEF Owes, Owed, Paid, ServedPay
<1> QED
  BY <1>1, <1>2, <1>3, PTL DEF Spec

-----------------------------------------------------------------------------
(* The daily budgets of Budget.  No counter is of a window to come, so that *)
(* midnight, which no limiter sees, gives every account its allowance back. *)

Dated ==
    /\ \A ip \in IPs : ipCtr[ip]["sec"].bucket <= now /\ ipCtr[ip]["day"].bucket <= Day(now)
    /\ globalCtr.bucket <= Day(now)

LEMMA DayGrows == ASSUME NEW s \in Nat PROVE Day(s) <= Day(s + 1)
<1> DEFINE q == s \div SecPerDay
           q1 == (s + 1) \div SecPerDay
<1>1. SecPerDay \in Nat \ {0}
  BY ClockAssumption
<1>2. q \in Nat /\ s = SecPerDay * q + (s % SecPerDay) /\ s % SecPerDay \in Nat
  BY <1>1
<1>3. /\ q1 \in Nat /\ s + 1 = SecPerDay * q1 + ((s + 1) % SecPerDay)
      /\ (s + 1) % SecPerDay \in 0..(SecPerDay - 1)
  BY <1>1
<1>4. SecPerDay * q < SecPerDay * (q1 + 1)
  <2> HIDE DEF q, q1
  <2>1. SecPerDay * (q1 + 1) = SecPerDay * q1 + SecPerDay /\ SecPerDay * q1 \in Nat
    BY <1>1, <1>3
  <2>2. SecPerDay * q \in Nat /\ SecPerDay * q <= s
    BY <1>1, <1>2
  <2> QED
    BY <1>1, <1>3, <2>1, <2>2
<1>5. q < q1 + 1
  <2> HIDE DEF q, q1
  <2> QED
    BY <1>1, <1>2, <1>3, <1>4
<1> QED
  <2> HIDE DEF q, q1
  <2>1. q <= q1
    BY <1>2, <1>3, <1>5
  <2> QED
    BY <2>1 DEF Day, q, q1

LEMMA InitDated == Init => Dated
<1>1. Day(0) \in Nat
  BY DayInt
<1> QED
  BY <1>1 DEF Init, Dated, Fresh, Tier

LEMMA NextDated == TypeOK /\ Dated /\ [Next]_vars => Dated'
<1> SUFFICES ASSUME TypeOK, Dated, [Next]_vars PROVE Dated'
  OBVIOUS
<1>1. Day(now) \in Nat /\ now \in Nat
  BY DayInt DEF TypeOK
<1>2. ASSUME UNCHANGED <<now, ipCtr, globalCtr>> PROVE Dated'
  BY <1>2 DEF Dated, Day
<1>3. ASSUME NEW r \in Requests, Worker(r) PROVE UNCHANGED <<now, ipCtr, globalCtr>>
  BY <1>3 DEF Worker, Arrive, IpAnswered, IpFault, GlobalAnswered, GlobalFault, Serve,
     limiterVars
<1>4. ASSUME NEW r \in Requests, IpCheck(r) PROVE Dated'
  <2> DEFINE ip == input[r].ip
             c == Charged(ip, input[r].elements)
  <2>1. now' = now /\ globalCtr' = globalCtr
    BY <1>4 DEF IpCheck
  <2>2. ip \in IPs
    BY DEF TypeOK, Input
  <2>3. ipCtr' = ipCtr \/ ipCtr' = [ipCtr EXCEPT ![ip] = c]
    BY <1>4 DEF IpCheck
  <2>4. c["sec"].bucket <= now /\ c["day"].bucket <= Day(now)
    BY <1>1, <2>2 DEF Charged, Bucket, Tier, Dated
  <2> HIDE DEF c
  <2>5. ASSUME NEW p \in IPs
        PROVE  ipCtr'[p]["sec"].bucket <= now /\ ipCtr'[p]["day"].bucket <= Day(now)
    <3>1. ipCtr'[p] = ipCtr[p] \/ ipCtr'[p] = c
      BY <2>2, <2>3 DEF TypeOK
    <3> QED
      BY <2>4, <3>1 DEF Dated
  <2> QED
    BY <2>1, <2>5 DEF Dated, Day
<1>5. ASSUME NEW r \in Requests, GlobalCheck(r) PROVE Dated'
  <2>1. UNCHANGED <<now, ipCtr>>
    BY <1>5 DEF GlobalCheck
  <2>2. globalCtr'.bucket \in {globalCtr.bucket, Day(now)}
    BY <1>5 DEF GlobalCheck, Rolled
  <2> QED
    BY <1>1, <2>1, <2>2 DEF Dated, Day
<1>6. ASSUME NEW ip \in IPs, EvictIp(ip) PROVE Dated'
  <2>1. UNCHANGED <<now, globalCtr>> /\ ipCtr' = [ipCtr EXCEPT ![ip] = [t \in Tier |-> Fresh]]
    BY <1>6 DEF EvictIp
  <2>2. \A p \in IPs : ipCtr'[p] = ipCtr[p] \/ ipCtr'[p] = [t \in Tier |-> Fresh]
    BY <2>1 DEF TypeOK
  <2> QED
    BY <1>1, <2>1, <2>2 DEF Dated, Day, Fresh, Tier
<1>7. ASSUME EvictGlobal PROVE Dated'
  BY <1>1, <1>7 DEF EvictGlobal, Dated, Day, Fresh
<1>8. ASSUME Tick PROVE Dated'
  <2>1. now' = now + 1 /\ UNCHANGED <<ipCtr, globalCtr>>
    BY <1>8 DEF Tick, limiterVars
  <2>2. Day(now) <= Day(now') /\ Day(now') \in Nat
    BY <1>1, <2>1, DayGrows, DayInt
  <2>3. \A ip \in IPs : ipCtr[ip]["sec"].bucket \in Int /\ ipCtr[ip]["day"].bucket \in Int
    BY DEF TypeOK, Counter, Tier
  <2>4. globalCtr.bucket \in Int
    BY DEF TypeOK, Counter
  <2> QED
    BY <1>1, <2>1, <2>2, <2>3, <2>4 DEF Dated
<1> QED
  BY <1>2, <1>3, <1>4, <1>5, <1>6, <1>7, <1>8 DEF Next, vars, limiterVars

LEMMA SpentOf ==
  /\ Spent = [a \in Account |-> Spent[a]]
  /\ \A ip \in IPs : Spent[ip] = IpUsed(ip, "day")
  /\ Spent[Global] = GlobalUsed
BY AccountsAssumption DEF Spent, Account

\* The same, of the next state.
LEMMA SpentNext ==
  /\ Spent' = [a \in Account |-> Spent'[a]]
  /\ \A ip \in IPs : Spent'[ip] = Used(ipCtr'[ip]["day"], Day(now'))
  /\ Spent'[Global] = Used(globalCtr', Day(now'))
BY AccountsAssumption DEF Spent, Account, IpUsed, GlobalUsed, Bucket

\* A step that touches one account is a step of Budget on that account.
LEMMA SpentOne ==
  ASSUME NEW a \in Account, \A b \in Account \ {a} : Spent'[b] = Spent[b]
  PROVE  Spent' = [Spent EXCEPT ![a] = Spent'[a]]
BY SpentOf, SpentNext

LEMMA SpentFrame ==
  ASSUME UNCHANGED now, \A ip \in IPs : ipCtr'[ip]["day"] = ipCtr[ip]["day"],
         globalCtr' = globalCtr
  PROVE  Spent' = Spent
<1>1. \A ip \in IPs : Spent'[ip] = Spent[ip]
  BY SpentOf, SpentNext DEF IpUsed, Bucket
<1>2. Spent'[Global] = Spent[Global]
  BY SpentOf, SpentNext DEF GlobalUsed
<1>3. \A a \in Account : Spent'[a] = Spent[a]
  BY <1>1, <1>2 DEF Account
<1> QED
  BY <1>3, SpentOf, SpentNext

LEMMA InitBudget == Init => B!Init
<1> SUFFICES ASSUME Init PROVE Spent = [a \in Account |-> 0]
  BY DEF B!Init
<1>1. Day(now) \in Nat
  BY DayInt DEF Init
<1>2. GlobalUsed = 0 /\ \A ip \in IPs : IpUsed(ip, "day") = 0
  BY <1>1 DEF Init, GlobalUsed, IpUsed, Used, Fresh, Tier
<1>3. \A a \in Account : Spent[a] = 0
  BY <1>2, SpentOf DEF Account
<1> QED
  BY <1>3, SpentOf

LEMMA NextBudget == TypeOK /\ Dated /\ [Next]_vars => [B!Next]_Spent
<1> SUFFICES ASSUME TypeOK, Dated, [Next]_vars PROVE B!Next \/ Spent' = Spent
  OBVIOUS
<1>1. Day(now) \in Nat /\ now \in Nat
  BY DayInt DEF TypeOK
<1>2. ASSUME NEW r \in Requests, Worker(r) PROVE Spent' = Spent
  <2>1. UNCHANGED <<now, ipCtr, globalCtr>>
    BY <1>2 DEF Worker, Arrive, IpAnswered, IpFault, GlobalAnswered, GlobalFault, Serve,
       limiterVars
  <2> QED
    BY <2>1, SpentFrame
<1>3. ASSUME NEW r \in Requests, IpCheck(r) PROVE B!Next \/ Spent' = Spent
  <2> DEFINE ip == input[r].ip
             e == input[r].elements
  <2>1. ip \in IPs /\ ip \in Account /\ ip # Global /\ e \in Elements
    BY AccountsAssumption DEF TypeOK, Input, Account
  <2>2. now' = now /\ globalCtr' = globalCtr
    BY <1>3 DEF IpCheck
  <2>3. \A p \in IPs \ {ip} : ipCtr'[p] = ipCtr[p]
    BY <1>3, <2>1 DEF IpCheck, TypeOK
  <2>4. CASE Full(ip) = {} /\ PerDay > 0
    <3>1. "day" \in Active
      BY <2>4 DEF Active, Tier, Limit
    <3>2. ipCtr'[ip]["day"] = [bucket |-> Day(now), count |-> IpUsed(ip, "day") + e]
      <4>1. ipCtr'[ip] = Charged(ip, e)
        BY <1>3, <2>1, <2>4 DEF IpCheck, TypeOK
      <4> QED
        BY <3>1, <4>1 DEF Charged, Bucket, Cost, Tier
    <3>3. Spent'[ip] = Spent[ip] + e
      BY <2>1, <2>2, <3>2, SpentOf, SpentNext DEF Used
    <3>4. \A p \in IPs \ {ip} : Spent'[p] = Spent[p]
      BY <2>2, <2>3, SpentOf, SpentNext DEF IpUsed, Bucket
    <3>5. Spent'[Global] = Spent[Global]
      BY <2>2, SpentOf, SpentNext DEF GlobalUsed
    <3>6. Spent' = [Spent EXCEPT ![ip] = Spent[ip] + e]
      <4>1. \A b \in Account \ {ip} : Spent'[b] = Spent[b]
        BY <3>4, <3>5 DEF Account
      <4> QED
        BY <2>1, <3>3, <4>1, SpentOne
    <3>7. Spent[ip] < PerDay
      <4>1. IpUsed(ip, "day") \in Nat
        BY <2>1, UsedNat DEF IpUsed, TypeOK, Tier
      <4>2. ~(IpUsed(ip, "day") >= Limit("day"))
        BY <2>4, <3>1 DEF Full
      <4> QED
        BY <2>1, <4>1, <4>2, SpentOf, LimitsAssumption DEF Limit
    <3>8. B!Charge(ip, e)
      BY <2>1, <2>4, <3>6, <3>7 DEF B!Charge, B!Metered
    <3> QED
      BY <2>1, <3>8 DEF B!Next
  <2>5. CASE ~(Full(ip) = {} /\ PerDay > 0)
    <3>1. ipCtr'[ip]["day"] = ipCtr[ip]["day"]
      <4>1. CASE Full(ip) = {}
        <5>1. "day" \notin Active
          BY <2>5, <4>1 DEF Active, Limit
        <5>2. ipCtr'[ip] = Charged(ip, e)
          BY <1>3, <2>1, <4>1 DEF IpCheck, TypeOK
        <5> QED
          BY <5>1, <5>2 DEF Charged, Tier
      <4>2. CASE Full(ip) # {}
        BY <1>3, <4>2 DEF IpCheck
      <4> QED
        BY <4>1, <4>2
    <3>2. \A p \in IPs : ipCtr'[p]["day"] = ipCtr[p]["day"]
      BY <2>3, <3>1
    <3> QED
      BY <2>2, <3>2, SpentFrame
  <2> QED
    BY <2>4, <2>5
<1>4. ASSUME NEW r \in Requests, GlobalCheck(r) PROVE B!Next \/ Spent' = Spent
  <2> DEFINE e == input[r].elements
  <2>1. e \in Elements /\ Global \in Account
    BY DEF TypeOK, Input, Account
  <2>2. now' = now /\ ipCtr' = ipCtr
    BY <1>4 DEF GlobalCheck
  <2>3. \A ip \in IPs : Spent'[ip] = Spent[ip]
    BY <2>2, SpentOf, SpentNext DEF IpUsed, Bucket
  <2>4. Spent' = [Spent EXCEPT ![Global] = Spent'[Global]]
    <3>1. \A b \in Account \ {Global} : Spent'[b] = Spent[b]
      BY <2>3 DEF Account
    <3> QED
      BY <2>1, <3>1, SpentOne
  <2>5. GlobalUsed \in Nat /\ GlobalPerDay \in Int
    BY UsedNat, LimitsAssumption DEF GlobalUsed, TypeOK
  <2>6. CASE GlobalPerDay <= 0
    BY <1>4, <2>2, <2>5, <2>6, SpentFrame DEF GlobalCheck
  <2>7. CASE GlobalPerDay > 0 /\ GlobalUsed < GlobalPerDay
    <3>1. globalCtr' = [Rolled EXCEPT !.count = @ + e]
      BY <1>4, <2>5, <2>7 DEF GlobalCheck
    <3>2. Spent'[Global] = Spent[Global] + e
      BY <2>2, <3>1, SpentOf, SpentNext DEF Rolled, Used
    <3>3. B!Charge(Global, e)
      BY <2>1, <2>4, <2>7, <3>2, SpentOf DEF B!Charge, B!Metered
    <3> QED
      BY <2>1, <3>3 DEF B!Next
  <2>8. CASE GlobalPerDay > 0 /\ ~(GlobalUsed < GlobalPerDay)
    <3>1. globalCtr' = Rolled
      BY <1>4, <2>5, <2>8 DEF GlobalCheck
    <3>2. Spent'[Global] = Spent[Global]
      BY <2>2, <3>1, SpentOf, SpentNext DEF Rolled, Used
    <3> QED
      BY <2>4, <3>2, SpentOf
  <2> QED
    BY <2>5, <2>6, <2>7, <2>8
<1>5. ASSUME NEW ip \in IPs, EvictIp(ip) PROVE B!Next \/ Spent' = Spent
  <2>1. ip \in Account /\ UNCHANGED <<now, globalCtr>>
    BY <1>5 DEF EvictIp, Account
  <2>2. /\ \A p \in IPs \ {ip} : ipCtr'[p] = ipCtr[p]
        /\ ipCtr'[ip]["day"] = Fresh
    BY <1>5 DEF EvictIp, TypeOK, Tier
  <2>3. Spent'[ip] = 0
    BY <1>1, <2>1, <2>2, SpentNext DEF Used, Fresh
  <2>4. \A p \in IPs \ {ip} : Spent'[p] = Spent[p]
    BY <2>1, <2>2, SpentOf, SpentNext DEF IpUsed, Bucket
  <2>5. Spent'[Global] = Spent[Global]
    BY <2>1, SpentOf, SpentNext DEF GlobalUsed
  <2>6. \A b \in Account \ {ip} : Spent'[b] = Spent[b]
    BY <2>4, <2>5 DEF Account
  <2>7. B!Forget(ip)
    BY <2>1, <2>3, <2>6, SpentOne DEF B!Forget
  <2> QED
    BY <2>1, <2>7 DEF B!Next
<1>6. ASSUME EvictGlobal PROVE B!Next \/ Spent' = Spent
  <2>1. Global \in Account /\ UNCHANGED <<now, ipCtr>> /\ globalCtr' = Fresh
    BY <1>6 DEF EvictGlobal, Account
  <2>2. Spent'[Global] = 0
    BY <1>1, <2>1, SpentNext DEF Used, Fresh
  <2>3. \A p \in IPs : Spent'[p] = Spent[p]
    BY <2>1, SpentOf, SpentNext DEF IpUsed, Bucket
  <2>4. \A b \in Account \ {Global} : Spent'[b] = Spent[b]
    BY <2>3 DEF Account
  <2>5. B!Forget(Global)
    BY <2>1, <2>2, <2>4, SpentOne DEF B!Forget
  <2> QED
    BY <2>1, <2>5 DEF B!Next
<1>7. ASSUME Tick PROVE B!Next \/ Spent' = Spent
  <2>1. now' = now + 1 /\ UNCHANGED <<ipCtr, globalCtr>>
    BY <1>7 DEF Tick, limiterVars
  <2>2. Day(now) <= Day(now') /\ Day(now') \in Nat
    BY <1>1, <2>1, DayGrows, DayInt
  <2>3. CASE Day(now') = Day(now)
    <3>1. \A ip \in IPs : Spent'[ip] = Spent[ip]
      BY <2>1, <2>3, SpentOf, SpentNext DEF IpUsed, Bucket
    <3>2. Spent'[Global] = Spent[Global]
      BY <2>1, <2>3, SpentOf, SpentNext DEF GlobalUsed
    <3>3. \A a \in Account : Spent'[a] = Spent[a]
      BY <3>1, <3>2 DEF Account
    <3> QED
      BY <3>3, SpentOf, SpentNext
  <2>4. CASE Day(now') # Day(now)
    <3>1. \A ip \in IPs : ipCtr[ip]["day"].bucket \in Int
      BY DEF TypeOK, Counter, Tier
    <3>2. globalCtr.bucket \in Int
      BY DEF TypeOK, Counter
    <3>3. globalCtr.bucket # Day(now') /\ \A ip \in IPs : ipCtr[ip]["day"].bucket # Day(now')
      BY <1>1, <2>2, <2>4, <3>1, <3>2 DEF Dated
    <3>4. Spent'[Global] = 0 /\ \A ip \in IPs : Spent'[ip] = 0
      BY <2>1, <3>3, SpentNext DEF Used
    <3>5. \A a \in Account : Spent'[a] = 0
      BY <3>4 DEF Account
    <3>6. B!Midnight
      BY <3>5, SpentNext DEF B!Midnight
    <3> QED
      BY <3>6 DEF B!Next
  <2> QED
    BY <2>3, <2>4
<1>8. ASSUME UNCHANGED vars PROVE Spent' = Spent
  BY <1>8, SpentFrame DEF vars, limiterVars
<1> QED
  BY <1>2, <1>3, <1>4, <1>5, <1>6, <1>7, <1>8 DEF Next

\* The limiters' lazily rolled counters, with every message, fault and eviction
\* around them, implement the daily budgets: a charge is taken only under the
\* allowance, and midnight alone, or an eviction, gives it back.
THEOREM BudgetImplemented == Spec => ImplementsBudget
<1>1. Init => B!Init /\ TypeOK /\ Dated
  BY InitBudget, InitType, InitDated
<1>2. TypeOK /\ Dated /\ [Next]_vars => (TypeOK /\ Dated)'
  BY NextType, NextDated
<1>3. TypeOK /\ Dated /\ [Next]_vars => [B!Next]_Spent
  BY NextBudget
<1> QED
  BY <1>1, <1>2, <1>3, PTL DEF Spec, ImplementsBudget, B!Spec

-----------------------------------------------------------------------------
(* Counters against charges.  A counter tallies charges: those of its own  *)
(* window weigh what it counts, and none is of a later one.  The windows   *)
(* are those of when, a function of the second of the charge.              *)

Tallies(ctr, paid, charged, when, weight) ==
    /\ IsFiniteSet(charged)
    /\ \A r \in charged : paid[r] \in Nat /\ when[paid[r]] <= ctr.bucket
    /\ ctr.count = Sum(weight, {r \in charged : when[paid[r]] = ctr.bucket})

Windows(when) == when \in [Nat -> Nat]
Weighs(weight, S) == \A r \in S : weight[r] \in Nat

\* What a counter says of the window at hand, though it may not have rolled yet.
LEMMA TallyUsed ==
  ASSUME NEW ctr \in Counter, NEW paid, NEW charged, NEW when, Windows(when), NEW weight,
         Tallies(ctr, paid, charged, when, weight), NEW d \in Int, ctr.bucket <= d
  PROVE  Used(ctr, d) = Sum(weight, {r \in charged : when[paid[r]] = d})
<1>1. CASE ctr.bucket = d
  BY <1>1 DEF Tallies, Used
<1>2. CASE ctr.bucket # d
  <2>1. ctr.bucket \in Int
    BY DEF Counter
  <2>2. \A r \in charged : when[paid[r]] # d
    <3> TAKE r \in charged
    <3>1. paid[r] \in Nat /\ when[paid[r]] <= ctr.bucket
      BY DEF Tallies
    <3>2. when[paid[r]] \in Nat
      BY <3>1 DEF Windows
    <3> QED
      BY <1>2, <2>1, <3>1, <3>2
  <2>3. {r \in charged : when[paid[r]] = d} = {}
    BY <2>2
  <2>4. Used(ctr, d) = 0
    BY <1>2 DEF Used
  <2> QED
    BY <2>3, <2>4, SumEmpty
<1> QED
  BY <1>1, <1>2

LEMMA TallyFresh ==
  ASSUME NEW paid, NEW when, NEW weight
  PROVE  Tallies(Fresh, paid, {}, when, weight)
<1>1. IsFiniteSet({}) /\ Sum(weight, {}) = 0
  BY SumEmpty, FS_EmptySet
<1> QED
  BY <1>1 DEF Tallies, Fresh

\* A counter that rolls tallies the same charges.
LEMMA TallyRolled ==
  ASSUME NEW ctr \in Counter, NEW paid, NEW charged, NEW when, Windows(when), NEW weight,
         Tallies(ctr, paid, charged, when, weight), NEW d \in Int, ctr.bucket <= d
  PROVE  Tallies([bucket |-> d, count |-> Used(ctr, d)], paid, charged, when, weight)
<1>1. Used(ctr, d) = Sum(weight, {r \in charged : when[paid[r]] = d})
  BY TallyUsed
<1>2. ASSUME NEW r \in charged PROVE paid[r] \in Nat /\ when[paid[r]] <= d
  <2>1. paid[r] \in Nat /\ when[paid[r]] <= ctr.bucket /\ ctr.bucket \in Int
    BY DEF Tallies, Counter
  <2>2. when[paid[r]] \in Nat
    BY <2>1 DEF Windows
  <2> QED
    BY <2>1, <2>2
<1>3. IsFiniteSet(charged)
  BY DEF Tallies
<1> QED
  BY <1>1, <1>2, <1>3 DEF Tallies

\* A charge of now, of a request that the object has not charged.
LEMMA TallyCharged ==
  ASSUME NEW ctr \in Counter, NEW paid, NEW charged, NEW when, Windows(when), NEW weight,
         Tallies(ctr, paid, charged, when, weight),
         NEW t \in Nat, ctr.bucket <= when[t],
         NEW r, r \notin charged, Weighs(weight, charged \cup {r}),
         NEW paid2, paid2[r] = t, \A q \in charged : paid2[q] = paid[q]
  PROVE  Tallies([bucket |-> when[t], count |-> Used(ctr, when[t]) + weight[r]],
                 paid2, charged \cup {r}, when, weight)
<1> DEFINE d == when[t]
           old == {q \in charged : when[paid[q]] = d}
<1>1. d \in Nat
  BY DEF Windows
<1>2. IsFiniteSet(charged) /\ IsFiniteSet(charged \cup {r}) /\ IsFiniteSet(old)
  <2>1. IsFiniteSet(charged)
    BY DEF Tallies
  <2>2. old \subseteq charged
    OBVIOUS
  <2> HIDE DEF old
  <2> QED
    BY <2>1, <2>2, FS_AddElement, FS_Subset
<1>3. Used(ctr, d) = Sum(weight, old)
  BY <1>1, TallyUsed
<1>4. {q \in charged \cup {r} : when[paid2[q]] = d} = old \cup {r}
  OBVIOUS
<1>5. Sum(weight, old \cup {r}) = Sum(weight, old) + weight[r]
  <2>1. r \notin old /\ \A q \in old \cup {r} : weight[q] \in Int
    BY DEF Weighs
  <2> HIDE DEF old
  <2> QED
    BY <1>2, <2>1, SumAdd
<1>6. ASSUME NEW q \in charged \cup {r} PROVE paid2[q] \in Nat /\ when[paid2[q]] <= d
  <2>1. CASE q = r
    BY <1>1, <2>1
  <2>2. CASE q # r
    <3>1. q \in charged /\ paid2[q] = paid[q]
      BY <2>2
    <3>2. paid[q] \in Nat /\ when[paid[q]] <= ctr.bucket /\ ctr.bucket \in Int
      BY <3>1 DEF Tallies, Counter
    <3>3. when[paid[q]] \in Nat
      BY <3>2 DEF Windows
    <3> QED
      BY <1>1, <3>1, <3>2, <3>3
  <2> QED
    BY <2>1, <2>2
<1> HIDE DEF d, old
<1>7. Tallies([bucket |-> d, count |-> Used(ctr, d) + weight[r]], paid2, charged \cup {r}, when, weight)
  BY <1>2, <1>3, <1>4, <1>5, <1>6 DEF Tallies
<1> QED
  BY <1>7 DEF d
\* The elements of a set of requests, as a sum of weights.
SecOf == [s \in Nat |-> s]
DayOf == [s \in Nat |-> Day(s)]
When(t) == IF t = "sec" THEN SecOf ELSE DayOf
Size == [r \in Requests |-> input[r].elements]
Unit == [r \in Requests |-> 1]
Weight(t) == IF t = "sec" THEN Unit ELSE Size

LEMMA SizeNat == ASSUME TypeOK PROVE \A r \in Requests : Size[r] \in Nat
<1>1. \A r \in Requests : input[r].elements \in Elements
  BY DEF TypeOK, Input
<1> QED
  BY <1>1, LimitsAssumption DEF Size

LEMMA WeighsAll == ASSUME TypeOK, NEW t PROVE Weighs(Weight(t), Requests)
<1>1. Weighs(Size, Requests)
  BY SizeNat DEF Weighs
<1>2. Weighs(Unit, Requests)
  BY DEF Weighs, Unit
<1> QED
  BY <1>1, <1>2 DEF Weight

LEMMA WhenIs ==
  ASSUME TypeOK, NEW t \in Tier
  PROVE  Windows(When(t)) /\ When(t)[now] = Bucket(t) /\ Bucket(t) \in Nat
<1>1. Windows(DayOf) /\ DayOf[now] = Day(now) /\ Day(now) \in Nat
  BY DayInt DEF Windows, DayOf, TypeOK
<1>2. Windows(SecOf) /\ SecOf[now] = now
  BY DEF Windows, SecOf, TypeOK
<1>3. now \in Nat
  BY DEF TypeOK
<1> QED
  BY <1>1, <1>2, <1>3 DEF When, Bucket, Tier

LEMMA ElementsAre ==
  ASSUME TypeOK, NEW S \in SUBSET Requests, IsFiniteSet(S)
  PROVE  ElementsOf(S) = Sum(Size, S)
<1> DEFINE F(it) == it = [s \in SUBSET S |->
                            IF s = {} THEN 0 ELSE input[AnyOf(s)].elements + it[s \ {AnyOf(s)}]]
<1>0. \A s \in SUBSET S : s # {} => Size[AnyOf(s)] = input[AnyOf(s)].elements
  BY DEF AnyOf, Size
<1>1. \A x \in S : Size[x] \in Int
  BY SizeNat
<1>2. PICK it \in [SUBSET S -> Int] : Sums(it, Size, S) /\ Sum(Size, S) = it[S]
  BY <1>1, SumIs
<1>3. F(it)
  BY <1>0, <1>2 DEF Sums
<1> DEFINE jt == CHOOSE f : F(f)
<1>4. F(jt)
  <2> HIDE DEF F
  <2> QED
    BY <1>3
<1>5. ElementsOf(S) = jt[S]
  BY Zenon DEF ElementsOf, MapThenSumSet, MapThenFoldSet, AnyOf
<1> HIDE DEF jt
<1>6. Sums(jt, Size, S)
  BY <1>0, <1>4 DEF Sums
<1>7. it[S] = jt[S]
  BY <1>2, <1>6, SumsAgree
<1> QED
  BY <1>2, <1>5, <1>7

-----------------------------------------------------------------------------
(* The ledger of charges: a request is charged once to an account, at a    *)
(* second that has come.                                                   *)

Entered(a) == {r \in Requests : Paid(a, r)}

Ledger ==
    \A a \in Account :
        /\ IsFiniteSet(Entered(a))
        /\ live[a] \subseteq Entered(a)
        /\ \A r \in Entered(a) : paidAt[a][r] \in 0..now

\* What a step can do to the charges.
LEMMA ChargeSteps ==
  ASSUME TypeOK, Gates, [Next]_vars
  PROVE  /\ now' \in {now, now + 1} /\ input' = input
         /\ \/ paidAt' = paidAt /\ \A a \in Account : live'[a] \in {live[a], {}}
            \/ \E a \in Account, r \in Requests : Pay(a, r) /\ ~Paid(a, r) /\ now' = now
<1>1. ASSUME NEW r \in Requests, Worker(r)
      PROVE  UNCHANGED <<now, input, paidAt, live>>
  BY <1>1 DEF Worker, Arrive, IpAnswered, IpFault, GlobalAnswered, GlobalFault, Serve, limiterVars
<1>2. ASSUME NEW r \in Requests, IpCheck(r)
      PROVE  /\ UNCHANGED <<now, input>>
             /\ UNCHANGED <<paidAt, live>> \/ (Pay(input[r].ip, r) /\ ~Paid(input[r].ip, r))
  BY <1>2 DEF IpCheck, workerVars, Gates, Gate
<1>3. ASSUME NEW r \in Requests, GlobalCheck(r)
      PROVE  /\ UNCHANGED <<now, input>>
             /\ UNCHANGED <<paidAt, live>> \/ (Pay(Global, r) /\ ~Paid(Global, r))
  BY <1>3 DEF GlobalCheck, workerVars, Gates, Gate
<1>4. ASSUME NEW ip \in IPs, EvictIp(ip)
      PROVE  UNCHANGED <<now, input, paidAt>> /\ \A a \in Account : live'[a] \in {live[a], {}}
  BY <1>4 DEF EvictIp, workerVars, TypeOK
<1>5. ASSUME EvictGlobal
      PROVE  UNCHANGED <<now, input, paidAt>> /\ \A a \in Account : live'[a] \in {live[a], {}}
  BY <1>5 DEF EvictGlobal, workerVars, TypeOK
<1>6. ASSUME Tick
      PROVE  now' = now + 1 /\ UNCHANGED <<input, paidAt, live>>
  BY <1>6 DEF Tick, workerVars, limiterVars
<1>7. ASSUME UNCHANGED vars
      PROVE  UNCHANGED <<now, input, paidAt, live>>
  BY <1>7 DEF vars, workerVars, limiterVars
<1>8. \A r \in Requests : input[r].ip \in Account /\ Global \in Account
  BY DEF TypeOK, Input, Account
<1>9. CASE Next
  <2>1. CASE \E r \in Requests : IpCheck(r)
    BY <1>2, <1>8, <2>1
  <2>2. CASE \E r \in Requests : GlobalCheck(r)
    BY <1>3, <1>8, <2>2
  <2> QED
    BY <1>1, <1>4, <1>5, <1>6, <1>9, <2>1, <2>2 DEF Next
<1> QED
  BY <1>7, <1>9

\* A charge keeps its second.
LEMMA ChargesKept ==
  ASSUME TypeOK, Gates, [Next]_vars, NEW a \in Account, NEW r \in Requests, Paid(a, r)
  PROVE  paidAt'[a][r] = paidAt[a][r]
<1>1. CASE paidAt' = paidAt
  BY <1>1
<1>2. ASSUME NEW b \in Account, NEW q \in Requests, Pay(b, q), ~Paid(b, q)
      PROVE  paidAt'[a][r] = paidAt[a][r]
  <2>1. b # a \/ q # r
    BY <1>2
  <2> QED
    BY <1>2, <2>1, PayEffect
<1> QED
  BY <1>1, <1>2, ChargeSteps

LEMMA InitLedger == Init => Ledger
<1> SUFFICES ASSUME Init, NEW a \in Account
             PROVE  Entered(a) = {} /\ live[a] = {} /\ IsFiniteSet({})
  BY DEF Ledger
<1> QED
  BY FS_EmptySet DEF Init, Entered, Paid

LEMMA NextLedger == TypeOK /\ Gates /\ Ledger /\ [Next]_vars => Ledger'
<1> SUFFICES ASSUME TypeOK, Gates, Ledger, [Next]_vars, NEW a \in Account
             PROVE  /\ IsFiniteSet(Entered(a)')
                    /\ live'[a] \subseteq Entered(a)'
                    /\ \A r \in Entered(a)' : paidAt'[a][r] \in 0..now'
  BY DEF Ledger
<1>0. /\ IsFiniteSet(Entered(a)) /\ live[a] \subseteq Entered(a)
      /\ \A r \in Entered(a) : paidAt[a][r] \in 0..now
  BY DEF Ledger
<1>1. now \in Nat /\ now' \in Nat /\ now <= now'
  BY ChargeSteps DEF TypeOK
<1>2. CASE paidAt' = paidAt /\ \A b \in Account : live'[b] \in {live[b], {}}
  <2>1. Entered(a)' = Entered(a)
    BY <1>2 DEF Entered, Paid
  <2>2. live'[a] \in {live[a], {}}
    BY <1>2
  <2>3. \A r \in Entered(a) : paidAt'[a][r] \in 0..now'
    BY <1>0, <1>1, <1>2
  <2> QED
    BY <1>0, <2>1, <2>2, <2>3
<1>3. ASSUME NEW b \in Account, NEW q \in Requests, Pay(b, q), now' = now
      PROVE  /\ IsFiniteSet(Entered(a)')
             /\ live'[a] \subseteq Entered(a)'
             /\ \A r \in Entered(a)' : paidAt'[a][r] \in 0..now'
  <2>0. now # NotPaid
    BY <1>1 DEF NotPaid
  <2>1. CASE b # a
    <3>1. \A r \in Requests : paidAt'[a][r] = paidAt[a][r]
      BY <1>3, <2>1, PayEffect
    <3>2. Entered(a)' = Entered(a)
      BY <3>1 DEF Entered, Paid
    <3>3. live'[a] = live[a]
      BY <1>3, <2>1 DEF Pay, TypeOK
    <3>4. \A r \in Entered(a) : paidAt'[a][r] \in 0..now'
      BY <1>0, <1>3, <3>1 DEF Entered
    <3> QED
      BY <1>0, <3>2, <3>3, <3>4
  <2>2. CASE b = a
    <3>1. paidAt'[a][q] = now /\ \A r \in Requests \ {q} : paidAt'[a][r] = paidAt[a][r]
      BY <1>3, <2>2, PayEffect
    <3>2. Entered(a)' = Entered(a) \cup {q}
      BY <2>0, <3>1 DEF Entered, Paid
    <3>3. live'[a] = live[a] \cup {q}
      BY <1>3, <2>2 DEF Pay, TypeOK
    <3>4. \A r \in Entered(a) \cup {q} : paidAt'[a][r] \in 0..now'
      BY <1>0, <1>1, <1>3, <3>1 DEF Entered
    <3>5. IsFiniteSet(Entered(a) \cup {q})
      BY <1>0, FS_AddElement
    <3> QED
      BY <1>0, <3>2, <3>3, <3>4, <3>5
  <2> QED
    BY <2>1, <2>2
<1> QED
  BY <1>2, <1>3, ChargeSteps

-----------------------------------------------------------------------------
(* Every enabled counter tallies the charges of its object since it was    *)
(* last constructed.                                                       *)

Books ==
    /\ \A ip \in IPs : \A t \in Active :
        Tallies(ipCtr[ip][t], paidAt[ip], live[ip], When(t), Weight(t))
    /\ GlobalPerDay > 0 =>
        Tallies(globalCtr, paidAt[Global], live[Global], DayOf, Size)

LEMMA InitBooks == Init => Books
<1> SUFFICES ASSUME Init PROVE Books
  OBVIOUS
<1>1. \A a \in Account : live[a] = {}
  BY DEF Init
<1>2. globalCtr = Fresh /\ \A ip \in IPs : \A t \in Active : ipCtr[ip][t] = Fresh
  BY DEF Init, Active
<1>3. Global \in Account /\ IPs \subseteq Account
  BY DEF Account
<1>4. \A ip \in IPs : \A t \in Active :
        Tallies(ipCtr[ip][t], paidAt[ip], live[ip], When(t), Weight(t))
  BY <1>1, <1>2, <1>3, TallyFresh
<1>5. Tallies(globalCtr, paidAt[Global], live[Global], DayOf, Size)
  BY <1>1, <1>2, <1>3, TallyFresh
<1> QED
  BY <1>4, <1>5 DEF Books

LEMMA WeightFrame == ASSUME input' = input PROVE Size' = Size /\ \A t : Weight(t)' = Weight(t)
<1>1. Size' = Size
  BY DEF Size
<1> QED
  BY <1>1 DEF Weight, Unit

\* An account that a step leaves alone.
LEMMA IpFrame ==
  ASSUME Books, input' = input, NEW ip \in IPs, NEW t \in Active,
         ipCtr'[ip][t] = ipCtr[ip][t], paidAt'[ip] = paidAt[ip], live'[ip] = live[ip]
  PROVE  Tallies(ipCtr'[ip][t], paidAt'[ip], live'[ip], When(t)', Weight(t)')
<1>1. When(t)' = When(t) /\ Weight(t)' = Weight(t)
  BY WeightFrame DEF When, SecOf, DayOf, Day
<1> QED
  BY <1>1 DEF Books

LEMMA GlobalFrame ==
  ASSUME Books, input' = input, GlobalPerDay > 0,
         globalCtr' = globalCtr, paidAt'[Global] = paidAt[Global], live'[Global] = live[Global]
  PROVE  Tallies(globalCtr', paidAt'[Global], live'[Global], DayOf', Size')
<1>1. DayOf' = DayOf /\ Size' = Size
  BY WeightFrame DEF DayOf, Day
<1> QED
  BY <1>1 DEF Books

\* A charge leaves the other accounts alone.
LEMMA PayFrame ==
  ASSUME TypeOK, NEW a \in Account, NEW r \in Requests, Pay(a, r)
  PROVE  /\ \A b \in Account \ {a} : paidAt'[b] = paidAt[b] /\ live'[b] = live[b]
         /\ live'[a] = live[a] \cup {r} /\ paidAt'[a][r] = now
         /\ \A q \in Requests \ {r} : paidAt'[a][q] = paidAt[a][q]
<1>1. \A b \in Account \ {a} : paidAt'[b] = paidAt[b] /\ live'[b] = live[b]
  BY DEF Pay, TypeOK
<1>2. live'[a] = live[a] \cup {r}
  BY DEF Pay, TypeOK
<1> QED
  BY <1>1, <1>2, PayEffect

LEMMA IpCheckBooks ==
  ASSUME TypeOK, Gates, Ledger, Dated, Books, NEW r \in Requests, IpCheck(r)
  PROVE  Books'
<1> DEFINE ip == input[r].ip
           e == input[r].elements
<1>1. ip \in IPs /\ ip \in Account /\ ip # Global /\ Global \in Account /\ now \in Nat
  BY AccountsAssumption DEF TypeOK, Input, Account
<1>2. UNCHANGED <<now, input, globalCtr>>
  BY DEF IpCheck, workerVars
<1>3. CASE Full(ip) # {}
  <2>1. UNCHANGED <<ipCtr, paidAt, live>>
    BY <1>3 DEF IpCheck
  <2>2. \A p \in IPs : \A t \in Active :
            Tallies(ipCtr'[p][t], paidAt'[p], live'[p], When(t)', Weight(t)')
    BY <1>2, <2>1, IpFrame
  <2>3. GlobalPerDay > 0 => Tallies(globalCtr', paidAt'[Global], live'[Global], DayOf', Size')
    BY <1>2, <2>1, GlobalFrame
  <2> QED
    BY <2>2, <2>3 DEF Books
<1>4. CASE Full(ip) = {}
  <2>1. ipCtr' = [ipCtr EXCEPT ![ip] = Charged(ip, e)] /\ Pay(ip, r) /\ ~Paid(ip, r)
    BY <1>4 DEF IpCheck, Gates, Gate
  <2>2. \A p \in IPs \ {ip} : ipCtr'[p] = ipCtr[p]
    BY <2>1 DEF TypeOK
  <2>3. ipCtr'[ip] = Charged(ip, e)
    BY <1>1, <2>1 DEF TypeOK
  <2>4. /\ \A b \in Account \ {ip} : paidAt'[b] = paidAt[b] /\ live'[b] = live[b]
        /\ live'[ip] = live[ip] \cup {r} /\ paidAt'[ip][r] = now
        /\ \A q \in Requests \ {r} : paidAt'[ip][q] = paidAt[ip][q]
    <3> HIDE DEF ip
    <3> QED
      BY <1>1, <2>1, PayFrame
  <2>5. ASSUME NEW p \in IPs \ {ip}, NEW t \in Active
        PROVE  Tallies(ipCtr'[p][t], paidAt'[p], live'[p], When(t)', Weight(t)')
    <3>1. p \in Account \ {ip} /\ p \in IPs
      BY DEF Account
    <3>2. ipCtr'[p][t] = ipCtr[p][t] /\ paidAt'[p] = paidAt[p] /\ live'[p] = live[p]
      BY <2>2, <2>4, <3>1
    <3> QED
      BY <1>2, <3>1, <3>2, IpFrame
  <2>6. ASSUME NEW t \in Active
        PROVE  Tallies(ipCtr'[ip][t], paidAt'[ip], live'[ip], When(t)', Weight(t)')
    <3>1. t \in Tier
      BY DEF Active
    <3>2. ipCtr'[ip][t] = [bucket |-> Bucket(t), count |-> IpUsed(ip, t) + Cost(t, e)]
      BY <2>3, <3>1 DEF Charged
    <3>3. /\ Windows(When(t)) /\ When(t)[now] = Bucket(t)
          /\ Cost(t, e) = Weight(t)[r]
      BY <3>1, WhenIs DEF Cost, Weight, Size, Unit
    <3>4. ipCtr[ip][t] \in Counter /\ ipCtr[ip][t].bucket <= When(t)[now]
      <4>1. ipCtr[ip][t].bucket <= Bucket(t)
        BY <1>1, <3>1 DEF Dated, Bucket, Tier
      <4> QED
        BY <1>1, <3>1, <3>3, <4>1 DEF TypeOK
    <3>5. live[ip] \subseteq Requests \ {r}
      BY <1>1, <2>1 DEF Ledger, Entered
    <3>6. /\ r \notin live[ip] /\ \A q \in live[ip] : paidAt'[ip][q] = paidAt[ip][q]
          /\ Weighs(Weight(t), live[ip] \cup {r})
      <4>1. Weighs(Weight(t), Requests)
        BY WeighsAll
      <4> QED
        BY <2>4, <3>5, <4>1 DEF Weighs
    <3>7. Tallies(ipCtr[ip][t], paidAt[ip], live[ip], When(t), Weight(t))
      BY <1>1 DEF Books
    <3>8. Tallies([bucket |-> When(t)[now], count |-> Used(ipCtr[ip][t], When(t)[now]) + Weight(t)[r]],
                  paidAt'[ip], live[ip] \cup {r}, When(t), Weight(t))
      <4>1. paidAt'[ip][r] = now
        BY <2>4
      <4> HIDE DEF ip
      <4> QED
        BY <1>1, <3>3, <3>4, <3>6, <3>7, <4>1, TallyCharged
    <3>9. Used(ipCtr[ip][t], When(t)[now]) + Weight(t)[r] = IpUsed(ip, t) + Cost(t, e)
      BY <3>3 DEF IpUsed
    <3>10. Tallies(ipCtr'[ip][t], paidAt'[ip], live'[ip], When(t), Weight(t))
      BY <2>4, <3>2, <3>3, <3>8, <3>9
    <3>11. When(t)' = When(t) /\ Weight(t)' = Weight(t)
      BY <1>2, WeightFrame DEF When, SecOf, DayOf, Day
    <3> QED
      BY <3>10, <3>11
  <2>7. GlobalPerDay > 0 => Tallies(globalCtr', paidAt'[Global], live'[Global], DayOf', Size')
    <3>1. paidAt'[Global] = paidAt[Global] /\ live'[Global] = live[Global]
      BY <1>1, <2>4
    <3> QED
      BY <1>2, <3>1, GlobalFrame
  <2>8. \A p \in IPs : \A t \in Active :
            Tallies(ipCtr'[p][t], paidAt'[p], live'[p], When(t)', Weight(t)')
    <3> TAKE p \in IPs
    <3> TAKE t \in Active
    <3>1. CASE p = ip
      BY <2>6, <3>1
    <3>2. CASE p # ip
      BY <2>5, <3>2
    <3> QED
      BY <3>1, <3>2
  <2> QED
    BY <2>7, <2>8 DEF Books
<1> QED
  BY <1>3, <1>4
LEMMA GlobalCheckBooks ==
  ASSUME TypeOK, Gates, Ledger, Dated, Books, NEW r \in Requests, GlobalCheck(r)
  PROVE  Books'
<1> DEFINE e == input[r].elements
<1>1. Global \in Account /\ now \in Nat /\ GlobalPerDay \in Int
  BY LimitsAssumption DEF TypeOK, Account
<1>2. UNCHANGED <<now, input, ipCtr>>
  BY DEF GlobalCheck, workerVars
<1>3. \A b \in Account \ {Global} : paidAt'[b] = paidAt[b] /\ live'[b] = live[b]
  BY <1>1, PayFrame DEF GlobalCheck
<1>4. ASSUME NEW p \in IPs, NEW t \in Active
      PROVE  Tallies(ipCtr'[p][t], paidAt'[p], live'[p], When(t)', Weight(t)')
  <2>1. p \in Account \ {Global}
    BY AccountsAssumption DEF Account
  <2> QED
    BY <1>2, <1>3, <2>1, IpFrame
<1>5. ASSUME GlobalPerDay > 0
      PROVE  Tallies(globalCtr', paidAt'[Global], live'[Global], DayOf, Size)
  <2>1. Windows(DayOf) /\ DayOf[now] = Day(now) /\ Day(now) \in Nat
    BY <1>1, DayInt DEF Windows, DayOf
  <2>2. Tallies(globalCtr, paidAt[Global], live[Global], DayOf, Size)
    BY <1>5 DEF Books
  <2>3. globalCtr \in Counter /\ globalCtr.bucket <= Day(now) /\ globalCtr.bucket <= DayOf[now]
    BY <2>1 DEF Dated, TypeOK
  <2>4. Rolled = [bucket |-> Day(now), count |-> Used(globalCtr, Day(now))]
    BY DEF Rolled, GlobalUsed
  <2>5. CASE GlobalUsed < GlobalPerDay
    <3>1. globalCtr' = [Rolled EXCEPT !.count = @ + e] /\ Pay(Global, r) /\ ~Paid(Global, r)
      BY <1>1, <1>5, <2>5 DEF GlobalCheck, Gates, Gate
    <3>2. globalCtr' = [bucket |-> DayOf[now], count |-> Used(globalCtr, DayOf[now]) + Size[r]]
      BY <2>1, <2>4, <3>1 DEF Size
    <3>3. /\ live'[Global] = live[Global] \cup {r} /\ paidAt'[Global][r] = now
          /\ \A q \in Requests \ {r} : paidAt'[Global][q] = paidAt[Global][q]
      BY <1>1, <3>1, PayFrame
    <3>4. live[Global] \subseteq Requests \ {r}
      BY <1>1, <3>1 DEF Ledger, Entered
    <3>5. /\ r \notin live[Global] /\ \A q \in live[Global] : paidAt'[Global][q] = paidAt[Global][q]
          /\ Weighs(Size, live[Global] \cup {r})
      <4>1. Weighs(Size, Requests)
        BY SizeNat DEF Weighs
      <4> QED
        BY <3>3, <3>4, <4>1 DEF Weighs
    <3>6. Tallies([bucket |-> DayOf[now], count |-> Used(globalCtr, DayOf[now]) + Size[r]],
                  paidAt'[Global], live[Global] \cup {r}, DayOf, Size)
      <4>1. paidAt'[Global][r] = now
        BY <3>3
      <4> QED
        BY <1>1, <2>1, <2>2, <2>3, <3>5, <4>1, TallyCharged
    <3> QED
      BY <3>2, <3>3, <3>6
  <2>6. CASE ~(GlobalUsed < GlobalPerDay)
    <3>1. globalCtr' = Rolled /\ UNCHANGED <<paidAt, live>>
      BY <1>1, <1>5, <2>6 DEF GlobalCheck
    <3>2. Tallies([bucket |-> Day(now), count |-> Used(globalCtr, Day(now))],
                  paidAt[Global], live[Global], DayOf, Size)
      BY <2>1, <2>2, <2>3, TallyRolled
    <3> QED
      BY <2>4, <3>1, <3>2
  <2> QED
    BY <2>5, <2>6
<1>6. DayOf' = DayOf /\ Size' = Size
  BY <1>2, WeightFrame DEF DayOf, Day
<1> QED
  BY <1>4, <1>5, <1>6 DEF Books

\* An object that is constructed anew has charged nobody.
LEMMA EvictIpBooks ==
  ASSUME TypeOK, Books, NEW ip \in IPs, EvictIp(ip)
  PROVE  Books'
<1>1. UNCHANGED <<input, globalCtr, paidAt>>
  BY DEF EvictIp, workerVars
<1>2. ip \in Account /\ ip # Global /\ Global \in Account /\ IPs \subseteq Account
  BY AccountsAssumption DEF Account
<1>3. /\ \A p \in IPs \ {ip} : ipCtr'[p] = ipCtr[p]
      /\ \A b \in Account \ {ip} : live'[b] = live[b]
      /\ ipCtr'[ip] = [t \in Tier |-> Fresh] /\ live'[ip] = {}
  BY <1>2 DEF EvictIp, TypeOK
<1>4. ASSUME NEW p \in IPs, NEW t \in Active
      PROVE  Tallies(ipCtr'[p][t], paidAt'[p], live'[p], When(t)', Weight(t)')
  <2>1. CASE p = ip
    <3>1. ipCtr'[p][t] = Fresh /\ live'[p] = {}
      BY <1>3, <2>1 DEF Active
    <3> QED
      BY <3>1, TallyFresh
  <2>2. CASE p # ip
    BY <1>1, <1>2, <1>3, <2>2, IpFrame
  <2> QED
    BY <2>1, <2>2
<1>5. GlobalPerDay > 0 => Tallies(globalCtr', paidAt'[Global], live'[Global], DayOf', Size')
  BY <1>1, <1>2, <1>3, GlobalFrame
<1> QED
  BY <1>4, <1>5 DEF Books

LEMMA EvictGlobalBooks ==
  ASSUME TypeOK, Books, EvictGlobal
  PROVE  Books'
<1>1. UNCHANGED <<input, ipCtr, paidAt>> /\ globalCtr' = Fresh
  BY DEF EvictGlobal, workerVars
<1>2. live'[Global] = {} /\ \A ip \in IPs : live'[ip] = live[ip]
  BY AccountsAssumption DEF EvictGlobal, TypeOK, Account
<1>3. \A p \in IPs : \A t \in Active :
        Tallies(ipCtr'[p][t], paidAt'[p], live'[p], When(t)', Weight(t)')
  BY <1>1, <1>2, IpFrame
<1>4. Tallies(globalCtr', paidAt'[Global], live'[Global], DayOf', Size')
  BY <1>1, <1>2, TallyFresh
<1> QED
  BY <1>3, <1>4 DEF Books

LEMMA NextBooks == TypeOK /\ Gates /\ Ledger /\ Dated /\ Books /\ [Next]_vars => Books'
<1> SUFFICES ASSUME TypeOK, Gates, Ledger, Dated, Books, [Next]_vars PROVE Books'
  OBVIOUS
<1>1. ASSUME UNCHANGED <<input, ipCtr, globalCtr, paidAt, live>> PROVE Books'
  <2>1. \A p \in IPs : \A t \in Active :
            Tallies(ipCtr'[p][t], paidAt'[p], live'[p], When(t)', Weight(t)')
    BY <1>1, IpFrame
  <2>2. GlobalPerDay > 0 => Tallies(globalCtr', paidAt'[Global], live'[Global], DayOf', Size')
    BY <1>1, GlobalFrame
  <2> QED
    BY <2>1, <2>2 DEF Books
<1>2. ASSUME NEW r \in Requests, Worker(r)
      PROVE  UNCHANGED <<input, ipCtr, globalCtr, paidAt, live>>
  BY <1>2 DEF Worker, Arrive, IpAnswered, IpFault, GlobalAnswered, GlobalFault, Serve, limiterVars
<1>3. Tick \/ UNCHANGED vars => UNCHANGED <<input, ipCtr, globalCtr, paidAt, live>>
  BY DEF Tick, vars, workerVars, limiterVars
<1> QED
  BY <1>1, <1>2, <1>3, IpCheckBooks, GlobalCheckBooks, EvictIpBooks, EvictGlobalBooks DEF Next

\* The part of the ledger that a live object remembers, by the day.
LEMMA LiveToday ==
  ASSUME TypeOK, Ledger, NEW a \in Account
  PROVE  /\ PaidOn(a, Day(now)) \cap live[a] = {r \in live[a] : DayOf[paidAt[a][r]] = Day(now)}
         /\ PaidOn(a, Day(now)) \cap live[a] \in SUBSET Requests
         /\ IsFiniteSet(PaidOn(a, Day(now)) \cap live[a])
         /\ IsFiniteSet(live[a])
<1>1. /\ live[a] \subseteq Entered(a) /\ live[a] \subseteq Requests
      /\ \A r \in live[a] : paidAt[a][r] \in Nat /\ Paid(a, r)
      /\ IsFiniteSet(Entered(a))
  <2>1. /\ live[a] \subseteq Entered(a) /\ IsFiniteSet(Entered(a))
        /\ \A r \in Entered(a) : paidAt[a][r] \in 0..now
    BY DEF Ledger
  <2>2. live[a] \subseteq Requests /\ now \in Nat
    BY DEF TypeOK
  <2>3. \A r \in Entered(a) : Paid(a, r)
    BY DEF Entered
  <2> QED
    BY <2>1, <2>2, <2>3
<1>2. PaidOn(a, Day(now)) \cap live[a] = {r \in live[a] : DayOf[paidAt[a][r]] = Day(now)}
  BY <1>1 DEF PaidOn, DayOf, Paid
<1>3. PaidOn(a, Day(now)) \cap live[a] \subseteq Entered(a)
  BY <1>1
<1>4. IsFiniteSet(PaidOn(a, Day(now)) \cap live[a])
  BY <1>1, <1>3, FS_Subset
<1>5. IsFiniteSet(live[a])
  BY <1>1, FS_Subset
<1> QED
  BY <1>1, <1>2, <1>4, <1>5

\* What a counter with its tier on says, in the terms of the ledger.
LEMMA CountersAre ==
  ASSUME TypeOK, Ledger, Dated, Books
  PROVE  /\ \A ip \in IPs : PerDay > 0 =>
                IpUsed(ip, "day") = ElementsOf(PaidOn(ip, Day(now)) \cap live[ip])
         /\ \A ip \in IPs : PerSec > 0 =>
                IpUsed(ip, "sec") = Cardinality({r \in live[ip] : paidAt[ip][r] = now})
         /\ GlobalPerDay > 0 =>
                GlobalUsed = ElementsOf(PaidOn(Global, Day(now)) \cap live[Global])
<1>1. Windows(DayOf) /\ Windows(SecOf) /\ Day(now) \in Nat /\ now \in Nat
  BY DayInt DEF Windows, DayOf, SecOf, TypeOK
<1>2. ASSUME NEW ip \in IPs, PerDay > 0
      PROVE  IpUsed(ip, "day") = ElementsOf(PaidOn(ip, Day(now)) \cap live[ip])
  <2>1. ip \in Account /\ "day" \in Active /\ "day" \in Tier
    BY <1>2 DEF Active, Tier, Limit, Account
  <2>2. Tallies(ipCtr[ip]["day"], paidAt[ip], live[ip], DayOf, Size)
    BY <2>1 DEF Books, When, Weight
  <2>3. ipCtr[ip]["day"] \in Counter /\ ipCtr[ip]["day"].bucket <= Day(now)
    BY <2>1 DEF Dated, TypeOK
  <2>4. Used(ipCtr[ip]["day"], Day(now)) = Sum(Size, {r \in live[ip] : DayOf[paidAt[ip][r]] = Day(now)})
    BY <1>1, <2>2, <2>3, TallyUsed
  <2>5. Sum(Size, PaidOn(ip, Day(now)) \cap live[ip]) = ElementsOf(PaidOn(ip, Day(now)) \cap live[ip])
    BY <2>1, LiveToday, ElementsAre
  <2>6. PaidOn(ip, Day(now)) \cap live[ip] = {r \in live[ip] : DayOf[paidAt[ip][r]] = Day(now)}
    BY <2>1, LiveToday
  <2> QED
    BY <2>4, <2>5, <2>6 DEF IpUsed, Bucket
<1>3. ASSUME NEW ip \in IPs, PerSec > 0
      PROVE  IpUsed(ip, "sec") = Cardinality({r \in live[ip] : paidAt[ip][r] = now})
  <2>1. ip \in Account /\ "sec" \in Active /\ "sec" \in Tier
    BY <1>3 DEF Active, Tier, Limit, Account
  <2>2. Tallies(ipCtr[ip]["sec"], paidAt[ip], live[ip], SecOf, Unit)
    BY <2>1 DEF Books, When, Weight
  <2>3. ipCtr[ip]["sec"] \in Counter /\ ipCtr[ip]["sec"].bucket <= now
    BY <2>1 DEF Dated, TypeOK
  <2>4. Used(ipCtr[ip]["sec"], now) = Sum(Unit, {r \in live[ip] : SecOf[paidAt[ip][r]] = now})
    BY <1>1, <2>2, <2>3, TallyUsed
  <2>5. \A r \in live[ip] : paidAt[ip][r] \in Nat /\ r \in Requests
    BY <2>1, <2>2 DEF Tallies, TypeOK
  <2>6. {r \in live[ip] : SecOf[paidAt[ip][r]] = now} = {r \in live[ip] : paidAt[ip][r] = now}
    BY <2>5 DEF SecOf
  <2>7. IsFiniteSet({r \in live[ip] : paidAt[ip][r] = now})
    <3>1. IsFiniteSet(live[ip]) /\ {r \in live[ip] : paidAt[ip][r] = now} \subseteq live[ip]
      BY <2>1, LiveToday
    <3> QED
      BY <3>1, FS_Subset
  <2>8. Sum(Unit, {r \in live[ip] : paidAt[ip][r] = now}) = Cardinality({r \in live[ip] : paidAt[ip][r] = now})
    <3>1. \A r \in {q \in live[ip] : paidAt[ip][q] = now} : Unit[r] = 1
      BY <2>5 DEF Unit
    <3> QED
      BY <2>7, <3>1, SumOnes
  <2> QED
    BY <2>4, <2>6, <2>8 DEF IpUsed, Bucket
<1>4. ASSUME GlobalPerDay > 0
      PROVE  GlobalUsed = ElementsOf(PaidOn(Global, Day(now)) \cap live[Global])
  <2>1. Global \in Account
    BY DEF Account
  <2>2. Tallies(globalCtr, paidAt[Global], live[Global], DayOf, Size)
    BY <1>4 DEF Books
  <2>3. globalCtr \in Counter /\ globalCtr.bucket <= Day(now)
    BY DEF Dated, TypeOK
  <2>4. Used(globalCtr, Day(now)) = Sum(Size, {r \in live[Global] : DayOf[paidAt[Global][r]] = Day(now)})
    BY <1>1, <2>2, <2>3, TallyUsed
  <2>5. Sum(Size, PaidOn(Global, Day(now)) \cap live[Global])
            = ElementsOf(PaidOn(Global, Day(now)) \cap live[Global])
    BY <2>1, LiveToday, ElementsAre
  <2>6. PaidOn(Global, Day(now)) \cap live[Global]
            = {r \in live[Global] : DayOf[paidAt[Global][r]] = Day(now)}
    BY <2>1, LiveToday
  <2> QED
    BY <2>4, <2>5, <2>6 DEF GlobalUsed
<1> QED
  BY <1>2, <1>3, <1>4

\* A counter is what its object charged in the window: no late answer, fault,
\* eviction or midnight makes it count a request twice or into another window.
THEOREM CountersAreCharges == Spec => []CountersMatchCharges
<1> DEFINE I == TypeOK /\ Gates /\ Ledger /\ Dated /\ Books
<1>1. Init => I
  BY InitType, InitGates, InitLedger, InitDated, InitBooks
<1>2. I /\ [Next]_vars => I'
  BY NextType, NextGates, NextLedger, NextDated, NextBooks
<1>3. I => CountersMatchCharges
  BY CountersAre DEF CountersMatchCharges, ChargedToday, ChargedNow
<1> QED
  BY <1>1, <1>2, <1>3, PTL DEF Spec

-----------------------------------------------------------------------------
(* Why a request was turned away.  A limiter that blocks counts, in the    *)
(* window it is in, up to its limit, and what it counts are its charges.   *)

LEMMA BlockedIsFull ==
  ASSUME TypeOK, Ledger, Dated, Books
  PROVE  /\ \A ip \in IPs : Full(ip) # {} =>
                IF Blocking(ip) = "sec"
                THEN ChargedNow(ip) >= PerSec ELSE ChargedToday(ip) >= PerDay
         /\ GlobalPerDay > 0 /\ ~(GlobalUsed < GlobalPerDay)
                => ChargedToday(Global) >= GlobalPerDay
<1>1. /\ \A ip \in IPs : PerDay > 0 => IpUsed(ip, "day") = ChargedToday(ip)
      /\ \A ip \in IPs : PerSec > 0 => IpUsed(ip, "sec") = ChargedNow(ip)
      /\ GlobalPerDay > 0 => GlobalUsed = ChargedToday(Global)
  BY CountersAre DEF ChargedToday, ChargedNow
<1>2. ASSUME NEW ip \in IPs, Full(ip) # {}
      PROVE  IF Blocking(ip) = "sec" THEN ChargedNow(ip) >= PerSec ELSE ChargedToday(ip) >= PerDay
  <2>1. CASE "sec" \in Full(ip)
    <3>1. PerSec > 0 /\ IpUsed(ip, "sec") >= PerSec
      BY <2>1 DEF Full, Active, Limit
    <3> QED
      BY <1>1, <2>1, <3>1 DEF Blocking
  <2>2. CASE "sec" \notin Full(ip)
    <3>1. "day" \in Full(ip)
      BY <1>2, <2>2 DEF Full, Active, Tier
    <3>2. PerDay > 0 /\ IpUsed(ip, "day") >= PerDay
      BY <3>1 DEF Full, Active, Limit
    <3> QED
      BY <1>1, <2>2, <3>2 DEF Blocking
  <2> QED
    BY <2>1, <2>2
<1>3. GlobalPerDay > 0 /\ ~(GlobalUsed < GlobalPerDay) => ChargedToday(Global) >= GlobalPerDay
  <2>1. GlobalUsed \in Nat
    BY UsedNat DEF GlobalUsed, TypeOK
  <2> QED
    BY <1>1, <2>1, LimitsAssumption
<1> QED
  BY <1>2, <1>3

\* One step: a verdict to reject comes from a full window, and an answer of 429
\* or 503 from a verdict that was there before.
LEMMA RejectionStep ==
  ASSUME TypeOK, Gates, Ledger, Dated, Books, [Next]_vars, NEW r \in Requests
  PROVE  /\ rl'[r] = "sec" /\ rl[r] # "sec" => ChargedNow(input[r].ip) >= PerSec
         /\ rl'[r] = "day" /\ rl[r] # "day" => ChargedToday(input[r].ip) >= PerDay
         /\ gl'[r] = "day" /\ gl[r] # "day" => ChargedToday(Global) >= GlobalPerDay
         /\ status'[r] = "429" => rl[r] \in Tier
         /\ status'[r] = "503" => gl[r] = "day"
<1> DEFINE Verdicts ==
             /\ rl'[r] = "sec" /\ rl[r] # "sec" => ChargedNow(input[r].ip) >= PerSec
             /\ rl'[r] = "day" /\ rl[r] # "day" => ChargedToday(input[r].ip) >= PerDay
             /\ gl'[r] = "day" /\ gl[r] # "day" => ChargedToday(Global) >= GlobalPerDay
           Answers ==
             /\ status'[r] = "429" => rl[r] \in Tier
             /\ status'[r] = "503" => gl[r] = "day"
<1>1. (status[r] = "429" => rl[r] \in Tier) /\ (status[r] = "503" => gl[r] = "day")
  BY DEF Gates, Gate
<1>2. ASSUME NEW q \in Requests, Worker(q) PROVE Verdicts /\ Answers
  <2>1. rl'[r] \in {rl[r], "fault"} /\ gl'[r] \in {gl[r], "fault"}
    BY <1>2 DEF TypeOK, Worker, Arrive, IpAnswered, IpFault, GlobalAnswered, GlobalFault, Serve
  <2>2. Answers
    BY <1>1, <1>2 DEF TypeOK, Worker, Arrive, IpAnswered, IpFault, AskGlobal, GlobalAnswered,
       GlobalFault, Serve, Answer
  <2> QED
    BY <2>1, <2>2
<1>3. ASSUME NEW q \in Requests, IpCheck(q) PROVE Verdicts /\ Answers
  <2>1. gl' = gl /\ status' = status
    BY <1>3 DEF IpCheck, workerVars
  <2>2. input[r].ip \in IPs
    BY DEF TypeOK, Input
  <2>3. CASE q # r
    BY <1>1, <1>3, <2>1, <2>3 DEF IpCheck, TypeOK
  <2>4. CASE q = r
    <3>1. rl'[r] \in {rl[r], "ok"} \/ (rl'[r] = Blocking(input[r].ip) /\ Full(input[r].ip) # {})
      BY <1>3, <2>4 DEF IpCheck, TypeOK
    <3> QED
      BY <1>1, <2>1, <2>2, <3>1, BlockedIsFull
  <2> QED
    BY <2>3, <2>4
<1>4. ASSUME NEW q \in Requests, GlobalCheck(q) PROVE Verdicts /\ Answers
  <2>1. rl' = rl /\ status' = status
    BY <1>4 DEF GlobalCheck, workerVars
  <2>2. CASE GlobalPerDay <= 0 \/ GlobalUsed < GlobalPerDay
    BY <1>1, <1>4, <2>1, <2>2 DEF GlobalCheck, TypeOK
  <2>3. CASE ~(GlobalPerDay <= 0 \/ GlobalUsed < GlobalPerDay)
    <3>1. GlobalPerDay > 0
      BY <2>3, LimitsAssumption
    <3> QED
      BY <1>1, <2>1, <2>3, <3>1, BlockedIsFull
  <2> QED
    BY <2>2, <2>3
<1>5. ((\E ip \in IPs : EvictIp(ip)) \/ EvictGlobal \/ Tick \/ UNCHANGED vars)
      => UNCHANGED <<rl, gl, status>>
  BY DEF EvictIp, EvictGlobal, Tick, vars, workerVars
<1> QED
  BY <1>1, <1>2, <1>3, <1>4, <1>5 DEF Next

\* Nobody is turned away by a stale window: a verdict to reject is given only
\* while the window it is about is full, and every 429 and 503 rests on one.
THEOREM RejectionsHaveCause == Spec => RejectionsJustified
<1> DEFINE I == TypeOK /\ Gates /\ Ledger /\ Dated /\ Books
<1>1. Init => I
  BY InitType, InitGates, InitLedger, InitDated, InitBooks
<1>2. I /\ [Next]_vars => I'
  BY NextType, NextGates, NextLedger, NextDated, NextBooks
<1>3. I /\ [Next]_vars
      => [\A r \in Requests :
            /\ rl'[r] = "sec" /\ rl[r] # "sec" => ChargedNow(input[r].ip) >= PerSec
            /\ rl'[r] = "day" /\ rl[r] # "day" => ChargedToday(input[r].ip) >= PerDay
            /\ gl'[r] = "day" /\ gl[r] # "day" => ChargedToday(Global) >= GlobalPerDay
            /\ status'[r] = "429" => rl[r] \in Tier
            /\ status'[r] = "503" => gl[r] = "day"]_vars
  BY RejectionStep
<1> QED
  BY <1>1, <1>2, <1>3, PTL DEF Spec, RejectionsJustified
=============================================================================
