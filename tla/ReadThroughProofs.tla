-------------------------- MODULE ReadThroughProofs --------------------------
(***************************************************************************)
(* Proofs about Cache.Once and the queries behind it: type correctness and  *)
(* the single leader of a flight, who can be given a value that cannot be    *)
(* decoded, and how old an answer can be.                                  *)
(***************************************************************************)
EXTENDS ReadThrough, TLAPS

CallRec == [pc : InFlight \cup {"idle", "wait", "decode", "delete"},
            age : 0..Deadline, val : Values \cup {<<>>, BadVal},
            cached : BOOLEAN, shared : BOOLEAN]

(* What a call holds at each of its steps: nothing before the first read,    *)
(* fewer reads than the query makes while it reads, and then a value.       *)
CallAt(x) ==
    /\ x.pc \in {"idle", "get", "wait", "delete"} => x.val = <<>>
    /\ x.pc = "do" => x.val \in Seq(Versions) /\ Len(x.val) < client.reads
    /\ x.pc = "set" => x.val \in Values
    /\ x.pc = "decode" => x.val \in Values \cup {BadVal}

CallsShaped == \A c \in CacheCalls : CallAt(cc[c])

CacheTypeInv == CacheTypeOK /\ CallsShaped

(* A call that waits shares a flight; one that is given a value that cannot  *)
(* be decoded shares a flight or knows that the value came from Redis.      *)
UnreadAt(x) ==
    /\ x.pc = "wait" => x.shared
    /\ x.pc = "decode" /\ x.val = BadVal => x.cached \/ x.shared

UnreadInv == CacheTypeInv /\ \A c \in CacheCalls : UnreadAt(cc[c])

(* The newest version, and those to come, were not replaced. *)
NewestNotGone == \A v \in Versions : v >= row => gone[v] = 0

(* What Redis holds was replaced at most a deadline before it was put there. *)
CachedAge ==
    cacheVal \in Values =>
        \A i \in DOMAIN cacheVal : gone[cacheVal[i]] + left <= client.ttl + Deadline

(* What a call read was replaced after the call began, what it was given at   *)
(* most a time to live and a deadline before.                               *)
CallAge(x) ==
    /\ x.pc \in {"do", "set"} => \A i \in DOMAIN x.val : gone[x.val[i]] <= x.age
    /\ x.pc = "decode" /\ x.val # BadVal =>
          \A i \in DOMAIN x.val : gone[x.val[i]] <= client.ttl + Deadline + x.age

AgeInv ==
    /\ CacheTypeInv
    /\ NewestNotGone
    /\ CachedAge
    /\ \A c \in CacheCalls : CallAge(cc[c])

-----------------------------------------------------------------------------
(* The queries and their values *)

(* Every query reads one to three times and lives for a time of its own.     *)
LEMMA ClientFacts ==
    ASSUME client \in Clients
    PROVE  /\ client.ttl \in Nat \ {0} /\ client.ttl <= LongestTTL
           /\ client.reads \in 1..3 /\ LongestTTL \in Nat /\ MaxGone \in Nat
           /\ client.ttl + 2 * Deadline < MaxGone
<1>1. client \in AllClients
      BY ClientsAssumption
<1>2. client.ttl \in {TenDays, FiveSeconds} /\ client.reads \in 1..3
      BY <1>1 DEF AllClients, QueryRaffleActivity, QueryActivityAccount, QueryNoUsedRaffleOrder,
         QueryActivitySku, QueryRaffleActivityByActivityId,
         QueryRaffleActivityCountByActivityCountId, QueryStrategyIdByActivityId,
         QueryStrategyEntityByStrategyId, QueryStrategyValue, QueryStrategyRuleValue,
         QueryRuleTree, QueryAwardRuleWeight, QueryActivityByStrategy, QueryAccountOfActivity
<1>3. QED BY <1>2, CacheTimesAssumption DEF LongestTTL, MaxGone

(* A value is a sequence of one to three versions. *)
LEMMA ValueIsSeq ==
    ASSUME NEW v \in Values
    PROVE  v \in Seq(Versions) /\ Len(v) \in 1..3 /\ v # <<>> /\ v # NoVal /\ v # BadVal
<1>1. PICK n \in 1..3 : v \in [1..n -> Versions]
      BY DEF Values
<1>2. v \in Seq(Versions) /\ Len(v) = n
      BY <1>1
<1>3. QED BY <1>2, NoValueAssumption

(* Such a sequence is a value. *)
LEMMA SeqIsValue ==
    ASSUME NEW s \in Seq(Versions), Len(s) \in 1..3
    PROVE  s \in Values
<1>1. s \in [1..Len(s) -> Versions]
      OBVIOUS
<1>2. QED BY <1>1 DEF Values

(* One read more, while reads are missing. *)
LEMMA OneReadMore ==
    ASSUME client \in Clients, row \in Versions, NEW s \in Seq(Versions), Len(s) < client.reads
    PROVE  /\ Append(s, row) \in Seq(Versions) /\ Append(s, row) \in Values
           /\ ~Complete(Append(s, row)) => Len(Append(s, row)) < client.reads
<1>1. Append(s, row) \in Seq(Versions) /\ Len(Append(s, row)) = Len(s) + 1
      OBVIOUS
<1>2. client.reads \in 1..3 /\ Len(s) \in Nat
      BY ClientFacts
<1>3. Len(Append(s, row)) \in 1..3
      BY <1>1, <1>2
<1>4. \A t \in Seq(Versions) : Len(t) \in 1..3 => t \in Values
      BY SeqIsValue
<1>5. Append(s, row) \in Values
      BY <1>1, <1>3, <1>4
<1>6. QED BY <1>1, <1>2, <1>5 DEF Complete

-----------------------------------------------------------------------------
(* Type correctness *)

(* A flight has one leader. *)
OneLeader ==
    \A c, d \in CacheCalls :
       home[c] = home[d] /\ cc[c].pc \in InFlight /\ cc[d].pc \in InFlight => c = d

(* Whoever waits waits for a flight of its process. *)
WaitersLed ==
    \A c \in CacheCalls : cc[c].pc = "wait" =>
       \E d \in CacheCalls : home[c] = home[d] /\ cc[d].pc \in InFlight

CallsOK == cc \in [CacheCalls -> CallRec] /\ OneLeader /\ WaitersLed /\ CallsShaped

(* The row and the value in Redis. *)
StoreOK ==
    /\ home \in Homes /\ client \in Clients /\ row \in Versions
    /\ gone \in [Versions -> 0..MaxGone]
    /\ cacheVal \in Values \cup {NoVal, BadVal}
    /\ left \in 0..LongestTTL
    /\ cacheVal = NoVal <=> left = 0

(* The invariant, in two halves. *)
LEMMA TypeHalves == CacheTypeInv <=> StoreOK /\ CallsOK
BY DEF CacheTypeInv, CacheTypeOK, StoreOK, CallsOK, OneLeader, WaitersLed, CallRec

(* The same after a step. *)
LEMMA TypeHalvesNext == StoreOK' /\ CallsOK' => CacheTypeInv'
BY DEF CacheTypeInv, CacheTypeOK, StoreOK, CallsOK, OneLeader, WaitersLed, CallRec

(* A call that starts, or tries again, leads a flight or joins one. *)
LEMMA JoinCalls ==
    ASSUME CallsOK, UNCHANGED <<home, client>>, NEW c \in CacheCalls,
           cc[c].pc \in {"idle", "delete"}, NEW a \in 0..Deadline,
           cc' = [cc EXCEPT ![c] = Joined(c, a)]
    PROVE  CallsOK'
<1>1. Joined(c, a) \in CallRec
      BY DEF Joined, CallRec, InFlight, Flying
<1>2. cc' \in [CacheCalls -> CallRec] /\ cc'[c] = Joined(c, a)
      BY <1>1 DEF CallsOK
<1>3. \A d \in CacheCalls : d # c => cc'[d] = cc[d]
      BY DEF CallsOK
<1>4. cc'[c].pc = (IF Flying(c) THEN "wait" ELSE "get") /\ cc'[c].val = <<>>
      BY <1>2 DEF Joined
<1>5. CallsShaped'
      BY <1>3, <1>4 DEF CallsOK, CallsShaped, CallAt
<1>6. OneLeader'
      BY <1>3, <1>4 DEF CallsOK, OneLeader, Flying, InFlight
<1>7. WaitersLed'
      BY <1>3, <1>4 DEF CallsOK, WaitersLed, Flying, InFlight
<1>8. QED BY <1>2, <1>5, <1>6, <1>7 DEF CallsOK

(* A leader that goes on leads on. *)
LEMMA LeaderCalls ==
    ASSUME CallsOK, UNCHANGED <<home, client>>, NEW c \in CacheCalls, cc[c].pc \in InFlight,
           NEW x \in CallRec, x.pc \in InFlight, CallAt(x), cc' = [cc EXCEPT ![c] = x]
    PROVE  CallsOK'
<1>1. cc' \in [CacheCalls -> CallRec] /\ cc'[c] = x /\ CallAt(x)'
      BY DEF CallsOK, CallAt
<1>2. \A d \in CacheCalls : d # c => cc'[d] = cc[d]
      BY DEF CallsOK
<1>3. CallsShaped'
      BY <1>1, <1>2 DEF CallsOK, CallsShaped, CallAt
<1>4. OneLeader'
      BY <1>1, <1>2 DEF CallsOK, OneLeader
<1>5. WaitersLed'
      BY <1>1, <1>2 DEF CallsOK, WaitersLed, InFlight
<1>6. QED BY <1>1, <1>3, <1>4, <1>5 DEF CallsOK

(* When a flight ends, with a value or an error, nobody waits for it any more. *)
LEMMA EndedCalls ==
    ASSUME CallsOK, UNCHANGED <<home, client>>, NEW c \in CacheCalls, cc[c].pc \in InFlight,
           cc' \in [CacheCalls -> CallRec],
           \A d \in CacheCalls : d \notin Flight(c) => cc'[d] = cc[d],
           \A d \in Flight(c) : cc'[d].pc \in {"idle", "decode"} /\ CallAt(cc'[d])
    PROVE  CallsOK'
<1>1. Flight(c) \subseteq CacheCalls /\ c \in Flight(c)
      BY DEF Flight
<1>2. CallsShaped'
      BY <1>1 DEF CallsOK, CallsShaped, CallAt
<1>3. OneLeader'
      BY <1>1 DEF CallsOK, OneLeader, InFlight
<1>4. WaitersLed'
  <2> SUFFICES ASSUME NEW d \in CacheCalls, cc'[d].pc = "wait"
               PROVE  \E e \in CacheCalls : home'[d] = home'[e] /\ cc'[e].pc \in InFlight
      BY DEF WaitersLed
  <2>1. d \notin Flight(c) /\ cc[d].pc = "wait"
        OBVIOUS
  <2>2. home[d] # home[c]
        BY <2>1 DEF Flight
  <2>3. PICK e \in CacheCalls : home[d] = home[e] /\ cc[e].pc \in InFlight
        BY <2>1 DEF CallsOK, WaitersLed
  <2>4. e \notin Flight(c)
        BY <2>2, <2>3 DEF Flight, InFlight
  <2>5. QED BY <2>3, <2>4
<1>5. QED BY <1>2, <1>3, <1>4 DEF CallsOK

(* The end of a flight with a value, call by call. *)
LEMMA FlightEndsFields ==
    ASSUME CallsOK, NEW c \in CacheCalls, NEW v \in Values \cup {BadVal},
           NEW hit \in BOOLEAN, FlightEnds(c, v, hit)
    PROVE  /\ cc' \in [CacheCalls -> CallRec]
           /\ \A d \in CacheCalls : d \notin Flight(c) => cc'[d] = cc[d]
           /\ \A d \in Flight(c) :
                 /\ cc'[d].pc = "decode" /\ cc'[d].val = v
                 /\ cc'[d].age = cc[d].age /\ cc'[d].shared = cc[d].shared
                 /\ hit /\ d = c => cc'[d].cached
<1>1. Flight(c) \subseteq CacheCalls
      BY DEF Flight
<1>2. \A d \in CacheCalls : cc[d] \in CallRec
      BY DEF CallsOK
<1>4. \A d \in CacheCalls : d \notin Flight(c) => cc'[d] = cc[d]
      BY DEF FlightEnds
<1>5. ASSUME NEW d \in Flight(c)
      PROVE  /\ cc'[d].pc = "decode" /\ cc'[d].val = v
             /\ cc'[d].age = cc[d].age /\ cc'[d].shared = cc[d].shared
             /\ hit /\ d = c => cc'[d].cached
             /\ cc'[d] \in CallRec
  <2>1. PICK b \in BOOLEAN : b <=> hit /\ d = c
        BY Zenon
  <2>2. cc'[d] = [cc[d] EXCEPT !.pc = "decode", !.val = v, !.cached = hit /\ d = c]
        BY <1>1 DEF FlightEnds, CachedFlag
  <2>3. (hit /\ d = c) = b
        BY <2>1
  <2>4. cc'[d] = [cc[d] EXCEPT !.pc = "decode", !.val = v, !.cached = b]
        BY <2>2, <2>3
  <2>5. cc[d] \in CallRec
        BY <1>1, <1>2
  <2>6. /\ cc'[d].pc = "decode" /\ cc'[d].val = v /\ cc'[d].cached = b
        /\ cc'[d].age = cc[d].age /\ cc'[d].shared = cc[d].shared
        /\ cc'[d] \in CallRec
        BY <2>4, <2>5 DEF CallRec
  <2>7. QED BY <2>1, <2>6
<1>6. cc' = [d \in CacheCalls |-> cc'[d]]
      BY DEF FlightEnds
<1>7. cc' \in [CacheCalls -> CallRec]
      BY <1>2, <1>4, <1>5, <1>6
<1>8. QED BY <1>4, <1>5, <1>7

(* The end of a flight with an error, call by call. *)
LEMMA FlightFailsFields ==
    ASSUME CallsOK, NEW c \in CacheCalls, FlightFails(c)
    PROVE  /\ cc' \in [CacheCalls -> CallRec]
           /\ \A d \in CacheCalls : d \notin Flight(c) => cc'[d] = cc[d]
           /\ \A d \in Flight(c) : cc'[d].pc = "idle" /\ cc'[d].val = <<>>
<1>1. Flight(c) \subseteq CacheCalls
      BY DEF Flight
<1>2. IdleCacheCall \in CallRec /\ IdleCacheCall.pc = "idle" /\ IdleCacheCall.val = <<>>
      BY CacheTimesAssumption DEF IdleCacheCall, CallRec
<1>3. QED BY <1>1, <1>2 DEF FlightFails, CallsOK

(* What a step of call c does to it and to the calls that wait for it. *)
JoinsAt(c, d) ==
    /\ d = c /\ cc[c].pc \in {"idle", "delete"}
    /\ cc'[d].pc \in {"get", "wait"} /\ cc'[d].val = <<>>
    /\ cc'[d].pc = "wait" => cc'[d].shared
MissesAt(c, d) ==
    /\ d = c /\ cc[c].pc = "get"
    /\ cc'[d].pc = "do" /\ cc'[d].val = <<>> /\ cc'[d].age = cc[d].age
ReadsAt(c, d) ==
    /\ d = c /\ cc[c].pc = "do"
    /\ cc'[d].pc \in {"do", "set"} /\ cc'[d].val = Append(cc[c].val, row)
    /\ cc'[d].age = cc[d].age
FindsAt(c, d) ==
    /\ cc[c].pc = "get" /\ cacheVal # NoVal
    /\ cc'[d].pc = "decode" /\ cc'[d].val = cacheVal
    /\ IF d = c THEN cc'[d].cached ELSE cc[d].pc = "wait" /\ cc'[d].shared = cc[d].shared
FilledAt(c, d) ==
    /\ cc[c].pc = "set"
    /\ cc'[d].pc = "decode" /\ cc'[d].val = cc[c].val
StopsAt(c, d) ==
    /\ cc'[d].pc \in {"idle", "delete"} /\ cc'[d].val = <<>>
    /\ cc[d].pc = "decode" => ~(cc[d].val = BadVal /\ cc[d].cached) \/ cc'[d].pc = "delete"

CallEffect(c, d) ==
    \/ cc'[d] = cc[d]
    \/ JoinsAt(c, d) \/ MissesAt(c, d) \/ ReadsAt(c, d)
    \/ FindsAt(c, d) \/ FilledAt(c, d) \/ StopsAt(c, d)

(* What it does to the value in Redis. *)
StoreEffect(c) ==
    \/ UNCHANGED <<cacheVal, left>>
    \/ cacheVal' = NoVal /\ left' = 0
    \/ cc[c].pc = "set" /\ cacheVal' = cc[c].val /\ left' = client.ttl

StepEffect(c) ==
    /\ CallsOK' /\ StoreEffect(c) /\ UNCHANGED <<home, client, row, gone>>
    /\ \A d \in CacheCalls : CallEffect(c, d)

(* Once, for a call that starts. *)
LEMMA OnceEffect ==
    ASSUME CacheTypeInv, NEW c \in CacheCalls, Once(c)
    PROVE  StepEffect(c)
<1>1. CallsOK /\ cc \in [CacheCalls -> CallRec] /\ 0 \in 0..Deadline
      BY TypeHalves, CacheTimesAssumption DEF CallsOK
<1>2. CallsOK'
      BY <1>1, JoinCalls DEF Once
<1>3. cc'[c] = Joined(c, 0) /\ \A d \in CacheCalls : d # c => cc'[d] = cc[d]
      BY <1>1 DEF Once
<1>4. JoinsAt(c, c)
      BY <1>3 DEF JoinsAt, Joined, Once
<1>5. QED BY <1>2, <1>3, <1>4 DEF StepEffect, StoreEffect, CallEffect, Once

(* getBytes. *)
LEMMA GetBytesEffect ==
    ASSUME CacheTypeInv, NEW c \in CacheCalls, GetBytes(c)
    PROVE  StepEffect(c)
<1>1. /\ CallsOK /\ StoreOK /\ cc \in [CacheCalls -> CallRec] /\ CallsShaped
      /\ cc[c].pc = "get" /\ cc[c].pc \in InFlight /\ cc[c].val = <<>> /\ c \in Flight(c)
      BY TypeHalves DEF CallsOK, CallsShaped, CallAt, GetBytes, InFlight, Flight
<1>2. UNCHANGED <<home, client, row, gone>>
      BY DEF GetBytes
<1>3. CASE cacheVal # NoVal /\ FlightEnds(c, cacheVal, TRUE) /\ SetValue(cacheVal, LeftAfterHit)
  <2>1. cacheVal \in Values \cup {BadVal}
        BY <1>1, <1>3 DEF StoreOK
  <2>2. /\ cc' \in [CacheCalls -> CallRec]
        /\ \A d \in CacheCalls : d \notin Flight(c) => cc'[d] = cc[d]
        /\ \A d \in Flight(c) :
              /\ cc'[d].pc = "decode" /\ cc'[d].val = cacheVal
              /\ cc'[d].shared = cc[d].shared
              /\ d = c => cc'[d].cached
    <3>1. PICK hit \in BOOLEAN : hit = TRUE
          BY Zenon
    <3>2. FlightEnds(c, cacheVal, hit)
          BY <1>3, <3>1, Zenon
    <3>3. /\ cc' \in [CacheCalls -> CallRec]
          /\ \A d \in CacheCalls : d \notin Flight(c) => cc'[d] = cc[d]
          /\ \A d \in Flight(c) :
                /\ cc'[d].pc = "decode" /\ cc'[d].val = cacheVal
                /\ cc'[d].shared = cc[d].shared
                /\ hit /\ d = c => cc'[d].cached
          BY <1>1, <2>1, <3>2, FlightEndsFields
    <3>4. QED BY <3>1, <3>3, Zenon
  <2>3. \A d \in Flight(c) : CallAt(cc'[d])
        BY <2>1, <2>2 DEF CallAt
  <2>4. CallsOK'
        BY <1>1, <1>2, <2>2, <2>3, EndedCalls
  <2>5. \A d \in CacheCalls : cc'[d] = cc[d] \/ FindsAt(c, d)
        BY <1>1, <1>3, <2>2 DEF FindsAt, Flight
  <2>6. UNCHANGED <<cacheVal, left>>
        BY <1>3 DEF SetValue, LeftAfterHit
  <2>7. QED BY <1>2, <2>4, <2>5, <2>6 DEF StepEffect, StoreEffect, CallEffect
<1>4. CASE cc' = [cc EXCEPT ![c].pc = "do"] /\ KeepValue
  <2>1. client.reads \in 1..3
        BY <1>1, ClientFacts DEF StoreOK
  <2> DEFINE x == [cc[c] EXCEPT !.pc = "do"]
  <2>2. /\ cc' = [cc EXCEPT ![c] = x] /\ x \in CallRec /\ x.pc = "do" /\ x.val = <<>>
        /\ x.age = cc[c].age
        BY <1>1, <1>4 DEF CallRec, InFlight
  <2> HIDE DEF x
  <2>3. CallAt(x) /\ x.pc \in InFlight
        BY <2>1, <2>2 DEF CallAt, InFlight
  <2>4. CallsOK'
        BY <1>1, <1>2, <2>2, <2>3, LeaderCalls
  <2>5. MissesAt(c, c) /\ \A d \in CacheCalls : d # c => cc'[d] = cc[d]
        BY <1>1, <2>2 DEF MissesAt
  <2>6. QED BY <1>2, <1>4, <2>4, <2>5 DEF StepEffect, StoreEffect, CallEffect, KeepValue
<1>5. CASE FlightFails(c) /\ KeepValue
  <2>1. /\ cc' \in [CacheCalls -> CallRec]
        /\ \A d \in CacheCalls : d \notin Flight(c) => cc'[d] = cc[d]
        /\ \A d \in Flight(c) : cc'[d].pc = "idle" /\ cc'[d].val = <<>>
        BY <1>1, <1>5, FlightFailsFields
  <2>2. \A d \in Flight(c) : CallAt(cc'[d])
        BY <2>1 DEF CallAt
  <2>3. CallsOK'
        BY <1>1, <1>2, <2>1, <2>2, EndedCalls
  <2>4. \A d \in CacheCalls : cc'[d] = cc[d] \/ StopsAt(c, d)
        BY <1>1, <2>1 DEF StopsAt, Flight
  <2>5. QED BY <1>2, <1>5, <2>3, <2>4 DEF StepEffect, StoreEffect, CallEffect, KeepValue
<1>6. QED BY <1>3, <1>4, <1>5 DEF GetBytes

(* item.Do, one read at a time. *)
LEMMA DoEffect ==
    ASSUME CacheTypeInv, NEW c \in CacheCalls, Do(c)
    PROVE  StepEffect(c)
<1>1. /\ CallsOK /\ StoreOK /\ cc \in [CacheCalls -> CallRec]
      /\ cc[c].pc = "do" /\ cc[c].pc \in InFlight /\ cc[c] \in CallRec /\ c \in Flight(c)
      /\ cc[c].val \in Seq(Versions) /\ Len(cc[c].val) < client.reads
      BY TypeHalves DEF CallsOK, CallsShaped, CallAt, Do, InFlight, Flight
<1>2. UNCHANGED <<home, client, row, gone, cacheVal, left>>
      BY DEF Do
<1>3. PICK v : v = Append(cc[c].val, row)
      OBVIOUS
<1>4. v \in Seq(Versions) /\ v \in Values /\ (~Complete(v) => Len(v) < client.reads)
      BY <1>1, <1>3, OneReadMore DEF StoreOK
<1>5. CASE cc' = [cc EXCEPT ![c].val = v, ![c].pc = IF Complete(v) THEN "set" ELSE "do"]
  <2>1. PICK p \in {"do", "set"} : p = IF Complete(v) THEN "set" ELSE "do"
        OBVIOUS
  <2>2. cc' = [cc EXCEPT ![c].val = v, ![c].pc = p]
        BY <1>5, <2>1
  <2>3. cc' = [cc EXCEPT ![c] = cc'[c]] /\ cc'[c] = [cc[c] EXCEPT !.val = v, !.pc = p]
        BY <1>1, <2>2
  <2>4. cc'[c].pc = p /\ cc'[c].val = v /\ cc'[c].age = cc[c].age /\ cc'[c] \in CallRec
        BY <1>1, <1>4, <2>3 DEF CallRec, InFlight
  <2>5. CallAt(cc'[c]) /\ cc'[c].pc \in InFlight
        BY <1>4, <2>1, <2>4 DEF CallAt, InFlight
  <2>6. CallsOK'
        BY <1>1, <1>2, <2>3, <2>4, <2>5, LeaderCalls
  <2>7. ReadsAt(c, c) /\ \A d \in CacheCalls : d # c => cc'[d] = cc[d]
        BY <1>1, <1>3, <2>1, <2>3, <2>4 DEF ReadsAt
  <2>8. QED BY <1>2, <2>6, <2>7 DEF StepEffect, StoreEffect, CallEffect
<1>6. CASE FlightFails(c)
  <2>1. /\ cc' \in [CacheCalls -> CallRec]
        /\ \A d \in CacheCalls : d \notin Flight(c) => cc'[d] = cc[d]
        /\ \A d \in Flight(c) : cc'[d].pc = "idle" /\ cc'[d].val = <<>>
        BY <1>1, <1>6, FlightFailsFields
  <2>2. \A d \in Flight(c) : CallAt(cc'[d])
        BY <2>1 DEF CallAt
  <2>3. CallsOK'
        BY <1>1, <1>2, <2>1, <2>2, EndedCalls
  <2>4. \A d \in CacheCalls : cc'[d] = cc[d] \/ StopsAt(c, d)
        BY <1>1, <2>1 DEF StopsAt, Flight
  <2>5. QED BY <1>2, <2>3, <2>4 DEF StepEffect, StoreEffect, CallEffect
<1>7. QED BY <1>3, <1>5, <1>6 DEF Do

(* The leader's set, after which everybody has the value. *)
LEMMA SetEffect ==
    ASSUME CacheTypeInv, NEW c \in CacheCalls, Set(c)
    PROVE  StepEffect(c)
<1>1. /\ CallsOK /\ cc \in [CacheCalls -> CallRec] /\ c \in Flight(c)
      /\ cc[c].pc = "set" /\ cc[c].pc \in InFlight /\ cc[c].val \in Values
      BY TypeHalves DEF CallsOK, CallsShaped, CallAt, Set, InFlight, Flight
<1>2. /\ UNCHANGED <<home, client, row, gone>> /\ StoreEffect(c)
      BY <1>1 DEF Set, StoreEffect, SetValue, KeepValue
<1>3. PICK hit \in BOOLEAN : hit = FALSE
      BY Zenon
<1>4. FlightEnds(c, cc[c].val, hit)
      BY <1>3, Zenon DEF Set
<1>5. /\ cc' \in [CacheCalls -> CallRec]
      /\ \A d \in CacheCalls : d \notin Flight(c) => cc'[d] = cc[d]
      /\ \A d \in Flight(c) : cc'[d].pc = "decode" /\ cc'[d].val = cc[c].val
      BY <1>1, <1>4, FlightEndsFields
<1>6. \A d \in Flight(c) : CallAt(cc'[d])
      BY <1>1, <1>5 DEF CallAt
<1>7. CallsOK'
      BY <1>1, <1>2, <1>5, <1>6, EndedCalls
<1>8. \A d \in CacheCalls : cc'[d] = cc[d] \/ FilledAt(c, d)
      BY <1>1, <1>5 DEF FilledAt
<1>9. QED BY <1>2, <1>7, <1>8 DEF StepEffect, CallEffect

(* A call outside every flight that stops, or stays outside. *)
LEMMA OutsideCalls ==
    ASSUME CallsOK, UNCHANGED <<home, client>>, NEW c \in CacheCalls, cc[c].pc = "decode",
           NEW x \in CallRec, x.pc \in {"idle", "delete"}, x.val = <<>>, cc' = [cc EXCEPT ![c] = x]
    PROVE  CallsOK'
<1>1. cc' \in [CacheCalls -> CallRec] /\ cc'[c] = x
      BY DEF CallsOK
<1>2. \A d \in CacheCalls : d # c => cc'[d] = cc[d]
      BY DEF CallsOK
<1>3. CallsShaped'
      BY <1>1, <1>2 DEF CallsOK, CallsShaped, CallAt
<1>4. OneLeader'
      BY <1>1, <1>2 DEF CallsOK, OneLeader, InFlight
<1>5. WaitersLed'
      BY <1>1, <1>2 DEF CallsOK, WaitersLed, InFlight
<1>6. QED BY <1>1, <1>3, <1>4, <1>5 DEF CallsOK

(* Unmarshal: only an unreadable value that came from Redis is tried again. *)
LEMMA UnmarshalEffect ==
    ASSUME CacheTypeInv, NEW c \in CacheCalls, Unmarshal(c)
    PROVE  StepEffect(c)
<1>1. /\ CallsOK /\ cc \in [CacheCalls -> CallRec] /\ cc[c] \in CallRec /\ cc[c].pc = "decode"
      BY TypeHalves DEF CallsOK, Unmarshal
<1>2. UNCHANGED <<home, client, row, gone, cacheVal, left>>
      BY DEF Unmarshal
<1>3. CASE cc[c].val = BadVal /\ cc[c].cached
  <2> DEFINE x == [cc[c] EXCEPT !.pc = "delete", !.val = <<>>]
  <2>1. cc' = [cc EXCEPT ![c] = x]
        BY <1>3 DEF Unmarshal
  <2>2. x \in CallRec /\ x.pc = "delete" /\ x.val = <<>>
        BY <1>1 DEF CallRec
  <2> HIDE DEF x
  <2>3. CallsOK'
        BY <1>1, <1>2, <2>1, <2>2, OutsideCalls
  <2>4. StopsAt(c, c) /\ \A d \in CacheCalls : d # c => cc'[d] = cc[d]
        BY <1>1, <2>1, <2>2 DEF StopsAt
  <2>5. QED BY <1>2, <2>3, <2>4 DEF StepEffect, StoreEffect, CallEffect
<1>4. CASE ~(cc[c].val = BadVal /\ cc[c].cached)
  <2>1. cc' = [cc EXCEPT ![c] = IdleCacheCall]
        BY <1>4 DEF Unmarshal
  <2>2. IdleCacheCall \in CallRec /\ IdleCacheCall.pc = "idle" /\ IdleCacheCall.val = <<>>
        BY CacheTimesAssumption DEF CallRec, IdleCacheCall
  <2>3. CallsOK'
        BY <1>1, <1>2, <2>1, <2>2, OutsideCalls
  <2>4. StopsAt(c, c) /\ \A d \in CacheCalls : d # c => cc'[d] = cc[d]
        BY <1>1, <1>4, <2>1, <2>2 DEF StopsAt
  <2>5. QED BY <1>2, <2>3, <2>4 DEF StepEffect, StoreEffect, CallEffect
<1>5. QED BY <1>3, <1>4

(* Delete, and Once again. *)
LEMMA RetryEffect ==
    ASSUME CacheTypeInv, NEW c \in CacheCalls, DeleteAndRetry(c)
    PROVE  StepEffect(c)
<1>1. /\ CallsOK /\ cc \in [CacheCalls -> CallRec] /\ cc[c].pc = "delete"
      /\ cc[c].age \in 0..Deadline
      BY TypeHalves DEF CallsOK, CallRec, DeleteAndRetry
<1>2. UNCHANGED <<home, client, row, gone>> /\ StoreEffect(c)
      BY DEF DeleteAndRetry, StoreEffect, DelValue, SetValue, KeepValue
<1>3. cc' = [cc EXCEPT ![c] = Joined(c, cc[c].age)]
      BY DEF DeleteAndRetry, RetryAge
<1>4. CallsOK'
      BY <1>1, <1>2, <1>3, JoinCalls
<1>5. cc'[c] = Joined(c, cc[c].age) /\ \A d \in CacheCalls : d # c => cc'[d] = cc[d]
      BY <1>1, <1>3
<1>6. JoinsAt(c, c)
      BY <1>1, <1>5 DEF JoinsAt, Joined
<1>7. QED BY <1>2, <1>4, <1>5, <1>6 DEF StepEffect, CallEffect

(* Every step of a call. *)
LEMMA EffectOfCalls ==
    ASSUME CacheTypeInv, NEW c \in CacheCalls, Once(c) \/ CallStep(c)
    PROVE  StepEffect(c)
BY OnceEffect, GetBytesEffect, DoEffect, SetEffect, UnmarshalEffect, RetryEffect DEF CallStep

(* A tick makes every running call a tick older; an expired one only waits. *)
LEMMA TickCalls ==
    ASSUME CacheTypeInv, Tick
    PROVE  /\ CallsOK'
           /\ \A c \in CacheCalls :
                 /\ cc'[c].pc = cc[c].pc /\ cc'[c].val = cc[c].val
                 /\ cc'[c].cached = cc[c].cached /\ cc'[c].shared = cc[c].shared
                 /\ cc[c].pc \notin {"idle", "wait"} => cc'[c].age = cc[c].age + 1
<1>1. CallsOK /\ cc \in [CacheCalls -> CallRec] /\ UNCHANGED <<home, client>>
      BY TypeHalves DEF CallsOK, Tick
<1>2. ASSUME NEW c \in CacheCalls
      PROVE  /\ cc'[c] \in CallRec
             /\ cc'[c].pc = cc[c].pc /\ cc'[c].val = cc[c].val
             /\ cc'[c].cached = cc[c].cached /\ cc'[c].shared = cc[c].shared
             /\ cc[c].pc \notin {"idle", "wait"} => cc'[c].age = cc[c].age + 1
  <2>1. cc[c] \in CallRec /\ cc[c].age \in 0..Deadline
        BY <1>1 DEF CallRec
  <2>2. CASE cc[c].pc = "idle" \/ Expired(c)
    <3>1. cc'[c] = cc[c]
          BY <2>2 DEF Tick
    <3>2. cc[c].pc \in {"idle", "wait"}
          BY <2>2 DEF Tick
    <3>3. QED BY <2>1, <3>1, <3>2
  <2>3. CASE ~(cc[c].pc = "idle" \/ Expired(c))
    <3>1. cc'[c] = [cc[c] EXCEPT !.age = cc[c].age + 1]
          BY <2>3 DEF Tick
    <3>2. cc[c].age + 1 \in 0..Deadline
          BY <2>1, <2>3, CacheTimesAssumption DEF Expired
    <3>3. QED BY <2>1, <3>1, <3>2 DEF CallRec
  <2>4. QED BY <2>2, <2>3
<1>3. cc' \in [CacheCalls -> CallRec]
  <2>1. cc' = [c \in CacheCalls |-> cc'[c]]
        BY DEF Tick
  <2>2. QED BY <1>2, <2>1
<1>4. CallsShaped'
      BY <1>1, <1>2 DEF CallsOK, CallsShaped, CallAt
<1>5. OneLeader' /\ WaitersLed'
      BY <1>1, <1>2 DEF CallsOK, OneLeader, WaitersLed
<1>6. QED BY <1>2, <1>3, <1>4, <1>5 DEF CallsOK

(* A tick brings the expiry, and the age of replaced versions, nearer by one. *)
LEMMA TickStore ==
    ASSUME CacheTypeInv, Tick
    PROVE  /\ StoreOK'
           /\ cacheVal' # NoVal => cacheVal' = cacheVal /\ left' = left - 1
           /\ \A v \in Versions : gone'[v] <= gone[v] + 1 /\ (v >= row => gone'[v] = gone[v])
<1>1. StoreOK /\ LongestTTL \in Nat /\ MaxGone \in Nat
      BY TypeHalves, ClientFacts DEF StoreOK
<1>2. left' \in 0..LongestTTL /\ (left' = 0 <=> left <= 1)
      BY <1>1 DEF Tick, StoreOK
<1>3. /\ cacheVal' \in Values \cup {NoVal, BadVal}
      /\ cacheVal' = NoVal <=> left' = 0
      /\ cacheVal' # NoVal => cacheVal' = cacheVal /\ left' = left - 1
      BY <1>1, <1>2 DEF Tick, StoreOK
<1>4. Versions \subseteq Nat /\ row \in Nat
      BY <1>1, CacheTimesAssumption DEF Versions, StoreOK
<1>5. \A v \in Versions : /\ gone'[v] \in 0..MaxGone /\ gone'[v] <= gone[v] + 1
                          /\ v >= row => gone'[v] = gone[v]
      BY <1>1, <1>4 DEF Tick, StoreOK
<1>6. gone' \in [Versions -> 0..MaxGone]
      BY <1>5 DEF Tick
<1>7. home' \in Homes /\ client' \in Clients /\ row' \in Versions
      BY <1>1 DEF Tick, StoreOK
<1>8. QED BY <1>2, <1>3, <1>5, <1>6, <1>7 DEF StoreOK

(* Commits, evictions and other releases leave the calls alone. *)
LEMMA OtherSteps ==
    ASSUME CacheTypeInv, CommitRow \/ Evict \/ OtherRelease \/ UNCHANGED cacheVars
    PROVE  /\ CacheTypeInv' /\ UNCHANGED <<home, client, gone, cc>>
           /\ row' \in Nat /\ row' >= row
           /\ \/ UNCHANGED <<cacheVal, left>>
              \/ cacheVal' \in {NoVal, BadVal}
<1>1. StoreOK /\ CallsOK /\ row \in Nat /\ client.ttl \in Nat \ {0} /\ client.ttl <= LongestTTL
      BY TypeHalves, ClientFacts DEF StoreOK, Versions
<1>2. UNCHANGED <<home, client, gone, cc>>
      BY DEF CommitRow, Evict, OtherRelease, cacheVars
<1>3. row' \in Versions /\ row' >= row
      BY <1>1, CacheTimesAssumption DEF CommitRow, Evict, OtherRelease, cacheVars, StoreOK, Versions
<1>4. /\ cacheVal' \in Values \cup {NoVal, BadVal} /\ left' \in 0..LongestTTL
      /\ cacheVal' = NoVal <=> left' = 0
      /\ UNCHANGED <<cacheVal, left>> \/ cacheVal' \in {NoVal, BadVal}
      BY <1>1, ClientFacts, NoValueAssumption
      DEF CommitRow, Evict, OtherRelease, DelValue, SetValue, cacheVars, StoreOK
<1>5. CallsOK'
      BY <1>1, <1>2 DEF CallsOK, OneLeader, WaitersLed, CallsShaped, CallAt
<1>6. StoreOK'
      BY <1>1, <1>2, <1>3, <1>4 DEF StoreOK
<1>7. CacheTypeInv'
      BY <1>5, <1>6, TypeHalvesNext
<1>8. QED BY <1>2, <1>3, <1>4, <1>7 DEF Versions

(* Every step keeps the type invariant. *)
LEMMA CacheStepType == CacheTypeInv /\ [CacheNext]_cacheVars => CacheTypeInv'
<1> SUFFICES ASSUME CacheTypeInv, [CacheNext]_cacheVars PROVE CacheTypeInv'
    OBVIOUS
<1>1. ASSUME NEW c \in CacheCalls, Once(c) \/ CallStep(c) PROVE CacheTypeInv'
  <2>1. StepEffect(c) /\ StoreOK /\ CallsOK
        BY <1>1, EffectOfCalls, TypeHalves
  <2>2. cc[c].pc = "set" => cc[c].val \in Values /\ cc[c].val # NoVal
        BY <2>1, ValueIsSeq DEF CallsOK, CallsShaped, CallAt
  <2>3. client.ttl \in Nat \ {0} /\ client.ttl <= LongestTTL /\ LongestTTL \in Nat
        BY <2>1, ClientFacts DEF StoreOK
  <2>4. StoreOK'
        BY <2>1, <2>2, <2>3 DEF StepEffect, StoreEffect, StoreOK
  <2>5. QED BY <2>1, <2>4, TypeHalvesNext DEF StepEffect
<1>2. CASE Tick
      BY <1>2, TickCalls, TickStore, TypeHalvesNext
<1>3. QED BY <1>1, <1>2, OtherSteps DEF CacheNext

(* No call runs and Redis is empty at the start. *)
LEMMA CacheInitType == CacheInit => CacheTypeInv
<1> SUFFICES ASSUME CacheInit PROVE CacheTypeInv
    OBVIOUS
<1>1. IdleCacheCall \in CallRec /\ IdleCacheCall.pc = "idle" /\ IdleCacheCall.val = <<>>
      BY CacheTimesAssumption DEF IdleCacheCall, CallRec
<1>2. \A c \in CacheCalls : cc[c] = IdleCacheCall
      BY DEF CacheInit
<1>3. CallsOK
      BY <1>1, <1>2 DEF CacheInit, CallsOK, OneLeader, WaitersLed, CallsShaped, CallAt, InFlight
<1>4. client \in Clients /\ LongestTTL \in Nat /\ MaxGone \in Nat
      BY ClientFacts DEF CacheInit
<1>5. StoreOK
      BY <1>4, CacheTimesAssumption DEF CacheInit, StoreOK, Versions
<1>6. QED BY <1>3, <1>5, TypeHalves

(* The type invariant, with what calls hold at each step, always holds. *)
LEMMA CacheTypeInductive == CacheSpec => []CacheTypeInv
BY CacheStepType, CacheInitType, PTL DEF CacheSpec

(* Cache.Once: whatever fails, calls and stored values are well formed, the   *)
(* calls of a process for a key have one leader, and no call is left waiting  *)
(* for a flight that has ended.                                             *)
THEOREM CacheTypeCorrect == CacheSpec => []CacheTypeOK
<1>1. CacheTypeInv => CacheTypeOK
      BY DEF CacheTypeInv
<1>2. QED BY <1>1, CacheTypeInductive, PTL

-----------------------------------------------------------------------------
(* Values that cannot be decoded *)

(* Every step keeps who may be given an unreadable value, and only a call     *)
(* that shared a flight returns with one.                                   *)
LEMMA UnreadStep ==
    ASSUME UnreadInv, CacheTypeInv', [CacheNext]_cacheVars
    PROVE  /\ UnreadInv'
           /\ \A c \in CacheCalls : Returns(c) /\ cc[c].val = BadVal => cc[c].shared
<1>1. CacheTypeInv /\ \A c \in CacheCalls : UnreadAt(cc[c])
      BY DEF UnreadInv
<1>2. \A c \in CacheCalls : cc[c].pc = "set" => cc[c].val # BadVal
      BY <1>1, ValueIsSeq DEF CacheTypeInv, CallsShaped, CallAt
<1>3. ASSUME NEW c \in CacheCalls, Once(c) \/ CallStep(c), NEW d \in CacheCalls
      PROVE  UnreadAt(cc'[d]) /\ (Returns(d) /\ cc[d].val = BadVal => cc[d].shared)
  <2>1. CallEffect(c, d)
        BY <1>1, <1>3, EffectOfCalls DEF StepEffect
  <2>2. QED BY <1>1, <1>2, <2>1 DEF CallEffect, JoinsAt, MissesAt, ReadsAt, FindsAt, FilledAt,
                                     StopsAt, UnreadAt, Returns
<1>4. CASE Tick
      BY <1>1, <1>4, TickCalls DEF UnreadInv, UnreadAt, Returns
<1>5. CASE CommitRow \/ Evict \/ OtherRelease \/ UNCHANGED cacheVars
      BY <1>1, <1>5, OtherSteps DEF UnreadInv, UnreadAt, Returns
<1>6. QED BY <1>3, <1>4, <1>5 DEF CacheNext, UnreadInv

(* Cache.Once: a value that cannot be decoded is an error only to a call that *)
(* shared the flight of another; the call that fetched it deletes it and      *)
(* tries again, however often other releases put it back.                   *)
THEOREM UnreadableIsShared == CacheSpec => UnreadableOnlyShared
<1>1. CacheInit => UnreadInv
      BY CacheInitType DEF CacheInit, UnreadInv, UnreadAt, IdleCacheCall
<1>2. UnreadInv /\ CacheTypeInv' /\ [CacheNext]_cacheVars => UnreadInv'
      BY UnreadStep
<1>3. UnreadInv /\ CacheTypeInv' /\ [CacheNext]_cacheVars =>
         [\A c \in CacheCalls : Returns(c) /\ cc[c].val = BadVal => cc[c].shared]_cacheVars
      BY UnreadStep
<1>4. QED BY <1>1, <1>2, <1>3, CacheTypeInductive, PTL DEF CacheSpec, UnreadableOnlyShared

-----------------------------------------------------------------------------
(* The age of answers *)

(* The parts of a value are versions, whose age is a number of ticks. *)
LEMMA PartsAreVersions ==
    ASSUME StoreOK, NEW v \in Seq(Versions), NEW i \in DOMAIN v
    PROVE  v[i] \in Versions /\ gone[v[i]] \in Nat
<1>1. v[i] \in Versions
      OBVIOUS
<1>2. MaxGone \in Nat
      BY ClientFacts DEF StoreOK
<1>3. QED BY <1>1, <1>2 DEF StoreOK

(* A step of a call keeps the ages: a read takes the newest version, a fill   *)
(* is at most a deadline late, and a hit is no older than what it finds.    *)
LEMMA AgeOfCalls ==
    ASSUME AgeInv, NEW c \in CacheCalls, Once(c) \/ CallStep(c), CacheTypeInv'
    PROVE  AgeInv'
<1>1. /\ CacheTypeInv /\ StoreOK /\ CallsOK /\ NewestNotGone /\ CachedAge
      /\ \A d \in CacheCalls : CallAge(cc[d]) /\ CallAt(cc[d]) /\ cc[d].age \in 0..Deadline
      BY TypeHalves DEF AgeInv, CallsOK, CallsShaped, CallRec
<1>2. StepEffect(c) /\ UNCHANGED <<home, client, row, gone>>
      BY <1>1, EffectOfCalls DEF StepEffect
<1>3. client.ttl \in Nat /\ Deadline \in Nat /\ left \in Nat /\ row \in Versions /\ row \in Nat
      BY <1>1, ClientFacts, CacheTimesAssumption DEF StoreOK, Versions
<1>4. \A d \in CacheCalls : cc'[d].age \in 0..Deadline
      BY <1>2 DEF StepEffect, CallsOK, CallRec
<1>5. cc[c].pc = "set" =>
         /\ cc[c].val \in Values
         /\ \A i \in DOMAIN cc[c].val : gone[cc[c].val[i]] \in Nat /\ gone[cc[c].val[i]] <= Deadline
  <2> SUFFICES ASSUME cc[c].pc = "set"
               PROVE  /\ cc[c].val \in Values
                      /\ \A i \in DOMAIN cc[c].val :
                            gone[cc[c].val[i]] \in Nat /\ gone[cc[c].val[i]] <= Deadline
      OBVIOUS
  <2>1. cc[c].val \in Values /\ cc[c].val \in Seq(Versions)
        BY <1>1, ValueIsSeq DEF CallAt
  <2>2. \A i \in DOMAIN cc[c].val : gone[cc[c].val[i]] \in Nat /\ gone[cc[c].val[i]] <= cc[c].age
        BY <1>1, <2>1, PartsAreVersions DEF CallAge
  <2>3. QED BY <1>1, <1>3, <2>1, <2>2
<1>6. cacheVal \in Values => \A i \in DOMAIN cacheVal : gone[cacheVal[i]] \in Nat
      BY <1>1, ValueIsSeq, PartsAreVersions
<1>7. CachedAge'
  <2>1. NoVal \notin Values
        BY NoValueAssumption
  <2>2. CASE UNCHANGED <<cacheVal, left>>
        BY <1>1, <1>2, <2>2 DEF CachedAge
  <2>3. CASE cacheVal' = NoVal
        BY <2>1, <2>3 DEF CachedAge
  <2>4. CASE cc[c].pc = "set" /\ cacheVal' = cc[c].val /\ left' = client.ttl
        BY <1>2, <1>3, <1>5, <2>4 DEF CachedAge
  <2>5. QED BY <1>2, <2>2, <2>3, <2>4 DEF StepEffect, StoreEffect
<1>8. ASSUME NEW d \in CacheCalls PROVE CallAge(cc'[d])
  <2>1. CallEffect(c, d)
        BY <1>2 DEF StepEffect
  <2>2. CASE cc'[d] = cc[d]
        BY <1>1, <2>2
  <2>3. CASE JoinsAt(c, d) \/ MissesAt(c, d) \/ StopsAt(c, d)
        BY <2>3 DEF JoinsAt, MissesAt, StopsAt, CallAge
  <2>4. CASE ReadsAt(c, d)
    <3>1. /\ cc[c].val \in Seq(Versions) /\ cc'[d].pc \in {"do", "set"}
          /\ cc'[d].val = Append(cc[c].val, row) /\ cc'[d].age = cc[c].age
          /\ \A i \in DOMAIN cc[c].val : gone[cc[c].val[i]] <= cc[c].age
          BY <1>1, <2>4 DEF ReadsAt, CallAt, CallAge
    <3>2. gone[row] <= cc[c].age
          BY <1>1, <1>3 DEF NewestNotGone
    <3>3. \A i \in DOMAIN cc'[d].val : gone[cc'[d].val[i]] <= cc'[d].age
      <4> SUFFICES ASSUME NEW i \in DOMAIN Append(cc[c].val, row)
                   PROVE  gone[Append(cc[c].val, row)[i]] <= cc[c].age
          BY <3>1
      <4>1. CASE i \in DOMAIN cc[c].val
        <5>1. Append(cc[c].val, row)[i] = cc[c].val[i]
              BY <1>3, <3>1, <4>1
        <5>2. QED BY <3>1, <4>1, <5>1
      <4>2. CASE i \notin DOMAIN cc[c].val
        <5>1. Append(cc[c].val, row)[i] = row
              BY <1>3, <3>1, <4>2
        <5>2. QED BY <3>2, <5>1
      <4>3. QED BY <4>1, <4>2
    <3>4. QED BY <3>1, <3>3 DEF CallAge
  <2>5. CASE FindsAt(c, d)
    <3>1. cc'[d].pc = "decode" /\ cc'[d].val = cacheVal /\ cacheVal # NoVal
          BY <2>5 DEF FindsAt
    <3>2. cacheVal # BadVal => cacheVal \in Values
          BY <1>1, <3>1 DEF StoreOK
    <3>3. cacheVal # BadVal =>
             \A i \in DOMAIN cacheVal : gone[cacheVal[i]] <= client.ttl + Deadline + cc'[d].age
          BY <1>1, <1>3, <1>4, <1>6, <3>2 DEF CachedAge
    <3>4. QED BY <3>1, <3>3 DEF CallAge
  <2>6. CASE FilledAt(c, d)
    <3>1. cc[c].pc = "set" /\ cc'[d].pc = "decode" /\ cc'[d].val = cc[c].val
          BY <2>6 DEF FilledAt
    <3>2. \A i \in DOMAIN cc[c].val : gone[cc[c].val[i]] <= client.ttl + Deadline + cc'[d].age
          BY <1>3, <1>4, <1>5, <3>1
    <3>3. QED BY <3>1, <3>2 DEF CallAge
  <2>7. QED BY <2>1, <2>2, <2>3, <2>4, <2>5, <2>6 DEF CallEffect
<1>9. \A d \in CacheCalls : CallAge(cc[d])'
      BY <1>2, <1>8 DEF CallAge
<1>10. NewestNotGone'
      BY <1>1, <1>2 DEF NewestNotGone
<1>11. QED BY <1>7, <1>9, <1>10 DEF AgeInv

(* A tick: what is replaced is a tick older, and so is the value in Redis     *)
(* and every call that holds a value.                                       *)
LEMMA AgeOfTick ==
    ASSUME AgeInv, Tick, CacheTypeInv'
    PROVE  AgeInv'
<1>1. /\ CacheTypeInv /\ StoreOK /\ NewestNotGone /\ CachedAge
      /\ \A d \in CacheCalls : CallAge(cc[d]) /\ CallAt(cc[d]) /\ cc[d].age \in 0..Deadline
      BY TypeHalves DEF AgeInv, CallsOK, CallsShaped, CallRec
<1>2. /\ StoreOK'
      /\ cacheVal' # NoVal => cacheVal' = cacheVal /\ left' = left - 1
      /\ \A v \in Versions : gone'[v] <= gone[v] + 1 /\ (v >= row => gone'[v] = gone[v])
      BY <1>1, TickStore
<1>3. \A d \in CacheCalls :
         /\ cc'[d].pc = cc[d].pc /\ cc'[d].val = cc[d].val
         /\ cc[d].pc \notin {"idle", "wait"} => cc'[d].age = cc[d].age + 1
      BY <1>1, TickCalls
<1>4. row' = row /\ client' = client
      BY DEF Tick
<1>5. client.ttl \in Nat /\ Deadline \in Nat /\ left \in Nat /\ MaxGone \in Nat
      BY <1>1, ClientFacts, CacheTimesAssumption DEF StoreOK
<1>6. NewestNotGone'
      BY <1>1, <1>2, <1>4 DEF NewestNotGone
<1>7. ASSUME NEW v \in Seq(Versions), NEW i \in DOMAIN v
      PROVE  /\ gone[v[i]] \in Nat /\ gone'[v[i]] \in Nat /\ gone'[v[i]] <= gone[v[i]] + 1
  <2>1. v[i] \in Versions /\ gone[v[i]] \in Nat
        BY <1>1, PartsAreVersions
  <2>2. gone'[v[i]] \in 0..MaxGone
        BY <1>2, <2>1 DEF StoreOK
  <2>3. QED BY <1>2, <1>5, <2>1, <2>2
<1>8. CachedAge'
  <2> SUFFICES ASSUME cacheVal' \in Values, NEW i \in DOMAIN cacheVal'
               PROVE  gone'[cacheVal'[i]] + left' <= client'.ttl + Deadline
      BY DEF CachedAge
  <2>1. cacheVal' # NoVal
        BY ValueIsSeq
  <2>2. cacheVal' = cacheVal /\ left' = left - 1 /\ cacheVal \in Values /\ cacheVal \in Seq(Versions)
        BY <1>2, <2>1, ValueIsSeq
  <2>3. gone[cacheVal[i]] + left <= client.ttl + Deadline
        BY <1>1, <2>2 DEF CachedAge
  <2>4. gone[cacheVal[i]] \in Nat /\ gone'[cacheVal[i]] \in Nat
        /\ gone'[cacheVal[i]] <= gone[cacheVal[i]] + 1
        BY <1>7, <2>2
  <2>5. QED BY <1>4, <1>5, <2>2, <2>3, <2>4
<1>9. ASSUME NEW d \in CacheCalls PROVE CallAge(cc[d])'
  <2>1. CASE cc[d].pc \in {"do", "set"}
    <3>1. cc[d].val \in Seq(Versions)
          BY <1>1, <2>1, ValueIsSeq DEF CallAt
    <3>2. \A i \in DOMAIN cc[d].val : gone'[cc[d].val[i]] <= cc[d].age + 1
          BY <1>1, <1>7, <2>1, <3>1 DEF CallAge
    <3>3. QED BY <1>3, <2>1, <3>2 DEF CallAge
  <2>2. CASE cc[d].pc = "decode" /\ cc[d].val # BadVal
    <3>1. cc[d].val \in Seq(Versions)
          BY <1>1, <2>2, ValueIsSeq DEF CallAt
    <3>2. \A i \in DOMAIN cc[d].val :
             gone'[cc[d].val[i]] <= client.ttl + Deadline + (cc[d].age + 1)
      <4>1. TAKE i \in DOMAIN cc[d].val
      <4>2. gone[cc[d].val[i]] <= client.ttl + Deadline + cc[d].age
            BY <1>1, <2>2 DEF CallAge
      <4>3. gone[cc[d].val[i]] \in Nat /\ gone'[cc[d].val[i]] \in Nat
            /\ gone'[cc[d].val[i]] <= gone[cc[d].val[i]] + 1
            BY <1>7, <3>1
      <4>4. QED BY <1>1, <1>5, <4>2, <4>3
    <3>3. QED BY <1>3, <1>4, <2>2, <3>2 DEF CallAge
  <2>3. QED BY <1>3, <2>1, <2>2 DEF CallAge
<1>10. QED BY <1>6, <1>8, <1>9 DEF AgeInv

(* Every step keeps the ages. *)
LEMMA AgeStep == AgeInv /\ CacheTypeInv' /\ [CacheNext]_cacheVars => AgeInv'
<1> SUFFICES ASSUME AgeInv, CacheTypeInv', [CacheNext]_cacheVars PROVE AgeInv'
    OBVIOUS
<1>1. CASE CommitRow \/ Evict \/ OtherRelease \/ UNCHANGED cacheVars
  <2>1. /\ CacheTypeInv /\ NewestNotGone /\ CachedAge /\ \A c \in CacheCalls : CallAge(cc[c])
        BY DEF AgeInv
  <2>2. /\ UNCHANGED <<client, gone, cc>> /\ row' \in Nat /\ row' >= row
        /\ UNCHANGED <<cacheVal, left>> \/ cacheVal' \in {NoVal, BadVal}
        BY <1>1, <2>1, OtherSteps
  <2>3. row \in Nat /\ Versions \subseteq Nat
        BY <2>1, TypeHalves DEF StoreOK, Versions
  <2>4. NewestNotGone'
        BY <2>1, <2>2, <2>3 DEF NewestNotGone
  <2>5. CachedAge'
        BY <2>1, <2>2, NoValueAssumption DEF CachedAge
  <2>6. QED BY <2>1, <2>2, <2>4, <2>5 DEF AgeInv, CallAge
<1>2. QED BY <1>1, AgeOfCalls, AgeOfTick DEF CacheNext

(* Cache.Once: no version of a row is answered longer after it was replaced   *)
(* than its time to live and two deadlines, for any number of processes,      *)
(* calls and reads of a query, whatever fails, and although nothing deletes   *)
(* the value when the row changes.                                          *)
THEOREM StalenessIsBounded == CacheSpec => BoundedStaleness
<1>1. CacheInit => AgeInv
      BY CacheInitType, NoValueAssumption
      DEF CacheInit, AgeInv, NewestNotGone, CachedAge, CallAge, IdleCacheCall
<1>2. AgeInv /\ CacheTypeInv' /\ [CacheNext]_cacheVars => AgeInv'
      BY AgeStep
<1>3. AgeInv =>
         \A c \in CacheCalls : Returns(c) /\ cc[c].val # BadVal =>
            \A i \in DOMAIN cc[c].val : gone[cc[c].val[i]] <= client.ttl + 2 * Deadline
  <2> SUFFICES ASSUME AgeInv, NEW c \in CacheCalls, cc[c].pc = "decode", cc[c].val # BadVal,
                      NEW i \in DOMAIN cc[c].val
               PROVE  gone[cc[c].val[i]] <= client.ttl + 2 * Deadline
      BY DEF Returns
  <2>1. StoreOK /\ CallAge(cc[c]) /\ CallAt(cc[c]) /\ cc[c].age \in 0..Deadline
        BY TypeHalves DEF AgeInv, CallsOK, CallsShaped, CallRec
  <2>2. gone[cc[c].val[i]] <= client.ttl + Deadline + cc[c].age
        BY <2>1 DEF CallAge
  <2>3. cc[c].val \in Seq(Versions)
        BY <2>1, ValueIsSeq DEF CallAt
  <2>4. gone[cc[c].val[i]] \in Nat /\ client.ttl \in Nat /\ Deadline \in Nat
        BY <2>1, <2>3, PartsAreVersions, ClientFacts, CacheTimesAssumption DEF StoreOK
  <2>5. QED BY <2>1, <2>2, <2>4
<1>4. QED BY <1>1, <1>2, <1>3, CacheTypeInductive, PTL DEF CacheSpec, BoundedStaleness
==============================================================================
