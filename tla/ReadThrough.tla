----------------------------- MODULE ReadThrough -----------------------------
(***************************************************************************)
(* Cache.Once of pkg/cache, the read-through cache in front of MySQL, and   *)
(* the repository queries that use it.  One key is followed: its row in     *)
(* MySQL, its value in Redis, and the calls of the service's processes,     *)
(* each of which merges concurrent calls for the key into one flight.      *)
(* Nothing ever deletes or rewrites the value when the row changes: it is   *)
(* the expiry that limits how long a stale value is served.                *)
(***************************************************************************)
EXTENDS Naturals, Sequences, FiniteSets

CONSTANTS
    CacheCalls,      \* calls of Once; an ended one is started again
    Homes,           \* ways to spread them over the service's processes
    Clients,         \* the queries, one of which is followed
    TenDays,         \* their time to live ...
    FiveSeconds,     \* ... in ticks
    Deadline,        \* ticks until a call's context expires (the server's timeout)
    MaxVersion,      \* bound: changes of the row
    CacheFaults,     \* what may go wrong
    NoVal,           \* no value
    BadVal           \* a value that cannot be decoded

CacheFaultKinds ==
    {"redisFail",    \* an operation of Redis fails
     "dbFail",       \* a query of MySQL fails
     "cancel",       \* a caller goes away before its deadline
     "evict",        \* Redis drops the value before its expiry
     "badValue"}     \* another release leaves a value this one cannot decode

ASSUME CacheTimesAssumption ==
    /\ TenDays \in Nat \ {0} /\ FiveSeconds \in Nat \ {0}
    /\ Deadline \in Nat \ {0} /\ MaxVersion \in Nat
ASSUME CacheFaultsAssumption == CacheFaults \subseteq CacheFaultKinds

(***************************************************************************)
(* The queries: how long a value lives and of how many separate reads it is *)
(* put together.                                                           *)
(***************************************************************************)
QueryRaffleActivity == [ttl |-> TenDays, reads |-> 1]
QueryActivityAccount == [ttl |-> TenDays, reads |-> 1]
QueryNoUsedRaffleOrder == [ttl |-> FiveSeconds, reads |-> 1]
QueryActivitySku == [ttl |-> TenDays, reads |-> 1]
QueryRaffleActivityByActivityId == [ttl |-> TenDays, reads |-> 1]
QueryRaffleActivityCountByActivityCountId == [ttl |-> TenDays, reads |-> 1]
QueryStrategyIdByActivityId == [ttl |-> TenDays, reads |-> 1]
QueryStrategyEntityByStrategyId == [ttl |-> TenDays, reads |-> 1]
QueryStrategyValue == [ttl |-> TenDays, reads |-> 1]
QueryStrategyRuleValue == [ttl |-> TenDays, reads |-> 1]
(* The tree, its nodes and its lines. *)
QueryRuleTree == [ttl |-> TenDays, reads |-> 3]
(* The rule and the titles of the awards it names. *)
QueryAwardRuleWeight == [ttl |-> TenDays, reads |-> 2]
(* The activity of the strategy, then the user's account: two calls. *)
QueryActivityByStrategy == [ttl |-> TenDays, reads |-> 1]
QueryAccountOfActivity == [ttl |-> TenDays, reads |-> 1]

AllClients ==
    {QueryRaffleActivity, QueryActivityAccount, QueryNoUsedRaffleOrder, QueryActivitySku,
     QueryRaffleActivityByActivityId, QueryRaffleActivityCountByActivityCountId,
     QueryStrategyIdByActivityId, QueryStrategyEntityByStrategyId, QueryStrategyValue,
     QueryStrategyRuleValue, QueryRuleTree, QueryAwardRuleWeight, QueryActivityByStrategy,
     QueryAccountOfActivity}

ASSUME ClientsAssumption == Clients \subseteq AllClients

VARIABLES
    home,            \* the process of each call
    client,          \* the query that is followed
    row,             \* version of the row; version 0 is its absence
    gone,            \* ticks since a version was replaced, for the properties
    cacheVal,        \* the value in Redis
    left,            \* ticks until it expires
    cc               \* the calls

cacheVars == <<home, client, row, gone, cacheVal, left, cc>>

Versions == 0..MaxVersion
Values == UNION {[1..n -> Versions] : n \in 1..3}

(* No value, and a value that cannot be decoded, are not results of a query. *)
ASSUME NoValueAssumption == NoVal # BadVal /\ {NoVal, BadVal} \cap (Values \cup {<<>>}) = {}

LongestTTL == IF TenDays > FiveSeconds THEN TenDays ELSE FiveSeconds
MaxGone == LongestTTL + 2 * Deadline + 1

InFlight == {"get", "do", "set"}

(* The calls and the row are well formed, a flight has one leader, and only  *)
(* calls of a process with a flight wait.                                   *)
CacheTypeOK ==
    /\ home \in Homes
    /\ client \in Clients
    /\ row \in Versions
    /\ gone \in [Versions -> 0..MaxGone]
    /\ cacheVal \in Values \cup {NoVal, BadVal}
    /\ left \in 0..LongestTTL
    /\ cacheVal = NoVal <=> left = 0
    /\ cc \in [CacheCalls -> [pc : InFlight \cup {"idle", "wait", "decode", "delete"},
                              age : 0..Deadline, val : Values \cup {<<>>, BadVal},
                              cached : BOOLEAN, shared : BOOLEAN]]
    /\ \A c, d \in CacheCalls :
          home[c] = home[d] /\ cc[c].pc \in InFlight /\ cc[d].pc \in InFlight => c = d
    /\ \A c \in CacheCalls : cc[c].pc = "wait" =>
          \E d \in CacheCalls : home[c] = home[d] /\ cc[d].pc \in InFlight

IdleCacheCall == [pc |-> "idle", age |-> 0, val |-> <<>>, cached |-> FALSE, shared |-> FALSE]

CacheInit ==
    /\ home \in Homes
    /\ client \in Clients
    /\ row = 0
    /\ gone = [v \in Versions |-> 0]
    /\ cacheVal = NoVal
    /\ left = 0
    /\ cc = [c \in CacheCalls |-> IdleCacheCall]

-----------------------------------------------------------------------------
(* Redis and contexts *)

SetValue(v, t) == cacheVal' = v /\ left' = t
DelValue == SetValue(NoVal, 0)
KeepValue == UNCHANGED <<cacheVal, left>>

RedisFails == "redisFail" \in CacheFaults

Expired(c) == cc[c].age = Deadline
Cancelled(c) == Expired(c) \/ "cancel" \in CacheFaults

(* Mutant: a hit starts the time to live again. *)
SlidingExpiry == client.ttl

(* A hit leaves the expiry alone. *)
LeftAfterHit == left

-----------------------------------------------------------------------------
(* Cache.Once *)

(* Mutant: every call is a flight of its own. *)
NeverFlying(c) == FALSE

(* The call's process has a flight for the key. *)
Flying(c) == \E d \in CacheCalls : home[d] = home[c] /\ cc[d].pc \in InFlight

(* group.Do: the first call leads, the others wait for its result. *)
Joined(c, age) ==
    [pc |-> IF Flying(c) THEN "wait" ELSE "get", age |-> age, val |-> <<>>,
     cached |-> FALSE, shared |-> Flying(c)]

Once(c) ==
    /\ cc[c].pc = "idle"
    /\ cc' = [cc EXCEPT ![c] = Joined(c, 0)]
    /\ UNCHANGED <<home, client, row, gone, cacheVal, left>>

Flight(c) == {c} \cup {d \in CacheCalls : home[d] = home[c] /\ cc[d].pc = "wait"}

(* Mutant: nobody is told that the value came from Redis. *)
NeverCached(c, d, hit) == FALSE

(* The leader's closure sets the leader's own variable. *)
CachedFlag(c, d, hit) == hit /\ d = c

(* The leader and all that waited receive v. *)
FlightEnds(c, v, hit) ==
    cc' = [d \in CacheCalls |->
             IF d \in Flight(c)
             THEN [cc[d] EXCEPT !.pc = "decode", !.val = v, !.cached = CachedFlag(c, d, hit)]
             ELSE cc[d]]

(* They all receive the leader's error. *)
FlightFails(c) ==
    cc' = [d \in CacheCalls |-> IF d \in Flight(c) THEN IdleCacheCall ELSE cc[d]]

(* getBytes: a hit ends the flight, an expired context too; a miss and any   *)
(* other error lead to the query.                                           *)
GetBytes(c) ==
    /\ cc[c].pc = "get"
    /\ \/ /\ ~Expired(c)
          /\ cacheVal # NoVal
          /\ FlightEnds(c, cacheVal, TRUE)
          /\ SetValue(cacheVal, LeftAfterHit)
       \/ /\ ~Expired(c)
          /\ cacheVal = NoVal \/ RedisFails
          /\ cc' = [cc EXCEPT ![c].pc = "do"]
          /\ KeepValue
       \/ Cancelled(c) /\ FlightFails(c) /\ KeepValue
    /\ UNCHANGED <<home, client, row, gone>>

(* A row that is missing is a value too: Do returns nil, which Marshal turns *)
(* into "null".                                                             *)
Complete(v) == Len(v) = client.reads \/ v = <<0>>

(* One read of item.Do. *)
Do(c) ==
    LET v == Append(cc[c].val, row)
    IN  /\ cc[c].pc = "do"
        /\ \/ /\ ~Expired(c)
              /\ cc' = [cc EXCEPT ![c].val = v, ![c].pc = IF Complete(v) THEN "set" ELSE "do"]
           \/ /\ Cancelled(c) \/ "dbFail" \in CacheFaults
              /\ FlightFails(c)
        /\ UNCHANGED <<home, client, row, gone, cacheVal, left>>

(* The value is returned whether or not Redis takes it. *)
Set(c) ==
    /\ cc[c].pc = "set"
    /\ \/ ~Expired(c) /\ SetValue(cc[c].val, client.ttl)
       \/ (Cancelled(c) \/ RedisFails) /\ KeepValue
    /\ FlightEnds(c, cc[c].val, FALSE)
    /\ UNCHANGED <<home, client, row, gone>>

Unmarshal(c) ==
    /\ cc[c].pc = "decode"
    /\ cc' = [cc EXCEPT ![c] = IF cc[c].val = BadVal /\ cc[c].cached
                               THEN [cc[c] EXCEPT !.pc = "delete", !.val = <<>>]
                               ELSE IdleCacheCall]
    /\ UNCHANGED <<home, client, row, gone, cacheVal, left>>

(* Mutant: the retry gets a context of its own. *)
FreshContext(c) == 0

(* The retry keeps the context. *)
RetryAge(c) == cc[c].age

(* Delete's error is ignored and Once runs again, in the same context. *)
DeleteAndRetry(c) ==
    /\ cc[c].pc = "delete"
    /\ \/ ~Expired(c) /\ DelValue
       \/ (Cancelled(c) \/ RedisFails) /\ KeepValue
    /\ cc' = [cc EXCEPT ![c] = Joined(c, RetryAge(c))]
    /\ UNCHANGED <<home, client, row, gone>>

-----------------------------------------------------------------------------
(* The environment *)

(* Another use case commits a change of the row; the value in Redis stays. *)
CommitRow ==
    /\ row < MaxVersion
    /\ row' = row + 1
    /\ UNCHANGED <<home, client, gone, cacheVal, left, cc>>

Evict ==
    /\ "evict" \in CacheFaults
    /\ cacheVal # NoVal
    /\ DelValue
    /\ UNCHANGED <<home, client, row, gone, cc>>

OtherRelease ==
    /\ "badValue" \in CacheFaults
    /\ SetValue(BadVal, client.ttl)
    /\ UNCHANGED <<home, client, row, gone, cc>>

(* A call whose context has expired ends before the next tick, unless it     *)
(* waits for another's flight.                                              *)
Tick ==
    /\ \A c \in CacheCalls : cc[c].pc \in {"idle", "wait"} \/ ~Expired(c)
    /\ left' = IF left = 0 THEN 0 ELSE left - 1
    /\ cacheVal' = IF left <= 1 THEN NoVal ELSE cacheVal
    /\ gone' = [v \in Versions |-> IF v < row /\ gone[v] < MaxGone THEN gone[v] + 1 ELSE gone[v]]
    /\ cc' = [c \in CacheCalls |->
                IF cc[c].pc = "idle" \/ Expired(c) THEN cc[c] ELSE [cc[c] EXCEPT !.age = @ + 1]]
    /\ UNCHANGED <<home, client, row>>

-----------------------------------------------------------------------------

CallStep(c) ==
    \/ GetBytes(c)
    \/ Do(c)
    \/ Set(c)
    \/ Unmarshal(c)
    \/ DeleteAndRetry(c)

CacheNext ==
    \/ \E c \in CacheCalls : Once(c) \/ CallStep(c)
    \/ CommitRow
    \/ Evict
    \/ OtherRelease
    \/ Tick

CacheSpec == CacheInit /\ [][CacheNext]_cacheVars

(* Started calls run and time passes; nobody has to call, and nothing has to *)
(* succeed.                                                                 *)
CacheFairSpec ==
    /\ CacheSpec
    /\ \A c \in CacheCalls : WF_cacheVars(CallStep(c))
    /\ SF_cacheVars(Tick)

-----------------------------------------------------------------------------
(* Properties *)

Returns(c) == cc[c].pc = "decode" /\ cc'[c].pc = "idle"

(* No version of the row, its absence included, is answered longer after it  *)
(* was replaced than the time to live and the deadlines of the call that    *)
(* cached it and of the one that read it: a slow call may put an old value   *)
(* over a newer one, two processes may fill the key against each other, a    *)
(* value may be put together from two versions, and still nothing is older. *)
BoundedStaleness ==
    [][\A c \in CacheCalls : Returns(c) /\ cc[c].val # BadVal =>
          \A i \in DOMAIN cc[c].val : gone[cc[c].val[i]] <= client.ttl + 2 * Deadline]_cacheVars

(* A value that cannot be decoded is an error only to calls that shared the  *)
(* flight of another; the call that fetched it deletes it and tries again.  *)
UnreadableOnlyShared ==
    [][\A c \in CacheCalls : Returns(c) /\ cc[c].val = BadVal => cc[c].shared]_cacheVars

(* Every call ends, also when Redis serves a value that cannot be decoded    *)
(* and refuses to delete it, and when a retry waits for another's flight.   *)
EveryCallEnds == \A c \in CacheCalls : cc[c].pc # "idle" ~> cc[c].pc = "idle"

(* When the row has changed for the last time, Redis holds that version,     *)
(* nothing, or what another release left there.                             *)
CacheConverges ==
    <>[](cacheVal \in {NoVal, BadVal} \/ \A i \in DOMAIN cacheVal : cacheVal[i] = row)
==============================================================================
