----------------------------- MODULE MCSupport ------------------------------
(***************************************************************************)
(* The parts beside the draw that share no state with each other, checked   *)
(* side by side: a behaviour chooses one of them and the others rest.  The  *)
(* pure functions are evaluated on every input of a small set.             *)
(***************************************************************************)
EXTENDS OutboxBatch, DccManager, CdcSync, AwardPool, DBRouter, AuthMiddleware

CONSTANTS Awards, Rates, s1, s2

VARIABLES
    part,            \* the part that takes steps
    input            \* what the pure functions are applied to, or NoRow

supportVars == <<part, input, outboxVars, dccVars, cdcVars>>

-----------------------------------------------------------------------------
(* Inputs *)

SampleRates == {0, 1, 2500, 3000, 3334, 5000, 6999, 7000, 10000, 20000}
AllDccFaults == DccFaultKinds
AllCdcFaults == CdcFaultKinds

ASSUME RatesAssumption == IsFiniteSet(Awards) /\ Rates \subseteq Nat

RateInputs == {[kind |-> "rates", rates |-> r] : r \in [Awards -> Rates]}

RouterInputs == [kind : {"router"}, dbCount : 1..3, tbCount : 1..4]

Now == 5

(* A credential of one source in full, and the few forms the others take. *)
Credential(good, u, device, issuer, exp) ==
    [present |-> TRUE, good |-> good, prefixed |-> TRUE, user |-> u, claims |-> <<"", u, "">>,
     device |-> device, issuer |-> issuer, audience |-> IF issuer = "" THEN {} ELSE {"app"},
     exp |-> exp]
Credentials(u) ==
    {Credential(g, x, d, i, t) :
        g \in BOOLEAN, x \in {"", u}, d \in {"", "d1", "d2"}, i \in {"", "iss"},
        t \in {0, Now - 1, Now, Now + 1}}
Fine(u) == [present |-> TRUE, good |-> TRUE, prefixed |-> TRUE, user |-> u,
            claims |-> <<u, "uid", "sub">>, device |-> "d1", issuer |-> "iss",
            audience |-> {"app"}, exp |-> Now + 4]
Few(u) == {Absent, Fine(u), [Fine(u) EXCEPT !.good = FALSE]}

(* The requests of a device with its credentials in headers or in cookies. *)
Request(g, j, s, d, cookie) ==
    [operation |-> "Draw", http |-> TRUE, device |-> d, gateway |-> g,
     bearer |-> IF cookie THEN Absent ELSE j, jwtCookie |-> IF cookie THEN j ELSE Fine("cookie"),
     sessionHeader |-> IF cookie THEN Absent ELSE s,
     sessionCookie |-> IF cookie THEN s ELSE Absent]

Requests(d, cookie) ==
    LET NoBearer == {Garbled, [Fine("uj") EXCEPT !.prefixed = FALSE]}
    IN  {Request(g, j, s, d, cookie) :
            g \in Credentials("ug"), j \in Few("uj"), s \in Few("us")}
        \cup {Request(g, j, s, d, cookie) :
            g \in Few("ug"), j \in Credentials("uj") \cup NoBearer, s \in Few("us")}
        \cup {Request(g, j, s, d, cookie) :
            g \in Few("ug"), j \in Few("uj"), s \in Credentials("us")}

Source(issuer, strict, skew) ==
    [enabled |-> TRUE, hasKey |-> TRUE, cookies |-> TRUE, issuer |-> issuer,
     audience |-> IF issuer = "" THEN {} ELSE {"app"}, requireExpires |-> strict,
     requireDevice |-> strict, skew |-> skew]
Options(sources, src) ==
    [sources |-> sources, skip |-> {"Health"}, now |-> Now, gateway |-> src, jwt |-> src,
     session |-> src]

OptionSets ==
    {Options(<<>>, Source("", FALSE, 0)),
     Options(<<>>, Source("iss", TRUE, 1)),
     Options(<<"session", "jwt", "gateway">>, Source("iss", FALSE, 1)),
     [Options(<<"jwt", "session">>, Source("", TRUE, 0)) EXCEPT !.jwt.hasKey = FALSE],
     [Options(<<"jwt", "gateway", "session">>, Source("", FALSE, 2))
        EXCEPT !.jwt.cookies = FALSE, !.gateway.enabled = FALSE]}

AuthInputs == [kind : {"auth"}, opts : OptionSets, device : {"", "d1"}, cookie : BOOLEAN]

-----------------------------------------------------------------------------

OutboxRests ==
    /\ poison = {}
    /\ tstate = [t \in Tasks |-> "completed"]
    /\ rank = [t \in Tasks |-> 0]
    /\ ripe = {}
    /\ batch = [r \in JobRuns |-> {}]

(* A synchronisation with nothing to do. *)
CdcRests ==
    /\ table = [s \in Shards |-> [k \in PrimaryKeys |-> NoRow]]
    /\ used = [k \in PrimaryKeys |-> {}]
    /\ binlog = <<>>
    /\ oldest = 1
    /\ cpc = "run"
    /\ at = 1
    /\ write = 1
    /\ doc = [k \in PrimaryKeys |-> NoRow]

Init ==
    \/ part = "outbox" /\ input = NoRow /\ OutboxInit /\ DccInit /\ CdcRests
    \/ part = "dcc" /\ input = NoRow /\ OutboxRests /\ DccInit /\ CdcRests
    \/ part = "cdc" /\ input = NoRow /\ OutboxRests /\ DccInit /\ CdcInit
    \/ /\ part = "functions"
       /\ input \in RateInputs \cup RouterInputs \cup AuthInputs
       /\ OutboxRests /\ DccInit /\ CdcRests

(* A step of one part. *)
Outbox(A) == part = "outbox" /\ A /\ UNCHANGED <<part, input, dccVars, cdcVars>>
Dcc(A) == part = "dcc" /\ A /\ UNCHANGED <<part, input, outboxVars, cdcVars>>
Cdc(A) == part = "cdc" /\ A /\ UNCHANGED <<part, input, outboxVars, dccVars>>

Next == Outbox(OutboxNext) \/ Dcc(DccNext) \/ Cdc(CdcNext)

(* The outbox job runs again and again and ends each dispatch; an execution   *)
(* that can succeed and an update of a row do so in the end, and not every    *)
(* one within the same second.  cdc-sync is started again, and each write     *)
(* that is tried again and again succeeds in the end.  Only one part takes    *)
(* steps, so a condition of one and a condition of the other are stated as    *)
(* one (TLC's search doubles with each strong fairness condition).            *)
ASSUME IndexAssumption == Tasks = 1..MaxEvents /\ WritesPerEvent = 2

Fairness ==
    /\ WF_supportVars(\/ Outbox(\E r \in JobRuns : QueryNoSendMessageTaskList(r))
                      \/ Cdc(Run))
    /\ WF_supportVars(Outbox(\E r \in JobRuns : \E t \in Tasks : DispatchSingleTask(r, t)))
    /\ \A i \in Tasks :
          /\ WF_supportVars(Outbox(Ripen(i)))
          /\ SF_supportVars(\/ Outbox(\E r \in JobRuns : DispatchCompletes(r, i))
                            \/ Cdc(WriteAt(i, 1)))
          /\ SF_supportVars(\/ Outbox(\E r \in JobRuns : i \in poison /\ DispatchFails(r, i, 1))
                            \/ Cdc(WriteAt(i, 2)))

Spec == Init /\ [][Next]_supportVars /\ Fairness

-----------------------------------------------------------------------------
(* Properties of the functions *)

Is(kind) == input # NoRow /\ input.kind = kind

(* Rates that sum to one are drawn with exactly their probability, though    *)
(* each share is rounded on its own: see SharesAreExact.                    *)
NormalisedIsExact ==
    Is("rates") =>
        (TotalRate(input.rates, Awards) = Unit => SharesAreExact(input.rates, Awards))

(* Any rates, also those of a weight's subset, are drawn with the nearest    *)
(* probability that the pool's length allows: see SharesAreNearest.         *)
CountIsNearest ==
    Is("rates") =>
        (TotalRate(input.rates, Awards) > 0 => SharesAreNearest(input.rates, Awards))

(* DBStrategy sends every hash to a database that is opened and scanned by   *)
(* the outbox job, and deals the tables out evenly: see RoutesPartition.    *)
EveryUserIsRouted ==
    Is("router") => RoutesPartition(input.dbCount, input.tbCount, 0..25)

(* One source decides a request, and a refused credential is never made up   *)
(* for by that of another source: see OneSourceDecides.                     *)
NoSecondChance ==
    Is("auth") =>
        \A req \in Requests(input.device, input.cookie) : OneSourceDecides(req, input.opts)

(* A handler sees only a user vouched for on the device that sends the       *)
(* request by an unexpired credential: see IdentityIsBound.                 *)
HandlersSeeBoundUsers ==
    Is("auth") =>
        \A req \in Requests(input.device, input.cookie) : IdentityIsBound(req, input.opts)
=============================================================================
