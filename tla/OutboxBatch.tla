----------------------------- MODULE OutboxBatch -----------------------------
(***************************************************************************)
(* Which tasks a run of the SendAwardMessage job takes: a batch of at most  *)
(* Limit, the failed ones first, oldest update first.  The tasks of one     *)
(* database are followed; what their execution does is in RaffleDraw.      *)
(***************************************************************************)
EXTENDS Naturals, FiniteSets

CONSTANTS
    Tasks,           \* rows of the task table, by their auto-increment id
    Limit,           \* size of a batch (10 in the code)
    JobRuns          \* overlapping runs of the job

ASSUME OutboxAssumption == Tasks \subseteq Nat /\ IsFiniteSet(Tasks) /\ Limit \in Nat \ {0}

VARIABLES
    poison,          \* tasks whose execution fails every time
    tstate,          \* their column state
    rank,            \* order of update_time, equal within a second, of open tasks
    ripe,            \* tasks whose update_time is more than six minutes ago
    batch            \* tasks a run has yet to dispatch

outboxVars == <<poison, tstate, rank, ripe, batch>>

(* The columns have their values, and a batch keeps within the limit. *)
OutboxTypeOK ==
    /\ poison \subseteq Tasks
    /\ tstate \in [Tasks -> {"create", "fail", "completed"}]
    /\ rank \in [Tasks -> 0..Cardinality(Tasks)]
    /\ ripe \subseteq Tasks
    /\ batch \in [JobRuns -> SUBSET Tasks]
    /\ \A r \in JobRuns : Cardinality(batch[r]) <= Limit

(* Runs that overlapped may have left more failed tasks than fit in a batch. *)
OutboxInit ==
    /\ poison \in SUBSET Tasks
    /\ tstate \in [Tasks -> {"create", "fail"}]
    /\ rank = [t \in Tasks |-> Cardinality({u \in Tasks : u < t})]
    /\ ripe = {}
    /\ batch = [r \in JobRuns |-> {}]

-----------------------------------------------------------------------------

(* ORDER BY update_time, id *)
Before(t, u) == rank[t] < rank[u] \/ (rank[t] = rank[u] /\ t < u)

(* LIMIT n *)
Oldest(S, n) == {t \in S : Cardinality({u \in S : Before(u, t)}) < n}

InState(s) == {t \in Tasks : tstate[t] = s}

FailTasks == Oldest(InState("fail"), Limit)

(* Mutant: the batch is filled up without regard to the limit. *)
UnlimitedCreateTasks == Oldest(InState("create") \cap ripe, Limit)

(* What is left of the limit goes to tasks that were never dispatched. *)
CreateTasks == Oldest(InState("create") \cap ripe, Limit - Cardinality(FailTasks))

QueryNoSendMessageTaskList(r) ==
    /\ batch[r] = {}
    /\ FailTasks \cup CreateTasks # {}
    /\ batch' = [batch EXCEPT ![r] = FailTasks \cup CreateTasks]
    /\ UNCHANGED <<poison, tstate, rank, ripe>>

(* Ranks without gaps; completed tasks have none. *)
Dense(f, done) ==
    [t \in Tasks |-> IF t \in done THEN 0
                     ELSE Cardinality({f[u] : u \in {v \in Tasks \ done : f[v] < f[t]}})]

Newest == CHOOSE m \in {rank[t] : t \in Tasks} : \A t \in Tasks : rank[t] <= m

(* Mutant: a state update leaves update_time as it is. *)
KeepUpdateTime(t, second) == rank[t]

(* gorm's autoUpdateTime: now, in the second of the last update or later. *)
UpdateTime(t, second) == Newest + second

SetState(t, s, second) ==
    /\ tstate' = [tstate EXCEPT ![t] = s]
    /\ rank' = Dense([rank EXCEPT ![t] = UpdateTime(t, second)],
                     {u \in Tasks : tstate'[u] = "completed"})
    /\ ripe' = ripe \ {t}

Taken(r, t) == t \in batch[r] /\ batch' = [batch EXCEPT ![r] = @ \ {t}]

(* The task is executed and its row says so. *)
DispatchCompletes(r, t) ==
    /\ Taken(r, t)
    /\ t \notin poison
    /\ SetState(t, "completed", 0)
    /\ UNCHANGED poison

(* The execution fails, or the update to completed does. *)
DispatchFails(r, t, second) ==
    /\ Taken(r, t)
    /\ SetState(t, "fail", second)
    /\ UNCHANGED poison

(* The last update fails too, or the process dies: the row stays as it is. *)
DispatchLost(r, t) ==
    /\ Taken(r, t)
    /\ UNCHANGED <<poison, tstate, rank, ripe>>

DispatchSingleTask(r, t) ==
    \/ DispatchCompletes(r, t)
    \/ \E second \in {0, 1} : DispatchFails(r, t, second)
    \/ DispatchLost(r, t)

(* Six minutes pass. *)
Ripen(t) ==
    /\ t \notin ripe
    /\ tstate[t] = "create"
    /\ ripe' = ripe \cup {t}
    /\ UNCHANGED <<poison, tstate, rank, batch>>

OutboxNext ==
    \/ \E r \in JobRuns :
          \/ QueryNoSendMessageTaskList(r)
          \/ \E t \in Tasks : DispatchSingleTask(r, t)
    \/ \E t \in Tasks : Ripen(t)

OutboxSpec == OutboxInit /\ [][OutboxNext]_outboxVars

-----------------------------------------------------------------------------

(* Tasks that always fail rotate, because each failure renews update_time:   *)
(* every other task that has failed gets its turn and completes, whatever    *)
(* their number; and when they do not fill a whole batch, so does every task *)
(* that was never dispatched.                                               *)
NoTaskStarves ==
    \A t \in Tasks :
        t \notin poison /\ (tstate[t] = "fail" \/ Cardinality(poison) < Limit)
            ~> tstate[t] = "completed"
==============================================================================
