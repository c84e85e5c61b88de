---------------------------- MODULE SupportProofs ----------------------------
(***************************************************************************)
(* Proofs about the parts beside the draw: the dynamic configuration and    *)
(* its snapshot file, the batches of the outbox job, the database router,   *)
(* the shares of a raffle pool, the authentication middleware and cdc-sync. *)
(***************************************************************************)
EXTENDS MCSupport, AwardPoolProofs, SequenceTheorems

-----------------------------------------------------------------------------
(* The dynamic configuration *)

(* The snapshot holds a version that was published. *)
DiskPublished == disk # Torn => disk <= published

(* Every save that is under way, and the snapshot once there is none, is at  *)
(* least as new as the oldest of the saves that overlapped.                 *)
SavesKeepUp ==
    /\ burst <= published
    /\ dpc = "down" => burst = 0
    /\ \A v \in saves : v >= burst
    /\ tmp # 0 => tmp >= burst
    /\ saves = {} /\ tmp = 0 => disk >= burst

DccInv == DccTypeOK /\ DiskPublished /\ SnapshotSurvives /\ SavesKeepUp

(* The empty file system of a first start satisfies the invariant. *)
LEMMA DccInitInv == DccInit => DccInv
<1> SUFFICES ASSUME DccInit PROVE DccInv
    OBVIOUS
<1> USE DccAssumption DEF DccInit, ConfigVersions
<1>1. DccTypeOK
  <2>1. everSaved \in BOOLEAN
        OBVIOUS
  <2>2. {mem, notified, tmp} \cup saves = {0} /\ published = 1
        OBVIOUS
  <2>3. QED BY <2>1, <2>2 DEF DccTypeOK
<1>2. DiskPublished /\ SnapshotSurvives /\ SavesKeepUp
      BY DEF DiskPublished, SnapshotSurvives, SavesKeepUp
<1>3. QED BY <1>1, <1>2 DEF DccInv

(* The invariant looks at nothing but the variables of the configuration. *)
LEMMA DccFrame == DccInv /\ UNCHANGED dccVars => DccInv'
BY DEF dccVars, DccInv, DccTypeOK, DiskPublished, SnapshotSurvives, SavesKeepUp

(* Loading, watching and storing a configuration: what is stored is what     *)
(* etcd holds now, so it is not older than any save under way.              *)
LEMMA ManagerKeepsDccInv ==
    DccInv /\ (InitFromEtcd \/ InitFromSnapshot \/ Watch \/ ChangeUnobserved \/ OnChange)
        => DccInv'
<1> SUFFICES ASSUME DccInv,
                    InitFromEtcd \/ InitFromSnapshot \/ Watch \/ ChangeUnobserved \/ OnChange
             PROVE  DccInv'
    OBVIOUS
<1> USE DccAssumption
    DEF DccInv, DccTypeOK, DiskPublished, SnapshotSurvives, SavesKeepUp, ConfigVersions, Torn
<1>1. CASE InitFromEtcd
      BY <1>1 DEF InitFromEtcd, StoreAndSave, Parses
<1>2. CASE InitFromSnapshot
      BY <1>2 DEF InitFromSnapshot
<1>3. CASE Watch
      BY <1>3 DEF Watch
<1>4. CASE ChangeUnobserved
      BY <1>4 DEF ChangeUnobserved
<1>5. CASE OnChange
  <2>1. /\ dpc = "watching" /\ notified < published /\ notified' = published
        /\ UNCHANGED <<published, dpc, tmp, disk, everSaved>>
        BY <1>5 DEF OnChange
  <2>2. CASE Parses(published) /\ StoreAndSave(published)
        BY <2>1, <2>2 DEF StoreAndSave, Parses
  <2>3. CASE UNCHANGED <<mem, saves, burst>>
        BY <2>1, <2>3
  <2>4. QED BY <1>5, <2>2, <2>3 DEF OnChange, Report
<1>6. QED BY <1>1, <1>2, <1>3, <1>4, <1>5

(* The steps of SaveSnapshot, its failures, a publication and a crash. *)
LEMMA FallbackKeepsDccInv ==
    /\ DccInv
    /\ \/ \E v \in ConfigVersions : WriteTmp(v)
       \/ Rename \/ SaveFails \/ PublishConfig \/ DccCrash
    => DccInv'
<1> SUFFICES ASSUME DccInv,
                    \/ \E v \in ConfigVersions : WriteTmp(v)
                    \/ Rename \/ SaveFails \/ PublishConfig \/ DccCrash
             PROVE  DccInv'
    OBVIOUS
<1> USE DccAssumption
    DEF DccInv, DccTypeOK, DiskPublished, SnapshotSurvives, SavesKeepUp, ConfigVersions, Torn
<1>1. ASSUME NEW v \in ConfigVersions, WriteTmp(v) PROVE DccInv'
      BY <1>1 DEF WriteTmp, WhileWriting
<1>2. CASE Rename
      BY <1>2 DEF Rename, Replaced
<1>3. CASE SaveFails
  <2>1. saves' \subseteq saves /\ tmp' \in {tmp, 0} /\ burst' = 0
        /\ UNCHANGED <<published, dpc, mem, notified, disk, everSaved>>
        BY <1>3 DEF SaveFails
  <2>2. QED BY <2>1
<1>4. CASE PublishConfig
      BY <1>4 DEF PublishConfig
<1>5. CASE DccCrash
      BY <1>5 DEF DccCrash
<1>6. QED BY <1>1, <1>2, <1>3, <1>4, <1>5

(* Manager and Fallback: the invariant holds throughout. *)
LEMMA DccInductive == DccSpec => []DccInv
<1>1. DccInit => DccInv
      BY DccInitInv
<1>2. DccInv /\ [DccNext]_dccVars => DccInv'
      BY DccFrame, ManagerKeepsDccInv, FallbackKeepsDccInv DEF DccNext
<1>3. QED BY <1>1, <1>2, PTL DEF DccSpec

(* Nothing but published configurations that parse is ever served or saved   *)
(* by Manager, for any number of versions and any of them malformed.        *)
THEOREM DccTypeCorrect == DccSpec => []DccTypeOK
<1>1. DccInv => DccTypeOK
      BY DEF DccInv
<1>2. QED BY <1>1, DccInductive, PTL

(* SaveSnapshot: once a snapshot was in place there is one that parses, in   *)
(* every crash and after every failed write or rename.                      *)
THEOREM SnapshotAlwaysThere == DccSpec => []SnapshotSurvives
<1>1. DccInv => SnapshotSurvives
      BY DEF DccInv
<1>2. QED BY <1>1, DccInductive, PTL

(* Saves by goroutines that take the lock in any order leave a snapshot that *)
(* is at least as new as the first of them.                                 *)
THEOREM SnapshotNotOlder == DccSpec => []SnapshotKeepsUp
<1>1. DccInv => SnapshotKeepsUp
      BY DEF DccInv, SavesKeepUp, SnapshotKeepsUp
<1>2. QED BY <1>1, DccInductive, PTL

(* The value in Manager never goes back while its process lives. *)
THEOREM MemoryNeverGoesBack == DccSpec => MemoryGoesForward
<1>1. DccInv /\ [DccNext]_dccVars
         => [dpc # "down" /\ dpc' # "down" => mem' >= mem]_dccVars
  <2> SUFFICES ASSUME DccInv, DccNext, dpc # "down", dpc' # "down"
               PROVE  mem' >= mem
      OBVIOUS
  <2> USE DEF DccInv, DccTypeOK, ConfigVersions
  <2>1. mem \in Nat /\ published \in Nat /\ mem <= published
        BY DccAssumption
  <2>2. CASE UNCHANGED mem
        BY <2>1, <2>2
  <2>3. CASE OnChange
        BY <2>1, <2>3 DEF OnChange, Report, StoreAndSave
  <2>4. QED
        BY <2>2, <2>3
        DEF DccNext, InitFromEtcd, InitFromSnapshot, Watch, ChangeUnobserved, WriteTmp, Rename,
            SaveFails, PublishConfig, DccCrash
<1>2. QED BY <1>1, DccInductive, PTL DEF DccSpec, MemoryGoesForward

-----------------------------------------------------------------------------
(* The batches of the outbox job *)

(* ORDER BY update_time, id is a strict total order. *)
LEMMA BeforeIsOrder ==
    ASSUME OutboxTypeOK
    PROVE  /\ \A t \in Tasks : ~Before(t, t)
           /\ \A t, u \in Tasks : t # u => Before(t, u) \/ Before(u, t)
           /\ \A t, u, v \in Tasks : Before(t, u) /\ Before(u, v) => Before(t, v)
<1>1. \A t \in Tasks : rank[t] \in Nat /\ t \in Nat
  <2>1. Cardinality(Tasks) \in Nat
        BY OutboxAssumption, FS_CardinalityType
  <2>2. QED BY <2>1, OutboxAssumption DEF OutboxTypeOK
<1>2. QED BY <1>1 DEF Before

(* LIMIT n: at most n rows. *)
LEMMA OldestLimit ==
    ASSUME OutboxTypeOK, NEW S \in SUBSET Tasks, NEW n \in Nat
    PROVE  Oldest(S, n) \subseteq S /\ Cardinality(Oldest(S, n)) <= n
<1>1. IsFiniteSet(S)
      BY OutboxAssumption, FS_Subset
<1> DEFINE P(t) == {u \in S : Before(u, t)}
<1>2. \A t \in S : IsFiniteSet(P(t)) /\ Cardinality(P(t)) \in Nat
      BY <1>1, FS_Subset, FS_CardinalityType
<1>3. PICK O : O = Oldest(S, n)
      OBVIOUS
<1>4. O \subseteq S /\ \A t \in S : t \in O <=> Cardinality(P(t)) < n
      BY <1>3 DEF Oldest
<1>5. CASE O = {}
      BY <1>3, <1>5, FS_EmptySet
<1>6. CASE O # {}
  <2>1. PICK C : C = {k \in Nat : \E t \in O : k = Cardinality(P(t))}
        OBVIOUS
  <2>2. C \in SUBSET Nat /\ C # {} /\ \A x \in C : x <= n
    <3>1. \A t \in O : Cardinality(P(t)) \in Nat /\ Cardinality(P(t)) <= n
          BY <1>2, <1>4
    <3>2. PICK t \in O : TRUE
          BY <1>6
    <3>3. Cardinality(P(t)) \in C
          BY <2>1, <3>1
    <3> HIDE DEF P
    <3>4. QED BY <2>1, <3>1, <3>3
  <2>3. PICK x \in C : \A y \in C : y <= x
        BY <2>2, GreatestExists
  <2>4. PICK m \in O : x = Cardinality(P(m))
        BY <2>1
  <2>5. \A t \in O : Cardinality(P(t)) <= Cardinality(P(m))
        BY <1>2, <1>4, <2>1, <2>3, <2>4
  <2>6. ASSUME NEW t \in O, t # m PROVE t \in P(m)
    <3>1. SUFFICES ASSUME Before(m, t) PROVE FALSE
          BY <1>4, <2>6, BeforeIsOrder
    <3>2. PICK A : A = P(m)
          OBVIOUS
    <3>3. PICK B : B = P(t)
          OBVIOUS
    <3>4. A \cup {m} \subseteq B /\ m \notin A
          BY <1>4, <3>1, <3>2, <3>3, BeforeIsOrder
    <3>5. IsFiniteSet(A) /\ IsFiniteSet(B) /\ Cardinality(A) \in Nat /\ Cardinality(B) \in Nat
          BY <1>2, <1>4, <3>2, <3>3
    <3>6. Cardinality(A \cup {m}) = Cardinality(A) + 1
          BY <3>4, <3>5, FS_AddElement
    <3>7. Cardinality(A \cup {m}) <= Cardinality(B)
          BY <3>4, <3>5, FS_Subset
    <3>8. QED BY <2>5, <3>2, <3>3, <3>5, <3>6, <3>7
  <2>7. PICK A : A = P(m)
        OBVIOUS
  <2>8. IsFiniteSet(A) /\ Cardinality(A) \in Nat /\ Cardinality(A) < n /\ m \notin A
        BY <1>2, <1>4, <2>7, BeforeIsOrder
  <2>9. IsFiniteSet(A \cup {m}) /\ Cardinality(A \cup {m}) = Cardinality(A) + 1
        BY <2>8, FS_AddElement
  <2>10. O \subseteq A \cup {m}
        BY <2>6, <2>7
  <2>11. Cardinality(O) \in Nat /\ Cardinality(O) <= Cardinality(A \cup {m})
        BY <2>9, <2>10, FS_Subset, FS_CardinalityType
  <2>12. QED BY <1>3, <1>4, <2>8, <2>9, <2>11
<1>7. QED BY <1>5, <1>6

(* The batch of a run: the failed tasks, filled up to the limit. *)
LEMMA BatchLimit ==
    ASSUME OutboxTypeOK
    PROVE  /\ FailTasks \cup CreateTasks \subseteq Tasks
           /\ Cardinality(FailTasks \cup CreateTasks) <= Limit
<1>1. InState("fail") \in SUBSET Tasks /\ InState("create") \cap ripe \in SUBSET Tasks
      BY DEF InState
<1>2. PICK F : F = FailTasks
      OBVIOUS
<1>3. F \subseteq Tasks /\ Cardinality(F) <= Limit
      BY <1>1, <1>2, OldestLimit, OutboxAssumption DEF FailTasks
<1>4. IsFiniteSet(F) /\ Cardinality(F) \in Nat
      BY <1>3, OutboxAssumption, FS_Subset, FS_CardinalityType
<1>5. PICK n \in Nat : n = Limit - Cardinality(F)
      BY <1>3, <1>4, OutboxAssumption
<1>6. PICK K : K = CreateTasks
      OBVIOUS
<1>7. K \subseteq Tasks /\ Cardinality(K) <= n
  <2>1. K = Oldest(InState("create") \cap ripe, n)
        BY <1>2, <1>5, <1>6 DEF CreateTasks
  <2>2. QED BY <1>1, <2>1, OldestLimit
<1>8. IsFiniteSet(K) /\ Cardinality(K) \in Nat
      BY <1>7, OutboxAssumption, FS_Subset, FS_CardinalityType
<1>9. PICK I : I = F \cap K
      OBVIOUS
<1>10. Cardinality(I) \in Nat
  <2>1. I \in SUBSET F
        BY <1>9
  <2>2. QED BY <1>4, <2>1, FS_Subset, FS_CardinalityType
<1>11. Cardinality(F \cup K) = Cardinality(F) + Cardinality(K) - Cardinality(I)
      BY <1>4, <1>8, <1>9, FS_Union
<1>12. Cardinality(F \cup K) <= Limit
      BY <1>4, <1>5, <1>7, <1>8, <1>10, <1>11, OutboxAssumption
<1>13. QED BY <1>2, <1>3, <1>6, <1>7, <1>12

(* Ranks without gaps stay below the number of tasks. *)
LEMMA DenseType ==
    ASSUME NEW f, NEW done
    PROVE  Dense(f, done) \in [Tasks -> 0..Cardinality(Tasks)]
<1>1. Cardinality(Tasks) \in Nat
      BY OutboxAssumption, FS_CardinalityType
<1>2. ASSUME NEW t \in Tasks
      PROVE  Cardinality({f[u] : u \in {v \in Tasks \ done : f[v] < f[t]}}) \in 0..Cardinality(Tasks)
  <2>1. PICK V : V = {v \in Tasks \ done : f[v] < f[t]}
        OBVIOUS
  <2>2. V \in SUBSET Tasks
        BY <2>1
  <2>3. IsFiniteSet(V) /\ Cardinality(V) \in Nat /\ Cardinality(V) <= Cardinality(Tasks)
        BY <2>2, OutboxAssumption, FS_Subset, FS_CardinalityType
  <2>4. PICK W : W = {f[u] : u \in V}
        OBVIOUS
  <2> DEFINE g == [u \in V |-> f[u]]
  <2>5. g \in Surjection(V, W)
        BY <2>4 DEF Surjection
  <2>6. IsFiniteSet(W) /\ Cardinality(W) <= Cardinality(V)
        BY <2>3, <2>5, FS_Surjection
  <2>7. Cardinality(W) \in Nat
        BY <2>6, FS_CardinalityType
  <2>8. Cardinality(W) \in 0..Cardinality(Tasks)
        BY <1>1, <2>3, <2>6, <2>7
  <2>9. QED BY <2>1, <2>4, <2>8
<1>3. QED BY <1>1, <1>2 DEF Dense

(* UpdateTaskSendMessage...: the state, the renewed update_time. *)
LEMMA SetStateType ==
    ASSUME OutboxTypeOK, NEW t \in Tasks, NEW s \in {"fail", "completed"}, NEW second,
           SetState(t, s, second)
    PROVE  /\ tstate' \in [Tasks -> {"create", "fail", "completed"}]
           /\ rank' \in [Tasks -> 0..Cardinality(Tasks)]
           /\ ripe' \subseteq Tasks
<1>1. rank' \in [Tasks -> 0..Cardinality(Tasks)]
      BY DenseType DEF SetState
<1>2. QED BY <1>1 DEF SetState, OutboxTypeOK

(* A dispatch takes a task out of its batch. *)
LEMMA TakenType ==
    ASSUME OutboxTypeOK, NEW r \in JobRuns, NEW t \in Tasks, Taken(r, t)
    PROVE  /\ batch' \in [JobRuns -> SUBSET Tasks]
           /\ \A q \in JobRuns : Cardinality(batch'[q]) <= Limit
<1>1. batch' = [batch EXCEPT ![r] = batch[r] \ {t}] /\ batch[r] \in SUBSET Tasks
      BY DEF Taken, OutboxTypeOK
<1>2. batch' \in [JobRuns -> SUBSET Tasks]
      BY <1>1 DEF OutboxTypeOK
<1>3. PICK A, B : A = batch[r] /\ B = batch'[r]
      OBVIOUS
<1>4. B \in SUBSET A /\ A \in SUBSET Tasks /\ Cardinality(A) <= Limit
      BY <1>1, <1>3 DEF OutboxTypeOK
<1>5. IsFiniteSet(A)
      BY <1>4, OutboxAssumption, FS_Subset
<1>6. IsFiniteSet(B) /\ Cardinality(B) <= Cardinality(A)
      BY <1>4, <1>5, FS_Subset
<1>7. Cardinality(A) \in Nat /\ Cardinality(B) \in Nat
      BY <1>5, <1>6, FS_CardinalityType
<1>8. Cardinality(batch'[r]) <= Limit
      BY <1>3, <1>4, <1>6, <1>7, OutboxAssumption
<1>9. \A q \in JobRuns : q # r => batch'[q] = batch[q]
      BY <1>1 DEF OutboxTypeOK
<1>10. QED BY <1>2, <1>8, <1>9 DEF OutboxTypeOK

(* SendAwardMessage: for any number of tasks and of overlapping runs, a run   *)
(* never takes more tasks than the limit, however many have failed.         *)
THEOREM BatchWithinLimit == OutboxSpec => []OutboxTypeOK
<1>1. OutboxInit => OutboxTypeOK
  <2> SUFFICES ASSUME OutboxInit PROVE OutboxTypeOK
      OBVIOUS
  <2>1. Cardinality(Tasks) \in Nat
        BY OutboxAssumption, FS_CardinalityType
  <2>2. ASSUME NEW t \in Tasks PROVE Cardinality({u \in Tasks : u < t}) \in 0..Cardinality(Tasks)
    <3>1. PICK B \in SUBSET Tasks : B = {u \in Tasks : u < t}
          OBVIOUS
    <3>2. IsFiniteSet(B) /\ Cardinality(B) <= Cardinality(Tasks) /\ Cardinality(B) \in Nat
          BY OutboxAssumption, FS_Subset, FS_CardinalityType
    <3>3. Cardinality(B) \in 0..Cardinality(Tasks)
          BY <2>1, <3>2
    <3>4. QED BY <3>1, <3>3
  <2>3. rank \in [Tasks -> 0..Cardinality(Tasks)]
        BY <2>2 DEF OutboxInit
  <2>4. \A r \in JobRuns : batch[r] = {}
        BY DEF OutboxInit
  <2>5. \A r \in JobRuns : Cardinality(batch[r]) = 0
        BY <2>4, FS_EmptySet
  <2>6. \A r \in JobRuns : Cardinality(batch[r]) <= Limit
        BY <2>5, OutboxAssumption
  <2>7. /\ poison \subseteq Tasks /\ ripe \subseteq Tasks /\ batch \in [JobRuns -> SUBSET Tasks]
        /\ tstate \in [Tasks -> {"create", "fail", "completed"}]
        BY DEF OutboxInit
  <2>8. QED BY <2>3, <2>6, <2>7 DEF OutboxTypeOK
<1>2. OutboxTypeOK /\ [OutboxNext]_outboxVars => OutboxTypeOK'
  <2> SUFFICES ASSUME OutboxTypeOK, [OutboxNext]_outboxVars PROVE OutboxTypeOK'
      OBVIOUS
  <2>1. ASSUME NEW r \in JobRuns, QueryNoSendMessageTaskList(r) PROVE OutboxTypeOK'
    <3>1. PICK B : B = FailTasks \cup CreateTasks
          OBVIOUS
    <3>2. B \subseteq Tasks /\ Cardinality(B) <= Limit
          BY <3>1, BatchLimit
    <3>3. batch' = [batch EXCEPT ![r] = B] /\ UNCHANGED <<poison, tstate, rank, ripe>>
          BY <2>1, <3>1 DEF QueryNoSendMessageTaskList
    <3>4. batch' \in [JobRuns -> SUBSET Tasks] /\ \A q \in JobRuns : Cardinality(batch'[q]) <= Limit
          BY <3>2, <3>3 DEF OutboxTypeOK
    <3>5. QED BY <3>3, <3>4 DEF OutboxTypeOK
  <2>2. ASSUME NEW r \in JobRuns, NEW t \in Tasks, DispatchSingleTask(r, t) PROVE OutboxTypeOK'
    <3>1. /\ batch' \in [JobRuns -> SUBSET Tasks]
          /\ \A q \in JobRuns : Cardinality(batch'[q]) <= Limit
          BY <2>2, TakenType
          DEF DispatchSingleTask, DispatchCompletes, DispatchFails, DispatchLost
    <3>2. poison' = poison
          BY <2>2 DEF DispatchSingleTask, DispatchCompletes, DispatchFails, DispatchLost
    <3>3. /\ tstate' \in [Tasks -> {"create", "fail", "completed"}]
          /\ rank' \in [Tasks -> 0..Cardinality(Tasks)]
          /\ ripe' \subseteq Tasks
      <4>1. CASE DispatchCompletes(r, t)
            BY <4>1, SetStateType DEF DispatchCompletes
      <4>2. ASSUME NEW second, DispatchFails(r, t, second)
            PROVE  /\ tstate' \in [Tasks -> {"create", "fail", "completed"}]
                   /\ rank' \in [Tasks -> 0..Cardinality(Tasks)]
                   /\ ripe' \subseteq Tasks
            BY <4>2, SetStateType DEF DispatchFails
      <4>3. CASE DispatchLost(r, t)
            BY <4>3 DEF DispatchLost, OutboxTypeOK
      <4>4. QED BY <2>2, <4>1, <4>2, <4>3 DEF DispatchSingleTask
    <3>4. QED BY <3>1, <3>2, <3>3 DEF OutboxTypeOK
  <2>3. ASSUME NEW t \in Tasks, Ripen(t) PROVE OutboxTypeOK'
        BY <2>3 DEF Ripen, OutboxTypeOK
  <2>4. CASE UNCHANGED outboxVars
        BY <2>4 DEF outboxVars, OutboxTypeOK
  <2>5. QED BY <2>1, <2>2, <2>3, <2>4 DEF OutboxNext
<1>3. QED BY <1>1, <1>2, PTL DEF OutboxSpec

-----------------------------------------------------------------------------
(* The database router *)

(* The suffix is one of the tables of all databases. *)
LEMMA SuffixRange ==
    ASSUME NEW db \in Nat \ {0}, NEW tb \in Nat \ {0}, NEW h \in Nat
    PROVE  /\ Suffix(h, db, tb) \in 0..(db * tb - 1)
           /\ h < db * tb => Suffix(h, db, tb) = h
<1>1. PICK n : n = db * tb
      OBVIOUS
<1>2. n \in Nat \ {0}
      BY <1>1
<1>3. h % n \in 0..(n - 1) /\ (h < n => h % n = h)
      BY <1>2
<1>4. QED BY <1>1, <1>3 DEF Suffix

(* The database of a suffix exists, and the suffix is one of its tbCount. *)
LEMMA DatabaseOfSuffix ==
    ASSUME NEW db \in Nat \ {0}, NEW tb \in Nat \ {0}, NEW s \in 0..(db * tb - 1)
    PROVE  /\ DatabaseOf(s, tb) \in 1..db
           /\ s = tb * (DatabaseOf(s, tb) - 1) + (s % tb) /\ s % tb \in 0..(tb - 1)
<1>1. PICK q : q = s \div tb
      OBVIOUS
<1>2. s \in Nat
      OBVIOUS
<1>3. q \in Nat /\ s % tb \in 0..(tb - 1) /\ s = tb * q + (s % tb)
      BY <1>1, <1>2, Division
<1>4. tb * q < db * tb
      BY <1>3
<1>5. q < db
      BY <1>3, <1>4
<1>6. DatabaseOf(s, tb) = q + 1
      BY <1>1 DEF DatabaseOf
<1>7. QED BY <1>3, <1>5, <1>6

(* And conversely. *)
LEMMA SuffixOfDatabase ==
    ASSUME NEW db \in Nat \ {0}, NEW tb \in Nat \ {0}
    PROVE  \A d \in 1..db, i \in 0..(tb - 1), s \in Int :
              s = tb * (d - 1) + i => s \in 0..(db * tb - 1) /\ DatabaseOf(s, tb) = d
<1> SUFFICES ASSUME NEW d \in 1..db, NEW i \in 0..(tb - 1), NEW s \in Int, s = tb * (d - 1) + i
             PROVE  s \in 0..(db * tb - 1) /\ DatabaseOf(s, tb) = d
    OBVIOUS
<1>1. PICK q \in Nat : q = d - 1 /\ q + 1 <= db
      OBVIOUS
<1>2. tb * q + i \in Nat /\ tb * q + i < tb * (q + 1)
      OBVIOUS
<1>3. tb * (q + 1) <= db * tb
      BY <1>1
<1>4. (tb * q + i) \div tb = q
      BY QuotientUnique
<1>5. QED BY <1>1, <1>2, <1>3, <1>4 DEF DatabaseOf

(* DBStrategy: for any number of databases and of tables, every hash finds a *)
(* database that is opened and scanned, no table suffix is in two databases, *)
(* and every database has tbCount of them.                                  *)
THEOREM TablesArePartitioned ==
    ASSUME NEW db \in Nat \ {0}, NEW tb \in Nat \ {0}, NEW H \in SUBSET Nat,
           0..(db * tb - 1) \subseteq H
    PROVE  RoutesPartition(db, tb, H)
<1>1. PICK R : R = {DBStrategy(h, db, tb) : h \in H}
      OBVIOUS
<1>2. \A h \in H : LET s == Suffix(h, db, tb)
                   IN  /\ s \in 0..(db * tb - 1)
                       /\ DBStrategy(h, db, tb) = [db |-> DatabaseOf(s, tb), suffix |-> s]
      BY SuffixRange DEF DBStrategy
<1>3. \A r \in R : /\ r.suffix \in 0..(db * tb - 1) /\ r.db = DatabaseOf(r.suffix, tb)
                   /\ r = [db |-> r.db, suffix |-> r.suffix]
      BY <1>1, <1>2
<1>4. \A s \in 0..(db * tb - 1) : [db |-> DatabaseOf(s, tb), suffix |-> s] \in R
  <2> TAKE s \in 0..(db * tb - 1)
  <2>1. s \in H /\ s \in Nat /\ s < db * tb
        OBVIOUS
  <2>2. Suffix(s, db, tb) = s
        BY <2>1, SuffixRange
  <2>3. QED BY <1>1, <1>2, <2>1, <2>2
<1>5. \A r \in R : r.db \in Databases(db)
      BY <1>3, DatabaseOfSuffix DEF Databases
<1>6. \A r, q \in R : r.suffix = q.suffix => r.db = q.db
      BY <1>3
<1>7. \A d \in 1..db, i \in 0..(tb - 1), s \in Int :
         s = tb * (d - 1) + i => s \in 0..(db * tb - 1) /\ DatabaseOf(s, tb) = d
      BY SuffixOfDatabase
<1>8. ASSUME NEW d \in Databases(db) PROVE Cardinality({r \in R : r.db = d}) = tb
  <2>1. PICK S : S = {r \in R : r.db = d}
        OBVIOUS
  <2> DEFINE f == [i \in 1..tb |-> [db |-> d, suffix |-> tb * (d - 1) + (i - 1)]]
  <2>2. d \in 1..db
        BY DEF Databases
  <2>3. ASSUME NEW i \in 1..tb PROVE f[i] \in S
    <3>1. PICK k \in 0..(tb - 1) : k = i - 1
          OBVIOUS
    <3>2. PICK s \in Int : s = tb * (d - 1) + k
          BY <2>2
    <3>3. s \in 0..(db * tb - 1) /\ DatabaseOf(s, tb) = d
          BY <1>7, <2>2, <3>2, Zenon
    <3>4. [db |-> d, suffix |-> s] \in R
          BY <1>4, <3>3
    <3>5. f[i] = [db |-> d, suffix |-> s]
          BY <3>1, <3>2
    <3>6. QED BY <2>1, <3>4, <3>5
  <2>4. ASSUME NEW i \in 1..tb, NEW j \in 1..tb, f[i] = f[j] PROVE i = j
    <3>1. PICK k \in Int : k = tb * (d - 1)
          BY <2>2
    <3>2. f[i].suffix = k + (i - 1) /\ f[j].suffix = k + (j - 1)
          BY <3>1
    <3>3. k + (i - 1) = k + (j - 1)
          BY <2>4, <3>2
    <3>4. QED BY <3>1, <3>3
  <2>5. ASSUME NEW r \in S PROVE \E i \in 1..tb : f[i] = r
    <3>1. r \in R /\ r.db = d
          BY <2>1
    <3>2. PICK s \in 0..(db * tb - 1) : s = r.suffix /\ DatabaseOf(s, tb) = d
          BY <1>3, <3>1
    <3>3. s = tb * (d - 1) + (s % tb) /\ s % tb \in 0..(tb - 1)
          BY <3>2, DatabaseOfSuffix
    <3>4. PICK m \in 0..(tb - 1) : m = s % tb
          BY <3>3
    <3>5. m + 1 \in 1..tb /\ (m + 1) - 1 = m
          OBVIOUS
    <3>6. f[m + 1] = [db |-> d, suffix |-> s]
          BY <3>3, <3>4, <3>5
    <3>7. r = [db |-> d, suffix |-> s]
          BY <1>3, <3>1, <3>2
    <3>8. QED BY <3>5, <3>6, <3>7
  <2> HIDE DEF f
  <2>6. f \in [1..tb -> S]
    <3>1. f = [i \in 1..tb |-> f[i]]
          BY DEF f
    <3>2. QED BY <2>3, <3>1
  <2>7. f \in Bijection(1..tb, S)
        BY <2>4, <2>5, <2>6 DEF Bijection, Injection, Surjection, IsInjective
  <2>8. ExistsBijection(1..tb, S)
        BY <2>7 DEF ExistsBijection
  <2>9. Cardinality(S) = tb
        BY <2>8, FS_CountingElements
  <2>10. QED BY <2>1, <2>9
<1>9. QED BY <1>1, <1>5, <1>6, <1>8 DEF RoutesPartition

(* The functions are applied to one input for good. *)
InputInv == input \in RateInputs \cup RouterInputs \cup AuthInputs \cup {NoRow}

(* It never changes, and its kind tells what it is. *)
LEMMA InputStays ==
    /\ Spec => []InputInv
    /\ InputInv => /\ Is("rates") => input \in RateInputs
                   /\ Is("router") => input \in RouterInputs
                   /\ Is("auth") => input \in AuthInputs
<1>1. Init => InputInv
      BY DEF Init, InputInv
<1>2. InputInv /\ [Next]_supportVars => InputInv'
      BY DEF Next, Outbox, Dcc, Cdc, supportVars, InputInv
<1>3. /\ \A x \in RateInputs : x.kind = "rates"
      /\ \A x \in RouterInputs : x.kind = "router"
      /\ \A x \in AuthInputs : x.kind = "auth"
  <2>1. \A x \in RateInputs : x.kind = "rates"
        BY DEF RateInputs
  <2>2. \A x \in RouterInputs : x.kind = "router"
        BY DEF RouterInputs
  <2>3. \A x \in AuthInputs : x.kind = "auth"
        BY DEF AuthInputs
  <2>4. QED BY <2>1, <2>2, <2>3
<1>4. InputInv => /\ Is("rates") => input \in RateInputs
                  /\ Is("router") => input \in RouterInputs
                  /\ Is("auth") => input \in AuthInputs
      BY <1>3 DEF InputInv, Is
<1>5. Spec => []InputInv
      BY <1>1, <1>2, PTL DEF Spec
<1>6. QED BY <1>4, <1>5

(* The router on every number of databases and tables that the run takes. *)
THEOREM SampledUsersAreRouted == Spec => []EveryUserIsRouted
<1>1. InputInv => EveryUserIsRouted
  <2> SUFFICES ASSUME InputInv, Is("router")
               PROVE  RoutesPartition(input.dbCount, input.tbCount, 0..25)
      BY DEF EveryUserIsRouted
  <2>1. input.dbCount \in 1..3 /\ input.tbCount \in 1..4
        BY InputStays DEF RouterInputs
  <2>2. input.dbCount * input.tbCount - 1 <= 25
        BY <2>1
  <2>3. 0..(input.dbCount * input.tbCount - 1) \subseteq 0..25
        BY <2>1, <2>2
  <2>4. 0..25 \in SUBSET Nat
        OBVIOUS
  <2>5. QED BY <2>1, <2>3, <2>4, TablesArePartitioned
<1>2. QED BY <1>1, InputStays, PTL

-----------------------------------------------------------------------------
(* The shares of a pool, for any finite set of awards and any set of rates *)

(* The inputs of assembleLotteryStrategyWithAwards are rates of the awards. *)
LEMMA RatesAreRated ==
    ASSUME InputInv, Is("rates")
    PROVE  Rated(input.rates, Awards)
<1>1. PICK r \in [Awards -> Rates] : input = [kind |-> "rates", rates |-> r]
      BY InputStays DEF RateInputs
<1>2. QED BY <1>1, RatesAssumption DEF Rated

(* Rates that sum to one are drawn with exactly their probability. *)
THEOREM RatesAreExact == Spec => []NormalisedIsExact
<1>1. InputInv => NormalisedIsExact
      BY RatesAreRated, PoolIsExact DEF NormalisedIsExact
<1>2. QED BY <1>1, InputStays, PTL

(* Any rates are drawn with the nearest probability. *)
THEOREM RatesAreNearest == Spec => []CountIsNearest
<1>1. InputInv => CountIsNearest
      BY RatesAreRated, PoolIsNearest DEF CountIsNearest
<1>2. QED BY <1>1, InputStays, PTL

-----------------------------------------------------------------------------
(* The authentication middleware *)

(* What a credential, a source's options, a request and the options may be. *)
CredentialRec(Text) ==
    [present : BOOLEAN, good : BOOLEAN, prefixed : BOOLEAN, user : Text, claims : Seq(Text),
     device : Text, issuer : Text, audience : SUBSET Text, exp : Int]
RequestRec(Text) ==
    [operation : Text, http : BOOLEAN, device : Text, gateway : CredentialRec(Text),
     bearer : CredentialRec(Text), jwtCookie : CredentialRec(Text), sessionHeader : CredentialRec(Text),
     sessionCookie : CredentialRec(Text)]
SourceRec(Text) ==
    [enabled : BOOLEAN, hasKey : BOOLEAN, cookies : BOOLEAN, issuer : Text,
     audience : SUBSET Text, requireExpires : BOOLEAN, requireDevice : BOOLEAN, skew : Int]
OptionsRec(Text) ==
    [sources : Seq(Text), skip : SUBSET Text, now : Int, gateway : SourceRec(Text),
     jwt : SourceRec(Text), session : SourceRec(Text)]

(* withDefaults, field by field. *)
LEMMA DefaultsFields ==
    ASSUME NEW Text, NEW opts \in OptionsRec(Text)
    PROVE  LET o == AuthDefaults(opts)
           IN  /\ o.now = opts.now /\ o.jwt = opts.jwt
               /\ o.gateway.enabled = opts.gateway.enabled
               /\ o.session.enabled = opts.session.enabled
               /\ o.session.cookies = opts.session.cookies
               /\ o.gateway.requireExpires /\ o.gateway.requireDevice
               /\ o.session.requireExpires /\ o.session.requireDevice
               /\ o.gateway.skew = (IF opts.gateway.skew > 0 THEN opts.gateway.skew
                                    ELSE DefaultClockSkew)
               /\ o.session.skew = (IF opts.session.skew > 0 THEN opts.session.skew
                                    ELSE DefaultClockSkew)
               /\ Len(o.sources) \in Nat /\ DOMAIN o.sources = 1..Len(o.sources)
<1> DEFINE o == AuthDefaults(opts)
<1>1. /\ o.now = opts.now /\ o.jwt = opts.jwt
      /\ o.gateway = StrictDefaults(opts.gateway) /\ o.session = StrictDefaults(opts.session)
      BY DEF AuthDefaults, OptionsRec
<1>2. ASSUME NEW s \in SourceRec(Text)
      PROVE  /\ StrictDefaults(s).enabled = s.enabled /\ StrictDefaults(s).cookies = s.cookies
             /\ StrictDefaults(s).requireExpires /\ StrictDefaults(s).requireDevice
             /\ StrictDefaults(s).skew = IF s.skew > 0 THEN s.skew ELSE DefaultClockSkew
      BY DEF StrictDefaults, SourceRec
<1>3. Len(o.sources) \in Nat /\ DOMAIN o.sources = 1..Len(o.sources)
  <2>1. o.sources = IF opts.sources = <<>> THEN <<"gateway", "jwt", "session">> ELSE opts.sources
        BY DEF AuthDefaults, OptionsRec
  <2>2. LET d == <<"gateway", "jwt", "session">> IN Len(d) \in Nat /\ DOMAIN d = 1..Len(d)
        OBVIOUS
  <2>3. opts.sources \in Seq(Text)
        BY DEF OptionsRec
  <2>4. Len(opts.sources) \in Nat /\ DOMAIN opts.sources = 1..Len(opts.sources)
        BY <2>3
  <2> HIDE DEF o
  <2>5. QED BY <2>1, <2>2, <2>4
<1>4. opts.gateway \in SourceRec(Text) /\ opts.session \in SourceRec(Text)
      BY DEF OptionsRec
<1> HIDE DEF o
<1>5. QED BY <1>1, <1>2, <1>3, <1>4 DEF o

(* An accepted credential, field by field. *)
LEMMA AcceptedFields ==
    ASSUME NEW source, NEW user, NEW device, NEW exp,
           NEW v, v = Accepted(source, user, device, exp)
    PROVE  /\ v.source = source /\ v.user = user /\ v.device = device /\ v.exp = exp
           /\ v.ok /\ v.attempted
BY DEF Accepted

(* What the sources check is what binds. *)
LEMMA AcceptedBinds ==
    ASSUME NEW opts, NEW req, NEW source, NEW user, user # "",
           NEW device, device # "", device = req.device, NEW exp \in Int,
           exp = 0 => source = "jwt" /\ ~opts.jwt.requireExpires,
           exp # 0 => opts.now < exp + LeewayOf(opts, source)
    PROVE  BoundTo(Accepted(source, user, device, exp), req, opts)
<1>1. PICK v : v = Accepted(source, user, device, exp)
      BY Zenon
<1>2. v.source = source /\ v.user = user /\ v.device = device /\ v.exp = exp
      BY ONLY <1>1, AcceptedFields
<1>3. BoundTo(v, req, opts)
      BY <1>2, Zenon DEF BoundTo
<1>4. QED BY <1>1, <1>3, Zenon

(* Wherever a credential comes from, its expiry is a time. *)
LEMMA ExtractedExpiry ==
    ASSUME NEW Text, NEW req \in RequestRec(Text), NEW o
    PROVE  ExtractJWTToken(req, o).exp \in Int /\ ExtractSessionID(req, o).exp \in Int
<1>1. Absent.exp \in Int /\ Garbled.exp \in Int
      BY DEF Absent, Garbled
<1>2. /\ req.bearer.exp \in Int /\ req.jwtCookie.exp \in Int
      /\ req.sessionHeader.exp \in Int /\ req.sessionCookie.exp \in Int
      BY DEF RequestRec, CredentialRec
<1>3. QED BY <1>1, <1>2 DEF ExtractJWTToken, ExtractSessionID, Cookie

(* authenticateGateway: the signed user, on the device of the request. *)
LEMMA GatewayBinds ==
    ASSUME NEW Text, NEW opts \in OptionsRec(Text), NEW req \in RequestRec(Text),
           AuthenticateGateway(req, AuthDefaults(opts)).ok
    PROVE  BoundTo(AuthenticateGateway(req, AuthDefaults(opts)), req, opts)
<1>1. PICK o : o = AuthDefaults(opts)
      OBVIOUS
<1>2. PICK c : c = req.gateway
      OBVIOUS
<1>3. /\ o.gateway.requireExpires /\ o.gateway.requireDevice /\ o.now = opts.now
      /\ o.gateway.skew = (IF opts.gateway.skew > 0 THEN opts.gateway.skew
                           ELSE DefaultClockSkew)
      BY <1>1, DefaultsFields
<1>4. /\ AuthenticateGateway(req, o) = Accepted("gateway", c.user, req.device, c.exp)
      /\ c.user # "" /\ req.device # ""
      /\ ValidateExpiration(c.exp, o.gateway.requireExpires, o.gateway.skew, o.now)
      BY <1>1, <1>2, <1>3 DEF AuthenticateGateway, NotAttempted, Refused
<1>5. c.exp \in Int /\ opts.now \in Int /\ opts.gateway.skew \in Int
      BY <1>2 DEF RequestRec, CredentialRec, OptionsRec, SourceRec
<1>6. o.gateway.skew \in Int
      BY <1>3, <1>5, ClockSkewAssumption
<1>7. c.exp # 0 /\ opts.now < c.exp + o.gateway.skew
  <2>1. c.exp # 0 /\ c.exp > opts.now - o.gateway.skew
        BY <1>3, <1>4 DEF ValidateExpiration
  <2>2. QED BY <1>5, <1>6, <2>1
<1>a. o.gateway.skew = LeewayOf(opts, "gateway")
      BY <1>3 DEF LeewayOf
<1>8. BoundTo(Accepted("gateway", c.user, req.device, c.exp), req, opts)
      BY <1>4, <1>5, <1>7, <1>a, AcceptedBinds
<1>9. QED BY <1>1, <1>4, <1>8

(* authenticateJWT: the first user claim, on the device of the token. *)
LEMMA JWTBinds ==
    ASSUME NEW Text, NEW opts \in OptionsRec(Text), NEW req \in RequestRec(Text),
           AuthenticateJWT(req, AuthDefaults(opts)).ok
    PROVE  BoundTo(AuthenticateJWT(req, AuthDefaults(opts)), req, opts)
<1>1. PICK o : o = AuthDefaults(opts)
      OBVIOUS
<1>2. PICK c : c = ExtractJWTToken(req, o.jwt)
      OBVIOUS
<1>3. o.now = opts.now /\ o.jwt = opts.jwt
      BY <1>1, DefaultsFields
<1>4. PICK user : user = ExtractUserIDClaim(c.claims)
      OBVIOUS
<1>5. /\ AuthenticateJWT(req, o) = Accepted("jwt", user, c.device, c.exp)
      /\ user # "" /\ c.device # "" /\ ValidateDeviceHeader(req, c.device)
      /\ ValidateExpiration(c.exp, o.jwt.requireExpires, o.jwt.skew, o.now)
      BY <1>1, <1>2, <1>4 DEF AuthenticateJWT, NotAttempted, Refused
<1>6. c.exp \in Int /\ opts.now \in Int /\ opts.jwt.skew \in Int
      BY <1>2, ExtractedExpiry DEF OptionsRec, SourceRec
<1>7. /\ c.exp # 0 => opts.now < c.exp + opts.jwt.skew
      /\ c.exp = 0 => ~opts.jwt.requireExpires
  <2>1. /\ c.exp # 0 => c.exp > opts.now - opts.jwt.skew
        /\ c.exp = 0 => ~opts.jwt.requireExpires
        BY <1>3, <1>5 DEF ValidateExpiration
  <2>2. QED BY <1>6, <2>1
<1>a. opts.jwt.skew = LeewayOf(opts, "jwt")
      BY DEF LeewayOf
<1>8. c.device = req.device
      BY <1>5 DEF ValidateDeviceHeader
<1>9. BoundTo(Accepted("jwt", user, c.device, c.exp), req, opts)
      BY <1>5, <1>6, <1>7, <1>8, <1>a, AcceptedBinds
<1>10. QED BY <1>1, <1>5, <1>9

(* authenticateSession: the user of the session, on the session's device. *)
LEMMA SessionBinds ==
    ASSUME NEW Text, NEW opts \in OptionsRec(Text), NEW req \in RequestRec(Text),
           AuthenticateSession(req, AuthDefaults(opts)).ok
    PROVE  BoundTo(AuthenticateSession(req, AuthDefaults(opts)), req, opts)
<1>1. PICK o : o = AuthDefaults(opts)
      OBVIOUS
<1>2. PICK c : c = ExtractSessionID(req, o.session)
      OBVIOUS
<1>3. /\ o.session.requireExpires /\ o.session.requireDevice /\ o.now = opts.now
      /\ o.session.skew = (IF opts.session.skew > 0 THEN opts.session.skew
                           ELSE DefaultClockSkew)
      BY <1>1, DefaultsFields
<1>4. /\ AuthenticateSession(req, o) = Accepted("session", c.user, c.device, c.exp)
      /\ c.user # "" /\ c.device # "" /\ ValidateOptionalDeviceHeader(req, c.device)
      /\ ValidateExpiration(c.exp, o.session.requireExpires, o.session.skew, o.now)
      BY <1>1, <1>2, <1>3 DEF AuthenticateSession, NotAttempted, Refused
<1>5. c.exp \in Int /\ opts.now \in Int /\ opts.session.skew \in Int
      BY <1>2, ExtractedExpiry DEF OptionsRec, SourceRec
<1>6. o.session.skew \in Int
      BY <1>3, <1>5, ClockSkewAssumption
<1>7. c.exp # 0 /\ opts.now < c.exp + o.session.skew
  <2>1. c.exp # 0 /\ c.exp > opts.now - o.session.skew
        BY <1>3, <1>4 DEF ValidateExpiration
  <2>2. QED BY <1>5, <1>6, <2>1
<1>a. o.session.skew = LeewayOf(opts, "session")
      BY <1>3 DEF LeewayOf
<1>8. c.device = req.device
      BY <1>4 DEF ValidateOptionalDeviceHeader, ValidateDeviceHeader
<1>9. BoundTo(Accepted("session", c.user, c.device, c.exp), req, opts)
      BY <1>4, <1>5, <1>7, <1>8, <1>a, AcceptedBinds
<1>10. QED BY <1>1, <1>4, <1>9

(* AuthMiddleware: whatever the options leave out, the user a handler sees   *)
(* was vouched for on the device that sends the request, by a credential     *)
(* that has not expired.                                                    *)
THEOREM UsersAreBound ==
    ASSUME NEW Text, NEW opts \in OptionsRec(Text), NEW req \in RequestRec(Text)
    PROVE  IdentityIsBound(req, opts)
<1>1. PICK v : v = Authenticate(req, AuthDefaults(opts))
      OBVIOUS
<1>2. SUFFICES ASSUME req.operation \notin opts.skip, v.ok
               PROVE  BoundTo(v, req, opts)
  <2>1. PICK h : h = Handle(req, opts)
        OBVIOUS
  <2>2. req.operation \notin opts.skip => h.handled = v.ok /\ h.info = v
        BY <1>1, <2>1 DEF Handle
  <2>3. QED BY <2>1, <2>2 DEF IdentityIsBound
<1>3. PICK s : v = Verdict(s, req, AuthDefaults(opts))
      BY <1>1, <1>2 DEF Authenticate, NotAttempted
<1>4. QED BY <1>2, <1>3, GatewayBinds, JWTBinds, SessionBinds DEF Verdict, NotAttempted

(* A request with the credentials of one source alone, field by field. *)
LEMMA OnlyFields ==
    ASSUME NEW Text, NEW req \in RequestRec(Text), NEW source, NEW r, r = Only(req, source)
    PROVE  /\ r.operation = req.operation /\ r.http = req.http /\ r.device = req.device
           /\ r.gateway = IF source = "gateway" THEN req.gateway ELSE Absent
           /\ r.bearer = IF source = "jwt" THEN req.bearer ELSE Absent
           /\ r.jwtCookie = IF source = "jwt" THEN req.jwtCookie ELSE Absent
           /\ r.sessionHeader = IF source = "session" THEN req.sessionHeader ELSE Absent
           /\ r.sessionCookie = IF source = "session" THEN req.sessionCookie ELSE Absent
BY DEF Only, RequestRec

(* A source looks at its own credentials and at the device only. *)
LEMMA VerdictOfOwn ==
    ASSUME NEW Text, NEW req \in RequestRec(Text), NEW source \in {"gateway", "jwt", "session"}, NEW o,
           NEW r, r = Only(req, source)
    PROVE  Verdict(source, r, o) = Verdict(source, req, o)
<1>1. r.http = req.http /\ r.device = req.device
      BY OnlyFields
<1>2. CASE source = "gateway"
  <2>1. r.gateway = req.gateway
        BY <1>2, OnlyFields
  <2>2. AuthenticateGateway(r, o) = AuthenticateGateway(req, o)
        BY <1>1, <2>1 DEF AuthenticateGateway
  <2>3. QED BY <1>2, <2>2 DEF Verdict
<1>3. CASE source = "jwt"
  <2>1. r.bearer = req.bearer /\ r.jwtCookie = req.jwtCookie
        BY <1>3, OnlyFields
  <2>2. ExtractJWTToken(r, o.jwt) = ExtractJWTToken(req, o.jwt)
        BY <1>1, <2>1 DEF ExtractJWTToken, Cookie
  <2>3. AuthenticateJWT(r, o) = AuthenticateJWT(req, o)
        BY <1>1, <2>2 DEF AuthenticateJWT, ValidateDeviceHeader
  <2>4. QED BY <1>3, <2>3 DEF Verdict
<1>4. CASE source = "session"
  <2>1. r.sessionHeader = req.sessionHeader /\ r.sessionCookie = req.sessionCookie
        BY <1>4, OnlyFields
  <2>2. ExtractSessionID(r, o.session) = ExtractSessionID(req, o.session)
        BY <1>1, <2>1 DEF ExtractSessionID, Cookie
  <2>3. AuthenticateSession(r, o) = AuthenticateSession(req, o)
        BY <1>1, <2>2 DEF AuthenticateSession, ValidateOptionalDeviceHeader, ValidateDeviceHeader
  <2>4. QED BY <1>4, <2>3 DEF Verdict
<1>5. QED BY <1>2, <1>3, <1>4

(* A source is tried when it is enabled and the request has its credential. *)
LEMMA TriedIsPresent ==
    ASSUME NEW Text, NEW opts \in OptionsRec(Text), NEW req, NEW s
    PROVE  Decides(Verdict(s, req, AuthDefaults(opts))) <=> Presents(req, opts, s)
<1>1. PICK o : o = AuthDefaults(opts)
      OBVIOUS
<1>2. /\ o.jwt = opts.jwt /\ o.gateway.enabled = opts.gateway.enabled
      /\ o.session.enabled = opts.session.enabled /\ o.session.cookies = opts.session.cookies
      BY <1>1, DefaultsFields
<1>3. ExtractSessionID(req, o.session) = ExtractSessionID(req, opts.session)
      BY <1>2 DEF ExtractSessionID, Cookie
<1>4. AuthenticateGateway(req, o).attempted <=> opts.gateway.enabled /\ req.gateway.present
      BY <1>2 DEF AuthenticateGateway, NotAttempted, Refused, Accepted
<1>5. AuthenticateJWT(req, o).attempted
         <=> opts.jwt.enabled /\ ExtractJWTToken(req, opts.jwt).present
      BY <1>2 DEF AuthenticateJWT, NotAttempted, Refused, Accepted
<1>6. AuthenticateSession(req, o).attempted
         <=> opts.session.enabled /\ ExtractSessionID(req, opts.session).present
      BY <1>2, <1>3 DEF AuthenticateSession, NotAttempted, Refused, Accepted
<1>7. Verdict(s, req, o).attempted <=> Presents(req, opts, s)
      BY <1>4, <1>5, <1>6 DEF Verdict, Presents, NotAttempted
<1>8. QED BY <1>1, <1>7 DEF Decides

(* Without their credentials the other sources are not tried. *)
LEMMA OthersAbsent ==
    ASSUME NEW Text, NEW opts, NEW req \in RequestRec(Text), NEW source, NEW r, r = Only(req, source), NEW s,
           Presents(r, opts, s)
    PROVE  s = source
<1>1. ~Absent.present
      BY DEF Absent
<1>2. source # "gateway" => ~r.gateway.present
      BY <1>1, OnlyFields
<1>3. source # "jwt" => ~ExtractJWTToken(r, opts.jwt).present
      BY <1>1, OnlyFields DEF ExtractJWTToken, Cookie
<1>4. source # "session" => ~ExtractSessionID(r, opts.session).present
      BY <1>1, OnlyFields DEF ExtractSessionID, Cookie
<1>5. QED BY <1>2, <1>3, <1>4 DEF Presents

(* An accepted verdict names the source that gave it. *)
LEMMA VerdictNamesSource ==
    ASSUME NEW s, NEW req, NEW o, NEW v, v = Verdict(s, req, o), v.ok
    PROVE  v.source = s /\ s \in {"gateway", "jwt", "session"} /\ v.attempted
<1>1. ~NotAttempted.ok /\ ~Refused.ok
      BY DEF NotAttempted, Refused
<1>2. CASE s = "gateway"
  <2>1. v = AuthenticateGateway(req, o)
        BY <1>2 DEF Verdict
  <2>2. PICK u, d, e : v = Accepted("gateway", u, d, e)
        BY <1>1, <2>1 DEF AuthenticateGateway
  <2>3. QED BY <1>2, <2>2, AcceptedFields
<1>3. CASE s = "jwt"
  <2>1. v = AuthenticateJWT(req, o)
        BY <1>3 DEF Verdict
  <2>2. PICK u, d, e : v = Accepted("jwt", u, d, e)
        BY <1>1, <2>1 DEF AuthenticateJWT
  <2>3. QED BY <1>3, <2>2, AcceptedFields
<1>4. CASE s = "session"
  <2>1. v = AuthenticateSession(req, o)
        BY <1>4 DEF Verdict
  <2>2. PICK u, d, e : v = Accepted("session", u, d, e)
        BY <1>1, <2>1 DEF AuthenticateSession
  <2>3. QED BY <1>4, <2>2, AcceptedFields
<1>5. QED BY <1>1, <1>2, <1>3, <1>4 DEF Verdict

(* authenticate: the verdict is that of the first source that is tried. *)
LEMMA FirstDecides ==
    ASSUME NEW req, NEW o, DOMAIN o.sources \subseteq Nat
    PROVE  \/ /\ \A i \in DOMAIN o.sources : ~Decides(Verdict(o.sources[i], req, o))
              /\ Authenticate(req, o) = NotAttempted
           \/ \E j \in DOMAIN o.sources :
                 /\ Decides(Verdict(o.sources[j], req, o))
                 /\ \A i \in DOMAIN o.sources :
                       i < j => ~Decides(Verdict(o.sources[i], req, o))
                 /\ Authenticate(req, o) = Verdict(o.sources[j], req, o)
<1> DEFINE Deciding == {i \in DOMAIN o.sources : Decides(Verdict(o.sources[i], req, o))}
<1>1. Authenticate(req, o) =
         IF Deciding = {} THEN NotAttempted
         ELSE Verdict(o.sources[CHOOSE i \in Deciding : \A j \in Deciding : i <= j], req, o)
      BY DEF Authenticate
<1>2. CASE Deciding = {}
      BY <1>1, <1>2
<1>3. CASE Deciding # {}
  <2>1. Deciding \in SUBSET Nat
        OBVIOUS
  <2>2. \E i \in Deciding : \A j \in Deciding : i <= j
        BY <1>3, <2>1, LeastExists
  <2>3. PICK m : m = CHOOSE i \in Deciding : \A j \in Deciding : i <= j
        OBVIOUS
  <2>4. m \in Deciding /\ \A j \in Deciding : m <= j
        BY <2>2, <2>3
  <2>5. Authenticate(req, o) = Verdict(o.sources[m], req, o)
        BY <1>1, <1>3, <2>3
  <2>6. \A i \in DOMAIN o.sources : i < m => i \notin Deciding
        BY <2>1, <2>4
  <2>7. QED BY <2>4, <2>5, <2>6
<1>4. QED BY <1>2, <1>3

(* AuthMiddleware: the identity of a request comes from one source alone, the *)
(* first of the configured ones that the request has a credential for.      *)
THEOREM OneSourceAlone ==
    ASSUME NEW Text, NEW opts \in OptionsRec(Text), NEW req \in RequestRec(Text)
    PROVE  OneSourceDecides(req, opts)
<1>1. PICK o : o = AuthDefaults(opts)
      OBVIOUS
<1>2. DOMAIN o.sources \subseteq Nat
      BY <1>1, DefaultsFields
<1>3. PICK h : h = Handle(req, opts)
      OBVIOUS
<1>4. SUFFICES ASSUME h.info.ok
               PROVE  /\ Handle(Only(req, h.info.source), opts) = h
                      /\ \E j \in DOMAIN o.sources :
                            /\ o.sources[j] = h.info.source
                            /\ \A i \in 1..(j - 1) : ~Presents(req, opts, o.sources[i])
      BY <1>1, <1>3 DEF OneSourceDecides
<1>5. PICK v : v = Authenticate(req, o)
      OBVIOUS
<1>6. req.operation \notin opts.skip /\ h = [handled |-> v.ok, info |-> v] /\ h.info = v
      BY <1>1, <1>3, <1>4, <1>5 DEF Handle, NotAttempted
<1>7. v.ok
      BY <1>4, <1>6
<1>8. PICK j \in DOMAIN o.sources :
         /\ \A i \in DOMAIN o.sources : i < j => ~Decides(Verdict(o.sources[i], req, o))
         /\ v = Verdict(o.sources[j], req, o)
      BY <1>2, <1>5, <1>7, FirstDecides DEF NotAttempted
<1>9. v.source = o.sources[j] /\ v.source \in {"gateway", "jwt", "session"} /\ v.attempted
      BY <1>7, <1>8, VerdictNamesSource
<1>10. \A i \in 1..(j - 1) : i \in DOMAIN o.sources /\ i < j
  <2>1. DOMAIN o.sources = 1..Len(o.sources) /\ Len(o.sources) \in Nat
        BY <1>1, DefaultsFields
  <2>2. QED BY <2>1
<1>11. \A i \in 1..(j - 1) : ~Presents(req, opts, o.sources[i])
      BY <1>1, <1>8, <1>10, TriedIsPresent
<1>12. PICK r : r = Only(req, v.source)
      OBVIOUS
<1>13. Verdict(v.source, r, o) = v
      BY <1>8, <1>9, <1>12, VerdictOfOwn
<1>14. \A i \in DOMAIN o.sources : Decides(Verdict(o.sources[i], r, o)) => o.sources[i] = v.source
      BY <1>1, <1>12, TriedIsPresent, OthersAbsent
<1>15. Decides(Verdict(o.sources[j], r, o))
      BY <1>9, <1>13 DEF Decides
<1>16. Authenticate(r, o) = v
      BY <1>2, <1>13, <1>14, <1>15, FirstDecides
<1>17. r.operation = req.operation
      BY <1>12, OnlyFields
<1>18. Handle(r, opts) = h
      BY <1>1, <1>6, <1>16, <1>17 DEF Handle
<1>19. QED BY <1>6, <1>9, <1>11, <1>12, <1>18

(* The words that the requests and options which are tried are made of. *)
Words == {"", "Draw", "Health", "d1", "d2", "iss", "app", "ug", "uj", "us", "uid", "sub",
          "cookie", "gateway", "jwt", "session"}

(* Sequences of words. *)
LEMMA WordSequences ==
    ASSUME NEW W
    PROVE  /\ <<>> \in Seq(W)
           /\ \A x, y \in W : <<x, y>> \in Seq(W)
           /\ \A x, y, z \in W : <<x, y, z>> \in Seq(W)
OBVIOUS

(* A record of the fields of a credential is one. *)
LEMMA IsCredential ==
    ASSUME NEW W, NEW present \in BOOLEAN, NEW good \in BOOLEAN, NEW prefixed \in BOOLEAN,
           NEW user \in W, NEW claims \in Seq(W), NEW device \in W, NEW issuer \in W,
           NEW audience \in SUBSET W, NEW exp \in Int
    PROVE  [present |-> present, good |-> good, prefixed |-> prefixed, user |-> user,
            claims |-> claims, device |-> device, issuer |-> issuer, audience |-> audience,
            exp |-> exp] \in CredentialRec(W)
BY DEF CredentialRec

(* The credentials that are tried. *)
LEMMA CredentialsAreRecords ==
    /\ \A u \in Words : Fine(u) \in CredentialRec(Words)
    /\ \A u \in Words : Credentials(u) \subseteq CredentialRec(Words)
    /\ \A u \in Words : Few(u) \subseteq CredentialRec(Words)
    /\ Absent \in CredentialRec(Words) /\ Garbled \in CredentialRec(Words)
    /\ [Fine("uj") EXCEPT !.prefixed = FALSE] \in CredentialRec(Words)
<1>1. PICK W : W = Words
      OBVIOUS
<1>2. /\ "" \in W /\ "d1" \in W /\ "d2" \in W /\ "iss" \in W /\ "app" \in W
      /\ "uj" \in W /\ "uid" \in W /\ "sub" \in W /\ {"app"} \in SUBSET W
      BY <1>1 DEF Words
<1>3. <<>> \in Seq(W) /\ \A x \in W : <<"", x, "">> \in Seq(W) /\ <<x, "uid", "sub">> \in Seq(W)
      BY <1>2, WordSequences
<1>4. TRUE \in BOOLEAN /\ FALSE \in BOOLEAN
      OBVIOUS
<1>5. {} \in SUBSET W
      OBVIOUS
<1>6. 0 \in Int /\ Now \in Int /\ Now - 1 \in Int /\ Now + 1 \in Int /\ Now + 4 \in Int
      BY DEF Now
<1> DEFINE C == CredentialRec(W)
<1>7. ASSUME NEW u \in W PROVE Fine(u) \in C
      BY <1>2, <1>3, <1>4, <1>6, IsCredential, Zenon DEF Fine
<1>8. ASSUME NEW g \in BOOLEAN, NEW x \in W, NEW d \in W, NEW i \in W, NEW t \in Int
      PROVE  Credential(g, x, d, i, t) \in C
  <2>1. PICK a \in SUBSET W : a = IF i = "" THEN {} ELSE {"app"}
        BY <1>2, <1>5
  <2>2. PICK s \in Seq(W) : s = <<"", x, "">>
        BY <1>3
  <2>3. PICK yes \in BOOLEAN : yes = TRUE
        OBVIOUS
  <2>4. Credential(g, x, d, i, t) =
           [present |-> yes, good |-> g, prefixed |-> yes, user |-> x, claims |-> s, device |-> d,
            issuer |-> i, audience |-> a, exp |-> t]
        BY <2>1, <2>2, <2>3, Zenon DEF Credential
  <2>5. QED BY <2>4, IsCredential
<1>9. ASSUME NEW u \in W PROVE Credentials(u) \subseteq C
  <2> DEFINE All(X, D, I, T) ==
               {Credential(g, x, d, i, t) : g \in BOOLEAN, x \in X, d \in D, i \in I, t \in T}
  <2> HIDE DEF C
  <2>1. ASSUME NEW X \in SUBSET W, NEW D \in SUBSET W, NEW I \in SUBSET W, NEW T \in SUBSET Int
        PROVE  All(X, D, I, T) \subseteq C
    <3>1. \A g \in BOOLEAN, x \in X, d \in D, i \in I, t \in T : Credential(g, x, d, i, t) \in C
          BY <1>8
    <3>2. QED BY <3>1
  <2>2. Credentials(u) = All({"", u}, {"", "d1", "d2"}, {"", "iss"}, {0, Now - 1, Now, Now + 1})
        BY DEF Credentials
  <2>3. PICK X \in SUBSET W : X = {"", u}
        BY <1>2, Zenon
  <2>4. PICK D \in SUBSET W : D = {"", "d1", "d2"}
        BY <1>2, Zenon
  <2>5. PICK I \in SUBSET W : I = {"", "iss"}
        BY <1>2, Zenon
  <2>6. PICK T \in SUBSET Int : T = {0, Now - 1, Now, Now + 1}
        BY <1>6
  <2> HIDE DEF All
  <2>7. Credentials(u) = All(X, D, I, T)
        BY <2>2, <2>3, <2>4, <2>5, <2>6, Zenon
  <2>8. QED BY <2>1, <2>7
<1>10. Absent \in C
      BY <1>2, <1>3, <1>4, <1>5, <1>6, IsCredential, Zenon DEF Absent
<1>11. ASSUME NEW c \in C
      PROVE  /\ [c EXCEPT !.present = TRUE] \in C /\ [c EXCEPT !.good = FALSE] \in C
             /\ [c EXCEPT !.prefixed = FALSE] \in C
      BY DEF CredentialRec
<1> HIDE DEF C
<1>12. Garbled \in C
      BY <1>10, <1>11 DEF Garbled
<1>13. \A u \in W : Few(u) \subseteq C
      BY <1>7, <1>10, <1>11 DEF Few
<1>14. [Fine("uj") EXCEPT !.prefixed = FALSE] \in C
      BY <1>2, <1>7, <1>11
<1>15. QED BY <1>1, <1>7, <1>9, <1>10, <1>12, <1>13, <1>14 DEF C

(* The requests that are tried. *)
LEMMA RequestsAreRecords ==
    ASSUME NEW d \in Words, NEW cookie \in BOOLEAN
    PROVE  Requests(d, cookie) \subseteq RequestRec(Words)
<1> DEFINE C == CredentialRec(Words)
<1>1. /\ "Draw" \in Words /\ "d1" \in Words /\ "ug" \in Words /\ "uj" \in Words
      /\ "us" \in Words /\ "cookie" \in Words
      BY DEF Words
<1>2. ASSUME NEW g \in C, NEW j \in C, NEW s \in C
      PROVE  Request(g, j, s, d, cookie) \in RequestRec(Words)
  <2>1. PICK b : b = IF cookie THEN Absent ELSE j
        OBVIOUS
  <2>2. PICK c : c = IF cookie THEN j ELSE Fine("cookie")
        OBVIOUS
  <2>3. PICK h : h = IF cookie THEN Absent ELSE s
        OBVIOUS
  <2>4. PICK k : k = IF cookie THEN s ELSE Absent
        OBVIOUS
  <2>5. b \in C /\ c \in C /\ h \in C /\ k \in C
        BY <1>1, <2>1, <2>2, <2>3, <2>4, CredentialsAreRecords
  <2>6. PICK draw \in Words : draw = "Draw"
        BY <1>1
  <2>7. PICK yes \in BOOLEAN : yes = TRUE
        OBVIOUS
  <2>8. Request(g, j, s, d, cookie) =
           [operation |-> draw, http |-> yes, device |-> d, gateway |-> g, bearer |-> b,
            jwtCookie |-> c, sessionHeader |-> h, sessionCookie |-> k]
        BY <2>1, <2>2, <2>3, <2>4, <2>6, <2>7, Zenon DEF Request
  <2>9. QED BY <2>5, <2>8 DEF RequestRec
<1> HIDE DEF C
<1>3. PICK G \in SUBSET C : G = Credentials("ug")
      BY <1>1, CredentialsAreRecords DEF C
<1>4. PICK J \in SUBSET C :
         J = Credentials("uj") \cup {Garbled, [Fine("uj") EXCEPT !.prefixed = FALSE]}
      BY <1>1, CredentialsAreRecords DEF C
<1>5. PICK S \in SUBSET C : S = Credentials("us")
      BY <1>1, CredentialsAreRecords DEF C
<1>6. PICK FG \in SUBSET C : FG = Few("ug")
      BY <1>1, CredentialsAreRecords DEF C
<1>7. PICK FJ \in SUBSET C : FJ = Few("uj")
      BY <1>1, CredentialsAreRecords DEF C
<1>8. PICK FS \in SUBSET C : FS = Few("us")
      BY <1>1, CredentialsAreRecords DEF C
<1> DEFINE All(A, B, D) == {Request(g, j, s, d, cookie) : g \in A, j \in B, s \in D}
<1>9. ASSUME NEW A \in SUBSET C, NEW B \in SUBSET C, NEW D \in SUBSET C
      PROVE  All(A, B, D) \subseteq RequestRec(Words)
      BY <1>2
<1>10. Requests(d, cookie) = All(G, FJ, FS) \cup All(FG, J, FS) \cup All(FG, FJ, S)
      BY <1>3, <1>4, <1>5, <1>6, <1>7, <1>8 DEF Requests
<1> HIDE DEF All
<1>11. QED BY <1>9, <1>10

(* The options that are tried. *)
LEMMA OptionsAreRecords == OptionSets \subseteq OptionsRec(Words)
<1>1. PICK W : W = Words
      OBVIOUS
<1>2. /\ "" \in W /\ "iss" \in W /\ "app" \in W /\ "Health" \in W
      /\ "session" \in W /\ "jwt" \in W /\ "gateway" \in W
      BY <1>1 DEF Words
<1>3. ASSUME NEW i \in W, NEW b \in BOOLEAN, NEW k \in Int
      PROVE  Source(i, b, k) \in SourceRec(W)
  <2>1. PICK a \in SUBSET W : a = IF i = "" THEN {} ELSE {"app"}
        BY <1>2
  <2>2. PICK yes \in BOOLEAN : yes = TRUE
        OBVIOUS
  <2>3. Source(i, b, k) = [enabled |-> yes, hasKey |-> yes, cookies |-> yes, issuer |-> i,
                           audience |-> a, requireExpires |-> b, requireDevice |-> b, skew |-> k]
        BY <2>1, <2>2, Zenon DEF Source
  <2>4. QED BY <2>3 DEF SourceRec
<1>4. /\ <<>> \in Seq(W) /\ <<"session", "jwt", "gateway">> \in Seq(W)
      /\ <<"jwt", "session">> \in Seq(W) /\ <<"jwt", "gateway", "session">> \in Seq(W)
      BY <1>2, WordSequences
<1>5. ASSUME NEW q \in Seq(W), NEW s \in SourceRec(W)
      PROVE  Options(q, s) \in OptionsRec(W)
  <2>1. {"Health"} \in SUBSET W
        BY <1>2
  <2>2. QED BY <2>1 DEF Options, OptionsRec, Now
<1>6. ASSUME NEW o \in OptionsRec(W)
      PROVE  /\ [o EXCEPT !.jwt.hasKey = FALSE] \in OptionsRec(W)
             /\ [o EXCEPT !.jwt.cookies = FALSE, !.gateway.enabled = FALSE] \in OptionsRec(W)
      BY DEF OptionsRec, SourceRec
<1>7. 0 \in Int /\ 1 \in Int /\ 2 \in Int
      OBVIOUS
<1>8. TRUE \in BOOLEAN /\ FALSE \in BOOLEAN
      OBVIOUS
<1>9. /\ Options(<<>>, Source("", FALSE, 0)) \in OptionsRec(W)
      /\ Options(<<>>, Source("iss", TRUE, 1)) \in OptionsRec(W)
      /\ Options(<<"session", "jwt", "gateway">>, Source("iss", FALSE, 1)) \in OptionsRec(W)
      /\ Options(<<"jwt", "session">>, Source("", TRUE, 0)) \in OptionsRec(W)
      /\ Options(<<"jwt", "gateway", "session">>, Source("", FALSE, 2)) \in OptionsRec(W)
      BY <1>2, <1>3, <1>4, <1>5, <1>7, <1>8, Zenon
<1>10. QED BY <1>1, <1>6, <1>9, Zenon DEF OptionSets

(* A refused credential is never made up for by that of another source. *)
THEOREM RefusedIsFinal == Spec => []NoSecondChance
<1>1. InputInv => NoSecondChance
  <2> SUFFICES ASSUME InputInv, Is("auth"), NEW req \in Requests(input.device, input.cookie)
               PROVE  OneSourceDecides(req, input.opts)
      BY DEF NoSecondChance
  <2>1. input.opts \in OptionSets /\ input.device \in {"", "d1"} /\ input.cookie \in BOOLEAN
        BY InputStays DEF AuthInputs
  <2>2. input.device \in Words
        BY <2>1, Zenon DEF Words
  <2>3. QED BY <2>1, <2>2, RequestsAreRecords, OptionsAreRecords, OneSourceAlone
<1>2. QED BY <1>1, InputStays, PTL

(* A handler sees only users vouched for on the device of the request. *)
THEOREM HandlersSeeTheBound == Spec => []HandlersSeeBoundUsers
<1>1. InputInv => HandlersSeeBoundUsers
  <2> SUFFICES ASSUME InputInv, Is("auth"), NEW req \in Requests(input.device, input.cookie)
               PROVE  IdentityIsBound(req, input.opts)
      BY DEF HandlersSeeBoundUsers
  <2>1. input.opts \in OptionSets /\ input.device \in {"", "d1"} /\ input.cookie \in BOOLEAN
        BY InputStays DEF AuthInputs
  <2>2. input.device \in Words
        BY <2>1, Zenon DEF Words
  <2>3. QED BY <2>1, <2>2, RequestsAreRecords, OptionsAreRecords, UsersAreBound
<1>2. QED BY <1>1, InputStays, PTL

-----------------------------------------------------------------------------
(* Change data capture *)

(* One sequence is the concatenation of itself alone. *)
LEMMA FlattenOne ==
    ASSUME NEW T, NEW u \in Seq(T)
    PROVE  FlattenSeq(<<u>>) = u
<1> DEFINE R(g) == g = [i \in 1..Len(<<u>>) |-> IF i = 1 THEN <<u>>[i] ELSE g[i - 1] \o <<u>>[i]]
<1>1. PICK h : h = [i \in 1..1 |-> u]
      OBVIOUS
<1>2. R(h)
      BY <1>1
<1>3. PICK c : c = CHOOSE g : R(g)
      OBVIOUS
<1>4. R(c)
      BY <1>2, <1>3
<1>5. FlattenSeq(<<u>>) = c[1]
      BY <1>3 DEF FlattenSeq
<1>6. QED BY <1>4, <1>5

(* Sequences of one element each are concatenated to the sequence of those. *)
LEMMA FlattenSingles ==
    ASSUME NEW n \in Nat \ {0}, NEW f, NEW q, q = [i \in 1..n |-> <<f[i]>>]
    PROVE  FlattenSeq(q) = [i \in 1..n |-> f[i]]
<1> DEFINE R(g) == g = [i \in 1..Len(q) |-> IF i = 1 THEN q[i] ELSE g[i - 1] \o q[i]]
           F(i) == [j \in 1..i |-> f[j]]
<1>0. Len(q) = n /\ q # <<>> /\ \A i \in 1..n : q[i] = <<f[i]>>
      OBVIOUS
<1>1. F(1) = q[1]
      BY <1>0
<1>2. \A i \in 1..n : i # 1 => F(i - 1) \o q[i] = F(i)
  <2>1. SUFFICES ASSUME NEW i \in 1..n, i # 1
                 PROVE  F(i - 1) \o <<f[i]>> = F(i)
        BY <1>0
  <2>2. QED OBVIOUS
<1> HIDE DEF F
<1>3. PICK h : h = [i \in 1..n |-> F(i)]
      OBVIOUS
<1>4. R(h)
      BY <1>0, <1>1, <1>2, <1>3
<1>5. PICK c : c = CHOOSE g : R(g)
      OBVIOUS
<1>6. R(c)
  <2> HIDE DEF R
  <2>1. QED BY <1>4, <1>5
<1>7. FlattenSeq(q) = c[n]
      BY <1>0, <1>5 DEF FlattenSeq
<1> DEFINE N == {i \in Nat : i + 1 \in 1..n => c[i + 1] = F(i + 1)}
<1>8. 0 \in N
      BY <1>0, <1>1, <1>6
<1>9. ASSUME NEW i \in N PROVE i + 1 \in N
  <2>1. i \in Nat /\ i + 1 \in Nat
        OBVIOUS
  <2>2. SUFFICES ASSUME i + 2 \in 1..n PROVE c[i + 2] = F(i + 2)
        BY <2>1
  <2>3. i + 1 \in 1..n /\ c[i + 1] = F(i + 1)
        BY <2>1, <2>2
  <2>4. c[i + 2] = c[i + 1] \o q[i + 2]
    <3>1. PICK m \in 1..Len(q) : m = i + 2 /\ m # 1 /\ m - 1 = i + 1
          BY <1>0, <2>1, <2>2
    <3>2. c[m] = c[m - 1] \o q[m]
          BY <1>6, <3>1
    <3>3. QED BY <3>1, <3>2
  <2>5. F(i + 1) \o q[i + 2] = F(i + 2)
        BY <1>2, <2>1, <2>2
  <2>6. QED BY <2>3, <2>4, <2>5
<1>10. n - 1 \in N
  <2>1. N \in SUBSET Nat
        OBVIOUS
  <2> HIDE DEF N
  <2>2. N = Nat
        BY <1>8, <1>9, <2>1, SetInduction
  <2>3. QED BY <2>2
<1>11. c[n] = F(n)
      BY <1>10
<1>12. QED BY <1>7, <1>11 DEF F

(* The keys of a statement, in some order. *)
LEMMA KeysInOrder ==
    ASSUME NEW K \in SUBSET PrimaryKeys, K # {}
    PROVE  /\ Cardinality(K) \in Nat \ {0}
           /\ SetToSeq(K) \in [1..Cardinality(K) -> K]
           /\ \A i, j \in 1..Cardinality(K) : SetToSeq(K)[i] = SetToSeq(K)[j] => i = j
           /\ \A k \in K : \E i \in 1..Cardinality(K) : SetToSeq(K)[i] = k
<1>1. IsFiniteSet(K)
      BY CdcAssumption, FS_Subset
<1>2. PICK n \in Nat \ {0} : n = Cardinality(K)
      BY <1>1, FS_CardinalityType, FS_EmptySet
<1>3. PICK b : b \in Bijection(1..n, K)
      BY <1>1, <1>2, FS_CardinalityType DEF ExistsBijection
<1>4. \E f \in [1..n -> K] : IsInjective(f)
      BY <1>3 DEF Bijection, Injection
<1>5. PICK f : f = SetToSeq(K)
      OBVIOUS
<1>6. f \in [1..n -> K] /\ IsInjective(f)
      BY <1>2, <1>4, <1>5 DEF SetToSeq
<1>7. f \in Injection(1..n, K)
      BY <1>6 DEF Injection
<1>8. Cardinality(1..n) = n
      BY FS_Interval
<1>9. f \in Surjection(1..n, K)
      BY <1>1, <1>2, <1>7, <1>8, FS_Injection
<1>10. \A i, j \in 1..n : f[i] = f[j] => i = j
      BY <1>6 DEF IsInjective
<1>11. \A k \in K : \E i \in 1..n : f[i] = k
      BY <1>9 DEF Surjection
<1>12. QED BY <1>2, <1>5, <1>6, <1>10, <1>11

(* What an event asks of Elasticsearch: it writes no document twice. *)
WritePair == PrimaryKeys \X (Document \cup {NoRow})
WritesApart(W) ==
    /\ W \in Seq(WritePair) /\ Len(W) > 0
    /\ \A i, j \in DOMAIN W : W[i][1] = W[j][1] => i = j
WritesTo(e, k) == \E m \in DOMAIN Writes(e) : Writes(e)[m][1] = k

(* The writes of an event are those of its changes. *)
LEMMA SameWrites ==
    ASSUME NEW e, binlog'[e] = binlog[e]
    PROVE  Writes(e)' = Writes(e)
<1>1. \A c : ChangeWrites(e, c)' = ChangeWrites(e, c)
      BY DEF ChangeWrites, Upsert, Delete, DocumentID, RowToDocument
<1> HIDE DEF ChangeWrites
<1>2. [i \in DOMAIN binlog'[e].changes |-> ChangeWrites(e, binlog[e].changes[i])']
         = [i \in DOMAIN binlog[e].changes |-> ChangeWrites(e, binlog[e].changes[i])]
      BY <1>1
<1>3. QED BY <1>2 DEF Writes

(* An INSERT writes the document of each of its rows. *)
LEMMA InsertWrites ==
    ASSUME NEW e, NEW s, NEW K \in SUBSET PrimaryKeys, K # {},
           binlog'[e] = [shard |-> s,
                         changes |-> [i \in 1..Cardinality(K) |-> [old |-> NoRow, new |-> SetToSeq(K)[i]]]]
    PROVE  Writes(e)' = [i \in 1..Cardinality(K) |-> <<SetToSeq(K)[i], [shard |-> s, version |-> e]>>]
<1>1. PICK n \in Nat \ {0} : n = Cardinality(K)
      BY KeysInOrder
<1>2. PICK f : f = SetToSeq(K) /\ \A i \in 1..n : f[i] # NoRow
      BY <1>1, KeysInOrder, CdcAssumption
<1>3. PICK g : g = [i \in 1..n |-> <<f[i], [shard |-> s, version |-> e]>>]
      OBVIOUS
<1>4. PICK q : q = [i \in 1..n |-> <<g[i]>>]
      OBVIOUS
<1>5. \A i \in 1..n : ChangeWrites(e, [old |-> NoRow, new |-> f[i]])' = <<g[i]>>
  <2>1. SUFFICES ASSUME NEW i \in 1..n
                 PROVE  ChangeWrites(e, [old |-> NoRow, new |-> f[i]])' = <<g[i]>>
        OBVIOUS
  <2>2. Upsert(e, f[i])' = g[i]
        BY <1>3 DEF Upsert, DocumentID, RowToDocument
  <2>3. QED BY <1>2, <2>2 DEF ChangeWrites
<1>6. Writes(e)' = FlattenSeq(q)
  <2>1. binlog'[e].changes = [i \in 1..n |-> [old |-> NoRow, new |-> f[i]]]
        BY <1>1, <1>2
  <2>2. Writes(e)' = FlattenSeq([i \in DOMAIN binlog'[e].changes |-> ChangeWrites(e, binlog[e].changes[i])'])
        BY DEF Writes
  <2>3. [i \in DOMAIN binlog'[e].changes |-> ChangeWrites(e, binlog[e].changes[i])'] = q
        BY <1>4, <1>5, <2>1
  <2>4. QED BY <2>2, <2>3
<1>7. Writes(e)' = [i \in 1..n |-> g[i]]
      BY <1>4, <1>6, FlattenSingles
<1>8. QED BY <1>1, <1>2, <1>3, <1>7

(* A DELETE takes the document of each of its rows away. *)
LEMMA DeleteWrites ==
    ASSUME NEW e, NEW s, NEW K \in SUBSET PrimaryKeys, K # {},
           binlog'[e] = [shard |-> s,
                         changes |-> [i \in 1..Cardinality(K) |-> [old |-> SetToSeq(K)[i], new |-> NoRow]]]
    PROVE  Writes(e)' = [i \in 1..Cardinality(K) |-> <<SetToSeq(K)[i], NoRow>>]
<1>1. PICK n \in Nat \ {0} : n = Cardinality(K)
      BY KeysInOrder
<1>2. PICK f : f = SetToSeq(K) /\ \A i \in 1..n : f[i] # NoRow
      BY <1>1, KeysInOrder, CdcAssumption
<1>3. PICK g : g = [i \in 1..n |-> <<f[i], NoRow>>]
      OBVIOUS
<1>4. PICK q : q = [i \in 1..n |-> <<g[i]>>]
      OBVIOUS
<1>5. \A i \in 1..n : ChangeWrites(e, [old |-> f[i], new |-> NoRow])' = <<g[i]>>
  <2>1. SUFFICES ASSUME NEW i \in 1..n
                 PROVE  ChangeWrites(e, [old |-> f[i], new |-> NoRow])' = <<g[i]>>
        OBVIOUS
  <2>2. Delete(e, f[i])' = g[i]
        BY <1>3 DEF Delete, DocumentID
  <2>3. QED BY <1>2, <2>2 DEF ChangeWrites
<1>6. Writes(e)' = FlattenSeq(q)
  <2>1. binlog'[e].changes = [i \in 1..n |-> [old |-> f[i], new |-> NoRow]]
        BY <1>1, <1>2
  <2>2. Writes(e)' = FlattenSeq([i \in DOMAIN binlog'[e].changes |-> ChangeWrites(e, binlog[e].changes[i])'])
        BY DEF Writes
  <2>3. [i \in DOMAIN binlog'[e].changes |-> ChangeWrites(e, binlog[e].changes[i])'] = q
        BY <1>4, <1>5, <2>1
  <2>4. QED BY <2>2, <2>3
<1>7. Writes(e)' = [i \in 1..n |-> g[i]]
      BY <1>4, <1>6, FlattenSingles
<1>8. QED BY <1>1, <1>2, <1>3, <1>7

(* An UPDATE takes the document of the key before away, if it has changed,   *)
(* and writes that of the key after.                                        *)
LEMMA UpdateWrites ==
    ASSUME NEW e, NEW s, NEW k \in PrimaryKeys, NEW l \in PrimaryKeys,
           binlog'[e] = [shard |-> s, changes |-> <<[old |-> k, new |-> l]>>]
    PROVE  Writes(e)' = IF k = l THEN << <<l, [shard |-> s, version |-> e]>> >>
                        ELSE << <<k, NoRow>>, <<l, [shard |-> s, version |-> e]>> >>
<1>1. k # NoRow /\ l # NoRow
      BY CdcAssumption
<1>2. PICK x : x = [shard |-> s, version |-> e]
      OBVIOUS
<1>3. Upsert(e, l)' = <<l, x>> /\ Delete(e, k)' = <<k, NoRow>>
      BY <1>2 DEF Upsert, Delete, DocumentID, RowToDocument
<1>4. PICK W : W = ChangeWrites(e, [old |-> k, new |-> l])'
      OBVIOUS
<1>5. W = IF k = l THEN << <<l, x>> >> ELSE << <<k, NoRow>>, <<l, x>> >>
  <2>1. PICK u, v : u = <<k, NoRow>> /\ v = <<l, x>>
        OBVIOUS
  <2>2. W = (IF k # l THEN <<u>> ELSE <<>>) \o <<v>>
        BY <1>1, <1>3, <1>4, <2>1 DEF ChangeWrites
  <2>3. <<u>> \o <<v>> = <<u, v>>
    <3>1. <<u>> \in Seq({u, v}) /\ <<v>> \in Seq({u, v}) /\ <<u, v>> \in Seq({u, v})
          OBVIOUS
    <3>2. PICK z : z = <<u>> \o <<v>>
          OBVIOUS
    <3>3. z \in Seq({u, v}) /\ Len(z) = 2 /\ \A i \in 1..2 : z[i] = <<u, v>>[i]
          BY <3>1, <3>2, ConcatProperties
    <3>4. Len(z) = Len(<<u, v>>) /\ \A i \in 1..Len(z) : z[i] = <<u, v>>[i]
          BY <3>3
    <3>5. z = <<u, v>>
          BY <3>1, <3>3, <3>4, SeqEqual
    <3>6. QED BY <3>2, <3>5
  <2>4. <<>> \o <<v>> = <<v>>
    <3>1. <<v>> \in Seq({v})
          OBVIOUS
    <3>2. QED BY <3>1, ConcatEmptySeq
  <2>5. QED BY <2>1, <2>2, <2>3, <2>4
<1>6. W \in Seq({<<k, NoRow>>, <<l, x>>})
  <2>1. PICK u, v : u = <<k, NoRow>> /\ v = <<l, x>>
        OBVIOUS
  <2>2. <<v>> \in Seq({u, v}) /\ <<u, v>> \in Seq({u, v})
        OBVIOUS
  <2>3. QED BY <1>5, <2>1, <2>2
<1>7. Writes(e)' = FlattenSeq(<<W>>)
  <2>1. binlog'[e].changes = <<[old |-> k, new |-> l]>>
        OBVIOUS
  <2>2. Writes(e)' = FlattenSeq([i \in DOMAIN binlog'[e].changes |-> ChangeWrites(e, binlog[e].changes[i])'])
        BY DEF Writes
  <2>3. [i \in DOMAIN binlog'[e].changes |-> ChangeWrites(e, binlog[e].changes[i])'] = <<W>>
    <3>1. DOMAIN binlog'[e].changes = 1..1 /\ binlog'[e].changes[1] = [old |-> k, new |-> l]
          BY <2>1
    <3>2. \A i \in 1..1 : ChangeWrites(e, binlog[e].changes[i])' = W
          BY <1>4, <3>1
    <3>3. QED BY <3>1, <3>2
  <2>4. QED BY <2>2, <2>3
<1>8. QED BY <1>2, <1>5, <1>6, <1>7, FlattenOne

-----------------------------------------------------------------------------
(* The document a row should have. *)
RowDocument(s, k) ==
    IF table[s][k] = NoRow THEN NoRow ELSE [shard |-> s, version |-> table[s][k]]

(* The log is made of events, and only keys that a shard used have a row.    *)
LogOK ==
    /\ binlog \in Seq([shard : Shards, changes : Seq(Change)])
    /\ \A e \in DOMAIN binlog : WritesApart(Writes(e))
    /\ \A s \in Shards, k \in PrimaryKeys : table[s][k] # NoRow => s \in used[k]

(* The process is at a write of its event. *)
PositionOK ==
    /\ at \in DOMAIN binlog => write \in DOMAIN Writes(at)
    /\ at \notin DOMAIN binlog => write = 1

(* The last write of the log to a document makes it that of the row. *)
LatestMatches ==
    \A k \in PrimaryKeys, s \in Shards : used[k] = {s} =>
       \A e \in DOMAIN binlog : \A n \in DOMAIN Writes(e) :
          Writes(e)[n][1] = k /\ (\A f \in DOMAIN binlog : f > e => ~WritesTo(f, k))
             => Writes(e)[n][2] = RowDocument(s, k)

(* The process, or the last one, has still to write the document. *)
Ahead(k) ==
    \/ \E f \in DOMAIN binlog : f > at /\ WritesTo(f, k)
    \/ at \in DOMAIN binlog /\ \E n \in DOMAIN Writes(at) : n >= write /\ Writes(at)[n][1] = k

(* A document nobody has still to write is that of the row: a crash, and the *)
(* replay from an older event, only add to what is ahead.                   *)
SettledMatch ==
    \A k \in PrimaryKeys, s \in Shards :
       used[k] = {s} /\ ~Ahead(k) => doc[k] = RowDocument(s, k)

CdcInv == CdcTypeOK /\ LogOK /\ PositionOK /\ LatestMatches /\ SettledMatch

(* Nothing is logged, and nothing is written. *)
LEMMA CdcInitInv == CdcInit => CdcInv
<1> SUFFICES ASSUME CdcInit PROVE CdcInv
    OBVIOUS
<1>1. CdcTypeOK
      BY CdcAssumption DEF CdcInit, CdcTypeOK
<1>2. LogOK /\ PositionOK /\ LatestMatches
      BY DEF CdcInit, LogOK, PositionOK, LatestMatches
<1>3. SettledMatch
      BY DEF CdcInit, SettledMatch, RowDocument
<1>4. QED BY <1>1, <1>2, <1>3 DEF CdcInv

(* A statement whose event writes exactly the documents of the rows it        *)
(* changed, and the new state of those rows, keeps the invariant.            *)
LEMMA LogStep ==
    ASSUME CdcInv, NEW s \in Shards, NEW ch \in Seq(Change), Log(s, ch),
           table' \in [Shards -> [PrimaryKeys -> 1..MaxEvents \cup {NoRow}]],
           used' \in [PrimaryKeys -> SUBSET Shards],
           NEW v, v = Version, NEW W, W = Writes(v)', WritesApart(W),
           \A n \in DOMAIN W : s \in used'[W[n][1]] /\ W[n][2] = RowDocument(s, W[n][1])',
           \A k \in PrimaryKeys : (\A n \in DOMAIN W : W[n][1] # k) =>
               used'[k] = used[k] /\ \A t \in Shards : table'[t][k] = table[t][k],
           \A t \in Shards, k \in PrimaryKeys : table'[t][k] # NoRow => t \in used'[k]
    PROVE  CdcInv'
<1>1. /\ binlog \in Seq([shard : Shards, changes : Seq(Change)]) /\ v = Len(binlog) + 1
      /\ binlog' = Append(binlog, [shard |-> s, changes |-> ch]) /\ Len(binlog) < MaxEvents
      BY DEF CdcInv, LogOK, Log, Version
<1>2. /\ v \in Nat \ {0} /\ v <= MaxEvents
      /\ binlog' \in Seq([shard : Shards, changes : Seq(Change)]) /\ Len(binlog') = v
      /\ DOMAIN binlog' = 1..v /\ DOMAIN binlog = 1..(v - 1)
      /\ \A e \in DOMAIN binlog : binlog'[e] = binlog[e]
      /\ binlog'[v] = [shard |-> s, changes |-> ch]
      BY <1>1, CdcAssumption
<1>3. \A e \in DOMAIN binlog : Writes(e)' = Writes(e)
      BY <1>2, SameWrites
<1>4. UNCHANGED <<oldest, cpc, at, write, doc>>
      BY DEF Log
<1>5. CdcTypeOK'
  <2>1. /\ oldest \in 1..Len(binlog) + 1 /\ cpc \in {"down", "run"}
        /\ at \in oldest..Len(binlog) + 1 /\ write \in Nat
        /\ doc \in [PrimaryKeys -> Document \cup {NoRow}]
        BY DEF CdcInv, CdcTypeOK
  <2>2. oldest \in 1..Len(binlog') + 1 /\ at \in oldest..Len(binlog') + 1
        BY <1>1, <1>2, <2>1
  <2>3. \A i \in DOMAIN binlog' : binlog'[i].shard \in Shards /\ binlog'[i].changes \in Seq(Change)
    <3>1. \A i \in 1..Len(binlog') : binlog'[i] \in [shard : Shards, changes : Seq(Change)]
          BY <1>2, ElementOfSeq
    <3>2. QED BY <1>2, <3>1
  <2>4. QED BY <1>2, <1>4, <2>1, <2>2, <2>3 DEF CdcTypeOK, Document, Change
<1>6. LogOK'
  <2>1. \A e \in DOMAIN binlog : WritesApart(Writes(e))
        BY DEF CdcInv, LogOK
  <2>2. ASSUME NEW e \in DOMAIN binlog' PROVE WritesApart(Writes(e)')
    <3>1. CASE e = v
          BY <3>1
    <3>2. CASE e # v
      <4>1. e \in DOMAIN binlog
            BY <1>2, <3>2
      <4>2. QED BY <1>3, <2>1, <4>1
    <3>3. QED BY <3>1, <3>2
  <2>3. \A e \in DOMAIN binlog' : WritesApart(Writes(e))'
        BY <2>2 DEF WritesApart, WritePair, Document
  <2>4. QED BY <1>2, <2>3 DEF LogOK, Change
<1>7. PositionOK'
  <2>1. CASE at \in DOMAIN binlog
    <3>1. write \in DOMAIN Writes(at) /\ at \in DOMAIN binlog'
          BY <1>2, <2>1 DEF CdcInv, PositionOK
    <3>2. QED BY <1>3, <1>4, <2>1, <3>1 DEF PositionOK
  <2>2. CASE at \notin DOMAIN binlog
    <3>1. at = v /\ write = 1
          BY <1>1, <1>2, <2>2 DEF CdcInv, PositionOK, CdcTypeOK
    <3>2. 1 \in DOMAIN W
          BY DEF WritesApart
    <3>3. QED BY <1>2, <1>4, <3>1, <3>2 DEF PositionOK
  <2>3. QED BY <2>1, <2>2
<1>8. \A k : \A e \in DOMAIN binlog : WritesTo(e, k)' <=> WritesTo(e, k)
      BY <1>3 DEF WritesTo
<1>9. \A k : WritesTo(v, k)' <=> \E n \in DOMAIN W : W[n][1] = k
      BY DEF WritesTo
<1>10. LatestMatches'
  <2>1. SUFFICES ASSUME NEW k \in PrimaryKeys, NEW t \in Shards, used'[k] = {t},
                        NEW e \in DOMAIN binlog', NEW n \in DOMAIN (Writes(e)'), Writes(e)'[n][1] = k,
                        \A f \in DOMAIN binlog' : f > e => ~WritesTo(f, k)'
                 PROVE  Writes(e)'[n][2] = RowDocument(t, k)'
        BY DEF LatestMatches
  <2>2. CASE e = v
        BY <2>1, <2>2
  <2>3. CASE e # v
    <3>1. e \in DOMAIN binlog /\ v > e /\ v \in DOMAIN binlog'
          BY <1>2, <2>3
    <3>2. \A m \in DOMAIN W : W[m][1] # k
          BY <1>9, <2>1, <3>1
    <3>3. used[k] = {t} /\ RowDocument(t, k)' = RowDocument(t, k)
          BY <2>1, <3>2 DEF RowDocument
    <3>4. \A f \in DOMAIN binlog : f > e => ~WritesTo(f, k)
          BY <1>2, <1>8, <2>1
    <3>5. n \in DOMAIN Writes(e) /\ Writes(e)[n][1] = k
          BY <1>3, <2>1, <3>1
    <3>6. Writes(e)[n][2] = RowDocument(t, k)
          BY <3>1, <3>3, <3>4, <3>5 DEF CdcInv, LatestMatches
    <3>7. QED BY <1>3, <3>1, <3>3, <3>6
  <2>4. QED BY <2>2, <2>3
<1>11. SettledMatch'
  <2>1. SUFFICES ASSUME NEW k \in PrimaryKeys, NEW t \in Shards, used'[k] = {t}, ~Ahead(k)'
                 PROVE  doc'[k] = RowDocument(t, k)'
        BY DEF SettledMatch
  <2>2. at \in 1..v /\ v \in DOMAIN binlog'
        BY <1>1, <1>2 DEF CdcInv, CdcTypeOK
  <2>3. ASSUME NEW n \in DOMAIN W, W[n][1] = k PROVE FALSE
    <3>1. CASE v > at
          BY <1>4, <1>9, <2>1, <2>2, <2>3, <3>1 DEF Ahead
    <3>2. CASE v = at
      <4>1. write = 1 /\ n >= 1
            BY <1>2, <2>3, <3>2 DEF CdcInv, PositionOK, WritesApart
      <4>2. QED BY <1>4, <2>1, <2>2, <2>3, <3>2, <4>1 DEF Ahead
    <3>3. QED BY <1>2, <2>2, <3>1, <3>2
  <2>4. used[k] = {t} /\ RowDocument(t, k)' = RowDocument(t, k)
        BY <2>1, <2>3 DEF RowDocument
  <2>5. ~Ahead(k)
    <3>1. \A f \in DOMAIN binlog : f > at => ~WritesTo(f, k)
          BY <1>2, <1>4, <1>8, <2>1 DEF Ahead
    <3>2. at \in DOMAIN binlog => \A n \in DOMAIN Writes(at) : ~(n >= write /\ Writes(at)[n][1] = k)
          BY <1>2, <1>3, <1>4, <2>1 DEF Ahead
    <3>3. QED BY <3>1, <3>2 DEF Ahead
  <2>6. doc[k] = RowDocument(t, k)
        BY <2>4, <2>5 DEF CdcInv, SettledMatch
  <2>7. QED BY <1>4, <2>4, <2>6
<1>12. QED BY <1>5, <1>6, <1>7, <1>10, <1>11 DEF CdcInv

(* An INSERT uses its keys, and its event writes their documents. *)
LEMMA InsertStep ==
    ASSUME CdcInv, NEW s \in Shards, NEW K \in SUBSET PrimaryKeys, InsertRows(s, K)
    PROVE  CdcInv'
<1>1. PICK n \in Nat \ {0} : n = Cardinality(K)
      BY KeysInOrder DEF InsertRows
<1>2. PICK f : f = SetToSeq(K)
      OBVIOUS
<1>3. /\ f \in [1..n -> K] /\ K \subseteq PrimaryKeys /\ K # {}
      /\ \A i, j \in 1..n : f[i] = f[j] => i = j
      /\ \A k \in K : \E i \in 1..n : f[i] = k
      BY <1>1, <1>2, KeysInOrder DEF InsertRows
<1>4. PICK ch : ch = [i \in 1..n |-> [old |-> NoRow, new |-> f[i]]]
      OBVIOUS
<1>5. ch \in Seq(Change) /\ Log(s, ch)
  <2>1. \A i \in 1..n : [old |-> NoRow, new |-> f[i]] \in Change
        BY <1>3 DEF Change
  <2>2. ch \in [1..n -> Change]
        BY <1>4, <2>1
  <2>3. ch \in Seq(Change)
        BY <2>2
  <2>4. ch = [i \in 1..Cardinality(K) |-> [old |-> NoRow, new |-> SetToSeq(K)[i]]]
        BY <1>1, <1>2, <1>4
  <2>5. Log(s, [i \in 1..Cardinality(K) |-> [old |-> NoRow, new |-> SetToSeq(K)[i]]])
        BY DEF InsertRows
  <2>6. QED BY <2>3, <2>4, <2>5, Zenon
<1>6. PICK v : v = Version
      OBVIOUS
<1>7. v \in 1..MaxEvents /\ v # NoRow /\ v \in Nat /\ binlog'[v] = [shard |-> s, changes |-> ch]
      BY <1>5, <1>6, CdcAssumption DEF CdcInv, LogOK, Log, Version
<1>8. PICK W : W = Writes(v)'
      OBVIOUS
<1>9. W = [i \in 1..n |-> <<f[i], [shard |-> s, version |-> v]>>]
      BY <1>1, <1>2, <1>3, <1>4, <1>7, <1>8, InsertWrites
<1>10. DOMAIN W = 1..n /\ \A i \in 1..n : W[i][1] = f[i] /\ W[i][2] = [shard |-> s, version |-> v]
      BY <1>9
<1>11. WritesApart(W)
  <2>1. [shard |-> s, version |-> v] \in Document
        BY <1>7 DEF Document
  <2>2. \A i \in 1..n : <<f[i], [shard |-> s, version |-> v]>> \in WritePair
        BY <1>3, <2>1 DEF WritePair
  <2>3. W \in [1..n -> WritePair]
        BY <1>9, <2>2
  <2>4. W \in Seq(WritePair) /\ Len(W) = n
        BY <2>3
  <2>5. QED BY <1>3, <1>10, <2>4 DEF WritesApart
<1>12. /\ table \in [Shards -> [PrimaryKeys -> 1..MaxEvents \cup {NoRow}]]
       /\ used \in [PrimaryKeys -> SUBSET Shards]
      BY DEF CdcInv, CdcTypeOK
<1>13. /\ \A t \in Shards, k \in PrimaryKeys :
             table'[t][k] = IF t = s /\ k \in K THEN v ELSE table[t][k]
       /\ table' \in [Shards -> [PrimaryKeys -> 1..MaxEvents \cup {NoRow}]]
      BY <1>6, <1>7, <1>12 DEF InsertRows
<1>14. /\ \A k \in PrimaryKeys : used'[k] = IF k \in K THEN used[k] \cup {s} ELSE used[k]
       /\ used' \in [PrimaryKeys -> SUBSET Shards]
      BY <1>12 DEF InsertRows
<1>15. \A i \in DOMAIN W : s \in used'[W[i][1]] /\ W[i][2] = RowDocument(s, W[i][1])'
      BY <1>3, <1>7, <1>10, <1>13, <1>14 DEF RowDocument
<1>16. \A k \in PrimaryKeys : (\A i \in DOMAIN W : W[i][1] # k) =>
          used'[k] = used[k] /\ \A t \in Shards : table'[t][k] = table[t][k]
  <2>1. \A k \in K : \E i \in DOMAIN W : W[i][1] = k
        BY <1>3, <1>10
  <2>2. QED BY <1>13, <1>14, <2>1
<1>17. \A t \in Shards, k \in PrimaryKeys : table'[t][k] # NoRow => t \in used'[k]
      BY <1>13, <1>14 DEF CdcInv, LogOK
<1>18. QED BY <1>5, <1>6, <1>8, <1>11, <1>13, <1>14, <1>15, <1>16, <1>17, LogStep

(* The keys of a DELETE had rows, so their shard is the one that used them. *)
LEMMA DeleteStep ==
    ASSUME CdcInv, NEW s \in Shards, NEW K \in SUBSET PrimaryKeys, DeleteRows(s, K)
    PROVE  CdcInv'
<1>1. PICK n \in Nat \ {0} : n = Cardinality(K)
      BY KeysInOrder DEF DeleteRows
<1>2. PICK f : f = SetToSeq(K)
      OBVIOUS
<1>3. /\ f \in [1..n -> K] /\ K \subseteq PrimaryKeys /\ K # {}
      /\ \A i, j \in 1..n : f[i] = f[j] => i = j
      /\ \A k \in K : \E i \in 1..n : f[i] = k
      BY <1>1, <1>2, KeysInOrder DEF DeleteRows
<1>4. PICK ch : ch = [i \in 1..n |-> [old |-> f[i], new |-> NoRow]]
      OBVIOUS
<1>5. ch \in Seq(Change) /\ Log(s, ch)
  <2>1. \A i \in 1..n : [old |-> f[i], new |-> NoRow] \in Change
        BY <1>3 DEF Change
  <2>2. ch \in [1..n -> Change]
        BY <1>4, <2>1
  <2>3. ch \in Seq(Change)
        BY <2>2
  <2>4. ch = [i \in 1..Cardinality(K) |-> [old |-> SetToSeq(K)[i], new |-> NoRow]]
        BY <1>1, <1>2, <1>4
  <2>5. Log(s, [i \in 1..Cardinality(K) |-> [old |-> SetToSeq(K)[i], new |-> NoRow]])
        BY DEF DeleteRows
  <2>6. QED BY <2>3, <2>4, <2>5, Zenon
<1>6. PICK v : v = Version
      OBVIOUS
<1>7. binlog'[v] = [shard |-> s, changes |-> ch]
      BY <1>5, <1>6, CdcAssumption DEF CdcInv, LogOK, Log, Version
<1>8. PICK W : W = Writes(v)'
      OBVIOUS
<1>9. W = [i \in 1..n |-> <<f[i], NoRow>>]
      BY <1>1, <1>2, <1>3, <1>4, <1>7, <1>8, DeleteWrites
<1>10. DOMAIN W = 1..n /\ \A i \in 1..n : W[i][1] = f[i] /\ W[i][2] = NoRow
      BY <1>9
<1>11. WritesApart(W)
  <2>1. \A i \in 1..n : <<f[i], NoRow>> \in WritePair
        BY <1>3 DEF WritePair
  <2>2. W \in [1..n -> WritePair]
        BY <1>9, <2>1
  <2>3. W \in Seq(WritePair) /\ Len(W) = n
        BY <2>2
  <2>4. QED BY <1>3, <1>10, <2>3 DEF WritesApart
<1>12. /\ table \in [Shards -> [PrimaryKeys -> 1..MaxEvents \cup {NoRow}]]
       /\ used \in [PrimaryKeys -> SUBSET Shards] /\ used' = used
      BY DEF CdcInv, CdcTypeOK, DeleteRows
<1>13. /\ \A t \in Shards, k \in PrimaryKeys :
             table'[t][k] = IF t = s /\ k \in K THEN NoRow ELSE table[t][k]
       /\ table' \in [Shards -> [PrimaryKeys -> 1..MaxEvents \cup {NoRow}]]
      BY <1>12 DEF DeleteRows
<1>14. \A k \in K : s \in used[k]
      BY DEF CdcInv, LogOK, DeleteRows, Present
<1>15. \A i \in DOMAIN W : s \in used'[W[i][1]] /\ W[i][2] = RowDocument(s, W[i][1])'
      BY <1>3, <1>10, <1>12, <1>13, <1>14 DEF RowDocument
<1>16. \A k \in PrimaryKeys : (\A i \in DOMAIN W : W[i][1] # k) =>
          used'[k] = used[k] /\ \A t \in Shards : table'[t][k] = table[t][k]
      BY <1>3, <1>10, <1>12, <1>13
<1>17. \A t \in Shards, k \in PrimaryKeys : table'[t][k] # NoRow => t \in used'[k]
      BY <1>12, <1>13 DEF CdcInv, LogOK
<1>18. used' \in [PrimaryKeys -> SUBSET Shards]
      BY <1>12
<1>19. QED BY <1>5, <1>6, <1>8, <1>11, <1>13, <1>15, <1>16, <1>17, <1>18, LogStep

(* An UPDATE uses its new key; the old one, if another, loses its row. *)
LEMMA UpdateStep ==
    ASSUME CdcInv, NEW s \in Shards, NEW k \in PrimaryKeys, NEW l \in PrimaryKeys, UpdateRow(s, k, l)
    PROVE  CdcInv'
<1>1. PICK ch : ch = <<[old |-> k, new |-> l]>>
      OBVIOUS
<1>2. ch \in Seq(Change) /\ Log(s, ch)
  <2>1. [old |-> k, new |-> l] \in Change
        BY DEF Change
  <2>2. ch \in Seq(Change)
        BY <1>1, <2>1
  <2>3. QED BY <1>1, <2>2 DEF UpdateRow
<1>3. PICK v : v = Version
      OBVIOUS
<1>4. v \in 1..MaxEvents /\ v # NoRow /\ v \in Nat /\ binlog'[v] = [shard |-> s, changes |-> ch]
      BY <1>2, <1>3, CdcAssumption DEF CdcInv, LogOK, Log, Version
<1>5. PICK x : x = [shard |-> s, version |-> v]
      OBVIOUS
<1>6. PICK W : W = Writes(v)'
      OBVIOUS
<1>7. W = IF k = l THEN << <<l, x>> >> ELSE << <<k, NoRow>>, <<l, x>> >>
      BY <1>1, <1>4, <1>5, <1>6, UpdateWrites
<1>8. WritesApart(W)
  <2>1. <<l, x>> \in WritePair /\ <<k, NoRow>> \in WritePair
        BY <1>4, <1>5 DEF WritePair, Document
  <2>2. CASE k = l
    <3>1. W = << <<l, x>> >>
          BY <1>7, <2>2
    <3>2. W \in Seq(WritePair) /\ Len(W) = 1
          BY <2>1, <3>1
    <3>3. QED BY <3>2 DEF WritesApart
  <2>3. CASE k # l
    <3>1. W = << <<k, NoRow>>, <<l, x>> >>
          BY <1>7, <2>3
    <3>2. W \in Seq(WritePair) /\ Len(W) = 2 /\ W[1][1] = k /\ W[2][1] = l
          BY <2>1, <3>1
    <3>3. QED BY <2>3, <3>2 DEF WritesApart
  <2>4. QED BY <2>2, <2>3
<1>9. /\ \A i \in DOMAIN W : \/ W[i][1] = l /\ W[i][2] = x
                             \/ k # l /\ W[i][1] = k /\ W[i][2] = NoRow
      /\ \E i \in DOMAIN W : W[i][1] = l
      /\ \E i \in DOMAIN W : W[i][1] = k
  <2>1. CASE k = l
    <3>1. DOMAIN W = {1} /\ W[1] = <<l, x>>
          BY <1>7, <2>1
    <3>2. QED BY <2>1, <3>1
  <2>2. CASE k # l
    <3>1. DOMAIN W = {1, 2} /\ W[1] = <<k, NoRow>> /\ W[2] = <<l, x>>
          BY <1>7, <2>2
    <3>2. QED BY <2>2, <3>1
  <2>3. QED BY <2>1, <2>2
<1>10. /\ table \in [Shards -> [PrimaryKeys -> 1..MaxEvents \cup {NoRow}]]
       /\ used \in [PrimaryKeys -> SUBSET Shards]
      BY DEF CdcInv, CdcTypeOK
<1>11. /\ \A t \in Shards, p \in PrimaryKeys :
             table'[t][p] = IF t = s /\ p = l THEN v ELSE IF t = s /\ p = k THEN NoRow ELSE table[t][p]
       /\ table' \in [Shards -> [PrimaryKeys -> 1..MaxEvents \cup {NoRow}]]
      BY <1>3, <1>4, <1>10 DEF UpdateRow
<1>12. /\ \A p \in PrimaryKeys : used'[p] = IF p = l THEN used[p] \cup {s} ELSE used[p]
       /\ used' \in [PrimaryKeys -> SUBSET Shards]
      BY <1>10 DEF UpdateRow
<1>13. s \in used[k]
      BY DEF CdcInv, LogOK, UpdateRow, Present
<1>14. \A i \in DOMAIN W : s \in used'[W[i][1]] /\ W[i][2] = RowDocument(s, W[i][1])'
  <2>1. s \in used'[l] /\ s \in used'[k]
        BY <1>12, <1>13
  <2>2. x = RowDocument(s, l)' /\ (k # l => NoRow = RowDocument(s, k)')
        BY <1>4, <1>5, <1>11 DEF RowDocument
  <2>3. QED BY <1>9, <2>1, <2>2
<1>15. \A p \in PrimaryKeys : (\A i \in DOMAIN W : W[i][1] # p) =>
          used'[p] = used[p] /\ \A t \in Shards : table'[t][p] = table[t][p]
      BY <1>9, <1>11, <1>12
<1>16. \A t \in Shards, p \in PrimaryKeys : table'[t][p] # NoRow => t \in used'[p]
      BY <1>11, <1>12 DEF CdcInv, LogOK
<1>17. QED BY <1>2, <1>3, <1>6, <1>8, <1>11, <1>12, <1>14, <1>15, <1>16, LogStep

(* The steps of cdc-sync leave MySQL alone. *)
LEMMA LogKept ==
    ASSUME CdcInv, UNCHANGED <<table, used, binlog>>
    PROVE  /\ LogOK' /\ LatestMatches'
           /\ \A e : Writes(e)' = Writes(e)
           /\ \A e, k : WritesTo(e, k)' <=> WritesTo(e, k)
           /\ \A s, k : RowDocument(s, k)' = RowDocument(s, k)
<1>1. \A e : Writes(e)' = Writes(e)
      BY SameWrites
<1>2. \A e, k : WritesTo(e, k)' <=> WritesTo(e, k)
      BY <1>1 DEF WritesTo
<1>3. \A s, k : RowDocument(s, k)' = RowDocument(s, k)
      BY DEF RowDocument
<1>4. LogOK'
  <2>1. \A e \in DOMAIN binlog : WritesApart(Writes(e)')
        BY <1>1 DEF CdcInv, LogOK
  <2>2. \A e \in DOMAIN binlog' : WritesApart(Writes(e))'
        BY <2>1 DEF WritesApart, WritePair, Document
  <2>3. QED BY <2>2 DEF CdcInv, LogOK, Change
<1>5. LatestMatches'
      BY <1>1, <1>2, <1>3 DEF CdcInv, LatestMatches
<1>6. QED BY <1>1, <1>2, <1>3, <1>4, <1>5

(* A start reads from the oldest event: everything ahead before still is. *)
LEMMA RunStep ==
    ASSUME CdcInv, Run
    PROVE  CdcInv'
<1>1. UNCHANGED <<table, used, binlog, oldest, doc>> /\ at' = oldest /\ write' = 1 /\ cpc' = "run"
      BY DEF Run, StartAt
<1>2. LogOK' /\ LatestMatches' /\ (\A e : Writes(e)' = Writes(e))
      /\ (\A e, k : WritesTo(e, k)' <=> WritesTo(e, k))
      /\ \A s, k : RowDocument(s, k)' = RowDocument(s, k)
      BY <1>1, LogKept
<1>3. /\ binlog \in Seq([shard : Shards, changes : Seq(Change)])
      /\ oldest \in 1..Len(binlog) + 1 /\ at \in oldest..Len(binlog) + 1 /\ write \in Nat
      BY DEF CdcInv, CdcTypeOK, LogOK
<1>4. CdcTypeOK'
  <2>1. at' \in oldest'..Len(binlog') + 1 /\ oldest' \in 1..Len(binlog') + 1
        BY <1>1, <1>3
  <2>2. QED BY <1>1, <2>1 DEF CdcInv, CdcTypeOK, Document, Change
<1>5. \A e \in DOMAIN binlog : 1 \in DOMAIN Writes(e)
      BY DEF CdcInv, LogOK, WritesApart
<1>6. PositionOK'
      BY <1>1, <1>2, <1>5 DEF PositionOK
<1>7. SettledMatch'
  <2>1. SUFFICES ASSUME NEW k \in PrimaryKeys, NEW s \in Shards, used[k] = {s}, ~Ahead(k)'
                 PROVE  doc[k] = RowDocument(s, k)
        BY <1>1, <1>2 DEF SettledMatch
  <2>2. /\ \A f \in DOMAIN binlog : f > oldest => ~WritesTo(f, k)
        /\ oldest \in DOMAIN binlog => \A n \in DOMAIN Writes(oldest) : n >= 1 => Writes(oldest)[n][1] # k
        BY <1>1, <1>2, <2>1 DEF Ahead
  <2>3. \A f \in DOMAIN binlog : f >= oldest => ~WritesTo(f, k)
    <3>1. \A n \in DOMAIN Writes(oldest) : oldest \in DOMAIN binlog => n >= 1
          BY DEF CdcInv, LogOK, WritesApart
    <3>2. oldest \in DOMAIN binlog => ~WritesTo(oldest, k)
          BY <2>2, <3>1 DEF WritesTo
    <3>3. QED BY <1>3, <2>2, <3>2
  <2>4. ~Ahead(k)
    <3>1. at >= oldest /\ \A f \in DOMAIN binlog : f > at => f >= oldest
          BY <1>3
    <3>2. QED BY <2>3, <3>1 DEF Ahead, WritesTo
  <2>5. QED BY <2>1, <2>4 DEF CdcInv, SettledMatch
<1>8. QED BY <1>2, <1>4, <1>6, <1>7 DEF CdcInv

(* A write to k takes k off what is ahead only if it is the last of the log. *)
LEMMA WriteStep ==
    ASSUME CdcInv, WriteDocument
    PROVE  CdcInv'
<1>1. /\ UNCHANGED <<table, used, binlog, oldest, cpc>> /\ cpc = "run"
      /\ doc' = [doc EXCEPT ![Writes(at)[write][1]] = Writes(at)[write][2]]
      /\ IF write = Len(Writes(at)) THEN at' = at + 1 /\ write' = 1
         ELSE at' = at /\ write' = write + 1
      BY DEF WriteDocument, CanWrite, Written
<1>2. LogOK' /\ LatestMatches' /\ (\A e : Writes(e)' = Writes(e))
      /\ (\A e, k : WritesTo(e, k)' <=> WritesTo(e, k))
      /\ \A s, k : RowDocument(s, k)' = RowDocument(s, k)
      BY <1>1, LogKept
<1>3. /\ binlog \in Seq([shard : Shards, changes : Seq(Change)])
      /\ oldest \in 1..Len(binlog) + 1 /\ at \in oldest..Len(binlog) + 1 /\ write \in Nat
      /\ at \in DOMAIN binlog /\ DOMAIN binlog = 1..Len(binlog) /\ at \in Nat
      BY DEF CdcInv, CdcTypeOK, LogOK, WriteDocument, CanWrite
<1>4. PICK W : W = Writes(at)
      OBVIOUS
<1>5. /\ W \in Seq(WritePair) /\ Len(W) > 0 /\ DOMAIN W = 1..Len(W) /\ write \in 1..Len(W)
      /\ \A i, j \in DOMAIN W : W[i][1] = W[j][1] => i = j
      BY <1>3, <1>4 DEF CdcInv, LogOK, WritesApart, PositionOK
<1>6. PICK p \in PrimaryKeys, d \in Document \cup {NoRow} : W[write] = <<p, d>>
      BY <1>5 DEF WritePair
<1>7. doc \in [PrimaryKeys -> Document \cup {NoRow}] /\ doc' = [doc EXCEPT ![p] = d]
      BY <1>1, <1>4, <1>6 DEF CdcInv, CdcTypeOK
<1>8. CdcTypeOK'
  <2>1. at' \in oldest'..Len(binlog') + 1 /\ oldest' \in 1..Len(binlog') + 1 /\ write' \in Nat
        BY <1>1, <1>3
  <2>2. doc' \in [PrimaryKeys -> Document \cup {NoRow}]
        BY <1>7
  <2>3. QED BY <1>1, <2>1, <2>2 DEF CdcInv, CdcTypeOK, Document, Change
<1>9. \A e \in DOMAIN binlog : 1 \in DOMAIN Writes(e)
      BY DEF CdcInv, LogOK, WritesApart
<1>10. PositionOK'
  <2>1. CASE write = Len(W)
        BY <1>1, <1>2, <1>4, <1>9, <2>1 DEF PositionOK
  <2>2. CASE write # Len(W)
    <3>1. at' = at /\ write' = write + 1 /\ write + 1 \in DOMAIN W
      <4>1. write # Len(Writes(at))
            BY <1>4, <2>2
      <4>2. at' = at /\ write' = write + 1
            BY <1>1, <4>1
      <4>3. write + 1 \in 1..Len(W)
        <5>1. PICK n \in Nat : n = Len(W)
              BY <1>5, LenProperties
        <5>2. write \in 1..n /\ write # n
              BY <1>5, <2>2, <5>1
        <5>3. QED BY <5>1, <5>2
      <4>4. QED BY <1>5, <4>2, <4>3
    <3>2. QED BY <1>1, <1>2, <1>3, <1>4, <3>1 DEF PositionOK
  <2>3. QED BY <2>1, <2>2
<1>11. SettledMatch'
  <2>1. SUFFICES ASSUME NEW k \in PrimaryKeys, NEW s \in Shards, used[k] = {s}, ~Ahead(k)'
                 PROVE  doc'[k] = RowDocument(s, k)
        BY <1>1, <1>2 DEF SettledMatch
  <2>2. /\ \A f \in DOMAIN binlog : f > at => ~WritesTo(f, k)
        /\ \A n \in DOMAIN W : n > write => W[n][1] # k
    <3>1. CASE write = Len(W)
      <4>1. at' = at + 1 /\ write' = 1
            BY <1>1, <1>4, <3>1
      <4>2. \A f \in DOMAIN binlog : f > at + 1 => ~WritesTo(f, k)
            BY <1>1, <1>2, <2>1, <4>1 DEF Ahead
      <4>3. at + 1 \in DOMAIN binlog => \A n \in DOMAIN Writes(at + 1) : n >= 1 => Writes(at + 1)[n][1] # k
            BY <1>1, <1>2, <2>1, <4>1 DEF Ahead
      <4>4. at + 1 \in DOMAIN binlog => \A n \in DOMAIN Writes(at + 1) : n >= 1
            BY DEF CdcInv, LogOK, WritesApart
      <4>5. at + 1 \in DOMAIN binlog => ~WritesTo(at + 1, k)
            BY <4>3, <4>4 DEF WritesTo
      <4>6. \A f \in DOMAIN binlog : f > at => f > at + 1 \/ f = at + 1
            BY <1>3
      <4>7. QED BY <1>5, <3>1, <4>2, <4>5, <4>6
    <3>2. CASE write # Len(W)
      <4>1. at' = at /\ write' = write + 1
            BY <1>1, <1>4, <3>2
      <4>2. \A f \in DOMAIN binlog : f > at => ~WritesTo(f, k)
            BY <1>1, <1>2, <2>1, <4>1 DEF Ahead
      <4>3. \A n \in DOMAIN W : n >= write + 1 => W[n][1] # k
            BY <1>1, <1>2, <1>3, <1>4, <2>1, <4>1 DEF Ahead
      <4>4. QED BY <1>5, <4>2, <4>3
    <3>3. QED BY <3>1, <3>2
  <2>3. CASE k = p
    <3>1. d = RowDocument(s, k)
      <4>1. write \in DOMAIN W /\ W[write][1] = k /\ W[write][2] = d
            BY <1>5, <1>6, <2>3
      <4>2. write \in DOMAIN Writes(at) /\ Writes(at)[write][1] = k /\ Writes(at)[write][2] = d
            BY <1>4, <4>1
      <4>3. \A n \in DOMAIN Writes(at) : Writes(at)[n][1] = k => Writes(at)[n][2] = RowDocument(s, k)
            BY <1>3, <2>1, <2>2 DEF CdcInv, LatestMatches
      <4>4. QED BY <4>2, <4>3
    <3>2. QED BY <1>7, <2>3, <3>1
  <2>4. CASE k # p
    <3>1. \A n \in DOMAIN W : n >= write => W[n][1] # k
      <4>1. W[write][1] = p
            BY <1>6
      <4>2. QED BY <1>5, <2>2, <2>4, <4>1
    <3>2. ~Ahead(k)
          BY <1>4, <2>2, <3>1 DEF Ahead
    <3>3. doc[k] = RowDocument(s, k)
          BY <2>1, <3>2 DEF CdcInv, SettledMatch
    <3>4. QED BY <1>7, <2>4, <3>3
  <2>5. QED BY <2>3, <2>4
<1>12. QED BY <1>2, <1>8, <1>10, <1>11 DEF CdcInv

(* A write that failed, done or not, is still ahead. *)
LEMMA FailStep ==
    ASSUME CdcInv, WriteFails \/ CdcCrash \/ Purge
    PROVE  CdcInv'
<1>1. UNCHANGED <<table, used, binlog, at, write>>
      BY DEF WriteFails, CdcCrash, Purge
<1>2. LogOK' /\ LatestMatches' /\ (\A e : Writes(e)' = Writes(e))
      /\ (\A e, k : WritesTo(e, k)' <=> WritesTo(e, k))
      /\ \A s, k : RowDocument(s, k)' = RowDocument(s, k)
      BY <1>1, LogKept
<1>3. \A k : Ahead(k)' <=> Ahead(k)
      BY <1>1, <1>2 DEF Ahead
<1>4. PositionOK'
      BY <1>1, <1>2 DEF CdcInv, PositionOK
<1>5. CASE UNCHANGED doc
  <2>1. CdcTypeOK'
    <3>1. /\ oldest \in 1..Len(binlog) + 1 /\ at \in oldest..Len(binlog) + 1
          /\ binlog \in Seq([shard : Shards, changes : Seq(Change)])
          BY DEF CdcInv, CdcTypeOK, LogOK
    <3>2. cpc' \in {"down", "run"} /\ (oldest' = oldest \/ (oldest < at /\ oldest' = oldest + 1))
      <4>1. cpc \in {"down", "run"}
            BY DEF CdcInv, CdcTypeOK
      <4>2. CASE WriteFails
            BY <4>2 DEF WriteFails
      <4>3. CASE CdcCrash
            BY <4>3 DEF CdcCrash
      <4>4. CASE Purge
            BY <4>1, <4>4 DEF Purge
      <4>5. QED BY <4>2, <4>3, <4>4
    <3>3. oldest' \in 1..Len(binlog') + 1 /\ at' \in oldest'..Len(binlog') + 1
          BY <1>1, <3>1, <3>2
    <3>4. QED BY <1>1, <1>5, <3>2, <3>3 DEF CdcInv, CdcTypeOK, Document, Change
  <2>2. SettledMatch'
        BY <1>1, <1>2, <1>3, <1>5 DEF CdcInv, SettledMatch
  <2>3. QED BY <1>2, <1>4, <2>1, <2>2 DEF CdcInv
<1>6. CASE ~UNCHANGED doc
  <2>1. /\ cpc' = "down" /\ oldest' = oldest /\ at \in DOMAIN binlog
        /\ doc' = [doc EXCEPT ![Writes(at)[write][1]] = Writes(at)[write][2]]
        BY <1>6 DEF WriteFails, CdcCrash, Purge, CanWrite, Written, CdcInv, CdcTypeOK, LogOK
  <2>2. /\ Writes(at) \in Seq(WritePair) /\ write \in DOMAIN Writes(at) /\ write \in Nat
        BY <2>1 DEF CdcInv, LogOK, WritesApart, PositionOK, CdcTypeOK
  <2>3. PICK p \in PrimaryKeys, d \in Document \cup {NoRow} : Writes(at)[write] = <<p, d>>
        BY <2>2 DEF WritePair
  <2>4. doc \in [PrimaryKeys -> Document \cup {NoRow}] /\ doc' = [doc EXCEPT ![p] = d]
        BY <2>1, <2>3 DEF CdcInv, CdcTypeOK
  <2>5. CdcTypeOK'
    <3>1. doc' \in [PrimaryKeys -> Document \cup {NoRow}]
          BY <2>4
    <3>2. QED BY <1>1, <2>1, <3>1 DEF CdcInv, CdcTypeOK, Document, Change
  <2>6. Ahead(p)
    <3>1. Writes(at)[write][1] = p /\ write >= write
          BY <2>2, <2>3
    <3>2. QED BY <2>1, <2>2, <3>1 DEF Ahead
  <2>7. \A k \in PrimaryKeys : ~Ahead(k) => doc'[k] = doc[k]
        BY <2>4, <2>6
  <2>8. SettledMatch'
        BY <1>1, <1>2, <1>3, <2>7 DEF CdcInv, SettledMatch
  <2>9. QED BY <1>2, <1>4, <2>5, <2>8 DEF CdcInv
<1>7. QED BY <1>5, <1>6

(* Every step of MySQL and of cdc-sync keeps the invariant. *)
LEMMA CdcStepInv == CdcInv /\ [CdcNext]_cdcVars => CdcInv'
<1> SUFFICES ASSUME CdcInv, [CdcNext]_cdcVars PROVE CdcInv'
    OBVIOUS
<1>1. CASE UNCHANGED cdcVars
  <2>1. UNCHANGED <<table, used, binlog, oldest, cpc, at, write, doc>>
        BY <1>1 DEF cdcVars
  <2>2. LogOK' /\ LatestMatches' /\ (\A e : Writes(e)' = Writes(e))
        /\ (\A e, k : WritesTo(e, k)' <=> WritesTo(e, k))
        /\ \A s, k : RowDocument(s, k)' = RowDocument(s, k)
        BY <2>1, LogKept
  <2>3. \A k : Ahead(k)' <=> Ahead(k)
        BY <2>1, <2>2 DEF Ahead
  <2>4. PositionOK' /\ SettledMatch'
        BY <2>1, <2>2, <2>3 DEF CdcInv, PositionOK, SettledMatch
  <2>5. CdcTypeOK'
        BY <2>1 DEF CdcInv, CdcTypeOK, Document, Change
  <2>6. QED BY <2>2, <2>4, <2>5 DEF CdcInv
<1>2. CASE CdcNext
      BY <1>2, InsertStep, DeleteStep, UpdateStep, RunStep, WriteStep, FailStep DEF CdcNext
<1>3. QED BY <1>1, <1>2

(* Rows, log, positions and documents are well formed; the process is never   *)
(* at an event that MySQL has removed.                                      *)
THEOREM CdcTypeCorrect == CdcSpec => []CdcTypeOK
<1>1. CdcInv => CdcTypeOK
      BY DEF CdcInv
<1>2. QED BY <1>1, CdcInitInv, CdcStepInv, PTL DEF CdcSpec

(* When cdc-sync has caught up, after any number of failed writes, crashes in *)
(* the middle of an event and replays of OnRow, the documents of the keys    *)
(* that one shard alone ever used are its rows.                             *)
THEOREM CaughtUpMatches == CdcSpec => []DocumentsMatchRows
<1>1. CdcInv => DocumentsMatchRows
  <2> SUFFICES ASSUME CdcInv, CaughtUp, NEW k \in PrimaryKeys, NEW s \in Shards, used[k] = {s}
               PROVE  doc[k] = RowDocument(s, k)
      BY DEF DocumentsMatchRows, RowDocument
  <2>1. at \notin DOMAIN binlog /\ \A f \in DOMAIN binlog : ~(f > at)
        BY DEF CdcInv, LogOK, CaughtUp
  <2>2. ~Ahead(k)
        BY <2>1 DEF Ahead
  <2>3. QED BY <2>2 DEF CdcInv, SettledMatch
<1>2. QED BY <1>1, CdcInitInv, CdcStepInv, PTL DEF CdcSpec
==============================================================================
