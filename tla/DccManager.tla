----------------------------- MODULE DccManager -----------------------------
(***************************************************************************)
(* The dynamic configuration of one service process: loaded from etcd or,   *)
(* when etcd cannot be reached, from a snapshot file; replaced in memory    *)
(* when etcd reports a change; each configuration is saved to the snapshot  *)
(* by a goroutine of its own.  Versions are numbered as they are published. *)
(***************************************************************************)
EXTENDS Naturals, FiniteSets

CONSTANTS
    MaxConfig,       \* bound: versions published
    BadConfigs,      \* versions that cannot be parsed into conf.Dcc
    DccFaults        \* what may go wrong

DccFaultKinds ==
    {"etcdDown",     \* etcd cannot be reached at a start
     "dccCrash",     \* the process dies
     "saveError"}    \* a step of SaveSnapshot fails

ASSUME DccAssumption ==
    /\ MaxConfig \in Nat \ {0}
    /\ BadConfigs \subseteq 1..MaxConfig
    /\ DccFaults \subseteq DccFaultKinds

VARIABLES
    published,       \* newest version in etcd
    dpc,             \* "down", "loaded" (not watching yet), "watching", "fallback"
    mem,             \* version in Manager.value, 0 for the empty configuration
    notified,        \* newest version the watcher has reported
    saves,           \* versions whose SaveSnapshot has not taken the lock
    tmp,             \* version the lock's holder has written to the .tmp file, or 0
    disk,            \* version in the snapshot file, or 0; Torn if it cannot be parsed
    everSaved,       \* a snapshot has been in place (history)
    burst            \* oldest of the latest saves that overlapped, 0 after a failed one (history)

dccVars == <<published, dpc, mem, notified, saves, tmp, disk, everSaved, burst>>

ConfigVersions == 0..MaxConfig
Torn == MaxConfig + 1

(* Mutant: the result of Scan is not looked at. *)
TakesAny(v) == TRUE

(* value.Scan succeeds. *)
Parses(v) == v \notin BadConfigs

(* Versions are versions, a process that is down does nothing, and nothing  *)
(* but configurations that were published and parse is served or saved.     *)
DccTypeOK ==
    /\ published \in 1..MaxConfig
    /\ dpc \in {"down", "loaded", "watching", "fallback"}
    /\ mem \in ConfigVersions \ BadConfigs
    /\ notified \in ConfigVersions
    /\ saves \subseteq ConfigVersions \ BadConfigs
    /\ tmp \in ConfigVersions \ BadConfigs
    /\ disk \in (ConfigVersions \cup {Torn}) \ BadConfigs
    /\ everSaved \in BOOLEAN
    /\ burst \in ConfigVersions
    /\ \A v \in {mem, notified, tmp} \cup saves : v <= published
    /\ dpc = "down" => mem = 0 /\ saves = {} /\ tmp = 0
    /\ dpc \in {"loaded", "watching", "fallback"} => mem # 0

DccInit ==
    /\ published = 1
    /\ dpc = "down"
    /\ mem = 0
    /\ notified = 0
    /\ saves = {}
    /\ tmp = 0
    /\ disk = 0
    /\ everSaved = FALSE
    /\ burst = 0

-----------------------------------------------------------------------------
(* Manager *)

(* value.Store and go SaveSnapshot *)
StoreAndSave(v) ==
    /\ mem' = v
    /\ saves' = saves \cup {v}
    /\ burst' = IF saves = {} /\ tmp = 0 THEN v ELSE burst

(* etcd answers; a configuration that does not parse ends the process. *)
InitFromEtcd ==
    /\ dpc = "down"
    /\ Parses(published)
    /\ dpc' = "loaded"
    /\ notified' = published
    /\ StoreAndSave(published)
    /\ UNCHANGED <<published, tmp, disk, everSaved>>

(* The snapshot is served until the process ends: nothing watches etcd. *)
InitFromSnapshot ==
    /\ "etcdDown" \in DccFaults
    /\ dpc = "down"
    /\ disk \notin {0, Torn}
    /\ dpc' = "fallback"
    /\ mem' = disk
    /\ UNCHANGED <<published, notified, saves, tmp, disk, everSaved, burst>>

(* The goroutine started by Init registers its observer. *)
Watch ==
    /\ dpc = "loaded"
    /\ dpc' = "watching"
    /\ UNCHANGED <<published, mem, notified, saves, tmp, disk, everSaved, burst>>

(* Mutant: a change is stored by a goroutine of its own, in any order. *)
AnyReport == 1..published

(* The watcher reports what etcd holds now, one change after the other. *)
Report == {published}

(* Without an observer the change is taken note of and nothing else. *)
ChangeUnobserved ==
    /\ dpc = "loaded"
    /\ notified < published
    /\ notified' = published
    /\ UNCHANGED <<published, dpc, mem, saves, tmp, disk, everSaved, burst>>

(* The observer: a configuration that does not parse is ignored. *)
OnChange ==
    /\ dpc = "watching"
    /\ notified < published
    /\ \E v \in Report :
          IF Parses(v) THEN StoreAndSave(v) ELSE UNCHANGED <<mem, saves, burst>>
    /\ notified' = published
    /\ UNCHANGED <<published, dpc, tmp, disk, everSaved>>

-----------------------------------------------------------------------------
(* Fallback *)

(* Mutant: the snapshot is written in place. *)
InPlace(v) == Torn

(* The snapshot file while the holder of the lock writes. *)
WhileWriting(v) == disk

(* Some goroutine takes the lock and writes the temporary file. *)
WriteTmp(v) ==
    /\ tmp = 0
    /\ v \in saves
    /\ saves' = saves \ {v}
    /\ tmp' = v
    /\ disk' = WhileWriting(v)
    /\ UNCHANGED <<published, dpc, mem, notified, everSaved, burst>>

(* Mutant: an existing file is not replaced. *)
KeepExisting == IF disk = 0 THEN tmp ELSE disk

Replaced == tmp

Rename ==
    /\ tmp # 0
    /\ disk' = Replaced
    /\ everSaved' = TRUE
    /\ tmp' = 0
    /\ UNCHANGED <<published, dpc, mem, notified, saves, burst>>

(* MkdirAll, WriteFile or Rename fails; the error is logged. *)
SaveFails ==
    /\ "saveError" \in DccFaults
    /\ \/ tmp # 0 /\ tmp' = 0 /\ UNCHANGED saves
       \/ tmp = 0 /\ (\E v \in saves : saves' = saves \ {v}) /\ UNCHANGED tmp
    /\ burst' = 0
    /\ UNCHANGED <<published, dpc, mem, notified, disk, everSaved>>

-----------------------------------------------------------------------------
(* The environment *)

PublishConfig ==
    /\ published < MaxConfig
    /\ published' = published + 1
    /\ UNCHANGED <<dpc, mem, notified, saves, tmp, disk, everSaved, burst>>

DccCrash ==
    /\ "dccCrash" \in DccFaults
    /\ dpc # "down"
    /\ dpc' = "down"
    /\ mem' = 0
    /\ saves' = {}
    /\ tmp' = 0
    /\ burst' = 0
    /\ UNCHANGED <<published, notified, disk, everSaved>>

DccNext ==
    \/ InitFromEtcd
    \/ InitFromSnapshot
    \/ Watch
    \/ ChangeUnobserved
    \/ OnChange
    \/ \E v \in ConfigVersions : WriteTmp(v)
    \/ Rename
    \/ SaveFails
    \/ PublishConfig
    \/ DccCrash

DccSpec == DccInit /\ [][DccNext]_dccVars

-----------------------------------------------------------------------------
(* Properties *)

(* Once a snapshot was in place there is one that parses, whatever step of   *)
(* SaveSnapshot fails and wherever the process dies: a start without etcd    *)
(* succeeds from then on.                                                   *)
SnapshotSurvives == everSaved => disk \notin {0, Torn}

(* Saves that overlap may end in any order, so that the snapshot is not the  *)
(* configuration in memory; but it is never older than the first of them.   *)
SnapshotKeepsUp == dpc # "down" /\ saves = {} /\ tmp = 0 => disk >= burst

(* As long as a process lives it never goes back to an older configuration. *)
MemoryGoesForward == [][dpc # "down" /\ dpc' # "down" => mem' >= mem]_dccVars
=============================================================================
