------------------------- MODULE PgUpgrade_proofs -------------------------
(***************************************************************************)
(* Proofs about PgUpgrade, for any number of hosts, failures and rollbacks:*)
(* type correctness, that the files two versions link to are never run by  *)
(* both, that an upgrade starts from every transaction, and that what the  *)
(* playbooks report is true.                                               *)
(***************************************************************************)
EXTENDS PgUpgrade, TLAPS

-----------------------------------------------------------------------------
(***************************************************************************)
(* Type correctness                                                        *)
(***************************************************************************)

(* The hosts and the cluster, and where the playbook is.                   *)
hostVars == <<configVars, patroni, serverVars, fileVars, clusterVars, pools>>

HostsOK ==
  /\ config  \in [Hosts -> Configs]
  /\ bkp     \in [Hosts -> Configs \cup {"none"}]
  /\ patroni \in [Hosts -> Versions \cup {"off"}]
  /\ server  \in [Hosts -> Versions \cup {"none"}]
  /\ newData \in [Hosts -> {"none", "empty", "fresh", "partial", "upgraded", "stale"}]
  /\ oldData \in [Hosts -> {"intact", "renamed", "broken", "gone"}]
  /\ shared  \in [Hosts -> {"apart", "untouched", "old", "new"}]
  /\ writers \subseteq Hosts /\ whole \subseteq Hosts /\ pools \subseteq Hosts
  /\ dcs \in Versions \cup {"other", None}
  /\ leader \in Hosts \cup {None}
  /\ paused \in BOOLEAN

ControlOK ==
  /\ pc \in UpgradeTasks \cup RollbackTasks \cup {"idle"}
  /\ primary \in Hosts /\ secondary \subseteq Hosts \ {primary}
  /\ scope \subseteq {primary} \cup secondary
  /\ report \in {"none", "aborted", "upgraded", "rolled_back"}
  /\ {upgrades, rollbacks, faults, accidents} \subseteq Nat

(* TypeOK in two parts: what tasks do to hosts, and where the playbook is. *)
LEMMA TypeParts ==
  /\ TypeOK <=> HostsOK /\ ControlOK
  /\ TypeOK' <=> HostsOK' /\ ControlOK'
  BY DEF TypeOK, HostsOK, ControlOK

(* A task goes on to t, the playbook ends, or rollback.yml is included.    *)
MovesTo(t) ==
  /\ UNCHANGED <<primary, secondary, upgrades, rollbacks, accidents>>
  /\ pc' \in {t, "idle", "rb_cluster"}
  /\ scope' \in {scope, {primary}, Group}
  /\ report' \in {report, "aborted", "upgraded", "rolled_back"}
  /\ faults' \in {faults, faults + 1}

(* However a task ends, the playbook is at a task or idle.                 *)
LEMMA MovesOK ==
  ASSUME ControlOK, NEW t \in UpgradeTasks \cup RollbackTasks, MovesTo(t)
  PROVE  ControlOK'
<1>1. pc' \in UpgradeTasks \cup RollbackTasks \cup {"idle"}
  BY DEF MovesTo, RollbackTasks
<1>2. faults' \in Nat
  BY DEF ControlOK, MovesTo
<1>3. QED
  BY <1>1, <1>2 DEF ControlOK, MovesTo, Group

(* One step per task of pg_upgrade.yml. *)
LEMMA UpgradeControl == ControlOK /\ Upgrade => ControlOK'
<1> SUFFICES ASSUME ControlOK, Upgrade PROVE ControlOK'
  OBVIOUS
<1>a. ASSUME NEW t \in UpgradeTasks, MovesTo(t) PROVE ControlOK'
  BY <1>a, MovesOK
<1> USE DEF UpgradeTasks, MovesTo, Task, Unless, Await, On, Ignoring, Ok, Fault, GoTo, End,
            Abort, Include
<1>1. CASE PreChecks
  <2>1. MovesTo("initdb")
    BY <1>1 DEF PreChecks
  <2>2. QED
    BY <2>1, <1>a
<1>2. CASE Initdb
  <2>1. MovesTo("backup_config")
    BY <1>2 DEF Initdb
  <2>2. QED
    BY <2>1, <1>a
<1>3. CASE BackupConfig
  <2>1. MovesTo("edit_config")
    BY <1>3 DEF BackupConfig
  <2>2. QED
    BY <2>1, <1>a
<1>4. CASE EditConfig
  <2>1. MovesTo("pause")
    BY <1>4 DEF EditConfig
  <2>2. QED
    BY <2>1, <1>a
<1>5. CASE Pause
  <2>1. MovesTo("stop_patroni")
    BY <1>5 DEF Pause
  <2>2. QED
    BY <2>1, <1>a
<1>6. CASE StopPatroniService
  <2>1. MovesTo("checkpoint")
    BY <1>6 DEF StopPatroniService
  <2>2. QED
    BY <2>1, <1>a
<1>7. CASE Checkpoint
  <2>1. MovesTo("replication_lag")
    BY <1>7 DEF Checkpoint
  <2>2. QED
    BY <2>1, <1>a
<1>8. CASE ReplicationLag
  <2>1. MovesTo("pause_pools")
    BY <1>8 DEF ReplicationLag
  <2>2. QED
    BY <2>1, <1>a
<1>9. CASE PausePools
  <2>1. MovesTo("stop_primary")
    BY <1>9 DEF PausePools
  <2>2. QED
    BY <2>1, <1>a
<1>10. CASE StopPrimary
  <2>1. MovesTo("stop_replicas")
    BY <1>10 DEF StopPrimary, StopServers
  <2>2. QED
    BY <2>1, <1>a
<1>11. CASE StopReplicas
  <2>1. MovesTo("checkpoint_location")
    BY <1>11 DEF StopReplicas, StopServers
  <2>2. QED
    BY <2>1, <1>a
<1>12. CASE CheckpointLocation
  <2>1. MovesTo("pg_upgrade")
    BY <1>12 DEF CheckpointLocation
  <2>2. QED
    BY <2>1, <1>a
<1>13. CASE UpgradePrimary
  <2>1. MovesTo("clear_replicas")
    BY <1>13 DEF UpgradePrimary
  <2>2. QED
    BY <2>1, <1>a
<1>14. CASE ClearReplicas
  <2>1. MovesTo("rsync")
    BY <1>14 DEF ClearReplicas
  <2>2. QED
    BY <2>1, <1>a
<1>15. CASE Rsync
  <2>1. MovesTo("remove_cluster")
    BY <1>15 DEF Rsync
  <2>2. QED
    BY <2>1, <1>a
<1>16. CASE RemoveCluster
  <2>1. MovesTo("start_leader")
    BY <1>16 DEF RemoveCluster
  <2>2. QED
    BY <2>1, <1>a
<1>17. CASE StartLeader
  <2>1. MovesTo("await_leader")
    BY <1>17 DEF StartLeader
  <2>2. QED
    BY <2>1, <1>a
<1>18. CASE AwaitLeader
  <2>1. MovesTo("resume_leader")
    BY <1>18 DEF AwaitLeader
  <2>2. QED
    BY <2>1, <1>a
<1>19. CASE ResumeLeader
  <2>1. MovesTo("start_replicas")
    BY <1>19 DEF ResumeLeader, ResumePools
  <2>2. QED
    BY <2>1, <1>a
<1>20. CASE StartReplicas
  <2>1. MovesTo("await_replicas")
    BY <1>20 DEF StartReplicas
  <2>2. QED
    BY <2>1, <1>a
<1>21. CASE AwaitReplicas
  <2>1. MovesTo("resume_replicas")
    BY <1>21 DEF AwaitReplicas
  <2>2. QED
    BY <2>1, <1>a
<1>22. CASE ResumeReplicas
  <2>1. MovesTo("isready")
    BY <1>22 DEF ResumeReplicas, ResumePools
  <2>2. QED
    BY <2>1, <1>a
<1>23. CASE IsReady
  <2>1. MovesTo("extensions")
    BY <1>23 DEF IsReady
  <2>2. QED
    BY <2>1, <1>a
<1>24. CASE Extensions
  <2>1. MovesTo("post_upgrade")
    BY <1>24 DEF Extensions
  <2>2. QED
    BY <2>1, <1>a
<1>25. CASE PostUpgrade
  <2>1. MovesTo("post_upgrade")
    BY <1>25 DEF PostUpgrade
  <2>2. QED
    BY <2>1, <1>a
<1>26. QED
  BY <1>1, <1>2, <1>3, <1>4, <1>5, <1>6, <1>7, <1>8, <1>9, <1>10, <1>11, <1>12, <1>13,
     <1>14, <1>15, <1>16, <1>17, <1>18, <1>19, <1>20, <1>21, <1>22, <1>23, <1>24, <1>25
     DEF Upgrade

(* One step per task of rollback.yml. *)
LEMMA RollbackControls == ControlOK /\ Rollback => ControlOK'
<1> SUFFICES ASSUME ControlOK, Rollback PROVE ControlOK'
  OBVIOUS
<1>a. ASSUME NEW t \in RollbackTasks, MovesTo(t) PROVE ControlOK'
  BY <1>a, MovesOK
<1> USE DEF RollbackTasks, MovesTo, Task, Unless, Await, On, Ignoring, Ok, Fault, GoTo, End,
            Abort
<1>1. CASE RollbackCluster
  <2>1. MovesTo("rb_new")
    BY <1>1 DEF RollbackCluster
  <2>2. QED
    BY <2>1, <1>a
<1>2. CASE RollbackNewStopped
  <2>1. MovesTo("rb_control")
    BY <1>2 DEF RollbackNewStopped
  <2>2. QED
    BY <2>1, <1>a
<1>3. CASE RollbackControl
  <2>1. MovesTo("rb_version")
    BY <1>3 DEF RollbackControl
  <2>2. QED
    BY <2>1, <1>a
<1>4. CASE RollbackVersion
  <2>1. MovesTo("rb_config")
    BY <1>4 DEF RollbackVersion
  <2>2. QED
    BY <2>1, <1>a
<1>5. CASE RollbackConfig
  <2>1. MovesTo("rb_paths")
    BY <1>5 DEF RollbackConfig
  <2>2. QED
    BY <2>1, <1>a
<1>6. CASE RollbackPaths
  <2>1. MovesTo("rb_start_leader")
    BY <1>6 DEF RollbackPaths
  <2>2. QED
    BY <2>1, <1>a
<1>7. CASE RollbackStartLeader
  <2>1. MovesTo("rb_resume")
    BY <1>7 DEF RollbackStartLeader
  <2>2. QED
    BY <2>1, <1>a
<1>8. CASE RollbackResume
  <2>1. MovesTo("rb_await_leader")
    BY <1>8 DEF RollbackResume
  <2>2. QED
    BY <2>1, <1>a
<1>9. CASE RollbackAwaitLeader
  <2>1. MovesTo("rb_start_replicas")
    BY <1>9 DEF RollbackAwaitLeader
  <2>2. QED
    BY <2>1, <1>a
<1>10. CASE RollbackStartReplicas
  <2>1. MovesTo("rb_await_replicas")
    BY <1>10 DEF RollbackStartReplicas
  <2>2. QED
    BY <2>1, <1>a
<1>11. CASE RollbackAwaitReplicas
  <2>1. MovesTo("rb_pools")
    BY <1>11 DEF RollbackAwaitReplicas
  <2>2. QED
    BY <2>1, <1>a
<1>12. CASE RollbackPools
  <2>1. MovesTo("rb_isready")
    BY <1>12 DEF RollbackPools, ResumePools
  <2>2. QED
    BY <2>1, <1>a
<1>13. CASE RollbackCompleted
  <2>1. MovesTo("rb_isready")
    BY <1>13 DEF RollbackCompleted
  <2>2. QED
    BY <2>1, <1>a
<1>14. QED
  BY <1>1, <1>2, <1>3, <1>4, <1>5, <1>6, <1>7, <1>8, <1>9, <1>10, <1>11, <1>12, <1>13
     DEF Rollback

(* Every step leaves the playbook's place well typed: a run starts with the*)
(* leader, or with the inventory's master.                                 *)
LEMMA ControlStep == HostsOK /\ ControlOK /\ [Next]_vars => ControlOK'
<1> SUFFICES ASSUME HostsOK, ControlOK, [Next]_vars PROVE ControlOK'
  OBVIOUS
<1>1. CASE StartUpgrade
  BY <1>1 DEF StartUpgrade, ControlOK, UpgradeTasks, Abort, End
<1>2. CASE StartRollback
  BY <1>2, ConstantsAssumption DEF StartRollback, ControlOK, RollbackTasks
<1>3. ASSUME NEW h \in Hosts, Patroni(h) \/ Commit(h) \/ Stream(h) \/ GoDown(h)
      PROVE  ControlOK'
  BY <1>3 DEF Patroni, Commit, Stream, GoDown, PatroniStep, playVars, ControlOK
<1>4. CASE LockExpires \/ UNCHANGED vars
  BY <1>4 DEF LockExpires, PatroniStep, playVars, vars, ControlOK
<1>5. QED
  BY <1>1, <1>2, <1>3, <1>4, UpgradeControl, RollbackControls DEF Next

(* Tasks and starts that only look at the hosts.                           *)
Looks ==
  \/ PreChecks \/ Checkpoint \/ ReplicationLag \/ CheckpointLocation \/ AwaitLeader
  \/ AwaitReplicas \/ IsReady \/ Extensions
  \/ RollbackCluster \/ RollbackNewStopped \/ RollbackVersion \/ RollbackAwaitLeader
  \/ RollbackAwaitReplicas \/ RollbackCompleted
  \/ StartUpgrade \/ StartRollback

(* They leave them as they are.                                            *)
LEMMA LooksKeeps == Looks => UNCHANGED hostVars
  BY DEF Looks, hostVars, PreChecks, Checkpoint, ReplicationLag, CheckpointLocation,
         AwaitLeader, AwaitReplicas, IsReady, Extensions, RollbackCluster,
         RollbackNewStopped, RollbackVersion, RollbackAwaitLeader, RollbackAwaitReplicas,
         RollbackCompleted, StartUpgrade, StartRollback

(* What the other tasks do to the hosts, and Patroni, servers and accidents*)
(* on their own.                                                           *)
LEMMA HostsStep == HostsOK /\ ControlOK /\ [Next]_vars => HostsOK'
<1> SUFFICES ASSUME HostsOK, ControlOK, [Next]_vars PROVE HostsOK'
  OBVIOUS
<1> USE DEF HostsOK, configVars, serverVars, fileVars, clusterVars, Versions, Configs, Put,
            Paths, Group
<1>1. CASE Looks \/ UNCHANGED vars
  BY <1>1, LooksKeeps DEF hostVars, vars
<1>2. CASE Initdb
  BY <1>2 DEF Initdb
<1>3. CASE BackupConfig \/ EditConfig \/ RollbackConfig \/ RollbackPaths
  BY <1>3 DEF BackupConfig, EditConfig, RollbackConfig, RollbackPaths
<1>4. CASE Pause \/ RemoveCluster \/ RollbackResume
  BY <1>4 DEF Pause, RemoveCluster, RollbackResume
<1>5. CASE \/ StopPatroniService \/ StartLeader \/ StartReplicas
           \/ RollbackStartLeader \/ RollbackStartReplicas
  BY <1>5 DEF StopPatroniService, StopPatroni, StartLeader, StartReplicas,
              RollbackStartLeader, RollbackStartReplicas, StartPatroni
<1>6. CASE PausePools \/ ResumeLeader \/ ResumeReplicas \/ RollbackPools
  BY <1>6 DEF PausePools, ResumeLeader, ResumeReplicas, RollbackPools, ResumePools, ControlOK
<1>7. CASE StopPrimary \/ StopReplicas
  BY <1>7 DEF StopPrimary, StopReplicas, StopServers
<1>8. CASE UpgradePrimary
  BY <1>8 DEF UpgradePrimary
<1>9. CASE ClearReplicas
  BY <1>9 DEF ClearReplicas
<1>10. CASE Rsync
  BY <1>10 DEF Rsync, ControlOK
<1>11. CASE PostUpgrade \/ RollbackControl
  BY <1>11 DEF PostUpgrade, RollbackControl
<1>12. ASSUME NEW h \in Hosts, Patroni(h) PROVE HostsOK'
  BY <1>12 DEF Patroni, PatroniStep, Register, CanRegister, Id, DataId, RestartPatroni, Run,
               CanRun, IsMember, Lead, StepDown, Rewound
<1>13. ASSUME NEW h \in Hosts, Commit(h) \/ Stream(h) \/ GoDown(h) PROVE HostsOK'
  BY <1>13 DEF Commit, Stream, GoDown, PatroniStep
<1>14. CASE LockExpires
  BY <1>14 DEF LockExpires, PatroniStep
<1>15. QED
  BY <1>1, <1>2, <1>3, <1>4, <1>5, <1>6, <1>7, <1>8, <1>9, <1>10, <1>11, <1>12, <1>13, <1>14
     DEF Next, Upgrade, Rollback, Looks

(* A cluster of the old version in order, and no playbook running.         *)
LEMMA TypeInit == Init => HostsOK /\ ControlOK
<1>1. ASSUME Init PROVE HostsOK
  <2>1. /\ config \in [Hosts -> Configs] /\ bkp \in [Hosts -> Configs \cup {"none"}]
        /\ patroni \in [Hosts -> Versions \cup {"off"}]
        /\ server \in [Hosts -> Versions \cup {"none"}]
    BY <1>1 DEF Init, Versions, Configs
  <2>2. QED
    BY <1>1, <2>1 DEF Init, HostsOK, Versions
<1>2. Init => ControlOK
  BY ConstantsAssumption DEF Init, ControlOK
<1>3. QED
  BY <1>1, <1>2

(* Every reachable state is well typed.                                    *)
THEOREM TypeCorrect == Spec => []TypeOK
<1>1. HostsOK /\ ControlOK /\ [Next]_vars => (HostsOK /\ ControlOK)'
  BY HostsStep, ControlStep
<1>2. QED
  BY <1>1, TypeInit, TypeParts, PTL DEF Spec

-----------------------------------------------------------------------------
(***************************************************************************)
(* The files both versions link to                                         *)
(***************************************************************************)

(* The tasks of an upgrade after the removal of the cluster, those between *)
(* the pre-checks and it, and what holds from some of them on.             *)
LastTasks   == {"start_leader", "await_leader", "resume_leader", "start_replicas",
                "await_replicas", "resume_replicas", "isready", "extensions",
                "post_upgrade"}
EarlyTasks  == UpgradeTasks \ (LastTasks \cup {"pre_checks"})
LinkTasks   == {"pg_upgrade", "clear_replicas", "rsync"}
DownTasks   == LinkTasks \cup {"checkpoint_location", "remove_cluster"}
StopTasks   == DownTasks \cup {"stop_replicas"}
AloneTasks  == StopTasks \cup {"checkpoint", "replication_lag", "pause_pools", "stop_primary"}
PausedTasks == AloneTasks \cup {"stop_patroni"}
EditedTasks == PausedTasks \cup LastTasks \cup {"pause"}
ClearTasks  == EarlyTasks \ {"initdb", "clear_replicas", "rsync", "remove_cluster"}

(* Those of a rollback that start Patroni, and follow it.                  *)
RestartTasks == {"rb_start_leader", "rb_resume", "rb_await_leader", "rb_start_replicas",
                 "rb_await_replicas", "rb_pools", "rb_isready"}

(* The cluster in the DCS is the old one until it is removed.              *)
DcsInv ==
  /\ dcs = None => leader = None
  /\ dcs # "old" /\ leader # None => server[leader] # "old"
  /\ pc = "pre_checks" => dcs # None /\ (dcs # "old" => server[primary] # "old")
  /\ pc \in EarlyTasks => dcs = "old"
  /\ pc \in RollbackTasks => primary \in scope

(* As long as it is, and until another one is registered, the new version  *)
(* has run nowhere; then the old one runs nowhere.                         *)
DataInv ==
  \A h \in Hosts :
    /\ dcs \in {"old", None} =>
         shared[h] # "new" /\ server[h] # "new" /\ oldData[h] # "gone"
    /\ newData[h] = "fresh" => shared[h] = "apart"
    /\ dcs \in {"new", None} /\ newData[h] = "upgraded" => shared[h] # "old"

(* What the tasks of an upgrade have done to the hosts of the group.       *)
GroupInv ==
  /\ pc \in EditedTasks => \A h \in Group : config[h] = "new"
  /\ pc \in AloneTasks \cup LastTasks => \A h \in Group : patroni[h] # "old"
  /\ pc \in StopTasks => server[primary] = "none"
  /\ pc \in DownTasks => \A h \in Group : server[h] = "none"

Linked(h) == newData[h] = "upgraded" /\ oldData[h] = "renamed" /\ shared[h] = "untouched"

(* No host has an upgraded directory but those the files are linked on.    *)
LinkInv ==
  /\ pc \in ClearTasks => \A h \in Hosts : newData[h] # "upgraded"
  /\ pc \in {"clear_replicas", "rsync"} =>
       Linked(primary) /\ \A h \in Hosts \ {primary} : newData[h] # "upgraded"
  /\ pc = "rsync" => \A h \in secondary : shared[h] = "apart"
  /\ pc = "remove_cluster" =>
       /\ \A h \in Group : Linked(h)
       /\ \A h \in Hosts \ Group : newData[h] # "upgraded"
  /\ pc \in LastTasks => \A h \in Group :
       /\ newData[h] = "upgraded" /\ oldData[h] \in {"renamed", "gone"}
       /\ shared[h] \in {"untouched", "new"} /\ server[h] # "old"
       /\ server[h] = "new" => shared[h] = "new"

(* Patroni never has the new paths where the old server runs.              *)
PathsInv ==
  /\ \A h \in Hosts : patroni[h] = "new" => server[h] # "old"
  /\ pc \in RestartTasks => \A h \in scope : config[h] # "new"

(* As long as no host has gone down, none can register the data of an      *)
(* earlier upgrade.                                                        *)
CalmInv ==
  accidents = 0 =>
    /\ dcs # "other"
    /\ pc = "pre_checks" => \A h \in Hosts \ Group : patroni[h] = "off"
    /\ pc \in EarlyTasks => \A h \in Hosts : patroni[h] # "new"
    /\ dcs = None => \A h \in Hosts : patroni[h] = "new" => newData[h] = "upgraded"

(* Before the second upgrade there are none.                               *)
FirstInv ==
  /\ upgrades = 0 => pc \notin UpgradeTasks
  /\ upgrades = 0 \/ (upgrades <= 1 /\ pc \in {"pre_checks", "initdb"}) =>
       \A h \in Hosts : newData[h] # "upgraded"
  /\ upgrades <= 1 => \A h \in Hosts : newData[h] # "stale"

StageInv == DcsInv /\ DataInv /\ GroupInv /\ LinkInv /\ PathsInv /\ CalmInv /\ FirstInv
FilesInv == HostsOK /\ ControlOK /\ StageInv

(* Nothing is linked, nothing is removed, and no playbook runs.            *)
LEMMA FilesInit == Init => FilesInv
<1> SUFFICES ASSUME Init PROVE StageInv
  BY TypeInit DEF FilesInv
<1>1. DcsInv /\ DataInv /\ PathsInv /\ CalmInv /\ FirstInv
  BY ConstantsAssumption
     DEF Init, DcsInv, DataInv, PathsInv, CalmInv, FirstInv, EarlyTasks, UpgradeTasks,
         RollbackTasks, RestartTasks
<1>2. GroupInv /\ LinkInv
  BY DEF Init, GroupInv, LinkInv, ClearTasks, EarlyTasks, UpgradeTasks, EditedTasks,
         PausedTasks, AloneTasks, StopTasks, DownTasks, LinkTasks, LastTasks
<1>3. QED
  BY <1>1, <1>2 DEF StageInv

(* One step per task of pg_upgrade.yml. *)
LEMMA UpgradeStage == FilesInv /\ Upgrade => StageInv'
<1> SUFFICES ASSUME FilesInv, Upgrade PROVE StageInv'
  OBVIOUS
<1> USE ConstantsAssumption
    DEF FilesInv, HostsOK, ControlOK, StageInv, DcsInv, DataInv, GroupInv, LinkInv, Linked,
        PathsInv, CalmInv, FirstInv, LastTasks, EarlyTasks, LinkTasks, DownTasks, StopTasks,
        AloneTasks, PausedTasks, EditedTasks, ClearTasks, RestartTasks, UpgradeTasks,
        RollbackTasks, Versions, Configs, Group, Up, Put, configVars, serverVars, fileVars,
        clusterVars, Task, Unless, Await, On, Ignoring, Ok, GoTo, End, Abort, Include
<1>1. CASE PreChecks
  BY <1>1 DEF PreChecks
<1>2. CASE Initdb
  BY <1>2 DEF Initdb
<1>3. CASE BackupConfig
  BY <1>3 DEF BackupConfig
<1>4. CASE EditConfig
  BY <1>4 DEF EditConfig
<1>5. CASE Pause
  BY <1>5 DEF Pause
<1>6. CASE StopPatroniService
  BY <1>6 DEF StopPatroniService, StopPatroni
<1>7. CASE Checkpoint \/ ReplicationLag \/ PausePools
  BY <1>7 DEF Checkpoint, ReplicationLag, PausePools
<1>8. CASE StopPrimary
  BY <1>8 DEF StopPrimary, StopServers
<1>9. CASE StopReplicas
  BY <1>9 DEF StopReplicas, StopServers
<1>10. CASE CheckpointLocation
  BY <1>10 DEF CheckpointLocation
<1>11. CASE UpgradePrimary
  BY <1>11 DEF UpgradePrimary
<1>12. CASE ClearReplicas
  BY <1>12 DEF ClearReplicas
<1>13. CASE Rsync
  BY <1>13 DEF Rsync
<1>14. CASE RemoveCluster
  BY <1>14 DEF RemoveCluster
<1>15. CASE StartLeader
  BY <1>15 DEF StartLeader, StartPatroni, Paths
<1>16. CASE AwaitLeader \/ ResumeLeader
  BY <1>16 DEF AwaitLeader, ResumeLeader, ResumePools
<1>17. CASE StartReplicas
  BY <1>17 DEF StartReplicas, StartPatroni, Paths
<1>18. CASE AwaitReplicas \/ ResumeReplicas \/ IsReady \/ Extensions
  BY <1>18 DEF AwaitReplicas, ResumeReplicas, ResumePools, IsReady, Extensions
<1>19. CASE PostUpgrade
  BY <1>19 DEF PostUpgrade
<1>20. QED
  BY <1>1, <1>2, <1>3, <1>4, <1>5, <1>6, <1>7, <1>8, <1>9, <1>10, <1>11, <1>12, <1>13,
     <1>14, <1>15, <1>16, <1>17, <1>18, <1>19
     DEF Upgrade

(* One step per task of rollback.yml, and the start of a playbook. *)
LEMMA RollbackStage == FilesInv /\ (Rollback \/ StartUpgrade \/ StartRollback) => StageInv'
<1> SUFFICES ASSUME FilesInv, Rollback \/ StartUpgrade \/ StartRollback PROVE StageInv'
  OBVIOUS
<1> USE ConstantsAssumption
    DEF FilesInv, HostsOK, ControlOK, StageInv, DcsInv, DataInv, GroupInv, LinkInv, PathsInv,
        CalmInv, FirstInv, LastTasks, EarlyTasks, LinkTasks, DownTasks, StopTasks,
        AloneTasks, PausedTasks, EditedTasks, ClearTasks, RestartTasks, UpgradeTasks,
        RollbackTasks, Versions, Configs, Group, Up, Put, Paths, configVars, serverVars,
        fileVars, clusterVars, Task, Unless, Await, On, Ignoring, Ok, GoTo, End, Abort
<1>1. CASE RollbackCluster \/ RollbackNewStopped
  BY <1>1 DEF RollbackCluster, RollbackNewStopped
<1>2. CASE RollbackControl
  BY <1>2 DEF RollbackControl
<1>3. CASE RollbackVersion
  BY <1>3 DEF RollbackVersion
<1>4. CASE RollbackConfig
  BY <1>4 DEF RollbackConfig
<1>5. CASE RollbackPaths
  BY <1>5 DEF RollbackPaths
<1>6. CASE RollbackStartLeader
  BY <1>6 DEF RollbackStartLeader, StartPatroni
<1>7. CASE RollbackResume
  BY <1>7 DEF RollbackResume
<1>8. CASE RollbackAwaitLeader
  BY <1>8 DEF RollbackAwaitLeader
<1>9. CASE RollbackStartReplicas
  BY <1>9 DEF RollbackStartReplicas, StartPatroni
<1>10. CASE RollbackAwaitReplicas \/ RollbackPools \/ RollbackCompleted
  BY <1>10 DEF RollbackAwaitReplicas, RollbackPools, ResumePools, RollbackCompleted
<1>11. CASE StartUpgrade
  BY <1>11 DEF StartUpgrade, Leads
<1>12. CASE StartRollback
  BY <1>12 DEF StartRollback
<1>13. QED
  BY <1>1, <1>2, <1>3, <1>4, <1>5, <1>6, <1>7, <1>8, <1>9, <1>10, <1>11, <1>12 DEF Rollback

(* What Patroni runs is the version the cluster in the DCS is of.          *)
LEMMA RunsItsVersion ==
  ASSUME HostsOK, NEW h \in Hosts, CanRun(h)
  PROVE  /\ dcs # None /\ server[h] = "none" /\ ~paused
         /\ patroni[h] = "old" => dcs = "old" /\ oldData[h] = "intact"
         /\ patroni[h] = "new" =>
              \/ dcs = "new" /\ newData[h] = "upgraded"
              \/ dcs = "other" /\ newData[h] \in {"fresh", "stale"}
         /\ patroni[h] \in Versions
  BY ConstantsAssumption DEF HostsOK, CanRun, IsMember, Id, DataId, Up, Versions

(* Patroni and the servers.                                                *)
LEMMA OthersStage ==
  ASSUME FilesInv, PatroniStep,
         LockExpires \/ \E h \in Hosts : Patroni(h) \/ Commit(h) \/ Stream(h)
  PROVE  StageInv'
<1> USE ConstantsAssumption
    DEF FilesInv, HostsOK, ControlOK, StageInv, DcsInv, DataInv, GroupInv, LinkInv, Linked,
        PathsInv, CalmInv, FirstInv, LastTasks, EarlyTasks, LinkTasks, DownTasks, StopTasks,
        AloneTasks, PausedTasks, EditedTasks, ClearTasks, RestartTasks, UpgradeTasks,
        RollbackTasks, Versions, Configs, Group, Up, Put, Paths, PatroniStep, configVars,
        serverVars, playVars, clusterVars
<1>1. ASSUME NEW h \in Hosts, Register(h) PROVE StageInv'
  BY <1>1 DEF Register, CanRegister, Id, DataId
<1>2. ASSUME NEW h \in Hosts, RestartPatroni(h) PROVE StageInv'
  BY <1>2 DEF RestartPatroni, CanRestart, Id, DataId
<1>3. ASSUME NEW h \in Hosts, Run(h) PROVE StageInv'
  BY <1>3 DEF Run, CanRun, IsMember, Id, DataId
<1>4. ASSUME NEW h \in Hosts, Lead(h) PROVE StageInv'
  BY <1>4 DEF Lead, CanLead, IsMember, Id, DataId
<1>5. ASSUME NEW h \in Hosts, StepDown(h) \/ Commit(h) \/ Stream(h) PROVE StageInv'
  BY <1>5 DEF StepDown, Commit, Stream
<1>6. CASE LockExpires
  BY <1>6 DEF LockExpires
<1>7. QED
  BY <1>1, <1>2, <1>3, <1>4, <1>5, <1>6 DEF Patroni

(* A host that comes back has the paths that are in patroni.yml.           *)
LEMMA GoDownStage == ASSUME FilesInv, NEW h \in Hosts, GoDown(h) PROVE StageInv'
  BY DEF GoDown, FilesInv, HostsOK, ControlOK, StageInv, DcsInv, DataInv, GroupInv, LinkInv,
         Linked, PathsInv, CalmInv, FirstInv, LastTasks, EarlyTasks, LinkTasks, DownTasks,
         StopTasks, AloneTasks, PausedTasks, EditedTasks, ClearTasks, RestartTasks,
         UpgradeTasks, RollbackTasks, Versions, Configs, Group, Up, Put, Paths, configVars,
         fileVars, playVars

(* Every step keeps the invariant.                                         *)
LEMMA FilesStep == FilesInv /\ [Next]_vars => FilesInv'
<1> SUFFICES ASSUME FilesInv, [Next]_vars PROVE StageInv'
  BY HostsStep, ControlStep DEF FilesInv
<1>1. CASE LockExpires \/ \E h \in Hosts : Patroni(h) \/ Commit(h) \/ Stream(h)
  BY <1>1, OthersStage DEF LockExpires, Patroni, Commit, Stream
<1>2. CASE UNCHANGED vars
  BY <1>2 DEF vars, FilesInv, StageInv, DcsInv, DataInv, GroupInv, LinkInv, Linked, PathsInv,
              CalmInv, FirstInv, Group
<1>3. QED
  BY <1>1, <1>2, UpgradeStage, RollbackStage, GoDownStage DEF Next

(* The files, the hosts and the cluster are at every task as it needs them.*)
LEMMA FilesInductive == Spec => []FilesInv
  BY FilesInit, FilesStep, PTL DEF Spec

(* Where no course has both a second upgrade and a host that goes down,    *)
(* data that an earlier run has upgraded are registered by none.           *)
SteadyCourses == \A b \in Bounds : b.upgrades <= 1 \/ b.accidents = 0

CourseInv == upgrades <= 1 \/ accidents = 0

(* Tasks count neither upgrades nor accidents.                             *)
LEMMA TasksCounted == Upgrade \/ Rollback => UNCHANGED <<upgrades, accidents>>
  BY DEF Upgrade, Rollback, Task, StopServers, ResumePools, PreChecks, Initdb, BackupConfig,
         EditConfig, Pause, StopPatroniService, Checkpoint, ReplicationLag, PausePools,
         StopPrimary, StopReplicas, CheckpointLocation, UpgradePrimary, ClearReplicas,
         Rsync, RemoveCluster, StartLeader, AwaitLeader, ResumeLeader, StartReplicas,
         AwaitReplicas, ResumeReplicas, IsReady, Extensions, PostUpgrade, RollbackCluster,
         RollbackNewStopped, RollbackControl, RollbackVersion, RollbackConfig,
         RollbackPaths, RollbackStartLeader, RollbackResume, RollbackAwaitLeader,
         RollbackStartReplicas, RollbackAwaitReplicas, RollbackPools, RollbackCompleted

(* The starts and the accidents are bounded by the courses.                *)
LEMMA CourseInductive == ASSUME SteadyCourses PROVE Spec => []CourseInv
<1>1. Init => CourseInv
  BY DEF Init, CourseInv
<1>2. ASSUME FilesInv, CourseInv, [Next]_vars PROVE CourseInv'
  <2>1. ASSUME NEW u, NEW r, NEW f, NEW a, Within(u, r, f, a), u \in Nat, a \in Nat
        PROVE  u <= 1 \/ a = 0
    BY <2>1, ConstantsAssumption DEF Within, SteadyCourses
  <2>2. upgrades \in Nat /\ accidents \in Nat
    BY <1>2 DEF FilesInv, ControlOK
  <2>3. CASE StartUpgrade
    BY <2>1, <2>2, <2>3 DEF StartUpgrade, CourseInv
  <2>4. ASSUME NEW h \in Hosts, GoDown(h) PROVE CourseInv'
    BY <2>1, <2>2, <2>4 DEF GoDown, playVars, CourseInv
  <2>5. CASE UNCHANGED <<upgrades, accidents>>
    BY <1>2, <2>5 DEF CourseInv
  <2>6. Upgrade \/ Rollback => UNCHANGED <<upgrades, accidents>>
    BY TasksCounted
  <2>7. QED
    BY <1>2, <2>3, <2>4, <2>5, <2>6
       DEF Next, StartRollback, Patroni, Commit, Stream, LockExpires, PatroniStep, playVars,
           vars
<1>3. QED
  BY <1>1, <1>2, FilesInductive, PTL DEF Spec

(* Nothing changes on a host that LinkedFiles knows of.                    *)
Rests(h) ==
  /\ server'[h] = server[h] /\ shared'[h] = shared[h]
  /\ oldData'[h] = "gone" <=> oldData[h] = "gone"

(* Hosts take their steps together.                                        *)
LEMMA AbstractStep ==
  ASSUME \A h \in Hosts : Abstract!Step(h) \/ Rests(h)
  PROVE  Abstract!Next
  BY DEF Abstract!Next, Abstract!Becomes, Rests

(* Patroni starts a version on files that are apart, or on those it alone  *)
(* has written to.                                                         *)
LEMMA RunStarts ==
  ASSUME FilesInv, CourseInv, NEW h \in Hosts, Run(h), PatroniStep
  PROVE  Abstract!StartOld(h) \/ Abstract!StartNew(h)
<1> USE DEF FilesInv, HostsOK
<1>1. /\ server[h] = "none" /\ server'[h] = patroni[h] /\ oldData' = oldData
      /\ shared'[h] = IF shared[h] = "apart" THEN "apart" ELSE patroni[h]
  BY RunsItsVersion DEF Run, PatroniStep
<1>2. CASE patroni[h] = "old"
  <2>1. dcs = "old" /\ oldData[h] = "intact" /\ shared[h] # "new"
    BY <1>2, RunsItsVersion DEF Run, StageInv, DataInv
  <2>2. QED
    BY <1>1, <1>2, <2>1 DEF Abstract!StartOld, Abstract!Becomes
<1>3. CASE patroni[h] = "new"
  <2>1. ASSUME dcs = "new", newData[h] = "upgraded" PROVE shared[h] # "old"
    BY <2>1 DEF StageInv, DataInv
  <2>2. ASSUME dcs = "other", newData[h] \in {"fresh", "stale"} PROVE shared[h] # "old"
    BY <2>2 DEF StageInv, DataInv, FirstInv, CalmInv, CourseInv
  <2>3. shared[h] # "old"
    BY <1>3, <2>1, <2>2, RunsItsVersion DEF Run
  <2>4. QED
    BY <1>1, <1>3, <2>3 DEF Abstract!StartNew, Abstract!Becomes
<1>4. QED
  BY <1>2, <1>3, RunsItsVersion DEF Run, Versions

(* What rsync does to the old directories, and what dropping them does.    *)
LEMMA RsyncFiles ==
  Rsync => \E done, part \in SUBSET secondary, control \in {"intact", "renamed", "broken"} :
             /\ oldData' = Put(Put(oldData, done, "renamed"), part, control)
             /\ shared' = Put(shared, done \cup part, "untouched")
  BY DEF Rsync

LEMMA PostUpgradeDrops ==
  PostUpgrade => \E done \in SUBSET Group :
    (\A h \in done : server[h] = "new") /\ oldData' = Put(oldData, done, "gone")
  BY DEF PostUpgrade

(* One step per action that has to do with servers or files.               *)
LEMMA FilesRefine ==
  FilesInv /\ CourseInv /\ [Next]_vars
    => Abstract!Next \/ UNCHANGED <<server, oldData, shared>>
<1> SUFFICES ASSUME FilesInv, CourseInv, [Next]_vars,
                    ~UNCHANGED <<server, oldData, shared>>
             PROVE  \A h \in Hosts : Abstract!Step(h) \/ Rests(h)
  BY AbstractStep
<1> USE DEF FilesInv, HostsOK, StageInv, Put, Task, serverVars, fileVars, Rests,
            Abstract!Step, Abstract!Becomes
<1>1. pc \in EarlyTasks =>
        \A h \in Hosts : shared[h] # "new" /\ server[h] # "new" /\ oldData[h] # "gone"
  BY DEF DcsInv, DataInv
<1>2. CASE Initdb
  BY <1>1, <1>2 DEF Initdb, EarlyTasks, UpgradeTasks, LastTasks, Abstract!Clear
<1>3. CASE StopPrimary \/ StopReplicas
  BY <1>3 DEF StopPrimary, StopReplicas, StopServers, Abstract!Stop
<1>4. CASE UpgradePrimary
  <2>1. /\ server[primary] = "none" /\ server' = server
        /\ newData[primary] = "fresh" /\ oldData[primary] = "intact"
        /\ oldData' = [oldData EXCEPT ![primary] = "renamed"]
        /\ shared' = [shared EXCEPT ![primary] = "untouched"]
    BY <1>4 DEF UpgradePrimary, Up
  <2>2. shared[primary] = "apart"
    BY <2>1 DEF DataInv, ControlOK
  <2>3. QED
    BY <2>1, <2>2 DEF Abstract!Link, ControlOK
<1>5. CASE ClearReplicas
  BY <1>1, <1>5 DEF ClearReplicas, EarlyTasks, UpgradeTasks, LastTasks, Abstract!Clear
<1>6. CASE Rsync
  <2>1. \A h \in secondary : server[h] = "none" /\ shared[h] = "apart" /\ oldData[h] # "gone"
    BY <1>1, <1>6 DEF Rsync, GroupInv, LinkInv, DownTasks, LinkTasks, Group, ControlOK,
                      EarlyTasks, UpgradeTasks, LastTasks
  <2>2. PICK done, part \in SUBSET secondary, control \in {"intact", "renamed", "broken"} :
          /\ oldData' = Put(Put(oldData, done, "renamed"), part, control)
          /\ shared' = Put(shared, done \cup part, "untouched")
    BY <1>6, RsyncFiles
  <2>3. QED
    BY <1>6, <2>1, <2>2 DEF Rsync, ControlOK, Abstract!Link
<1>7. CASE PostUpgrade
  <2>1. PICK done \in SUBSET Group :
          (\A h \in done : server[h] = "new") /\ oldData' = Put(oldData, done, "gone")
    BY <1>7, PostUpgradeDrops
  <2>2. \A h \in done : shared[h] = "new"
    BY <1>7, <2>1 DEF PostUpgrade, LinkInv, LastTasks
  <2>3. QED
    BY <1>7, <2>1, <2>2 DEF PostUpgrade, ControlOK, Group, Abstract!Drop
<1>8. CASE RollbackControl
  BY <1>8 DEF RollbackControl
<1>9. ASSUME NEW h \in Hosts, RestartPatroni(h) \/ GoDown(h), PatroniStep \/ GoDown(h)
      PROVE  \A g \in Hosts : Abstract!Step(g) \/ Rests(g)
  BY <1>9 DEF RestartPatroni, GoDown, PatroniStep, Abstract!Stop
<1>10. ASSUME NEW h \in Hosts, Run(h), PatroniStep
       PROVE  \A g \in Hosts : Abstract!Step(g) \/ Rests(g)
  BY <1>10, RunStarts DEF Run, PatroniStep
<1>11. CASE \/ LockExpires \/ UNCHANGED vars
            \/ \E h \in Hosts : \/ (Register(h) \/ Lead(h) \/ StepDown(h)) /\ PatroniStep
                                \/ Commit(h) \/ Stream(h)
  BY <1>11 DEF LockExpires, Register, Lead, StepDown, Commit, Stream, PatroniStep, vars
<1>12. CASE Looks
  BY <1>12, LooksKeeps DEF hostVars
<1>13. CASE \/ BackupConfig \/ EditConfig \/ Pause \/ StopPatroniService \/ PausePools
            \/ RemoveCluster \/ StartLeader \/ ResumeLeader \/ StartReplicas
            \/ ResumeReplicas
  BY <1>13 DEF BackupConfig, EditConfig, Pause, StopPatroniService, StopPatroni, PausePools,
               RemoveCluster, StartLeader, StartPatroni, ResumeLeader, ResumePools,
               StartReplicas, ResumeReplicas
<1>14. CASE \/ RollbackConfig \/ RollbackPaths \/ RollbackStartLeader \/ RollbackResume
            \/ RollbackStartReplicas \/ RollbackPools
  BY <1>14 DEF RollbackConfig, RollbackPaths, RollbackStartLeader, StartPatroni,
               RollbackResume, RollbackStartReplicas, RollbackPools, ResumePools
<1>15. QED
  BY <1>2, <1>3, <1>4, <1>5, <1>6, <1>7, <1>8, <1>9, <1>10, <1>11, <1>12, <1>13, <1>14
     DEF Next, Upgrade, Rollback, Patroni, Looks

(* Once a version has written to the files both link to, the other never   *)
(* runs on them, and the old directory goes only where the new version     *)
(* runs: whatever fails, and whichever playbook is started after it.       *)
THEOREM LinkedFilesCorrect == ASSUME SteadyCourses PROVE Spec => LinkedFilesSafe
<1>1. Init => Abstract!Init
  BY DEF Init, Abstract!Init
<1>2. FilesInv /\ CourseInv /\ [Next]_vars
        => [Abstract!Next]_<<server, [h \in Hosts |-> IF oldData[h] = "gone" THEN "dropped"
                                                      ELSE shared[h]]>>
  BY FilesRefine
<1>3. QED
  BY <1>1, <1>2, FilesInductive, CourseInductive, PTL DEF Spec, LinkedFilesSafe, Abstract!Spec

-----------------------------------------------------------------------------
(***************************************************************************)
(* Transactions                                                            *)
(***************************************************************************)

(* The leader is a primary, and what it has, or another primary, is what   *)
(* counts.                                                                 *)
WriterInv == leader # None => leader \in writers /\ whole \cap writers # {}

(* While Patroni is paused the hosts that were primaries stay it, so one   *)
(* of those in the group, or another, has every transaction.               *)
WholeInv ==
  /\ pc \in {"pre_checks"} \cup (EarlyTasks \ AloneTasks) =>
       /\ patroni[primary] = "off" => ~Up(primary)
       /\ Up(primary) /\ primary \in writers => leader = primary
  /\ pc \in PausedTasks => paused
  /\ pc \in PausedTasks \ StopTasks =>
       (Up(primary) /\ primary \in writers => whole \cap writers # {})
  /\ pc \in {"stop_replicas", "checkpoint_location"} =>
       (primary \in writers => whole \cap writers # {})
  /\ pc \in LinkTasks =>
       (primary \in writers => primary \in whole \/ writers \ Group # {})
  /\ pc \in {"clear_replicas", "rsync"} => primary \in writers

(* The leader has every transaction.                                       *)
LEMMA WholeInit == Init => WriterInv /\ WholeInv
  BY DEF Init, WriterInv, WholeInv, EarlyTasks, UpgradeTasks, PausedTasks, AloneTasks,
         StopTasks, DownTasks, LinkTasks

(* Only Patroni, servers and rsync change who is a primary or who has      *)
(* every transaction.                                                      *)
LEMMA WriterStep == HostsOK /\ ControlOK /\ WriterInv /\ [Next]_vars => WriterInv'
<1> SUFFICES ASSUME HostsOK, ControlOK, WriterInv, [Next]_vars,
                    ~UNCHANGED <<leader, writers, whole>>
             PROVE  WriterInv'
  BY DEF WriterInv
<1> USE DEF WriterInv, HostsOK, serverVars, fileVars, clusterVars
<1>1. ASSUME NEW h \in Hosts, Patroni(h) PROVE WriterInv'
  BY <1>1, ConstantsAssumption
     DEF Patroni, Register, RestartPatroni, Run, Lead, StepDown, CanStepDown, Rewound
<1>2. ASSUME NEW h \in Hosts, Commit(h) \/ Stream(h) \/ GoDown(h) PROVE WriterInv'
  BY <1>2, ConstantsAssumption DEF Commit, Stream, GoDown
<1>3. CASE LockExpires \/ RemoveCluster
  BY <1>3 DEF LockExpires, RemoveCluster
<1>4. CASE Rsync
  BY <1>4 DEF Rsync
<1>5. CASE Looks \/ UNCHANGED vars
  BY <1>5, LooksKeeps DEF hostVars, vars
<1>6. CASE \/ Initdb \/ BackupConfig \/ EditConfig \/ Pause \/ StopPatroniService
           \/ PausePools \/ StopPrimary \/ StopReplicas \/ UpgradePrimary
           \/ ClearReplicas \/ StartLeader \/ ResumeLeader \/ StartReplicas
           \/ ResumeReplicas \/ PostUpgrade
  BY <1>6 DEF Initdb, BackupConfig, EditConfig, Pause, StopPatroniService, StopPatroni,
              PausePools, StopPrimary, StopServers, StopReplicas, UpgradePrimary,
              ClearReplicas, StartLeader, StartPatroni, ResumeLeader, ResumePools,
              StartReplicas, ResumeReplicas, PostUpgrade
<1>7. CASE \/ RollbackControl \/ RollbackConfig \/ RollbackPaths \/ RollbackStartLeader
           \/ RollbackResume \/ RollbackStartReplicas \/ RollbackPools
  BY <1>7 DEF RollbackControl, RollbackConfig, RollbackPaths, RollbackStartLeader,
              StartPatroni, RollbackResume, RollbackStartReplicas, RollbackPools,
              ResumePools
<1>8. QED
  BY <1>1, <1>2, <1>3, <1>4, <1>5, <1>6, <1>7 DEF Next, Upgrade, Rollback, Looks

(* Tasks up to the one that compares the locations, and those that link.   *)
LEMMA WholeUpgrade == FilesInv /\ WriterInv /\ WholeInv /\ Upgrade => WholeInv'
<1> SUFFICES ASSUME FilesInv, WriterInv, WholeInv, Upgrade PROVE WholeInv'
  OBVIOUS
<1> USE ConstantsAssumption
    DEF WholeInv, EarlyTasks, UpgradeTasks, LastTasks, PausedTasks, AloneTasks, StopTasks,
        DownTasks, LinkTasks, Up, Group, Task, Unless, Await, On, Ignoring, Ok, GoTo, End,
        Abort, Include, FilesInv, HostsOK, ControlOK, serverVars, fileVars, clusterVars
<1>1. CASE PreChecks
  BY <1>1 DEF PreChecks
<1>2. CASE Initdb \/ BackupConfig \/ EditConfig
  BY <1>2 DEF Initdb, BackupConfig, EditConfig
<1>3. CASE Pause
  BY <1>3 DEF Pause, WriterInv
<1>4. CASE StopPatroniService
  BY <1>4 DEF StopPatroniService, StopPatroni
<1>5. CASE Checkpoint \/ ReplicationLag \/ PausePools
  BY <1>5 DEF Checkpoint, ReplicationLag, PausePools
<1>6. CASE StopPrimary \/ StopReplicas
  BY <1>6 DEF StopPrimary, StopServers, StopReplicas
<1>7. CASE CheckpointLocation
  BY <1>7 DEF CheckpointLocation
<1>8. CASE UpgradePrimary
  BY <1>8 DEF UpgradePrimary
<1>9. CASE ClearReplicas
  BY <1>9 DEF ClearReplicas
<1>10. CASE Rsync
  BY <1>10 DEF Rsync
<1>11. CASE RemoveCluster \/ StartLeader \/ AwaitLeader \/ ResumeLeader \/ StartReplicas
  BY <1>11 DEF RemoveCluster, StartLeader, StartPatroni, AwaitLeader, ResumeLeader,
               ResumePools, StartReplicas
<1>12. CASE AwaitReplicas \/ ResumeReplicas \/ IsReady \/ Extensions \/ PostUpgrade
  BY <1>12 DEF AwaitReplicas, ResumeReplicas, ResumePools, IsReady, Extensions, PostUpgrade
<1>13. QED
  BY <1>1, <1>2, <1>3, <1>4, <1>5, <1>6, <1>7, <1>8, <1>9, <1>10, <1>11, <1>12 DEF Upgrade

(* A host of the group does not run, and one that becomes a primary beside *)
(* them is not of the group.                                               *)
LEMMA WholeStep == FilesInv /\ WriterInv /\ WholeInv /\ [Next]_vars => WholeInv'
<1> SUFFICES ASSUME FilesInv, WriterInv, WholeInv, [Next]_vars PROVE WholeInv'
  OBVIOUS
<1> USE ConstantsAssumption
    DEF WholeInv, EarlyTasks, UpgradeTasks, LastTasks, PausedTasks, AloneTasks, StopTasks,
        DownTasks, LinkTasks, Up, Group, FilesInv, HostsOK, ControlOK, serverVars, fileVars,
        clusterVars, playVars, PatroniStep
<1>1. pc \in DownTasks => \A h \in Group : ~Up(h)
  BY DEF StageInv, GroupInv
<1>2. ASSUME NEW h \in Hosts, Register(h) \/ RestartPatroni(h), PatroniStep PROVE WholeInv'
  BY <1>2 DEF Register, RestartPatroni, CanRestart, Paths, Configs
<1>3. ASSUME NEW h \in Hosts, Run(h) \/ StepDown(h), PatroniStep PROVE WholeInv'
  BY <1>3 DEF Run, CanRun, IsMember, StepDown, CanStepDown
<1>4. ASSUME NEW h \in Hosts, Lead(h), PatroniStep PROVE WholeInv'
  BY <1>1, <1>4 DEF Lead, CanLead
<1>5. ASSUME NEW h \in Hosts, Commit(h) \/ Stream(h) PROVE WholeInv'
  BY <1>1, <1>5 DEF Commit, Stream
<1>6. ASSUME NEW h \in Hosts, GoDown(h) PROVE WholeInv'
  BY <1>6 DEF GoDown, Put
<1>7. CASE LockExpires \/ UNCHANGED vars
  BY <1>7 DEF LockExpires, CanExpire, vars
<1>8. CASE Rollback \/ StartRollback
  <2>1. pc' \in RollbackTasks \cup {"idle"}
    BY <1>8 DEF StartRollback, Rollback, RollbackTasks, Task, Unless, Await, On, Ignoring,
                GoTo, End, Abort, ResumePools, RollbackCluster, RollbackNewStopped,
                RollbackControl, RollbackVersion, RollbackConfig, RollbackPaths,
                RollbackStartLeader, RollbackResume, RollbackAwaitLeader,
                RollbackStartReplicas, RollbackAwaitReplicas, RollbackPools,
                RollbackCompleted
  <2>2. QED
    BY <2>1 DEF RollbackTasks
<1>9. CASE StartUpgrade
  BY <1>9 DEF StartUpgrade, Leads, Abort, End
<1>10. QED
  BY <1>2, <1>3, <1>4, <1>5, <1>6, <1>7, <1>8, <1>9, WholeUpgrade DEF Next, Patroni

(* pg_upgrade and rsync take data with every transaction, unless a host    *)
(* that is in neither group is a primary.                                  *)
LEMMA UpgradesWhole ==
  ASSUME FilesInv, WholeInv, [Next]_vars, NEW h \in Hosts,
         newData[h] # "upgraded", newData'[h] = "upgraded"
  PROVE  primary \in whole \/ writers \ Group # {}
<1>1. CASE UpgradePrimary
  BY <1>1 DEF UpgradePrimary, Task, WholeInv, LinkTasks, FilesInv, HostsOK
<1>2. CASE Rsync
  BY <1>2 DEF Rsync, Task, WholeInv, LinkTasks
<1>3. CASE Initdb \/ ClearReplicas
  BY <1>3 DEF Initdb, ClearReplicas, Put
<1>4. ASSUME NEW g \in Hosts, Patroni(g) \/ Commit(g) \/ Stream(g) \/ GoDown(g) PROVE FALSE
  BY <1>4 DEF Patroni, Commit, Stream, GoDown, PatroniStep, fileVars
<1>5. CASE LockExpires \/ UNCHANGED vars
  BY <1>5 DEF LockExpires, PatroniStep, vars
<1>6. CASE Looks
  BY <1>6, LooksKeeps DEF hostVars, fileVars
<1>7. CASE \/ BackupConfig \/ EditConfig \/ Pause \/ StopPatroniService \/ PausePools
           \/ StopPrimary \/ StopReplicas \/ RemoveCluster \/ StartLeader
           \/ ResumeLeader \/ StartReplicas \/ ResumeReplicas \/ PostUpgrade
  BY <1>7 DEF fileVars, BackupConfig, EditConfig, Pause, StopPatroniService, StopPatroni,
              PausePools, StopPrimary, StopServers, StopReplicas, RemoveCluster,
              StartLeader, StartPatroni, ResumeLeader, ResumePools, StartReplicas,
              ResumeReplicas, PostUpgrade
<1>8. CASE \/ RollbackControl \/ RollbackConfig \/ RollbackPaths \/ RollbackStartLeader
           \/ RollbackResume \/ RollbackStartReplicas \/ RollbackPools
  BY <1>8 DEF fileVars, RollbackControl, RollbackConfig, RollbackPaths, RollbackStartLeader,
              StartPatroni, RollbackResume, RollbackStartReplicas, RollbackPools,
              ResumePools
<1>9. QED
  BY <1>1, <1>2, <1>3, <1>4, <1>5, <1>6, <1>7, <1>8 DEF Next, Upgrade, Rollback, Looks

(* The new cluster starts from data that have every transaction the old    *)
(* one has committed.                                                      *)
THEOREM WholeCorrect == Spec => UpgradedIsWhole
<1>1. FilesInv /\ WriterInv /\ WholeInv /\ [Next]_vars => (WriterInv /\ WholeInv)'
  BY WriterStep, WholeStep DEF FilesInv
<1>2. FilesInv /\ WholeInv /\ [Next]_vars
        => [\A h \in Hosts : newData[h] # "upgraded" /\ newData'[h] = "upgraded"
              => primary \in whole \/ writers \ Group # {}]_vars
  BY UpgradesWhole
<1>3. QED
  BY <1>1, <1>2, WholeInit, FilesInductive, PTL DEF Spec, UpgradedIsWhole

-----------------------------------------------------------------------------
(***************************************************************************)
(* Reports                                                                 *)
(***************************************************************************)

(* The tasks of an upgrade after the leader, and after all replicas, run   *)
(* the new version.                                                        *)
LedTasks  == LastTasks \ {"start_leader", "await_leader"}
DoneTasks == {"resume_replicas", "isready", "extensions", "post_upgrade"}

OnNew(h) == server[h] = "new" /\ patroni[h] = "new" /\ newData[h] = "upgraded"

(* A server of the new version goes on as long as no host goes down.       *)
UpgradedInv ==
  /\ report \in {"upgraded", "rolled_back"} => pc = "idle"
  /\ pc \in LastTasks => ~paused
  /\ accidents = 0 =>
       /\ pc \in LedTasks => dcs = "new" /\ OnNew(primary)
       /\ pc \in DoneTasks => \A h \in Group : OnNew(h)
       /\ report = "upgraded" =>
            /\ dcs = "new" /\ ~paused
            /\ \A h \in Group : OnNew(h) /\ config[h] = "new"

(* In the only upgrade every pool that is paused is resumed, unless a task *)
(* fails.                                                                  *)
PoolsInv ==
  upgrades <= 1 =>
    /\ upgrades = 0 \/ pc \in UpgradeTasks \ (StopTasks \cup LastTasks \cup {"stop_primary"}) =>
         pools = {}
    /\ pc \in UpgradeTasks => pools \subseteq Group
    /\ faults = 0 =>
         /\ pc \in {"start_replicas", "await_replicas", "resume_replicas"} => primary \notin pools
         /\ pc \in {"isready", "extensions", "post_upgrade"} \/ report = "upgraded" => pools = {}

(* The copies of patroni.yml are those from before the only upgrade.       *)
OnceInv ==
  upgrades <= 1 =>
    /\ upgrades = 0 \/ pc \in {"pre_checks", "initdb", "backup_config"} =>
         \A h \in Hosts : config[h] # "new"
    /\ \A h \in Hosts : bkp[h] # "new"

OneNew == \A g, h \in Hosts : patroni[g] = "new" /\ patroni[h] = "new" => g = h

(* Once the old cluster has been removed no old server runs until it is    *)
(* registered again, and Patroni starts the new version on a second host   *)
(* only after the first runs it.  So a rollback that finds no new server   *)
(* leaves one host at most where one may still start, and waits in vain    *)
(* for the others.                                                         *)
RemovedInv ==
  /\ accidents = 0 => \A h \in Hosts : server[h] = "new" => patroni[h] = "new"
  /\ upgrades = 0 /\ accidents = 0 => \A h \in Hosts : patroni[h] # "off"
  /\ upgrades <= 1 /\ accidents = 0 =>
       /\ pc \in UpgradeTasks => Group = Hosts
       /\ pc \in StopTasks \cup {"stop_primary"} => secondary # {}
       /\ pc = "start_leader" => \A h \in Hosts : patroni[h] = "off"
       /\ pc \in RollbackTasks /\ dcs # "old" => scope = Hosts
       /\ dcs # "old" =>
            /\ \A h \in Hosts : Hosts # {h}
            /\ \A h \in Hosts :
                 /\ server[h] # "old" /\ newData[h] = "upgraded"
                 /\ patroni[h] = "old" => config[h] # "new"
            /\ OneNew \/ \E h \in Hosts : server[h] = "new"
            /\ pc \in RollbackTasks \ {"rb_cluster", "rb_new"} => OneNew

RolledInv ==
  upgrades <= 1 /\ accidents = 0 /\ report = "rolled_back" =>
    /\ dcs = "old"
    /\ \A h \in scope : server[h] = "old" /\ config[h] # "new"

(* Nothing has been reported or changed.                                   *)
LEMMA ReportInit == Init => UpgradedInv /\ PoolsInv /\ OnceInv /\ RemovedInv /\ RolledInv
  BY DEF Init, UpgradedInv, PoolsInv, OnceInv, RemovedInv, RolledInv, LedTasks, LastTasks,
         DoneTasks, UpgradeTasks, RollbackTasks, StopTasks, DownTasks, LinkTasks

(* Each task of the end of an upgrade waits for a part of it.              *)
LEMMA UpgradedStep == FilesInv /\ UpgradedInv /\ [Next]_vars => UpgradedInv'
<1> SUFFICES ASSUME FilesInv, UpgradedInv, [Next]_vars PROVE UpgradedInv'
  OBVIOUS
<1> USE ConstantsAssumption
    DEF FilesInv, HostsOK, ControlOK, UpgradedInv, OnNew, LedTasks, LastTasks, DoneTasks,
        UpgradeTasks, RollbackTasks, Versions, Group, Up, Leads, Healthy, Put, configVars,
        serverVars, fileVars, clusterVars, playVars, Task, Unless, Await, On, Ignoring, Ok,
        GoTo, End, Abort, Include
<1>1. CASE PreChecks \/ Initdb
  BY <1>1 DEF PreChecks, Initdb
<1>2. CASE Checkpoint \/ ReplicationLag \/ CheckpointLocation
  BY <1>2 DEF Checkpoint, ReplicationLag, CheckpointLocation
<1>3. CASE AwaitLeader
  <2>1. ASSUME accidents = 0, Leads(primary) PROVE dcs = "new" /\ OnNew(primary)
    BY <1>3, <2>1 DEF AwaitLeader, StageInv, DataInv, GroupInv, LinkInv, CalmInv
  <2>2. QED
    BY <1>3, <2>1 DEF AwaitLeader
<1>4. CASE AwaitReplicas
  <2>1. ASSUME \A h \in secondary : Healthy(h) PROVE \A h \in secondary : OnNew(h)
    BY <1>4, <2>1 DEF AwaitReplicas, StageInv, GroupInv, LinkInv
  <2>2. QED
    BY <1>4, <2>1 DEF AwaitReplicas
<1>5. CASE IsReady \/ Extensions
  BY <1>5 DEF IsReady, Extensions
<1>6. CASE RollbackCluster \/ RollbackNewStopped \/ RollbackVersion
  BY <1>6 DEF RollbackCluster, RollbackNewStopped, RollbackVersion
<1>7. CASE RollbackResume \/ RollbackAwaitLeader \/ RollbackAwaitReplicas
  BY <1>7 DEF RollbackResume, RollbackAwaitLeader, RollbackAwaitReplicas
<1>8. CASE RollbackCompleted
  BY <1>8 DEF RollbackCompleted
<1>9. CASE StartUpgrade
  BY <1>9 DEF StartUpgrade, Leads
<1>10. CASE StartRollback
  BY <1>10 DEF StartRollback
<1>11. CASE BackupConfig \/ EditConfig
  BY <1>11 DEF BackupConfig, EditConfig
<1>12. CASE Pause
  BY <1>12 DEF Pause
<1>13. CASE StopPatroniService
  BY <1>13 DEF StopPatroniService, StopPatroni
<1>14. CASE PausePools
  BY <1>14 DEF PausePools
<1>15. CASE StopPrimary \/ StopReplicas
  BY <1>15 DEF StopPrimary, StopServers, StopReplicas
<1>16. CASE UpgradePrimary \/ ClearReplicas \/ Rsync
  BY <1>16 DEF UpgradePrimary, ClearReplicas, Rsync
<1>17. CASE RemoveCluster
  BY <1>17 DEF RemoveCluster
<1>18. CASE StartLeader
  BY <1>18 DEF StartLeader, StartPatroni, Paths
<1>19. CASE ResumeLeader \/ ResumeReplicas \/ RollbackPools
  BY <1>19 DEF ResumeLeader, ResumePools, ResumeReplicas, RollbackPools
<1>20. CASE StartReplicas
  BY <1>20 DEF StartReplicas, StartPatroni, Paths
<1>21. CASE PostUpgrade
  <2>1. \A h \in Group : config[h] = "new"
    BY <1>21 DEF PostUpgrade, StageInv, GroupInv, EditedTasks
  <2>2. QED
    BY <1>21, <2>1 DEF PostUpgrade
<1>22. CASE RollbackControl
  BY <1>22 DEF RollbackControl
<1>23. CASE RollbackConfig \/ RollbackPaths
  BY <1>23 DEF RollbackConfig, RollbackPaths
<1>24. CASE RollbackStartLeader \/ RollbackStartReplicas
  BY <1>24 DEF RollbackStartLeader, StartPatroni, RollbackStartReplicas
<1>25. ASSUME NEW h \in Hosts, Register(h), PatroniStep PROVE UpgradedInv'
  BY <1>25 DEF Register, CanRegister, Id, DataId, PatroniStep, Rewound, Up
<1>26. ASSUME NEW h \in Hosts, RestartPatroni(h), PatroniStep PROVE UpgradedInv'
  BY <1>26 DEF RestartPatroni, CanRestart, Id, DataId, PatroniStep, Rewound, Up
<1>27. ASSUME NEW h \in Hosts, Run(h), PatroniStep PROVE UpgradedInv'
  BY <1>27 DEF Run, CanRun, IsMember, Id, DataId, PatroniStep, Rewound, Up
<1>28. ASSUME NEW h \in Hosts, Lead(h), PatroniStep PROVE UpgradedInv'
  BY <1>28 DEF Lead, CanLead, IsMember, Id, DataId, PatroniStep, Rewound, Up
<1>29. ASSUME NEW h \in Hosts, StepDown(h), PatroniStep PROVE UpgradedInv'
  BY <1>29 DEF StepDown, CanStepDown, IsMember, PatroniStep, Rewound, Up
<1>30. ASSUME NEW h \in Hosts, Commit(h) \/ Stream(h) \/ GoDown(h) PROVE UpgradedInv'
  BY <1>30 DEF Commit, Stream, GoDown, PatroniStep
<1>31. CASE LockExpires \/ UNCHANGED vars
  BY <1>31 DEF LockExpires, PatroniStep, vars
<1>32. QED
  BY <1>1, <1>2, <1>3, <1>4, <1>5, <1>6, <1>7, <1>8, <1>9, <1>10, <1>11, <1>12, <1>13,
     <1>14, <1>15, <1>16, <1>17, <1>18, <1>19, <1>20, <1>21, <1>22, <1>23, <1>24, <1>25,
     <1>26, <1>27, <1>28, <1>29, <1>30, <1>31
     DEF Next, Upgrade, Rollback, Patroni

(* Pools are paused and resumed by four tasks only.                        *)
LEMMA PoolsStep == FilesInv /\ UpgradedInv /\ PoolsInv /\ [Next]_vars => PoolsInv'
<1> SUFFICES ASSUME FilesInv, UpgradedInv, PoolsInv, [Next]_vars PROVE PoolsInv'
  OBVIOUS
<1> USE DEF FilesInv, HostsOK, ControlOK, UpgradedInv, PoolsInv, FirstInv, StageInv, LastTasks,
        StopTasks, DownTasks, LinkTasks, UpgradeTasks, RollbackTasks, Group, playVars,
        Task, Unless, Await, On, Ignoring, Ok, Fault, GoTo, End, Abort, Include, PatroniStep
<1>1. CASE \/ PreChecks \/ Checkpoint \/ ReplicationLag \/ CheckpointLocation
           \/ AwaitLeader \/ AwaitReplicas \/ IsReady \/ Extensions
  BY <1>1 DEF PreChecks, Checkpoint, ReplicationLag, CheckpointLocation, AwaitLeader,
              AwaitReplicas, IsReady, Extensions
<1>2. CASE \/ RollbackCluster \/ RollbackNewStopped \/ RollbackVersion
           \/ RollbackAwaitLeader \/ RollbackAwaitReplicas \/ RollbackResume
  BY <1>2 DEF RollbackCluster, RollbackNewStopped, RollbackVersion, RollbackAwaitLeader,
              RollbackAwaitReplicas, RollbackResume
<1>3. CASE RollbackCompleted
  BY <1>3 DEF RollbackCompleted
<1>4. CASE StartUpgrade
  BY <1>4 DEF StartUpgrade, Leads
<1>5. CASE StartRollback
  BY <1>5 DEF StartRollback
<1>6. CASE Initdb \/ Pause \/ StopPatroniService \/ StopPrimary \/ StopReplicas
  BY <1>6 DEF Initdb, Pause, StopPatroniService, StopPatroni, StopPrimary, StopServers,
              StopReplicas
<1>7. CASE BackupConfig \/ EditConfig
  BY <1>7 DEF BackupConfig, EditConfig
<1>8. CASE PausePools
  BY <1>8 DEF PausePools
<1>9. CASE UpgradePrimary
  BY <1>9 DEF UpgradePrimary
<1>10. CASE ClearReplicas
  BY <1>10 DEF ClearReplicas
<1>11. CASE Rsync
  BY <1>11 DEF Rsync
<1>12. CASE RemoveCluster
  BY <1>12 DEF RemoveCluster
<1>13. CASE StartLeader
  BY <1>13 DEF StartLeader, StartPatroni, Paths
<1>14. CASE ResumeLeader
  BY <1>14 DEF ResumeLeader, ResumePools
<1>15. CASE StartReplicas \/ PostUpgrade
  BY <1>15 DEF StartReplicas, StartPatroni, PostUpgrade, Paths
<1>16. CASE ResumeReplicas
  BY <1>16 DEF ResumeReplicas, ResumePools
<1>17. CASE RollbackControl \/ RollbackStartLeader \/ RollbackStartReplicas
  BY <1>17 DEF RollbackControl, RollbackStartLeader, StartPatroni, RollbackStartReplicas
<1>18. CASE RollbackConfig \/ RollbackPaths
  BY <1>18 DEF RollbackConfig, RollbackPaths
<1>19. CASE RollbackPools
  BY <1>19 DEF RollbackPools, ResumePools
<1>20. ASSUME NEW h \in Hosts, Register(h), PatroniStep PROVE PoolsInv'
  BY <1>20 DEF Register, CanRegister, Id, DataId, PatroniStep, Rewound, Up
<1>21. ASSUME NEW h \in Hosts, RestartPatroni(h), PatroniStep PROVE PoolsInv'
  BY <1>21 DEF RestartPatroni, CanRestart, Id, DataId, PatroniStep, Rewound, Up
<1>22. ASSUME NEW h \in Hosts, Run(h), PatroniStep PROVE PoolsInv'
  BY <1>22 DEF Run, CanRun, IsMember, Id, DataId, PatroniStep, Rewound, Up
<1>23. ASSUME NEW h \in Hosts, Lead(h), PatroniStep PROVE PoolsInv'
  BY <1>23 DEF Lead, CanLead, IsMember, Id, DataId, PatroniStep, Rewound, Up
<1>24. ASSUME NEW h \in Hosts, StepDown(h), PatroniStep PROVE PoolsInv'
  BY <1>24 DEF StepDown, CanStepDown, IsMember, PatroniStep, Rewound, Up
<1>25. ASSUME NEW h \in Hosts, Commit(h) \/ Stream(h) \/ GoDown(h) PROVE PoolsInv'
  BY <1>25 DEF Commit, Stream, GoDown, PatroniStep
<1>26. CASE LockExpires \/ UNCHANGED vars
  BY <1>26 DEF LockExpires, PatroniStep, vars
<1>27. QED
  BY <1>1, <1>2, <1>3, <1>4, <1>5, <1>6, <1>7, <1>8, <1>9, <1>10, <1>11, <1>12, <1>13,
     <1>14, <1>15, <1>16, <1>17, <1>18, <1>19, <1>20, <1>21, <1>22, <1>23, <1>24, <1>25,
     <1>26
     DEF Next, Upgrade, Rollback, Patroni

(* patroni.yml and its copy are changed by four tasks only.                *)
LEMMA OnceStep == FilesInv /\ OnceInv /\ [Next]_vars => OnceInv'
<1> SUFFICES ASSUME FilesInv, OnceInv, [Next]_vars PROVE OnceInv'
  OBVIOUS
<1> USE DEF FilesInv, HostsOK, ControlOK, OnceInv, StageInv, FirstInv, UpgradeTasks, configVars,
        playVars, Put, Task, Unless, Await, On, Ignoring, Ok, Fault, GoTo, End, Abort, Include
<1>1. CASE \/ PreChecks \/ Checkpoint \/ ReplicationLag \/ CheckpointLocation
           \/ AwaitLeader \/ AwaitReplicas \/ IsReady \/ Extensions
  BY <1>1 DEF PreChecks, Checkpoint, ReplicationLag, CheckpointLocation, AwaitLeader,
              AwaitReplicas, IsReady, Extensions
<1>2. CASE \/ RollbackCluster \/ RollbackNewStopped \/ RollbackVersion
           \/ RollbackAwaitLeader \/ RollbackAwaitReplicas \/ RollbackResume
  BY <1>2 DEF RollbackCluster, RollbackNewStopped, RollbackVersion, RollbackAwaitLeader,
              RollbackAwaitReplicas, RollbackResume
<1>3. CASE RollbackCompleted
  BY <1>3 DEF RollbackCompleted
<1>4. CASE StartUpgrade
  BY <1>4 DEF StartUpgrade, Leads
<1>5. CASE StartRollback
  BY <1>5 DEF StartRollback
<1>6. CASE \/ Initdb \/ Pause \/ StopPatroniService \/ PausePools \/ StopPrimary
           \/ StopReplicas
  BY <1>6 DEF Initdb, Pause, StopPatroniService, StopPatroni, PausePools, StopPrimary,
              StopServers, StopReplicas
<1>7. CASE BackupConfig
  BY <1>7 DEF BackupConfig
<1>8. CASE EditConfig
  BY <1>8 DEF EditConfig
<1>9. CASE UpgradePrimary \/ ClearReplicas \/ Rsync \/ RemoveCluster
  BY <1>9 DEF UpgradePrimary, ClearReplicas, Rsync, RemoveCluster
<1>10. CASE \/ StartLeader \/ StartReplicas \/ ResumeLeader \/ ResumeReplicas
            \/ PostUpgrade
  BY <1>10 DEF StartLeader, StartPatroni, StartReplicas, ResumeLeader, ResumePools,
               ResumeReplicas, PostUpgrade, Paths
<1>11. CASE \/ RollbackControl \/ RollbackStartLeader \/ RollbackStartReplicas
            \/ RollbackPools
  BY <1>11 DEF RollbackControl, RollbackStartLeader, StartPatroni, RollbackStartReplicas,
               RollbackPools, ResumePools
<1>12. CASE RollbackConfig \/ RollbackPaths
  BY <1>12 DEF RollbackConfig, RollbackPaths
<1>13. ASSUME NEW h \in Hosts, Register(h), PatroniStep PROVE OnceInv'
  BY <1>13 DEF Register, CanRegister, Id, DataId, PatroniStep, Rewound, Up
<1>14. ASSUME NEW h \in Hosts, RestartPatroni(h), PatroniStep PROVE OnceInv'
  BY <1>14 DEF RestartPatroni, CanRestart, Id, DataId, PatroniStep, Rewound, Up
<1>15. ASSUME NEW h \in Hosts, Run(h), PatroniStep PROVE OnceInv'
  BY <1>15 DEF Run, CanRun, IsMember, Id, DataId, PatroniStep, Rewound, Up
<1>16. ASSUME NEW h \in Hosts, Lead(h), PatroniStep PROVE OnceInv'
  BY <1>16 DEF Lead, CanLead, IsMember, Id, DataId, PatroniStep, Rewound, Up
<1>17. ASSUME NEW h \in Hosts, StepDown(h), PatroniStep PROVE OnceInv'
  BY <1>17 DEF StepDown, CanStepDown, IsMember, PatroniStep, Rewound, Up
<1>18. ASSUME NEW h \in Hosts, Commit(h) \/ Stream(h) \/ GoDown(h) PROVE OnceInv'
  BY <1>18 DEF Commit, Stream, GoDown, PatroniStep
<1>19. CASE LockExpires \/ UNCHANGED vars
  BY <1>19 DEF LockExpires, PatroniStep, vars
<1>20. QED
  BY <1>1, <1>2, <1>3, <1>4, <1>5, <1>6, <1>7, <1>8, <1>9, <1>10, <1>11, <1>12, <1>13,
     <1>14, <1>15, <1>16, <1>17, <1>18, <1>19
     DEF Next, Upgrade, Rollback, Patroni

(* One step per kind of task, and per step of Patroni.                     *)
LEMMA RemovedStep ==
  FilesInv /\ UpgradedInv /\ OnceInv /\ RemovedInv /\ [Next]_vars => RemovedInv'
<1> SUFFICES ASSUME FilesInv, UpgradedInv, OnceInv, RemovedInv, [Next]_vars
             PROVE  RemovedInv'
  OBVIOUS
<1> USE ConstantsAssumption
    DEF FilesInv, HostsOK, ControlOK, StageInv, DcsInv, DataInv, GroupInv, LinkInv, Linked,
        PathsInv, CalmInv, FirstInv, UpgradedInv, OnNew, OnceInv, RemovedInv, OneNew,
        LedTasks, LastTasks, EarlyTasks, AloneTasks, EditedTasks, RestartTasks, StopTasks,
        DownTasks, LinkTasks, UpgradeTasks, RollbackTasks, Versions, Configs, Group, Up,
        Leads, Put, Paths, configVars, serverVars, fileVars, clusterVars, playVars, Task,
        Unless, Await, On, Ignoring, Ok, GoTo, End, Abort, Include
<1>1. CASE PreChecks \/ Initdb
  BY <1>1 DEF PreChecks, Initdb
<1>2. CASE Checkpoint \/ ReplicationLag \/ CheckpointLocation
  BY <1>2 DEF Checkpoint, ReplicationLag, CheckpointLocation
<1>3. CASE AwaitLeader
  BY <1>3 DEF AwaitLeader
<1>4. CASE AwaitReplicas
  BY <1>4 DEF AwaitReplicas
<1>5. CASE IsReady \/ Extensions
  BY <1>5 DEF IsReady, Extensions
<1>6. CASE RollbackCluster \/ RollbackNewStopped \/ RollbackVersion
  BY <1>6 DEF RollbackCluster, RollbackNewStopped, RollbackVersion
<1>7. CASE RollbackResume \/ RollbackAwaitLeader \/ RollbackAwaitReplicas
  BY <1>7 DEF RollbackResume, RollbackAwaitLeader, RollbackAwaitReplicas
<1>8. CASE RollbackCompleted
  BY <1>8 DEF RollbackCompleted
<1>9. CASE StartUpgrade
  BY <1>9 DEF StartUpgrade, Leads
<1>10. CASE StartRollback
  BY <1>10 DEF StartRollback
<1>11. CASE BackupConfig \/ EditConfig
  BY <1>11 DEF BackupConfig, EditConfig
<1>12. CASE Pause
  BY <1>12 DEF Pause
<1>13. CASE StopPatroniService
  BY <1>13 DEF StopPatroniService, StopPatroni
<1>14. CASE PausePools
  BY <1>14 DEF PausePools
<1>15. CASE StopPrimary \/ StopReplicas
  BY <1>15 DEF StopPrimary, StopServers, StopReplicas
<1>16. CASE UpgradePrimary \/ ClearReplicas \/ Rsync
  BY <1>16 DEF UpgradePrimary, ClearReplicas, Rsync
<1>17. CASE RemoveCluster
  BY <1>17 DEF RemoveCluster
<1>18. CASE StartLeader
  BY <1>18 DEF StartLeader, StartPatroni, Paths
<1>19. CASE ResumeLeader \/ ResumeReplicas \/ RollbackPools
  BY <1>19 DEF ResumeLeader, ResumePools, ResumeReplicas, RollbackPools
<1>20. CASE StartReplicas
  BY <1>20 DEF StartReplicas, StartPatroni, Paths
<1>21. CASE PostUpgrade
  BY <1>21 DEF PostUpgrade
<1>22. CASE RollbackControl
  BY <1>22 DEF RollbackControl
<1>23. CASE RollbackConfig \/ RollbackPaths
  BY <1>23 DEF RollbackConfig, RollbackPaths
<1>24. CASE RollbackStartLeader \/ RollbackStartReplicas
  BY <1>24 DEF RollbackStartLeader, StartPatroni, RollbackStartReplicas
<1>25. ASSUME NEW h \in Hosts, Register(h), PatroniStep PROVE RemovedInv'
  BY <1>25 DEF Register, CanRegister, Id, DataId, PatroniStep, Rewound, Up
<1>26. ASSUME NEW h \in Hosts, RestartPatroni(h), PatroniStep PROVE RemovedInv'
  BY <1>26 DEF RestartPatroni, CanRestart, Id, DataId, PatroniStep, Rewound, Up
<1>27. ASSUME NEW h \in Hosts, Run(h), PatroniStep PROVE RemovedInv'
  BY <1>27 DEF Run, CanRun, IsMember, Id, DataId, PatroniStep, Rewound, Up
<1>28. ASSUME NEW h \in Hosts, Lead(h), PatroniStep PROVE RemovedInv'
  BY <1>28 DEF Lead, CanLead, IsMember, Id, DataId, PatroniStep, Rewound, Up
<1>29. ASSUME NEW h \in Hosts, StepDown(h), PatroniStep PROVE RemovedInv'
  BY <1>29 DEF StepDown, CanStepDown, IsMember, PatroniStep, Rewound, Up
<1>30. ASSUME NEW h \in Hosts, Commit(h) \/ Stream(h) \/ GoDown(h) PROVE RemovedInv'
  BY <1>30 DEF Commit, Stream, GoDown, PatroniStep
<1>31. CASE LockExpires \/ UNCHANGED vars
  BY <1>31 DEF LockExpires, PatroniStep, vars
<1>32. QED
  BY <1>1, <1>2, <1>3, <1>4, <1>5, <1>6, <1>7, <1>8, <1>9, <1>10, <1>11, <1>12, <1>13,
     <1>14, <1>15, <1>16, <1>17, <1>18, <1>19, <1>20, <1>21, <1>22, <1>23, <1>24, <1>25,
     <1>26, <1>27, <1>28, <1>29, <1>30, <1>31
     DEF Next, Upgrade, Rollback, Patroni

(* The last task of a rollback finds a server everywhere, which is an old  *)
(* one if the old cluster is in the DCS, and cannot be found if it is not. *)
LEMMA RolledStep ==
  FilesInv /\ UpgradedInv /\ RemovedInv /\ RolledInv /\ [Next]_vars => RolledInv'
<1> SUFFICES ASSUME FilesInv, UpgradedInv, RemovedInv, RolledInv, [Next]_vars
             PROVE  RolledInv'
  OBVIOUS
<1> USE ConstantsAssumption
    DEF FilesInv, HostsOK, ControlOK, StageInv, DataInv, PathsInv, CalmInv, UpgradedInv,
        RemovedInv, OneNew, RolledInv, RestartTasks, UpgradeTasks, RollbackTasks, Versions,
        Group, Up, Leads, Put, configVars, serverVars, fileVars, clusterVars, playVars, Task,
        Unless, Await, On, Ignoring, Ok, GoTo, End, Abort, Include
<1>1. CASE \/ PreChecks \/ Checkpoint \/ ReplicationLag \/ CheckpointLocation
           \/ AwaitLeader \/ AwaitReplicas \/ IsReady \/ Extensions
  BY <1>1 DEF PreChecks, Checkpoint, ReplicationLag, CheckpointLocation, AwaitLeader,
              AwaitReplicas, IsReady, Extensions
<1>2. CASE \/ RollbackCluster \/ RollbackNewStopped \/ RollbackVersion
           \/ RollbackAwaitLeader \/ RollbackAwaitReplicas \/ RollbackResume
  BY <1>2 DEF RollbackCluster, RollbackNewStopped, RollbackVersion, RollbackAwaitLeader,
              RollbackAwaitReplicas, RollbackResume
<1>3. CASE RollbackCompleted
  BY <1>3 DEF RollbackCompleted
<1>4. CASE StartUpgrade
  BY <1>4 DEF StartUpgrade, Leads
<1>5. CASE StartRollback
  BY <1>5 DEF StartRollback
<1>6. CASE \/ Initdb \/ Pause \/ StopPatroniService \/ PausePools \/ StopPrimary
           \/ StopReplicas
  BY <1>6 DEF Initdb, Pause, StopPatroniService, StopPatroni, PausePools, StopPrimary,
              StopServers, StopReplicas
<1>7. CASE BackupConfig \/ EditConfig
  BY <1>7 DEF BackupConfig, EditConfig
<1>8. CASE UpgradePrimary \/ ClearReplicas \/ Rsync \/ RemoveCluster
  BY <1>8 DEF UpgradePrimary, ClearReplicas, Rsync, RemoveCluster
<1>9. CASE StartLeader \/ StartReplicas \/ ResumeLeader \/ ResumeReplicas \/ PostUpgrade
  BY <1>9 DEF StartLeader, StartPatroni, StartReplicas, ResumeLeader, ResumePools,
              ResumeReplicas, PostUpgrade, Paths
<1>10. CASE \/ RollbackControl \/ RollbackStartLeader \/ RollbackStartReplicas
            \/ RollbackPools
  BY <1>10 DEF RollbackControl, RollbackStartLeader, StartPatroni, RollbackStartReplicas,
               RollbackPools, ResumePools
<1>11. CASE RollbackConfig \/ RollbackPaths
  BY <1>11 DEF RollbackConfig, RollbackPaths
<1>12. ASSUME NEW h \in Hosts, Register(h), PatroniStep PROVE RolledInv'
  BY <1>12 DEF Register, CanRegister, Id, DataId, PatroniStep, Rewound, Up
<1>13. ASSUME NEW h \in Hosts, RestartPatroni(h), PatroniStep PROVE RolledInv'
  BY <1>13 DEF RestartPatroni, CanRestart, Id, DataId, PatroniStep, Rewound, Up
<1>14. ASSUME NEW h \in Hosts, Run(h), PatroniStep PROVE RolledInv'
  BY <1>14 DEF Run, CanRun, IsMember, Id, DataId, PatroniStep, Rewound, Up
<1>15. ASSUME NEW h \in Hosts, Lead(h), PatroniStep PROVE RolledInv'
  BY <1>15 DEF Lead, CanLead, IsMember, Id, DataId, PatroniStep, Rewound, Up
<1>16. ASSUME NEW h \in Hosts, StepDown(h), PatroniStep PROVE RolledInv'
  BY <1>16 DEF StepDown, CanStepDown, IsMember, PatroniStep, Rewound, Up
<1>17. ASSUME NEW h \in Hosts, Commit(h) \/ Stream(h) \/ GoDown(h) PROVE RolledInv'
  BY <1>17 DEF Commit, Stream, GoDown, PatroniStep
<1>18. CASE LockExpires \/ UNCHANGED vars
  BY <1>18 DEF LockExpires, PatroniStep, vars
<1>19. QED
  BY <1>1, <1>2, <1>3, <1>4, <1>5, <1>6, <1>7, <1>8, <1>9, <1>10, <1>11, <1>12, <1>13,
     <1>14, <1>15, <1>16, <1>17, <1>18
     DEF Next, Upgrade, Rollback, Patroni

(* "The upgrade is complete": the new cluster leads, and every host of the *)
(* group runs the new version and has its paths, whatever has failed in    *)
(* whichever runs before.                                                  *)
THEOREM UpgradedReport ==
  Spec => [](accidents = 0 /\ report = "upgraded" =>
               /\ dcs = "new" /\ ~paused
               /\ \A h \in Group :
                    server[h] = "new" /\ patroni[h] = "new" /\ config[h] = "new")
<1>1. Init => UpgradedInv
  BY ReportInit
<1>2. UpgradedInv /\ accidents = 0 /\ report = "upgraded" =>
        /\ dcs = "new" /\ ~paused
        /\ \A h \in Group : server[h] = "new" /\ patroni[h] = "new" /\ config[h] = "new"
  BY DEF UpgradedInv, OnNew
<1>3. QED
  BY <1>1, <1>2, UpgradedStep, FilesInductive, PTL DEF Spec

(* Courses with one upgrade, and any number of rollbacks, failures and     *)
(* accidents.                                                              *)
OneUpgrade == \A b \in Bounds : b.upgrades <= 1

OnceUpgraded == upgrades <= 1

(* The number of starts is bounded by the courses.                         *)
LEMMA OnceInductive == ASSUME OneUpgrade PROVE Spec => []OnceUpgraded
<1>1. Init => OnceUpgraded
  BY DEF Init, OnceUpgraded
<1>2. ASSUME OnceUpgraded, [Next]_vars, FilesInv PROVE OnceUpgraded'
  <2>1. CASE StartUpgrade
    BY <1>2, <2>1, ConstantsAssumption
       DEF StartUpgrade, Within, OneUpgrade, FilesInv, ControlOK, OnceUpgraded
  <2>2. Upgrade \/ Rollback => UNCHANGED upgrades
    BY TasksCounted
  <2>3. QED
    BY <1>2, <2>1, <2>2
       DEF Next, StartRollback, Patroni, Commit, Stream, GoDown, LockExpires, PatroniStep,
           playVars, vars, OnceUpgraded
<1>3. QED
  BY <1>1, <1>2, FilesInductive, PTL DEF Spec

(* What the playbook prints last is true of the hosts it ran on.           *)
THEOREM ReportCorrect == ASSUME OneUpgrade PROVE Spec => []ReportIsTrue
<1> DEFINE I == UpgradedInv /\ PoolsInv /\ OnceInv /\ RemovedInv /\ RolledInv
<1>1. FilesInv /\ I /\ [Next]_vars => I'
  BY UpgradedStep, PoolsStep, OnceStep, RemovedStep, RolledStep
<1>2. ASSUME I, OnceUpgraded PROVE ReportIsTrue
  <2> SUFFICES ASSUME accidents = 0 PROVE ReportIsTrue
    BY DEF ReportIsTrue
  <2>1. report = "upgraded" =>
          /\ dcs = "new" /\ ~paused
          /\ \A h \in Group : server[h] = "new" /\ patroni[h] = "new" /\ config[h] = "new"
    BY <1>2 DEF UpgradedInv, OnNew
  <2>2. report = "upgraded" /\ faults = 0 => pools = {}
    BY <1>2 DEF PoolsInv, OnceUpgraded
  <2>3. report = "rolled_back" =>
          dcs = "old" /\ \A h \in scope : server[h] = "old" /\ config[h] # "new"
    BY <1>2 DEF RolledInv, OnceUpgraded
  <2>4. QED
    BY <2>1, <2>2, <2>3 DEF ReportIsTrue
<1>3. QED
  BY <1>1, <1>2, ReportInit, FilesInductive, OnceInductive, PTL DEF Spec

=============================================================================
