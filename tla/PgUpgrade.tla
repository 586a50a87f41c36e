----------------------------- MODULE PgUpgrade -----------------------------
(***************************************************************************)
(* playbooks/pg_upgrade.yml, playbooks/pg_upgrade_rollback.yml and         *)
(* roles/upgrade: a major upgrade of a Patroni cluster in place, with      *)
(* pg_upgrade --link on the primary and rsync --hard-links to the          *)
(* replicas, and the way back.                                             *)
(*                                                                         *)
(* A task runs on a set of hosts.  One that fails may have taken effect on *)
(* any of them, and ends the playbook for all.  Then a user may start the  *)
(* rollback, or the upgrade again, while Patroni goes on with whatever the *)
(* playbook has left, and hosts may reboot at any moment.                  *)
(*                                                                         *)
(* Packages, tablespaces, WAL directories, HAProxy, vip-manager and        *)
(* statistics are left out: no task that is modelled depends on them.      *)
(***************************************************************************)
EXTENDS Naturals, FiniteSets

CONSTANTS
  Hosts,         \* group postgres_cluster
  Master,        \* the host of group master in the inventory
  None,          \* no host, no cluster in the DCS
  Bounds         \* how often, at most, pg_upgrade.yml and
                 \* pg_upgrade_rollback.yml are started, how many tasks may
                 \* fail and how often a host may go down: a set of courses

ASSUME ConstantsAssumption ==
  /\ IsFiniteSet(Hosts) /\ Master \in Hosts
  /\ None \notin Hosts \cup {"old", "new", "other"}
  /\ Bounds \subseteq [upgrades: Nat, rollbacks: Nat, faults: Nat, accidents: Nat]

VARIABLES
  config,     \* patroni.yml: "old", "new", or "converted": the paths of the
              \* old version with the parameters of the new
  bkp,        \* patroni.yml.bkp, or "none"
  patroni,    \* the version whose paths Patroni has loaded, "off" if stopped
  server,     \* the version that runs, or "none"
  newData,    \* pg_new_datadir: "none", "empty", "fresh" from initdb,
              \* "partial", "upgraded", "stale" if upgraded in an earlier run
  oldData,    \* pg_old_datadir: "intact", "renamed" with pg_control.old,
              \* "broken", "gone"
  shared,     \* who has written to the files both versions link to: "apart"
              \* if there are none, "untouched", "old", "new"
  writers,    \* hosts whose data are a primary's, not a standby's
  whole,      \* hosts whose data have every transaction
  dcs,        \* the system identifier of the cluster in the DCS
  leader,     \* the holder of its leader key
  paused,     \* its maintenance mode
  pools,      \* hosts with paused PgBouncer pools
  pc,         \* the task at hand
  primary,    \* the host of group primary
  secondary,  \* those of group secondary
  scope,      \* those rollback.yml is included for
  report,     \* how the last run ended
  upgrades, rollbacks, faults, accidents

fileVars    == <<newData, oldData, shared, whole>>
configVars  == <<config, bkp>>
serverVars  == <<server, writers>>
clusterVars == <<dcs, leader, paused>>
playVars    == <<pc, primary, secondary, scope, report, upgrades, rollbacks>>
vars == <<config, bkp, patroni, server, newData, oldData, shared, writers, whole,
          dcs, leader, paused, pools, pc, primary, secondary, scope, report,
          upgrades, rollbacks, faults, accidents>>

-----------------------------------------------------------------------------
UpgradeTasks ==
  {"pre_checks", "initdb", "backup_config", "edit_config", "pause", "stop_patroni",
   "checkpoint", "replication_lag", "pause_pools", "stop_primary", "stop_replicas",
   "checkpoint_location", "pg_upgrade", "clear_replicas", "rsync", "remove_cluster",
   "start_leader", "await_leader", "resume_leader", "start_replicas",
   "await_replicas", "resume_replicas", "isready", "extensions", "post_upgrade"}
RollbackTasks ==
  {"rb_cluster", "rb_new", "rb_control", "rb_version", "rb_config", "rb_paths",
   "rb_start_leader", "rb_resume", "rb_await_leader", "rb_start_replicas",
   "rb_await_replicas", "rb_pools", "rb_isready"}

Versions == {"old", "new"}
Configs  == {"old", "new", "converted"}

TypeOK ==
  /\ config  \in [Hosts -> Configs]
  /\ bkp     \in [Hosts -> Configs \cup {"none"}]
  /\ patroni \in [Hosts -> Versions \cup {"off"}]
  /\ server  \in [Hosts -> Versions \cup {"none"}]
  /\ newData \in [Hosts -> {"none", "empty", "fresh", "partial", "upgraded", "stale"}]
  /\ oldData \in [Hosts -> {"intact", "renamed", "broken", "gone"}]
  /\ shared  \in [Hosts -> {"apart", "untouched", "old", "new"}]
  /\ writers \subseteq Hosts /\ whole \subseteq Hosts /\ pools \subseteq Hosts
  /\ dcs \in Versions \cup {"other", None}
  /\ leader \in Hosts \cup {None}
  /\ paused \in BOOLEAN
  /\ pc \in UpgradeTasks \cup RollbackTasks \cup {"idle"}
  /\ primary \in Hosts /\ secondary \subseteq Hosts \ {primary}
  /\ scope \subseteq {primary} \cup secondary
  /\ report \in {"none", "aborted", "upgraded", "rolled_back"}
  /\ {upgrades, rollbacks, faults, accidents} \subseteq Nat

Init ==
  /\ config  = [h \in Hosts |-> "old"]
  /\ bkp     = [h \in Hosts |-> "none"]
  /\ patroni = [h \in Hosts |-> "old"]
  /\ server  = [h \in Hosts |-> "old"]
  /\ newData = [h \in Hosts |-> "none"]
  /\ oldData = [h \in Hosts |-> "intact"]
  /\ shared  = [h \in Hosts |-> "apart"]
  /\ leader \in Hosts /\ writers = {leader} /\ whole = Hosts
  /\ dcs = "old" /\ paused = FALSE /\ pools = {}
  /\ pc = "idle" /\ primary = Master /\ secondary = {} /\ scope = {}
  /\ report = "none"
  /\ upgrades = 0 /\ rollbacks = 0 /\ faults = 0 /\ accidents = 0

Within(u, r, f, a) ==
  \E b \in Bounds : u <= b.upgrades /\ r <= b.rollbacks /\ f <= b.faults /\ a <= b.accidents

Up(h)    == server[h] # "none"
Leads(h) == patroni[h] # "off" /\ Up(h) /\ leader = h     \* GET /leader: 200
Healthy(h) == patroni[h] # "off" /\ Up(h)                 \* GET /health: 200
Group    == {primary} \cup secondary

(* The version whose paths patroni.yml has.                                *)
Paths(h) == IF config[h] = "new" THEN "new" ELSE "old"

(* f with the value v on the hosts of S.                                   *)
Put(f, S, v) == [h \in Hosts |-> IF h \in S THEN v ELSE f[h]]

-----------------------------------------------------------------------------
(* Patroni.  It runs the version whose paths it has loaded, if the system  *)
(* identifier of those data is the cluster's.  In maintenance mode it      *)
(* starts, stops and promotes nothing.  A copy of the leader that it may   *)
(* make into an empty directory is left out.                               *)

DataId(h, version) ==
  CASE version = "old" /\ oldData[h] = "intact"   -> "old"
    [] version = "new" /\ newData[h] = "upgraded" -> "new"
    [] version = "new" /\ newData[h] \in {"fresh", "stale"} -> "other"
    [] OTHER -> None

Id(h) == DataId(h, IF Up(h) THEN server[h] ELSE patroni[h])

IsMember(h) == patroni[h] # "off" /\ Id(h) = dcs /\ dcs # None

CanRegister(h) == patroni[h] # "off" /\ dcs = None /\ Id(h) # None
CanRestart(h)  == /\ patroni[h] # "off" /\ ~paused
                  /\ dcs # None /\ Id(h) \notin {dcs, None}
                  /\ Up(h) \/ patroni[h] # Paths(h)
CanRun(h)      == IsMember(h) /\ ~Up(h) /\ ~paused
CanLead(h)     == IsMember(h) /\ Up(h) /\ leader = None /\ (~paused \/ h \in writers)
CanStepDown(h) == IsMember(h) /\ Up(h) /\ leader \notin {h, None} /\ h \in writers /\ ~paused
CanExpire      == leader # None /\ patroni[leader] = "off"

AtRest ==
  /\ ~CanExpire
  /\ \A h \in Hosts : ~(\/ CanRegister(h) \/ CanRestart(h) \/ CanRun(h)
                        \/ CanLead(h) \/ CanStepDown(h))

PatroniStep == UNCHANGED <<configVars, newData, oldData, pools, playVars, faults, accidents>>

Register(h) ==
  /\ CanRegister(h)
  /\ dcs' = Id(h)
  /\ UNCHANGED <<patroni, serverVars, shared, whole, leader, paused>>

(* "System ID mismatch": Patroni exits, and systemd starts it again.       *)
RestartPatroni(h) ==
  /\ CanRestart(h)
  /\ server'  = [server EXCEPT ![h] = "none"]
  /\ patroni' = [patroni EXCEPT ![h] = Paths(h)]
  /\ UNCHANGED <<writers, shared, whole, clusterVars>>

(* What the former primary h has committed and the leader has not is lost, *)
(* and "every transaction" is what the leader has.                         *)
Rewound(h) == IF leader \notin whole \cup {None} /\ h \in whole THEN {leader} ELSE whole

Run(h) ==
  /\ CanRun(h)
  /\ server'  = [server EXCEPT ![h] = patroni[h]]
  /\ shared'  = [shared EXCEPT ![h] = IF @ = "apart" THEN @ ELSE patroni[h]]
  /\ IF leader = h THEN UNCHANGED <<writers, whole>>
     ELSE writers' = writers \ {h} /\ whole' = Rewound(h)
  /\ UNCHANGED <<patroni, clusterVars>>

(* What a new leader lacks is lost, and "every transaction" is what it has.*)
Lead(h) ==
  /\ CanLead(h)
  /\ leader'  = h
  /\ writers' = writers \cup {h}
  /\ whole'   = IF h \in whole THEN whole ELSE {h}
  /\ UNCHANGED <<patroni, server, shared, dcs, paused>>

StepDown(h) ==
  /\ CanStepDown(h)
  /\ writers' = writers \ {h}
  /\ whole'   = Rewound(h)
  /\ UNCHANGED <<patroni, server, shared, clusterVars>>

Patroni(h) ==
  /\ Register(h) \/ RestartPatroni(h) \/ Run(h) \/ Lead(h) \/ StepDown(h)
  /\ PatroniStep

LockExpires ==
  /\ CanExpire
  /\ leader' = None
  /\ PatroniStep
  /\ UNCHANGED <<patroni, serverVars, shared, whole, dcs, paused>>

(* The servers: a primary commits transactions, a standby follows.         *)
Commit(h) ==
  /\ Up(h) /\ h \in writers
  /\ whole' = {h}
  /\ PatroniStep
  /\ UNCHANGED <<patroni, serverVars, shared, clusterVars>>

Stream(h) ==
  /\ Up(h) /\ h \notin writers
  /\ \E g \in writers \cap whole : server[g] = server[h]
  /\ whole' = whole \cup {h}
  /\ PatroniStep
  /\ UNCHANGED <<patroni, serverVars, shared, clusterVars>>

(* A host goes down, and may come back: Patroni's service is enabled.      *)
GoDown(h) ==
  /\ accidents' = accidents + 1 /\ Within(upgrades, rollbacks, faults, accidents')
  /\ server'  = [server EXCEPT ![h] = "none"]
  /\ patroni' \in {Put(patroni, {h}, "off"), Put(patroni, {h}, Paths(h))}
  /\ leader'  = IF leader = h THEN None ELSE leader
  /\ UNCHANGED <<configVars, fileVars, writers, dcs, paused, pools, playVars, faults>>

-----------------------------------------------------------------------------
(* Tasks.  What every task leaves alone, and how it ends.                  *)

Task(t) == pc = t /\ UNCHANGED <<primary, secondary, upgrades, rollbacks, accidents>>

Ok    == UNCHANGED faults
Fault == faults' = faults + 1 /\ Within(upgrades, rollbacks, faults', accidents)

GoTo(t)     == pc' = t /\ UNCHANGED <<scope, report>>
End(how)    == pc' = "idle" /\ report' = how /\ UNCHANGED scope
Abort       == End("aborted")
Include(S)  == pc' = "rb_cluster" /\ scope' = S /\ UNCHANGED report

(* A condition that is asked for once.                                     *)
Unless(condition, t) ==
  \/ condition /\ Ok /\ GoTo(t)
  \/ ((~condition /\ Ok) \/ Fault) /\ Abort

(* One that is waited for: in vain if Patroni has nothing left to do, or   *)
(* if it takes too long.                                                   *)
Await(condition, t) ==
  \/ condition /\ Ok /\ GoTo(t)
  \/ ((~condition /\ AtRest /\ Ok) \/ Fault) /\ Abort

(* A change to the hosts of S: done on all of them, or on some.            *)
On(S, done, t) ==
  \/ done = S /\ Ok /\ GoTo(t)
  \/ done \subseteq S /\ Fault /\ Abort

(* The same with failed_when: false or ignore_errors: true.                *)
Ignoring(S, done, t) ==
  /\ (done = S /\ Ok) \/ (done \subseteq S /\ Fault)
  /\ GoTo(t)

StopPatroni(S)  == patroni' = Put(patroni, S, "off")
StartPatroni(S) ==
  patroni' = [h \in Hosts |-> IF h \in S /\ patroni[h] = "off" THEN Paths(h) ELSE patroni[h]]

-----------------------------------------------------------------------------
(* pg_upgrade.yml *)

(* Groups primary and secondary by the answers to GET /leader.             *)
StartUpgrade ==
  /\ pc = "idle"
  /\ upgrades' = upgrades + 1 /\ Within(upgrades', rollbacks, faults, accidents)
  /\ \/ /\ \E h \in Hosts : Leads(h) /\ primary' = h
        /\ secondary' = {h \in Hosts : patroni[h] # "off"} \ {primary'}
        /\ pc' = "pre_checks" /\ report' = "none" /\ scope' = {}
     \/ /\ \A h \in Hosts : ~Leads(h)
        /\ Abort /\ UNCHANGED <<primary, secondary>>
  /\ UNCHANGED <<configVars, patroni, serverVars, fileVars, clusterVars, pools,
                 rollbacks, faults, accidents>>

(* Variant: the current version is not compared with pg_old_version. *)
PreChecksAnyVersion ==
  /\ Task("pre_checks")
  /\ Unless(\A h \in Group : Up(h), "initdb")
  /\ UNCHANGED <<configVars, patroni, serverVars, fileVars, clusterVars, pools>>

(* The old version answers everywhere, and some replica streams from it.   *)
PreChecks ==
  /\ Task("pre_checks")
  /\ Unless(/\ \A h \in Group : Up(h)
            /\ server[primary] = "old" /\ primary \in writers
            /\ \E h \in Hosts \ writers : server[h] = "old",
            "initdb")
  /\ UNCHANGED <<configVars, patroni, serverVars, fileVars, clusterVars, pools>>

(* The new directory is cleared and initialised, on Debian on every host,  *)
(* on RedHat on the primary, whose system identifier is a new one.  The    *)
(* checks of the schema and of pg_upgrade that follow may fail, too.       *)
Initdb ==
  /\ Task("initdb")
  /\ \E done \in SUBSET Group, elsewhere \in {"fresh", "empty"} :
       /\ On(Group, done, "backup_config")
       /\ newData' = [h \in Hosts |->
            CASE h \in done -> IF h = primary THEN "fresh" ELSE elsewhere
              [] h \notin done /\ primary \in done /\ newData[h] = "upgraded" -> "stale"
              [] OTHER -> newData[h]]
       /\ shared'  = Put(shared, done, "apart")
  /\ UNCHANGED <<configVars, patroni, serverVars, oldData, whole, clusterVars, pools>>

BackupConfig ==
  /\ Task("backup_config")
  /\ \E done \in SUBSET Group :
       /\ On(Group, done, "edit_config")
       /\ bkp' = [h \in Hosts |-> IF h \in done THEN config[h] ELSE bkp[h]]
  /\ UNCHANGED <<config, patroni, serverVars, fileVars, clusterVars, pools>>

EditConfig ==
  /\ Task("edit_config")
  /\ \E done \in SUBSET Group :
       On(Group, done, "pause") /\ config' = Put(config, done, "new")
  /\ UNCHANGED <<bkp, patroni, serverVars, fileVars, clusterVars, pools>>

Pause ==
  /\ Task("pause")
  /\ Unless(dcs # None, "stop_patroni")
  /\ paused' \in {TRUE} \cup (IF pc' = "idle" THEN {paused} ELSE {})
  /\ UNCHANGED <<configVars, patroni, serverVars, fileVars, dcs, leader, pools>>

(* The servers go on without Patroni.                                      *)
StopPatroniService ==
  /\ Task("stop_patroni")
  /\ \E done \in SUBSET Group : On(Group, done, "checkpoint") /\ StopPatroni(done)
  /\ UNCHANGED <<configVars, serverVars, fileVars, clusterVars, pools>>

Checkpoint ==
  /\ Task("checkpoint")
  /\ Unless(\A h \in Group : Up(h), "replication_lag")
  /\ UNCHANGED <<configVars, patroni, serverVars, fileVars, clusterVars, pools>>

(* The lag is known on the primary only, and so rollback.yml is included   *)
(* on the primary only.                                                    *)
ReplicationLag ==
  /\ Task("replication_lag")
  /\ (Ok /\ GoTo("pause_pools")) \/ (Fault /\ Include({primary}))
  /\ UNCHANGED <<configVars, patroni, serverVars, fileVars, clusterVars, pools>>

(* All pools, or none.  Without a group secondary its name is an error.    *)
PausePools ==
  /\ Task("pause_pools")
  /\ \/ secondary # {} /\ Ok /\ GoTo("stop_primary") /\ pools' = pools \cup Group
     \/ secondary # {} /\ Fault /\ Include(Group) /\ UNCHANGED pools
     \/ secondary = {} /\ Ok /\ Abort /\ UNCHANGED pools
  /\ UNCHANGED <<configVars, patroni, serverVars, fileVars, clusterVars>>

(* pg_ctl stop fails where no server runs.                                 *)
StopServers(S, t) ==
  /\ \E done \in SUBSET S :
       /\ \/ (\A h \in S : server[h] = "old") /\ On(S, done, t)
          \/ (\E h \in S : server[h] # "old") /\ Ok /\ Abort
             /\ done = {h \in S : server[h] = "old"}
       /\ server' = Put(server, done, "none")
  /\ UNCHANGED <<configVars, patroni, writers, fileVars, clusterVars, pools>>

StopPrimary  == Task("stop_primary")  /\ StopServers({primary}, "stop_replicas")
StopReplicas == Task("stop_replicas") /\ StopServers(secondary, "checkpoint_location")

(* Variant: goes on whatever the locations are. *)
CheckpointLocationPrinted ==
  /\ Task("checkpoint_location")
  /\ Unless(TRUE, "pg_upgrade")
  /\ UNCHANGED <<configVars, patroni, serverVars, fileVars, clusterVars, pools>>

(* The last checkpoints are the same if both hosts have everything, differ *)
(* if one of them has, and may be the same if neither has.                 *)
CheckpointLocation ==
  /\ Task("checkpoint_location")
  /\ \/ (\A h \in secondary : h \in whole <=> primary \in whole) /\ Ok /\ GoTo("pg_upgrade")
     \/ ~(Group \subseteq whole) /\ Ok /\ Include(Group)
     \/ Fault /\ Abort
  /\ UNCHANGED <<configVars, patroni, serverVars, fileVars, clusterVars, pools>>

(* pg_upgrade refuses data that are a standby's.  It can fail before it    *)
(* has renamed pg_control and linked files, or after it.                   *)
UpgradePrimary ==
  /\ Task("pg_upgrade")
  /\ LET sound == /\ ~Up(primary) /\ primary \in writers
                  /\ oldData[primary] = "intact" /\ newData[primary] = "fresh"
         Links(state) == /\ newData' = [newData EXCEPT ![primary] = state]
                         /\ oldData' = [oldData EXCEPT ![primary] = "renamed"]
                         /\ shared'  = [shared EXCEPT ![primary] = "untouched"]
     IN  \/ sound /\ Ok /\ GoTo("clear_replicas") /\ Links("upgraded")
         \/ sound /\ Fault /\ Include(Group) /\ Links("partial")
         \/ /\ (~sound /\ Ok) \/ Fault
            /\ Include(Group)
            /\ newData' = [newData EXCEPT ![primary] = "partial"]
            /\ UNCHANGED <<oldData, shared>>
  /\ UNCHANGED <<configVars, patroni, serverVars, whole, clusterVars, pools>>

ClearReplicas ==
  /\ Task("clear_replicas")
  /\ \E done \in SUBSET secondary :
       /\ On(secondary, done, "rsync")
       /\ newData' = Put(newData, done, "empty")
       /\ shared'  = Put(shared, done, "apart")
  /\ UNCHANGED <<configVars, patroni, serverVars, oldData, whole, clusterVars, pools>>

(* Both directories of the primary, with their links.  Where rsync fails,  *)
(* pg_control may be there under its old name, its new one, or neither.    *)
Rsync ==
  /\ Task("rsync")
  /\ \E done, part \in SUBSET secondary, control \in {"intact", "renamed", "broken"} :
       /\ \/ done = secondary /\ part = {} /\ Ok /\ GoTo("remove_cluster")
          \/ done \cap part = {} /\ Fault /\ Abort
       /\ newData' = Put(Put(newData, done, "upgraded"), part, "partial")
       /\ oldData' = Put(Put(oldData, done, "renamed"), part, control)
       /\ shared'  = Put(shared, done \cup part, "untouched")
       /\ writers' = writers \cup done
  /\ UNCHANGED <<configVars, patroni, server, whole, clusterVars, pools>>

(* Variant: the cluster is left in the DCS. *)
KeepCluster ==
  /\ Task("remove_cluster")
  /\ Unless(TRUE, "start_leader")
  /\ UNCHANGED <<configVars, patroni, serverVars, fileVars, clusterVars, pools>>

RemoveCluster ==
  /\ Task("remove_cluster")
  /\ Unless(dcs # None, "start_leader")
  /\ \/ dcs' = None /\ leader' = None /\ paused' = FALSE
     \/ pc' = "idle" /\ UNCHANGED clusterVars
  /\ UNCHANGED <<configVars, patroni, serverVars, fileVars, pools>>

StartLeader ==
  /\ Task("start_leader")
  /\ \E done \in SUBSET {primary} : On({primary}, done, "await_leader") /\ StartPatroni(done)
  /\ UNCHANGED <<configVars, serverVars, fileVars, clusterVars, pools>>

AwaitLeader ==
  /\ Task("await_leader")
  /\ Await(Leads(primary), "resume_leader")
  /\ UNCHANGED <<configVars, patroni, serverVars, fileVars, clusterVars, pools>>

(* A pool that could not be resumed stays paused. *)
ResumePools(S, t) ==
  /\ \E done \in SUBSET S : Ignoring(S, done, t) /\ pools' = pools \ done
  /\ UNCHANGED <<configVars, patroni, serverVars, fileVars, clusterVars>>

ResumeLeader == Task("resume_leader") /\ ResumePools({primary}, "start_replicas")

StartReplicas ==
  /\ Task("start_replicas")
  /\ \E done \in SUBSET secondary :
       On(secondary, done, "await_replicas") /\ StartPatroni(done)
  /\ UNCHANGED <<configVars, serverVars, fileVars, clusterVars, pools>>

AwaitReplicas ==
  /\ Task("await_replicas")
  /\ Await(\A h \in secondary : Healthy(h), "resume_replicas")
  /\ UNCHANGED <<configVars, patroni, serverVars, fileVars, clusterVars, pools>>

ResumeReplicas == Task("resume_replicas") /\ ResumePools(secondary, "isready")

IsReady ==
  /\ Task("isready")
  /\ Await(\A h \in Group : Up(h), "extensions")
  /\ UNCHANGED <<configVars, patroni, serverVars, fileVars, clusterVars, pools>>

(* Statistics, extensions and the post-checks. *)
Extensions ==
  /\ Task("extensions")
  /\ Unless(TRUE, "post_upgrade")
  /\ UNCHANGED <<configVars, patroni, serverVars, fileVars, clusterVars, pools>>

(* A server that says it runs in the new directory loses the old one.  The *)
(* version that is reported is the primary's.                              *)
PostUpgrade ==
  LET upgraded == {h \in Group : server[h] = "new"} IN
  /\ Task("post_upgrade")
  /\ \E done \in SUBSET upgraded :
       /\ \/ done = upgraded /\ Ok /\ End(IF Up(primary) THEN "upgraded" ELSE "aborted")
          \/ Fault /\ (End("upgraded") \/ Abort)
       /\ oldData' = Put(oldData, done, "gone")
  /\ UNCHANGED <<configVars, patroni, serverVars, newData, shared, whole, clusterVars, pools>>

-----------------------------------------------------------------------------
(* rollback.yml, included by a task or from pg_upgrade_rollback.yml *)

(* Here the groups are those of the inventory. *)
StartRollback ==
  /\ pc = "idle"
  /\ rollbacks' = rollbacks + 1 /\ Within(upgrades, rollbacks', faults, accidents)
  /\ primary' = Master /\ secondary' = Hosts \ {Master} /\ scope' = Hosts
  /\ pc' = "rb_cluster" /\ report' = "none"
  /\ UNCHANGED <<configVars, patroni, serverVars, fileVars, clusterVars, pools,
                 upgrades, faults, accidents>>

(* Without an answer from the primary no members are counted. *)
RollbackCluster ==
  LET running == IF patroni[primary] = "off" THEN {} ELSE {h \in Hosts : Healthy(h)} IN
  /\ Task("rb_cluster")
  /\ Unless(secondary # {} /\ Cardinality(running) # Cardinality(Group), "rb_new")
  /\ UNCHANGED <<configVars, patroni, serverVars, fileVars, clusterVars, pools>>

RollbackNewStopped ==
  /\ Task("rb_new")
  /\ Unless(\A h \in scope : server[h] # "new", "rb_control")
  /\ UNCHANGED <<configVars, patroni, serverVars, fileVars, clusterVars, pools>>

RollbackControl ==
  /\ Task("rb_control")
  /\ \E done \in SUBSET scope :
       /\ On(scope, done, "rb_version")
       /\ oldData' = Put(oldData, {h \in done : oldData[h] = "renamed"}, "intact")
  /\ UNCHANGED <<configVars, patroni, serverVars, newData, shared, whole, clusterVars, pools>>

RollbackVersion ==
  /\ Task("rb_version")
  /\ Unless(oldData[primary] = "intact", "rb_config")
  /\ UNCHANGED <<configVars, patroni, serverVars, fileVars, clusterVars, pools>>

(* A host that has no copy of patroni.yml fails. *)
RollbackConfig ==
  LET saved == {h \in scope : bkp[h] # "none"} IN
  /\ Task("rb_config")
  /\ \E done \in SUBSET saved :
       /\ \/ saved = scope /\ On(scope, done, "rb_paths")
          \/ saved # scope /\ done = saved /\ Ok /\ Abort
       /\ config' = [h \in Hosts |-> IF h \in done THEN bkp[h] ELSE config[h]]
  /\ UNCHANGED <<bkp, patroni, serverVars, fileVars, clusterVars, pools>>

(* Variant: the copy is taken to have the old paths. *)
RollbackPathsTrusted ==
  /\ Task("rb_paths")
  /\ Unless(TRUE, "rb_start_leader")
  /\ UNCHANGED <<configVars, patroni, serverVars, fileVars, clusterVars, pools>>

(* The copy may be of a patroni.yml that had been edited before. *)
RollbackPaths ==
  /\ Task("rb_paths")
  /\ \E done \in SUBSET scope :
       /\ On(scope, done, "rb_start_leader")
       /\ config' = Put(config, {h \in done : config[h] = "new"}, "converted")
  /\ UNCHANGED <<bkp, patroni, serverVars, fileVars, clusterVars, pools>>

RollbackStartLeader ==
  /\ Task("rb_start_leader")
  /\ \E done \in SUBSET {primary} : On({primary}, done, "rb_resume") /\ StartPatroni(done)
  /\ UNCHANGED <<configVars, serverVars, fileVars, clusterVars, pools>>

(* The port is waited for; that the cluster stays paused is ignored. *)
RollbackResume ==
  /\ Task("rb_resume")
  /\ \/ patroni[primary] # "off" /\ Ok /\ paused' = FALSE /\ GoTo("rb_await_leader")
     \/ patroni[primary] # "off" /\ Fault /\ UNCHANGED paused /\ GoTo("rb_await_leader")
     \/ patroni[primary] = "off" /\ Ok /\ UNCHANGED paused /\ Abort
  /\ UNCHANGED <<configVars, patroni, serverVars, fileVars, dcs, leader, pools>>

RollbackAwaitLeader ==
  /\ Task("rb_await_leader")
  /\ Await(Leads(primary), "rb_start_replicas")
  /\ UNCHANGED <<configVars, patroni, serverVars, fileVars, clusterVars, pools>>

RollbackStartReplicas ==
  /\ Task("rb_start_replicas")
  /\ \E done \in SUBSET (scope \cap secondary) :
       On(scope \cap secondary, done, "rb_await_replicas") /\ StartPatroni(done)
  /\ UNCHANGED <<configVars, serverVars, fileVars, clusterVars, pools>>

RollbackAwaitReplicas ==
  /\ Task("rb_await_replicas")
  /\ Await(\A h \in scope \cap secondary : Healthy(h), "rb_pools")
  /\ UNCHANGED <<configVars, patroni, serverVars, fileVars, clusterVars, pools>>

RollbackPools == Task("rb_pools") /\ ResumePools(scope, "rb_isready")

RollbackCompleted ==
  /\ Task("rb_isready")
  /\ \/ (\A h \in scope : Up(h)) /\ Ok /\ End("rolled_back")
     \/ (((\E h \in scope : ~Up(h)) /\ AtRest /\ Ok) \/ Fault) /\ Abort
  /\ UNCHANGED <<configVars, patroni, serverVars, fileVars, clusterVars, pools>>

-----------------------------------------------------------------------------
Upgrade ==
  \/ PreChecks \/ Initdb \/ BackupConfig \/ EditConfig \/ Pause \/ StopPatroniService
  \/ Checkpoint \/ ReplicationLag \/ PausePools \/ StopPrimary \/ StopReplicas
  \/ CheckpointLocation \/ UpgradePrimary \/ ClearReplicas \/ Rsync \/ RemoveCluster
  \/ StartLeader \/ AwaitLeader \/ ResumeLeader \/ StartReplicas \/ AwaitReplicas
  \/ ResumeReplicas \/ IsReady \/ Extensions \/ PostUpgrade

Rollback ==
  \/ RollbackCluster \/ RollbackNewStopped \/ RollbackControl \/ RollbackVersion
  \/ RollbackConfig \/ RollbackPaths \/ RollbackStartLeader \/ RollbackResume
  \/ RollbackAwaitLeader \/ RollbackStartReplicas \/ RollbackAwaitReplicas
  \/ RollbackPools \/ RollbackCompleted

Next ==
  \/ StartUpgrade \/ StartRollback \/ Upgrade \/ Rollback
  \/ \E h \in Hosts : Patroni(h) \/ Commit(h) \/ Stream(h) \/ GoDown(h)
  \/ LockExpires

(* A playbook that was started goes on, and Patroni does what it can.      *)
Fairness ==
  /\ WF_vars(Upgrade \/ Rollback)
  /\ \A h \in Hosts : WF_vars(Patroni(h))
  /\ WF_vars(LockExpires)

Spec     == Init /\ [][Next]_vars
FairSpec == Spec /\ Fairness

-----------------------------------------------------------------------------
(* Properties *)

Abstract == INSTANCE LinkedFiles WITH
  files <- [h \in Hosts |-> IF oldData[h] = "gone" THEN "dropped" ELSE shared[h]]

(* Whatever fails, and whichever playbook is started after it: once a      *)
(* version has written to the files both link to, the other never runs on  *)
(* them, and the old directory goes only where the new version runs        *)
(* (the notes on top of rollback.yml, post_upgrade.yml:2).                 *)
LinkedFilesSafe == Abstract!Spec

(* The new cluster starts from data that have every transaction the old    *)
(* one has committed: what checkpoint_location.yml compares is enough.     *)
(* Excepted is a host that has gone on as a primary without Patroni, beside*)
(* the leader: it is in neither group.                                     *)
UpgradedIsWhole ==
  [][\A h \in Hosts : newData[h] # "upgraded" /\ newData'[h] = "upgraded"
       => primary \in whole \/ writers \ Group # {}]_vars

(* What the playbook prints last is true of the hosts it ran on, whatever  *)
(* tasks have failed in the runs before, as long as no host went down.     *)
ReportIsTrue ==
  accidents = 0 =>
    /\ report = "upgraded" =>
         /\ dcs = "new" /\ ~paused
         /\ \A h \in Group : server[h] = "new" /\ patroni[h] = "new" /\ config[h] = "new"
         /\ faults = 0 => pools = {}
    /\ report = "rolled_back" =>
         /\ dcs = "old"
         /\ \A h \in scope : server[h] = "old" /\ config[h] # "new"

(* A run that has passed the pre-checks and meets no failure ends with the *)
(* cluster upgraded, or, if a replica lacks something, back in service.    *)
UndisturbedCompletes ==
  (pc = "initdb") ~> (report \in {"upgraded", "rolled_back"} \/ faults > 0 \/ accidents > 0)

=============================================================================
