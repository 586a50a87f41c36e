--------------------------- MODULE RollingUpdate ---------------------------
(***************************************************************************)
(* playbooks/update_pgcluster.yml and roles/update: a minor update of a    *)
(* Patroni cluster.  The playbook asks every host for its role, updates    *)
(* the replicas one by one and the primary last, after a switchover.  A    *)
(* host is taken out of traffic by tags in patroni.yml, its services are   *)
(* stopped, its packages replaced, and all is undone in turn.  A task that *)
(* fails ends the playbook for every host, unless its errors are ignored;  *)
(* after that it may be started again.  Meanwhile Patroni elects leaders   *)
(* on its own.                                                             *)
(*                                                                         *)
(* Hosts are asked for their role at one moment.  Patroni and the server   *)
(* it runs go up and down together.                                        *)
(***************************************************************************)
EXTENDS Naturals, FiniteSets

CONSTANTS
  Hosts,        \* group postgres_cluster, numbered in the inventory's order
  None,         \* no host
  MaxRuns,      \* how often the playbook is started
  MaxFaults,    \* how many tasks may fail
  MaxAccidents  \* how often a host may crash or lose its leadership

ASSUME ConstantsAssumption ==
  /\ Hosts \subseteq Nat /\ IsFiniteSet(Hosts) /\ Hosts # {}
  /\ None \notin Hosts
  /\ {MaxRuns, MaxFaults, MaxAccidents} \subseteq Nat

VARIABLES
  leader,     \* the holder of Patroni's leader key
  up,         \* hosts on which Patroni runs
  stopped,    \* hosts on which the playbook has stopped it
  edited,     \* hosts with noloadbalance, nosync, nofailover in patroni.yml
  loaded,     \* hosts whose Patroni knows of it
  installed,  \* hosts with the new packages
  current,    \* hosts that run them
  pc, host,   \* the task at hand, and its host
  primary,    \* the host of group primary
  secondary,  \* those of group secondary,
  todo,       \* and those of them still to do
  failed,     \* hosts with a fact update_*_failed
  stale,      \* hosts whose lists of packages are old
  report,     \* how the last run ended
  runs, faults, accidents

patroniVars == <<leader, up, stopped, edited, loaded>>
packageVars == <<installed, current, failed, stale>>
playVars    == <<pc, host, primary, secondary, todo, report, runs>>
vars == <<leader, up, stopped, edited, loaded, installed, current, pc, host,
          primary, secondary, todo, failed, stale, report, runs, faults, accidents>>

-----------------------------------------------------------------------------
PreparatoryTasks == {"idle", "pre_checks", "next_host"}
SwitchoverTasks  == {"check_leader", "switchover", "recheck", "retry", "await_replica"}
HostTasks == {"tag", "reload", "await_503", "drain", "isready", "stop", "install",
              "reboot", "start", "await_health", "untag", "reload_again", "await_200"}
Tasks == PreparatoryTasks \cup SwitchoverTasks \cup HostTasks \cup {"post_update"}

TypeOK ==
  /\ leader \in up \cup {None}
  /\ up \subseteq Hosts /\ stopped \subseteq Hosts \ up
  /\ edited \subseteq Hosts /\ loaded \subseteq Hosts
  /\ current \subseteq installed /\ installed \subseteq Hosts
  /\ failed \subseteq Hosts /\ stale \subseteq Hosts
  /\ pc \in Tasks
  /\ {host, primary} \subseteq Hosts \cup {None}
  /\ todo \subseteq secondary /\ secondary \subseteq Hosts
  /\ report \in {"none", "completed", "with_errors", "aborted"}
  /\ runs \in 0..MaxRuns
  /\ faults \in 0..MaxFaults
  /\ accidents \in 0..MaxAccidents

Init ==
  /\ leader \in Hosts
  /\ up = Hosts
  /\ stopped = {} /\ edited = {} /\ loaded = {}
  /\ installed = {} /\ current = {} /\ failed = {} /\ stale = {}
  /\ pc = "idle" /\ host = None
  /\ primary = None /\ secondary = {} /\ todo = {}
  /\ report = "none"
  /\ runs = 0 /\ faults = 0 /\ accidents = 0

(* Patroni's REST API: GET /leader, GET /replica. *)
Leads(h)      == h \in up /\ h = leader
IsReplica(h)  == h \in up /\ h # leader /\ h \notin loaded
Candidates    == (up \ loaded) \ {leader}

Ok    == UNCHANGED faults
Fault == faults < MaxFaults /\ faults' = faults + 1

-----------------------------------------------------------------------------
(* The playbook.  Task(t) is what every task leaves alone. *)

Task(t) == pc = t /\ UNCHANGED <<runs, accidents>>

GoTo(t) == pc' = t /\ UNCHANGED <<host, primary, secondary, todo, report>>

(* Variant: without any_errors_fatal, only the host fails. *)
AbortHost ==
  /\ pc' = IF host \in {None, primary} THEN "idle" ELSE "next_host"
  /\ report' = "aborted"
  /\ host' = None
  /\ UNCHANGED <<primary, secondary, todo>>

(* any_errors_fatal *)
Abort ==
  /\ pc' = "idle"
  /\ report' = "aborted"
  /\ host' = None
  /\ UNCHANGED <<primary, secondary, todo>>

(* A task goes on to the next if its condition holds, at once or after     *)
(* some retries; otherwise, or if it fails of itself, it is fatal.         *)
Unless(condition, t) ==
  \/ condition /\ Ok /\ GoTo(t)
  \/ ((~condition /\ Ok) \/ Fault) /\ Abort

(* Groups primary and secondary, by the answers to GET /leader: 200, 503,  *)
(* or none from a host that is down, which is in neither group.            *)
StartPlaybook ==
  /\ pc = "idle" /\ runs < MaxRuns
  /\ runs' = runs + 1
  /\ failed' = {}
  /\ host' = None
  /\ IF leader = None
     THEN /\ pc' = "idle" /\ report' = "aborted"
          /\ UNCHANGED <<primary, secondary, todo>>
     ELSE /\ pc' = "pre_checks" /\ report' = "none"
          /\ primary' = leader
          /\ secondary' = up \ {leader}
          /\ todo' = secondary'
  /\ UNCHANGED <<patroniVars, installed, current, stale, faults, accidents>>

(* On the hosts of both groups. *)
PreChecks ==
  /\ Task("pre_checks")
  /\ LET answers   == secondary \cup {primary} \subseteq up
         replicate == leader = primary /\ up # {primary}
     IN  Unless(answers /\ replicate, "next_host")
  /\ UNCHANGED <<patroniVars, packageVars>>

(* The next replica, serial: 1, or the primary's play. *)
NextHost ==
  /\ Task("next_host")
  /\ Ok
  /\ \/ /\ host' \in todo
        /\ \A h \in todo : host' <= h
        /\ todo' = todo \ {host'}
        /\ pc' = "tag"
     \/ /\ todo = {}
        /\ host' = primary
        /\ pc' = "check_leader"
        /\ UNCHANGED todo
  /\ UNCHANGED <<patroniVars, packageVars, primary, secondary, report>>

(* switchover.yml *)

CheckLeader ==
  /\ Task("check_leader")
  /\ Unless(Leads(host), "switchover")
  /\ UNCHANGED <<patroniVars, packageVars>>

(* patronictl switchover --force.  It can fail, or its answer be lost.     *)
Switchover(success, failure) ==
  /\ \/ /\ Ok /\ Candidates # {} /\ leader # None
        /\ leader' \in Candidates
        /\ GoTo(success)
     \/ /\ Ok /\ (Candidates = {} \/ leader = None)
        /\ GoTo(failure)
        /\ UNCHANGED leader
     \/ /\ Fault
        /\ leader' \in IF leader = None THEN {None} ELSE {leader} \cup Candidates
        /\ GoTo(failure)
  /\ UNCHANGED <<up, stopped, edited, loaded, packageVars>>

FirstSwitchover == Task("switchover") /\ Switchover("await_replica", "recheck")

RecheckLeader ==
  /\ Task("recheck")
  /\ \/ Ok /\ Leads(host) /\ GoTo("retry")
     \/ ((Ok /\ ~Leads(host)) \/ Fault) /\ GoTo("await_replica")
  /\ UNCHANGED <<patroniVars, packageVars>>

(* Errors are ignored once more. *)
RetrySwitchover == Task("retry") /\ Switchover("await_replica", "tag")

AwaitReplica ==
  /\ Task("await_replica")
  /\ Unless(IsReplica(host), "tag")
  /\ UNCHANGED <<patroniVars, packageVars>>

(* stop_traffic.yml *)

EditTags ==
  /\ Task("tag")
  /\ Unless(TRUE, "reload")
  /\ edited' \in {edited \cup {host}} \cup (IF pc' = "idle" THEN {edited} ELSE {})
  /\ UNCHANGED <<leader, up, stopped, loaded, packageVars>>

Reload(t) ==
  /\ Unless(host \in up, t)
  /\ loaded' \in (IF host \in up THEN {(loaded \ {host}) \cup (edited \cap {host})} ELSE {})
                 \cup (IF pc' = "idle" THEN {loaded} ELSE {})
  /\ UNCHANGED <<leader, up, stopped, edited, packageVars>>

ReloadTags == Task("reload") /\ Reload("await_503")

AwaitNoReplica ==
  /\ Task("await_503")
  /\ Unless(host \in up /\ ~IsReplica(host), "drain")
  /\ UNCHANGED <<patroniVars, packageVars>>

(* Active transactions end in time, or they do not. *)
DrainTransactions ==
  /\ Task("drain")
  /\ Unless(host \in up, "isready")
  /\ UNCHANGED <<patroniVars, packageVars>>

(* stop_services.yml *)

CheckReady ==
  /\ Task("isready")
  /\ Unless(host \in up, "stop")
  /\ UNCHANGED <<patroniVars, packageVars>>

(* A leader that is stopped gives its key up. *)
StopServices ==
  /\ Task("stop")
  /\ Unless(TRUE, "install")
  /\ \/ /\ up' = up \ {host}
        /\ stopped' = stopped \cup {host}
        /\ loaded' = loaded \ {host}
        /\ leader' = IF leader = host THEN None ELSE leader
     \/ pc' = "idle" /\ UNCHANGED <<up, stopped, loaded, leader>>
  /\ UNCHANGED <<edited, packageVars>>

(* The lists are refreshed, or they are not: the refresh fails, is too     *)
(* recent or switched off, or no part of the target (patroni).             *)
Refreshed ==
  /\ Ok
  /\ stale' = stale \ {host}
  /\ installed' = installed \cup {host}

KeptStale ==
  /\ Ok
  /\ stale' = stale \cup {host}
  /\ UNCHANGED installed

NotInstalled == Fault /\ UNCHANGED <<installed, stale>>

(* Variant: the fact is not set. *)
InstallSilently ==
  /\ Task("install")
  /\ GoTo("reboot")
  /\ Refreshed \/ KeptStale \/ NotInstalled
  /\ UNCHANGED <<patroniVars, current, failed>>

(* postgres.yml, patroni.yml, system.yml: errors are ignored.  Those of an *)
(* installation are noted; those of a refresh are not, and state: latest   *)
(* is content with the newest version in the old lists.                    *)
InstallPackages ==
  /\ Task("install")
  /\ GoTo("reboot")
  /\ \/ (Refreshed \/ KeptStale) /\ UNCHANGED failed
     \/ NotInstalled /\ failed' = failed \cup {host}
  /\ UNCHANGED <<patroniVars, current>>

ComesUp(h) ==
  /\ up' = up \cup {h}
  /\ stopped' = stopped \ {h}
  /\ loaded' = (loaded \ {h}) \cup (edited \cap {h})
  /\ current' = IF h \in installed THEN current \cup {h} ELSE current

(* The services are enabled, so they start with the host, if new system    *)
(* packages require a reboot.                                              *)
Reboot ==
  /\ Task("reboot")
  /\ Unless(TRUE, "start")
  /\ ComesUp(host) \/ UNCHANGED <<up, stopped, loaded, current>>
  /\ UNCHANGED <<leader, edited, installed, failed, stale>>

(* start_services.yml *)

StartServices ==
  /\ Task("start")
  /\ Unless(TRUE, "await_health")
  /\ \/ ComesUp(host)
     \/ pc' = "idle" /\ UNCHANGED <<up, stopped, loaded, current>>
  /\ UNCHANGED <<leader, edited, installed, failed, stale>>

AwaitHealth ==
  /\ Task("await_health")
  /\ Unless(host \in up, "untag")
  /\ UNCHANGED <<patroniVars, packageVars>>

(* start_traffic.yml *)

(* Variant: the tags are left in patroni.yml. *)
KeepTags ==
  /\ Task("untag")
  /\ Unless(TRUE, "reload_again")
  /\ UNCHANGED <<patroniVars, packageVars>>

ClearTags ==
  /\ Task("untag")
  /\ Unless(TRUE, "reload_again")
  /\ edited' \in {edited \ {host}} \cup (IF pc' = "idle" THEN {edited} ELSE {})
  /\ UNCHANGED <<leader, up, stopped, loaded, packageVars>>

ReloadAgain == Task("reload_again") /\ Reload("await_200")

AwaitTraffic ==
  /\ Task("await_200")
  /\ Unless(IsReplica(host), IF host = primary THEN "post_update" ELSE "next_host")
  /\ UNCHANGED <<patroniVars, packageVars>>

FirstHost(h) == h \in Hosts /\ \A g \in Hosts : h <= g

(* Extensions, the state by the first host, and the report by the facts of *)
(* all hosts.                                                              *)
PostUpdate ==
  /\ Task("post_update")
  /\ \/ /\ Ok /\ (\E h \in up : FirstHost(h))
        /\ pc' = "idle"
        /\ report' = IF failed = {} THEN "completed" ELSE "with_errors"
        /\ host' = None
        /\ UNCHANGED <<primary, secondary, todo>>
     \/ ((Ok /\ ~\E h \in up : FirstHost(h)) \/ Fault) /\ Abort
  /\ UNCHANGED <<patroniVars, packageVars>>

Playbook ==
  \/ PreChecks \/ NextHost
  \/ CheckLeader \/ FirstSwitchover \/ RecheckLeader \/ RetrySwitchover \/ AwaitReplica
  \/ EditTags \/ ReloadTags \/ AwaitNoReplica \/ DrainTransactions
  \/ CheckReady \/ StopServices \/ InstallPackages
  \/ Reboot \/ StartServices \/ AwaitHealth
  \/ ClearTags \/ ReloadAgain \/ AwaitTraffic
  \/ PostUpdate

-----------------------------------------------------------------------------
(* Patroni and the hosts *)

PatroniStep == UNCHANGED <<edited, installed, failed, stale, playVars, faults>>

Elect ==
  /\ leader = None
  /\ leader' \in up \ loaded
  /\ PatroniStep
  /\ UNCHANGED <<up, stopped, loaded, current, accidents>>

Accident == accidents < MaxAccidents /\ accidents' = accidents + 1

LoseLeadership ==
  /\ Accident
  /\ leader # None /\ Candidates # {}
  /\ leader' \in Candidates
  /\ PatroniStep
  /\ UNCHANGED <<up, stopped, loaded, current>>

Crash(h) ==
  /\ Accident
  /\ h \in up
  /\ up' = up \ {h}
  /\ loaded' = loaded \ {h}
  /\ leader' = IF leader = h THEN None ELSE leader
  /\ PatroniStep
  /\ UNCHANGED <<stopped, current>>

(* A crashed host comes back; an administrator starts one that an aborted  *)
(* run has left stopped.                                                   *)
Recover(h) ==
  /\ h \in Hosts \ up
  /\ h \in stopped => pc = "idle"
  /\ ComesUp(h)
  /\ PatroniStep
  /\ UNCHANGED <<leader, accidents>>

Next ==
  \/ StartPlaybook \/ Playbook
  \/ Elect \/ LoseLeadership
  \/ \E h \in Hosts : Crash(h) \/ Recover(h)

(* Every task ends: commands return and retries are limited. *)
Fairness == WF_vars(Playbook)

Spec     == Init /\ [][Next]_vars
FairSpec == Spec /\ Fairness

-----------------------------------------------------------------------------
(* Properties *)

(* "Zero downtime is expected (for read traffic), provided there is more   *)
(* than one replica": however tasks fail and wherever the playbook ends,   *)
(* some replica takes read-only traffic.                                   *)
ReadServed ==
  accidents = 0 /\ Cardinality(secondary) > 1 => \E h \in Hosts : IsReplica(h)

(* Nor is the cluster left without a leader and without a replica that     *)
(* could become one, although tags forbid it and switchovers may fail.     *)
SomeoneLeads == accidents = 0 => leader # None \/ Candidates # {}

(* The message "update completed" is not given while a host the playbook   *)
(* has dealt with is kept out of traffic, or runs the old version for      *)
(* another reason than that its lists of packages are old: a failure to    *)
(* refresh them is ignored and, unlike that of an installation, forgotten  *)
(* (postgres.yml, update_pgcluster.yml).                                   *)
ReportIsTrue ==
  report = "completed" =>
    \A h \in secondary \cup {primary} : h \in (current \cup stale) \ edited

(* serial: 1, any_errors_fatal and the undoing of each step by a later one *)
(* add up to updating one host at a time.                                  *)
Service    == INSTANCE OneAtATime WITH out <- edited \cup stopped, updated <- installed
OneHostOut == Service!Spec

(* The playbook's checks never contradict one another: unless a task fails *)
(* or Patroni changes the leader, a run that passes its pre-checks ends    *)
(* with the update completed.                                              *)
UndisturbedCompletes ==
  pc = "next_host" ~> (report = "completed" \/ faults > 0 \/ accidents > 0)

(* The primary is stopped as a replica ("Stop the old primary (now         *)
(* secondary, after switchover)").                                         *)
StoppedAsReplica ==
  [][pc = "stop" /\ pc' = "install" /\ accidents = 0 => leader # host]_vars

=============================================================================
