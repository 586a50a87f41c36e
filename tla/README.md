# A specification of the autobase console

The repository (package name `postgresql_cluster`, product name autobase) deploys and
looks after PostgreSQL clusters. Its program logic is in three places: the *console
service* (`console/service`, Go) with its database (`console/db`, PL/pgSQL), which
accepts requests, starts automation containers and watches over the clusters; the *console
UI* (`console/ui`, TypeScript), which turns forms into those requests and shows what the
service has; and the *automation* (`automation`, Ansible), which runs in those containers
and changes the hosts. The modules here describe the console service and the parts of its
database it depends on, the UI, the rolling update and the major upgrade.

## Inventory

| Component | Where | State it keeps | Operations | What is hard about it |
|---|---|---|---|---|
| Cluster deployment | `controllers/cluster/post_cluster.go`, `xdocker/manager.go` | rows in `clusters` and `operations`, one container | check the name, insert, start the container, record the operation, compensate | four calls in no transaction, a deferred function that is the only undo, a lookup whose error is ignored |
| JSON log callback | `automation/plugins/callback/json_log.py` | `<LogDir>/<cluster name>.json` | truncate, append entries, append the summary | the file is named after the cluster, not the operation; names are reused |
| Log watcher | `watcher/log_watcher.go` | the operation in hand | once a minute: find ended containers, read their logs, settle the operation and the cluster, remove the container | every error is logged and dropped; five separate writes; restarts in between |
| Cluster removal | `controllers/cluster/delete_cluster.go`, `remove_cluster.go` | the same rows | soft delete (renames the row), removal (container and three deletes) | may run at any time, in no transaction |
| Cluster watcher and refresh | `watcher/cluster_watcher.go`, `controllers/cluster/post_cluster_refresh.go`, `storage/cluster_flags.go` | rows in `servers`, status and flags in `clusters`, a pool of goroutines | once a minute, and on request: ask Patroni, upsert the members, write the status, reset the unknown | stale copies of the cluster, a sweep beside refreshes, `server_count` kept by a trigger |
| Log collector | `watcher/log_collector.go`, `controllers/operation/get_operation_log.go` | the operation's textual log | follow a container's output into the row; serve it in pieces | one goroutine per operation, lost at a restart; the reader stops when the operation is settled |
| Database schema | `console/db/migrations` | all tables, `update_server_count`, secrets | triggers, `get_cluster_name`, `get_extensions` | row triggers under concurrent statements |
| Projects, environments, secrets, settings, dictionaries | `controllers/{project,environment,secret,setting,dictionary}` | their tables | insert, update, delete, list | foreign keys against soft-deleted clusters |
| Rolling update | `automation/playbooks/update_pgcluster.yml`, `roles/update` | each host's packages, Patroni tags, traffic | replicas one at a time, switchover, old primary | errors ignored on purpose, a switchover that may fail twice |
| Major upgrade and rollback | `automation/playbooks/pg_upgrade.yml`, `roles/upgrade` | data directories, Patroni configuration, DCS keys | pre-checks, stop, pg_upgrade, start, roll back | a failure at any task, on any host |
| Deployment roles | `automation/roles/*` (all others) | hosts | install and configure | templates and packages rather than state machines |
| Add-cluster page | `console/ui/src/widgets/{cluster-form,yaml-editor-form,cluster-summary}`, `entities/cluster`, `entities/authentification-method-form-block`, `features/cluster-secret-modal`, `shared/lib/clusterValuesTransformFunctions.ts` | the form's values, the state of its blocks, the editor's text, the modal, the refs that remember a created secret | one handler per field, effects that follow other fields, validation, two ways to submit, building the request and the summary | fields that must stay consistent over any sequence of clicks, effects in several blocks, defaults evaluated when a module is loaded, retries after a refusal |
| Console session, header, tables, settings, query cache | `console/ui/src/{app,pages,features,widgets}`, `shared/api`, `shared/lib/hooks.tsx` | localStorage, redux slices, the query cache and its tags, the settings form | log in, choose a project, add and remove rows, poll, save settings | answers out of order, invalidation that waits for other requests, polls that are dropped |
| UI components, theme, translations | `console/ui/src/shared` (the rest) | none | | presentation |

How they interact: the UI calls the service over REST; what it shows is the query cache,
which is brought up to date by polling and by the tags of its own requests. A `POST /clusters` handler writes
the database and starts a container through Docker. The playbook in the container writes
the JSON log to a directory that is mounted from the host. The log watcher learns of the
container's end by polling Docker and of the result from that file; nothing else connects
the two. From then on the cluster watcher polls Patroni on the cluster's hosts. Both
watchers, the refresh handler and the user's deletions write the same rows of `clusters`
and `servers`, in autocommitted statements.

What makes each part correct:

* deployment: every cluster the handler leaves behind is either refused and marked
  failed, or has an operation that some later step settles; an operation is settled once,
  with its own playbook's result, and the cluster's status agrees with it;
* cluster watcher: what it stores follows what Patroni says once things are quiet, at
  most `PoolSize` clusters are handled at a time, a sweep covers every cluster, `Stop`
  leaves nothing running;
* log collector: every line of a container's output is stored once and in order;
* rolling update: one host is out of service at a time and put back, reads and writes are
  served throughout, success is reported only when it is true;
* major upgrade: at every failure point either the old or the new version can be started
  and never both, nothing that was committed is missing from what is upgraded, and what the
  playbook reports is so;
* add-cluster page: whatever the order of the clicks, what is accepted is a complete
  request, of one cloud or of the machines that were typed, with the secret that was chosen,
  and a refused request does not leave a second secret behind;
* console: a table shows what this console has been told it changed, and in the end what
  others changed; the settings form shows the mode the pages are in.

## Modules

| Module | Models | Composed with |
|---|---|---|
| `Deployments` | request handler, container and its log file, log watcher, deletions, crashes | stands alone; its cluster rows are what the next two watch |
| `ClusterHealth` | `HandleCluster` for one cluster, by the sweep and by refreshes, the servers trigger, the log watcher's inserts, Patroni | one handler of `ClusterSweep` |
| `ClusterSweep` | the cluster watcher's loop, paging and worker pool | the goroutines it starts are `ClusterHealth`'s handlers |
| `OperationLog` | log collector, log handler, the page that polls it | the settling of `Deployments`, seen from the log |
| `OneAtATime` | what a rolling update promises of service | abstract |
| `RollingUpdate` | `update_pgcluster.yml` and `roles/update`, beside Patroni | implements `OneAtATime` |
| `LinkedFiles` | what an upgrade with hard links promises of every host | abstract |
| `PgUpgrade` | `pg_upgrade.yml`, `pg_upgrade_rollback.yml` and `roles/upgrade`, beside Patroni | implements `LinkedFiles` |
| `ClusterValues` | the form's values: defaults, validation, request, summary, as functions | used by the next |
| `ClusterForm` | the add-cluster page: blocks, effects, editor, secret modal, the two requests | part of the next |
| `Console` | session, navigation, tables and menus, settings, query cache, with the add-cluster page; and the service's answers | the whole of the UI that is modelled |
| `MC*` | instances for TLC | |
| `*_proofs` | theorems | |

Definitions that begin with "Variant:" are plausible wrong versions of a definition. No
specification uses them; they are there to show that the properties tell them apart.

### Deployments

A request names its cluster row, its container and its operation, as one that gets so
far creates exactly one of each. The variables `row`, `status`, `servers`, `op` are the
rows, `box`, `play`, `outcome` the container, `file` the log files by name, `watcher` the
locals of the log watcher. `pc[r]` is where the handler of `r` is: each database or Docker
call of `postClusterHandler.Handle` is a step, each step may fail, and the deferred
compensation is a step of its own, which may fail as well. `Restart` is a crash: it takes
handlers and the watcher's locals, and leaves rows, containers and files. Soft deletion
renames the row, so the watcher then looks for a file that does not exist.

Two variables are history. `overlap` holds the requests whose log another container
wrote to, and `dropped` those of whose errors one was dropped where nothing can repeat or
undo the step. The properties say that results are right, and operations settled, *except*
there: they make precise how much the dropped errors and the shared file name cost, and
that nothing else goes wrong.

| Run | Instance | Shows |
|---|---|---|
| `reuse` | two requests, one name, no failures; the first cluster may be deleted or removed at any step | `VerdictIsOwn`, `InventoryIsOwn`: results are the own playbook's unless the log was shared or never opened |
| `faults` | one request, two failed calls, one crash, all user actions | `RemovedWhenSettled`, `RunningIsTracked`, `DeployingIsAccounted`, `ClusterFollowsOperation`, `SettledOnce`; `OperationSettles` across failures and the crash |

Two requests are enough for one to write the other's file, in either order, and for the
watcher's queue to hold another operation while one is in hand; one crash is enough to
interrupt each pair of steps, and two failures to make a step and its compensation fail.

### ClusterHealth

One cluster; `handler[h]` holds the locals of one `HandleCluster`: copies of the row's
count and flags, the servers read, the members upserted. A statement on `servers` is two
steps, `writing` and `tally`: the trigger counts what its snapshot shows, then the
statement commits. `members`, `healthy`, `reachable` are what Patroni would answer. A
behaviour takes one of the `Courses`: which hosts were deployed, and how many calls fail,
how often Patroni changes and how many deletions there are.

| Run | Instance | Shows |
|---|---|---|
| `refresh` | two hosts, a sweep and a refresh, in three courses: both hosts run and something is deleted; one host runs and Patroni changes; both run and a call fails | `NoFalseAlarm`, `NoFalseReset`, `UnavailableWasConnected`, `Converges` |
| `count` | the first course without the refresh | violated: `CountFollowsServers` (finding) |

Two hosts are enough for a member to be missing beside one that answers, for the count
to be one too small or too large, and for two writers to be at different rows. The sweep
goes round for ever in every course, so each trouble meets handlers at every step.

### ClusterSweep

`pc`, `offset`, `page` are the locals of the loop, `running[c]` counts the goroutines that
handle `c`; what is taken of the semaphore is the number of `Goroutines`. `GetClusters` is
SQL's `order by cluster_id limit offset` said without an order of rows: a cluster is on the
page if its `Place`, the number of its project's clusters before it, is. Pages are recomputed
by each query, so `CreateCluster` and `DeleteCluster` shift them. `shifts` is history: whether a cluster was
created or deleted since the sweep began; `HandledOnce` says that a sweep without shifts
handles each cluster once, neither more nor less. Run `sweep` has two projects, pages of two, up
to four clusters in one project (so that a deletion on the first page shifts the second
before it is fetched), a pool of two, one failed query, and `Stop` at any moment. Run `stop` finds `WorkersDone` violated.

### OperationLog

A line is its number. `pc` and `line` are the collector's, `log` and `settled` the row's,
`shown`, `complete`, `polling` the page's. `atSettling` is history: what was stored when
the operation was settled. Run `lines` has four lines, the last too long for the scanner,
and two failures: a line can be lost between two that are kept. `LogIsOutput` says that
what is stored is in order and without repetition and lacks only lines whose update failed.

### OneAtATime and RollingUpdate

`OneAtATime` has a set of hosts out of service and a set of updated hosts: a host is
taken out when none is out, updated while out, and returned. In `RollingUpdate` each task
of the plays is a value of `pc` and an action named after it. `host` is the host at hand,
`primary`, `secondary` and `todo` are the in-memory groups, `failed` the facts
`update_*_failed`, `stale` the hosts whose lists of packages are old. `edited` holds the hosts whose
`patroni.yml` forbids traffic and leadership, `loaded` those whose Patroni has read it:
between the two there is a reload that can fail. `Unless(condition, t)` is Ansible's rule
for a task: go on to `t` if the condition holds, and otherwise, or if the task fails of
itself, end the playbook for all hosts (`any_errors_fatal`). Package tasks and both
switchover attempts ignore their errors, and have actions of their own shape. Patroni
elects leaders (`Elect`), may fail over (`LoseLeadership`), and hosts crash and recover.
A task that fails may or may not have had its effect.

| Run | Instance | Shows |
|---|---|---|
| `update` | three hosts, one run, three failing tasks, one accident | `ReadServed`, `SomeoneLeads`, `ReportIsTrue`, `UndisturbedCompletes`, and `OneHostOut`: `RollingUpdate` implements `OneAtATime` with `out <- edited \cup stopped`, `updated <- installed` |
| `rerun` | two runs, one failing task | violated: `ReadServed` (finding) |
| `switchover` | one run, two failing tasks | violated: `StoppedAsReplica` (finding) |

Three hosts are the least for which the README's proviso (more than one replica) holds.
Three failures cover both switchover attempts and a later task.

What the report leaves out: `postgres.yml:2-18` and `system.yml:2-18` refresh the lists of
packages with `ignore_errors` and set no fact when that fails; with a recent list
(`cache_valid_time`), with `skip_dnf_makecache` or for the target `patroni` there is no
refresh. `state: latest` is then content with the newest version the old lists have, no
`update_*_failed` is set, and `update_pgcluster.yml:264` prints "update completed" over hosts
that run the old version. In the model such a host becomes `stale` (`KeptStale`, which does
not count as one of the failing tasks), and `ReportIsTrue` excepts exactly these hosts: a
success is reported only of hosts that are untagged and either run the new packages or had
old lists. Without the exception it is false.

### LinkedFiles and PgUpgrade

After `pg_upgrade --link` both versions' directories have the same files. `LinkedFiles`
says for each host which version runs and who has written to the shared files: once a
version has, the other must not run on them; the old directory goes only while the new
version runs. In `PgUpgrade` each task that changes a host is a value of `pc` and an
action; `On(S, done, t)` is a task on the hosts of `S` which, when it fails, may have had
its effect on any of them; `Unless` is a condition asked once, `Await` one with retries;
`Include` is an `include_tasks: rollback.yml`. Per host there are the paths in `patroni.yml`
and in its copy, the paths the running Patroni has loaded, the version that runs, and what
the two data directories hold. Patroni and PostgreSQL are external and modelled by what the
role relies on: Patroni runs the version of the paths it has loaded, if the data's system
identifier is that of the cluster in the DCS; a first host registers its own; in maintenance
mode nothing is started, stopped or promoted. A later `initdb` gives a new identifier, so
data upgraded in an earlier run are a stranger's. Transactions are a set, `whole`, of the
hosts that have all of them: a primary's commit leaves only itself, streaming adds a
standby, and what a new leader lacks is lost, as is what a former primary has committed and
the leader lacks when it comes back as a standby (`Rewound`).

Run `upgrade` has three hosts and three courses (at most one upgrade, rollback, failure and
accident each; two upgrades with a failure and a rollback; two failures with an upgrade and
two rollbacks). Two replicas let one be complete and the other not, and let hosts be outside
of the playbook's groups. It shows `LinkedFilesSafe` (the refinement), `UpgradedIsWhole`,
`ReportIsTrue` and `UndisturbedCompletes`. Their provisos say what the code does not do:

* `UpgradedIsWhole` excepts a host that went on as a primary without Patroni. There can be
  one: the rollback playbook takes the inventory's master for the primary
  (`pg_upgrade_rollback.yml:26`) and resumes Patroni before it starts Patroni on the others,
  so a third host may be promoted beside the old leader.
* `ReportIsTrue` is about runs in which no host goes down. `rollback.yml` asks once whether
  the new version runs (line 43); a host that restarts after that may start the new
  version, all hosts follow it, and the playbook reports a completed rollback. The files are
  safe even then, since nothing runs on the old directories.
* It speaks of the hosts `rollback.yml` was included for. When replication lags that is the
  primary alone (`stop_services.yml:43`): the replicas are left without Patroni.
* It holds of the run's courses and, by the proof, of every course of one upgrade. In a longer
  one than the run's (two upgrades, two failures, two rollbacks) the second upgrade copies the
  `patroni.yml` that the first has already edited (`update_config.yml:4`); a rollback with
  another primary passes the check of `rollback.yml:43` before a new server runs and is
  aborted; the next one then restores the edited copy and reports completion while every
  server is of the new version. The files are safe there, too.

### ClusterValues, ClusterForm and Console

`values` is the form's object, field by field; a text is what the form tells apart of it.
`ClusterValues` has what is a function of the values: the defaults (and the mode they were
evaluated in, `loaded`), validation, the request (`envs`, `vars`), the summary. In
`ClusterForm` a block's handler and the effects it sets off are one operator on values; every
step ends in `Render`, which brings lists of secrets, the authentication block and the modal
in line with what is on the page. `flight` is the request under way with what its closure had
captured; `sent` the last cluster request with the attempt it was made from; `made` (history)
counts secrets per component. `Console` adds `screen`, the query cache `entries` (rows and
request per key), the tags whose invalidation `waiting` waits for other requests, `change`,
the request that changes something, and `form`, the settings form. `own` (history) is what
this console was told it had added or removed. The service is its rows and its refusals.

A behaviour takes one of the `Tours`: the parts of the page or of the console it touches and
the secrets there are at first. Within a tour every interleaving of clicks, answers and
refusals is explored. There is a tour for each block with the submit button, one for each
pair of blocks whose effects meet (provider, region and storage; version and extensions;
databases and extensions; authentication with one, two or no secrets and with late lists),
for the editor, for leaving and reloading the page in the middle of a request, and for each
table with its menu, alone and beside the header, other users, failures and the form.

| Run | Instance | Shows |
|---|---|---|
| `console` | 38 tours; two clouds, at most two secrets, two clusters, three rows per list of which the first two are typed one by one | `OneCloud`, `AcceptedIsComplete`, `InventoryAsTyped`, `SecretSent`, `OneSecretPerPage`, `DatabasesFollowed`, `OwnChangesShown`, `SwitchShowsMode`, `TablesCatchUp`, and the type invariant |

Two clouds are the least between which a switch leaves something behind; three rows the
least for a quorum and for a deletion in the middle. The overview is that of the first
cluster, and the secrets of the tables belong to the first project.

What the code does that no property forbids: where the method is a password, the inventory's
`ansible_ssh_pass` is the user name (`clusterValuesTransformFunctions.ts:300`; the secret
that is stored has the password, line 108); the setting that
is sent carries `IS_YAML_ENABLED` although the flag is the browser's
(`settings-form/ui/index.tsx:81`); the toast of a removal reports success whatever the answer
was; while the list of a newly chosen provider's secrets is under way the previous one's is
used (`cluster-form/ui/index.tsx:94`); in the simple mode the form has no field
`isDeployNewCluster` (its default is the expert mode's, `cluster-form/model/constants.ts:95`), so
`constructDcsEnvs` returns nothing and the inventory has no `etcd_cluster`, while the summary
of three servers says that high availability is on (`cluster-summary/lib/hooks.tsx:181`):
`InventoryAsTyped` claims the members of a new DCS in the simple mode only for a form that has
the field because its page was loaded in the expert mode (a tour from the settings page goes
there), and in the expert mode only for a form with that mode's defaults; a standby number typed first is not bounded by a number
of instances typed later.

## Fairness

* `Deployments`: the watcher's timer is re-armed whatever a sweep met
  (`log_watcher.go`), and a playbook ends or is killed. Handlers are not fair: a
  request may be abandoned.
* `ClusterHealth`: the sweep comes round, a handler in progress goes on because each
  of its calls has a time limit, and the log watcher goes on. Nobody has to start a
  refresh, delete, or change Patroni.
* `ClusterSweep`: the loop and each goroutine in progress go on; `Stop`, creations and
  deletions need never happen.
* `OperationLog`: playbooks end, the collector's calls return, the log watcher settles,
  an open page polls. It is not assumed that a line is printed or `Stop` called.
* `RollingUpdate`: every task ends, as commands return and `retries` is finite. Election
  is *not* assumed: `UndisturbedCompletes` needs none.
* `PgUpgrade`: every task ends, Patroni acts while it runs, and a lock without a holder
  expires. Nobody has to start a playbook, and no host has to come back.
* `Console`: the polling interval fires as long as the table is shown, the service answers,
  and an answer that is a failure for ever is excluded (strong fairness of the arrival of
  rows). The user need do nothing.

Except for that, all of it is weak fairness. The runs switch off the deadlock check because
all of these systems may come to rest: no request left to serve, the watcher stopped, the
playbook over, the user gone.

## Proofs

Every safety property a run checks is proved. A theorem holds for all values of the constants
that meet the modules' assumptions:

* `ConstantsAssumption`, in `ClusterForm` `BoundsAssumption`: bounds are naturals, `None` is
  not a host, a name, a number or an object of the form, hosts and clusters are finite sets;
* `CatalogueAssumption` and `TablesAssumption` of `ClusterValues`, what the service's tables of
  clouds guarantee: there is a cloud, it has a region with a datacenter and a small instance,
  regions and volume types have keys, and a volume type is the default; and its
  `AddressesAssumption`: there are addresses to type, finitely many;
* `ProjectAssumption` and `ClustersAssumption` of `Console`: the project and the cluster a
  behaviour starts with are there.

Five theorems need one more, named in their statement: `MaxRuns = 1` for three of
`RollingUpdate_proofs`, `SteadyCourses` and `OneUpgrade` for two of `PgUpgrade_proofs`.

* `Deployments_proofs`. `TypeCorrect`; then an inductive invariant, `IInv`, of which
  `VerdictCorrect`, `InventoryCorrect`, `RemovalCorrect` and `SettlementStable` are
  consequences. None of the four is inductive by itself: what the watcher is about to
  store depends on what it read several steps ago, and that on who had written the file.
  So `IInv` says for each request what holds at each place of the handler (`HandlerInv`,
  `Begun`), that queue and hand hold only pending operations (`SweepInv`), whose entries
  a file has while a request's log is its own (`LogInv`), that what the watcher has read
  came from such a file (`ReadInv`, `ServersInv`), that the watcher gets past an operation
  only by settling it or dropping an error (`PassedInv`), and what a settled operation
  implies (`SettledInv`). `VerdictIsOwn` and `InventoryIsOwn` carry the proviso `LogIsOwn`:
  two playbooks of one name do mix their files, and without it they would be false.
  `TrackingCorrect`, `DeployingCorrect` and `StatusFollows`, about what a deployment may
  leave behind, come from `JInv`: `IInv` with, for each request, who still answers for its
  container, for the status "deploying", and for the cluster's status after its operation's
  (`TrackedInv`, `AccountInv`, `FollowInv`). They are apart because only they need the order
  in which the handler's calls and the watcher's two updates come.
* `ClusterHealth_proofs`. `TypeCorrect`. `UnavailableWas` needs that a handler's old copy of
  the flag is true only if the flag is, as long as the row is there (`ConnectedInv`).
  `NoAlarm` needs `AlarmInv`: while Patroni does not change, no count, tally or copy of a
  count goes beyond what was deployed, and a handler that judges has been told of all of it.
  It is a statement about cardinalities of any set of hosts: the trigger counts a snapshot,
  which may lack rows, but never has one too many. `NoReset` adds `ResetInv`: what is left in a
  handler's map of servers are hosts it still has to ask or to upsert, and so nothing at the end,
  unless the cluster is gone and no row is written any more.
* `ClusterSweep_proofs`. `PoolBounded` and `SweepsApart` need that the goroutines are finitely
  many and all of this sweep's clusters (`PoolInv`). `EachOnce` needs to say which clusters
  the offset has passed (`Passed`): creations move the others only to later places and
  deletions only to earlier ones, so with no deletion everything passed was put on a page
  (`MissedInv`) and with no creation nothing that is yet to pass was (`TwiceInv`).
* `OperationLog_proofs`. `StoredIsOutput` needs `LineInv` and `StoredInv`, what is stored
  relative to the line at hand; `PageIsWhole` needs that a log which was whole when the
  operation was settled stays so, and a page that was told so with it (`PageInv`).
* `RollingUpdate_proofs`. `TypeCorrect` needs `PlaceInv` (which host is at hand in which
  play). `ReportCorrect` needs `DoneInv`: success is reported when no host is left to do,
  but why each of them runs the new version is that it was installed, then started, then
  untagged, each of which could have failed; so `Done`, the hosts already through, is
  kept to those that are current, noted as failed or `stale`, and not tagged. It holds of
  later runs, too; of a `stale` host it says only that it is back in traffic. `OneHostOutCorrect` is the refinement, under the assumption `MaxRuns = 1`:
  `OutInv` says that at each task the tagged host is the one at hand and the stopped hosts
  are tagged ones. `ReadTraffic` and `LeadershipKept` need `ServedInv` besides: without
  accidents only the host at hand is down or tagged, so that a second replica is neither.
  The assumption is needed: an aborted run leaves its host tagged, and a second run takes
  another (run `rerun`).
* `PgUpgrade_proofs`. `TypeCorrect`. `LinkedFilesCorrect` is the refinement of `LinkedFiles`,
  step by step; that no server runs on files of the other version is decided far from the
  step that starts it, so `FilesInv` says at each of the playbook's tasks what the
  directories, the paths and the DCS may be: until the old cluster is removed from the DCS no
  new server has run anywhere (`DcsInv`, `DataInv`), the group's servers are down from the
  stop on (`GroupInv`), the files are linked only where the old control file is renamed
  (`LinkInv`), and Patroni has the new paths nowhere the old server runs (`PathsInv`). It is
  stated for `SteadyCourses`, those with one upgrade or without accidents: data upgraded in an
  earlier run are a stranger's, and a host that comes back may register them as a third
  cluster. TLC finds no violation with two hosts even then (9.4 million states), but the
  invariant does not say why. `WholeCorrect` needs `WholeInv`: while Patroni is paused the
  hosts that were primaries stay it, so a standby that has the primary's last position has
  everything. `UpgradedReport` and `ReportCorrect`, that what is reported is true, need that a
  new server goes on while no host goes down (`UpgradedInv`), that pools are resumed by the
  tasks they are paused in (`PoolsInv`), and, for a rollback, that once the old cluster is
  removed Patroni starts the new version on a second host only after the first runs it
  (`RemovedInv`): a rollback that found no new server has at most one that may still start,
  and then waits in vain. `ReportCorrect` assumes `OneUpgrade`; the last course above shows
  why. `UpgradedReport`, its first half, does not.
* `Console_proofs`. `OneSecret` needs `SecretInv`: a component that is shown and has created a
  secret has its number in its ref, the number is not `None`, and the request under way for a
  secret belongs to a component that has created none; then a retry finds the ref. `SwitchIsMode`
  needs `FlagInv`: the flag of the expert mode is in no setting the service has, none that is
  cached and none in an answer, however old, so that a setting put over the form cannot bring
  it back. `OwnShown` needs `OwnInv`, which accounts for every stale row: an entry, and an
  answer that is on its way to it, agree with the service on the rows that are this console's
  own, or the tag of their list waits, or the change that will invalidate it is not yet
  answered. An answer read before the change was carried out is stale, but then the change is
  still to be answered or its tag waits for that very answer; invalidation at once, without
  the wait, breaks it. `ScreenInv` says that what is shown has an entry at all.
* `ClusterForm_proofs`. The form in its console. `PageStateInv` describes the form between two
  clicks: what each block's handler and its effects keep of the values (`PageInv`: `CloudInv`
  for the provider's region, datacenter, instance, volume and size, `ServersInv`,
  `DirectoryInv`, `ConfigInv`, `DatabasesInv`), that an attempt has captured such values
  with the mode they were typed in (`FlightInv`), and that the last request was made from its
  attempt (`SentInv`). `OneCloudSent`, `CompleteRequest`, `TypedInventory` and `NamesFollow` are
  read off it with lemmas on the operators that build the request. For the DCS `TypedInventory`
  has three cases: a new one of the expert mode (`MembersEnough`), one that exists, whose
  members are in the extra vars (`MembersNamed`), and a new one of the simple mode
  (`ServersEnough`). No click is a step of the
  proof of its own: for each block there is a lemma of the fields it may change (`Changes`), and
  for each conjunct one of the fields it depends on. The first row `find` returns and
  the next number of a box are a minimum and a maximum; that they exist follows from the
  well-foundedness of the naturals (`MinIsSmallest`, `MaxIsGreatest`), and no other fact needs
  induction, because `ClusterValues` defines no operator recursively. `ChosenSecret` needs `SecretsInv` besides:
  cached lists are of their type and keep it (`CacheOK`; secrets are added at the end and may
  be removed, never changed), the authentication block holds the list of the method on the page
  (`AuthInv`), and what it has chosen is in it or came with a click on a provider (`ChosenInv`).
  `TypesHold` is the console's `TypeOK`, with five parts that keep each other. `PageTypes`: every
  list of secrets a component holds or the cache has, the chosen secret, the kept default, the
  modal's choice and the two references are of secrets that exist, which is why a number once
  read from a list may be sent later; it needs `SecretsInv` after the step. `StoredTypes`: the
  secrets and the types that are asked for. `FlagTypes`, `ChangeTypes`, `ServerTypes` and
  `EntriesOK` go round in a circle: the settings form gets its fields from a cached setting,
  that one from the service, the service's from a request, and the request's from the form; and
  the rows of a table are of its list because the answer under way to it is. `WaitInv`: whatever
  ends a request that an invalidation waits for either does the invalidation or leaves another
  request under way.

Only model-checked:

* the liveness properties (`OperationSettles`, `Converges`, `StopEnds`, `HandledAgain`,
  `CollectorEnds`, `OutputIsStored`, `UndisturbedCompletes`, `TablesCatchUp`), which are out
  of the prover's reach;
* `ReportIsTrue` and `LinkedFilesSafe` for the courses outside of `OneUpgrade` and
  `SteadyCourses`, as far as the run takes them.

## Findings

Four statements of the repository that the code does not keep; each has a run.

1. `console/db/README.md` says that the trigger keeps `server_count` accurate on INSERT,
   UPDATE and DELETE. On DELETE it updates no row (run `count`).
2. `cluster_watcher.go` says "wait all workers done" of a call that, after `Stop`, returns
   at once with an error that is dropped (run `stop`).
3. `roles/update/README.md` expects zero downtime for read traffic with more than one
   replica. A second run after an aborted one has two replicas out (run `rerun`).
4. `stop_services.yml` says that the old primary is now secondary. When both switchover
   attempts fail, which the playbook ignores, it is still the leader (run `switchover`).

## Not modelled

* Of deployment: the contents of requests, secrets and extra vars, on which no step
  branches; of removal, what the removal playbook does to hosts.
* Of the rolling update: the updates of extensions, check mode, the `target` variable
  (which only chooses among package tasks), the pgBackRest host. Within one host the
  package tasks are one action with one outcome: all installed, noted as failed, or found
  to be the latest in old lists.
  Patroni and its server go up and down together, and a leader that goes away has lost
  its key at once; no property depends on the interval in between.
* Of the major upgrade: packages, tablespaces, WAL directories, HAProxy and vip-manager,
  statistics and extensions (one task that may fail), a copy of the leader that Patroni may
  make into an empty directory, and the second `pg_ctl status` after the servers were stopped,
  which finds nothing in any state of the model. A host that goes down has lost its lock.
* Of the UI: the table of operations (and the end of its range, which is fixed when it
  mounts), exporting, sorting, pages of a table, the theme, layout and translations, the
  expiry of unused cache entries.
* Projects, environments, secrets, settings are modelled as the console sees them: what is
  added, removed, refused. The use and the encryption of secrets are not.
* Deployment roles, `yedit`, service wiring, images and CI: configuration and presentation,
  without steps of several actors.

## Plan

In this order; what is done is described above.

1. Done: `Deployments`, `ClusterHealth`, `ClusterSweep`, `OperationLog`, `RollingUpdate`,
   `PgUpgrade`, `ClusterValues`, `ClusterForm`, `Console`.
2. `ExtensionUpdate`: `update_extensions.yml`, its order between `pg_stat_statements` and
   `pg_stat_kcache`, and the last play of `RollingUpdate`.
3. The operations table and the expiry of cache entries in `Console`; secrets in use.
4. An abstract specification of a deployment (created, then settled once), implemented by
   `Deployments` outside of `dropped`.
5. Proofs: `LinkedFilesSafe` without `SteadyCourses` (what a host that returns may register of an
   earlier run).
