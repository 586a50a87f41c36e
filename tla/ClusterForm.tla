----------------------------- MODULE ClusterForm -----------------------------
(***************************************************************************)
(* The add-cluster page of the console (pages/add-cluster): the form with  *)
(* one block per group of fields, the YAML editor, the modal that asks for *)
(* cloud credentials, and the requests that create a secret and a cluster. *)
(* A block's handler and the effects that run because of it are one step,  *)
(* written as the operator that gives the new values; every step ends in   *)
(* Render, which brings the lists of secrets, the effects of the           *)
(* authentication block and the modal in line with what is on the page.    *)
(***************************************************************************)
EXTENDS ClusterValues

CONSTANTS
  Tours,       \* the parts of the page a behaviour touches, and the types of
               \* the secrets the server has at first (a bound)
  MaxSecrets,  \* bound on the secrets of a behaviour
  MaxRows,     \* bound on the rows of a list of the form
  TypedRows    \* the rows of a list that are typed one by one (a bound)

ASSUME BoundsAssumption ==
  /\ MaxSecrets \in Nat /\ MaxRows \in Nat
  /\ \A t \in Tours :
       /\ t.secrets \in Seq(Clouds \cup {"ssh_key", "password"})
       /\ Len(t.secrets) <= MaxSecrets
  /\ None \notin Nat /\ None \notin [DOMAIN Extensions -> SUBSET Nat]

VARIABLES
  tour,     \* the parts this behaviour touches
  expert,   \* IS_EXPERT_MODE
  tabs,     \* IS_YAML_ENABLED
  loaded,   \* what it was when the form's constants were evaluated
  project,  \* the current project
  view,     \* what is shown: "away", "loading", "form", "yaml" or "broken"
  values,   \* the values of the form
  kept,     \* the defaults a reset field goes back to
  boxes,    \* state of the blocks: next database, extensions not shown
  stored,   \* the server's secrets: the type of each
  cache,    \* type -> the ids of the secrets of the type, or None
  stale,    \* the types whose list is to be fetched again
  held,     \* component -> the list its query shows
  ref,      \* component -> the secret it has created
  made,     \* component -> how many secrets it has created (history)
  modal,    \* the secret modal
  doc,      \* the YAML editor: is the text valid, and the object parsed last
  flight,   \* the request under way and what its closure captured, or None
  sent      \* the last request for a cluster and what it was made from

formVars == <<tour, expert, tabs, loaded, project, view, values, kept, boxes, stored, cache,
              stale, held, ref, made, modal, doc, flight, sent>>

Set(v, field, value) == [v EXCEPT ![field] = value]

-----------------------------------------------------------------------------
(* The lists of secrets.  The form or the editor ("page"), the modal and   *)
(* the authentication block ask for the list of the type they need.        *)

Holders == {"page", "modal", "auth"}

SecretTypes == Clouds \cup {"local", "ssh_key", "password"}   \* no secret is "local"

OfType(type, secrets) ==
  SetToSeq({i \in DOMAIN secrets : secrets[i] = type})

ProviderShown(v, w, d) ==
  IF w # "yaml" THEN v.provider
  ELSE IF d.object.cloud # None THEN d.object.cloud ELSE "local"

Cached(c, type) == IF type \in SecretTypes THEN c[type] ELSE None

(* data of a query: the list of its type, or, until that is there, the     *)
(* list it showed last.                                                    *)
ListShown(before, c, type) ==
  IF Cached(c, type) = None /\ before # None THEN before
  ELSE [type |-> type, ids |-> Cached(c, type)]

Count(list) == IF list = None \/ list.ids = None THEN 0 ELSE Len(list.ids)

AsksInModal(v, w, page) ==
  \/ w = "form" /\ v.provider # "local" /\ Count(page) # 1
  \/ w = "yaml" /\ Count(page) # 1

-----------------------------------------------------------------------------
(* Render: from what a handler leaves (Now, with its changes) to the state *)
(* after the effects.                                                      *)

ModalShut == [open |-> FALSE, typed |-> FALSE, save |-> FALSE, chosen |-> None]

Now == [values |-> values, view |-> view, cache |-> cache, doc |-> doc,
        kept |-> kept, ref |-> ref, made |-> made, modal |-> modal]

(* Variant: the chosen secret stays when the method changes. *)
SecretKept(v, old, count, before, reset) ==
  [v EXCEPT !.defined = IF count # before THEN count > 0 ELSE v.defined]

(* The effects of the authentication block: isUseDefinedSecret follows the *)
(* length of the list, and secretId goes back to its default when it or    *)
(* the method changes.  before is None when the block has just mounted.    *)
AuthenticationEffects(v, old, count, before, reset) ==
  LET defined == IF count # before THEN count > 0 ELSE v.defined
      again == before = None \/ defined # old.defined \/ v.auth # old.auth
  IN  [v EXCEPT !.defined = defined, !.secret = IF again THEN reset.secret ELSE @]

Render(p) ==
  LET stays == p.view = view
      Before(h) == IF stays THEN held[h] ELSE None
      type == ProviderShown(p.values, p.view, p.doc)
      page == IF p.view \in {"form", "yaml"}
              THEN ListShown(Before("page"), p.cache, type) ELSE None
      asks == AsksInModal(p.values, p.view, page)
      authShown == p.view = "form" /\ p.values.provider = "local"
      auth == IF authShown THEN ListShown(Before("auth"), p.cache, p.values.auth) ELSE None
      counted == IF Before("auth") = None THEN None ELSE Count(Before("auth"))
  IN  /\ view' = p.view /\ cache' = p.cache /\ doc' = p.doc /\ kept' = p.kept
      /\ held' = [page |-> page, auth |-> auth,
                  modal |-> IF asks THEN ListShown(Before("modal"), p.cache, type)
                            ELSE None]
      /\ values' = IF authShown
                   THEN AuthenticationEffects(p.values, values, Count(auth), counted, p.kept)
                   ELSE p.values
      /\ ref' = [page |-> IF stays THEN p.ref.page ELSE None,
                 modal |-> IF asks /\ stays THEN p.ref.modal ELSE None]
      /\ made' = [page |-> IF stays THEN p.made.page ELSE 0,
                  modal |-> IF asks /\ stays THEN p.made.modal ELSE 0]
      /\ modal' = IF asks /\ stays THEN p.modal ELSE ModalShut

-----------------------------------------------------------------------------
(* The blocks of a cloud cluster.  Each operator gives the values after a  *)
(* block's handler and the effects it sets off.                            *)

ExpertShown == expert

Boxes(v) == IF ~ExpertShown THEN {} ELSE DOMAIN v.databases

(* A box of a database that mounts, or whose name changes, writes the      *)
(* user's name, and its own entry into the names of the last rendering:    *)
(* when several mount at once the names get the entry of the last one.     *)
DatabaseBoxMounts(v, i) ==
  [v EXCEPT !.databases[i].user = v.databases[i].name,
            !.names = [id \in {v.databases[i].id} |-> v.databases[i].name] ++ @]

DatabaseBoxesMount(v) ==
  IF Boxes(v) = {} THEN v
  ELSE [DatabaseBoxMounts(v, Len(v.databases)) EXCEPT
          !.databases = [i \in DOMAIN @ |-> [@[i] EXCEPT !.user = v.databases[i].name]]]

\* A box of a pool takes the name of the database at its index.
PoolBoxMounts(v, i) ==
  IF i \in DOMAIN v.databases /\ v.databases[i].name # ""
  THEN [v EXCEPT !.pools[i] = v.databases[i].name] ELSE v

PoolBoxesMount(v) ==
  [v EXCEPT !.pools = [i \in DOMAIN @ |->
     IF ExpertShown /\ v.pooler THEN PoolBoxMounts(v, i).pools[i] ELSE @[i]]]

\* Min(1 GB) when the volume says nothing.
SmallestSize(p, volume) == IF Volume(p, volume) = None THEN 1 ELSE Volume(p, volume).min

DefaultSize(p) ==
  IF DefaultVolume(p) = None THEN None
  ELSE IF DefaultVolume(p).min < 100 THEN 100 ELSE DefaultVolume(p).min

(* StorageBlock: the volume of the provider, and the smallest size of a    *)
(* volume that is not the one before.                                      *)
StorageEffects(v, mounts) ==
  LET volume == DefaultVolumeType(v.provider)
  IN  [v EXCEPT !.volume = volume,
                !.storage = IF mounts \/ volume # v.volume
                            THEN SmallestSize(v.provider, volume) ELSE @]

(* BackupsBlock: no backups unless the cloud keeps them. *)
BackupsEffect(v) ==
  IF ExpertShown /\ v.provider \in Keyed \cup {"local"}
  THEN [v EXCEPT !.backups = FALSE] ELSE v

(* DataDirectoryBlock: the directory is that of the version. *)
DataDirectoryEffect(v) ==
  IF ExpertShown /\ v.provider = "local" THEN [v EXCEPT !.dataDir = v.version] ELSE v

\* handleProviderChange: a reset, after which every box is another one.
ProviderReset(v, p) ==
  [v EXCEPT !.provider = p,
            !.region = IF p \in Clouds THEN Deployment(p).regions[1].code ELSE None,
            !.datacenter = FirstDatacenter(p),
            !.instanceType = "small", !.instance = First(Deployment(p).small),
            !.storage = DefaultSize(p), !.backups = p # "local"]

(* Variant: the datacenter of the previous provider stays. *)
ProviderPickedDatacenterKept(v, p) ==
  LET reset == Set(ProviderReset(v, p), "datacenter", v.datacenter)
  IN  IF p \in Clouds THEN StorageEffects(reset, v.provider \notin Clouds) ELSE reset

ProviderPicked(v, p) ==
  LET reset == ProviderReset(v, p)
      stored1 == IF p \in Clouds THEN StorageEffects(reset, v.provider \notin Clouds)
                 ELSE reset
      boxed == PoolBoxesMount(DatabaseBoxesMount(BackupsEffect(stored1)))
  IN  IF v.provider = "local" THEN boxed ELSE DataDirectoryEffect(boxed)

RegionPicked(v, code) ==
  [v EXCEPT !.region = code, !.datacenter = First(Region(v.provider, code).datacenters)]

InstanceTypePicked(v, type) ==
  [v EXCEPT !.instanceType = type,
            !.instance = IF type = "small" THEN First(Deployment(v.provider).small)
                         ELSE None]

VolumePicked(v, type) ==
  [v EXCEPT !.volume = type,
            !.storage = IF type = v.volume THEN @ ELSE SmallestSize(v.provider, type)]

-----------------------------------------------------------------------------
(* The blocks of a local cluster and of the expert mode.                   *)

Without(row, i) == [j \in 1..(Len(row) - 1) |-> IF j < i THEN row[j] ELSE row[j + 1]]

Appended(v, field, row) == [v EXCEPT ![field] = Append(@, row)]
Removed(v, field, i) == [v EXCEPT ![field] = Without(@, i)]

ShownAt(version, hidden) == {e \in DOMAIN Extensions : version \in Extensions[e]} \ hidden

(* Variant: no selector drops anything. *)
SelectorsIdle(v, selectors) == v

(* A selector drops the databases that are gone when it mounts and when    *)
(* the names change; one that is not shown does neither.                   *)
SelectorsIntersect(v, selectors) ==
  IF v.extensions = None \/ ~ExpertShown THEN v
  ELSE [v EXCEPT !.extensions = [e \in DOMAIN @ |->
          IF e \in selectors THEN @[e] \cap DOMAIN v.names ELSE @[e]]]

DatabaseAppended(v, number, id) ==
  DatabaseBoxMounts(
    Appended(v, "databases", [id |-> id, name |-> "db" \o ToString(number),
                              user |-> "db" \o ToString(number)]),
    Len(v.databases) + 1)

DatabaseRenamed(v, i, name) ==
  DatabaseBoxMounts([v EXCEPT !.databases[i].name = name], i)

\* deleteItem
DatabaseDeleted(v, i) ==
  Removed([v EXCEPT !.names = [id \in DOMAIN @ \ {v.databases[i].id} |-> @[id]]],
          "databases", i)

ExtensionSelected(v, e, ids) ==
  [v EXCEPT !.extensions = IF @ = None THEN [x \in DOMAIN Extensions |->
                                              IF x = e THEN ids ELSE {}]
                           ELSE [@ EXCEPT ![e] = ids]]

\* The configuration goes back to its default.
MethodPicked(v, method, reset) == [v EXCEPT !.method = method, !.config = reset.config]

\* handleInputChange of the number of synchronous standbys.
StandbyTyped(v, n) == Set(v, "standby", IF n > v.amount - 1 THEN v.amount - 1 ELSE n)

(* Every block of the form mounts: the page was loaded, or the user comes  *)
(* back from the editor.  The second effect of BackupsBlock undoes the     *)
(* first.                                                                  *)
FormMounts(v) ==
  LET cloud == IF v.provider \in Clouds THEN StorageEffects(v, TRUE) ELSE v
  IN  SelectorsIntersect(
        DataDirectoryEffect(PoolBoxesMount(DatabaseBoxesMount(cloud))),
        ShownAt(v.version, {}))

(* The texts that only have to be there, typed in a row. *)
CloudPartFilled(v) == [v EXCEPT !.sshKey = TRUE]

LocalPartFilled(v) ==
  LET typed == SetToSeq(Addresses)
      At(i) == typed[(i % Len(typed)) + 1]
  IN  [v EXCEPT !.servers = [i \in DOMAIN @ |-> [@[i] EXCEPT !.ip = At(i)]],
                !.dcsHosts = [i \in DOMAIN @ |-> At(i)],
                !.balancers = [i \in DOMAIN @ |-> At(i)],
                !.key = "key", !.user = "root", !.password = "password",
                !.keyName = TRUE]

-----------------------------------------------------------------------------
(* The page opens and closes.                                              *)

Closed == [values |-> FormDefaults(FALSE), view |-> "away", cache |-> cache,
           doc |-> [valid |-> FALSE, object |-> YamlOf(FormDefaults(FALSE))],
           kept |-> [secret |-> None, config |-> None],
           ref |-> [page |-> None, modal |-> None],
           made |-> [page |-> 0, modal |-> 0], modal |-> ModalShut]

FreshBoxes == [number |-> 2, hidden |-> {}]

Init ==
  /\ \E t \in Tours : tour = t.parts /\ stored = t.secrets
  /\ expert \in BOOLEAN /\ tabs = ("yaml" \in tour) /\ loaded = None /\ project = "p1"
  /\ view = "away" /\ values = FormDefaults(FALSE)
  /\ kept = [secret |-> None, config |-> None] /\ boxes = FreshBoxes
  /\ cache = [t \in SecretTypes |-> None] /\ stale = {}
  /\ held = [h \in Holders |-> None] /\ ref = [page |-> None, modal |-> None]
  /\ made = [page |-> 0, modal |-> 0] /\ modal = ModalShut
  /\ doc = [valid |-> FALSE, object |-> YamlOf(FormDefaults(FALSE))]
  /\ flight = None /\ sent = None

Rest == <<tour, expert, tabs, loaded, project, stored, stale, flight>>

(* The module of the constants is imported when the page first opens: they *)
(* keep the flag of that moment.                                           *)
OpenPage ==
  /\ view = "away" /\ flight = None /\ "form" \in tour
  /\ loaded' = IF loaded = None THEN expert ELSE loaded
  /\ Render([Closed EXCEPT !.view = "loading", !.values = FormDefaults(loaded')])
  /\ boxes' = FreshBoxes /\ sent' = None
  /\ UNCHANGED <<tour, expert, tabs, project, stored, stale, flight>>

(* A page that has thrown is loaded again, and the modules with it, once   *)
(* no request is under way (a bound).                                      *)
Reload ==
  /\ view = "broken" /\ flight = None
  /\ Render([Closed EXCEPT !.cache = [t \in SecretTypes |-> None]])
  /\ loaded' = None /\ stale' = {} /\ boxes' = FreshBoxes /\ sent' = None
  /\ UNCHANGED <<tour, expert, tabs, project, stored, flight>>

FirstCloud == CHOOSE c \in Clouds : TRUE

(* The four lists are there: the form is reset to the first of each. *)
PageLoaded ==
  /\ view = "loading"
  /\ LET v == [values EXCEPT
                 !.provider = FirstCloud,
                 !.region = Deployment(FirstCloud).regions[1].code,
                 !.datacenter = FirstDatacenter(FirstCloud),
                 !.instance = First(Deployment(FirstCloud).small),
                 !.version = Last(Versions), !.environment = First(Environments),
                 !.name = "name",
                 !.volume = IF expert THEN DefaultVolumeType(FirstCloud) ELSE @]
     IN  Render([Now EXCEPT !.view = "form", !.values = FormMounts(v),
                            !.kept = [secret |-> v.secret, config |-> v.config]])
  /\ boxes' = FreshBoxes /\ sent' = None
  /\ UNCHANGED Rest

(* Cancel, or another page of the menu. *)
LeavePage ==
  /\ view \in {"form", "yaml"} /\ "leave" \in tour
  /\ Render(Closed)
  /\ boxes' = FreshBoxes /\ sent' = None
  /\ UNCHANGED Rest

-----------------------------------------------------------------------------
(* The lists of secrets arrive.                                            *)

WantedTypes ==
  (IF view \in {"form", "yaml"} THEN {ProviderShown(values, view, doc)} ELSE {})
  \cup (IF view = "form" /\ values.provider = "local" THEN {values.auth} ELSE {})

Awaited == {t \in WantedTypes : cache[t] = None \/ t \in stale}

SecretsArrive ==
  /\ \E t \in Awaited :
       /\ Render([Now EXCEPT !.cache[t] = OfType(t, stored)])
       /\ stale' = stale \ {t}
  /\ sent' = None
  /\ UNCHANGED <<tour, expert, tabs, loaded, project, boxes, stored, flight>>

\* The tags of the secrets: lists that are shown are fetched again, others go.
CacheInvalidated == [t \in SecretTypes |-> IF t \in WantedTypes THEN cache[t] ELSE None]

-----------------------------------------------------------------------------
(* The user fills in the form.  The lists have come, and no request is     *)
(* under way, before the next input, but in the tours about that.          *)

Ready == /\ Awaited = {} \/ "lag" \in tour
         /\ flight = None \/ "busy" \in tour

\* The modal is in front of the page.
PageInFront == Ready /\ ~modal.open

EditKeeping(part, v, k, b) ==
  /\ view = "form" /\ part \in tour /\ PageInFront
  /\ Render([Now EXCEPT !.values = v, !.kept = k])
  /\ boxes' = b /\ sent' = None
  /\ UNCHANGED Rest

Edit(part, v) == EditKeeping(part, v, kept, boxes)

Cloud == values.provider \in Clouds
Local == values.provider = "local"

ClusterFormProvidersBlock ==
  \E p \in Clouds \cup {"local"} :
    LET v == ProviderPicked(values, p)
    IN  EditKeeping(p, v, [secret |-> v.secret, config |-> v.config], boxes)

CloudFormRegionBlock ==
  /\ Cloud
  /\ \/ \E r \in Rows(Deployment(values.provider).regions) :
          Edit("region", RegionPicked(values, r.code))
     \/ \E d \in Rows(Region(values.provider, values.region).datacenters) :
          Edit("region", Set(values, "datacenter", d))

CloudFormInstancesBlock ==
  /\ Cloud
  /\ \/ \E type \in {"small"} \cup (IF expert THEN {"custom"} ELSE {}) :
          Edit("instance", InstanceTypePicked(values, type))
     \/ \E i \in Rows(Deployment(values.provider).small) :
          values.instanceType = "small" /\ Edit("instance", Set(values, "instance", i))

CustomInstance ==
  Cloud /\ values.instanceType = "custom" /\ Edit("instance", Set(values, "serverType", "typed"))

InstancesAmountBlock ==
  /\ Cloud
  /\ \/ \E n \in 1..3 : Edit("amount", Set(values, "amount", n))
     \/ expert /\ values.provider \in Spot /\ Edit("amount", Set(values, "spot", ~values.spot))

StorageBlock ==
  /\ Cloud
  /\ \/ \E volume \in Rows(Deployment(values.provider).volumes) :
          expert /\ Edit("storage", VolumePicked(values, volume.type))
     \/ /\ 200 >= SmallestSize(values.provider, values.volume)   \* the slider's range
        /\ Edit("storage", Set(values, "storage", 200))

Network == Cloud /\ expert /\ Edit("texts", Set(values, "network", "typed"))
SshKeyBlock == \E typed \in BOOLEAN : Cloud /\ Edit("texts", Set(values, "sshKey", typed))

DatabaseServersBlock ==
  /\ Local
  /\ \/ Len(values.servers) < MaxRows
        /\ Edit("servers", Appended(values, "servers", [ip |-> None, exists |-> FALSE]))
     \/ \E i \in 2..Len(values.servers) : Edit("servers", Removed(values, "servers", i))
     \/ Edit("servers", Set(values, "existing", ~values.existing))

DatabaseServerBox ==
  /\ Local
  /\ \E i \in DOMAIN values.servers \cap TypedRows :
       \/ \E a \in Addresses : Edit("servers", [values EXCEPT !.servers[i].ip = a])
       \/ expert /\ Edit("servers", [values EXCEPT !.servers[i].exists = ~@])

VipAddressBlock == \E vip \in {"", "address", "text"} : Local /\ Edit("texts", Set(values, "vip", vip))

LoadBalancersBlock ==
  /\ Local
  /\ \/ Edit("balancers", Set(values, "haproxy", ~values.haproxy))
     \/ expert /\ values.haproxy /\ Edit("balancers", Set(values, "lbOnDb", ~values.lbOnDb))
     \/ expert /\ values.haproxy /\ ~values.lbOnDb /\ Len(values.balancers) < MaxRows
        /\ Edit("balancers", Appended(values, "balancers", None))
     \/ expert /\ values.haproxy /\ ~values.lbOnDb
        /\ \E i \in 2..Len(values.balancers) : Edit("balancers", Removed(values, "balancers", i))

LoadBalancersDatabaseBox ==
  /\ Local /\ expert /\ values.haproxy /\ ~values.lbOnDb
  /\ \E i \in DOMAIN values.balancers \cap TypedRows, a \in Addresses :
       Edit("balancers", [values EXCEPT !.balancers[i] = a])

DcsHostsShown == ~values.dcsNew \/ ~values.dcsOnDb

DcsBlock ==
  /\ Local /\ expert
  /\ \/ \E type \in {"etcd", "consul"} : Edit("dcs", Set(values, "dcsType", type))
     \/ Edit("dcs", Set(values, "dcsNew", ~values.dcsNew))
     \/ values.dcsNew /\ Edit("dcs", Set(values, "dcsOnDb", ~values.dcsOnDb))
     \/ DcsHostsShown /\ Len(values.dcsHosts) < MaxRows
        /\ Edit("dcs", Appended(values, "dcsHosts", None))
     \/ \E i \in 2..Len(values.dcsHosts) :
          DcsHostsShown /\ Edit("dcs", Removed(values, "dcsHosts", i))

DcsDatabaseBox ==
  /\ Local /\ expert /\ DcsHostsShown
  /\ \E i \in DOMAIN values.dcsHosts \cap TypedRows, a \in Addresses :
       Edit("dcs", [values EXCEPT !.dcsHosts[i] = a])

SecretsListed == Count(held.auth) > 0
TypesSecret == ~SecretsListed \/ ~values.defined

AuthenticationMethodFormBlock ==
  /\ Local
  /\ \/ \E method \in {"ssh_key", "password"} : Edit("auth", Set(values, "auth", method))
     \/ \E yes \in BOOLEAN : SecretsListed /\ Edit("auth", Set(values, "defined", yes))
     \/ /\ SecretsListed /\ values.defined
        /\ \E id \in Rows(held.auth.ids) : Edit("auth", Set(values, "secret", id))
     \/ \E yes \in BOOLEAN : TypesSecret /\ Edit("auth", Set(values, "save", yes))
     \/ TypesSecret /\ values.save /\ Edit("login", Set(values, "keyName", TRUE))

AuthenticationFormPart == Local /\ TypesSecret /\ Edit("login", Set(values, "user", "root"))
PasswordMethodFormPart ==
  Local /\ TypesSecret /\ values.auth = "password" /\ Edit("login", Set(values, "password", "password"))
SshMethodFormPart ==
  Local /\ TypesSecret /\ values.auth = "ssh_key" /\ Edit("login", Set(values, "key", "key"))

ClusterFormEnvironmentBlock ==
  \E e \in Rows(Environments) : Edit("texts", Set(values, "environment", e))
ClusterNameBox == \E name \in {"", "name", "no name"} : Edit("texts", Set(values, "name", name))

VersionPicked(v, version) ==
  LET shown == ShownAt(version, boxes.hidden)
  IN  SelectorsIntersect(IF version = v.version THEN v
                         ELSE DataDirectoryEffect(Set(v, "version", version)),
                         shown \ ShownAt(v.version, boxes.hidden))

PostgresVersionBox ==
  \E version \in Rows(Versions) : Edit("version", VersionPicked(values, version))

DataDirectoryBlock == Local /\ expert /\ Edit("version", Set(values, "dataDir", "typed"))

Shown == ShownAt(values.version, boxes.hidden)

\* uniqueId: no selection still holds an id that is used again.
NextDatabaseId ==
  1 + Max({0} \cup DOMAIN values.names \cup {d.id : d \in Rows(values.databases)}
          \cup (IF values.extensions = None THEN {}
                ELSE UNION {values.extensions[e] : e \in DOMAIN values.extensions}))

DatabaseBlock ==
  /\ expert /\ Len(values.databases) < MaxRows
  /\ EditKeeping("databases",
       SelectorsIntersect(DatabaseAppended(values, boxes.number, NextDatabaseId), Shown),
       kept, [boxes EXCEPT !.number = @ + 1])
  /\ boxes.number <= MaxRows

DatabaseBox ==
  /\ expert
  /\ \E i \in DOMAIN values.databases :
       \/ /\ i \in TypedRows /\ values.databases[i].name # "renamed"
          /\ Edit("databases",
                  SelectorsIntersect(DatabaseRenamed(values, i, "renamed"), Shown))
       \/ i \in TypedRows /\ Edit("databases", [values EXCEPT !.databases[i].user = "typed"])
       \/ i > 1 /\ Edit("databases", SelectorsIntersect(DatabaseDeleted(values, i), Shown))

ConnectionPoolsBlock ==
  /\ expert
  /\ \/ Edit("pools", IF values.pooler THEN Set(values, "pooler", FALSE)
                      ELSE PoolBoxesMount(Set(values, "pooler", TRUE)))
     \/ values.pooler /\ Len(values.pools) < MaxRows
        /\ Edit("pools", PoolBoxMounts(Appended(values, "pools", ""), Len(values.pools) + 1))
     \/ \E i \in 2..Len(values.pools) :
          values.pooler /\ Edit("pools", Removed(values, "pools", i))

ConnectionPoolBox ==
  \E i \in DOMAIN values.pools \cap TypedRows :
    expert /\ values.pooler /\ Edit("pools", [values EXCEPT !.pools[i] = "typed"])

\* The search text and the switch leave some extensions out of sight.
ExtensionsBlock ==
  /\ expert
  /\ \E hidden \in SUBSET DOMAIN Extensions :
       EditKeeping("extensions",
         SelectorsIntersect(values, boxes.hidden \ hidden), kept,
         [boxes EXCEPT !.hidden = hidden])

ExtensionSelector ==
  /\ expert
  /\ \E e \in Shown : \E ids \in SUBSET DOMAIN values.names :
       Edit("extensions", ExtensionSelected(values, e, ids))

BackupsBlock ==
  /\ expert
  /\ \/ Edit("backups", Set(values, "backups", ~values.backups))
     \/ \E method \in {"pgbackrest", "wal_g"} :
          values.backups /\ values.method # method
          /\ Edit("backups", MethodPicked(values, method, kept))
     \/ values.backups /\ values.provider \in Keyed /\ Edit("backups", Set(values, "keys", TRUE))

\* A configuration is the one typed for the method at hand, or has no format.
ConfigureBackupModal ==
  \E text \in {values.method, "junk"} :
    expert /\ values.backups /\ Edit("backups", Set(values, "config", text))

ConfigurePostgresParametersModal ==
  \E text \in {"", "ok", "junk"} : expert /\ Edit("parameters", Set(values, "pgParams", text))
ConfigureKernelParametersModal ==
  \E text \in {"", "ok", "junk"} : expert /\ Edit("parameters", Set(values, "kernel", text))

AdditionalSettingsBlock ==
  /\ expert
  /\ \/ \E n \in 0..3 : Edit("standby", StandbyTyped(values, n))
     \/ values.standby > 0 /\ Edit("standby", Set(values, "strict", ~values.strict))
     \/ Cloud /\ Edit("standby", Set(values, "publicAccess", ~values.publicAccess))
     \/ Cloud /\ Edit("standby", Set(values, "cloudBalancer", ~values.cloudBalancer))

ClusterFormCloudProviderFormPart == Cloud /\ Edit("rest", CloudPartFilled(values))
ClusterFormLocalMachineFormPart == Local /\ Edit("rest", LocalPartFilled(values))

FillIn ==
  \/ ClusterFormProvidersBlock \/ CloudFormRegionBlock \/ CloudFormInstancesBlock
  \/ CustomInstance \/ InstancesAmountBlock \/ StorageBlock \/ Network \/ SshKeyBlock
  \/ DatabaseServersBlock \/ DatabaseServerBox \/ VipAddressBlock
  \/ LoadBalancersBlock \/ LoadBalancersDatabaseBox \/ DcsBlock \/ DcsDatabaseBox
  \/ AuthenticationMethodFormBlock \/ AuthenticationFormPart
  \/ PasswordMethodFormPart \/ SshMethodFormPart
  \/ ClusterFormEnvironmentBlock \/ ClusterNameBox \/ PostgresVersionBox
  \/ DataDirectoryBlock \/ DatabaseBlock \/ DatabaseBox \/ ConnectionPoolsBlock
  \/ ConnectionPoolBox \/ ExtensionsBlock \/ ExtensionSelector \/ BackupsBlock
  \/ ConfigureBackupModal \/ ConfigurePostgresParametersModal
  \/ ConfigureKernelParametersModal \/ AdditionalSettingsBlock
  \/ ClusterFormCloudProviderFormPart \/ ClusterFormLocalMachineFormPart

-----------------------------------------------------------------------------
(* The YAML editor and the tabs.  YamlEditorForm writes the values of the  *)
(* form into the editor when it mounts; if turning them into text throws,  *)
(* so does the page.                                                       *)

EditorMounts(v) == [valid |-> TRUE, object |-> YamlOf(v)]

ToYaml ==
  /\ view = "form" /\ "yaml" \in tour /\ expert /\ tabs /\ PageInFront
  /\ LET v == Set(values, "creationType", "yaml")
     IN  IF BaseVarsThrow(v, expert) THEN Render([Closed EXCEPT !.view = "broken"])
         ELSE Render([Now EXCEPT !.view = "yaml", !.values = v, !.doc = EditorMounts(v)])
  /\ boxes' = FreshBoxes /\ sent' = None
  /\ UNCHANGED Rest

ToForm ==
  /\ view = "yaml" /\ "yaml" \in tour /\ PageInFront
  /\ Render([Now EXCEPT !.view = "form",
                        !.values = FormMounts(Set(values, "creationType", "form"))])
  /\ boxes' = FreshBoxes /\ sent' = None
  /\ UNCHANGED Rest

(* A text that does not parse leaves the last object. *)
YamlEdited ==
  /\ view = "yaml" /\ "yaml" \in tour /\ PageInFront
  /\ \/ Render([Now EXCEPT !.doc.valid = FALSE])
     \/ \E cloud \in Clouds \cup {None} :
          Render([Now EXCEPT !.doc = [valid |-> TRUE,
            object |-> [doc.object EXCEPT !.cloud = cloud,
                                          !.environment = Last(Environments)]]])
  /\ sent' = None
  /\ UNCHANGED <<Rest, boxes>>

-----------------------------------------------------------------------------
(* Submission.  An attempt is what the closure of the handler captured:    *)
(* the values, the parsed YAML and the lists of that moment.               *)

Attempt(from, save, type) ==
  [step |-> "secret", from |-> from, save |-> save, type |-> type,
   values |-> values, custom |-> IF view = "yaml" THEN doc.object ELSE None,
   typed |-> modal.typed, chosen |-> modal.chosen,
   list |-> IF from = "page" THEN held.page ELSE held.modal,
   created |-> ref[from], project |-> project, kept |-> kept]

\* Number('') is 0, which is no secret.
SecretOfPage(a, created) ==
  IF ~IsCloud(a.values, a.custom)
  THEN IF created # None THEN created ELSE a.values.secret
  ELSE First(a.list.ids)

SecretOfModal(a, created) ==
  IF created # None THEN created ELSE IF Count(a.list) = 0 THEN None ELSE a.chosen

SecretOf(a, created) ==
  IF a.from = "page" THEN SecretOfPage(a, created) ELSE SecretOfModal(a, created)

(* Variant: the modal creates a secret for every attempt. *)
SecretAlways(a) == a.save

\* The first request is for the secret, unless an earlier attempt got it.
SecretFirst(a) == a.save /\ a.created = None

Ended(p, a) == IF a.from = "modal" THEN [p EXCEPT !.modal = ModalShut] ELSE p

(* The request for the cluster, with the flag of this moment; its building *)
(* may throw, and deletes the environment from the parsed YAML.            *)
Post(a, p, created) ==
  IF RequestThrows(a.values, a.custom, expert)
  THEN flight' = None /\ sent' = None /\ Render(Ended(p, a))
  ELSE /\ sent' = [request |-> Request(a.values, SecretOf(a, created), a.project,
                                       a.typed, a.custom, expert),
                   attempt |-> a, secret |-> SecretOf(a, created), created |-> created,
                   ha |-> HighAvailability(a.values, expert),
                   expert |-> expert, loaded |-> loaded]
       /\ flight' = [a EXCEPT !.step = "cluster"]
       /\ Render(IF a.custom = None THEN p
                 ELSE [p EXCEPT !.doc.object = Stripped(@)])

Begin(a, p) ==
  IF SecretFirst(a) THEN flight' = a /\ sent' = None /\ Render(p)
  ELSE Post(a, p, a.created)

CanSubmit == "submit" \in tour /\ flight = None /\ (Awaited = {} \/ "lag" \in tour)

(* The button of the form; a cloud cluster needs exactly one secret. *)
SubmitForm ==
  /\ view = "form" /\ CanSubmit /\ FormValid(values, expert)
  /\ Local \/ Count(held.page) = 1
  /\ Begin(Attempt("page", Local /\ values.save, values.auth), Now)
  /\ UNCHANGED <<tour, expert, tabs, loaded, project, boxes, stored, stale>>

\* useClusterFormSubmit
SubmitYaml ==
  /\ view = "yaml" /\ CanSubmit /\ doc.valid /\ Count(held.page) = 1
  /\ Begin(Attempt("page", doc.object.cloud = None /\ values.save, values.auth), Now)
  /\ UNCHANGED <<tour, expert, tabs, loaded, project, boxes, stored, stale>>

Asks == AsksInModal(values, view, held.page)
PageValid == IF view = "yaml" THEN doc.valid ELSE FormValid(values, expert)

ModalEdited(m) ==
  /\ Render([Now EXCEPT !.modal = m]) /\ sent' = None
  /\ UNCHANGED <<Rest, boxes>>

(* The modal shows a select of several secrets, or the fields of a new one.*)
ClusterSecretModal ==
  /\ Asks /\ "submit" \in tour /\ Ready /\ flight = None
  /\ \/ PageValid /\ ~modal.open /\ ModalEdited([modal EXCEPT !.open = TRUE])
     \/ modal.open /\ ModalEdited([modal EXCEPT !.open = FALSE])
     \/ /\ modal.open /\ Count(held.modal) > 1
        /\ \E id \in Rows(held.modal.ids) : ModalEdited([modal EXCEPT !.chosen = id])
     \/ /\ modal.open /\ Count(held.modal) <= 1
        /\ \/ ModalEdited([modal EXCEPT !.typed = TRUE])
           \/ ModalEdited([modal EXCEPT !.save = ~@])

SubmitModal ==
  /\ Asks /\ CanSubmit /\ modal.open
  /\ modal # [ModalShut EXCEPT !.open = TRUE]   \* isDirty
  /\ Begin(Attempt("modal", modal.save, ProviderShown(values, view, doc)), Now)
  /\ UNCHANGED <<tour, expert, tabs, loaded, project, boxes, stored, stale>>

(* The secret is created, which makes the lists stale, and the request for *)
(* the cluster goes; the page that asked may be gone by now.               *)
SecretCreated ==
  /\ flight # None /\ flight.step = "secret"
  /\ flight.type # "local" /\ Len(stored) < MaxSecrets
  /\ LET id == Len(stored) + 1
         p == [Now EXCEPT !.cache = CacheInvalidated,
                          !.ref[flight.from] = IF view = "away" THEN None ELSE id,
                          !.made[flight.from] = @ + 1]
     IN  Post(flight, p, id)
  /\ stored' = Append(stored, flight.type)
  /\ stale' = WantedTypes
  /\ UNCHANGED <<tour, expert, tabs, loaded, project, boxes>>

\* A refusal invalidates the lists, too.
SecretRefused ==
  /\ flight # None /\ flight.step = "secret"
  /\ Render([Ended(Now, flight) EXCEPT !.cache = CacheInvalidated])
  /\ flight' = None /\ stale' = WantedTypes /\ sent' = None
  /\ UNCHANGED <<tour, expert, tabs, loaded, project, boxes, stored>>

(* The cluster is created: the user is taken to the list of clusters. *)
ClusterCreated ==
  /\ flight # None /\ flight.step = "cluster"
  /\ Render(Closed) /\ boxes' = FreshBoxes
  /\ flight' = None /\ sent' = None
  /\ UNCHANGED <<tour, expert, tabs, loaded, project, stored, stale>>

ClusterRefused ==
  /\ flight # None /\ flight.step = "cluster"
  /\ Render(Ended(Now, flight))
  /\ flight' = None /\ sent' = None
  /\ UNCHANGED <<tour, expert, tabs, loaded, project, boxes, stored, stale>>

\* What happens on the page and nowhere else.
FormWorks ==
  \/ PageLoaded \/ SecretsArrive \/ FillIn \/ ToYaml \/ ToForm \/ YamlEdited
  \/ SubmitForm \/ SubmitYaml \/ ClusterSecretModal \/ SubmitModal

-----------------------------------------------------------------------------
(* Properties.                                                             *)

(* Types: the page is in one of its views, the values have the shape of    *)
(* the form's, and the secrets the components hold exist.                  *)
FormTypeOK ==
  /\ {expert, tabs} \subseteq BOOLEAN /\ loaded \in BOOLEAN \cup {None}
  /\ view \in {"away", "loading", "form", "yaml", "broken"}
  /\ DOMAIN values = DOMAIN FormDefaults(TRUE)
  /\ values.provider \in Clouds \cup {"local", None}
  /\ values.amount \in 1..3 /\ values.standby \in 0..2
  /\ \A s \in Rows(values.servers) : s.ip \in Addresses \cup {None}
  /\ Len(stored) <= MaxSecrets /\ Rows(stored) \subseteq SecretTypes \cup {"gone"}
  /\ stale \subseteq SecretTypes
  /\ \A t \in SecretTypes : cache[t] # None => Rows(cache[t]) \subseteq DOMAIN stored
  /\ {values.secret, modal.chosen, ref.page, ref.modal} \subseteq {None} \cup DOMAIN stored
  /\ modal.open => view \in {"form", "yaml"}

SentFromForm == sent # None /\ sent.request.form
SentCloud == SentFromForm /\ sent.request.cloud
SentLocal == SentFromForm /\ ~sent.request.cloud

Instances(p) == Rows(Deployment(p).small)
Datacenters(p) == UNION {Rows(r.datacenters) : r \in Rows(Deployment(p).regions)}
Volumes(p) == {v.type : v \in Rows(Deployment(p).volumes)}

(* While its page or modal stays, the form creates one secret, however     *)
(* often the cluster is refused and tried again ("ref is used for case     *)
(* when user saves secret and uses its ID to create cluster").             *)
OneSecretPerPage == made.page <= 1 /\ made.modal <= 1

(* A request for a cloud cluster speaks of one cloud: after any sequence   *)
(* of providers, regions, instances and volumes, its location, image,      *)
(* server type and volume are the provider's, the datacenter on the page   *)
(* is one of the region chosen, and no disk is smaller than its volume     *)
(* type allows (getCloudProviderExtraVars reads fields that the reset of   *)
(* handleProviderChange and the effects of four blocks keep in step).      *)
ProviderSent ==
  SentCloud =>
    LET vars == sent.request.vars IN
    /\ vars.location \in Datacenters(vars.cloud) /\ vars.image \in Datacenters(vars.cloud)
    /\ sent.attempt.values.instanceType = "small" => vars.serverType \in Instances(vars.cloud)
    /\ "volume" \in DOMAIN vars => vars.volume \in Volumes(vars.cloud)

DatacenterOfRegion ==
  view = "form" /\ Cloud =>
    values.datacenter \in Rows(Region(values.provider, values.region).datacenters)

SizeFitsVolume ==
  SentCloud /\ sent.expert =>
    sent.request.vars.size >= SmallestSize(sent.request.vars.cloud, sent.request.vars.volume)

\* The request and the page speak of one cloud.
OneCloud == ProviderSent /\ DatacenterOfRegion /\ SizeFitsVolume

(* What the form accepts makes a complete request: no value that passes    *)
(* ClusterFormSchema makes mapFormValuesToRequestFields throw, if the      *)
(* form's constants are those of the mode it is in; backups come with the  *)
(* keys of a bucket on clouds that need them and with a configuration on   *)
(* own machines; and a configuration typed for one method is not sent for  *)
(* the other, unless a click on a provider has made it the default         *)
(* (BackupsBlockFormSchema against getBaseClusterExtraVars).               *)
AcceptedCanBeSent ==
  view = "form" /\ loaded = expert /\ FormValid(values, expert) =>
    ~RequestThrows(values, None, expert)

BackupsHaveWhatTheyNeed ==
  SentFromForm /\ "backup" \in DOMAIN sent.request.vars
  /\ sent.request.vars.backup.install # None =>
    /\ sent.attempt.values.provider \in Keyed => sent.request.vars.backup.keys
    /\ SentLocal => "config" \in DOMAIN sent.request.vars.backup

ConfigOfMethod ==
  SentFromForm /\ "backup" \in DOMAIN sent.request.vars
  /\ "config" \in DOMAIN sent.request.vars.backup =>
    sent.request.vars.backup.config
      \in {sent.request.vars.backup.install, sent.attempt.kept.config}

\* An accepted form makes a complete request (the three parts above).
AcceptedIsComplete == AcceptedCanBeSent /\ BackupsHaveWhatTheyNeed /\ ConfigOfMethod

(* The inventory of a local cluster is what was typed: the first row is    *)
(* its master and every other row a replica, each with an address, and the *)
(* master is a replica only if its address was typed twice; the load       *)
(* balancers are the rows typed for them, or the servers; the data         *)
(* directory is that of the version, or typed.  When the summary says that *)
(* the cluster is highly available, because it counts three rows of        *)
(* distinct addresses, three members of the DCS go with the request: in    *)
(* the inventory if a new DCS is deployed, in the extra vars if there is   *)
(* one.  The simple mode has only what the expert mode has left: the field *)
(* that a new DCS is deployed.  Without it (as by default) the summary     *)
(* says so all the same, and no member is sent.  A form whose constants    *)
(* are the simple mode's has no type of a DCS to deploy in the expert mode *)
(* (getLocalMachineEnvs, constructDcsEnvs, isHighAvailability).            *)
ServersSent ==
  SentLocal =>
    LET rows == ServerAddresses(sent.attempt.values)
        envs == sent.request.envs
    IN  /\ Rows(rows) \subseteq Addresses /\ {envs.master} \cup envs.replicas = Rows(rows)
        /\ envs.master \in envs.replicas <=> \E i \in 2..Len(rows) : rows[i] = rows[1]

BalancersSent ==
  SentLocal /\ sent.attempt.values.haproxy /\ (sent.expert => sent.loaded) =>
    /\ sent.request.envs.balancers # {} /\ sent.request.envs.balancers \subseteq Addresses

DirectoryOfVersion ==
  SentLocal /\ "dataDir" \in DOMAIN sent.request.vars =>
    sent.request.vars.dataDir \in {sent.request.vars.version, "typed"}

\* The rows that isHighAvailability counts.
Counted(v, x) == IF x /\ ~(v.dcsNew /\ v.dcsOnDb) THEN v.dcsHosts ELSE ServerAddresses(v)

Inventoried(envs) ==
  {a \in DOMAIN envs.etcd \cup DOMAIN envs.consul :
     a \in DOMAIN envs.etcd \/ envs.consul[a] = "server"}

QuorumSent ==
  LET v == sent.attempt.values
  IN  SentLocal /\ sent.ha /\ IsInjective(Counted(v, sent.expert))
      /\ (sent.expert \/ v.dcsNew) /\ (sent.expert => sent.loaded) =>
        Cardinality(IF v.dcsNew THEN Inventoried(sent.request.envs)
                    ELSE Rows(sent.request.vars.dcsMembers)) >= 3

\* The request for own machines is what was typed and promised.
InventoryAsTyped == ServersSent /\ BalancersSent /\ DirectoryOfVersion /\ QuorumSent

(* The secret chosen in the authentication block is the one that is sent,  *)
(* unless a secret was to be saved; it is of the chosen method unless a    *)
(* click on a provider has made it the default, the list was late or it    *)
(* has been removed.  A request that names a secret does not carry the     *)
(* private key or the password the secret stands for                       *)
(* (AuthenticationMethodFormBlock, getLocalMachineEnvs,                    *)
(* getLocalMachineExtraVars).                                              *)
ChosenSecretSent ==
  SentLocal /\ sent.attempt.values.defined /\ sent.created = None =>
    /\ sent.secret = sent.attempt.values.secret /\ sent.secret # None
    /\ "lag" \in tour \/ sent.secret = kept.secret
       \/ stored[sent.secret] \in {sent.attempt.values.auth, "gone"}

NoKeyBesideSecret ==
  SentLocal /\ sent.secret # None =>
    sent.request.envs.sshKey = None /\ "password" \notin DOMAIN sent.request.vars

\* The chosen secret is sent, without the key it stands for.
SecretSent == ChosenSecretSent /\ NoKeyBesideSecret

(* The names the extensions are chosen from are those of the databases:    *)
(* after any sequence of new, renamed and deleted boxes; and an extension  *)
(* that is shown is selected for databases that exist, one out of sight    *)
(* may still have a deleted one (DatabaseBox, ExtensionSelector).          *)
NamesFollowDatabases ==
  view = "form" /\ expert /\ loaded =>
    /\ DOMAIN values.names = {d.id : d \in Rows(values.databases)}
    /\ \A d \in Rows(values.databases) : values.names[d.id] = d.name

ShownSelectionsExist ==
  view = "form" /\ expert /\ values.extensions # None =>
    \A e \in Shown : values.extensions[e] \subseteq DOMAIN values.names

\* Names and selections follow the databases.
DatabasesFollowed == NamesFollowDatabases /\ ShownSelectionsExist

=============================================================================
