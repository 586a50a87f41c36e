---------------------------- MODULE ClusterValues ----------------------------
(***************************************************************************)
(* The values of the add-cluster form of the console: what they are when   *)
(* the form opens, when they are valid, and the request and the summary    *)
(* they are turned into.  Everything here is a function of the values and  *)
(* of the expert flag at the moment of the call; ClusterForm holds the     *)
(* state.  A text is what the form tells apart of it: whether it was       *)
(* typed, has the format asked for, or for whom it was typed.              *)
(***************************************************************************)
EXTENDS Naturals, Sequences, FiniteSets, SequencesExt, FiniteSetsExt, TLC

CONSTANTS
  Catalogue,   \* cloud -> its regions, instances and volumes
  Addresses,   \* IPv4 addresses a user types
  Extensions,  \* extension -> the Postgres versions it exists for
  ThirdParty,  \* those that are not contrib
  Versions,    \* Postgres major versions, ascending
  Environments,
  None         \* undefined

ASSUME CatalogueAssumption ==
  /\ DOMAIN Catalogue # {}
  /\ DOMAIN Catalogue \subseteq {"aws", "gcp", "azure", "digitalocean", "hetzner"}
  /\ \A c \in DOMAIN Catalogue :
       /\ Catalogue[c].regions # <<>> /\ Catalogue[c].small # <<>>
       /\ \A i \in DOMAIN Catalogue[c].regions :
            Catalogue[c].regions[i].datacenters # <<>>

\* The service's tables: keys of regions and volumes, one default volume.
ASSUME TablesAssumption ==
  \A c \in DOMAIN Catalogue :
    LET regions == Catalogue[c].regions
        volumes == Catalogue[c].volumes
    IN  /\ regions \in Seq({regions[i] : i \in DOMAIN regions})
        /\ \A i, j \in DOMAIN regions : regions[i].code = regions[j].code => i = j
        /\ \A i \in DOMAIN regions :
             regions[i].datacenters \in
               Seq({regions[i].datacenters[j] : j \in DOMAIN regions[i].datacenters})
        /\ Catalogue[c].small \in
             Seq({Catalogue[c].small[i] : i \in DOMAIN Catalogue[c].small})
        /\ volumes \in Seq({volumes[i] : i \in DOMAIN volumes})
        /\ \A i, j \in DOMAIN volumes : volumes[i].type = volumes[j].type => i = j
        /\ \E i \in DOMAIN volumes : volumes[i].default
        /\ \A i \in DOMAIN volumes : volumes[i].min \in Nat /\ volumes[i] # None

\* There is an address to type.
ASSUME AddressesAssumption == Addresses # {} /\ IsFiniteSet(Addresses)

Clouds == DOMAIN Catalogue
Spot == {"aws", "gcp", "azure"}
Keyed == {"digitalocean", "hetzner"}   \* their backups need keys of a bucket

\* Object.assign: the fields of two objects, the left one's first.
left ++ right ==
  [field \in DOMAIN left \cup DOMAIN right |->
     IF field \in DOMAIN left THEN left[field] ELSE right[field]]

First(s) == IF s = <<>> THEN None ELSE s[1]
Rows(s) == {s[i] : i \in DOMAIN s}

\* The provider object the form holds: { code: 'local' } has nothing else.
Deployment(p) ==
  IF p \in Clouds THEN Catalogue[p]
  ELSE [regions |-> <<>>, small |-> <<>>, volumes |-> <<>>]

Region(p, code) == CHOOSE r \in Rows(Deployment(p).regions) : r.code = code
FirstDatacenter(p) ==
  IF Deployment(p).regions = <<>> THEN None
  ELSE First(Deployment(p).regions[1].datacenters)
\* find: the first row of a table whose index is in a set.
Found(rows, indices) == IF indices = {} THEN None ELSE rows[Min(indices)]
Volume(p, type) ==
  LET volumes == Deployment(p).volumes
  IN  Found(volumes, {i \in DOMAIN volumes : volumes[i].type = type})
DefaultVolume(p) ==
  LET volumes == Deployment(p).volumes
  IN  Found(volumes, {i \in DOMAIN volumes : volumes[i].default})
DefaultVolumeType(p) ==
  IF DefaultVolume(p) # None THEN DefaultVolume(p).type
  ELSE IF Deployment(p).volumes # <<>> THEN Deployment(p).volumes[1].type ELSE None

-----------------------------------------------------------------------------
(* The constants are evaluated when their module is first imported, with   *)
(* the flag of that moment: what only the expert mode sets is undefined in *)
(* a form whose module was loaded in the simple one.                       *)

CloudDefaults(x) ==
  [provider |-> None, region |-> None, datacenter |-> None,
   instanceType |-> "small", instance |-> None, serverType |-> None,
   amount |-> 3, storage |-> 100, volume |-> None, spot |-> FALSE,
   network |-> None, sshKey |-> FALSE, publicAccess |-> FALSE,
   cloudBalancer |-> x]

LocalDefaults(x) ==
  [auth |-> "ssh_key", defined |-> FALSE, secret |-> None, save |-> FALSE,
   keyName |-> FALSE, user |-> None, password |-> None, key |-> None,
   servers |-> [i \in 1..3 |-> [ip |-> None, exists |-> FALSE]],
   existing |-> FALSE, vip |-> "",
   haproxy |-> FALSE, lbOnDb |-> FALSE,
   balancers |-> IF x THEN <<None>> ELSE <<>>,
   dcsType |-> IF x THEN "etcd" ELSE None,
   dcsNew |-> x, dcsOnDb |-> x,
   dcsHosts |-> IF x THEN <<None, None, None>> ELSE <<>>,
   dataDir |-> IF x THEN "18" ELSE None]   \* /pgdata/18/main

ExpertDefaults(x) ==
  [databases |-> IF x THEN <<[id |-> 1, name |-> "db1", user |-> "db1"]>> ELSE <<>>,
   names |-> <<>>,
   pooler |-> x, pools |-> IF x THEN <<"db1">> ELSE <<>>,
   extensions |-> IF x THEN [e \in DOMAIN Extensions |-> {}] ELSE None,
   backups |-> x, method |-> IF x THEN "pgbackrest" ELSE None,
   config |-> IF x THEN "" ELSE None, keys |-> FALSE,
   pgParams |-> IF x THEN "" ELSE None, kernel |-> IF x THEN "" ELSE None,
   standby |-> 0, strict |-> FALSE]

FormDefaults(x) ==
  [creationType |-> "form", environment |-> None, name |-> "", version |-> None]
    ++ CloudDefaults(x) ++ LocalDefaults(x) ++ ExpertDefaults(x)

-----------------------------------------------------------------------------
(* Validation.  configValidationSchema accepts lines of one format, or the *)
(* empty text, and refuses undefined, whose text is neither.               *)
ConfigFormat(text) == text \notin {None, "junk"}

CloudValid(v) == v.provider \in Clouds => v.region # None /\ v.sshKey

AuthenticationValid(v) ==
  v.provider = "local" =>
    /\ ~v.defined /\ v.auth = "ssh_key" => v.key # None
    /\ ~v.defined /\ v.auth = "password" => v.user # None /\ v.password # None
    /\ v.save => v.keyName
    /\ v.defined => v.secret # None

ServersValid(v) ==
  v.provider = "local" => \A s \in Rows(v.servers) : s.ip \in Addresses

BalancersValid(v, x) ==
  x /\ v.provider = "local" /\ v.haproxy /\ ~v.lbOnDb =>
    Rows(v.balancers) \subseteq Addresses

DcsValid(v, x) ==
  x /\ v.provider = "local" /\ (~v.dcsNew \/ ~v.dcsOnDb) =>
    Rows(v.dcsHosts) \subseteq Addresses

LocalValid(v, x) ==
  /\ AuthenticationValid(v)
  /\ v.provider = "local" => v.vip # "text"
  /\ ServersValid(v) /\ BalancersValid(v, x) /\ DcsValid(v, x)

BackupsValid(v) ==
  /\ ConfigFormat(v.config)
  /\ v.backups /\ v.provider = "local" => v.config # ""
  /\ v.backups /\ v.provider \in Keyed => v.keys

(* Variant: the kernel parameters are taken as they were typed. *)
ParametersUnchecked(v) == ConfigFormat(v.pgParams)

ParametersValid(v) == ConfigFormat(v.pgParams) /\ ConfigFormat(v.kernel)

ExpertValid(v) == BackupsValid(v) /\ ParametersValid(v)

FormValid(v, x) ==
  /\ v.provider # None /\ v.name = "name" /\ v.version # None
  /\ CloudValid(v) /\ LocalValid(v, x)
  /\ x => ExpertValid(v)

-----------------------------------------------------------------------------
(* The request.  In the code an absent field and an undefined one are the  *)
(* same JSON; here absent fields are left out of the record.               *)
Only(condition, fields) == IF condition THEN fields ELSE <<>>

CommonVars(v) == [version |-> v.version, clusterName |-> v.name]

CloudVars(v, x) ==
  [cloud |-> v.provider,
   serverType |-> IF v.instanceType = "custom" THEN v.serverType ELSE v.instance,
   location |-> v.datacenter, image |-> v.datacenter,
   count |-> v.amount, size |-> v.storage, sshKeys |-> v.sshKey]
  ++ CommonVars(v)
  ++ Only(x, [volume |-> v.volume, publicAccess |-> v.publicAccess,
              cloudBalancer |-> v.cloudBalancer]
             ++ Only(v.provider \in Spot /\ v.spot, [spot |-> TRUE])
             ++ Only(v.network # None, [network |-> v.network]))

LocalVars(v, secret, x) ==
  CommonVars(v)
  ++ Only(v.vip # "", [vip |-> v.vip])
  ++ Only(v.haproxy, [haproxy |-> TRUE])
  ++ Only(v.existing, [existingCluster |-> TRUE])
  ++ Only(secret = None /\ ~v.defined /\ v.auth = "password",
          [user |-> v.user, password |-> v.password])
  ++ Only(x, [dcsType |-> v.dcsType, dataDir |-> v.dataDir]
             ++ Only(~v.dcsNew, [dcsExists |-> TRUE, dcsMembers |-> v.dcsHosts]))

(* configureHosts: an object keyed by address, so an address that was      *)
(* typed twice is one host.                                                *)
Hosts(addresses, role) == [a \in Rows(addresses) |-> role]

ServerAddresses(v) == [i \in DOMAIN v.servers |-> v.servers[i].ip]

NoHosts == <<>>

DcsEnvs(v, x) ==
  LET members == IF v.dcsOnDb THEN ServerAddresses(v) ELSE v.dcsHosts
      clients == Hosts(ServerAddresses(v), "client")
  IN  IF v.dcsNew /\ ~x THEN
        [etcd |-> Hosts(ServerAddresses(v), "member"), consul |-> NoHosts]
      ELSE IF v.dcsNew /\ v.dcsType = "etcd" THEN
        [etcd |-> Hosts(members, "member"), consul |-> NoHosts]
      ELSE IF v.dcsNew /\ v.dcsType = "consul" THEN
        [etcd |-> NoHosts,
         consul |-> Hosts(members, "server") ++ Only(~v.dcsOnDb, clients)]
      ELSE IF v.dcsNew THEN [etcd |-> NoHosts, consul |-> NoHosts]
      ELSE IF x /\ v.dcsType = "consul" THEN [consul |-> clients]
      ELSE <<>>

BalancersEnvs(v, x) ==
  IF ~v.haproxy THEN {}
  ELSE IF x /\ ~v.lbOnDb THEN Rows(v.balancers)
  ELSE Rows(ServerAddresses(v))

PostgresExists(v, i, x) == IF x THEN v.servers[i].exists ELSE v.existing

(* Variant: the replicas are all the servers. *)
ReplicasWithMaster(v, x) == Rows(ServerAddresses(v))

\* Every server but the first, which is the master.
Replicas(v, x) ==
  LET rest == 2..Len(v.servers)
  IN  {v.servers[i].ip : i \in rest}

(* The inventory repeats the user's name as the SSH password (line 300);   *)
(* the extra vars carry the password itself.                               *)
LocalEnvs(v, secret, x) ==
  [sshKey |-> IF v.auth = "ssh_key" /\ ~v.defined /\ secret = None
              THEN v.key ELSE None,
   master |-> v.servers[1].ip, replicas |-> Replicas(v, x),
   balancers |-> BalancersEnvs(v, x), exists |-> PostgresExists(v, 1, x),
   login |-> IF v.auth = "password" THEN <<v.user, v.user, v.password>>
             ELSE <<v.user>>]
  ++ DcsEnvs(v, x)

(* getExtensions: { ext, db } for every selected database; names has the   *)
(* database of an id as long as its box keeps it there.                    *)
Name(v, id) == IF id \in DOMAIN v.names THEN v.names[id] ELSE None
RequestedExtensions(v) ==
  UNION {{[ext |-> e, db |-> Name(v, id)] : id \in v.extensions[e]} :
           e \in DOMAIN v.extensions}
EnabledThirdParty(v) == {e \in ThirdParty : v.extensions[e] # {}}

BackupVars(v) ==
  IF ~v.backups \/ v.method = None THEN [install |-> None]
  ELSE [install |-> v.method]
       ++ Only(v.config # "", [config |-> v.config])
       ++ Only(v.provider \in Keyed, [keys |-> v.keys])

BaseVars(v, x) ==
  [environment |-> v.environment]
  ++ Only(x,
       [databases |-> v.databases, pooler |-> v.pooler, backup |-> BackupVars(v)]
       ++ Only(v.pooler, [pools |-> v.pools])
       ++ Only(v.extensions # None,
               [extensions |-> RequestedExtensions(v),
                thirdParty |-> EnabledThirdParty(v)])
       ++ Only(v.pgParams # "", [pgParams |-> v.pgParams])
       ++ Only(v.kernel # "", [kernel |-> v.kernel])
       ++ Only(v.standby > 0, [standby |-> v.standby, strict |-> v.strict]))

(* What makes building the extra vars throw: Object.entries of undefined   *)
(* extensions, and the missing half of a line without a separator.         *)
BaseVarsThrow(v, x) ==
  /\ x
  /\ \/ v.extensions = None
     \/ "junk" \in {v.pgParams, v.kernel}
     \/ v.backups /\ v.config = "junk"

IsCloud(v, custom) ==
  IF v.creationType = "yaml" THEN custom # None /\ custom.cloud # None
  ELSE v.provider # "local"

(* mapFormValuesToRequestFields.  custom is the parsed YAML, or None; typed *)
(* is what was typed in the secret modal, and goes along even with a secret *)
(* id.  The caller's custom object loses its environment (Stripped).        *)
Stripped(custom) == IF custom = None THEN None ELSE [custom EXCEPT !.environment = None]

Request(v, secret, project, typed, custom, x) ==
  LET yaml  == v.creationType = "yaml"
      Field(f, value) == IF ~yaml THEN value ELSE IF custom = None THEN None ELSE custom[f]
  IN  [project |-> project, secret |-> secret, cloud |-> IsCloud(v, custom),
       form |-> ~yaml,
       name |-> Field("name", v.name),
       environment |-> Field("environment", v.environment)]
      ++ (IF IsCloud(v, custom)
          THEN [envs |-> typed, base64 |-> v.provider = "gcp",
                vars |-> IF custom # None THEN Stripped(custom)
                         ELSE CloudVars(v, x) ++ BaseVars(v, x)]
          ELSE [envs |-> LocalEnvs(v, secret, x), base64 |-> TRUE,
                vars |-> IF custom # None THEN Stripped(custom)
                         ELSE LocalVars(v, secret, x) ++ BaseVars(v, x),
                existing |-> IF yaml THEN custom # None /\ custom.existing
                             ELSE v.existing])

RequestThrows(v, custom, x) == custom = None /\ BaseVarsThrow(v, x)

\* mapFormValuesToYamlEditor, as far as the request reads it back.
YamlOf(v) ==
  [name |-> v.name, environment |-> v.environment,
   cloud |-> IF v.provider # "local" THEN v.provider ELSE None,
   existing |-> v.provider = "local" /\ v.existing]

-----------------------------------------------------------------------------
(* The summary beside the form.                                            *)

HighAvailability(v, x) ==
  \/ x /\ ~v.dcsNew /\ Len(v.dcsHosts) >= 3
  \/ x /\ v.dcsNew /\ ~v.dcsOnDb /\ Len(v.dcsHosts) >= 3
  \/ x /\ v.dcsNew /\ v.dcsOnDb /\ Len(v.servers) >= 3
  \/ ~x /\ Len(v.servers) >= 3

\* What the price is of: the default volume, whichever was chosen.
Priced(v) ==
  [instance |-> IF v.instanceType = "custom" THEN None ELSE v.instance,
   volume |-> DefaultVolumeType(v.provider), count |-> v.amount, size |-> v.storage]

=============================================================================
