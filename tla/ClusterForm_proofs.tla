--------------------------- MODULE ClusterForm_proofs ---------------------------
(***************************************************************************)
(* Proofs about the add-cluster page in the console, for any catalogue of  *)
(* clouds, any tour and any bounds: what is on the page keeps together,    *)
(* and a request for a cluster says what was accepted, typed and chosen.   *)
(***************************************************************************)
EXTENDS Console_proofs, FiniteSetTheorems, WellFoundedInduction

-----------------------------------------------------------------------------
(***************************************************************************)
(* Numbers, rows and objects.                                              *)
(***************************************************************************)

(* Some number is the smallest of a set of them.                           *)
LEMMA Smallest ==
  ASSUME NEW T, T \subseteq Nat, T # {}
  PROVE  \E n \in T : \A m \in T : n <= m
<1>1. \E R : IsWellFoundedOn(R, Nat) /\ \A n, m \in Nat : n < m => <<n, m>> \in R
  <2>1. IsWellFoundedOn(OpToRel(<, Nat), Nat)
    BY NatLessThanWellFounded
  <2>2. \A n, m \in Nat : n < m => <<n, m>> \in OpToRel(<, Nat)
    BY DEF OpToRel
  <2> QED BY <2>1, <2>2, Zenon
<1>2. PICK R : IsWellFoundedOn(R, Nat) /\ \A n, m \in Nat : n < m => <<n, m>> \in R
  BY <1>1, Zenon
<1>3. PICK n \in T : \A m \in T : ~(<<m, n>> \in R)
  <2>1. IsWellFoundedOn(R, Nat)
    BY <1>2
  <2> QED BY <2>1, WFMin, Zenon
<1>4. \A m \in T : ~(m < n)
  BY <1>2, <1>3, Zenon
<1> QED BY <1>4

(* A set of indices has a least one.                                       *)
LEMMA MinIsSmallest ==
  ASSUME NEW S, S \subseteq Nat, S # {}
  PROVE  Min(S) \in S /\ \A m \in S : Min(S) <= m
<1>1. \E n \in S : \A m \in S : n =< m
  BY Smallest
<1> QED BY <1>1, Zenon DEF Min

(* A set of numbers with a bound has a greatest one.                       *)
LEMMA MaxIsGreatest ==
  ASSUME NEW S, S \subseteq Nat, S # {}, NEW bound \in Nat, \A n \in S : n <= bound
  PROVE  Max(S) \in S /\ 1 + Max(S) \in Nat /\ \A n \in S : n < 1 + Max(S)
<1> DEFINE T == {d \in Nat : \E n \in S : d = bound - n}
<1>1. T \subseteq Nat /\ T # {}
  <2>1. PICK n \in S : TRUE
    OBVIOUS
  <2>2. bound - n \in T
    BY <2>1
  <2> QED BY <2>2
<1>2. PICK d \in T : \A e \in T : d <= e
  BY <1>1, Smallest
<1>3. PICK n \in S : d = bound - n
  OBVIOUS
<1>4. \A m \in S : n >= m
  <2> SUFFICES ASSUME NEW m \in S PROVE n >= m
    OBVIOUS
  <2>1. bound - m \in T
    OBVIOUS
  <2>2. bound - n <= bound - m
    BY <1>2, <1>3, <2>1
  <2> QED BY <2>2
<1>5. \E x \in S : \A y \in S : x >= y
  BY <1>4
<1>6. Max(S) \in S /\ \A y \in S : Max(S) >= y
  BY <1>5, Zenon DEF Max
<1>7. PICK greatest \in S : greatest = Max(S) /\ \A y \in S : greatest >= y
  BY <1>6, Zenon
<1>8. greatest \in Nat /\ \A m \in S : m < 1 + greatest
  BY <1>7
<1> QED BY <1>6, <1>7, <1>8

(* Lists of rows.                                                          *)
LEMMA Listed ==
  ASSUME NEW s, Numbered(s) PROVE Len(s) \in Nat /\ DOMAIN s = 1..Len(s)
  BY LenProperties DEF Numbered

(* A function on the first numbers is a list.                              *)
LEMMA ListFrom ==
  ASSUME NEW n \in Nat, NEW s, NEW S, s \in [1..n -> S]
  PROVE  Numbered(s) /\ Len(s) = n
<1>1. s \in Seq(S)
  BY SeqDef
<1> QED BY <1>1, LenProperties DEF Numbered

(* A row is added at the end.                                              *)
LEMMA ListAppended ==
  ASSUME NEW s, Numbered(s), NEW e
  PROVE  /\ Numbered(Append(s, e)) /\ Len(Append(s, e)) = Len(s) + 1
         /\ \A i \in 1..Len(s) : Append(s, e)[i] = s[i]
         /\ Append(s, e)[Len(s) + 1] = e
<1>1. PICK S : s \in Seq(S)
  BY DEF Numbered
<1>2. s \in Seq(S \cup {e})
  BY <1>1, SeqMonotonic
<1> QED BY <1>2, AppendProperties, NumberedAppend

(* A row is taken out.                                                     *)
LEMMA ListWithout ==
  ASSUME NEW s, Numbered(s), NEW i \in 2..Len(s)
  PROVE  /\ Numbered(Without(s, i)) /\ Len(Without(s, i)) = Len(s) - 1
         /\ \A j \in 1..(Len(s) - 1) : Without(s, i)[j] = IF j < i THEN s[j] ELSE s[j + 1]
<1>1. PICK S : s \in Seq(S)
  BY DEF Numbered
<1>2. Len(s) \in Nat /\ \A j \in 1..Len(s) : s[j] \in S
  BY <1>1, LenProperties
<1>3. Len(s) - 1 \in Nat /\ Without(s, i) \in [1..(Len(s) - 1) -> S]
  BY <1>2 DEF Without
<1>4. Numbered(Without(s, i)) /\ Len(Without(s, i)) = Len(s) - 1
  BY <1>3, ListFrom
<1> QED BY <1>4, <1>2 DEF Without

(* A row is edited.                                                        *)
LEMMA ListEdited ==
  ASSUME NEW s, Numbered(s), NEW i, NEW e
  PROVE  /\ Numbered([s EXCEPT ![i] = e]) /\ Len([s EXCEPT ![i] = e]) = Len(s)
         /\ DOMAIN [s EXCEPT ![i] = e] = DOMAIN s
<1>1. PICK S : s \in Seq(S)
  BY DEF Numbered
<1>2. Len(s) \in Nat /\ s \in [1..Len(s) -> S]
  BY <1>1, LenProperties
<1>3. [s EXCEPT ![i] = e] \in [1..Len(s) -> S \cup {e}]
  BY <1>2
<1> QED BY <1>2, <1>3, ListFrom

(* The fields of two objects put together.                                 *)
LEMMA Together ==
  ASSUME NEW f, NEW g
  PROVE  /\ DOMAIN (f ++ g) = DOMAIN f \cup DOMAIN g
         /\ \A x \in DOMAIN f : (f ++ g)[x] = f[x]
         /\ \A x \in DOMAIN g \ DOMAIN f : (f ++ g)[x] = g[x]
  BY DEF ++

-----------------------------------------------------------------------------
(***************************************************************************)
(* The catalogue of clouds.                                                *)
(***************************************************************************)

(* A list that is not empty has a first row.                               *)
LEMMA FirstOfList ==
  ASSUME NEW s, NEW S, s \in Seq(S), s # <<>>
  PROVE  1 \in DOMAIN s /\ First(s) = s[1] /\ First(s) \in Rows(s)
<1>1. Len(s) \in Nat \ {0} /\ DOMAIN s = 1..Len(s)
  BY EmptySeq, LenProperties
<1>2. 1 \in DOMAIN s
  BY <1>1
<1> QED BY <1>2 DEF First, Rows

Codes(p) == {r.code : r \in Rows(Deployment(p).regions)}

(* A code is that of a region, which has a datacenter.                     *)
LEMMA RegionFound ==
  ASSUME NEW p \in Clouds, NEW code \in Codes(p)
  PROVE  /\ Region(p, code) \in Rows(Deployment(p).regions) /\ Region(p, code).code = code
         /\ First(Region(p, code).datacenters) \in Rows(Region(p, code).datacenters)
<1> DEFINE regions == Catalogue[p].regions
<1>1. Deployment(p).regions = regions
  BY DEF Deployment
<1>2. \E r \in Rows(regions) : r.code = code
  BY <1>1 DEF Codes
<1>3. Region(p, code) \in Rows(regions) /\ Region(p, code).code = code
  BY <1>1, <1>2, Zenon DEF Region
<1>4. PICK i \in DOMAIN regions : Region(p, code) = regions[i]
  BY <1>3 DEF Rows
<1>5. /\ regions[i].datacenters # <<>>
      /\ regions[i].datacenters
           \in Seq({regions[i].datacenters[j] : j \in DOMAIN regions[i].datacenters})
  BY <1>4, CatalogueAssumption, TablesAssumption DEF Clouds
<1>6. First(regions[i].datacenters) \in Rows(regions[i].datacenters)
  BY <1>5, FirstOfList
<1> QED BY <1>1, <1>3, <1>4, <1>6

(* The first region has the first datacenter.                              *)
LEMMA FirstPlace ==
  ASSUME NEW p \in Clouds
  PROVE  LET code == Deployment(p).regions[1].code IN
         /\ code \in Codes(p)
         /\ FirstDatacenter(p) \in Rows(Region(p, code).datacenters)
<1> DEFINE regions == Catalogue[p].regions
           code == regions[1].code
<1>1. Deployment(p).regions = regions
  BY DEF Deployment
<1>2. regions # <<>> /\ regions \in Seq({regions[i] : i \in DOMAIN regions})
  BY CatalogueAssumption, TablesAssumption DEF Clouds
<1>3. 1 \in DOMAIN regions
  BY <1>2, FirstOfList
<1>4. code \in Codes(p)
  BY <1>1, <1>3 DEF Codes, Rows
<1>5. PICK i \in DOMAIN regions : Region(p, code) = regions[i] /\ regions[i].code = code
  BY <1>1, <1>4, RegionFound DEF Rows
<1>6. i = 1
  BY <1>3, <1>5, TablesAssumption DEF Clouds
<1>7. FirstDatacenter(p) = First(regions[1].datacenters)
  BY <1>1, <1>2 DEF FirstDatacenter
<1> QED BY <1>1, <1>4, <1>5, <1>6, <1>7, RegionFound

(* The first instance is one of the cloud's.                               *)
LEMMA FirstInstance ==
  ASSUME NEW p \in Clouds PROVE First(Deployment(p).small) \in Instances(p)
<1>1. Catalogue[p].small # <<>>
      /\ Catalogue[p].small \in Seq({Catalogue[p].small[i] : i \in DOMAIN Catalogue[p].small})
  BY CatalogueAssumption, TablesAssumption DEF Clouds
<1>2. First(Catalogue[p].small) \in Rows(Catalogue[p].small)
  BY <1>1, FirstOfList
<1> QED BY <1>2 DEF Instances, Deployment

(* The volumes are a list.                                                 *)
LEMMA VolumeRows == ASSUME NEW p \in Clouds PROVE DOMAIN Catalogue[p].volumes \subseteq Nat
<1>1. Catalogue[p].volumes
        \in Seq({Catalogue[p].volumes[i] : i \in DOMAIN Catalogue[p].volumes})
  BY TablesAssumption DEF Clouds
<1>2. /\ Len(Catalogue[p].volumes) \in Nat
      /\ DOMAIN Catalogue[p].volumes = 1..Len(Catalogue[p].volumes)
  BY <1>1, LenProperties
<1> QED BY <1>2

(* Every type of volume has a smallest size, and the default type is one.  *)
LEMMA VolumeFound ==
  ASSUME NEW p \in Clouds, NEW type \in Volumes(p)
  PROVE  \E i \in DOMAIN Catalogue[p].volumes :
           /\ Catalogue[p].volumes[i].type = type
           /\ SmallestSize(p, type) = Catalogue[p].volumes[i].min
           /\ SmallestSize(p, type) \in Nat
<1> DEFINE volumes == Catalogue[p].volumes
           of == {i \in DOMAIN volumes : volumes[i].type = type}
<1>1. Deployment(p).volumes = volumes
  BY DEF Deployment
<1>2. of # {}
  BY <1>1 DEF Volumes, Rows
<1>3. DOMAIN volumes \subseteq Nat
  BY VolumeRows
<1>4. Min(of) \in of
  BY <1>2, <1>3, MinIsSmallest
<1>5. Volume(p, type) = volumes[Min(of)]
  BY <1>1, <1>2 DEF Volume, Found
<1>6. volumes[Min(of)] # None /\ volumes[Min(of)].min \in Nat
  BY <1>4, TablesAssumption DEF Clouds
<1> QED BY <1>4, <1>5, <1>6 DEF SmallestSize

(* The size a click on a provider sets is large enough for its volume.     *)
LEMMA DefaultFits ==
  ASSUME NEW p \in Clouds
  PROVE  /\ DefaultVolumeType(p) \in Volumes(p)
         /\ DefaultSize(p) \in Nat /\ DefaultSize(p) >= SmallestSize(p, DefaultVolumeType(p))
<1> DEFINE volumes == Catalogue[p].volumes
           of == {i \in DOMAIN volumes : volumes[i].default}
<1>1. Deployment(p).volumes = volumes
  BY DEF Deployment
<1>2. of # {}
  BY TablesAssumption DEF Clouds
<1>3. DOMAIN volumes \subseteq Nat
  BY VolumeRows
<1>4. Min(of) \in of
  BY <1>2, <1>3, MinIsSmallest
<1>5. DefaultVolume(p) = volumes[Min(of)]
  BY <1>1, <1>2 DEF DefaultVolume, Found
<1>6. volumes[Min(of)] # None /\ volumes[Min(of)].min \in Nat
  BY <1>4, TablesAssumption DEF Clouds
<1>7. DefaultVolumeType(p) = volumes[Min(of)].type /\ DefaultVolumeType(p) \in Volumes(p)
  BY <1>1, <1>4, <1>5, <1>6 DEF DefaultVolumeType, Volumes, Rows
<1>8. SmallestSize(p, DefaultVolumeType(p)) = volumes[Min(of)].min
  <2>1. PICK i \in DOMAIN volumes : /\ volumes[i].type = DefaultVolumeType(p)
                                    /\ SmallestSize(p, DefaultVolumeType(p)) = volumes[i].min
    BY <1>7, VolumeFound
  <2>2. i = Min(of)
    BY <1>4, <1>7, <2>1, TablesAssumption DEF Clouds
  <2> QED BY <2>1, <2>2
<1> HIDE DEF of, volumes
<1> QED BY <1>5, <1>6, <1>7, <1>8 DEF DefaultSize

-----------------------------------------------------------------------------
(***************************************************************************)
(* What is on the page.                                                    *)
(***************************************************************************)

(* The fields that depend on one another. *)
Fields ==
  {"creationType", "version", "provider", "region", "datacenter", "instanceType", "instance",
   "storage", "volume", "auth", "defined", "secret", "servers", "balancers", "dcsType",
   "dcsHosts", "dataDir", "databases", "names", "extensions", "method", "config"}

HasFields(v) == Fields \subseteq DOMAIN v

(* There is a first server; the lists the expert mode starts with a row    *)
(* keep one (x is the expert flag, l the flag the form was loaded with).   *)
ServersInv(v, l) ==
  /\ Numbered(v.servers) /\ Len(v.servers) >= 1
  /\ l => /\ Numbered(v.dcsHosts) /\ v.dcsType \in {"etcd", "consul"}
          /\ Numbered(v.balancers) /\ Len(v.balancers) >= 1

(* The directory is that of the version, or typed. *)
DirectoryInv(v, x) == x /\ v.provider = "local" => v.dataDir \in {v.version, "typed"}

(* The configuration is typed for the method, or the default. *)
ConfigInv(v, k) == v.config \in {None, "", "junk", v.method, k.config}

(* Everything chosen for a cloud is that cloud's. *)
CloudInv(v) ==
  /\ v.provider \in Clouds \cup {"local"}
  /\ v.provider \in Clouds =>
       /\ v.region \in Codes(v.provider)
       /\ v.datacenter \in Rows(Region(v.provider, v.region).datacenters)
       /\ v.instanceType = "small" => v.instance \in Instances(v.provider)
       /\ v.volume \in Volumes(v.provider)
       /\ v.storage \in Nat /\ v.storage >= SmallestSize(v.provider, v.volume)

(* The names are those of the databases, which have ids of their own, and  *)
(* the ids have a bound.                                                   *)
NamesInv(v) ==
  /\ Numbered(v.databases)
  /\ \A i \in DOMAIN v.databases :
       {"id", "name"} \subseteq DOMAIN v.databases[i] /\ v.databases[i].id \in Nat
  /\ \A i, j \in DOMAIN v.databases : v.databases[i].id = v.databases[j].id => i = j
  /\ DOMAIN v.names = {v.databases[i].id : i \in DOMAIN v.databases}
  /\ \A i \in DOMAIN v.databases : v.names[v.databases[i].id] = v.databases[i].name

IdsBounded(v) ==
  \E bound \in Nat : /\ \A n \in DOMAIN v.names : n <= bound
                     /\ \A e \in DOMAIN Extensions : \A n \in v.extensions[e] : n <= bound

DatabasesInv(v, x, l) ==
  /\ v.extensions # None => DOMAIN v.extensions = DOMAIN Extensions
  /\ l => v.extensions \in [DOMAIN Extensions -> SUBSET Nat]
  /\ x /\ l => NamesInv(v) /\ IdsBounded(v)

(* What is selected in a selector that is shown exists. *)
SelectedInv(v, x, hidden) ==
  x /\ v.extensions # None =>
    \A e \in ShownAt(v.version, hidden) : v.extensions[e] \subseteq DOMAIN v.names

PageInv(v, k, x, l) ==
  /\ HasFields(v) /\ v.auth \in {"ssh_key", "password"}
  /\ ServersInv(v, l) /\ DirectoryInv(v, x) /\ ConfigInv(v, k) /\ CloudInv(v)
  /\ DatabasesInv(v, x, l)

(* w has the fields of v, and differs from it in those of a set at most.   *)
Changes(v, w, set) == HasFields(w) /\ \A f \in Fields \ set : w[f] = v[f]

-----------------------------------------------------------------------------
(* The effects of the blocks.                                              *)

(* StorageBlock *)
LEMMA StorageEffectsChange ==
  ASSUME NEW v, HasFields(v), NEW mounts
  PROVE  LET w == StorageEffects(v, mounts)
             volume == DefaultVolumeType(v.provider) IN
         /\ Changes(v, w, {"volume", "storage"}) /\ w.volume = volume
         /\ w.storage = IF mounts \/ volume # v.volume THEN SmallestSize(v.provider, volume)
                        ELSE v.storage
  BY DEF StorageEffects, Changes, HasFields, Fields

(* BackupsBlock: whether there are backups is no field of the above. *)
LEMMA BackupsEffectChange ==
  ASSUME NEW v, HasFields(v) PROVE Changes(v, BackupsEffect(v), {})
  BY DEF BackupsEffect, Changes, HasFields, Fields

(* DataDirectoryBlock *)
LEMMA DataDirectoryChange ==
  ASSUME NEW v, HasFields(v)
  PROVE  /\ Changes(v, DataDirectoryEffect(v), {"dataDir"})
         /\ expert /\ v.provider = "local" => DataDirectoryEffect(v).dataDir = v.version
         /\ ~(expert /\ v.provider = "local") => DataDirectoryEffect(v).dataDir = v.dataDir
  BY DEF DataDirectoryEffect, ExpertShown, Changes, HasFields, Fields

(* ConnectionPoolBox *)
LEMMA PoolBoxesChange ==
  ASSUME NEW v, HasFields(v) PROVE Changes(v, PoolBoxesMount(v), {})
  BY DEF PoolBoxesMount, Changes, HasFields, Fields
LEMMA PoolBoxChange ==
  ASSUME NEW v, HasFields(v), NEW i PROVE Changes(v, PoolBoxMounts(v, i), {})
  BY DEF PoolBoxMounts, Changes, HasFields, Fields

(* ExtensionSelector *)
LEMMA SelectorsChange ==
  ASSUME NEW v, HasFields(v), NEW selectors
  PROVE  LET w == SelectorsIntersect(v, selectors) IN
         /\ Changes(v, w, {"extensions"})
         /\ (v.extensions = None \/ ~expert) => w.extensions = v.extensions
         /\ ~(v.extensions = None \/ ~expert) =>
              w.extensions = [e \in DOMAIN v.extensions |->
                                IF e \in selectors THEN v.extensions[e] \cap DOMAIN v.names
                                ELSE v.extensions[e]]
  BY DEF SelectorsIntersect, ExpertShown, Changes, HasFields, Fields

(* DatabaseBox: a box that mounts enters its database's name. *)
LEMMA DatabaseBoxChange ==
  ASSUME NEW v, HasFields(v), NamesInv(v), NEW i \in DOMAIN v.databases
  PROVE  LET w == DatabaseBoxMounts(v, i) IN
         /\ Changes(v, w, {"databases", "names"}) /\ NamesInv(w)
         /\ w.extensions = v.extensions /\ DOMAIN w.names = DOMAIN v.names
<1> DEFINE w == DatabaseBoxMounts(v, i)
           d == [v.databases EXCEPT ![i].user = v.databases[i].name]
           id == v.databases[i].id
           n == [x \in {id} |-> v.databases[i].name] ++ v.names
<1>1. /\ Changes(v, w, {"databases", "names"}) /\ w.extensions = v.extensions
      /\ w.databases = d /\ w.names = n
  BY DEF DatabaseBoxMounts, Changes, HasFields, Fields
<1>2. Numbered(d) /\ DOMAIN d = DOMAIN v.databases
  <2>1. d = [v.databases EXCEPT ![i] = [v.databases[i] EXCEPT !.user = v.databases[i].name]]
    OBVIOUS
  <2> QED BY <2>1, ListEdited DEF NamesInv
<1>3. \A j \in DOMAIN d : /\ {"id", "name"} \subseteq DOMAIN d[j]
                          /\ d[j].id = v.databases[j].id /\ d[j].name = v.databases[j].name
  BY DEF NamesInv
<1>4. id \in DOMAIN v.names
  BY DEF NamesInv
<1>5. DOMAIN n = DOMAIN v.names /\ \A x \in DOMAIN n : n[x] = v.names[x]
  BY <1>4 DEF ++, NamesInv
<1> HIDE DEF w, d, n, id
<1>6. NamesInv(w)
  BY <1>1, <1>2, <1>3, <1>5 DEF NamesInv
<1> QED BY <1>1, <1>5, <1>6 DEF w

(* All the boxes mount at once. *)
LEMMA DatabaseBoxesChange ==
  ASSUME NEW v, HasFields(v)
  PROVE  LET w == DatabaseBoxesMount(v) IN
         /\ Changes(v, w, {"databases", "names"})
         /\ w.extensions = v.extensions
         /\ NamesInv(v) => NamesInv(w) /\ DOMAIN w.names = DOMAIN v.names
         /\ expert => DOMAIN v.names \subseteq DOMAIN w.names
         /\ ~expert => w = v
<1> DEFINE last == DatabaseBoxMounts(v, Len(v.databases))
           w == DatabaseBoxesMount(v)
<1>1. CASE Boxes(v) = {}
  BY <1>1 DEF DatabaseBoxesMount, Changes, Boxes
<1>2. CASE Boxes(v) # {}
  <2>0. expert
    BY <1>2 DEF Boxes, ExpertShown
  <2>1. Changes(v, last, {"databases", "names"}) /\ last.extensions = v.extensions
        /\ last.names = [x \in {v.databases[Len(v.databases)].id} |->
                           v.databases[Len(v.databases)].name] ++ v.names
    BY DEF DatabaseBoxMounts, Changes, HasFields, Fields
  <2>2. /\ w = [last EXCEPT !.databases =
                  [i \in DOMAIN last.databases |->
                     [last.databases[i] EXCEPT !.user = v.databases[i].name]]]
    BY <1>2 DEF DatabaseBoxesMount
  <2> HIDE DEF last, w
  <2>3. /\ Changes(v, w, {"databases", "names"}) /\ w.extensions = v.extensions
        /\ w.names = last.names
        /\ w.databases = [i \in DOMAIN last.databases |->
                     [last.databases[i] EXCEPT !.user = v.databases[i].name]]
    BY <2>1, <2>2 DEF Changes, HasFields, Fields
  <2>4. NamesInv(v) => NamesInv(w) /\ DOMAIN w.names = DOMAIN v.names
    <3> SUFFICES ASSUME NamesInv(v) PROVE NamesInv(w) /\ DOMAIN w.names = DOMAIN v.names
      OBVIOUS
    <3>1. Len(v.databases) \in DOMAIN v.databases
      <4>1. DOMAIN v.databases # {}
        BY <1>2 DEF Boxes
      <4> QED BY <4>1, Listed DEF NamesInv
    <3>2. NamesInv(last) /\ DOMAIN last.names = DOMAIN v.names
      BY <3>1, DatabaseBoxChange DEF last
    <3>3. /\ Numbered(w.databases) /\ DOMAIN w.databases = DOMAIN last.databases
      <4>1. Len(last.databases) \in Nat /\ DOMAIN last.databases = 1..Len(last.databases)
        BY <3>2, Listed DEF NamesInv
      <4>2. w.databases \in [1..Len(last.databases) -> {w.databases[i] : i \in DOMAIN w.databases}]
        BY <2>3, <4>1
      <4> QED BY <2>3, <4>1, <4>2, ListFrom
    <3>4. \A i \in DOMAIN w.databases :
            /\ {"id", "name"} \subseteq DOMAIN w.databases[i]
            /\ w.databases[i].id = last.databases[i].id
            /\ w.databases[i].name = last.databases[i].name
      BY <2>3, <3>2 DEF NamesInv
    <3>5. {w.databases[i].id : i \in DOMAIN w.databases}
            = {last.databases[i].id : i \in DOMAIN last.databases}
      BY <3>3, <3>4
    <3>6. \A i \in DOMAIN w.databases :
            w.databases[i].id \in Nat /\ w.names[w.databases[i].id] = w.databases[i].name
      BY <2>3, <3>2, <3>3, <3>4 DEF NamesInv
    <3>7. \A i, j \in DOMAIN w.databases : w.databases[i].id = w.databases[j].id => i = j
      BY <3>2, <3>3, <3>4 DEF NamesInv
    <3>8. DOMAIN w.names = {w.databases[i].id : i \in DOMAIN w.databases}
      BY <2>3, <3>2, <3>5 DEF NamesInv
    <3>9. NamesInv(w)
      BY <3>3, <3>4, <3>6, <3>7, <3>8 DEF NamesInv
    <3> QED BY <2>3, <3>2, <3>9
  <2>5. DOMAIN v.names \subseteq DOMAIN w.names
    <3> DEFINE n == [x \in {v.databases[Len(v.databases)].id} |->
                       v.databases[Len(v.databases)].name]
    <3>1. w.names = n ++ v.names
      BY <2>1, <2>3
    <3> HIDE DEF n
    <3> QED BY <3>1 DEF ++
  <2> QED BY <2>0, <2>3, <2>4, <2>5 DEF w
<1> QED BY <1>1, <1>2

-----------------------------------------------------------------------------
(* What no block has changed still fits.                                   *)

ServersFields == {"servers", "dcsType", "dcsHosts", "balancers"}
DirectoryFields == {"version", "provider", "dataDir"}
ConfigFields == {"method", "config"}
CloudFields ==
  {"provider", "region", "datacenter", "instanceType", "instance", "volume", "storage"}
DatabasesFields == {"databases", "names", "extensions"}

LEMMA PageKept ==
  ASSUME NEW v, NEW k, NEW x, NEW l, PageInv(v, k, x, l), NEW w, NEW set, Changes(v, w, set)
  PROVE  /\ HasFields(w)
         /\ "auth" \notin set => w.auth \in {"ssh_key", "password"}
         /\ (\A f \in ServersFields : f \notin set) => ServersInv(w, l)
         /\ (\A f \in DirectoryFields : f \notin set) => DirectoryInv(w, x)
         /\ (\A f \in ConfigFields : f \notin set) => ConfigInv(w, k)
         /\ (\A f \in CloudFields : f \notin set) => CloudInv(w)
         /\ (\A f \in DatabasesFields : f \notin set) => DatabasesInv(w, x, l)
<1>1. HasFields(w) /\ \A f \in Fields : f \notin set => w[f] = v[f]
  BY DEF Changes
<1>2. "auth" \notin set => w.auth \in {"ssh_key", "password"}
  BY <1>1 DEF PageInv, Fields
<1>3. (\A f \in ServersFields : f \notin set) => ServersInv(w, l)
  <2> SUFFICES ASSUME \A f \in ServersFields : f \notin set PROVE ServersInv(w, l)
    OBVIOUS
  <2>1. /\ w.servers = v.servers /\ w.dcsType = v.dcsType /\ w.dcsHosts = v.dcsHosts
        /\ w.balancers = v.balancers
    BY <1>1 DEF ServersFields, Fields
  <2> QED BY <2>1 DEF PageInv, ServersInv
<1>4. (\A f \in DirectoryFields : f \notin set) => DirectoryInv(w, x)
  <2> SUFFICES ASSUME \A f \in DirectoryFields : f \notin set PROVE DirectoryInv(w, x)
    OBVIOUS
  <2>1. w.version = v.version /\ w.provider = v.provider /\ w.dataDir = v.dataDir
    BY <1>1 DEF DirectoryFields, Fields
  <2> QED BY <2>1 DEF PageInv, DirectoryInv
<1>5. (\A f \in ConfigFields : f \notin set) => ConfigInv(w, k)
  <2> SUFFICES ASSUME \A f \in ConfigFields : f \notin set PROVE ConfigInv(w, k)
    OBVIOUS
  <2>1. w.method = v.method /\ w.config = v.config
    BY <1>1 DEF ConfigFields, Fields
  <2> QED BY <2>1 DEF PageInv, ConfigInv
<1>6. (\A f \in CloudFields : f \notin set) => CloudInv(w)
  <2> SUFFICES ASSUME \A f \in CloudFields : f \notin set PROVE CloudInv(w)
    OBVIOUS
  <2>1. /\ w.provider = v.provider /\ w.region = v.region /\ w.datacenter = v.datacenter
        /\ w.instanceType = v.instanceType /\ w.instance = v.instance
        /\ w.volume = v.volume /\ w.storage = v.storage
    BY <1>1 DEF CloudFields, Fields
  <2> QED BY <2>1 DEF PageInv, CloudInv
<1>7. (\A f \in DatabasesFields : f \notin set) => DatabasesInv(w, x, l)
  <2> SUFFICES ASSUME \A f \in DatabasesFields : f \notin set PROVE DatabasesInv(w, x, l)
    OBVIOUS
  <2>1. w.databases = v.databases /\ w.names = v.names /\ w.extensions = v.extensions
    BY <1>1 DEF DatabasesFields, Fields
  <2> QED BY <2>1 DEF PageInv, DatabasesInv, NamesInv, IdsBounded
<1> QED BY <1>1, <1>2, <1>3, <1>4, <1>5, <1>6, <1>7

(* Edits of one group of fields. *)
LEMMA OtherFieldsKept ==
  ASSUME NEW v, NEW k, NEW x, NEW l, PageInv(v, k, x, l), NEW w, Changes(v, w, {"defined", "secret"})
  PROVE  PageInv(w, k, x, l)
  BY PageKept DEF PageInv, ServersFields, DirectoryFields, ConfigFields, CloudFields, DatabasesFields

LEMMA DatabasesEdited ==
  ASSUME NEW v, NEW k, NEW x, NEW l, PageInv(v, k, x, l), NEW w,
         Changes(v, w, DatabasesFields), DatabasesInv(w, x, l)
  PROVE  PageInv(w, k, x, l)
  BY PageKept DEF PageInv, ServersFields, DirectoryFields, ConfigFields, CloudFields, DatabasesFields

LEMMA ServersEdited ==
  ASSUME NEW v, NEW k, NEW x, NEW l, PageInv(v, k, x, l), NEW w,
         Changes(v, w, ServersFields), ServersInv(w, l)
  PROVE  PageInv(w, k, x, l)
  BY PageKept DEF PageInv, ServersFields, DirectoryFields, ConfigFields, CloudFields, DatabasesFields

LEMMA CloudEdited ==
  ASSUME NEW v, NEW k, NEW x, NEW l, PageInv(v, k, x, l), NEW w,
         Changes(v, w, CloudFields \ {"provider"}), CloudInv(w)
  PROVE  PageInv(w, k, x, l)
  BY PageKept DEF PageInv, ServersFields, DirectoryFields, ConfigFields, CloudFields, DatabasesFields

LEMMA ConfigEdited ==
  ASSUME NEW v, NEW k, NEW x, NEW l, PageInv(v, k, x, l), NEW w,
         Changes(v, w, ConfigFields), ConfigInv(w, k)
  PROVE  PageInv(w, k, x, l)
  BY PageKept DEF PageInv, ServersFields, DirectoryFields, ConfigFields, CloudFields, DatabasesFields

LEMMA DirectoryEdited ==
  ASSUME NEW v, NEW k, NEW x, NEW l, PageInv(v, k, x, l), NEW w,
         Changes(v, w, {"version", "dataDir"}), DirectoryInv(w, x)
  PROVE  PageInv(w, k, x, l)
  BY PageKept DEF PageInv, ServersFields, DirectoryFields, ConfigFields, CloudFields, DatabasesFields

(* Edits within a group, and one after the other. *)
LEMMA ChangesWithin ==
  ASSUME NEW v, NEW w, NEW some, NEW more, Changes(v, w, some), \A f \in some : f \in more
  PROVE  Changes(v, w, more)
  BY DEF Changes

LEMMA ChangesTwice ==
  ASSUME NEW u, NEW v, NEW w, NEW some, NEW others, NEW both, Changes(u, v, some), Changes(v, w, others),
         \A f \in some : f \in both, \A f \in others : f \in both
  PROVE  Changes(u, w, both)
  BY DEF Changes

(* What is selected is untouched. *)
LEMMA SelectedKept ==
  ASSUME NEW v, NEW x, NEW hidden, SelectedInv(v, x, hidden), NEW w, NEW set, Changes(v, w, set),
         \A f \in {"version", "extensions", "names"} : f \notin set
  PROVE  SelectedInv(w, x, hidden)
<1>1. w.version = v.version /\ w.extensions = v.extensions /\ w.names = v.names
  BY DEF Changes, Fields
<1> QED BY <1>1 DEF SelectedInv

(* The selectors that are told drop what is gone, and what is on the page  *)
(* still fits.                                                             *)
LEMMA SelectorsKeep ==
  ASSUME NEW v, NEW k, PageInv(v, k, expert, loaded), NEW selectors
  PROVE  LET w == SelectorsIntersect(v, selectors) IN
         /\ PageInv(w, k, expert, loaded) /\ w.creationType = v.creationType
         /\ w.secret = v.secret /\ w.provider = v.provider /\ w.config = v.config
         /\ \A hidden :
              (\A e \in ShownAt(v.version, hidden) \ selectors :
                 expert /\ v.extensions # None => v.extensions[e] \subseteq DOMAIN v.names)
              => SelectedInv(w, expert, hidden)
<1> DEFINE w == SelectorsIntersect(v, selectors)
<1>1. /\ HasFields(v) /\ Changes(v, w, {"extensions"})
      /\ (v.extensions = None \/ ~expert) => w.extensions = v.extensions
      /\ ~(v.extensions = None \/ ~expert) =>
           w.extensions = [e \in DOMAIN v.extensions |->
                             IF e \in selectors THEN v.extensions[e] \cap DOMAIN v.names
                             ELSE v.extensions[e]]
  BY SelectorsChange DEF PageInv
<1> HIDE DEF w
<1>2. /\ HasFields(w)
      /\ \A f \in Fields \ {"extensions"} : w[f] = v[f]
  BY <1>1 DEF Changes
<1>3. /\ w.auth = v.auth /\ w.servers = v.servers /\ w.balancers = v.balancers
      /\ w.dcsType = v.dcsType /\ w.dcsHosts = v.dcsHosts /\ w.provider = v.provider
      /\ w.dataDir = v.dataDir /\ w.version = v.version /\ w.config = v.config
      /\ w.method = v.method /\ w.region = v.region /\ w.datacenter = v.datacenter
      /\ w.instanceType = v.instanceType /\ w.instance = v.instance /\ w.volume = v.volume
      /\ w.storage = v.storage /\ w.databases = v.databases /\ w.names = v.names
      /\ w.secret = v.secret /\ w.creationType = v.creationType
  BY <1>2 DEF Fields
<1>4. DatabasesInv(w, expert, loaded)
  <2>1. DatabasesInv(v, expert, loaded)
    BY DEF PageInv
  <2>2. w.extensions # None => DOMAIN w.extensions = DOMAIN Extensions
    BY <1>1, <2>1 DEF DatabasesInv
  <2>3. loaded => /\ w.extensions \in [DOMAIN Extensions -> SUBSET Nat]
                  /\ \A e \in DOMAIN Extensions : w.extensions[e] \subseteq v.extensions[e]
    BY <1>1, <2>1 DEF DatabasesInv
  <2>4. expert /\ loaded => NamesInv(w)
    BY <1>3, <2>1 DEF DatabasesInv, NamesInv
  <2>5. expert /\ loaded => IdsBounded(w)
    <3> SUFFICES ASSUME expert, loaded PROVE IdsBounded(w)
      OBVIOUS
    <3>1. PICK bound \in Nat :
            /\ \A n \in DOMAIN v.names : n <= bound
            /\ \A e \in DOMAIN Extensions : \A n \in v.extensions[e] : n <= bound
      BY <2>1 DEF DatabasesInv, IdsBounded
    <3> QED BY <1>3, <2>3, <3>1 DEF IdsBounded
  <2> QED BY <2>2, <2>3, <2>4, <2>5 DEF DatabasesInv
<1>5. PageInv(w, k, expert, loaded)
  <2>1. Changes(v, w, DatabasesFields)
    BY <1>1, ChangesWithin DEF DatabasesFields
  <2> QED BY <1>4, <2>1, DatabasesEdited
<1>6. ASSUME NEW hidden,
             \A e \in ShownAt(v.version, hidden) \ selectors :
               expert /\ v.extensions # None => v.extensions[e] \subseteq DOMAIN v.names
      PROVE  SelectedInv(w, expert, hidden)
  <2>1. ShownAt(v.version, hidden) \subseteq DOMAIN Extensions
    BY DEF ShownAt
  <2>2. v.extensions # None => DOMAIN v.extensions = DOMAIN Extensions
    BY DEF PageInv, DatabasesInv
  <2> QED BY <1>1, <1>3, <1>6, <2>1, <2>2 DEF SelectedInv
<1> QED BY <1>3, <1>5, <1>6 DEF w

(* A new number is no database's.                                          *)
LEMMA NextIdIsNew ==
  ASSUME NamesInv(values), IdsBounded(values), values.extensions # None,
         DOMAIN values.extensions = DOMAIN Extensions,
         values.extensions \in [DOMAIN Extensions -> SUBSET Nat]
  PROVE  /\ NextDatabaseId \in Nat /\ NextDatabaseId \notin DOMAIN values.names
         /\ \A n \in DOMAIN values.names : n <= NextDatabaseId
         /\ \A e \in DOMAIN Extensions : \A n \in values.extensions[e] : n <= NextDatabaseId
<1> DEFINE ids == {0} \cup DOMAIN values.names \cup {d.id : d \in Rows(values.databases)}
                  \cup UNION {values.extensions[e] : e \in DOMAIN values.extensions}
<1>1. NextDatabaseId = 1 + Max(ids)
  BY DEF NextDatabaseId
<1>2. /\ {d.id : d \in Rows(values.databases)} = DOMAIN values.names
      /\ DOMAIN values.names \subseteq Nat
  BY DEF NamesInv, Rows
<1>3. PICK bound \in Nat :
        /\ \A n \in DOMAIN values.names : n <= bound
        /\ \A e \in DOMAIN Extensions : \A n \in values.extensions[e] : n <= bound
  BY DEF IdsBounded
<1>4. ids \subseteq Nat /\ ids # {} /\ \A n \in ids : n <= bound
  BY <1>2, <1>3
<1>5. 1 + Max(ids) \in Nat /\ \A n \in ids : n < 1 + Max(ids)
  BY <1>4, MaxIsGreatest
<1>6. /\ DOMAIN values.names \subseteq ids
      /\ \A e \in DOMAIN Extensions : values.extensions[e] \subseteq ids
  OBVIOUS
<1> HIDE DEF ids
<1>7. NextDatabaseId \in Nat /\ \A n \in ids : n < NextDatabaseId
  BY <1>1, <1>5
<1>8. PICK next \in Nat : next = NextDatabaseId /\ \A n \in ids : n < next
  BY <1>7
<1>9. next \notin DOMAIN values.names /\ \A n \in ids : n <= next
  BY <1>4, <1>6, <1>8
<1> QED BY <1>6, <1>8, <1>9

(* DatabaseBlock: a database is added, with a number of its own. *)
LEMMA AppendedFits ==
  ASSUME PageInv(values, kept, expert, loaded), expert
  PROVE  LET w == DatabaseAppended(values, boxes.number, NextDatabaseId) IN
         PageInv(w, kept, expert, loaded) /\ Changes(values, w, {"databases", "names"})
<1> DEFINE id == NextDatabaseId
           name == "db" \o ToString(boxes.number)
           row == [id |-> id, name |-> name, user |-> name]
           n == Len(values.databases) + 1
           v == [values EXCEPT !.databases = Append(values.databases, row)]
           w == DatabaseBoxMounts(v, n)
<1>1. w = DatabaseAppended(values, boxes.number, id)
  BY DEF DatabaseAppended, Appended
<1>2. /\ Changes(values, w, {"databases", "names"})
      /\ w.databases = [v.databases EXCEPT ![n].user = v.databases[n].name]
      /\ w.names = [x \in {v.databases[n].id} |-> v.databases[n].name] ++ values.names
      /\ v.databases = Append(values.databases, row)
  BY DEF DatabaseBoxMounts, PageInv, Changes, HasFields, Fields
<1>20. Changes(values, w, DatabasesFields)
  BY <1>2, ChangesWithin DEF DatabasesFields
<1> HIDE DEF w
<1>3. /\ row.id = id /\ row.name = name /\ {"id", "name"} \subseteq DOMAIN row
  OBVIOUS
<1>4. CASE ~loaded
  <2>1. DatabasesInv(w, expert, loaded)
    BY <1>2, <1>4 DEF Changes, Fields, DatabasesInv, PageInv
  <2> QED BY <1>1, <1>2, <1>20, <2>1, DatabasesEdited
<1>5. CASE loaded
  <2>1. /\ NamesInv(values) /\ IdsBounded(values)
        /\ values.extensions \in [DOMAIN Extensions -> SUBSET Nat]
    BY <1>5 DEF PageInv, DatabasesInv
  <2>2. values.extensions # None
    BY <2>1, BoundsAssumption
  <2>3. /\ id \in Nat /\ id \notin DOMAIN values.names
        /\ \A m \in DOMAIN values.names : m <= id
        /\ \A e \in DOMAIN Extensions : \A m \in values.extensions[e] : m <= id
    BY <2>1, <2>2, NextIdIsNew
  <2> HIDE DEF id, name, row
  <2>4. /\ Len(values.databases) \in Nat
        /\ DOMAIN values.databases = 1..Len(values.databases)
    BY <2>1, Listed DEF NamesInv
  <2>5. /\ Numbered(v.databases) /\ DOMAIN v.databases = 1..n
        /\ \A i \in DOMAIN values.databases : v.databases[i] = values.databases[i]
        /\ v.databases[n] = row
    <3>1. /\ Numbered(v.databases) /\ Len(v.databases) = n
          /\ \A i \in 1..Len(values.databases) : v.databases[i] = values.databases[i]
          /\ v.databases[n] = row
      BY <1>2, <2>1, ListAppended DEF NamesInv
    <3> QED BY <2>4, <3>1, Listed
  <2>6. /\ v.names = values.names /\ v.extensions = values.extensions /\ HasFields(v)
    BY DEF PageInv, HasFields, Fields
  <2> HIDE DEF v, n
  <2>7. Numbered(w.databases) /\ DOMAIN w.databases = 1..n
    <3> DEFINE d == v.databases
               edited == [d[n] EXCEPT !.user = d[n].name]
    <3>1. w.databases = [d EXCEPT ![n] = edited]
      BY <1>2
    <3>2. Numbered(d) /\ DOMAIN d = 1..n
      BY <2>5
    <3> HIDE DEF d, edited
    <3>3. Numbered([d EXCEPT ![n] = edited]) /\ DOMAIN [d EXCEPT ![n] = edited] = DOMAIN d
      BY <3>2, ListEdited
    <3> QED BY <3>1, <3>2, <3>3
  <2>8. \A i \in DOMAIN values.databases : i \in 1..n /\ w.databases[i] = values.databases[i]
    <3>1. \A i \in DOMAIN values.databases : i \in 1..n /\ i # n
      BY <2>4 DEF n
    <3> DEFINE c == v.databases
               owned == [c[n] EXCEPT !.user = c[n].name]
    <3>2. w.databases = [c EXCEPT ![n] = owned] /\ \A i \in 1..n : i \in DOMAIN c
      BY <1>2, <2>5
    <3>3. \A i \in DOMAIN values.databases : c[i] = values.databases[i]
      BY <2>5
    <3> HIDE DEF c, owned
    <3> QED BY <3>1, <3>2, <3>3
  <2>9. /\ w.databases[n].id = id /\ w.databases[n].name = name
        /\ {"id", "name"} \subseteq DOMAIN w.databases[n] /\ n \in 1..n
        /\ \A i \in 1..n : i = n \/ i \in DOMAIN values.databases
    BY <1>2, <1>3, <2>4, <2>5 DEF n
  <2>10. /\ DOMAIN w.names = DOMAIN values.names \cup {id}
         /\ w.names[id] = name
         /\ \A x \in DOMAIN values.names : w.names[x] = values.names[x]
    <3>1. w.names = [x \in {id} |-> name] ++ values.names
      BY <1>2, <1>3, <2>5
    <3> QED BY <2>3, <3>1 DEF ++
  <2>11. \A i \in 1..n : /\ {"id", "name"} \subseteq DOMAIN w.databases[i]
                         /\ w.databases[i].id \in Nat
                         /\ w.names[w.databases[i].id] = w.databases[i].name
    BY <2>1, <2>3, <2>8, <2>9, <2>10 DEF NamesInv
  <2>12. \A i, j \in 1..n : w.databases[i].id = w.databases[j].id => i = j
    BY <2>1, <2>3, <2>8, <2>9 DEF NamesInv
  <2>13. DOMAIN w.names = {w.databases[i].id : i \in 1..n}
    <3>1. \A i \in DOMAIN values.databases :
            /\ values.databases[i].id \in DOMAIN values.names
            /\ w.databases[i].id = values.databases[i].id
      BY <2>1, <2>8 DEF NamesInv
    <3>2. \A x \in DOMAIN values.names : \E i \in 1..n : x = w.databases[i].id
      BY <2>1, <2>8 DEF NamesInv
    <3> QED BY <2>9, <2>10, <3>1, <3>2
  <2>14. NamesInv(w)
    BY <2>7, <2>11, <2>12, <2>13 DEF NamesInv
  <2>15. w.extensions = values.extensions
    BY <1>2 DEF Changes, Fields
  <2>16. IdsBounded(w)
    BY <2>3, <2>10, <2>15 DEF IdsBounded
  <2>17. DatabasesInv(w, expert, loaded)
    BY <2>14, <2>15, <2>16 DEF DatabasesInv, PageInv
  <2>18. PageInv(w, kept, expert, loaded)
    BY <1>20, <2>17, DatabasesEdited
  <2> QED BY <1>1, <1>2, <2>18 DEF id
<1> QED BY <1>4, <1>5, <1>1

(* DatabaseBox: a database is renamed. *)
LEMMA RenamedFits ==
  ASSUME PageInv(values, kept, expert, loaded), expert, NEW i \in DOMAIN values.databases,
         NEW name
  PROVE  LET w == DatabaseRenamed(values, i, name) IN
         PageInv(w, kept, expert, loaded) /\ Changes(values, w, {"databases", "names"})
<1> DEFINE v == [values EXCEPT !.databases[i].name = name]
           w == DatabaseBoxMounts(v, i)
<1>1. w = DatabaseRenamed(values, i, name)
  BY DEF DatabaseRenamed
<1>2. /\ Changes(values, w, {"databases", "names"})
      /\ w.databases = [v.databases EXCEPT ![i].user = v.databases[i].name]
      /\ w.names = [x \in {v.databases[i].id} |-> v.databases[i].name] ++ values.names
      /\ v.databases = [values.databases EXCEPT ![i].name = name]
  BY DEF DatabaseBoxMounts, PageInv, Changes, HasFields, Fields
<1> HIDE DEF v, w
<1>20. Changes(values, w, DatabasesFields)
  BY <1>2, ChangesWithin DEF DatabasesFields
<1>3. w.extensions = values.extensions
  BY <1>2 DEF Changes, Fields
<1>4. DatabasesInv(w, expert, loaded)
  <2>1. CASE ~loaded
    BY <1>3, <2>1 DEF DatabasesInv, PageInv
  <2>2. CASE loaded
    <3> DEFINE id == values.databases[i].id
    <3>1. NamesInv(values) /\ IdsBounded(values)
      BY <2>2 DEF PageInv, DatabasesInv
    <3>2. Numbered(w.databases) /\ DOMAIN w.databases = DOMAIN values.databases
      <4> DEFINE d == values.databases
                 named == [d[i] EXCEPT !.name = name]
                 c == v.databases
                 owned == [c[i] EXCEPT !.user = c[i].name]
      <4>1. c = [d EXCEPT ![i] = named] /\ w.databases = [c EXCEPT ![i] = owned]
        BY <1>2
      <4>2. Numbered(d)
        BY <3>1 DEF NamesInv
      <4>3. DOMAIN w.databases = DOMAIN d => DOMAIN w.databases = DOMAIN values.databases
        OBVIOUS
      <4> HIDE DEF d, named, owned
      <4>4. Numbered(c) /\ DOMAIN c = DOMAIN d
        <5>1. Numbered([d EXCEPT ![i] = named])
              /\ DOMAIN [d EXCEPT ![i] = named] = DOMAIN d
          BY <4>2, ListEdited
        <5> QED BY <4>1, <5>1, Zenon
      <4> HIDE DEF c
      <4>5. Numbered([c EXCEPT ![i] = owned]) /\ DOMAIN [c EXCEPT ![i] = owned] = DOMAIN c
        BY <4>4, ListEdited
      <4>6. Numbered(w.databases) /\ DOMAIN w.databases = DOMAIN c
        BY <4>1, <4>5, Zenon
      <4> QED BY <4>3, <4>4, <4>6
    <3>3. \A j \in DOMAIN values.databases \ {i} : w.databases[j] = values.databases[j]
      BY <1>2
    <3>4. /\ {"id", "name"} \subseteq DOMAIN w.databases[i]
          /\ w.databases[i].id = id /\ w.databases[i].name = name
          /\ v.databases[i].id = id /\ v.databases[i].name = name
      BY <1>2, <3>1 DEF NamesInv
    <3>5. id \in DOMAIN values.names
      BY <3>1 DEF NamesInv
    <3>6. /\ DOMAIN w.names = DOMAIN values.names /\ w.names[id] = name
          /\ \A x \in DOMAIN values.names \ {id} : w.names[x] = values.names[x]
      <4>1. w.names = [x \in {id} |-> name] ++ values.names
        BY <1>2, <3>4
      <4> HIDE DEF id
      <4> QED BY <3>5, <4>1 DEF ++
    <3>7. \A j \in DOMAIN values.databases : w.databases[j].id = values.databases[j].id
      BY <3>3, <3>4
    <3>8. \A j \in DOMAIN values.databases :
            /\ {"id", "name"} \subseteq DOMAIN w.databases[j] /\ w.databases[j].id \in Nat
            /\ w.names[w.databases[j].id] = w.databases[j].name
      <4> SUFFICES ASSUME NEW j \in DOMAIN values.databases
                   PROVE  /\ {"id", "name"} \subseteq DOMAIN w.databases[j]
                          /\ w.databases[j].id \in Nat
                          /\ w.names[w.databases[j].id] = w.databases[j].name
        OBVIOUS
      <4>1. CASE j = i
        BY <3>1, <3>4, <3>6, <4>1 DEF NamesInv
      <4>2. CASE j # i
        <5>1. values.databases[j].id \in DOMAIN values.names \ {id}
          BY <3>1, <4>2 DEF NamesInv
        <5> QED BY <3>1, <3>3, <3>6, <4>2, <5>1 DEF NamesInv
      <4> QED BY <4>1, <4>2
    <3>9. DOMAIN w.names = {w.databases[j].id : j \in DOMAIN w.databases}
      BY <3>1, <3>2, <3>6, <3>7 DEF NamesInv
    <3>10. \A j, m \in DOMAIN w.databases : w.databases[j].id = w.databases[m].id => j = m
      BY <3>1, <3>2, <3>7 DEF NamesInv
    <3>11. NamesInv(w)
      BY <3>2, <3>8, <3>9, <3>10 DEF NamesInv
    <3>12. IdsBounded(w)
      BY <1>3, <3>1, <3>6 DEF IdsBounded
    <3> QED BY <1>3, <3>11, <3>12 DEF DatabasesInv, PageInv
  <2> QED BY <2>1, <2>2 DEF PageInv
<1> QED BY <1>1, <1>2, <1>20, <1>4, DatabasesEdited

(* deleteItem: a database is deleted, but not the first. *)
LEMMA DeletedFits ==
  ASSUME PageInv(values, kept, expert, loaded), expert, NEW i \in DOMAIN values.databases,
         i > 1
  PROVE  LET w == DatabaseDeleted(values, i) IN
         PageInv(w, kept, expert, loaded) /\ Changes(values, w, {"databases", "names"})
<1> DEFINE d == values.databases
           id == d[i].id
           w == DatabaseDeleted(values, i)
<1>1. /\ Changes(values, w, {"databases", "names"})
      /\ w.databases = Without(d, i)
      /\ w.names = [n \in DOMAIN values.names \ {id} |-> values.names[n]]
  BY DEF DatabaseDeleted, Removed, PageInv, Changes, HasFields, Fields
<1> HIDE DEF w
<1>2. Changes(values, w, DatabasesFields) /\ w.extensions = values.extensions
  BY <1>1, ChangesWithin DEF DatabasesFields, Changes, Fields
<1>3. CASE ~loaded
  <2>1. DatabasesInv(w, expert, loaded)
    BY <1>2, <1>3 DEF DatabasesInv, PageInv
  <2> QED BY <1>1, <1>2, <2>1, DatabasesEdited DEF w
<1>4. CASE loaded
  <2>1. NamesInv(values) /\ IdsBounded(values)
    BY <1>4 DEF PageInv, DatabasesInv
  <2>2. /\ Len(d) \in Nat /\ DOMAIN d = 1..Len(d) /\ i \in DOMAIN d /\ i \in 2..Len(d)
    BY <2>1, Listed DEF NamesInv
  <2>3. /\ \A j \in DOMAIN d : {"id", "name"} \subseteq DOMAIN d[j] /\ d[j].id \in Nat
                               /\ values.names[d[j].id] = d[j].name
        /\ \A j, m \in DOMAIN d : d[j].id = d[m].id => j = m
        /\ DOMAIN values.names = {d[j].id : j \in DOMAIN d}
    BY <2>1 DEF NamesInv
  <2>4. /\ Numbered(w.databases) /\ DOMAIN w.databases = 1..(Len(d) - 1)
        /\ \A j \in 1..(Len(d) - 1) : w.databases[j] = IF j < i THEN d[j] ELSE d[j + 1]
    <3>1. Numbered(d)
      BY <2>1 DEF NamesInv
    <3> HIDE DEF d
    <3>2. /\ Numbered(Without(d, i)) /\ Len(Without(d, i)) = Len(d) - 1
          /\ \A j \in 1..(Len(d) - 1) : Without(d, i)[j] = IF j < i THEN d[j] ELSE d[j + 1]
      BY <2>2, <3>1, ListWithout
    <3>3. DOMAIN Without(d, i) = 1..Len(Without(d, i))
      BY <3>2, Listed
    <3> QED BY <1>1, <3>2, <3>3
  <2> DEFINE from == [j \in 1..(Len(d) - 1) |-> IF j < i THEN j ELSE j + 1]
  <2>17. DOMAIN w.names = DOMAIN values.names \ {id} /\ id = d[i].id
    BY <1>1
  <2> HIDE DEF d, id
  <2>5. \A j \in 1..(Len(d) - 1) : from[j] \in DOMAIN d /\ from[j] # i
    BY <2>2
  <2>6. \A j \in 1..(Len(d) - 1) : w.databases[j] = d[from[j]]
    BY <2>4
  <2>7. \A m \in DOMAIN d \ {i} : \E j \in 1..(Len(d) - 1) : from[j] = m
    <3> SUFFICES ASSUME NEW m \in DOMAIN d, m # i
                 PROVE  \E j \in 1..(Len(d) - 1) : from[j] = m
      OBVIOUS
    <3>1. CASE m < i
      <4>1. m \in 1..(Len(d) - 1) /\ from[m] = m
        BY <2>2, <3>1
      <4> QED BY <4>1
    <3>2. CASE m > i
      <4>1. m - 1 \in 1..(Len(d) - 1) /\ from[m - 1] = m
        BY <2>2, <3>2
      <4> QED BY <4>1
    <3> QED BY <2>2, <3>1, <3>2
  <2>8. \A j, m \in 1..(Len(d) - 1) : from[j] = from[m] => j = m
    BY <2>2
  <2> HIDE DEF from
  <2>9. \A j \in 1..(Len(d) - 1) : d[from[j]].id \in DOMAIN w.names
    <3>1. \A j \in 1..(Len(d) - 1) : d[from[j]].id # id
      BY <2>2, <2>3, <2>5 DEF id
    <3> QED BY <1>1, <2>3, <2>5, <3>1 DEF id, d
  <2>10. \A j \in DOMAIN w.databases :
           /\ {"id", "name"} \subseteq DOMAIN w.databases[j] /\ w.databases[j].id \in Nat
           /\ w.names[w.databases[j].id] = w.databases[j].name
    BY <1>1, <2>3, <2>4, <2>5, <2>6, <2>9
  <2>11. \A j, m \in DOMAIN w.databases : w.databases[j].id = w.databases[m].id => j = m
    <3> SUFFICES ASSUME NEW j \in 1..(Len(d) - 1), NEW m \in 1..(Len(d) - 1),
                        w.databases[j].id = w.databases[m].id
                 PROVE  j = m
      BY <2>4
    <3>1. d[from[j]].id = d[from[m]].id
      BY <2>6
    <3>2. from[j] = from[m]
      BY <2>3, <2>5, <3>1
    <3> QED BY <2>8, <3>2
  <2>12. DOMAIN w.names = {w.databases[j].id : j \in DOMAIN w.databases}
    <3>1. \A n \in DOMAIN w.names : \E j \in 1..(Len(d) - 1) : n = d[from[j]].id
      <4> SUFFICES ASSUME NEW n \in DOMAIN w.names
                   PROVE  \E j \in 1..(Len(d) - 1) : n = d[from[j]].id
        OBVIOUS
      <4>1. PICK m \in DOMAIN d : n = d[m].id
        BY <1>1, <2>3
      <4>2. m # i
        BY <2>17, <4>1
      <4> QED BY <2>7, <4>1, <4>2
    <3>2. \A n \in DOMAIN w.names : \E j \in DOMAIN w.databases : n = w.databases[j].id
      <4> SUFFICES ASSUME NEW n \in DOMAIN w.names
                   PROVE  \E j \in DOMAIN w.databases : n = w.databases[j].id
        OBVIOUS
      <4>1. PICK j \in 1..(Len(d) - 1) : n = d[from[j]].id
        BY <3>1
      <4> QED BY <2>4, <2>6, <4>1
    <3>3. \A j \in DOMAIN w.databases : w.databases[j].id \in DOMAIN w.names
      BY <2>4, <2>6, <2>9
    <3> QED BY <3>2, <3>3
  <2>13. NamesInv(w)
    BY <2>4, <2>10, <2>11, <2>12 DEF NamesInv
  <2>14. IdsBounded(w)
    BY <1>1, <1>2, <2>1 DEF IdsBounded
  <2>15. DatabasesInv(w, expert, loaded)
    BY <1>2, <2>13, <2>14 DEF DatabasesInv, PageInv
  <2>16. PageInv(w, kept, expert, loaded)
    BY <1>2, <2>15, DatabasesEdited
  <2> QED BY <1>1, <2>16 DEF w
<1> QED BY <1>3, <1>4

(* The boxes keep what was bounded. *)
LEMMA BoxesBound ==
  ASSUME NEW v, NEW w, IdsBounded(v), w.extensions = v.extensions,
         DOMAIN w.names = DOMAIN v.names
  PROVE  IdsBounded(w)
  BY DEF IdsBounded

(* A click on a provider resets the block; the others go along.            *)
LEMMA ProviderResetChange ==
  ASSUME NEW v, HasFields(v), NEW p
  PROVE  LET w == ProviderReset(v, p) IN
         /\ Changes(v, w, {"provider", "region", "datacenter", "instanceType", "instance",
                           "storage"})
         /\ w.provider = p
         /\ w.region = (IF p \in Clouds THEN Deployment(p).regions[1].code ELSE None)
         /\ w.datacenter = FirstDatacenter(p) /\ w.instanceType = "small"
         /\ w.instance = First(Deployment(p).small) /\ w.storage = DefaultSize(p)
  BY DEF ProviderReset, Changes, HasFields, Fields

(* What a click on a provider leaves fits the provider.                    *)
LEMMA ProviderFits ==
  ASSUME NEW k, PageInv(values, k, expert, loaded), NEW p \in Clouds \cup {"local"}
  PROVE  LET w == ProviderPicked(values, p)
             reset == [secret |-> w.secret, config |-> w.config] IN
         /\ PageInv(w, reset, expert, loaded)
         /\ w.creationType = values.creationType
         /\ \A hidden : SelectedInv(values, expert, hidden) => SelectedInv(w, expert, hidden)
<1> DEFINE r == ProviderReset(values, p)
           s == IF p \in Clouds THEN StorageEffects(r, values.provider \notin Clouds) ELSE r
           b == BackupsEffect(s)
           d == DatabaseBoxesMount(b)
           e == PoolBoxesMount(d)
           w == ProviderPicked(values, p)
           reset == [secret |-> w.secret, config |-> w.config]
<1>1. /\ HasFields(values)
      /\ w = (IF values.provider = "local" THEN e ELSE DataDirectoryEffect(e))
  BY DEF ProviderPicked, PageInv
<1>2. /\ Changes(values, r, {"provider", "region", "datacenter", "instanceType", "instance",
                             "storage"})
      /\ r.provider = p
      /\ r.region = (IF p \in Clouds THEN Deployment(p).regions[1].code ELSE None)
      /\ r.datacenter = FirstDatacenter(p) /\ r.instanceType = "small"
      /\ r.instance = First(Deployment(p).small) /\ r.storage = DefaultSize(p)
  BY <1>1, ProviderResetChange
<1>3. /\ Changes(r, s, {"volume", "storage"})
      /\ p \in Clouds => /\ s.volume = DefaultVolumeType(p)
                         /\ s.storage = SmallestSize(p, DefaultVolumeType(p))
                            \/ s.storage = DefaultSize(p)
  <2> HIDE DEF r
  <2>1. HasFields(r)
    BY <1>2 DEF Changes
  <2>2. CASE p \in Clouds
    BY <1>2, <2>1, <2>2, StorageEffectsChange
  <2>3. CASE p \notin Clouds
    BY <2>1, <2>3 DEF Changes
  <2> QED BY <2>2, <2>3
<1>4. Changes(s, b, {})
  <2> HIDE DEF s
  <2> QED BY <1>3, BackupsEffectChange DEF Changes
<1>5. /\ Changes(b, d, {"databases", "names"}) /\ d.extensions = b.extensions
      /\ NamesInv(b) => NamesInv(d) /\ DOMAIN d.names = DOMAIN b.names
      /\ expert => DOMAIN b.names \subseteq DOMAIN d.names
  <2> HIDE DEF b
  <2> QED BY <1>4, DatabaseBoxesChange DEF Changes
<1>6. Changes(d, e, {})
  <2> HIDE DEF d
  <2> QED BY <1>5, PoolBoxesChange DEF Changes
<1>7. /\ Changes(e, w, {"dataDir"})
      /\ expert /\ e.provider = "local" /\ values.provider # "local" => w.dataDir = e.version
      /\ ~(expert /\ e.provider = "local" /\ values.provider # "local") => w.dataDir = e.dataDir
  <2> HIDE DEF e
  <2>1. HasFields(e)
    BY <1>6 DEF Changes
  <2>2. CASE values.provider = "local"
    BY <1>1, <2>1, <2>2 DEF Changes
  <2>3. CASE values.provider # "local"
    BY <1>1, <2>1, <2>3, DataDirectoryChange
  <2> QED BY <2>2, <2>3
<1> DEFINE same == Fields \ {"provider", "region", "datacenter", "instanceType", "instance",
                             "volume", "storage", "databases", "names", "dataDir"}
<1> HIDE DEF r, s, b, d, e, w
<1>8. /\ HasFields(w) /\ \A f \in same : w[f] = values[f]
      /\ e.version = values.version /\ e.provider = p /\ e.dataDir = values.dataDir
      /\ w.databases = d.databases /\ w.names = d.names
      /\ w.provider = p /\ w.region = r.region /\ w.datacenter = r.datacenter
      /\ w.instanceType = "small" /\ w.instance = r.instance
      /\ w.volume = s.volume /\ w.storage = s.storage
      /\ b.databases = values.databases /\ b.names = values.names
      /\ d.extensions = values.extensions
  BY <1>2, <1>3, <1>4, <1>5, <1>6, <1>7 DEF Changes, Fields
<1>9. /\ w.auth = values.auth /\ w.servers = values.servers /\ w.balancers = values.balancers
      /\ w.dcsType = values.dcsType /\ w.dcsHosts = values.dcsHosts
      /\ w.version = values.version /\ w.extensions = values.extensions
      /\ w.creationType = values.creationType
  BY <1>8 DEF Fields
<1>10. ServersInv(w, loaded) /\ w.auth \in {"ssh_key", "password"}
  BY <1>9 DEF PageInv, ServersInv
<1>11. DirectoryInv(w, expert)
  BY <1>7, <1>8, <1>9 DEF PageInv, DirectoryInv
<1>12. ConfigInv(w, reset)
  BY DEF ConfigInv
<1>13. CloudInv(w)
  <2> SUFFICES ASSUME p \in Clouds PROVE CloudInv(w)
    BY <1>8 DEF CloudInv
  <2>1. w.region \in Codes(p) /\ w.datacenter \in Rows(Region(p, w.region).datacenters)
    BY <1>2, <1>8, FirstPlace
  <2>2. w.instance \in Instances(p)
    BY <1>2, <1>8, FirstInstance
  <2>3. /\ w.volume = DefaultVolumeType(p) /\ w.volume \in Volumes(p)
        /\ DefaultSize(p) \in Nat /\ DefaultSize(p) >= SmallestSize(p, w.volume)
        /\ w.storage = SmallestSize(p, w.volume) \/ w.storage = DefaultSize(p)
    BY <1>3, <1>8, DefaultFits
  <2>4. SmallestSize(p, w.volume) \in Nat
    BY <2>3, VolumeFound
  <2> DEFINE least == SmallestSize(p, w.volume)
             size == DefaultSize(p)
  <2>5. /\ least \in Nat /\ size \in Nat /\ size >= least
        /\ w.storage = least \/ w.storage = size
    BY <2>3, <2>4
  <2>6. w.storage \in Nat /\ w.storage >= least
    <3> HIDE DEF least, size
    <3> QED BY <2>5
  <2> QED BY <1>8, <2>1, <2>2, <2>3, <2>6 DEF CloudInv
<1>14. expert /\ loaded => NamesInv(w) /\ DOMAIN w.names = DOMAIN values.names
  <2> SUFFICES ASSUME expert, loaded
               PROVE  NamesInv(w) /\ DOMAIN w.names = DOMAIN values.names
    OBVIOUS
  <2>1. NamesInv(b)
    BY <1>8 DEF PageInv, DatabasesInv, NamesInv
  <2>2. NamesInv(d) /\ DOMAIN d.names = DOMAIN b.names
    BY <1>5, <2>1
  <2> QED BY <1>8, <2>2 DEF NamesInv
<1>15. DatabasesInv(w, expert, loaded)
  <2>1. DatabasesInv(values, expert, loaded)
    BY DEF PageInv
  <2>2. expert /\ loaded => IdsBounded(w)
    BY <1>9, <1>14, <2>1, BoxesBound DEF DatabasesInv
  <2> QED BY <1>9, <1>14, <2>1, <2>2 DEF DatabasesInv
<1>16. PageInv(w, reset, expert, loaded)
  BY <1>8, <1>10, <1>11, <1>12, <1>13, <1>15 DEF PageInv
<1>17. ASSUME NEW hidden, SelectedInv(values, expert, hidden)
       PROVE  SelectedInv(w, expert, hidden)
  <2>1. expert => DOMAIN values.names \subseteq DOMAIN w.names
    BY <1>5, <1>8
  <2> QED BY <1>9, <1>17, <2>1 DEF SelectedInv
<1> QED BY <1>9, <1>16, <1>17 DEF w

(* The form as it is when its constants have been evaluated.               *)
LEMMA DefaultFields ==
  ASSUME NEW l
  PROVE  LET v == FormDefaults(l) IN
         /\ HasFields(v) /\ "environment" \in DOMAIN v /\ "name" \in DOMAIN v
         /\ v.creationType = "form" /\ v.provider = None /\ v.instanceType = "small"
         /\ v.auth = "ssh_key" /\ Numbered(v.servers) /\ Len(v.servers) = 3
         /\ l => /\ Numbered(v.dcsHosts) /\ v.dcsType = "etcd"
                 /\ v.balancers = <<None>> /\ v.extensions = [x \in DOMAIN Extensions |-> {}]
                 /\ v.databases = <<[id |-> 1, name |-> "db1", user |-> "db1"]>>
                 /\ v.config = ""
         /\ ~l => v.extensions = None /\ v.config = None
         /\ v.names = <<>>
<1> DEFINE a == [creationType |-> "form", environment |-> None, name |-> "", version |-> None]
           b == a ++ CloudDefaults(l)
           c == b ++ LocalDefaults(l)
           v == FormDefaults(l)
           cloud == {"provider", "region", "datacenter", "instanceType", "instance", "storage",
                     "volume"}
           local == {"auth", "defined", "secret", "servers", "balancers", "dcsType", "dcsHosts",
                   "dataDir"}
           more == {"databases", "names", "extensions", "method", "config"}
<1>1. v = c ++ ExpertDefaults(l)
  BY DEF FormDefaults
<1>2. /\ \A f \in {"creationType", "environment", "name", "version"} : f \in DOMAIN b
      /\ b.creationType = "form"
      /\ \A f \in cloud : f \in DOMAIN b /\ b[f] = CloudDefaults(l)[f]
      /\ \A f \in local \cup more : f \notin DOMAIN b
  <2>1. DOMAIN a = {"creationType", "environment", "name", "version"} /\ a.creationType = "form"
    OBVIOUS
  <2>2. /\ \A f \in cloud : f \in DOMAIN CloudDefaults(l)
        /\ \A f \in local \cup more : f \notin DOMAIN CloudDefaults(l)
    BY DEF CloudDefaults
  <2> HIDE DEF a
  <2>3. /\ DOMAIN b = DOMAIN a \cup DOMAIN CloudDefaults(l)
        /\ \A x \in DOMAIN a : b[x] = a[x]
        /\ \A x \in DOMAIN CloudDefaults(l) \ DOMAIN a : b[x] = CloudDefaults(l)[x]
    BY Together
  <2> QED BY <2>1, <2>2, <2>3
<1>3. /\ \A f \in DOMAIN b : f \in DOMAIN c /\ c[f] = b[f]
      /\ \A f \in local : f \in DOMAIN c /\ c[f] = LocalDefaults(l)[f]
      /\ \A f \in more : f \notin DOMAIN c
  <2>1. /\ \A f \in local : f \in DOMAIN LocalDefaults(l)
        /\ \A f \in more : f \notin DOMAIN LocalDefaults(l)
    BY DEF LocalDefaults
  <2> HIDE DEF b
  <2>2. /\ DOMAIN c = DOMAIN b \cup DOMAIN LocalDefaults(l)
        /\ \A x \in DOMAIN b : c[x] = b[x]
        /\ \A x \in DOMAIN LocalDefaults(l) \ DOMAIN b : c[x] = LocalDefaults(l)[x]
    BY Together
  <2> QED BY <1>2, <2>1, <2>2
<1>4. /\ \A f \in DOMAIN c : f \in DOMAIN v /\ v[f] = c[f]
      /\ \A f \in more : f \in DOMAIN v /\ v[f] = ExpertDefaults(l)[f]
  <2>1. \A f \in more : f \in DOMAIN ExpertDefaults(l)
    BY DEF ExpertDefaults
  <2> HIDE DEF c, v
  <2>2. /\ DOMAIN v = DOMAIN c \cup DOMAIN ExpertDefaults(l)
        /\ \A x \in DOMAIN c : v[x] = c[x]
        /\ \A x \in DOMAIN ExpertDefaults(l) \ DOMAIN c : v[x] = ExpertDefaults(l)[x]
    <3> DEFINE last == ExpertDefaults(l)
    <3>1. v = c ++ last
      BY <1>1
    <3> HIDE DEF last
    <3>2. /\ DOMAIN (c ++ last) = DOMAIN c \cup DOMAIN last
          /\ \A x \in DOMAIN c : (c ++ last)[x] = c[x]
          /\ \A x \in DOMAIN last \ DOMAIN c : (c ++ last)[x] = last[x]
      BY Together
    <3> QED BY <3>1, <3>2, Zenon DEF last
  <2> QED BY <1>3, <2>1, <2>2
<1> HIDE DEF a, b, c, v
<1>5. /\ \A f \in {"creationType", "environment", "name", "version"} : f \in DOMAIN v
      /\ v.creationType = "form"
      /\ \A f \in cloud : f \in DOMAIN v /\ v[f] = CloudDefaults(l)[f]
      /\ \A f \in local : f \in DOMAIN v /\ v[f] = LocalDefaults(l)[f]
      /\ \A f \in more : f \in DOMAIN v /\ v[f] = ExpertDefaults(l)[f]
  BY <1>2, <1>3, <1>4
<1>6. HasFields(v)
  BY <1>5 DEF HasFields, Fields
<1>7. v.provider = None /\ v.instanceType = "small"
  BY <1>5 DEF CloudDefaults
<1>8. /\ v.auth = "ssh_key" /\ v.servers = [i \in 1..3 |-> [ip |-> None, exists |-> FALSE]]
      /\ l => /\ v.dcsHosts = <<None, None, None>> /\ v.dcsType = "etcd"
              /\ v.balancers = <<None>>
  BY <1>5 DEF LocalDefaults
<1>9. /\ l => /\ v.extensions = [x \in DOMAIN Extensions |-> {}] /\ v.config = ""
              /\ v.databases = <<[id |-> 1, name |-> "db1", user |-> "db1"]>>
      /\ ~l => v.extensions = None /\ v.config = None
      /\ v.names = <<>>
  BY <1>5 DEF ExpertDefaults
<1>10. Numbered(v.servers) /\ Len(v.servers) = 3
  <2>1. v.servers \in [1..3 -> {[ip |-> None, exists |-> FALSE]}]
    BY <1>8
  <2> QED BY <2>1, ListFrom
<1>11. l => Numbered(v.dcsHosts)
  <2>1. <<None, None, None>> \in Seq({None})
    OBVIOUS
  <2> QED BY <1>8, <2>1 DEF Numbered
<1> QED BY <1>5, <1>6, <1>7, <1>8, <1>9, <1>10, <1>11 DEF v

(* The blocks mount: the volume is the provider's, the names are those of  *)
(* the boxes, and the selectors drop what is gone.                         *)
LEMMA MountedFits ==
  ASSUME NEW v, NEW k, HasFields(v), v.auth \in {"ssh_key", "password"},
         ServersInv(v, loaded), ConfigInv(v, k),
         v.provider \in Clouds \cup {"local"},
         v.provider \in Clouds =>
           /\ v.region \in Codes(v.provider)
           /\ v.datacenter \in Rows(Region(v.provider, v.region).datacenters)
           /\ v.instanceType = "small" => v.instance \in Instances(v.provider),
         v.extensions # None => DOMAIN v.extensions = DOMAIN Extensions,
         loaded => v.extensions \in [DOMAIN Extensions -> SUBSET Nat],
         \A u : /\ expert /\ loaded /\ HasFields(u) /\ u.databases = v.databases
                /\ u.names = v.names /\ u.extensions = v.extensions
                => NamesInv(DatabaseBoxesMount(u)) /\ IdsBounded(DatabaseBoxesMount(u))
  PROVE  LET w == FormMounts(v) IN
         /\ PageInv(w, k, expert, loaded) /\ SelectedInv(w, expert, {})
         /\ w.creationType = v.creationType /\ w.secret = v.secret /\ w.provider = v.provider
<1> DEFINE s == IF v.provider \in Clouds THEN StorageEffects(v, TRUE) ELSE v
           d == DatabaseBoxesMount(s)
           e == PoolBoxesMount(d)
           f == DataDirectoryEffect(e)
<1>1. FormMounts(v) = SelectorsIntersect(f, ShownAt(v.version, {}))
  BY DEF FormMounts
<1>2. /\ Changes(v, s, {"volume", "storage"})
      /\ v.provider \in Clouds =>
           /\ s.volume = DefaultVolumeType(v.provider)
           /\ s.storage = SmallestSize(v.provider, DefaultVolumeType(v.provider))
  BY StorageEffectsChange DEF Changes
<1>3. /\ Changes(s, d, {"databases", "names"}) /\ d.extensions = s.extensions
  <2> HIDE DEF s
  <2> QED BY <1>2, DatabaseBoxesChange DEF Changes
<1>4. Changes(d, e, {})
  <2> HIDE DEF d
  <2> QED BY <1>3, PoolBoxesChange DEF Changes
<1>5. /\ Changes(e, f, {"dataDir"})
      /\ expert /\ e.provider = "local" => f.dataDir = e.version
      /\ ~(expert /\ e.provider = "local") => f.dataDir = e.dataDir
  <2> HIDE DEF e
  <2> QED BY <1>4, DataDirectoryChange DEF Changes
<1>6. expert /\ loaded => NamesInv(d) /\ IdsBounded(d)
  <2> HIDE DEF s, d
  <2>1. /\ HasFields(s) /\ s.databases = v.databases /\ s.names = v.names
        /\ s.extensions = v.extensions
    BY <1>2 DEF Changes, Fields
  <2> QED BY <2>1 DEF d
<1> HIDE DEF s, d, e, f
<1>7. /\ HasFields(f)
      /\ f.creationType = v.creationType /\ f.secret = v.secret /\ f.provider = v.provider
      /\ f.version = v.version /\ f.auth = v.auth /\ f.servers = v.servers
      /\ f.balancers = v.balancers /\ f.dcsType = v.dcsType /\ f.dcsHosts = v.dcsHosts
      /\ f.config = v.config /\ f.method = v.method
      /\ f.region = v.region /\ f.datacenter = v.datacenter
      /\ f.instanceType = v.instanceType /\ f.instance = v.instance
      /\ f.volume = s.volume /\ f.storage = s.storage
      /\ f.databases = d.databases /\ f.names = d.names /\ f.extensions = v.extensions
      /\ d.extensions = v.extensions
      /\ e.provider = v.provider /\ e.version = v.version /\ e.dataDir = v.dataDir
  BY <1>2, <1>3, <1>4, <1>5 DEF Changes, Fields
<1>8. ServersInv(f, loaded) /\ f.auth \in {"ssh_key", "password"}
  BY <1>7 DEF ServersInv
<1>9. DirectoryInv(f, expert)
  BY <1>5, <1>7 DEF DirectoryInv
<1>10. ConfigInv(f, k)
  BY <1>7 DEF ConfigInv
<1>11. CloudInv(f)
  <2> SUFFICES ASSUME v.provider \in Clouds PROVE CloudInv(f)
    BY <1>7 DEF CloudInv
  <2> DEFINE p == v.provider
             least == SmallestSize(p, DefaultVolumeType(p))
  <2>1. DefaultVolumeType(p) \in Volumes(p)
    BY DefaultFits
  <2>2. least \in Nat
    BY <2>1, VolumeFound
  <2>3. /\ f.volume = DefaultVolumeType(p) /\ f.storage = least
    BY <1>2, <1>7
  <2>4. f.storage \in Nat /\ f.storage >= least
    <3> HIDE DEF least
    <3> QED BY <2>2, <2>3
  <2> QED BY <1>7, <2>1, <2>3, <2>4 DEF CloudInv
<1>12. DatabasesInv(f, expert, loaded)
  BY <1>6, <1>7 DEF DatabasesInv, NamesInv, IdsBounded
<1>13. PageInv(f, k, expert, loaded)
  BY <1>7, <1>8, <1>9, <1>10, <1>11, <1>12 DEF PageInv
<1>14. LET w == FormMounts(v) IN
       /\ PageInv(w, k, expert, loaded)
       /\ w.creationType = f.creationType /\ w.secret = f.secret /\ w.provider = f.provider
       /\ \A hidden :
            (\A x \in ShownAt(f.version, hidden) \ ShownAt(v.version, {}) :
               expert /\ f.extensions # None => f.extensions[x] \subseteq DOMAIN f.names)
            => SelectedInv(w, expert, hidden)
  BY <1>1, <1>13, SelectorsKeep
<1>15. SelectedInv(FormMounts(v), expert, {})
  BY <1>7, <1>14
<1> QED BY <1>7, <1>14, <1>15

-----------------------------------------------------------------------------
(***************************************************************************)
(* Filling in the form.                                                    *)
(***************************************************************************)

(* The form is shown, and what is on it fits. *)
OnForm ==
  /\ view = "form" /\ PageInv(values, kept, expert, loaded) /\ values.creationType = "form"
  /\ SelectedInv(values, expert, boxes.hidden) /\ "hidden" \in DOMAIN boxes

(* The secret is the default, the one before, or picked from the list.     *)
SecretFits(v, k) ==
  \/ v.secret = k.secret
  \/ /\ k = kept /\ v.provider = values.provider
     /\ \/ v.secret = values.secret
        \/ /\ v.auth = values.auth /\ values.provider = "local" /\ held.auth # None
           /\ held.auth.ids # None /\ v.secret \in Rows(held.auth.ids)

Filled(v, k, b) ==
  /\ PageInv(v, k, expert, loaded) /\ v.creationType = "form" /\ SelectedInv(v, expert, b.hidden)
  /\ SecretFits(v, k) /\ "hidden" \in DOMAIN b

Edited ==
  /\ view = "form" /\ PageInFront /\ sent' = None /\ UNCHANGED Rest
  /\ \E v, k, b : /\ Filled(v, k, b) /\ boxes' = b
                  /\ Render([Now EXCEPT !.values = v, !.kept = k])

(* What an edit of one group may not touch. *)
Others == {"creationType", "provider", "secret", "version", "extensions", "names"}

LEMMA EditFits ==
  ASSUME OnForm, NEW part, NEW v, Edit(part, v), PageInv(v, kept, expert, loaded),
         NEW set, Changes(values, v, set), \A f \in Others : f \notin set
  PROVE  Edited
<1>1. v.creationType = "form" /\ v.provider = values.provider /\ v.secret = values.secret
  BY DEF OnForm, Changes, Others, Fields
<1>2. SelectedInv(v, expert, boxes.hidden)
  BY SelectedKept DEF OnForm, Others
<1>3. Filled(v, kept, boxes)
  BY <1>1, <1>2 DEF Filled, SecretFits, OnForm
<1> QED BY <1>3 DEF Edit, EditKeeping, Edited

(* Fields nothing depends on. *)
Free(field) ==
  field \notin ServersFields \cup DirectoryFields \cup ConfigFields \cup CloudFields
                 \cup DatabasesFields \cup Others \cup {"auth"}

LEMMA SetChanges ==
  ASSUME NEW v, HasFields(v), NEW field, NEW value
  PROVE  /\ Changes(v, Set(v, field, value), {field})
         /\ field \in Fields => Set(v, field, value)[field] = value
  BY DEF Set, Changes, HasFields

LEMMA FreeFits ==
  ASSUME OnForm, NEW part, NEW field, NEW value, Free(field), Edit(part, Set(values, field, value))
  PROVE  Edited
<1> DEFINE v == Set(values, field, value)
<1>1. Changes(values, v, {field})
  BY SetChanges DEF OnForm, PageInv
<1> HIDE DEF v
<1>2. PageInv(v, kept, expert, loaded)
  BY <1>1, PageKept DEF OnForm, PageInv, Free
<1>3. Edit(part, v)
  BY DEF v
<1> QED BY <1>1, <1>2, <1>3, EditFits DEF Free

(* An edit of the machines. *)
LEMMA ServersEditFits ==
  ASSUME OnForm, NEW part, NEW v, Edit(part, v), Changes(values, v, ServersFields),
         ServersInv(v, loaded)
  PROVE  Edited
<1>1. PageInv(v, kept, expert, loaded)
  BY ServersEdited DEF OnForm
<1> QED BY <1>1, EditFits DEF Others, ServersFields

(* An edit of the cloud's choices. *)
LEMMA CloudEditFits ==
  ASSUME OnForm, NEW part, NEW v, Edit(part, v), Changes(values, v, CloudFields \ {"provider"}),
         CloudInv(v)
  PROVE  Edited
<1>1. PageInv(v, kept, expert, loaded)
  BY CloudEdited DEF OnForm
<1> QED BY <1>1, EditFits DEF Others, CloudFields

LEMMA ConfigEditFits ==
  ASSUME OnForm, NEW part, NEW v, Edit(part, v), Changes(values, v, ConfigFields),
         ConfigInv(v, kept)
  PROVE  Edited
<1>1. PageInv(v, kept, expert, loaded)
  BY ConfigEdited DEF OnForm
<1> QED BY <1>1, EditFits DEF Others, ConfigFields

(* A click on a provider. *)
LEMMA ProvidersEdit == ASSUME OnForm, ClusterFormProvidersBlock PROVE Edited
<1>1. PICK p \in Clouds \cup {"local"} :
        LET v == ProviderPicked(values, p) IN
        EditKeeping(p, v, [secret |-> v.secret, config |-> v.config], boxes)
  BY DEF ClusterFormProvidersBlock
<1> DEFINE v == ProviderPicked(values, p)
           k == [secret |-> v.secret, config |-> v.config]
<1>2. /\ PageInv(v, k, expert, loaded) /\ v.creationType = "form"
      /\ SelectedInv(v, expert, boxes.hidden)
  BY ProviderFits DEF OnForm
<1>3. Filled(v, k, boxes)
  BY <1>2 DEF Filled, SecretFits, OnForm
<1>4. EditKeeping(p, v, k, boxes)
  BY <1>1
<1> HIDE DEF v, k
<1> QED BY <1>3, <1>4 DEF EditKeeping, Edited

(* The choices of a cloud. *)
LEMMA RegionEdit == ASSUME OnForm, CloudFormRegionBlock PROVE Edited
<1> DEFINE p == values.provider
<1>1. p \in Clouds /\ HasFields(values) /\ CloudInv(values)
  BY DEF CloudFormRegionBlock, Cloud, OnForm, PageInv
<1>2. ASSUME NEW r \in Rows(Deployment(p).regions), Edit("region", RegionPicked(values, r.code))
      PROVE  Edited
  <2> DEFINE v == RegionPicked(values, r.code)
  <2>1. /\ Changes(values, v, CloudFields \ {"provider"})
        /\ v.region = r.code /\ v.datacenter = First(Region(p, r.code).datacenters)
        /\ v.provider = p /\ v.instanceType = values.instanceType
        /\ v.instance = values.instance /\ v.volume = values.volume
        /\ v.storage = values.storage
    BY <1>1 DEF RegionPicked, Changes, HasFields, Fields, CloudFields
  <2>2. r.code \in Codes(p)
    BY DEF Codes
  <2>3. First(Region(p, r.code).datacenters) \in Rows(Region(p, r.code).datacenters)
    BY <1>1, <2>2, RegionFound
  <2> HIDE DEF v
  <2>4. CloudInv(v)
    BY <1>1, <2>1, <2>2, <2>3 DEF CloudInv
  <2> QED BY <1>2, <2>1, <2>4, CloudEditFits DEF v
<1>3. ASSUME NEW d \in Rows(Region(p, values.region).datacenters),
             Edit("region", Set(values, "datacenter", d))
      PROVE  Edited
  <2> DEFINE v == Set(values, "datacenter", d)
  <2>1. /\ Changes(values, v, CloudFields \ {"provider"}) /\ v.datacenter = d
        /\ v.region = values.region /\ v.provider = p /\ v.instanceType = values.instanceType
        /\ v.instance = values.instance /\ v.volume = values.volume
        /\ v.storage = values.storage
    BY <1>1 DEF Set, Changes, HasFields, Fields, CloudFields
  <2> HIDE DEF v
  <2>2. CloudInv(v)
    BY <1>1, <2>1 DEF CloudInv
  <2> QED BY <1>3, <2>1, <2>2, CloudEditFits DEF v
<1> QED BY <1>2, <1>3 DEF CloudFormRegionBlock

LEMMA InstanceEdit == ASSUME OnForm, CloudFormInstancesBlock PROVE Edited
<1> DEFINE p == values.provider
<1>1. p \in Clouds /\ HasFields(values) /\ CloudInv(values)
  BY DEF CloudFormInstancesBlock, Cloud, OnForm, PageInv
<1>2. ASSUME NEW type, Edit("instance", InstanceTypePicked(values, type))
      PROVE  Edited
  <2> DEFINE v == InstanceTypePicked(values, type)
  <2>1. /\ Changes(values, v, CloudFields \ {"provider"})
        /\ v.region = values.region /\ v.datacenter = values.datacenter /\ v.provider = p
        /\ v.instanceType = type
        /\ v.instance = (IF type = "small" THEN First(Deployment(p).small) ELSE None)
        /\ v.volume = values.volume /\ v.storage = values.storage
    BY <1>1 DEF InstanceTypePicked, Changes, HasFields, Fields, CloudFields
  <2> HIDE DEF v
  <2>2. CloudInv(v)
    BY <1>1, <2>1, FirstInstance DEF CloudInv
  <2> QED BY <1>2, <2>1, <2>2, CloudEditFits DEF v
<1>3. ASSUME NEW i \in Rows(Deployment(p).small), Edit("instance", Set(values, "instance", i))
      PROVE  Edited
  <2> DEFINE v == Set(values, "instance", i)
  <2>1. /\ Changes(values, v, CloudFields \ {"provider"})
        /\ v.region = values.region /\ v.datacenter = values.datacenter /\ v.provider = p
        /\ v.instanceType = values.instanceType /\ v.instance = i
        /\ v.volume = values.volume /\ v.storage = values.storage
    BY <1>1 DEF Set, Changes, HasFields, Fields, CloudFields
  <2> HIDE DEF v
  <2>2. CloudInv(v)
    BY <1>1, <2>1 DEF CloudInv, Instances
  <2> QED BY <1>3, <2>1, <2>2, CloudEditFits DEF v
<1> QED BY <1>2, <1>3 DEF CloudFormInstancesBlock

LEMMA StorageEdit == ASSUME OnForm, StorageBlock PROVE Edited
<1> DEFINE p == values.provider
<1>1. p \in Clouds /\ HasFields(values) /\ CloudInv(values)
  BY DEF StorageBlock, Cloud, OnForm, PageInv
<1>2. ASSUME NEW volume \in Rows(Deployment(p).volumes),
             Edit("storage", VolumePicked(values, volume.type))
      PROVE  Edited
  <2> DEFINE v == VolumePicked(values, volume.type)
             least == SmallestSize(p, volume.type)
  <2>1. /\ Changes(values, v, CloudFields \ {"provider"})
        /\ v.region = values.region /\ v.datacenter = values.datacenter /\ v.provider = p
        /\ v.instanceType = values.instanceType /\ v.instance = values.instance
        /\ v.volume = volume.type
        /\ v.storage = IF volume.type = values.volume THEN values.storage ELSE least
    BY <1>1 DEF VolumePicked, Changes, HasFields, Fields, CloudFields
  <2>2. volume.type \in Volumes(p)
    BY DEF Volumes
  <2>3. least \in Nat
    BY <1>1, <2>2, VolumeFound
  <2>4. v.storage \in Nat /\ v.storage >= least
    <3>1. volume.type = values.volume => values.storage \in Nat /\ values.storage >= least
      BY <1>1 DEF CloudInv
    <3> HIDE DEF least, v
    <3> QED BY <2>1, <2>3, <3>1
  <2> HIDE DEF v
  <2>5. CloudInv(v)
    BY <1>1, <2>1, <2>2, <2>4 DEF CloudInv
  <2> QED BY <1>2, <2>1, <2>5, CloudEditFits DEF v
<1>3. ASSUME 200 >= SmallestSize(p, values.volume), Edit("storage", Set(values, "storage", 200))
      PROVE  Edited
  <2> DEFINE v == Set(values, "storage", 200)
  <2>1. /\ Changes(values, v, CloudFields \ {"provider"})
        /\ v.region = values.region /\ v.datacenter = values.datacenter /\ v.provider = p
        /\ v.instanceType = values.instanceType /\ v.instance = values.instance
        /\ v.volume = values.volume /\ v.storage = 200
    BY <1>1 DEF Set, Changes, HasFields, Fields, CloudFields
  <2> HIDE DEF v
  <2>2. CloudInv(v)
    BY <1>1, <1>3, <2>1 DEF CloudInv
  <2> QED BY <1>3, <2>1, <2>2, CloudEditFits DEF v
<1> QED BY <1>2, <1>3 DEF StorageBlock

(* What nothing depends on. *)
LEMMA AmountEdit ==
  ASSUME OnForm, CustomInstance \/ InstancesAmountBlock \/ Network \/ SshKeyBlock PROVE Edited
<1>1. Free("serverType") /\ Free("amount") /\ Free("spot") /\ Free("network") /\ Free("sshKey")
  BY DEF Free, ServersFields, DirectoryFields, ConfigFields, CloudFields, DatabasesFields, Others
<1> QED BY <1>1, FreeFits DEF CustomInstance, InstancesAmountBlock, Network, SshKeyBlock

LEMMA TextsEdit ==
  ASSUME OnForm,
         \/ VipAddressBlock \/ ClusterFormEnvironmentBlock \/ ClusterNameBox
         \/ AuthenticationFormPart \/ PasswordMethodFormPart \/ SshMethodFormPart
         \/ ConfigurePostgresParametersModal \/ ConfigureKernelParametersModal
         \/ AdditionalSettingsBlock
  PROVE  Edited
<1>1. /\ Free("vip") /\ Free("environment") /\ Free("name") /\ Free("user")
      /\ Free("password") /\ Free("key") /\ Free("pgParams") /\ Free("kernel")
      /\ Free("standby") /\ Free("strict") /\ Free("publicAccess") /\ Free("cloudBalancer")
  BY DEF Free, ServersFields, DirectoryFields, ConfigFields, CloudFields, DatabasesFields, Others
<1>2. CASE VipAddressBlock \/ ClusterFormEnvironmentBlock \/ ClusterNameBox
  BY <1>1, <1>2, FreeFits DEF VipAddressBlock, ClusterFormEnvironmentBlock, ClusterNameBox
<1>3. CASE AuthenticationFormPart \/ PasswordMethodFormPart \/ SshMethodFormPart
  BY <1>1, <1>3, FreeFits
     DEF AuthenticationFormPart, PasswordMethodFormPart, SshMethodFormPart
<1>4. CASE ConfigurePostgresParametersModal \/ ConfigureKernelParametersModal
  BY <1>1, <1>4, FreeFits
     DEF ConfigurePostgresParametersModal, ConfigureKernelParametersModal
<1>5. CASE AdditionalSettingsBlock
  BY <1>1, <1>5, FreeFits DEF AdditionalSettingsBlock, StandbyTyped
<1> QED BY <1>2, <1>3, <1>4, <1>5

(* A list of machines that keeps a row. *)
Lists3 == {"servers", "dcsHosts", "balancers"}

LEMMA ListEditFits ==
  ASSUME OnForm, NEW part, NEW field \in Lists3, NEW list,
         Edit(part, [values EXCEPT ![field] = list]),
         Numbered(values[field]) =>
           Numbered(list) /\ (Len(values[field]) >= 1 => Len(list) >= 1)
  PROVE  Edited
<1> DEFINE v == [values EXCEPT ![field] = list]
<1>1. HasFields(values) /\ ServersInv(values, loaded)
  BY DEF OnForm, PageInv
<1>2. /\ Changes(values, v, ServersFields) /\ v[field] = list
      /\ \A f \in ServersFields : f # field => v[f] = values[f]
  BY <1>1 DEF Changes, HasFields, Fields, ServersFields, Lists3
<1> HIDE DEF v
<1>3. ServersInv(v, loaded)
  BY <1>1, <1>2 DEF ServersInv, ServersFields, Lists3
<1> QED BY <1>2, <1>3, ServersEditFits DEF v

LEMMA RowAdded ==
  ASSUME OnForm, NEW part, NEW field \in Lists3, NEW row, Edit(part, Appended(values, field, row))
  PROVE  Edited
<1> DEFINE list == Append(values[field], row)
<1>1. Appended(values, field, row) = [values EXCEPT ![field] = list]
  BY DEF Appended
<1>2. ASSUME Numbered(values[field]) PROVE Numbered(list) /\ Len(list) >= 1
  BY <1>2, ListAppended, Listed
<1> HIDE DEF list
<1> QED BY <1>1, <1>2, ListEditFits

LEMMA RowRemoved ==
  ASSUME OnForm, NEW part, NEW field \in Lists3, NEW i \in 2..Len(values[field]),
         Edit(part, Removed(values, field, i))
  PROVE  Edited
<1> DEFINE s == values[field]
           list == Without(s, i)
<1>1. Removed(values, field, i) = [values EXCEPT ![field] = list]
  BY DEF Removed
<1>2. ASSUME Numbered(s) PROVE Numbered(list) /\ Len(list) >= 1
  <2>1. Len(s) \in Nat /\ i \in 2..Len(s)
    BY <1>2, Listed
  <2> HIDE DEF s
  <2>2. Numbered(list) /\ Len(list) = Len(s) - 1
    BY <1>2, <2>1, ListWithout
  <2> HIDE DEF list
  <2> QED BY <2>1, <2>2
<1> HIDE DEF list
<1> QED BY <1>1, <1>2, ListEditFits

LEMMA RowEdited ==
  ASSUME OnForm, NEW part, NEW field \in Lists3, NEW i, NEW row,
         Edit(part, [values EXCEPT ![field] = [values[field] EXCEPT ![i] = row]])
  PROVE  Edited
<1> DEFINE s == values[field]
           list == [s EXCEPT ![i] = row]
<1>1. ASSUME Numbered(s) PROVE Numbered(list) /\ Len(list) = Len(s)
  <2> HIDE DEF s
  <2> QED BY <1>1, ListEdited
<1>2. Edit(part, [values EXCEPT ![field] = list])
  OBVIOUS
<1>3. Numbered(s) => Len(s) \in Nat
  BY Listed
<1> HIDE DEF list
<1> QED BY <1>1, <1>2, <1>3, ListEditFits

(* The machines. *)
LEMMA ServersEdit ==
  ASSUME OnForm, DatabaseServersBlock \/ DatabaseServerBox PROVE Edited
<1>1. "servers" \in Lists3
  BY DEF Lists3
<1>2. Free("existing")
  BY DEF Free, ServersFields, DirectoryFields, ConfigFields, CloudFields, DatabasesFields, Others
<1>3. CASE DatabaseServersBlock
  BY <1>1, <1>2, <1>3, RowAdded, RowRemoved, FreeFits DEF DatabaseServersBlock
<1>4. CASE DatabaseServerBox
  <2>1. PICK i : \/ \E a : Edit("servers", [values EXCEPT !.servers[i].ip = a])
                 \/ Edit("servers", [values EXCEPT !.servers[i].exists = ~@])
    BY <1>4 DEF DatabaseServerBox
  <2>2. \A a : [values EXCEPT !.servers[i].ip = a]
               = [values EXCEPT !["servers"] =
                    [values["servers"] EXCEPT ![i] = [values.servers[i] EXCEPT !.ip = a]]]
    OBVIOUS
  <2>3. [values EXCEPT !.servers[i].exists = ~@]
        = [values EXCEPT !["servers"] =
             [values["servers"] EXCEPT
                ![i] = [values.servers[i] EXCEPT !.exists = ~values.servers[i].exists]]]
    OBVIOUS
  <2> QED BY <1>1, <2>1, <2>2, <2>3, RowEdited
<1> QED BY <1>3, <1>4

LEMMA BalancersEdit ==
  ASSUME OnForm, LoadBalancersBlock \/ LoadBalancersDatabaseBox PROVE Edited
<1>1. "balancers" \in Lists3
  BY DEF Lists3
<1>2. Free("haproxy") /\ Free("lbOnDb")
  BY DEF Free, ServersFields, DirectoryFields, ConfigFields, CloudFields, DatabasesFields, Others
<1>3. CASE LoadBalancersBlock
  BY <1>1, <1>2, <1>3, RowAdded, RowRemoved, FreeFits DEF LoadBalancersBlock
<1>4. CASE LoadBalancersDatabaseBox
  <2>1. PICK i, a : Edit("balancers", [values EXCEPT !.balancers[i] = a])
    BY <1>4 DEF LoadBalancersDatabaseBox
  <2>2. [values EXCEPT !.balancers[i] = a]
        = [values EXCEPT !["balancers"] = [values["balancers"] EXCEPT ![i] = a]]
    OBVIOUS
  <2> QED BY <1>1, <2>1, <2>2, RowEdited
<1> QED BY <1>3, <1>4

LEMMA DcsEdit ==
  ASSUME OnForm, DcsBlock \/ DcsDatabaseBox PROVE Edited
<1>1. "dcsHosts" \in Lists3
  BY DEF Lists3
<1>2. Free("dcsNew") /\ Free("dcsOnDb")
  BY DEF Free, ServersFields, DirectoryFields, ConfigFields, CloudFields, DatabasesFields, Others
<1>3. ASSUME NEW type \in {"etcd", "consul"}, Edit("dcs", Set(values, "dcsType", type))
      PROVE  Edited
  <2> DEFINE v == Set(values, "dcsType", type)
  <2>1. HasFields(values) /\ ServersInv(values, loaded)
    BY DEF OnForm, PageInv
  <2>2. /\ Changes(values, v, ServersFields) /\ v.dcsType = type /\ v.servers = values.servers
        /\ v.dcsHosts = values.dcsHosts /\ v.balancers = values.balancers
    BY <2>1 DEF Set, Changes, HasFields, Fields, ServersFields
  <2> HIDE DEF v
  <2>3. ServersInv(v, loaded)
    BY <2>1, <2>2 DEF ServersInv
  <2> QED BY <1>3, <2>2, <2>3, ServersEditFits DEF v
<1>4. CASE DcsBlock
  BY <1>1, <1>2, <1>3, <1>4, RowAdded, RowRemoved, FreeFits DEF DcsBlock
<1>5. CASE DcsDatabaseBox
  <2>1. PICK i, a : Edit("dcs", [values EXCEPT !.dcsHosts[i] = a])
    BY <1>5 DEF DcsDatabaseBox
  <2>2. [values EXCEPT !.dcsHosts[i] = a]
        = [values EXCEPT !["dcsHosts"] = [values["dcsHosts"] EXCEPT ![i] = a]]
    OBVIOUS
  <2> QED BY <1>1, <2>1, <2>2, RowEdited
<1> QED BY <1>4, <1>5

(* The texts that only have to be there. *)
LEMMA ListMapped ==
  ASSUME NEW s, Numbered(s), NEW t, t = [i \in DOMAIN s |-> t[i]]
  PROVE  Numbered(t) /\ Len(t) = Len(s)
<1>1. Len(s) \in Nat /\ DOMAIN s = 1..Len(s)
  BY Listed
<1>2. t \in [1..Len(s) -> {t[i] : i \in 1..Len(s)}]
  BY <1>1
<1> QED BY <1>1, <1>2, ListFrom

LEMMA RestEdit ==
  ASSUME OnForm, ClusterFormCloudProviderFormPart \/ ClusterFormLocalMachineFormPart PROVE Edited
<1>1. CASE ClusterFormCloudProviderFormPart
  <2>1. Free("sshKey")
    BY DEF Free, ServersFields, DirectoryFields, ConfigFields, CloudFields, DatabasesFields, Others
  <2>2. CloudPartFilled(values) = Set(values, "sshKey", TRUE)
    BY DEF CloudPartFilled, Set
  <2> QED BY <1>1, <2>1, <2>2, FreeFits DEF ClusterFormCloudProviderFormPart
<1>2. CASE ClusterFormLocalMachineFormPart
  <2> DEFINE v == LocalPartFilled(values)
  <2>1. HasFields(values) /\ ServersInv(values, loaded)
    BY DEF OnForm, PageInv
  <2>2. /\ Changes(values, v, ServersFields) /\ v.dcsType = values.dcsType
        /\ v.servers = [i \in DOMAIN values.servers |-> v.servers[i]]
        /\ v.dcsHosts = [i \in DOMAIN values.dcsHosts |-> v.dcsHosts[i]]
        /\ v.balancers = [i \in DOMAIN values.balancers |-> v.balancers[i]]
    BY <2>1 DEF LocalPartFilled, Changes, HasFields, Fields, ServersFields
  <2>3. Edit("rest", v)
    BY <1>2 DEF ClusterFormLocalMachineFormPart
  <2> HIDE DEF v
  <2>4. Numbered(v.servers) /\ Len(v.servers) = Len(values.servers)
    BY <2>1, <2>2, ListMapped DEF ServersInv
  <2>5. loaded => /\ Numbered(v.dcsHosts)
                  /\ Numbered(v.balancers) /\ Len(v.balancers) = Len(values.balancers)
    BY <2>1, <2>2, ListMapped DEF ServersInv
  <2>6. ServersInv(v, loaded)
    BY <2>1, <2>2, <2>4, <2>5 DEF ServersInv
  <2> QED BY <2>2, <2>3, <2>6, ServersEditFits
<1> QED BY <1>1, <1>2

(* An edit that touches nothing anything depends on. *)
LEMMA NothingEdited ==
  ASSUME OnForm, NEW part, NEW v, Edit(part, v), Changes(values, v, {})
  PROVE  Edited
<1>1. PageInv(v, kept, expert, loaded)
  BY OtherFieldsKept, ChangesWithin DEF OnForm
<1> QED BY <1>1, EditFits

(* How the user logs in. *)
LEMMA AuthenticationEdit == ASSUME OnForm, AuthenticationMethodFormBlock PROVE Edited
<1>1. Free("defined") /\ Free("save") /\ Free("keyName")
  BY DEF Free, ServersFields, DirectoryFields, ConfigFields, CloudFields, DatabasesFields, Others
<1>2. HasFields(values)
  BY DEF OnForm, PageInv
<1>3. ASSUME NEW method \in {"ssh_key", "password"}, Edit("auth", Set(values, "auth", method))
      PROVE  Edited
  <2> DEFINE v == Set(values, "auth", method)
  <2>1. Changes(values, v, {"auth"}) /\ v.auth = method
    BY <1>2, SetChanges DEF Fields
  <2> HIDE DEF v
  <2>2. PageInv(v, kept, expert, loaded)
    BY <2>1, PageKept DEF OnForm, PageInv, ServersFields, DirectoryFields, ConfigFields,
                          CloudFields, DatabasesFields
  <2> QED BY <1>3, <2>1, <2>2, EditFits DEF v, Others
<1>4. ASSUME values.provider = "local", SecretsListed, NEW id \in Rows(held.auth.ids),
             Edit("auth", Set(values, "secret", id))
      PROVE  Edited
  <2> DEFINE v == Set(values, "secret", id)
  <2>1. Changes(values, v, {"secret"}) /\ v.secret = id
    BY <1>2, SetChanges DEF Fields
  <2> HIDE DEF v
  <2>2. PageInv(v, kept, expert, loaded)
    BY <2>1, ChangesWithin, OtherFieldsKept DEF OnForm
  <2>3. SelectedInv(v, expert, boxes.hidden)
    BY <2>1, SelectedKept DEF OnForm
  <2>4. v.auth = values.auth /\ v.provider = values.provider /\ v.creationType = "form"
    BY <2>1 DEF Changes, Fields, OnForm
  <2>5. held.auth # None /\ held.auth.ids # None
    BY <1>4 DEF SecretsListed, Count
  <2>6. Filled(v, kept, boxes)
    BY <1>4, <2>1, <2>2, <2>3, <2>4, <2>5 DEF Filled, SecretFits, OnForm
  <2> QED BY <1>4, <2>6 DEF Edit, EditKeeping, Edited, v
<1> QED BY <1>1, <1>3, <1>4, FreeFits DEF AuthenticationMethodFormBlock, Local

(* The version, and what depends on it. *)
LEMMA VersionEdit == ASSUME OnForm, PostgresVersionBox PROVE Edited
<1>1. PICK version : Edit("version", VersionPicked(values, version))
  BY DEF PostgresVersionBox
<1> DEFINE u == IF version = values.version THEN values
                ELSE DataDirectoryEffect(Set(values, "version", version))
           selectors == ShownAt(version, boxes.hidden) \ ShownAt(values.version, boxes.hidden)
           w == SelectorsIntersect(u, selectors)
<1>2. w = VersionPicked(values, version)
  BY DEF VersionPicked
<1>3. HasFields(values) /\ DirectoryInv(values, expert)
  BY DEF OnForm, PageInv
<1>4. Changes(values, u, {"version", "dataDir"}) /\ DirectoryInv(u, expert) /\ u.version = version
  <2>1. CASE version = values.version
    BY <1>3, <2>1 DEF Changes
  <2>2. CASE version # values.version
    <3> DEFINE s == Set(values, "version", version)
    <3>1. Changes(values, s, {"version"}) /\ s.version = version
      BY <1>3, SetChanges DEF Fields
    <3>2. u = DataDirectoryEffect(s)
      BY <2>2
    <3> HIDE DEF s, u
    <3>3. HasFields(s) /\ s.provider = values.provider /\ s.dataDir = values.dataDir
      BY <3>1 DEF Changes, Fields
    <3>4. /\ Changes(s, u, {"dataDir"})
          /\ expert /\ s.provider = "local" => u.dataDir = s.version
      BY <3>2, <3>3, DataDirectoryChange
    <3>5. Changes(values, u, {"version", "dataDir"})
      BY <3>1, <3>4, ChangesTwice
    <3>6. u.version = version /\ u.provider = s.provider
      BY <3>1, <3>4 DEF Changes, Fields
    <3> QED BY <3>1, <3>4, <3>5, <3>6 DEF DirectoryInv
  <2> QED BY <2>1, <2>2
<1> HIDE DEF u
<1>5. PageInv(u, kept, expert, loaded)
  BY <1>4, DirectoryEdited DEF OnForm
<1>6. /\ u.names = values.names /\ u.extensions = values.extensions
      /\ u.creationType = "form" /\ u.secret = values.secret /\ u.provider = values.provider
  BY <1>4 DEF Changes, Fields, OnForm
<1>7. \A e \in ShownAt(u.version, boxes.hidden) \ selectors :
        expert /\ u.extensions # None => u.extensions[e] \subseteq DOMAIN u.names
  BY <1>4, <1>6 DEF OnForm, SelectedInv
<1> HIDE DEF selectors
<1>8. /\ PageInv(w, kept, expert, loaded) /\ w.creationType = "form"
      /\ w.secret = values.secret /\ w.provider = values.provider
      /\ SelectedInv(w, expert, boxes.hidden)
  BY <1>5, <1>6, <1>7, SelectorsKeep
<1>9. Filled(w, kept, boxes)
  BY <1>8 DEF Filled, SecretFits, OnForm
<1> HIDE DEF w
<1> QED BY <1>1, <1>2, <1>9 DEF Edit, EditKeeping, Edited

LEMMA DirectoryEdit == ASSUME OnForm, DataDirectoryBlock PROVE Edited
<1> DEFINE v == Set(values, "dataDir", "typed")
<1>1. Changes(values, v, {"dataDir"}) /\ v.dataDir = "typed"
  BY SetChanges DEF OnForm, PageInv, Fields
<1>2. Edit("version", v)
  BY DEF DataDirectoryBlock
<1> HIDE DEF v
<1>3. PageInv(v, kept, expert, loaded)
  BY <1>1, ChangesWithin, DirectoryEdited DEF OnForm, DirectoryInv
<1> QED BY <1>1, <1>2, <1>3, EditFits DEF Others

(* A database's box: the selectors that are shown drop what is gone.       *)
LEMMA DatabasesEditFits ==
  ASSUME OnForm, NEW u, PageInv(u, kept, expert, loaded), Changes(values, u, {"databases", "names"}),
         NEW b, b.hidden = boxes.hidden, "hidden" \in DOMAIN b,
         EditKeeping("databases", SelectorsIntersect(u, Shown), kept, b)
  PROVE  Edited
<1> DEFINE w == SelectorsIntersect(u, Shown)
<1>1. /\ u.version = values.version /\ u.creationType = "form" /\ u.secret = values.secret
      /\ u.provider = values.provider
  BY DEF Changes, Fields, OnForm
<1>2. ShownAt(u.version, boxes.hidden) \ Shown = {}
  BY <1>1 DEF Shown
<1>3. /\ PageInv(w, kept, expert, loaded) /\ w.creationType = "form"
      /\ w.secret = values.secret /\ w.provider = values.provider
      /\ SelectedInv(w, expert, boxes.hidden)
  BY <1>1, <1>2, SelectorsKeep
<1>4. Filled(w, kept, b)
  BY <1>3 DEF Filled, SecretFits
<1> HIDE DEF w
<1>5. EditKeeping("databases", w, kept, b)
  BY DEF w
<1> QED BY <1>4, <1>5 DEF EditKeeping, Edited

(* The user's name is no key of anything. *)
LEMMA UserTyped ==
  ASSUME OnForm, NEW i \in DOMAIN values.databases, NEW part,
         Edit(part, [values EXCEPT !.databases[i].user = "typed"])
  PROVE  Edited
<1> DEFINE v == [values EXCEPT !.databases[i].user = "typed"]
<1>1. HasFields(values) /\ DatabasesInv(values, expert, loaded)
  BY DEF OnForm, PageInv
<1>2. /\ Changes(values, v, {"databases"})
      /\ v.databases = [values.databases EXCEPT ![i].user = "typed"]
      /\ v.names = values.names /\ v.extensions = values.extensions
  BY <1>1 DEF Changes, HasFields, Fields
<1>3. Edit(part, v)
  OBVIOUS
<1> HIDE DEF v
<1>4. NamesInv(values) => NamesInv(v)
  <2> SUFFICES ASSUME NamesInv(values) PROVE NamesInv(v)
    OBVIOUS
  <2> DEFINE d == values.databases
             row == [d[i] EXCEPT !.user = "typed"]
  <2>1. v.databases = [d EXCEPT ![i] = row] /\ Numbered(d)
    BY <1>2 DEF NamesInv
  <2>2. \A j \in DOMAIN d : /\ {"id", "name"} \subseteq DOMAIN v.databases[j]
                            /\ v.databases[j].id = d[j].id /\ v.databases[j].name = d[j].name
    BY <1>2 DEF NamesInv
  <2>3. Numbered(v.databases) /\ DOMAIN v.databases = DOMAIN d
    <3> HIDE DEF d, row
    <3>1. Numbered([d EXCEPT ![i] = row]) /\ DOMAIN [d EXCEPT ![i] = row] = DOMAIN d
      BY <2>1, ListEdited
    <3> QED BY <2>1, <3>1
  <2> QED BY <1>2, <2>2, <2>3 DEF NamesInv
<1>5. DatabasesInv(v, expert, loaded)
  BY <1>1, <1>2, <1>4 DEF DatabasesInv, IdsBounded
<1>6. PageInv(v, kept, expert, loaded)
  BY <1>2, <1>5, ChangesWithin, DatabasesEdited DEF OnForm, DatabasesFields
<1> QED BY <1>2, <1>3, <1>6, EditFits DEF Others

LEMMA DatabasesEdit == ASSUME OnForm, DatabaseBlock \/ DatabaseBox PROVE Edited
<1>1. CASE DatabaseBlock
  <2> DEFINE u == DatabaseAppended(values, boxes.number, NextDatabaseId)
             b == [boxes EXCEPT !.number = boxes.number + 1]
  <2>1. expert /\ EditKeeping("databases", SelectorsIntersect(u, Shown), kept, b)
    BY <1>1 DEF DatabaseBlock
  <2>2. PageInv(u, kept, expert, loaded) /\ Changes(values, u, {"databases", "names"})
    BY <2>1, AppendedFits DEF OnForm
  <2>3. b.hidden = boxes.hidden /\ "hidden" \in DOMAIN b
    BY DEF OnForm
  <2> HIDE DEF u, b
  <2> QED BY <2>1, <2>2, <2>3, DatabasesEditFits
<1>2. CASE DatabaseBox
  <2>1. /\ expert
        /\ \E i \in DOMAIN values.databases :
             \/ Edit("databases", SelectorsIntersect(DatabaseRenamed(values, i, "renamed"), Shown))
             \/ Edit("databases", [values EXCEPT !.databases[i].user = "typed"])
             \/ i > 1 /\ Edit("databases", SelectorsIntersect(DatabaseDeleted(values, i), Shown))
    BY <1>2 DEF DatabaseBox
  <2>2. PICK i \in DOMAIN values.databases :
          \/ Edit("databases", SelectorsIntersect(DatabaseRenamed(values, i, "renamed"), Shown))
          \/ Edit("databases", [values EXCEPT !.databases[i].user = "typed"])
          \/ i > 1 /\ Edit("databases", SelectorsIntersect(DatabaseDeleted(values, i), Shown))
    BY <2>1
  <2>3. ASSUME NEW u, PageInv(u, kept, expert, loaded), Changes(values, u, {"databases", "names"}),
               Edit("databases", SelectorsIntersect(u, Shown))
        PROVE  Edited
    BY <2>3, DatabasesEditFits DEF Edit, OnForm
  <2>4. CASE Edit("databases", SelectorsIntersect(DatabaseRenamed(values, i, "renamed"), Shown))
    BY <2>1, <2>3, <2>4, RenamedFits DEF OnForm
  <2>5. CASE Edit("databases", [values EXCEPT !.databases[i].user = "typed"])
    BY <2>5, UserTyped
  <2>6. CASE i > 1 /\ Edit("databases", SelectorsIntersect(DatabaseDeleted(values, i), Shown))
    BY <2>1, <2>3, <2>6, DeletedFits DEF OnForm
  <2> QED BY <2>2, <2>4, <2>5, <2>6
<1> QED BY <1>1, <1>2

(* The pools are no field of the above. *)
LEMMA PoolsEdit == ASSUME OnForm, ConnectionPoolsBlock \/ ConnectionPoolBox PROVE Edited
<1>1. HasFields(values)
  BY DEF OnForm, PageInv
<1>2. /\ \A x : Changes(values, [values EXCEPT !["pools"] = x], {})
      /\ \A x : Changes(values, Set(values, "pooler", x), {})
  BY <1>1 DEF Changes, Set, HasFields, Fields
<1>3. CASE ConnectionPoolsBlock
  <2>1. CASE Edit("pools", IF values.pooler THEN Set(values, "pooler", FALSE)
                           ELSE PoolBoxesMount(Set(values, "pooler", TRUE)))
    <3> DEFINE u == Set(values, "pooler", TRUE)
    <3>1. Changes(values, u, {})
      BY <1>2
    <3> HIDE DEF u
    <3>2. Changes(u, PoolBoxesMount(u), {})
      BY <3>1, PoolBoxesChange DEF Changes
    <3>3. Changes(values, PoolBoxesMount(u), {})
      BY <3>1, <3>2, ChangesTwice
    <3>4. CASE values.pooler
      BY <1>2, <2>1, <3>4, NothingEdited
    <3>5. CASE ~values.pooler
      BY <2>1, <3>3, <3>5, NothingEdited DEF u
    <3> QED BY <3>4, <3>5
  <2>2. CASE Edit("pools", PoolBoxMounts(Appended(values, "pools", ""), Len(values.pools) + 1))
    <3> DEFINE u == Appended(values, "pools", "")
               n == Len(values.pools) + 1
    <3>1. Changes(values, u, {})
      BY <1>2 DEF Appended
    <3> HIDE DEF u, n
    <3>2. Changes(u, PoolBoxMounts(u, n), {})
      BY <3>1, PoolBoxChange DEF Changes
    <3>3. Changes(values, PoolBoxMounts(u, n), {})
      BY <3>1, <3>2, ChangesTwice
    <3> QED BY <2>2, <3>3, NothingEdited DEF u, n
  <2>3. CASE \E i : Edit("pools", Removed(values, "pools", i))
    BY <1>2, <2>3, NothingEdited DEF Removed
  <2> QED BY <1>3, <2>1, <2>2, <2>3 DEF ConnectionPoolsBlock
<1>4. CASE ConnectionPoolBox
  <2>1. PICK i : Edit("pools", [values EXCEPT !.pools[i] = "typed"])
    BY <1>4 DEF ConnectionPoolBox
  <2>2. [values EXCEPT !.pools[i] = "typed"]
        = [values EXCEPT !["pools"] = [values.pools EXCEPT ![i] = "typed"]]
    OBVIOUS
  <2> QED BY <1>2, <2>1, <2>2, NothingEdited
<1> QED BY <1>3, <1>4

(* The extensions in sight, and what is selected. *)
LEMMA ExtensionsEdit == ASSUME OnForm, ExtensionsBlock PROVE Edited
<1>1. PICK hidden : EditKeeping("extensions", SelectorsIntersect(values, boxes.hidden \ hidden),
                                kept, [boxes EXCEPT !.hidden = hidden])
  BY DEF ExtensionsBlock
<1> DEFINE w == SelectorsIntersect(values, boxes.hidden \ hidden)
           b == [boxes EXCEPT !.hidden = hidden]
<1>2. b.hidden = hidden /\ "hidden" \in DOMAIN b
  BY DEF OnForm
<1>3. \A e \in ShownAt(values.version, hidden) \ (boxes.hidden \ hidden) :
        expert /\ values.extensions # None => values.extensions[e] \subseteq DOMAIN values.names
  BY DEF OnForm, SelectedInv, ShownAt
<1>4. /\ PageInv(w, kept, expert, loaded) /\ w.creationType = "form"
      /\ w.secret = values.secret /\ w.provider = values.provider
      /\ SelectedInv(w, expert, hidden)
  BY <1>3, SelectorsKeep DEF OnForm
<1>5. EditKeeping("extensions", w, kept, b)
  BY <1>1
<1> HIDE DEF w, b
<1>6. Filled(w, kept, b)
  BY <1>2, <1>4 DEF Filled, SecretFits
<1> QED BY <1>5, <1>6 DEF EditKeeping, Edited

LEMMA SelectionEdit == ASSUME OnForm, ExtensionSelector PROVE Edited
<1>1. /\ expert
      /\ \E e \in Shown : \E ids \in SUBSET DOMAIN values.names :
           Edit("extensions", ExtensionSelected(values, e, ids))
  BY DEF ExtensionSelector
<1>2. PICK e \in Shown, ids \in SUBSET DOMAIN values.names :
        Edit("extensions", ExtensionSelected(values, e, ids))
  BY <1>1
<1> DEFINE v == ExtensionSelected(values, e, ids)
<1>3. HasFields(values) /\ DatabasesInv(values, expert, loaded)
  BY DEF OnForm, PageInv
<1>4. /\ Changes(values, v, {"extensions"})
      /\ v.extensions = IF values.extensions = None
                        THEN [x \in DOMAIN Extensions |-> IF x = e THEN ids ELSE {}]
                        ELSE [values.extensions EXCEPT ![e] = ids]
  BY <1>3 DEF ExtensionSelected, Changes, HasFields, Fields
<1>5. e \in DOMAIN Extensions
  BY DEF Shown, ShownAt
<1>6. /\ v.databases = values.databases /\ v.names = values.names
      /\ v.version = values.version /\ v.creationType = "form" /\ v.secret = values.secret
      /\ v.provider = values.provider
  BY <1>4 DEF Changes, Fields, OnForm
<1> HIDE DEF v
<1>7. loaded => /\ values.extensions \in [DOMAIN Extensions -> SUBSET Nat]
                /\ values.extensions # None /\ ids \subseteq Nat
                /\ NamesInv(values) /\ IdsBounded(values)
  BY <1>1, <1>3, BoundsAssumption DEF DatabasesInv, NamesInv
<1>8. DOMAIN v.extensions = DOMAIN Extensions
  BY <1>3, <1>4 DEF DatabasesInv
<1>9. loaded => v.extensions \in [DOMAIN Extensions -> SUBSET Nat]
  BY <1>4, <1>5, <1>7
<1>10. loaded => NamesInv(v)
  BY <1>6, <1>7 DEF NamesInv
<1>11. loaded => IdsBounded(v)
  <2> SUFFICES ASSUME loaded PROVE IdsBounded(v)
    OBVIOUS
  <2>1. PICK bound \in Nat :
          /\ \A n \in DOMAIN values.names : n <= bound
          /\ \A x \in DOMAIN Extensions : \A n \in values.extensions[x] : n <= bound
    BY <1>7 DEF IdsBounded
  <2>2. v.extensions = [values.extensions EXCEPT ![e] = ids]
    BY <1>4, <1>7
  <2>3. \A x \in DOMAIN Extensions : \A n \in v.extensions[x] :
          n \in values.extensions[x] \/ n \in DOMAIN values.names
    BY <1>7, <2>2
  <2> QED BY <1>6, <2>1, <2>3 DEF IdsBounded
<1>12. DatabasesInv(v, expert, loaded)
  BY <1>8, <1>9, <1>10, <1>11 DEF DatabasesInv
<1>13. PageInv(v, kept, expert, loaded)
  BY <1>4, <1>12, ChangesWithin, DatabasesEdited DEF OnForm, DatabasesFields
<1>14. SelectedInv(v, expert, boxes.hidden)
  <2> SUFFICES ASSUME NEW x \in ShownAt(values.version, boxes.hidden)
               PROVE  v.extensions[x] \subseteq DOMAIN values.names
    BY <1>6 DEF SelectedInv
  <2>1. x \in DOMAIN Extensions
    BY DEF ShownAt
  <2>2. CASE values.extensions = None
    BY <1>4, <2>1, <2>2
  <2>3. CASE values.extensions # None
    <3>1. values.extensions[x] \subseteq DOMAIN values.names
      BY <1>1, <2>3 DEF OnForm, SelectedInv
    <3>2. v.extensions[x] \in {ids, values.extensions[x]}
      BY <1>3, <1>4, <2>1, <2>3 DEF DatabasesInv
    <3> QED BY <3>1, <3>2
  <2> QED BY <2>2, <2>3
<1>15. Filled(v, kept, boxes)
  BY <1>6, <1>13, <1>14 DEF Filled, SecretFits, OnForm
<1> QED BY <1>2, <1>15 DEF Edit, EditKeeping, Edited, v

(* The backups and their configuration. *)
LEMMA BackupsEdit == ASSUME OnForm, BackupsBlock \/ ConfigureBackupModal PROVE Edited
<1>1. Free("backups") /\ Free("keys")
  BY DEF Free, ServersFields, DirectoryFields, ConfigFields, CloudFields, DatabasesFields, Others
<1>2. HasFields(values)
  BY DEF OnForm, PageInv
<1>3. ASSUME NEW method, Edit("backups", MethodPicked(values, method, kept)) PROVE Edited
  <2> DEFINE v == MethodPicked(values, method, kept)
  <2>1. Changes(values, v, ConfigFields) /\ v.config = kept.config
    BY <1>2 DEF MethodPicked, Changes, HasFields, Fields, ConfigFields
  <2> HIDE DEF v
  <2>2. ConfigInv(v, kept)
    BY <2>1 DEF ConfigInv
  <2> QED BY <1>3, <2>1, <2>2, ConfigEditFits DEF v
<1>4. ASSUME NEW text \in {values.method, "junk"}, Edit("backups", Set(values, "config", text))
      PROVE  Edited
  <2> DEFINE v == Set(values, "config", text)
  <2>1. Changes(values, v, ConfigFields) /\ v.config = text /\ v.method = values.method
    BY <1>2 DEF Set, Changes, HasFields, Fields, ConfigFields
  <2> HIDE DEF v
  <2>2. ConfigInv(v, kept)
    BY <2>1 DEF ConfigInv
  <2> QED BY <1>4, <2>1, <2>2, ConfigEditFits DEF v
<1> QED BY <1>1, <1>3, <1>4, FreeFits DEF BackupsBlock, ConfigureBackupModal

(* Whatever is filled in, what is on the form still fits.                  *)
LEMMA FillInFits == ASSUME OnForm, FillIn PROVE Edited
  BY ProvidersEdit, RegionEdit, InstanceEdit, StorageEdit, AmountEdit, TextsEdit, ServersEdit,
     BalancersEdit, DcsEdit, RestEdit, AuthenticationEdit, VersionEdit, DirectoryEdit,
     DatabasesEdit, PoolsEdit, ExtensionsEdit, SelectionEdit, BackupsEdit DEF FillIn

-----------------------------------------------------------------------------
(***************************************************************************)
(* The page, from its opening to the request.                              *)
(***************************************************************************)

FieldsOfAttempt ==
  {"step", "from", "save", "type", "values", "custom", "typed", "chosen", "list", "created",
   "project", "kept"}

(* A form that is submitted was accepted, and what was on it fits; own     *)
(* machines are submitted from the page.                                   *)
AttemptOK(a, x, l) ==
  /\ FieldsOfAttempt \subseteq DOMAIN a /\ a.from \in Components
  /\ a.values.creationType # "yaml" =>
       /\ a.custom = None /\ FormValid(a.values, x) /\ PageInv(a.values, a.kept, x, l)
       /\ a.values.provider = "local" => a.from = "page"

(* What is on the page fits. *)
ViewInv ==
  /\ view \in {"away", "loading", "form", "yaml", "broken"}
  /\ view # "away" => screen = "form"
  /\ view = "loading" => values = FormDefaults(loaded)
  /\ view \in {"form", "yaml"} =>
       PageInv(values, kept, expert, loaded) /\ values.creationType = view
  /\ view = "form" => SelectedInv(values, expert, boxes.hidden)
  /\ "hidden" \in DOMAIN boxes

(* The modal is open in front of an accepted form for a cloud.             *)
ModalInv ==
  /\ "open" \in DOMAIN modal
  /\ modal.open /\ view = "form" => FormValid(values, expert) /\ values.provider # "local"

(* A request under way keeps the settings away, and the flags as they are. *)
FlightInv ==
  flight # None =>
    /\ screen \in {"form", "clusters"}
    /\ AttemptOK(flight, expert, loaded)

(* The last request was made from an attempt, and making it did not throw. *)
SentInv ==
  sent # None =>
    /\ AttemptOK(sent.attempt, sent.expert, sent.loaded)
    /\ sent.secret = SecretOf(sent.attempt, sent.created)
    /\ sent.ha = HighAvailability(sent.attempt.values, sent.expert)
    /\ sent.request = Request(sent.attempt.values, sent.secret, sent.attempt.project,
                              sent.attempt.typed, sent.attempt.custom, sent.expert)
    /\ ~RequestThrows(sent.attempt.values, sent.attempt.custom, sent.expert)

PageStateInv == ViewInv /\ ModalInv /\ FlightInv /\ SentInv

(* Render leaves the values to the authentication block, and the modal     *)
(* open only where it is asked for.                                        *)
LEMMA RenderLeaves ==
  ASSUME NEW p, Render(p)
  PROVE  /\ view' = p.view /\ kept' = p.kept
         /\ HasFields(p.values) => Changes(p.values, values', {"defined", "secret"})
         /\ p.view # "form" \/ p.values.provider # "local" => values' = p.values
         /\ \/ modal' = ModalShut
            \/ modal' = p.modal /\ p.view = view
               /\ (p.view = "yaml" \/ (p.view = "form" /\ p.values.provider # "local"))
<1> DEFINE authShown == p.view = "form" /\ p.values.provider = "local"
           asks == AsksInModal(p.values, p.view, held'.page)
<1>1. view' = p.view /\ kept' = p.kept
  BY DEF Render
<1>2. \/ authShown /\ \E count, before :
           values' = AuthenticationEffects(p.values, values, count, before, p.kept)
      \/ ~authShown /\ values' = p.values
  BY DEF Render
<1>3. modal' = ModalShut \/ (modal' = p.modal /\ p.view = view /\ asks)
  BY DEF Render
<1>4. HasFields(p.values) => Changes(p.values, values', {"defined", "secret"})
  BY <1>2 DEF AuthenticationEffects, Changes, HasFields, Fields
<1> QED BY <1>1, <1>2, <1>3, <1>4 DEF AsksInModal

(* A step of the page leaves it fitting. *)
LEMMA RenderFits ==
  ASSUME NEW p, Render(p), "hidden" \in DOMAIN boxes',
         p.view \in {"away", "loading", "form", "yaml", "broken"},
         p.view # "away" => screen' = "form",
         p.view = "loading" => p.values = FormDefaults(loaded'),
         p.view \in {"form", "yaml"} =>
           PageInv(p.values, p.kept, expert', loaded') /\ p.values.creationType = p.view,
         p.view = "form" => SelectedInv(p.values, expert', boxes'.hidden),
         "open" \in DOMAIN p.modal,
         p.modal.open /\ view = "form" /\ p.view = "form" /\ p.values.provider # "local" =>
           FormValid(p.values, expert')
  PROVE  ViewInv' /\ ModalInv'
<1>1. /\ view' = p.view /\ kept' = p.kept
      /\ HasFields(p.values) => Changes(p.values, values', {"defined", "secret"})
      /\ p.view # "form" \/ p.values.provider # "local" => values' = p.values
      /\ \/ modal' = ModalShut
         \/ modal' = p.modal /\ p.view = view
            /\ (p.view = "yaml" \/ (p.view = "form" /\ p.values.provider # "local"))
  BY RenderLeaves
<1>2. p.view \in {"form", "yaml"} =>
        /\ PageInv(values', kept', expert', loaded') /\ values'.creationType = p.view
        /\ values'.provider = p.values.provider
  <2> SUFFICES ASSUME p.view \in {"form", "yaml"}
               PROVE  /\ PageInv(values', kept', expert', loaded')
                      /\ values'.creationType = p.view /\ values'.provider = p.values.provider
    OBVIOUS
  <2>1. Changes(p.values, values', {"defined", "secret"})
    BY <1>1 DEF PageInv
  <2>2. PageInv(values', kept', expert', loaded')
    BY <1>1, <2>1, OtherFieldsKept
  <2> QED BY <2>1, <2>2 DEF Changes, Fields
<1>3. p.view = "form" => SelectedInv(values', expert', boxes'.hidden)
  <2> SUFFICES ASSUME p.view = "form" PROVE SelectedInv(values', expert', boxes'.hidden)
    OBVIOUS
  <2>1. Changes(p.values, values', {"defined", "secret"})
    BY <1>1 DEF PageInv
  <2> QED BY <2>1, SelectedKept
<1>4. ViewInv'
  BY <1>1, <1>2, <1>3 DEF ViewInv
<1>5. ModalInv'
  <2>1. CASE modal' = ModalShut
    BY <2>1 DEF ModalInv, ModalShut
  <2>2. CASE modal' # ModalShut
    BY <1>1, <1>2, <2>2 DEF ModalInv
  <2> QED BY <2>1, <2>2
<1> QED BY <1>4, <1>5

(* The first box, whose name is the default. *)
LEMMA FirstBox ==
  ASSUME expert, NEW u, HasFields(u),
         u.databases = <<[id |-> 1, name |-> "db1", user |-> "db1"]>>, u.names = <<>>,
         u.extensions = [e \in DOMAIN Extensions |-> {}]
  PROVE  NamesInv(DatabaseBoxesMount(u)) /\ IdsBounded(DatabaseBoxesMount(u))
<1> DEFINE last == DatabaseBoxMounts(u, 1)
           w == DatabaseBoxesMount(u)
           row == [id |-> 1, name |-> "db1", user |-> "db1"]
<1>1. /\ Len(u.databases) = 1 /\ DOMAIN u.databases = 1..1 /\ u.databases[1] = row
      /\ DOMAIN u.names = {}
  OBVIOUS
<1>2. Boxes(u) = 1..1
  BY <1>1 DEF Boxes, ExpertShown
<1>3. /\ HasFields(last) /\ last.databases = [u.databases EXCEPT ![1].user = "db1"]
      /\ last.names = [x \in {1} |-> "db1"] ++ u.names /\ last.extensions = u.extensions
  <2>1. u.databases[1].id = 1 /\ u.databases[1].name = "db1"
    BY <1>1
  <2>2. last = [u EXCEPT !.databases[1].user = "db1",
                         !.names = [x \in {1} |-> "db1"] ++ u.names]
    BY <2>1 DEF DatabaseBoxMounts
  <2> DEFINE n == [x \in {1} |-> "db1"] ++ u.names
             d == [u.databases EXCEPT ![1].user = "db1"]
  <2>3. last = [u EXCEPT !.databases = d, !.names = n]
    BY <2>2 DEF HasFields, Fields
  <2> HIDE DEF n, d, last
  <2>4. HasFields(last) /\ last.databases = d /\ last.names = n /\ last.extensions = u.extensions
    BY <2>3 DEF HasFields, Fields
  <2> QED BY <2>4 DEF n, d
<1>4. w = [last EXCEPT !.databases = [i \in DOMAIN last.databases |->
             [last.databases[i] EXCEPT !.user = u.databases[i].name]]]
  BY <1>1, <1>2 DEF DatabaseBoxesMount
<1>5. DOMAIN last.databases = 1..1 /\ last.databases[1] = row
  <2>1. last.databases = [u.databases EXCEPT ![1] = [u.databases[1] EXCEPT !.user = "db1"]]
    BY <1>3
  <2>2. [row EXCEPT !.user = "db1"] = row
    OBVIOUS
  <2> DEFINE d == u.databases
  <2>3. DOMAIN d = 1..1 /\ d[1] = row /\ last.databases = [d EXCEPT ![1] = row]
    BY <1>1, <2>1, <2>2
  <2> HIDE DEF d, last, row
  <2> QED BY <2>3
<1> HIDE DEF last, w
<1>6. /\ w.names = [x \in {1} |-> "db1"] ++ u.names /\ w.extensions = u.extensions
      /\ w.databases = [i \in 1..1 |-> row]
  <2>1. /\ w.names = last.names /\ w.extensions = last.extensions
        /\ w.databases = [i \in DOMAIN last.databases |->
                            [last.databases[i] EXCEPT !.user = u.databases[i].name]]
    BY <1>3, <1>4 DEF HasFields, Fields
  <2>2. [row EXCEPT !.user = u.databases[1].name] = row
    BY <1>1
  <2> DEFINE g(i) == [last.databases[i] EXCEPT !.user = u.databases[i].name]
  <2>3. w.databases = [i \in 1..1 |-> g(i)] /\ g(1) = row
    BY <1>5, <2>1, <2>2
  <2> HIDE DEF row, g
  <2>4. w.databases = [i \in 1..1 |-> row]
    BY <2>3
  <2> QED BY <1>3, <2>1, <2>4
<1>7. DOMAIN w.names = {1} /\ w.names[1] = "db1"
  <2> DEFINE n == [x \in {1} |-> "db1"]
  <2>1. DOMAIN n = {1} /\ n[1] = "db1"
    OBVIOUS
  <2>2. w.names = n ++ u.names
    BY <1>6
  <2> HIDE DEF n
  <2> QED BY <1>1, <2>1, <2>2 DEF ++
<1>8. Numbered(w.databases) /\ DOMAIN w.databases = 1..1 /\ w.databases[1] = row
  <2> HIDE DEF row
  <2>1. w.databases \in [1..1 -> {row}]
    BY <1>6
  <2>2. 1 \in Nat
    OBVIOUS
  <2>3. Numbered(w.databases)
    BY <2>1, <2>2, ListFrom
  <2> QED BY <1>6, <2>3
<1>9. NamesInv(w)
  BY <1>7, <1>8 DEF NamesInv
<1>10. IdsBounded(w)
  BY <1>6, <1>7 DEF IdsBounded
<1> QED BY <1>9, <1>10 DEF w

(* The form is reset to the first of each list.                            *)
LEMMA LoadedFits ==
  ASSUME ViewInv, ModalInv, PageLoaded, screen' = screen PROVE ViewInv' /\ ModalInv'
<1> DEFINE v == [values EXCEPT
                   !.provider = FirstCloud,
                   !.region = Deployment(FirstCloud).regions[1].code,
                   !.datacenter = FirstDatacenter(FirstCloud),
                   !.instance = First(Deployment(FirstCloud).small),
                   !.version = Last(Versions), !.environment = First(Environments),
                   !.name = "name",
                   !.volume = IF expert THEN DefaultVolumeType(FirstCloud) ELSE @]
           k == [secret |-> v.secret, config |-> v.config]
           p == [Now EXCEPT !.view = "form", !.values = FormMounts(v), !.kept = k]
<1>1. view = "loading" /\ Render(p) /\ boxes' = FreshBoxes /\ UNCHANGED Rest
  BY DEF PageLoaded
<1>2. screen = "form" /\ values = FormDefaults(loaded)
  BY <1>1 DEF ViewInv
<1>3. /\ HasFields(values)
      /\ values.creationType = "form" /\ values.instanceType = "small"
      /\ values.auth = "ssh_key" /\ Numbered(values.servers) /\ Len(values.servers) = 3
      /\ loaded => /\ Numbered(values.dcsHosts) /\ values.dcsType = "etcd"
                   /\ values.balancers = <<None>>
                   /\ values.extensions = [x \in DOMAIN Extensions |-> {}]
                   /\ values.databases = <<[id |-> 1, name |-> "db1", user |-> "db1"]>>
      /\ ~loaded => values.extensions = None
      /\ values.names = <<>>
  <2> DEFINE d == FormDefaults(loaded)
  <2>1. /\ HasFields(d)
        /\ d.creationType = "form" /\ d.instanceType = "small"
        /\ d.auth = "ssh_key" /\ Numbered(d.servers) /\ Len(d.servers) = 3
        /\ loaded => /\ Numbered(d.dcsHosts) /\ d.dcsType = "etcd"
                     /\ d.balancers = <<None>>
                     /\ d.extensions = [x \in DOMAIN Extensions |-> {}]
                     /\ d.databases = <<[id |-> 1, name |-> "db1", user |-> "db1"]>>
        /\ ~loaded => d.extensions = None
        /\ d.names = <<>>
    BY DefaultFields
  <2>2. values = d
    BY <1>2
  <2> HIDE DEF d
  <2> QED BY <2>1, <2>2
<1>4. /\ HasFields(v) /\ v.provider = FirstCloud
      /\ v.region = Deployment(FirstCloud).regions[1].code
      /\ v.datacenter = FirstDatacenter(FirstCloud)
      /\ v.instance = First(Deployment(FirstCloud).small)
      /\ v.creationType = values.creationType /\ v.instanceType = values.instanceType
      /\ v.auth = values.auth /\ v.servers = values.servers /\ v.dcsHosts = values.dcsHosts
      /\ v.dcsType = values.dcsType /\ v.balancers = values.balancers
      /\ v.extensions = values.extensions /\ v.databases = values.databases
      /\ v.names = values.names
  BY <1>3 DEF HasFields, Fields
<1>5. p.view = "form" /\ p.values = FormMounts(v) /\ p.kept = k /\ p.modal = modal
  BY DEF Now
<1> HIDE DEF v, k, p
<1>6. ServersInv(v, loaded)
  <2>1. Numbered(<<None>>) /\ Len(<<None>>) = 1
    <3>1. <<None>> \in Seq({None})
      OBVIOUS
    <3> QED BY <3>1 DEF Numbered
  <2> DEFINE one == <<None>>
  <2>2. loaded => v.balancers = one
    BY <1>3, <1>4
  <2>3. Numbered(one) /\ Len(one) = 1
    BY <2>1
  <2> HIDE DEF one
  <2>4. Numbered(v.servers) /\ Len(v.servers) >= 1
    <3>1. v.servers = values.servers
      BY <1>4
    <3>2. Numbered(values.servers) /\ Len(values.servers) = 3
      BY <1>3, Zenon
    <3> QED BY <3>1, <3>2
  <2>5. loaded => Numbered(v.dcsHosts) /\ v.dcsType \in {"etcd", "consul"}
    BY <1>3, <1>4
  <2>6. loaded => Numbered(v.balancers) /\ Len(v.balancers) >= 1
    BY <2>2, <2>3
  <2> QED BY <2>4, <2>5, <2>6 DEF ServersInv
<1>7. ConfigInv(v, k)
  BY DEF ConfigInv, k
<1>8. /\ v.provider \in Clouds
      /\ v.region \in Codes(v.provider)
      /\ v.datacenter \in Rows(Region(v.provider, v.region).datacenters)
      /\ v.instanceType = "small" => v.instance \in Instances(v.provider)
  <2>1. FirstCloud \in Clouds
    BY CatalogueAssumption DEF FirstCloud, Clouds
  <2> QED BY <1>4, <2>1, FirstPlace, FirstInstance
<1>9. /\ v.extensions # None => DOMAIN v.extensions = DOMAIN Extensions
      /\ loaded => v.extensions \in [DOMAIN Extensions -> SUBSET Nat]
  BY <1>2, <1>3, <1>4
<1>10. ASSUME NEW u, expert, loaded, HasFields(u), u.databases = v.databases,
              u.names = v.names, u.extensions = v.extensions
       PROVE  NamesInv(DatabaseBoxesMount(u)) /\ IdsBounded(DatabaseBoxesMount(u))
  BY <1>3, <1>4, <1>10, FirstBox
<1>11. /\ PageInv(FormMounts(v), k, expert, loaded) /\ SelectedInv(FormMounts(v), expert, {})
       /\ FormMounts(v).creationType = "form"
  BY <1>3, <1>4, <1>6, <1>7, <1>8, <1>9, <1>10, MountedFits
<1>12. /\ expert' = expert /\ loaded' = loaded /\ boxes'.hidden = {} /\ "hidden" \in DOMAIN boxes'
  BY <1>1 DEF Rest, FreshBoxes
<1> QED BY <1>1, <1>2, <1>5, <1>11, <1>12, RenderFits DEF ModalInv

(* Back from the editor. *)
LEMMA ToFormFits ==
  ASSUME ViewInv, ModalInv, ToForm, screen' = screen PROVE ViewInv' /\ ModalInv'
<1> DEFINE v == Set(values, "creationType", "form")
           p == [Now EXCEPT !.view = "form", !.values = FormMounts(v)]
<1>1. view = "yaml" /\ Render(p) /\ boxes' = FreshBoxes /\ UNCHANGED Rest
  BY DEF ToForm
<1>2. screen = "form" /\ PageInv(values, kept, expert, loaded)
  BY <1>1 DEF ViewInv
<1>3. Changes(values, v, {"creationType"}) /\ v.creationType = "form"
  BY <1>2, SetChanges DEF PageInv, Fields
<1>4. p.view = "form" /\ p.values = FormMounts(v) /\ p.kept = kept /\ p.modal = modal
  BY DEF Now
<1> HIDE DEF v, p
<1>5. PageInv(v, kept, expert, loaded)
  BY <1>2, <1>3, PageKept DEF PageInv, ServersFields, DirectoryFields, ConfigFields, CloudFields,
                              DatabasesFields
<1>6. /\ HasFields(v) /\ v.auth \in {"ssh_key", "password"} /\ ServersInv(v, loaded)
      /\ ConfigInv(v, kept) /\ CloudInv(v) /\ DatabasesInv(v, expert, loaded)
  BY <1>5 DEF PageInv
<1>7. ASSUME NEW u, expert, loaded, HasFields(u), u.databases = v.databases,
             u.names = v.names, u.extensions = v.extensions
      PROVE  NamesInv(DatabaseBoxesMount(u)) /\ IdsBounded(DatabaseBoxesMount(u))
  <2>1. NamesInv(u) /\ IdsBounded(u)
    BY <1>6, <1>7 DEF DatabasesInv, NamesInv, IdsBounded
  <2> DEFINE w == DatabaseBoxesMount(u)
  <2>2. NamesInv(w) /\ DOMAIN w.names = DOMAIN u.names /\ w.extensions = u.extensions
    BY <1>7, <2>1, DatabaseBoxesChange
  <2> HIDE DEF w
  <2>3. IdsBounded(w)
    BY <2>1, <2>2, BoxesBound
  <2> QED BY <2>2, <2>3 DEF w
<1>8. /\ v.extensions # None => DOMAIN v.extensions = DOMAIN Extensions
      /\ loaded => v.extensions \in [DOMAIN Extensions -> SUBSET Nat]
      /\ v.provider \in Clouds \cup {"local"}
      /\ v.provider \in Clouds =>
           /\ v.region \in Codes(v.provider)
           /\ v.datacenter \in Rows(Region(v.provider, v.region).datacenters)
           /\ v.instanceType = "small" => v.instance \in Instances(v.provider)
  BY <1>6 DEF DatabasesInv, CloudInv
<1>9. /\ PageInv(FormMounts(v), kept, expert, loaded) /\ SelectedInv(FormMounts(v), expert, {})
      /\ FormMounts(v).creationType = "form"
  BY <1>3, <1>6, <1>7, <1>8, MountedFits
<1>10. /\ expert' = expert /\ loaded' = loaded /\ boxes'.hidden = {} /\ "hidden" \in DOMAIN boxes'
  BY <1>1 DEF Rest, FreshBoxes
<1> QED BY <1>1, <1>2, <1>4, <1>9, <1>10, RenderFits DEF ModalInv

(* A step that leaves what is on the page alone. *)
LEMMA NowFits ==
  ASSUME ViewInv, ModalInv, NEW p, Render(p), p.view = view, p.values = values, p.kept = kept,
         UNCHANGED <<expert, loaded, boxes, screen>>, "open" \in DOMAIN p.modal,
         p.modal.open => modal.open \/ view = "yaml" \/ FormValid(values, expert)
  PROVE  ViewInv' /\ ModalInv'
<1>1. /\ expert' = expert /\ loaded' = loaded /\ boxes' = boxes /\ screen' = screen
      /\ p.view \in {"away", "loading", "form", "yaml", "broken"}
      /\ p.view # "away" => screen' = "form"
      /\ p.view = "loading" => p.values = FormDefaults(loaded')
      /\ p.view \in {"form", "yaml"} =>
           PageInv(p.values, p.kept, expert', loaded') /\ p.values.creationType = p.view
      /\ p.view = "form" => SelectedInv(p.values, expert', boxes'.hidden)
      /\ "hidden" \in DOMAIN boxes'
  BY DEF ViewInv
<1>2. p.modal.open /\ view = "form" /\ p.view = "form" /\ p.values.provider # "local" =>
        FormValid(p.values, expert')
  BY <1>1 DEF ModalInv
<1> QED BY <1>1, <1>2, RenderFits

(* The page closes, or breaks. *)
LEMMA PageClosed ==
  ASSUME NEW p, Render(p), p.view \in {"away", "broken"}, p.modal = ModalShut,
         p.view # "away" => screen' = "form", boxes' = FreshBoxes
  PROVE  ViewInv' /\ ModalInv'
<1>1. "hidden" \in DOMAIN boxes' /\ "open" \in DOMAIN p.modal /\ ~p.modal.open
  BY DEF FreshBoxes, ModalShut
<1> QED BY <1>1, RenderFits

LEMMA PageOpens == ASSUME OpenPage, screen' = "form" PROVE ViewInv' /\ ModalInv'
<1> DEFINE p == [Closed EXCEPT !.view = "loading", !.values = FormDefaults(loaded')]
<1>1. Render(p) /\ boxes' = FreshBoxes
  BY DEF OpenPage
<1>2. p.view = "loading" /\ p.values = FormDefaults(loaded') /\ p.modal = ModalShut
  BY DEF Closed
<1> HIDE DEF p
<1>3. "hidden" \in DOMAIN boxes' /\ "open" \in DOMAIN p.modal /\ ~p.modal.open
  BY <1>1, <1>2 DEF FreshBoxes, ModalShut
<1> QED BY <1>1, <1>2, <1>3, RenderFits

(* An edit of the form. *)
LEMMA EditedFits ==
  ASSUME ViewInv, ModalInv, FillIn, screen' = screen PROVE ViewInv' /\ ModalInv'
<1>1. view = "form"
  BY FillInRenders
<1>2. OnForm
  BY <1>1 DEF ViewInv, OnForm
<1>3. Edited
  BY <1>2, FillInFits
<1>4. PICK v, k, b : /\ Filled(v, k, b) /\ boxes' = b
                     /\ Render([Now EXCEPT !.values = v, !.kept = k])
  BY <1>3 DEF Edited
<1> DEFINE p == [Now EXCEPT !.values = v, !.kept = k]
<1>5. p.view = "form" /\ p.values = v /\ p.kept = k /\ p.modal = modal
  BY <1>1 DEF Now
<1>6. expert' = expert /\ loaded' = loaded /\ ~modal.open
  BY <1>3 DEF Edited, Rest, PageInFront
<1> HIDE DEF p
<1>7. Render(p)
  BY <1>4 DEF p
<1>8. screen = "form" /\ "open" \in DOMAIN modal
  BY <1>1 DEF ViewInv, ModalInv
<1> QED BY <1>4, <1>5, <1>6, <1>7, <1>8, RenderFits DEF Filled

(* To the editor. *)
LEMMA ToYamlFits ==
  ASSUME ViewInv, ModalInv, ToYaml, screen' = screen PROVE ViewInv' /\ ModalInv'
<1> DEFINE v == Set(values, "creationType", "yaml")
           p == [Now EXCEPT !.view = "yaml", !.values = v, !.doc = EditorMounts(v)]
           q == [Closed EXCEPT !.view = "broken"]
<1>1. /\ view = "form" /\ ~modal.open /\ (Render(q) \/ Render(p))
      /\ boxes' = FreshBoxes /\ UNCHANGED Rest
  BY DEF ToYaml, PageInFront
<1>2. screen = "form" /\ PageInv(values, kept, expert, loaded)
  BY <1>1 DEF ViewInv
<1>3. CASE Render(q)
  <2>1. q.view = "broken" /\ q.modal = ModalShut
    BY DEF Closed
  <2> HIDE DEF q
  <2> QED BY <1>1, <1>2, <1>3, <2>1, PageClosed
<1>4. CASE Render(p)
  <2>1. Changes(values, v, {"creationType"}) /\ v.creationType = "yaml"
    BY <1>2, SetChanges DEF PageInv, Fields
  <2>2. p.view = "yaml" /\ p.values = v /\ p.kept = kept /\ p.modal = modal
    BY DEF Now
  <2> HIDE DEF p, v
  <2>3. PageInv(v, kept, expert, loaded)
    BY <1>2, <2>1, PageKept DEF PageInv, ServersFields, DirectoryFields, ConfigFields, CloudFields,
                                DatabasesFields
  <2>4. /\ expert' = expert /\ loaded' = loaded /\ "hidden" \in DOMAIN boxes'
        /\ "open" \in DOMAIN p.modal /\ ~p.modal.open
    BY <1>1, <2>2 DEF Rest, FreshBoxes, ModalInv
  <2> QED BY <1>2, <1>4, <2>1, <2>2, <2>3, <2>4, RenderFits
<1> QED BY <1>1, <1>3, <1>4

(* The secret modal opens in front of an accepted form. *)
LEMMA SecretModalFits ==
  ASSUME ViewInv, ModalInv, ClusterSecretModal, screen' = screen PROVE ViewInv' /\ ModalInv'
<1>1. PICK m : /\ ModalEdited(m) /\ "open" \in DOMAIN m
               /\ m.open => modal.open \/ view = "yaml" \/ FormValid(values, expert)
  <2> DEFINE Fits(m) == /\ "open" \in DOMAIN m
                        /\ m.open => modal.open \/ view = "yaml" \/ FormValid(values, expert)
  <2>1. /\ PageValid => Fits([modal EXCEPT !.open = TRUE])
        /\ modal.open => Fits([modal EXCEPT !.open = FALSE])
        /\ \A id : modal.open => Fits([modal EXCEPT !.chosen = id])
        /\ modal.open => Fits([modal EXCEPT !.typed = TRUE])
        /\ modal.open => Fits([modal EXCEPT !.save = ~@])
    BY DEF ModalInv, PageValid
  <2> HIDE DEF Fits
  <2>2. \E m : ModalEdited(m) /\ Fits(m)
    BY <2>1 DEF ClusterSecretModal
  <2> QED BY <2>2 DEF Fits
<1> DEFINE p == [Now EXCEPT !.modal = m]
<1>2. /\ Render(p) /\ UNCHANGED <<expert, loaded, boxes>>
      /\ p.view = view /\ p.values = values /\ p.kept = kept /\ p.modal = m
  BY <1>1 DEF ModalEdited, Rest, Now
<1> HIDE DEF p
<1> QED BY <1>1, <1>2, NowFits

(* Typing in the editor, and the lists of secrets. *)
LEMMA YamlEditedFits ==
  ASSUME ViewInv, ModalInv, YamlEdited \/ SecretsArrive, screen' = screen PROVE ViewInv' /\ ModalInv'
<1> DEFINE Same(p) == /\ p.view = view /\ p.values = values /\ p.kept = kept /\ p.modal = modal
<1>1. /\ \A valid : Same([Now EXCEPT !.doc.valid = valid])
      /\ \A d : Same([Now EXCEPT !.doc = d])
      /\ \A t, ids : Same([Now EXCEPT !.cache[t] = ids])
  BY DEF Now
<1> HIDE DEF Same
<1>2. (\E p : Render(p) /\ Same(p)) /\ UNCHANGED <<expert, loaded, boxes>>
  BY <1>1 DEF YamlEdited, SecretsArrive, Rest
<1>3. PICK p : Render(p) /\ Same(p)
  BY <1>2
<1>4. "open" \in DOMAIN modal
  BY DEF ModalInv
<1> QED BY <1>2, <1>3, <1>4, NowFits DEF Same

(* The steps that send nothing. *)
LEMMA FlightKept ==
  ASSUME FlightInv, flight' \in {None, flight}, UNCHANGED <<expert, loaded>>,
         screen' = screen \/ screen' \in {"form", "clusters"}
  PROVE  FlightInv'
  BY DEF FlightInv

LEMMA PageSteps ==
  ASSUME PageStateInv, UNCHANGED screen,
         \/ PageLoaded \/ SecretsArrive \/ FillIn \/ ToYaml \/ ToForm \/ YamlEdited
         \/ ClusterSecretModal
  PROVE  PageStateInv'
<1>1. ViewInv /\ ModalInv /\ FlightInv
  BY DEF PageStateInv
<1>2. ViewInv' /\ ModalInv'
  BY <1>1, LoadedFits, EditedFits, ToYamlFits, ToFormFits, YamlEditedFits, SecretModalFits
<1>3. sent' = None /\ UNCHANGED <<expert, loaded, flight>>
  <2>1. CASE FillIn
    BY <1>1, <2>1, FillInRenders, FillInFits DEF ViewInv, OnForm, Edited, Rest
  <2> QED BY <2>1 DEF PageLoaded, SecretsArrive, ToYaml, ToForm, YamlEdited, ClusterSecretModal,
                  ModalEdited, Rest
<1>4. FlightInv'
  BY <1>1, <1>3, FlightKept
<1> QED BY <1>2, <1>3, <1>4 DEF PageStateInv, SentInv

(* What an attempt captures of the page. *)
LEMMA AttemptFits ==
  ASSUME ViewInv, ModalInv, view \in {"form", "yaml"}, NEW from \in Components, NEW save, NEW type,
         view = "form" => /\ FormValid(values, expert)
                          /\ values.provider = "local" => from = "page"
  PROVE  LET a == Attempt(from, save, type) IN
         AttemptOK(a, expert, loaded) /\ a.created = ref[from] /\ a.from = from
<1> DEFINE a == Attempt(from, save, type)
<1>1. /\ FieldsOfAttempt \subseteq DOMAIN a /\ a.from = from /\ a.values = values
      /\ a.kept = kept
      /\ view = "form" => a.custom = None
      /\ a.created = ref[from]
  BY DEF Attempt, FieldsOfAttempt
<1> HIDE DEF a
<1>2. values.creationType # "yaml" => view = "form"
  BY DEF ViewInv
<1>3. PageInv(values, kept, expert, loaded)
  BY DEF ViewInv
<1> QED BY <1>1, <1>2, <1>3 DEF AttemptOK, a

(* The request goes, or building it throws. *)
LEMMA PostFits ==
  ASSUME ViewInv, ModalInv, screen \in {"form", "clusters"},
         UNCHANGED <<expert, loaded, boxes, screen>>,
         NEW a, AttemptOK(a, expert, loaded), NEW created,
         NEW p, p.view = view, p.values = values, p.kept = kept, p.modal = modal,
         Post(a, p, created)
  PROVE  PageStateInv'
<1> DEFINE Same(q) == /\ q.view = view /\ q.values = values /\ q.kept = kept
                      /\ q.modal \in {modal, ModalShut}
           record == [request |-> Request(a.values, SecretOf(a, created), a.project,
                                          a.typed, a.custom, expert),
                      attempt |-> a, secret |-> SecretOf(a, created), created |-> created,
                      ha |-> HighAvailability(a.values, expert),
                      expert |-> expert, loaded |-> loaded]
<1>1. Same(p) /\ Same([p EXCEPT !.modal = ModalShut]) /\ \A d : Same([p EXCEPT !.doc.object = d])
  OBVIOUS
<1>2. Same(Ended(p, a))
  BY <1>1 DEF Ended
<1>3. \/ flight' = None /\ sent' = None
      \/ /\ flight' = [a EXCEPT !.step = "cluster"] /\ sent' = record
         /\ ~RequestThrows(a.values, a.custom, expert)
  BY DEF Post
<1> HIDE DEF Same
<1>4. \E q : Render(q) /\ Same(q)
  BY <1>1, <1>2 DEF Post
<1>5. PICK q : Render(q) /\ Same(q)
  BY <1>4
<1>6. ViewInv' /\ ModalInv'
  <2>1. /\ q.view = view /\ q.values = values /\ q.kept = kept
        /\ "open" \in DOMAIN q.modal
        /\ q.modal.open => modal.open
    BY <1>5 DEF Same, ModalInv, ModalShut
  <2> QED BY <1>5, <2>1, NowFits
<1>7. expert' = expert /\ loaded' = loaded /\ screen' = screen
  OBVIOUS
<1>8. FlightInv'
  <2> DEFINE b == [a EXCEPT !.step = "cluster"]
  <2>1. /\ FieldsOfAttempt \subseteq DOMAIN b /\ b.from = a.from /\ b.values = a.values
        /\ b.custom = a.custom /\ b.kept = a.kept
    BY DEF AttemptOK, FieldsOfAttempt
  <2> HIDE DEF b
  <2>2. AttemptOK(b, expert, loaded)
    BY <2>1 DEF AttemptOK
  <2>3. flight' \in {None, b}
    BY <1>3 DEF b
  <2> QED BY <1>7, <2>2, <2>3 DEF FlightInv
<1>9. SentInv'
  <2> HIDE DEF record
  <2>1. /\ record.attempt = a /\ record.expert = expert /\ record.loaded = loaded
        /\ record.secret = SecretOf(a, created) /\ record.created = created
        /\ record.ha = HighAvailability(a.values, expert)
        /\ record.request = Request(a.values, SecretOf(a, created), a.project, a.typed, a.custom,
                                    expert)
    BY DEF record
  <2>2. CASE sent' = None
    BY <2>2 DEF SentInv
  <2>3. CASE sent' # None
    <3>1. sent' = record /\ ~RequestThrows(a.values, a.custom, expert)
      BY <1>3, <2>3
    <3> QED BY <2>1, <3>1 DEF SentInv
  <2> QED BY <2>2, <2>3
<1> QED BY <1>6, <1>8, <1>9 DEF PageStateInv

(* An attempt begins with the request for a secret, or goes at once. *)
LEMMA BeginFits ==
  ASSUME ViewInv, ModalInv, view \in {"form", "yaml"}, UNCHANGED <<expert, loaded, boxes, screen>>,
         NEW a, AttemptOK(a, expert, loaded), Begin(a, Now)
  PROVE  PageStateInv'
<1>1. screen = "form" /\ "open" \in DOMAIN modal
  BY DEF ViewInv, ModalInv
<1>2. Now.view = view /\ Now.values = values /\ Now.kept = kept /\ Now.modal = modal
  BY DEF Now
<1>3. CASE SecretFirst(a)
  <2>1. flight' = a /\ sent' = None /\ Render(Now)
    BY <1>3 DEF Begin
  <2>2. ViewInv' /\ ModalInv'
    BY <1>1, <1>2, <2>1, NowFits
  <2>3. expert' = expert /\ loaded' = loaded /\ screen' = screen
    OBVIOUS
  <2>4. FlightInv' /\ SentInv'
    BY <1>1, <2>1, <2>3 DEF FlightInv, SentInv
  <2> QED BY <2>2, <2>4 DEF PageStateInv
<1>4. CASE ~SecretFirst(a)
  <2>1. Post(a, Now, a.created)
    BY <1>4 DEF Begin
  <2> QED BY <1>1, <1>2, <2>1, PostFits
<1> QED BY <1>3, <1>4

(* The buttons. *)
LEMMA SubmitFits ==
  ASSUME PageStateInv, SubmitForm \/ SubmitYaml \/ SubmitModal, UNCHANGED screen
  PROVE  PageStateInv'
<1>1. ViewInv /\ ModalInv /\ UNCHANGED <<expert, loaded, boxes, screen>>
  BY DEF PageStateInv, SubmitForm, SubmitYaml, SubmitModal
<1>2. CASE SubmitForm \/ SubmitYaml
  <2>1. PICK save, type : Begin(Attempt("page", save, type), Now)
    BY <1>2, Zenon DEF SubmitForm, SubmitYaml
  <2>2. view \in {"form", "yaml"} /\ (view = "form" => FormValid(values, expert))
    BY <1>2 DEF SubmitForm, SubmitYaml
  <2> DEFINE a == Attempt("page", save, type)
  <2>3. AttemptOK(a, expert, loaded)
    BY <1>1, <2>2, AttemptFits DEF Components
  <2> HIDE DEF a
  <2> QED BY <1>1, <2>1, <2>2, <2>3, BeginFits DEF a
<1>3. CASE SubmitModal
  <2>1. PICK save, type : Begin(Attempt("modal", save, type), Now)
    BY <1>3, Zenon DEF SubmitModal
  <2>2. /\ view \in {"form", "yaml"}
        /\ view = "form" => FormValid(values, expert) /\ values.provider # "local"
    BY <1>1, <1>3 DEF SubmitModal, Asks, AsksInModal, ModalInv
  <2> DEFINE a == Attempt("modal", save, type)
  <2>3. AttemptOK(a, expert, loaded)
    BY <1>1, <2>2, AttemptFits DEF Components
  <2> HIDE DEF a
  <2> QED BY <1>1, <2>1, <2>2, <2>3, BeginFits DEF a
<1> QED BY <1>2, <1>3

(* The answers. *)
LEMMA AnswersFit ==
  ASSUME PageStateInv, SecretCreated \/ SecretRefused \/ ClusterRefused, UNCHANGED screen
  PROVE  PageStateInv'
<1>1. /\ ViewInv /\ ModalInv /\ UNCHANGED <<expert, loaded, boxes, screen>>
      /\ flight # None /\ AttemptOK(flight, expert, loaded) /\ screen \in {"form", "clusters"}
  BY DEF PageStateInv, FlightInv, SecretCreated, SecretRefused, ClusterRefused
<1>2. CASE SecretCreated
  <2> DEFINE id == Len(stored) + 1
             p == [Now EXCEPT !.cache = CacheInvalidated,
                              !.ref[flight.from] = IF view = "away" THEN None ELSE id,
                              !.made[flight.from] = @ + 1]
  <2>1. Post(flight, p, id)
    BY <1>2, Zenon DEF SecretCreated
  <2>2. p.view = view /\ p.values = values /\ p.kept = kept /\ p.modal = modal
    BY DEF Now
  <2> HIDE DEF p, id
  <2> QED BY <1>1, <2>1, <2>2, PostFits
<1>3. CASE SecretRefused \/ ClusterRefused
  <2> DEFINE Same(q) == /\ q.view = view /\ q.values = values /\ q.kept = kept
                        /\ q.modal \in {modal, ModalShut}
  <2>1. /\ Same(Ended(Now, flight))
        /\ \A c : Same([Ended(Now, flight) EXCEPT !.cache = c])
    BY DEF Ended, Now
  <2> HIDE DEF Same
  <2>2. (\E q : Render(q) /\ Same(q)) /\ flight' = None /\ sent' = None
    BY <1>3, <2>1, Zenon DEF SecretRefused, ClusterRefused
  <2>3. PICK q : Render(q) /\ Same(q)
    BY <2>2
  <2>4. /\ q.view = view /\ q.values = values /\ q.kept = kept
        /\ "open" \in DOMAIN q.modal
        /\ q.modal.open => modal.open
    BY <1>1, <2>3 DEF Same, ModalInv, ModalShut
  <2>5. ViewInv' /\ ModalInv'
    BY <1>1, <2>3, <2>4, NowFits
  <2> QED BY <2>2, <2>5 DEF PageStateInv, FlightInv, SentInv
<1> QED BY <1>2, <1>3

(* The page opens and closes. *)
LEMMA ComesAndGoes ==
  ASSUME PageStateInv,
         \/ OpenPage /\ screen' = "form"
         \/ (LeavePage \/ Reload \/ ClusterCreated) /\ screen' = "clusters"
  PROVE  PageStateInv'
<1>1. FlightInv
  BY DEF PageStateInv
<1>2. CASE OpenPage /\ screen' = "form"
  <2>1. flight' = None /\ sent' = None
    BY <1>2 DEF OpenPage
  <2> QED BY <1>2, <2>1, PageOpens DEF PageStateInv, FlightInv, SentInv
<1>3. CASE (LeavePage \/ Reload \/ ClusterCreated) /\ screen' = "clusters"
  <2> DEFINE Gone(p) == p.view = "away" /\ p.modal = ModalShut
  <2>1. Gone(Closed) /\ \A c : Gone([Closed EXCEPT !.cache = c])
    BY DEF Closed
  <2> HIDE DEF Gone
  <2>2. (\E p : Render(p) /\ Gone(p)) /\ boxes' = FreshBoxes /\ sent' = None
    BY <1>3, <2>1 DEF LeavePage, Reload, ClusterCreated
  <2>3. ViewInv' /\ ModalInv'
    BY <2>2, PageClosed DEF Gone
  <2>4. flight' = None \/ (flight' = flight /\ UNCHANGED <<expert, loaded>>)
    BY <1>3 DEF LeavePage, Reload, ClusterCreated, Rest
  <2>5. FlightInv'
    BY <1>1, <1>3, <2>4 DEF FlightInv
  <2> QED BY <2>2, <2>3, <2>5 DEF PageStateInv, SentInv
<1> QED BY <1>2, <1>3

(* The rest of the console: the page is left alone, or away. *)
LEMMA ElsewhereFits ==
  ASSUME PageStateInv, UNCHANGED pageVars,
         \/ UNCHANGED <<expert, loaded, screen>>
         \/ screen # "form" /\ (flight = None \/ screen' = "clusters")
              /\ (UNCHANGED <<expert, loaded>> \/ flight = None)
  PROVE  PageStateInv'
<1>1. /\ view' = view /\ values' = values /\ kept' = kept /\ boxes' = boxes /\ modal' = modal
      /\ flight' = flight /\ sent' = sent
  BY DEF pageVars
<1>2. SentInv'
  BY <1>1 DEF PageStateInv, SentInv
<1>3. CASE UNCHANGED <<expert, loaded, screen>>
  BY <1>1, <1>2, <1>3 DEF PageStateInv, ViewInv, ModalInv, FlightInv
<1>4. CASE screen # "form" /\ (flight = None \/ screen' = "clusters")
             /\ (UNCHANGED <<expert, loaded>> \/ flight = None)
  <2>1. view = "away"
    BY <1>4 DEF PageStateInv, ViewInv
  <2>2. ViewInv' /\ ModalInv'
    BY <1>1, <2>1 DEF PageStateInv, ViewInv, ModalInv
  <2>3. FlightInv'
    BY <1>1, <1>4 DEF PageStateInv, FlightInv
  <2> QED BY <1>2, <2>2, <2>3 DEF PageStateInv
<1> QED BY <1>3, <1>4

LEMMA TablesFit == ASSUME PageStateInv, TableStep PROVE PageStateInv'
<1>1. CASE \/ Poll \/ \E k \in Keys : ServiceReads(k) \/ RowsArrive(k) \/ ListFails(k)
  <2>1. UNCHANGED <<pageVars, expert, loaded, screen>>
    BY <1>1 DEF Poll, ServiceReads, RowsArrive, ListFails, formVars, pageVars
  <2> QED BY <2>1, ElsewhereFits
<1>2. CASE \/ ClusterTableRemoveButton \/ ClustersOverviewTableRowActions
           \/ ClustersOverviewTableButtons \/ ProjectsTableRowActions
           \/ EnvironmentsTableRowActions \/ SettingsTableRowActions
           \/ SettingsAddEntity \/ SettingsAddSecret
  <2>1. UNCHANGED <<pageVars, expert, loaded, screen>>
    <3>1. \E kind, list, id : Requested(kind, list, id)
      BY <1>2 DEF ClusterTableRemoveButton, ClustersOverviewTableRowActions,
           ClustersOverviewTableButtons, ProjectsTableRowActions, EnvironmentsTableRowActions,
           SettingsTableRowActions, SettingsAddEntity, SettingsAddSecret
    <3> QED BY <3>1 DEF Requested, formVars, pageVars
  <2> QED BY <2>1, ElsewhereFits
<1>3. CASE SettingsEdited \/ OthersChange \/ ServiceChanges \/ ChangeAnswered
  <2>1. UNCHANGED <<pageVars, expert, loaded, screen>>
    BY <1>3 DEF SettingsEdited, OthersChange, ServiceChanges, ChangeAnswered, formVars, pageVars
  <2> QED BY <2>1, ElsewhereFits
<1>4. CASE SaveSettings
  <2>1. UNCHANGED <<pageVars, loaded, screen>> /\ screen = "settings"
    BY <1>4 DEF SaveSettings, SettingsShown
  <2>2. flight = None
    BY <2>1 DEF PageStateInv, FlightInv
  <2> QED BY <2>1, <2>2, ElsewhereFits
<1> QED BY <1>1, <1>2, <1>3, <1>4 DEF TableStep

LEMMA PageFitsStep == PageStateInv /\ [Next]_vars => PageStateInv'
<1> SUFFICES ASSUME PageStateInv, [Next]_vars PROVE PageStateInv'
  OBVIOUS
<1>1. ViewInv /\ FlightInv
  BY DEF PageStateInv
<1>2. CASE Login
  <2>1. screen = "login" /\ screen' = "clusters" /\ UNCHANGED <<pageVars, expert, loaded>>
    BY <1>2 DEF Login, ShowPage, formVars, pageVars
  <2> QED BY <2>1, ElsewhereFits
<1>3. CASE LogoutButton \/ Sidebar \/ OpenOverview \/ ProjectPicked
  <2>1. view = "away" /\ flight = None /\ UNCHANGED pageVars
    BY <1>3 DEF LogoutButton, Sidebar, OpenOverview, ProjectPicked, Away, formVars, pageVars
  <2>2. /\ view' = "away" /\ flight' = None /\ boxes' = boxes /\ modal' = modal /\ sent' = sent
    BY <2>1 DEF pageVars
  <2>3. ViewInv' /\ ModalInv' /\ FlightInv' /\ SentInv'
    BY <2>1, <2>2 DEF PageStateInv, ViewInv, ModalInv, FlightInv, SentInv
  <2> QED BY <2>3 DEF PageStateInv
<1>4. CASE TableStep
  BY <1>4, TablesFit
<1>5. CASE FormStep
  <2>1. CASE CreateClusterButton
    BY <2>1, ComesAndGoes DEF CreateClusterButton, ShowPage
  <2>2. CASE FormCancelled \/ FormReloaded \/ FormCreatesCluster
    BY <2>2, ComesAndGoes DEF FormCancelled, FormReloaded, FormCreatesCluster, ShowPage, LoadPage
  <2>3. CASE FormStoresSecret \/ FormRefused
    BY <2>3, AnswersFit DEF FormStoresSecret, FormRefused
  <2>4. CASE FormWorks /\ UNCHANGED consoleVars
    BY <2>4, PageSteps, SubmitFits DEF FormWorks, consoleVars
  <2> QED BY <1>5, <2>1, <2>2, <2>3, <2>4 DEF FormStep
<1>6. CASE UNCHANGED vars
  <2>1. UNCHANGED <<pageVars, expert, loaded, screen>>
    BY <1>6 DEF vars, formVars, consoleVars, pageVars
  <2> QED BY <2>1, ElsewhereFits
<1> QED BY <1>2, <1>3, <1>4, <1>5, <1>6 DEF Next

LEMMA PageFitsInit == ConsoleInit => PageStateInv
<1> SUFFICES ASSUME ConsoleInit PROVE PageStateInv
  OBVIOUS
<1>1. /\ view = "away" /\ boxes = FreshBoxes /\ modal = ModalShut /\ flight = None
      /\ sent = None
  <2>1. Init
    BY DEF ConsoleInit
  <2> QED BY <2>1, Zenon DEF Init
<1>2. "hidden" \in DOMAIN boxes /\ "open" \in DOMAIN modal
  BY <1>1 DEF FreshBoxes, ModalShut
<1> QED BY <1>1, <1>2 DEF PageStateInv, ViewInv, ModalInv, FlightInv, SentInv

LEMMA PageFits == Spec => []PageStateInv
  BY PageFitsInit, PageFitsStep, PTL DEF Spec

-----------------------------------------------------------------------------
(***************************************************************************)
(* What the page and the request show.                                     *)
(***************************************************************************)

(* The names the extensions are chosen from are those of the databases,    *)
(* and a selection that is shown is of databases that exist, after any     *)
(* sequence of new, renamed and deleted boxes, of versions and of views.   *)
THEOREM NamesFollow == Spec => []DatabasesFollowed
<1>1. PageStateInv => DatabasesFollowed
  <2> SUFFICES ASSUME PageStateInv, view = "form", expert PROVE DatabasesFollowed
    BY DEF DatabasesFollowed, NamesFollowDatabases, ShownSelectionsExist
  <2>1. PageInv(values, kept, expert, loaded) /\ SelectedInv(values, expert, boxes.hidden)
    BY DEF PageStateInv, ViewInv
  <2>2. ShownSelectionsExist
    BY <2>1 DEF ShownSelectionsExist, SelectedInv, Shown
  <2>3. NamesFollowDatabases
    <3> SUFFICES ASSUME loaded
                 PROVE  /\ DOMAIN values.names = {d.id : d \in Rows(values.databases)}
                        /\ \A d \in Rows(values.databases) : values.names[d.id] = d.name
      BY DEF NamesFollowDatabases
    <3>1. NamesInv(values)
      BY <2>1 DEF PageInv, DatabasesInv
    <3> QED BY <3>1 DEF NamesInv, Rows
  <2> QED BY <2>2, <2>3 DEF DatabasesFollowed
<1> QED BY <1>1, PageFits, PTL

-----------------------------------------------------------------------------
(* The fields of a request.                                                *)

(* Fields that are left out. *)
LEMMA OnlyFields ==
  ASSUME NEW condition, NEW fields
  PROVE  /\ condition => Only(condition, fields) = fields
         /\ DOMAIN Only(condition, fields) = IF condition THEN DOMAIN fields ELSE {}
<1>1. DOMAIN <<>> = {}
  OBVIOUS
<1> QED BY <1>1 DEF Only

(* mapFormValuesToRequestFields, without YAML. *)
LEMMA RequestOfForm ==
  ASSUME NEW v, NEW secret, NEW place, NEW typed, NEW custom, NEW x
  PROVE  LET r == Request(v, secret, place, typed, custom, x) IN
         /\ r.form = (v.creationType # "yaml")
         /\ v.creationType # "yaml" =>
              /\ r.cloud = (v.provider # "local") /\ r.secret = secret
              /\ custom = None /\ v.provider # "local" => r.vars = CloudVars(v, x) ++ BaseVars(v, x)
              /\ custom = None /\ v.provider = "local" =>
                   /\ r.vars = LocalVars(v, secret, x) ++ BaseVars(v, x)
                   /\ r.envs = LocalEnvs(v, secret, x)
<1> DEFINE yaml == v.creationType = "yaml"
           Field(f, value) == IF ~yaml THEN value ELSE IF custom = None THEN None ELSE custom[f]
           top == [project |-> place, secret |-> secret, cloud |-> IsCloud(v, custom),
                   form |-> ~yaml, name |-> Field("name", v.name),
                   environment |-> Field("environment", v.environment)]
           cloud == [envs |-> typed, base64 |-> v.provider = "gcp",
                     vars |-> IF custom # None THEN Stripped(custom)
                              ELSE CloudVars(v, x) ++ BaseVars(v, x)]
           local == [envs |-> LocalEnvs(v, secret, x), base64 |-> TRUE,
                     vars |-> IF custom # None THEN Stripped(custom)
                              ELSE LocalVars(v, secret, x) ++ BaseVars(v, x),
                     existing |-> IF yaml THEN custom # None /\ custom.existing
                                  ELSE v.existing]
           more == IF IsCloud(v, custom) THEN cloud ELSE local
           r == Request(v, secret, place, typed, custom, x)
<1>1. r = top ++ more
  BY DEF Request
<1>2. /\ {"form", "cloud", "secret"} \subseteq DOMAIN top
      /\ "vars" \notin DOMAIN top /\ "envs" \notin DOMAIN top
      /\ top.form = ~yaml /\ top.cloud = IsCloud(v, custom) /\ top.secret = secret
  OBVIOUS
<1>3. ~yaml => IsCloud(v, custom) = (v.provider # "local")
  BY DEF IsCloud
<1>4. /\ {"vars", "envs"} \subseteq DOMAIN more
      /\ custom = None /\ IsCloud(v, custom) => more.vars = CloudVars(v, x) ++ BaseVars(v, x)
      /\ custom = None /\ ~IsCloud(v, custom) =>
           more.vars = LocalVars(v, secret, x) ++ BaseVars(v, x)
      /\ ~IsCloud(v, custom) => more.envs = LocalEnvs(v, secret, x)
  OBVIOUS
<1> HIDE DEF top, more, r
<1>5. /\ r.form = top.form /\ r.cloud = top.cloud /\ r.secret = top.secret
      /\ r.vars = more.vars /\ r.envs = more.envs
  <2>1. /\ \A f \in DOMAIN top : r[f] = top[f]
        /\ \A f \in DOMAIN more \ DOMAIN top : r[f] = more[f]
    BY <1>1 DEF ++
  <2> QED BY <1>2, <1>4, <2>1
<1> QED BY <1>2, <1>3, <1>4, <1>5 DEF r

(* getBaseClusterExtraVars *)
LEMMA BaseVarsFields ==
  ASSUME NEW v, NEW x
  PROVE  LET b == BaseVars(v, x) IN
         /\ {"cloud", "location", "image", "serverType", "volume", "size", "version", "dataDir",
             "dcsMembers", "user", "password"} \cap DOMAIN b = {}
         /\ "backup" \in DOMAIN b => x /\ b.backup = BackupVars(v)
<1> DEFINE lists == Only(v.pooler, [pools |-> v.pools])
           chosen == Only(v.extensions # None, [extensions |-> RequestedExtensions(v),
                                                thirdParty |-> EnabledThirdParty(v)])
           params == Only(v.pgParams # "", [pgParams |-> v.pgParams])
           kernel == Only(v.kernel # "", [kernel |-> v.kernel])
           standbys == Only(v.standby > 0, [standby |-> v.standby, strict |-> v.strict])
           first == [databases |-> v.databases, pooler |-> v.pooler, backup |-> BackupVars(v)]
           all == first ++ lists ++ chosen ++ params ++ kernel ++ standbys
           environment == [environment |-> v.environment]
           b == BaseVars(v, x)
           names == {"environment", "databases", "pooler", "backup", "pools", "extensions",
                     "thirdParty", "pgParams", "kernel", "standby", "strict"}
<1>1. b = environment ++ Only(x, all)
  BY DEF BaseVars
<1>2. /\ DOMAIN lists \subseteq {"pools"} /\ DOMAIN chosen \subseteq {"extensions", "thirdParty"}
      /\ DOMAIN params \subseteq {"pgParams"} /\ DOMAIN kernel \subseteq {"kernel"}
      /\ DOMAIN standbys \subseteq {"standby", "strict"}
  BY OnlyFields
<1>3. /\ DOMAIN first = {"databases", "pooler", "backup"} /\ first.backup = BackupVars(v)
      /\ DOMAIN environment = {"environment"}
  OBVIOUS
<1> HIDE DEF lists, chosen, params, kernel, standbys, first, environment, b
<1>4. /\ DOMAIN all \subseteq names /\ "backup" \in DOMAIN all /\ all.backup = BackupVars(v)
  <2> DEFINE a1 == first ++ lists
             a2 == a1 ++ chosen
             a3 == a2 ++ params
             a4 == a3 ++ kernel
  <2>1. /\ DOMAIN a1 = DOMAIN first \cup DOMAIN lists
        /\ "backup" \in DOMAIN a1 /\ a1.backup = BackupVars(v)
    <3>1. /\ DOMAIN (first ++ lists) = DOMAIN first \cup DOMAIN lists
          /\ \A f \in DOMAIN first : (first ++ lists)[f] = first[f]
      BY Together
    <3> QED BY <1>3, <3>1
  <2>2. /\ DOMAIN a2 = DOMAIN a1 \cup DOMAIN chosen
        /\ "backup" \in DOMAIN a2 /\ a2.backup = BackupVars(v)
    <3> HIDE DEF a1
    <3>1. /\ DOMAIN (a1 ++ chosen) = DOMAIN a1 \cup DOMAIN chosen
          /\ \A f \in DOMAIN a1 : (a1 ++ chosen)[f] = a1[f]
      BY Together
    <3> QED BY <2>1, <3>1
  <2>3. /\ DOMAIN a3 = DOMAIN a2 \cup DOMAIN params
        /\ "backup" \in DOMAIN a3 /\ a3.backup = BackupVars(v)
    <3> HIDE DEF a2
    <3>1. /\ DOMAIN (a2 ++ params) = DOMAIN a2 \cup DOMAIN params
          /\ \A f \in DOMAIN a2 : (a2 ++ params)[f] = a2[f]
      BY Together
    <3> QED BY <2>2, <3>1
  <2>4. /\ DOMAIN a4 = DOMAIN a3 \cup DOMAIN kernel
        /\ "backup" \in DOMAIN a4 /\ a4.backup = BackupVars(v)
    <3> HIDE DEF a3
    <3>1. /\ DOMAIN (a3 ++ kernel) = DOMAIN a3 \cup DOMAIN kernel
          /\ \A f \in DOMAIN a3 : (a3 ++ kernel)[f] = a3[f]
      BY Together
    <3> QED BY <2>3, <3>1
  <2>5. /\ DOMAIN all = DOMAIN a4 \cup DOMAIN standbys
        /\ "backup" \in DOMAIN all /\ all.backup = BackupVars(v)
    <3>1. all = a4 ++ standbys
      OBVIOUS
    <3> HIDE DEF a4, all
    <3>2. /\ DOMAIN all = DOMAIN a4 \cup DOMAIN standbys
          /\ \A f \in DOMAIN a4 : all[f] = a4[f]
      BY <3>1 DEF ++
    <3> QED BY <2>4, <3>2
  <2> HIDE DEF a1, a2, a3, a4, all
  <2>6. DOMAIN all = DOMAIN first \cup DOMAIN lists \cup DOMAIN chosen \cup DOMAIN params
                       \cup DOMAIN kernel \cup DOMAIN standbys
    BY <2>1, <2>2, <2>3, <2>4, <2>5
  <2> QED BY <1>2, <1>3, <2>5, <2>6
<1> HIDE DEF all
<1>5. /\ DOMAIN Only(x, all) = IF x THEN DOMAIN all ELSE {}
      /\ x => Only(x, all) = all
  BY OnlyFields
<1>6. /\ DOMAIN b = DOMAIN environment \cup DOMAIN Only(x, all)
      /\ \A f \in DOMAIN Only(x, all) \ DOMAIN environment : b[f] = Only(x, all)[f]
  <2> DEFINE last == Only(x, all)
  <2>1. b = environment ++ last
    BY <1>1
  <2> HIDE DEF last
  <2>2. /\ DOMAIN b = DOMAIN environment \cup DOMAIN last
        /\ \A f \in DOMAIN last \ DOMAIN environment : b[f] = last[f]
    BY <2>1 DEF ++
  <2> QED BY <2>2 DEF last
<1>7. DOMAIN b \subseteq names
  BY <1>3, <1>4, <1>5, <1>6
<1>8. "backup" \in DOMAIN b => x /\ b.backup = BackupVars(v)
  BY <1>3, <1>4, <1>5, <1>6
<1> QED BY <1>7, <1>8 DEF b

(* getCloudProviderExtraVars *)
LEMMA CloudVarsFields ==
  ASSUME NEW v, NEW x
  PROVE  LET c == CloudVars(v, x) IN
         /\ {"cloud", "location", "image", "serverType", "size"} \subseteq DOMAIN c
         /\ c.cloud = v.provider /\ c.location = v.datacenter /\ c.image = v.datacenter
         /\ c.serverType = (IF v.instanceType = "custom" THEN v.serverType ELSE v.instance)
         /\ c.size = v.storage
         /\ x => "volume" \in DOMAIN c
         /\ "volume" \in DOMAIN c => c.volume = v.volume
         /\ "backup" \notin DOMAIN c /\ "dataDir" \notin DOMAIN c
<1> DEFINE first == [cloud |-> v.provider,
                     serverType |-> IF v.instanceType = "custom" THEN v.serverType
                                    ELSE v.instance,
                     location |-> v.datacenter, image |-> v.datacenter,
                     count |-> v.amount, size |-> v.storage, sshKeys |-> v.sshKey]
           common == CommonVars(v)
           top == [volume |-> v.volume, publicAccess |-> v.publicAccess,
                   cloudBalancer |-> v.cloudBalancer]
           spot == Only(v.provider \in Spot /\ v.spot, [spot |-> TRUE])
           network == Only(v.network # None, [network |-> v.network])
           more == top ++ spot ++ network
           c == CloudVars(v, x)
<1>1. c = first ++ common ++ Only(x, more)
  BY DEF CloudVars
<1>2. /\ DOMAIN first = {"cloud", "serverType", "location", "image", "count", "size", "sshKeys"}
      /\ first.cloud = v.provider /\ first.location = v.datacenter
      /\ first.image = v.datacenter /\ first.size = v.storage
      /\ first.serverType = (IF v.instanceType = "custom" THEN v.serverType ELSE v.instance)
      /\ DOMAIN common = {"version", "clusterName"}
      /\ DOMAIN top = {"volume", "publicAccess", "cloudBalancer"} /\ top.volume = v.volume
  BY DEF CommonVars
<1>3. DOMAIN spot \subseteq {"spot"} /\ DOMAIN network \subseteq {"network"}
  BY OnlyFields
<1> HIDE DEF first, common, top, spot, network, c
<1>4. /\ DOMAIN more = DOMAIN top \cup DOMAIN spot \cup DOMAIN network
      /\ more.volume = v.volume
  <2> DEFINE t == top ++ spot
  <2>1. DOMAIN t = DOMAIN top \cup DOMAIN spot /\ t.volume = v.volume
    <3>1. DOMAIN t = DOMAIN top \cup DOMAIN spot /\ \A f \in DOMAIN top : t[f] = top[f]
      BY Together
    <3> QED BY <1>2, <3>1
  <2> HIDE DEF t
  <2>2. "volume" \in DOMAIN t
    BY <1>2, <2>1
  <2>3. DOMAIN (t ++ network) = DOMAIN t \cup DOMAIN network /\ (t ++ network).volume = v.volume
    <3>1. /\ DOMAIN (t ++ network) = DOMAIN t \cup DOMAIN network
          /\ \A f \in DOMAIN t : (t ++ network)[f] = t[f]
      BY Together
    <3> QED BY <2>1, <2>2, <3>1
  <2> QED BY <2>1, <2>3 DEF t
<1> HIDE DEF more
<1>5. /\ DOMAIN Only(x, more) = IF x THEN DOMAIN more ELSE {}
      /\ x => Only(x, more) = more
  BY OnlyFields
<1> DEFINE known == first ++ common
           last == Only(x, more)
<1>6. /\ DOMAIN known = DOMAIN first \cup DOMAIN common
      /\ \A f \in DOMAIN first : known[f] = first[f]
  BY Together
<1> HIDE DEF known, last
<1>7. /\ DOMAIN c = DOMAIN known \cup DOMAIN last
      /\ \A f \in DOMAIN known : c[f] = known[f]
      /\ \A f \in DOMAIN last \ DOMAIN known : c[f] = last[f]
  <2>1. c = known ++ last
    BY <1>1 DEF known, last
  <2> QED BY <2>1 DEF ++
<1>8. /\ \A f \in DOMAIN first : f \in DOMAIN c /\ c[f] = first[f]
      /\ x => "volume" \in DOMAIN c
      /\ "volume" \in DOMAIN c => c.volume = v.volume
      /\ "backup" \notin DOMAIN c /\ "dataDir" \notin DOMAIN c
  BY <1>2, <1>3, <1>4, <1>5, <1>6, <1>7 DEF last
<1> QED BY <1>2, <1>8 DEF c

(* getLocalMachineExtraVars *)
LEMMA LocalVarsFields ==
  ASSUME NEW v, NEW secret, NEW x
  PROVE  LET r == LocalVars(v, secret, x) IN
         /\ "version" \in DOMAIN r /\ r.version = v.version
         /\ "dataDir" \in DOMAIN r => x /\ r.dataDir = v.dataDir
         /\ x /\ ~v.dcsNew => "dcsMembers" \in DOMAIN r /\ r.dcsMembers = v.dcsHosts
         /\ "password" \in DOMAIN r => secret = None
         /\ "backup" \notin DOMAIN r
<1> DEFINE common == CommonVars(v)
           vip == Only(v.vip # "", [vip |-> v.vip])
           haproxy == Only(v.haproxy, [haproxy |-> TRUE])
           existing == Only(v.existing, [existingCluster |-> TRUE])
           login == Only(secret = None /\ ~v.defined /\ v.auth = "password",
                         [user |-> v.user, password |-> v.password])
           dcs == Only(~v.dcsNew, [dcsExists |-> TRUE, dcsMembers |-> v.dcsHosts])
           top == [dcsType |-> v.dcsType, dataDir |-> v.dataDir]
           more == top ++ dcs
           last == Only(x, more)
           a1 == common ++ vip
           a2 == a1 ++ haproxy
           a3 == a2 ++ existing
           a4 == a3 ++ login
           r == LocalVars(v, secret, x)
<1>1. r = a4 ++ last
  BY DEF LocalVars
<1>2. /\ DOMAIN vip \subseteq {"vip"} /\ DOMAIN haproxy \subseteq {"haproxy"}
      /\ DOMAIN existing \subseteq {"existingCluster"}
      /\ DOMAIN login \subseteq {"user", "password"}
      /\ "password" \in DOMAIN login => secret = None
      /\ DOMAIN dcs \subseteq {"dcsExists", "dcsMembers"}
  BY OnlyFields
<1>members. ~v.dcsNew => "dcsMembers" \in DOMAIN dcs /\ dcs.dcsMembers = v.dcsHosts
  <2>1. ~v.dcsNew => dcs = [dcsExists |-> TRUE, dcsMembers |-> v.dcsHosts]
    BY OnlyFields
  <2> HIDE DEF dcs
  <2> QED BY <2>1
<1>3. /\ DOMAIN common = {"version", "clusterName"} /\ common.version = v.version
      /\ DOMAIN top = {"dcsType", "dataDir"} /\ top.dataDir = v.dataDir
  BY DEF CommonVars
<1> HIDE DEF common, vip, haproxy, existing, login, dcs, top, r
<1>4. DOMAIN a1 = DOMAIN common \cup DOMAIN vip /\ "version" \in DOMAIN a1 /\ a1.version = v.version
  BY <1>3 DEF ++
<1> HIDE DEF a1
<1>5. DOMAIN a2 = DOMAIN a1 \cup DOMAIN haproxy /\ "version" \in DOMAIN a2 /\ a2.version = v.version
  BY <1>4 DEF ++
<1> HIDE DEF a2
<1>6. DOMAIN a3 = DOMAIN a2 \cup DOMAIN existing /\ "version" \in DOMAIN a3 /\ a3.version = v.version
  BY <1>5 DEF ++
<1> HIDE DEF a3
<1>7. DOMAIN a4 = DOMAIN a3 \cup DOMAIN login /\ "version" \in DOMAIN a4 /\ a4.version = v.version
  BY <1>6 DEF ++
<1>8. /\ DOMAIN more = DOMAIN top \cup DOMAIN dcs /\ more.dataDir = v.dataDir
      /\ ~v.dcsNew => "dcsMembers" \in DOMAIN more /\ more.dcsMembers = v.dcsHosts
  BY <1>3, <1>members DEF ++
<1> HIDE DEF a4, more
<1>9. DOMAIN last = (IF x THEN DOMAIN more ELSE {}) /\ (x => last = more)
  BY OnlyFields
<1> HIDE DEF last
<1>10. /\ DOMAIN r = DOMAIN a4 \cup DOMAIN last
       /\ \A f \in DOMAIN a4 : r[f] = a4[f]
       /\ \A f \in DOMAIN last \ DOMAIN a4 : r[f] = last[f]
  BY <1>1 DEF ++
<1>11. /\ DOMAIN a4 \subseteq {"version", "clusterName", "vip", "haproxy", "existingCluster",
                              "user", "password"}
       /\ "password" \in DOMAIN a4 => secret = None
       /\ DOMAIN last \subseteq {"dcsType", "dataDir", "dcsExists", "dcsMembers"}
       /\ "dataDir" \in DOMAIN last => x /\ last.dataDir = v.dataDir
       /\ x /\ ~v.dcsNew => "dcsMembers" \in DOMAIN last /\ last.dcsMembers = v.dcsHosts
  BY <1>2, <1>3, <1>4, <1>5, <1>6, <1>7, <1>8, <1>9
<1>12. x /\ ~v.dcsNew => "dcsMembers" \in DOMAIN r /\ r.dcsMembers = v.dcsHosts
  BY <1>10, <1>11
<1> QED BY <1>7, <1>10, <1>11, <1>12 DEF r

(* getLocalMachineEnvs *)
LEMMA LocalEnvsFields ==
  ASSUME NEW v, NEW secret, NEW x
  PROVE  LET r == LocalEnvs(v, secret, x) IN
         /\ secret # None => r.sshKey = None
         /\ r.master = v.servers[1].ip /\ r.replicas = Replicas(v, x)
         /\ r.balancers = BalancersEnvs(v, x)
         /\ v.dcsNew => r.etcd = DcsEnvs(v, x).etcd /\ r.consul = DcsEnvs(v, x).consul
<1> DEFINE first == [sshKey |-> IF v.auth = "ssh_key" /\ ~v.defined /\ secret = None
                                THEN v.key ELSE None,
                     master |-> v.servers[1].ip, replicas |-> Replicas(v, x),
                     balancers |-> BalancersEnvs(v, x), exists |-> PostgresExists(v, 1, x),
                     login |-> IF v.auth = "password" THEN <<v.user, v.user, v.password>>
                               ELSE <<v.user>>]
           dcs == DcsEnvs(v, x)
           r == LocalEnvs(v, secret, x)
<1>1. r = first ++ dcs
  BY DEF LocalEnvs
<1>2. /\ DOMAIN first = {"sshKey", "master", "replicas", "balancers", "exists", "login"}
      /\ secret # None => first.sshKey = None
      /\ first.master = v.servers[1].ip /\ first.replicas = Replicas(v, x)
      /\ first.balancers = BalancersEnvs(v, x)
  OBVIOUS
<1>3. v.dcsNew => {"etcd", "consul"} \subseteq DOMAIN dcs
  BY DEF DcsEnvs
<1> HIDE DEF first, dcs, r
<1>4. /\ \A f \in DOMAIN first : r[f] = first[f]
      /\ \A f \in DOMAIN dcs \ DOMAIN first : r[f] = dcs[f]
  BY <1>1 DEF ++
<1> QED BY <1>2, <1>3, <1>4 DEF r, dcs

-----------------------------------------------------------------------------
(* A request that was made from the form.                                  *)

(* The attempt behind it was accepted. *)
LEMMA SentFits ==
  ASSUME PageStateInv, SentFromForm
  PROVE  LET a == sent.attempt IN
         /\ a.values.creationType # "yaml" /\ a.custom = None
         /\ FormValid(a.values, sent.expert)
         /\ PageInv(a.values, a.kept, sent.expert, sent.loaded)
         /\ a.values.provider = "local" => a.from = "page"
         /\ sent.secret = SecretOf(a, sent.created)
         /\ sent.ha = HighAvailability(a.values, sent.expert)
         /\ ~BaseVarsThrow(a.values, sent.expert)
         /\ sent.request.cloud = (a.values.provider # "local")
         /\ a.values.provider # "local" =>
              sent.request.vars = CloudVars(a.values, sent.expert) ++ BaseVars(a.values, sent.expert)
         /\ a.values.provider = "local" =>
              /\ sent.request.vars = LocalVars(a.values, sent.secret, sent.expert)
                                       ++ BaseVars(a.values, sent.expert)
              /\ sent.request.envs = LocalEnvs(a.values, sent.secret, sent.expert)
<1> DEFINE a == sent.attempt
           r == Request(a.values, sent.secret, a.project, a.typed, a.custom, sent.expert)
<1>1. /\ sent # None /\ sent.request.form /\ AttemptOK(a, sent.expert, sent.loaded)
      /\ sent.secret = SecretOf(a, sent.created)
      /\ sent.ha = HighAvailability(a.values, sent.expert)
      /\ sent.request = r
      /\ ~RequestThrows(a.values, a.custom, sent.expert)
  BY DEF PageStateInv, SentInv, SentFromForm
<1>2. /\ r.form = (a.values.creationType # "yaml")
      /\ a.values.creationType # "yaml" =>
           /\ r.cloud = (a.values.provider # "local")
           /\ a.custom = None /\ a.values.provider # "local" =>
                r.vars = CloudVars(a.values, sent.expert) ++ BaseVars(a.values, sent.expert)
           /\ a.custom = None /\ a.values.provider = "local" =>
                /\ r.vars = LocalVars(a.values, sent.secret, sent.expert)
                              ++ BaseVars(a.values, sent.expert)
                /\ r.envs = LocalEnvs(a.values, sent.secret, sent.expert)
  BY RequestOfForm
<1> HIDE DEF r
<1>3. /\ a.values.creationType # "yaml" /\ a.custom = None /\ FormValid(a.values, sent.expert)
      /\ PageInv(a.values, a.kept, sent.expert, sent.loaded)
      /\ a.values.provider = "local" => a.from = "page"
  BY <1>1, <1>2 DEF AttemptOK
<1>4. ~BaseVarsThrow(a.values, sent.expert)
  BY <1>1, <1>3 DEF RequestThrows
<1> QED BY <1>1, <1>2, <1>3, <1>4

(* The extra vars of a cloud cluster are the fields of its provider. *)
LEMMA CloudVarsSent ==
  ASSUME PageStateInv, SentCloud
  PROVE  LET v == sent.attempt.values
             sentVars == sent.request.vars
         IN  /\ v.provider \in Clouds /\ CloudInv(v)
             /\ sentVars.cloud = v.provider /\ sentVars.location = v.datacenter
             /\ sentVars.image = v.datacenter
             /\ sentVars.serverType
                  = (IF v.instanceType = "custom" THEN v.serverType ELSE v.instance)
             /\ sentVars.size = v.storage
             /\ sent.expert => "volume" \in DOMAIN sentVars
             /\ "volume" \in DOMAIN sentVars => sentVars.volume = v.volume
<1> DEFINE v == sent.attempt.values
           c == CloudVars(v, sent.expert)
           b == BaseVars(v, sent.expert)
           sentVars == sent.request.vars
<1>1. SentFromForm /\ sent.request.cloud
  BY DEF SentCloud
<1>2. /\ PageInv(v, sent.attempt.kept, sent.expert, sent.loaded) /\ v.provider # "local"
      /\ sentVars = c ++ b
  BY <1>1, SentFits
<1>3. CloudInv(v) /\ v.provider \in Clouds
  BY <1>2 DEF PageInv, CloudInv
<1>4. /\ {"cloud", "location", "image", "serverType", "size"} \subseteq DOMAIN c
      /\ c.cloud = v.provider /\ c.location = v.datacenter /\ c.image = v.datacenter
      /\ c.serverType = (IF v.instanceType = "custom" THEN v.serverType ELSE v.instance)
      /\ c.size = v.storage
      /\ sent.expert => "volume" \in DOMAIN c
      /\ "volume" \in DOMAIN c => c.volume = v.volume
  BY CloudVarsFields
<1>5. {"cloud", "location", "image", "serverType", "volume", "size"} \cap DOMAIN b = {}
  BY BaseVarsFields
<1> HIDE DEF c, b, sentVars
<1>6. /\ DOMAIN sentVars = DOMAIN c \cup DOMAIN b
      /\ \A f \in DOMAIN c : sentVars[f] = c[f]
  BY <1>2 DEF ++
<1>7. "volume" \in DOMAIN sentVars <=> "volume" \in DOMAIN c
  BY <1>5, <1>6
<1> QED BY <1>3, <1>4, <1>6, <1>7 DEF sentVars

(* A request for a cloud cluster, and the page, speak of one cloud: its    *)
(* location, image, server type and volume are the provider's, the         *)
(* datacenter on the page is one of the region chosen, and no disk is      *)
(* smaller than its volume type allows, after any sequence of providers,   *)
(* regions, instances, volumes, views and modes.                           *)
THEOREM OneCloudSent == Spec => []OneCloud
<1>1. PageStateInv => OneCloud
  <2> SUFFICES ASSUME PageStateInv PROVE OneCloud
    OBVIOUS
  <2> DEFINE v == sent.attempt.values
             sentVars == sent.request.vars
  <2>1. ProviderSent
    <3> SUFFICES ASSUME SentCloud
                 PROVE  /\ sentVars.location \in Datacenters(sentVars.cloud)
                        /\ sentVars.image \in Datacenters(sentVars.cloud)
                        /\ v.instanceType = "small" =>
                             sentVars.serverType \in Instances(sentVars.cloud)
                        /\ "volume" \in DOMAIN sentVars =>
                             sentVars.volume \in Volumes(sentVars.cloud)
      BY DEF ProviderSent
    <3>1. /\ v.provider \in Clouds /\ CloudInv(v)
          /\ sentVars.cloud = v.provider /\ sentVars.location = v.datacenter
          /\ sentVars.image = v.datacenter
          /\ sentVars.serverType
               = (IF v.instanceType = "custom" THEN v.serverType ELSE v.instance)
          /\ "volume" \in DOMAIN sentVars => sentVars.volume = v.volume
      BY CloudVarsSent
    <3>2. Region(v.provider, v.region) \in Rows(Deployment(v.provider).regions)
      BY <3>1, RegionFound DEF CloudInv
    <3>3. v.datacenter \in Datacenters(v.provider)
      BY <3>1, <3>2 DEF CloudInv, Datacenters
    <3>4. v.instanceType = "small" => v.instance \in Instances(v.provider)
      BY <3>1 DEF CloudInv
    <3>5. v.volume \in Volumes(v.provider)
      BY <3>1 DEF CloudInv
    <3> HIDE DEF v, sentVars
    <3> QED BY <3>1, <3>3, <3>4, <3>5
  <2>2. DatacenterOfRegion
    <3> SUFFICES ASSUME view = "form", Cloud
                 PROVE  values.datacenter
                          \in Rows(Region(values.provider, values.region).datacenters)
      BY DEF DatacenterOfRegion
    <3>1. CloudInv(values)
      BY DEF PageStateInv, ViewInv, PageInv
    <3> QED BY <3>1 DEF CloudInv, Cloud
  <2>3. SizeFitsVolume
    <3> SUFFICES ASSUME SentCloud, sent.expert
                 PROVE  sentVars.size >= SmallestSize(sentVars.cloud, sentVars.volume)
      BY DEF SizeFitsVolume
    <3>1. /\ v.provider \in Clouds /\ CloudInv(v)
          /\ sentVars.cloud = v.provider /\ sentVars.size = v.storage
          /\ sentVars.volume = v.volume
      BY CloudVarsSent
    <3>2. v.storage >= SmallestSize(v.provider, v.volume)
      BY <3>1 DEF CloudInv
    <3> HIDE DEF v, sentVars
    <3> QED BY <3>1, <3>2
  <2> QED BY <2>1, <2>2, <2>3 DEF OneCloud
<1> QED BY <1>1, PageFits, PTL

(* What is sent of the backups. *)
LEMMA BackupFields ==
  ASSUME NEW v
  PROVE  LET b == BackupVars(v) IN
         /\ b.install # None =>
              /\ v.backups
              /\ v.provider \in Keyed => b.keys = v.keys
              /\ v.config # "" => "config" \in DOMAIN b
         /\ "config" \in DOMAIN b => v.config # "" /\ b.config = v.config /\ b.install = v.method
<1> DEFINE b == BackupVars(v)
<1>1. CASE ~v.backups \/ v.method = None
  <2>1. b = [install |-> None]
    BY <1>1 DEF BackupVars
  <2> HIDE DEF b
  <2>2. b.install = None /\ "config" \notin DOMAIN b
    BY <2>1
  <2> QED BY <2>2 DEF b
<1>2. CASE v.backups /\ v.method # None
  <2> DEFINE first == [install |-> v.method]
             config == Only(v.config # "", [config |-> v.config])
             keys == Only(v.provider \in Keyed, [keys |-> v.keys])
             a == first ++ config
  <2>1. b = a ++ keys
    BY <1>2 DEF BackupVars
  <2>2. DOMAIN first = {"install"} /\ first.install = v.method
    OBVIOUS
  <2>3. /\ v.config # "" => DOMAIN config = {"config"} /\ config.config = v.config
        /\ v.config = "" => DOMAIN config = {}
    <3>1. /\ v.config # "" => config = [config |-> v.config]
          /\ DOMAIN config = IF v.config # "" THEN DOMAIN [config |-> v.config] ELSE {}
      BY OnlyFields
    <3>2. DOMAIN [config |-> v.config] = {"config"} /\ [config |-> v.config].config = v.config
      OBVIOUS
    <3> HIDE DEF config
    <3>3. CASE v.config = ""
      BY <3>1, <3>3
    <3>4. CASE v.config # ""
      BY <3>1, <3>2, <3>4
    <3> QED BY <3>3, <3>4
  <2>4. /\ v.provider \in Keyed => DOMAIN keys = {"keys"} /\ keys.keys = v.keys
        /\ v.provider \notin Keyed => DOMAIN keys = {}
    <3>1. /\ v.provider \in Keyed => keys = [keys |-> v.keys]
          /\ DOMAIN keys = IF v.provider \in Keyed THEN DOMAIN [keys |-> v.keys] ELSE {}
      BY OnlyFields
    <3> HIDE DEF keys
    <3> QED BY <3>1
  <2> HIDE DEF first, config, keys, b
  <2>5. /\ DOMAIN a = {"install"} \cup DOMAIN config
        /\ a.install = v.method
        /\ "config" \in DOMAIN config => a.config = config.config
    BY <2>2 DEF ++
  <2> HIDE DEF a
  <2>6. /\ DOMAIN b = DOMAIN a \cup DOMAIN keys
        /\ \A f \in DOMAIN a : b[f] = a[f]
        /\ \A f \in DOMAIN keys \ DOMAIN a : b[f] = keys[f]
    BY <2>1 DEF ++
  <2>7. /\ v.provider \in Keyed => b.keys = v.keys
        /\ v.config # "" => "config" \in DOMAIN b /\ b.config = v.config
        /\ v.config = "" => "config" \notin DOMAIN b
        /\ b.install = v.method
    BY <2>3, <2>4, <2>5, <2>6
  <2> QED BY <1>2, <2>7 DEF b
<1> QED BY <1>1, <1>2

LEMMA BackupSent ==
  ASSUME PageStateInv, SentFromForm, "backup" \in DOMAIN sent.request.vars
  PROVE  sent.expert /\ sent.request.vars.backup = BackupVars(sent.attempt.values)
<1> DEFINE v == sent.attempt.values
           b == BaseVars(v, sent.expert)
           cloud == CloudVars(v, sent.expert)
           local == LocalVars(v, sent.secret, sent.expert)
           request == sent.request.vars
<1>1. request = cloud ++ b \/ request = local ++ b
  BY SentFits
<1>2. "backup" \in DOMAIN b => sent.expert /\ b.backup = BackupVars(v)
  BY BaseVarsFields
<1>3. "backup" \notin DOMAIN cloud /\ "backup" \notin DOMAIN local
  BY CloudVarsFields, LocalVarsFields
<1>4. "backup" \in DOMAIN request
  OBVIOUS
<1> HIDE DEF b, cloud, local, request
<1>5. CASE request = cloud ++ b
  BY <1>2, <1>3, <1>4, <1>5 DEF ++, request
<1>6. CASE request = local ++ b
  BY <1>2, <1>3, <1>4, <1>6 DEF ++, request
<1> QED BY <1>1, <1>5, <1>6 DEF v

(* What the form accepts makes a complete request: building it does not    *)
(* throw in the mode the form was made for; backups come with the keys or  *)
(* the configuration they need; and the configuration is that of the       *)
(* method, or one that a click on a provider had made the default.         *)
THEOREM CompleteRequest == Spec => []AcceptedIsComplete
<1>1. PageStateInv => AcceptedIsComplete
  <2> SUFFICES ASSUME PageStateInv PROVE AcceptedIsComplete
    OBVIOUS
  <2> DEFINE v == sent.attempt.values
             backup == sent.request.vars.backup
  <2>1. AcceptedCanBeSent
    <3> SUFFICES ASSUME view = "form", loaded = expert, FormValid(values, expert), expert
                 PROVE  ~BaseVarsThrow(values, expert)
      BY DEF AcceptedCanBeSent, RequestThrows, BaseVarsThrow
    <3>1. values.extensions \in [DOMAIN Extensions -> SUBSET Nat]
      BY DEF PageStateInv, ViewInv, PageInv, DatabasesInv
    <3>2. values.extensions # None
      BY <3>1, BoundsAssumption
    <3>3. "junk" \notin {values.pgParams, values.kernel, values.config}
      BY DEF FormValid, ExpertValid, BackupsValid, ParametersValid, ConfigFormat
    <3> QED BY <3>2, <3>3 DEF BaseVarsThrow
  <2>2. ASSUME SentFromForm, "backup" \in DOMAIN sent.request.vars
        PROVE  /\ ExpertValid(v) /\ ConfigInv(v, sent.attempt.kept)
               /\ sent.request.cloud = (v.provider # "local")
               /\ backup.install # None =>
                    /\ v.backups
                    /\ v.provider \in Keyed => backup.keys = v.keys
                    /\ v.config # "" => "config" \in DOMAIN backup
               /\ "config" \in DOMAIN backup =>
                    v.config # "" /\ backup.config = v.config /\ backup.install = v.method
    <3>1. sent.expert /\ backup = BackupVars(v)
      BY <2>2, BackupSent
    <3>2. /\ FormValid(v, sent.expert) /\ PageInv(v, sent.attempt.kept, sent.expert, sent.loaded)
          /\ sent.request.cloud = (v.provider # "local")
      BY <2>2, SentFits
    <3>3. ExpertValid(v) /\ ConfigInv(v, sent.attempt.kept)
      BY <3>1, <3>2 DEF FormValid, PageInv
    <3> HIDE DEF backup
    <3> QED BY <3>1, <3>2, <3>3, BackupFields
  <2>3. BackupsHaveWhatTheyNeed
    <3> SUFFICES ASSUME SentFromForm, "backup" \in DOMAIN sent.request.vars, backup.install # None
                 PROVE  /\ v.provider \in Keyed => backup.keys
                        /\ SentLocal => "config" \in DOMAIN backup
      BY DEF BackupsHaveWhatTheyNeed
    <3> HIDE DEF backup, v
    <3>1. v.provider \in Keyed => backup.keys
      <4> SUFFICES ASSUME v.provider \in Keyed PROVE backup.keys
        OBVIOUS
      <4>1. backup.keys = v.keys
        BY <2>2
      <4>2. v.keys
        BY <2>2 DEF ExpertValid, BackupsValid
      <4> QED BY <4>1, <4>2, Zenon
    <3>2. SentLocal => "config" \in DOMAIN backup
      <4> SUFFICES ASSUME SentLocal PROVE "config" \in DOMAIN backup
        OBVIOUS
      <4>1. v.provider = "local"
        BY <2>2 DEF SentLocal
      <4>2. v.config # ""
        BY <2>2, <4>1 DEF ExpertValid, BackupsValid
      <4> QED BY <2>2, <4>2
    <3> QED BY <3>1, <3>2
  <2>4. ConfigOfMethod
    <3> SUFFICES ASSUME SentFromForm, "backup" \in DOMAIN sent.request.vars,
                        "config" \in DOMAIN backup
                 PROVE  backup.config \in {backup.install, sent.attempt.kept.config}
      BY DEF ConfigOfMethod
    <3> HIDE DEF backup, v
    <3>1. v.config # "" /\ backup.config = v.config /\ backup.install = v.method
      BY <2>2
    <3>2. v.config \notin {None, "junk"} /\ ConfigInv(v, sent.attempt.kept)
      BY <2>2 DEF ExpertValid, BackupsValid, ConfigFormat
    <3> QED BY <3>1, <3>2 DEF ConfigInv
  <2> QED BY <2>1, <2>3, <2>4 DEF AcceptedIsComplete
<1> QED BY <1>1, PageFits, PTL

-----------------------------------------------------------------------------
(* The inventory of own machines.                                          *)

(* A list has finitely many rows, and one without repetition as many as    *)
(* its length.                                                             *)
LEMMA RowsFinite ==
  ASSUME NEW s, Numbered(s)
  PROVE  IsFiniteSet(Rows(s)) /\ (IsInjective(s) => Cardinality(Rows(s)) = Len(s))
<1>1. Len(s) \in Nat /\ DOMAIN s = 1..Len(s)
  BY Listed
<1>2. s \in [1..Len(s) -> Rows(s)]
  <2>1. PICK S : s \in Seq(S)
    BY DEF Numbered
  <2>2. s \in [1..Len(s) -> S]
    BY <2>1, LenProperties
  <2> QED BY <2>2 DEF Rows
<1>3. s \in Surjection(1..Len(s), Rows(s))
  BY <1>1, <1>2 DEF Surjection, Rows
<1>4. IsFiniteSet(1..Len(s)) /\ Cardinality(1..Len(s)) = Len(s)
  <2>1. /\ IsFiniteSet(1..Len(s))
        /\ Cardinality(1..Len(s)) = IF 1 > Len(s) THEN 0 ELSE Len(s) - 1 + 1
    BY <1>1, FS_Interval
  <2> QED BY <1>1, <2>1
<1>5. /\ IsFiniteSet(Rows(s))
      /\ Cardinality(Rows(s)) = Cardinality(1..Len(s)) <=> s \in Injection(1..Len(s), Rows(s))
  BY <1>3, <1>4, FS_Surjection
<1>6. IsInjective(s) => s \in Injection(1..Len(s), Rows(s))
  BY <1>2, Zenon DEF Injection
<1> QED BY <1>4, <1>5, <1>6

(* The addresses of the servers. *)
LEMMA AddressesOfServers ==
  ASSUME NEW v, Numbered(v.servers), Len(v.servers) >= 1
  PROVE  LET rows == ServerAddresses(v) IN
         /\ Numbered(rows) /\ Len(rows) = Len(v.servers) /\ DOMAIN rows = 1..Len(rows)
         /\ Rows(rows) # {}
         /\ \A i \in 1..Len(rows) : rows[i] = v.servers[i].ip
<1> DEFINE rows == ServerAddresses(v)
           n == Len(v.servers)
           S == {v.servers[i].ip : i \in 1..n}
<1>1. n \in Nat /\ DOMAIN v.servers = 1..n /\ n >= 1
  BY Listed
<1>2. rows = [i \in 1..n |-> v.servers[i].ip]
  BY <1>1 DEF ServerAddresses
<1>3. rows \in [1..n -> S]
  BY <1>2
<1> HIDE DEF rows, S
<1>4. Numbered(rows) /\ Len(rows) = n /\ DOMAIN rows = 1..n
  BY <1>1, <1>3, ListFrom
<1>5. Rows(rows) # {}
  <2>1. 1 \in DOMAIN rows
    BY <1>1, <1>4
  <2>2. rows[1] \in Rows(rows)
    BY <2>1 DEF Rows
  <2> QED BY <2>2
<1>6. \A i \in 1..Len(rows) : rows[i] = v.servers[i].ip
  BY <1>2, <1>4
<1> HIDE DEF n
<1>7. /\ Numbered(rows) /\ Len(rows) = n /\ DOMAIN rows = 1..Len(rows)
      /\ Rows(rows) # {}
      /\ \A i \in 1..Len(rows) : rows[i] = v.servers[i].ip
  BY <1>4, <1>5, <1>6
<1> QED BY <1>7, Zenon DEF rows, n

(* Three distinct rows of the expert mode are three members of a new DCS.  *)
LEMMA MembersEnough ==
  ASSUME NEW v, NEW l, ServersInv(v, l), l, v.dcsNew, HighAvailability(v, TRUE),
         IsInjective(Counted(v, TRUE))
  PROVE  Cardinality(Inventoried(DcsEnvs(v, TRUE))) >= 3
<1> DEFINE members == IF v.dcsOnDb THEN ServerAddresses(v) ELSE v.dcsHosts
           clients == Hosts(ServerAddresses(v), "client")
           servers == Hosts(members, "server")
           envs == DcsEnvs(v, TRUE)
           quorum == Inventoried(envs)
<1>1. /\ Numbered(v.servers) /\ Len(v.servers) >= 1 /\ Numbered(v.dcsHosts)
      /\ v.dcsType \in {"etcd", "consul"}
  BY DEF ServersInv
<1>2. Numbered(ServerAddresses(v)) /\ Len(ServerAddresses(v)) = Len(v.servers)
  BY <1>1, AddressesOfServers
<1>3. Numbered(members) /\ IsInjective(members) /\ Len(members) >= 3
  BY <1>1, <1>2 DEF HighAvailability, Counted
<1>4. IsFiniteSet(Rows(members)) /\ Cardinality(Rows(members)) >= 3
  <2> HIDE DEF members
  <2> QED BY <1>3, RowsFinite
<1>5. \/ v.dcsType = "etcd" /\ envs = [etcd |-> Hosts(members, "member"), consul |-> NoHosts]
      \/ /\ v.dcsType = "consul"
         /\ envs = [etcd |-> NoHosts, consul |-> servers ++ Only(~v.dcsOnDb, clients)]
  BY <1>1 DEF DcsEnvs
<1>6. DOMAIN NoHosts = {}
  BY DEF NoHosts
<1> HIDE DEF members, envs
<1>7. Rows(members) \subseteq quorum /\ IsFiniteSet(quorum)
  <2>1. CASE envs = [etcd |-> Hosts(members, "member"), consul |-> NoHosts]
    <3>1. envs.etcd = Hosts(members, "member") /\ envs.consul = NoHosts
      BY <2>1
    <3>2. DOMAIN envs.etcd = Rows(members) /\ DOMAIN envs.consul = {}
      BY <3>1, <1>6 DEF Hosts
    <3>3. quorum = Rows(members)
      BY <3>2 DEF Inventoried
    <3> QED BY <1>4, <3>3
  <2>2. CASE envs = [etcd |-> NoHosts, consul |-> servers ++ Only(~v.dcsOnDb, clients)]
    <3> DEFINE more == Only(~v.dcsOnDb, clients)
    <3>1. /\ DOMAIN servers = Rows(members) /\ \A a \in Rows(members) : servers[a] = "server"
          /\ DOMAIN clients = Rows(ServerAddresses(v))
      BY DEF Hosts
    <3>2. envs.etcd = NoHosts /\ envs.consul = servers ++ more
      BY <2>2
    <3>3. DOMAIN more \subseteq DOMAIN clients
      BY OnlyFields
    <3> HIDE DEF servers, clients, more
    <3>4. /\ DOMAIN envs.consul = Rows(members) \cup DOMAIN more
          /\ \A a \in Rows(members) : envs.consul[a] = "server"
      BY <3>1, <3>2 DEF ++
    <3>5. Rows(members) \subseteq quorum
      BY <3>4 DEF Inventoried
    <3>6. quorum \subseteq Rows(members) \cup Rows(ServerAddresses(v))
      BY <3>1, <3>2, <3>3, <3>4, <1>6 DEF Inventoried
    <3> HIDE DEF quorum
    <3>7. IsFiniteSet(Rows(ServerAddresses(v)))
      BY <1>2, RowsFinite
    <3>8. IsFiniteSet(Rows(members) \cup Rows(ServerAddresses(v)))
      BY <1>4, <3>7, FS_Union
    <3>9. IsFiniteSet(quorum)
      BY <3>6, <3>8, FS_Subset
    <3> QED BY <3>5, <3>9
  <2> QED BY <1>5, <2>1, <2>2
<1> HIDE DEF quorum
<1>8. Cardinality(Rows(members)) <= Cardinality(quorum)
  BY <1>7, FS_Subset
<1>9. Cardinality(Rows(members)) \in Nat /\ Cardinality(quorum) \in Nat
  BY <1>4, <1>7, FS_CardinalityType
<1>10. Cardinality(quorum) >= 3
  BY <1>4, <1>8, <1>9
<1> QED BY <1>10 DEF quorum, envs

(* The members of a DCS there is already are named in the extra vars.      *)
LEMMA MembersNamed ==
  ASSUME NEW v, NEW secret, NEW x, x, ~v.dcsNew
  PROVE  (LocalVars(v, secret, x) ++ BaseVars(v, x)).dcsMembers = v.dcsHosts
<1> DEFINE local == LocalVars(v, secret, x)
           base == BaseVars(v, x)
<1>1. "dcsMembers" \in DOMAIN local /\ local.dcsMembers = v.dcsHosts
  BY LocalVarsFields
<1>2. "dcsMembers" \notin DOMAIN base
  BY BaseVarsFields
<1> HIDE DEF local, base
<1>3. (local ++ base).dcsMembers = v.dcsHosts
  BY <1>1, <1>2 DEF ++
<1> QED BY <1>3 DEF local, base

(* In the simple mode the servers are the members of a new DCS.            *)
LEMMA ServersEnough ==
  ASSUME NEW v, NEW l, ServersInv(v, l), v.dcsNew, HighAvailability(v, FALSE),
         IsInjective(ServerAddresses(v))
  PROVE  Cardinality(Inventoried(DcsEnvs(v, FALSE))) >= 3
<1> DEFINE rows == ServerAddresses(v)
           envs == DcsEnvs(v, FALSE)
<1>1. Numbered(rows) /\ Len(rows) >= 3
  BY AddressesOfServers DEF ServersInv, HighAvailability
<1>2. envs = [etcd |-> Hosts(rows, "member"), consul |-> NoHosts]
  BY DEF DcsEnvs
<1>3. DOMAIN Hosts(rows, "member") = Rows(rows) /\ DOMAIN NoHosts = {}
  BY DEF Hosts, NoHosts
<1> HIDE DEF rows, envs
<1>4. DOMAIN envs.etcd = Rows(rows) /\ DOMAIN envs.consul = {}
  BY <1>2, <1>3
<1>5. Inventoried(envs) = Rows(rows)
  BY <1>4 DEF Inventoried
<1>6. Cardinality(Rows(rows)) >= 3
  BY <1>1, RowsFinite DEF rows
<1> QED BY <1>5, <1>6 DEF envs

(* The request for own machines is what was typed and promised: the first  *)
(* row is the master and every other row a replica, each with an address;  *)
(* there are load balancers when they were asked for; the data directory   *)
(* is that of the version, or typed; and where the summary promises high   *)
(* availability for distinct addresses, three members of the DCS are in    *)
(* the inventory or, if it exists already, named in the extra vars.  That  *)
(* is not so of the simple mode's own defaults, which deploy no DCS.       *)
THEOREM TypedInventory == Spec => []InventoryAsTyped
<1>1. PageStateInv => InventoryAsTyped
  <2> SUFFICES ASSUME PageStateInv PROVE InventoryAsTyped
    OBVIOUS
  <2> DEFINE v == sent.attempt.values
             x == sent.expert
             rows == ServerAddresses(v)
             sentVars == sent.request.vars
             envs == sent.request.envs
             local == LocalVars(v, sent.secret, x)
             base == BaseVars(v, x)
  <2>1. ASSUME SentLocal
        PROVE  /\ v.provider = "local" /\ FormValid(v, x)
               /\ ServersInv(v, sent.loaded) /\ DirectoryInv(v, x)
               /\ sent.ha = HighAvailability(v, x)
               /\ sentVars = local ++ base /\ envs = LocalEnvs(v, sent.secret, x)
    <3>1. SentFromForm /\ ~sent.request.cloud
      BY <2>1 DEF SentLocal
    <3>2. /\ FormValid(v, x) /\ PageInv(v, sent.attempt.kept, x, sent.loaded)
          /\ sent.ha = HighAvailability(v, x)
          /\ sent.request.cloud = (v.provider # "local")
          /\ v.provider = "local" =>
               sentVars = local ++ base /\ envs = LocalEnvs(v, sent.secret, x)
      BY <3>1, SentFits
    <3> HIDE DEF v, x, sentVars, envs, local, base
    <3>3. v.provider = "local"
      BY <3>1, <3>2
    <3> QED BY <3>2, <3>3 DEF PageInv
  <2>2. ASSUME SentLocal
        PROVE  /\ envs.master = v.servers[1].ip /\ envs.replicas = Replicas(v, x)
               /\ envs.balancers = BalancersEnvs(v, x)
               /\ v.dcsNew => envs.etcd = DcsEnvs(v, x).etcd /\ envs.consul = DcsEnvs(v, x).consul
    <3>1. envs = LocalEnvs(v, sent.secret, x)
      BY <2>1, <2>2
    <3> HIDE DEF envs
    <3> QED BY <3>1, LocalEnvsFields
  <2>3. ASSUME SentLocal
        PROVE  /\ Numbered(rows) /\ Len(rows) = Len(v.servers) /\ DOMAIN rows = 1..Len(rows)
               /\ Len(rows) \in Nat /\ Len(rows) >= 1
               /\ Rows(rows) # {} /\ Rows(rows) \subseteq Addresses
               /\ \A i \in 1..Len(rows) : rows[i] = v.servers[i].ip
    <3>1. Numbered(v.servers) /\ Len(v.servers) >= 1
      BY <2>1, <2>3 DEF ServersInv
    <3>2. /\ Numbered(rows) /\ Len(rows) = Len(v.servers) /\ DOMAIN rows = 1..Len(rows)
          /\ Rows(rows) # {}
          /\ \A i \in 1..Len(rows) : rows[i] = v.servers[i].ip
      BY <3>1, AddressesOfServers
    <3>3. \A s \in Rows(v.servers) : s.ip \in Addresses
      BY <2>1, <2>3 DEF FormValid, LocalValid, ServersValid
    <3>4. Len(v.servers) \in Nat /\ DOMAIN v.servers = 1..Len(v.servers)
      BY <3>1, Listed
    <3> HIDE DEF rows, v
    <3>5. Rows(rows) \subseteq Addresses
      BY <3>2, <3>3, <3>4 DEF Rows
    <3> QED BY <3>1, <3>2, <3>4, <3>5
  <2>4. ServersSent
    <3> SUFFICES ASSUME SentLocal
                 PROVE  /\ Rows(rows) \subseteq Addresses
                        /\ {envs.master} \cup envs.replicas = Rows(rows)
                        /\ envs.master \in envs.replicas
                             <=> \E i \in 2..Len(rows) : rows[i] = rows[1]
      BY DEF ServersSent
    <3>1. envs.replicas = {v.servers[i].ip : i \in 2..Len(v.servers)}
      BY <2>2 DEF Replicas
    <3>2. envs.master = v.servers[1].ip
      BY <2>2
    <3> HIDE DEF rows, envs, v
    <3>3. envs.replicas = {rows[i] : i \in 2..Len(rows)} /\ envs.master = rows[1]
      BY <2>3, <3>1, <3>2
    <3>4. {envs.master} \cup envs.replicas = Rows(rows)
      BY <2>3, <3>3 DEF Rows
    <3> QED BY <2>3, <3>3, <3>4
  <2>5. BalancersSent
    <3> SUFFICES ASSUME SentLocal, v.haproxy, x => sent.loaded
                 PROVE  envs.balancers # {} /\ envs.balancers \subseteq Addresses
      BY DEF BalancersSent
    <3>1. envs.balancers = BalancersEnvs(v, x)
      BY <2>2
    <3>2. CASE x /\ ~v.lbOnDb
      <4>1. envs.balancers = Rows(v.balancers)
        BY <3>1, <3>2 DEF BalancersEnvs
      <4>2. Numbered(v.balancers) /\ Len(v.balancers) >= 1
        BY <2>1, <3>2 DEF ServersInv
      <4>3. DOMAIN v.balancers = 1..Len(v.balancers) /\ Len(v.balancers) \in Nat
        BY <4>2, Listed
      <4>4. Rows(v.balancers) # {}
        <5>1. 1 \in DOMAIN v.balancers
          BY <4>2, <4>3
        <5>2. v.balancers[1] \in Rows(v.balancers)
          BY <5>1 DEF Rows
        <5> QED BY <5>2
      <4>5. Rows(v.balancers) \subseteq Addresses
        BY <2>1, <3>2 DEF FormValid, LocalValid, BalancersValid
      <4> QED BY <4>1, <4>4, <4>5
    <3>3. CASE ~(x /\ ~v.lbOnDb)
      <4>1. envs.balancers = Rows(rows)
        BY <3>1, <3>3 DEF BalancersEnvs
      <4> QED BY <2>3, <4>1
    <3> QED BY <3>2, <3>3
  <2>6. DirectoryOfVersion
    <3> SUFFICES ASSUME SentLocal, "dataDir" \in DOMAIN sentVars
                 PROVE  sentVars.dataDir \in {sentVars.version, "typed"}
      BY DEF DirectoryOfVersion
    <3>1. /\ "version" \in DOMAIN local /\ local.version = v.version
          /\ "dataDir" \in DOMAIN local => x /\ local.dataDir = v.dataDir
      BY LocalVarsFields
    <3>2. {"version", "dataDir"} \cap DOMAIN base = {}
      BY BaseVarsFields
    <3>3. sentVars = local ++ base
      BY <2>1
    <3> HIDE DEF sentVars, local, base
    <3>4. /\ "dataDir" \in DOMAIN local /\ sentVars.dataDir = local.dataDir
          /\ sentVars.version = local.version
      BY <3>1, <3>2, <3>3 DEF ++
    <3>5. v.dataDir \in {v.version, "typed"}
      BY <2>1, <3>1, <3>4 DEF DirectoryInv
    <3> QED BY <3>1, <3>4, <3>5
  <2>7. QuorumSent
    <3> SUFFICES ASSUME SentLocal, sent.ha, IsInjective(Counted(v, x)),
                        x \/ v.dcsNew, x => sent.loaded
                 PROVE  Cardinality(IF v.dcsNew THEN Inventoried(envs)
                                    ELSE Rows(sentVars.dcsMembers)) >= 3
      BY DEF QuorumSent
    <3>1. ServersInv(v, sent.loaded) /\ HighAvailability(v, x)
      <4>1. sent.ha = HighAvailability(v, x)
        BY <2>1
      <4>2. HighAvailability(v, x)
        BY <4>1, Zenon
      <4> QED BY <2>1, <4>2
    <3>2. CASE v.dcsNew
      <4>1. Cardinality(Inventoried(DcsEnvs(v, x))) >= 3
        <5>1. CASE x
          <6>1. HighAvailability(v, TRUE) /\ IsInjective(Counted(v, TRUE))
            BY <3>1, <5>1 DEF HighAvailability, Counted
          <6>2. Cardinality(Inventoried(DcsEnvs(v, TRUE))) >= 3
            BY <3>1, <3>2, <5>1, <6>1, MembersEnough
          <6>3. DcsEnvs(v, x) = DcsEnvs(v, TRUE)
            BY <5>1 DEF DcsEnvs
          <6> QED BY <6>2, <6>3
        <5>2. CASE ~x
          <6>1. HighAvailability(v, FALSE) /\ IsInjective(ServerAddresses(v))
            BY <3>1, <5>2 DEF HighAvailability, Counted
          <6>2. Cardinality(Inventoried(DcsEnvs(v, FALSE))) >= 3
            BY <3>1, <3>2, <6>1, ServersEnough
          <6>3. DcsEnvs(v, x) = DcsEnvs(v, FALSE)
            BY <5>2 DEF DcsEnvs
          <6> QED BY <6>2, <6>3
        <5> QED BY <5>1, <5>2
      <4>2. envs.etcd = DcsEnvs(v, x).etcd /\ envs.consul = DcsEnvs(v, x).consul
        BY <2>2, <3>2
      <4> HIDE DEF envs
      <4>3. Inventoried(envs) = Inventoried(DcsEnvs(v, x))
        BY <4>2 DEF Inventoried
      <4> QED BY <3>2, <4>1, <4>3
    <3>3. CASE ~v.dcsNew
      <4>1. x /\ sent.loaded
        BY <3>3
      <4>2. sentVars = local ++ base
        BY <2>1
      <4>3. Numbered(v.dcsHosts) /\ IsInjective(v.dcsHosts) /\ Len(v.dcsHosts) >= 3
        BY <3>1, <3>3, <4>1 DEF ServersInv, HighAvailability, Counted
      <4>4. (local ++ base).dcsMembers = v.dcsHosts
        <5> HIDE DEF v, x
        <5> QED BY <3>3, <4>1, MembersNamed
      <4> HIDE DEF sentVars, local, base, v
      <4>5. Cardinality(Rows(v.dcsHosts)) >= 3
        BY <4>3, RowsFinite
      <4> QED BY <3>3, <4>2, <4>4, <4>5
    <3> QED BY <3>2, <3>3
  <2> QED BY <2>4, <2>5, <2>6, <2>7 DEF InventoryAsTyped
<1> QED BY <1>1, PageFits, PTL

-----------------------------------------------------------------------------
(***************************************************************************)
(* The secrets on the page.                                                *)
(***************************************************************************)

(* A secret of a type, which may have been removed meanwhile. *)
OfMethod(s, id, type) == id \in DOMAIN s /\ s[id] \in {type, "gone"}

Grows(s, t) == \A id, type : OfMethod(s, id, type) => OfMethod(t, id, type)

(* The chosen secret is the default, or of the chosen method. *)
ChosenFits(v, k, s) ==
  v.secret = None \/ v.secret = k.secret \/ OfMethod(s, v.secret, v.auth)

(* A list in the cache has secrets of its type; the authentication block   *)
(* shows the list of its method when there is one; and what is chosen in   *)
(* it fits, on the page and in the last request, unless lists may be late. *)
CacheOK(c, s) ==
  /\ DOMAIN c = SecretTypes
  /\ \A t \in SecretTypes : c[t] # None => \A id \in Rows(c[t]) : OfMethod(s, id, t)

AuthInv ==
  view = "form" /\ values.provider = "local" /\ cache[values.auth] # None =>
    held.auth = [type |-> values.auth, ids |-> cache[values.auth]]

ChosenInv ==
  view = "form" /\ values.provider = "local" /\ "lag" \notin tour =>
    ChosenFits(values, kept, stored)

SentSecretInv ==
  LET v == sent.attempt.values IN
  sent # None /\ sent.created = None /\ "lag" \notin tour
  /\ v.creationType # "yaml" /\ v.provider = "local" => ChosenFits(v, kept, stored)

SecretsInv == CacheOK(cache, stored) /\ AuthInv /\ ChosenInv /\ SentSecretInv

LEMMA StoredGrows ==
  ASSUME NEW s, Numbered(s), NEW t,
         t = s \/ (\E e : t = Append(s, e)) \/ \E i : t = [s EXCEPT ![i] = "gone"]
  PROVE  Grows(s, t)
<1> SUFFICES ASSUME NEW id, NEW type, OfMethod(s, id, type) PROVE OfMethod(t, id, type)
  BY DEF Grows
<1>1. id \in DOMAIN s /\ s[id] \in {type, "gone"}
  BY DEF OfMethod
<1>2. CASE t = s
  BY <1>1, <1>2 DEF OfMethod
<1>3. CASE \E e : t = Append(s, e)
  <2>1. PICK e : t = Append(s, e)
    BY <1>3
  <2>2. /\ Numbered(t) /\ Len(t) = Len(s) + 1
        /\ \A i \in 1..Len(s) : t[i] = s[i]
    BY <2>1, ListAppended
  <2>3. /\ DOMAIN s = 1..Len(s) /\ Len(s) \in Nat /\ DOMAIN t = 1..Len(t)
    BY <2>2, Listed
  <2>4. id \in 1..Len(s)
    BY <1>1, <2>3
  <2>5. id \in 1..Len(t)
    <3>1. Len(s) \in Nat /\ Len(t) = Len(s) + 1
      BY <2>2, <2>3
    <3> QED BY <2>4, <3>1
  <2>6. t[id] = s[id]
    BY <2>2, <2>4
  <2> QED BY <1>1, <2>3, <2>5, <2>6 DEF OfMethod
<1>4. CASE \E i : t = [s EXCEPT ![i] = "gone"]
  <2>1. PICK i : t = [s EXCEPT ![i] = "gone"]
    BY <1>4
  <2>2. DOMAIN t = DOMAIN s /\ \A j \in DOMAIN s : t[j] = s[j] \/ t[j] = "gone"
    BY <2>1
  <2> QED BY <1>1, <2>2 DEF OfMethod
<1> QED BY <1>2, <1>3, <1>4

LEMMA ChosenStays ==
  ASSUME NEW v, NEW k, NEW s, NEW t, Grows(s, t), ChosenFits(v, k, s) PROVE ChosenFits(v, k, t)
  BY DEF ChosenFits, Grows

LEMMA CacheStays ==
  ASSUME NEW c, NEW s, NEW t, Grows(s, t), CacheOK(c, s) PROVE CacheOK(c, t)
  BY DEF CacheOK, Grows

(* An invalidated cache has some of the lists. *)
LEMMA InvalidatedOK ==
  ASSUME NEW s, CacheOK(cache, s)
  PROVE  /\ CacheOK(CacheInvalidated, s)
         /\ \A t \in SecretTypes : CacheInvalidated[t] \in {None, cache[t]}
  BY DEF CacheOK, CacheInvalidated

(* A list that arrives has the secrets of its type. *)
LEMMA ArrivedOK ==
  ASSUME NEW c, NEW s, Numbered(s), CacheOK(c, s), NEW type
  PROVE  CacheOK([c EXCEPT ![type] = OfType(type, s)], s)
<1> DEFINE S == {i \in DOMAIN s : s[i] = type}
           list == SetToSeq(S)
           n == Cardinality(S)
<1>1. IsFiniteSet(S)
  <2>1. Len(s) \in Nat /\ DOMAIN s = 1..Len(s)
    BY Listed
  <2>2. IsFiniteSet(1..Len(s))
    BY <2>1, FS_Interval
  <2> QED BY <2>1, <2>2, FS_Subset
<1>2. \E f \in [1..n -> S] : IsInjective(f)
  <2>1. ExistsBijection(1..n, S)
    BY <1>1, FS_CardinalityType
  <2> QED BY <2>1, Zenon DEF ExistsBijection, Bijection, Injection
<1>3. list \in [1..n -> S]
  BY <1>2, Zenon DEF SetToSeq
<1>4. \A id \in Rows(list) : OfMethod(s, id, type)
  BY <1>3 DEF Rows, OfMethod
<1>5. OfType(type, s) = list
  BY DEF OfType
<1> HIDE DEF list
<1> QED BY <1>4, <1>5 DEF CacheOK

(* What Render does to the authentication block. *)
LEMMA RenderChooses ==
  ASSUME NEW p, Render(p), p.view = "form", p.values.provider = "local", HasFields(p.values),
         p.values.auth \in SecretTypes
  PROVE  /\ values'.auth = p.values.auth /\ values'.provider = "local"
         /\ p.cache[p.values.auth] # None =>
              held'.auth = [type |-> p.values.auth, ids |-> p.cache[p.values.auth]]
         /\ \/ values'.secret = p.kept.secret
            \/ /\ view = "form" /\ held.auth # None /\ p.values.auth = values.auth
               /\ values'.secret = p.values.secret
<1> DEFINE Before(h) == IF p.view = view THEN held[h] ELSE None
           auth == ListShown(Before("auth"), p.cache, p.values.auth)
           counted == IF Before("auth") = None THEN None ELSE Count(Before("auth"))
           defined == IF Count(auth) # counted THEN Count(auth) > 0 ELSE p.values.defined
           again == counted = None \/ defined # values.defined \/ p.values.auth # values.auth
<1>1. /\ held'.auth = auth
      /\ values' = AuthenticationEffects(p.values, values, Count(auth), counted, p.kept)
  BY DEF Render
<1>2. values' = [p.values EXCEPT !.defined = defined,
                                 !.secret = IF again THEN p.kept.secret ELSE @]
  BY <1>1 DEF AuthenticationEffects
<1>3. p.cache[p.values.auth] # None => auth = [type |-> p.values.auth, ids |-> p.cache[p.values.auth]]
  BY DEF ListShown, Cached
<1>4. ~again => view = "form" /\ held["auth"] # None /\ p.values.auth = values.auth
  OBVIOUS
<1> HIDE DEF auth, counted, defined, again
<1>5. /\ values'.auth = p.values.auth /\ values'.provider = "local"
      /\ values'.secret = IF again THEN p.kept.secret ELSE p.values.secret
  BY <1>2 DEF HasFields, Fields
<1>6. held["auth"] = held.auth
  OBVIOUS
<1> QED BY <1>1, <1>3, <1>4, <1>5, <1>6

(* A step of the page, with the lists and the secret it leaves. *)
LEMMA RenderSecrets ==
  ASSUME SecretsInv, NEW p, Render(p), tour' = tour, Grows(stored, stored'),
         CacheOK(p.cache, stored'),
         p.view = "form" /\ p.values.provider = "local" =>
           /\ HasFields(p.values) /\ p.values.auth \in SecretTypes
           /\ view = "form" /\ p.values.auth = values.auth /\ "lag" \notin tour =>
                ChosenFits(p.values, p.kept, stored')
  PROVE  CacheOK(cache, stored)' /\ AuthInv' /\ ChosenInv'
<1>1. view' = p.view /\ cache' = p.cache /\ kept' = p.kept
  BY DEF Render
<1>2. view' = "form" /\ values'.provider = "local" => p.values.provider = "local"
  BY <1>1, RenderLeaves
<1>3. CASE view' = "form" /\ values'.provider = "local"
  <2>1. /\ p.view = "form" /\ p.values.provider = "local" /\ HasFields(p.values)
        /\ p.values.auth \in SecretTypes
        /\ view = "form" /\ p.values.auth = values.auth /\ "lag" \notin tour =>
                ChosenFits(p.values, p.kept, stored')
    BY <1>1, <1>2, <1>3
  <2>2. /\ values'.auth = p.values.auth
        /\ p.cache[p.values.auth] # None =>
             held'.auth = [type |-> p.values.auth, ids |-> p.cache[p.values.auth]]
        /\ \/ values'.secret = p.kept.secret
           \/ /\ view = "form" /\ held.auth # None /\ p.values.auth = values.auth
              /\ values'.secret = p.values.secret
    BY <2>1, RenderChooses
  <2>3. AuthInv'
    BY <1>1, <2>2 DEF AuthInv
  <2>4. "lag" \notin tour => ChosenFits(values', kept', stored')
    BY <1>1, <2>1, <2>2 DEF ChosenFits
  <2> QED BY <1>1, <2>3, <2>4 DEF ChosenInv
<1>4. CASE ~(view' = "form" /\ values'.provider = "local")
  BY <1>1, <1>4 DEF AuthInv, ChosenInv
<1> QED BY <1>1, <1>3, <1>4

(* A step that leaves the values alone. *)
LEMMA NowChosen ==
  ASSUME ViewInv, SecretsInv, NEW p, Render(p), tour' = tour, Grows(stored, stored'),
         CacheOK(p.cache, stored'), p.view = view, p.values = values, p.kept = kept
  PROVE  CacheOK(cache, stored)' /\ AuthInv' /\ ChosenInv'
<1>1. p.view = "form" /\ p.values.provider = "local" =>
        /\ HasFields(p.values) /\ p.values.auth \in SecretTypes
        /\ view = "form" /\ p.values.auth = values.auth /\ "lag" \notin tour =>
             ChosenFits(p.values, p.kept, stored')
  <2> SUFFICES ASSUME view = "form", values.provider = "local"
               PROVE  /\ HasFields(values) /\ values.auth \in SecretTypes
                      /\ "lag" \notin tour => ChosenFits(values, kept, stored')
    OBVIOUS
  <2>1. HasFields(values) /\ values.auth \in SecretTypes
    BY DEF ViewInv, PageInv, SecretTypes
  <2>2. "lag" \notin tour => ChosenFits(values, kept, stored)
    BY DEF SecretsInv, ChosenInv
  <2> QED BY <2>1, <2>2, ChosenStays
<1> QED BY <1>1, RenderSecrets

(* The page is away, or another one. *)
LEMMA OtherPage ==
  ASSUME SecretsInv, NEW p, Render(p), tour' = tour, Grows(stored, stored'),
         CacheOK(p.cache, stored'), p.view # view \/ p.view = "away",
         p.view = "form" => ViewInv'
  PROVE  CacheOK(cache, stored)' /\ AuthInv' /\ ChosenInv'
<1>1. view' = p.view
  BY DEF Render
<1>2. DOMAIN values' = DOMAIN p.values /\ (HasFields(p.values) => values'.auth = p.values.auth)
  <2>1. \/ values' = p.values
        \/ \E count, before :
             values' = AuthenticationEffects(p.values, values, count, before, p.kept)
    BY DEF Render
  <2> QED BY <2>1 DEF AuthenticationEffects, HasFields, Fields
<1>3. p.view = "form" => HasFields(p.values) /\ p.values.auth \in SecretTypes
  <2> SUFFICES ASSUME p.view = "form" PROVE HasFields(p.values) /\ p.values.auth \in SecretTypes
    OBVIOUS
  <2>1. HasFields(values') /\ values'.auth \in SecretTypes
    BY <1>1 DEF ViewInv, PageInv, SecretTypes
  <2> QED BY <1>2, <2>1 DEF HasFields
<1> QED BY <1>3, RenderSecrets

(* An edit of the form: what is picked is in the list that is shown, and   *)
(* that is the list of the method unless it may be late.                   *)
LEMMA EditedChosen ==
  ASSUME ViewInv, SecretsInv, FillIn PROVE CacheOK(cache, stored)' /\ AuthInv' /\ ChosenInv'
<1>1. view = "form"
  BY FillInRenders
<1>2. OnForm
  BY <1>1 DEF ViewInv, OnForm
<1>3. Edited
  BY <1>2, FillInFits
<1>4. PICK v, k, b : /\ Filled(v, k, b) /\ boxes' = b
                     /\ Render([Now EXCEPT !.values = v, !.kept = k])
  BY <1>3 DEF Edited
<1> DEFINE p == [Now EXCEPT !.values = v, !.kept = k]
<1>5. p.view = "form" /\ p.values = v /\ p.kept = k /\ p.cache = cache
  BY <1>1 DEF Now
<1>6. tour' = tour /\ stored' = stored /\ Ready
  BY <1>3 DEF Edited, Rest, PageInFront
<1> HIDE DEF p
<1>7. Render(p)
  BY <1>4 DEF p
<1>8. /\ HasFields(v) /\ v.auth \in SecretTypes /\ values.auth \in SecretTypes
      /\ HasFields(values) /\ SecretFits(v, k)
  BY <1>2, <1>4 DEF Filled, OnForm, PageInv, SecretTypes
<1>9. ASSUME v.provider = "local", v.auth = values.auth, "lag" \notin tour
      PROVE  ChosenFits(v, k, stored)
  <2>1. CASE v.secret = k.secret
    BY <2>1 DEF ChosenFits
  <2>2. CASE k = kept /\ v.provider = values.provider /\ v.secret = values.secret
    <3>1. ChosenFits(values, kept, stored)
      BY <1>1, <1>9, <2>2 DEF SecretsInv, ChosenInv
    <3> QED BY <1>9, <2>2, <3>1 DEF ChosenFits
  <2>3. CASE /\ values.provider = "local" /\ held.auth # None /\ held.auth.ids # None
             /\ v.secret \in Rows(held.auth.ids)
    <3>1. values.auth \in WantedTypes
      BY <1>1, <2>3 DEF WantedTypes
    <3>2. cache[values.auth] # None
      BY <1>6, <1>9, <3>1 DEF Ready, Awaited
    <3>3. held.auth = [type |-> values.auth, ids |-> cache[values.auth]]
      BY <1>1, <2>3, <3>2 DEF SecretsInv, AuthInv
    <3>4. v.secret \in Rows(cache[values.auth])
      BY <2>3, <3>3
    <3> QED BY <1>8, <1>9, <3>2, <3>4 DEF SecretsInv, CacheOK, ChosenFits
  <2> QED BY <1>8, <2>1, <2>2, <2>3 DEF SecretFits
<1>10. Grows(stored, stored') /\ CacheOK(p.cache, stored')
  BY <1>5, <1>6 DEF Grows, SecretsInv
<1>11. p.view = "form" /\ p.values.provider = "local" =>
         /\ HasFields(p.values) /\ p.values.auth \in SecretTypes
         /\ view = "form" /\ p.values.auth = values.auth /\ "lag" \notin tour =>
              ChosenFits(p.values, p.kept, stored')
  BY <1>5, <1>6, <1>8, <1>9
<1> QED BY <1>6, <1>7, <1>10, <1>11, RenderSecrets

(* What of an attempt is chosen in the authentication block. *)
AttemptChosen(a) ==
  "lag" \notin tour /\ a.values.creationType # "yaml" /\ a.values.provider = "local" =>
    ChosenFits(a.values, kept, stored)

(* The request goes, or building it throws. *)
LEMMA PostChosen ==
  ASSUME ViewInv, SecretsInv, NEW a, NEW created, NEW p, Post(a, p, created), tour' = tour,
         p.view = view, p.values = values, p.kept = kept,
         Grows(stored, stored'), CacheOK(p.cache, stored'),
         created = None => AttemptChosen(a)
  PROVE  SecretsInv'
<1> DEFINE Same(q) == q.view = view /\ q.values = values /\ q.kept = kept /\ q.cache = p.cache
           record == [request |-> Request(a.values, SecretOf(a, created), a.project,
                                          a.typed, a.custom, expert),
                      attempt |-> a, secret |-> SecretOf(a, created), created |-> created,
                      ha |-> HighAvailability(a.values, expert),
                      expert |-> expert, loaded |-> loaded]
<1>1. Same(p) /\ Same([p EXCEPT !.modal = ModalShut]) /\ \A d : Same([p EXCEPT !.doc.object = d])
  OBVIOUS
<1>2. Same(Ended(p, a))
  BY <1>1 DEF Ended
<1>3. sent' = None \/ sent' = record
  BY DEF Post
<1> HIDE DEF Same
<1>4. \E q : Render(q) /\ Same(q)
  BY <1>1, <1>2 DEF Post
<1>5. PICK q : Render(q) /\ Same(q)
  BY <1>4
<1>6. q.view = view /\ q.values = values /\ q.kept = kept /\ q.cache = p.cache
  BY <1>5 DEF Same
<1>7. CacheOK(cache, stored)' /\ AuthInv' /\ ChosenInv'
  BY <1>5, <1>6, NowChosen
<1>8. kept' = kept
  BY <1>5, <1>6, RenderLeaves
<1>9. SentSecretInv'
  <2>1. record.attempt = a /\ record.created = created
    OBVIOUS
  <2> HIDE DEF record
  <2>2. CASE sent' = None
    BY <2>2 DEF SentSecretInv
  <2>3. CASE sent' = record /\ created = None
    <3>1. AttemptChosen(a)
      BY <2>3
    <3>2. "lag" \notin tour' /\ a.values.creationType # "yaml" /\ a.values.provider = "local" =>
            ChosenFits(a.values, kept', stored')
      BY <1>8, <3>1, ChosenStays DEF AttemptChosen
    <3> QED BY <2>1, <2>3, <3>2 DEF SentSecretInv
  <2>4. CASE sent' = record /\ created # None
    BY <2>1, <2>4 DEF SentSecretInv
  <2> QED BY <1>3, <2>2, <2>3, <2>4
<1> QED BY <1>7, <1>9 DEF SecretsInv

(* The buttons. *)
LEMMA SubmitChosen ==
  ASSUME ViewInv, SecretsInv, SubmitForm \/ SubmitYaml \/ SubmitModal
  PROVE  SecretsInv'
<1>1. /\ tour' = tour /\ stored' = stored
      /\ \E from \in Components : \E save, type : Begin(Attempt(from, save, type), Now)
  <2>1. CASE SubmitForm
    BY <2>1, Zenon DEF SubmitForm, Components
  <2>2. CASE SubmitYaml
    BY <2>2, Zenon DEF SubmitYaml, Components
  <2>3. CASE SubmitModal
    BY <2>3, Zenon DEF SubmitModal, Components
  <2> QED BY <2>1, <2>2, <2>3
<1>1a. PICK from \in Components : \E save, type : Begin(Attempt(from, save, type), Now)
  BY <1>1
<1>2. PICK save, type : Begin(Attempt(from, save, type), Now)
  BY <1>1a
<1>3. view \in {"form", "yaml"}
  BY DEF SubmitForm, SubmitYaml, SubmitModal, Asks, AsksInModal
<1> DEFINE a == Attempt(from, save, type)
<1>4. a.values = values
  BY DEF Attempt
<1> HIDE DEF a
<1>5. AttemptChosen(a)
  <2> SUFFICES ASSUME "lag" \notin tour, values.creationType # "yaml", values.provider = "local"
               PROVE  ChosenFits(values, kept, stored)
    BY <1>4 DEF AttemptChosen
  <2>1. view = "form"
    BY <1>3 DEF ViewInv
  <2> QED BY <2>1 DEF SecretsInv, ChosenInv
<1>6. /\ Now.view = view /\ Now.values = values /\ Now.kept = kept /\ Now.cache = cache
  BY DEF Now
<1>7. Grows(stored, stored') /\ CacheOK(Now.cache, stored')
  BY <1>1, <1>6 DEF Grows, SecretsInv
<1>8. CASE SecretFirst(a)
  <2>1. sent' = None /\ Render(Now)
    BY <1>2, <1>8 DEF Begin, a
  <2>2. CacheOK(cache, stored)' /\ AuthInv' /\ ChosenInv'
    BY <1>1, <1>6, <1>7, <2>1, NowChosen
  <2> QED BY <2>1, <2>2 DEF SecretsInv, SentSecretInv
<1>9. CASE ~SecretFirst(a)
  <2>1. Post(a, Now, a.created)
    BY <1>2, <1>9 DEF Begin, a
  <2> QED BY <1>1, <1>5, <1>6, <1>7, <2>1, PostChosen
<1> QED BY <1>8, <1>9

(* The answers. *)
LEMMA AnswersChosen ==
  ASSUME ViewInv, SecretInv, SecretsInv, SecretCreated \/ SecretRefused \/ ClusterRefused
  PROVE  SecretsInv'
<1>1. Numbered(stored) /\ CacheOK(cache, stored) /\ CacheOK(CacheInvalidated, stored)
  BY InvalidatedOK DEF SecretInv, SecretsInv
<1>2. CASE SecretCreated
  <2> DEFINE id == Len(stored) + 1
             p == [Now EXCEPT !.cache = CacheInvalidated,
                              !.ref[flight.from] = IF view = "away" THEN None ELSE id,
                              !.made[flight.from] = @ + 1]
  <2>1. Post(flight, p, id)
    BY <1>2, Zenon DEF SecretCreated
  <2>2. tour' = tour /\ stored' = Append(stored, flight.type)
    BY <1>2 DEF SecretCreated
  <2>3. p.view = view /\ p.values = values /\ p.kept = kept /\ p.cache = CacheInvalidated
    BY DEF Now
  <2>4. id # None
    BY <1>1, NumberedLen
  <2>5. Grows(stored, stored')
    BY <1>1, <2>2, StoredGrows
  <2> HIDE DEF p, id
  <2>6. CacheOK(p.cache, stored')
    BY <1>1, <2>3, <2>5, CacheStays
  <2> QED BY <2>1, <2>2, <2>3, <2>4, <2>5, <2>6, PostChosen
<1>3. CASE SecretRefused \/ ClusterRefused
  <2> DEFINE Same(q) == /\ q.view = view /\ q.values = values /\ q.kept = kept
                        /\ q.cache \in {cache, CacheInvalidated}
  <2>1. /\ Same(Ended(Now, flight))
        /\ Same([Ended(Now, flight) EXCEPT !.cache = CacheInvalidated])
    BY DEF Ended, Now
  <2> HIDE DEF Same
  <2>2. /\ \E q : Render(q) /\ Same(q)
        /\ tour' = tour /\ stored' = stored /\ sent' = None
    BY <1>3, <2>1, Zenon DEF SecretRefused, ClusterRefused
  <2>3. PICK q : Render(q) /\ Same(q)
    BY <2>2
  <2>4. q.view = view /\ q.values = values /\ q.kept = kept /\ CacheOK(q.cache, stored')
    BY <1>1, <2>2, <2>3 DEF Same
  <2>5. Grows(stored, stored')
    BY <2>2 DEF Grows
  <2>6. CacheOK(cache, stored)' /\ AuthInv' /\ ChosenInv'
    BY <2>2, <2>3, <2>4, <2>5, NowChosen
  <2> QED BY <2>2, <2>6 DEF SecretsInv, SentSecretInv
<1> QED BY <1>2, <1>3

(* The page, apart from requests for clusters. *)
LEMMA PageChosen ==
  ASSUME ViewInv, SecretInv, SecretsInv, ViewInv',
         \/ OpenPage \/ Reload \/ PageLoaded \/ LeavePage \/ SecretsArrive \/ FillIn
         \/ ToYaml \/ ToForm \/ YamlEdited \/ ClusterSecretModal \/ ClusterCreated
  PROVE  SecretsInv'
<1>1. tour' = tour /\ stored' = stored /\ sent' = None
  <2>1. CASE FillIn
    BY <2>1, FillInRenders, FillInFits DEF ViewInv, OnForm, Edited, Rest
  <2> QED BY <2>1 DEF OpenPage, Reload, PageLoaded, LeavePage, SecretsArrive, ToYaml, ToForm,
                  YamlEdited, ClusterSecretModal, ModalEdited, ClusterCreated, Rest
<1>2. Numbered(stored) /\ CacheOK(cache, stored) /\ Grows(stored, stored')
  BY <1>1 DEF SecretInv, SecretsInv, Grows
<1> DEFINE Same(p) == /\ p.view = view /\ p.values = values /\ p.kept = kept
                      /\ CacheOK(p.cache, stored)
           Other(p) == (p.view # view \/ p.view = "away") /\ CacheOK(p.cache, stored)
<1>3. (\E p : Render(p) /\ Same(p)) => CacheOK(cache, stored)' /\ AuthInv' /\ ChosenInv'
  BY <1>1, <1>2, NowChosen
<1>4. (\E p : Render(p) /\ Other(p)) => CacheOK(cache, stored)' /\ AuthInv' /\ ChosenInv'
  BY <1>1, <1>2, OtherPage
<1>5. CASE FillIn
  <2>1. CacheOK(cache, stored)' /\ AuthInv' /\ ChosenInv'
    BY <1>5, EditedChosen
  <2> QED BY <1>1, <2>1 DEF SecretsInv, SentSecretInv
<1>6. CASE SecretsArrive
  <2>1. PICK t : Render([Now EXCEPT !.cache[t] = OfType(t, stored)])
    BY <1>6 DEF SecretsArrive
  <2> DEFINE c == [cache EXCEPT ![t] = OfType(t, stored)]
             p == [Now EXCEPT !.cache[t] = OfType(t, stored)]
  <2>2. p.view = view /\ p.values = values /\ p.kept = kept /\ p.cache = c
    BY DEF Now
  <2>3. CacheOK(c, stored)
    BY <1>2, ArrivedOK
  <2> HIDE DEF p, c
  <2>4. Render(p) /\ Same(p)
    BY <2>1, <2>2, <2>3 DEF p
  <2>5. CacheOK(cache, stored)' /\ AuthInv' /\ ChosenInv'
    BY <1>3, <2>4
  <2> QED BY <1>1, <2>5 DEF SecretsInv, SentSecretInv
<1>7. CASE YamlEdited \/ ClusterSecretModal
  <2>1. /\ \A valid : Same([Now EXCEPT !.doc.valid = valid])
        /\ \A d : Same([Now EXCEPT !.doc = d])
        /\ \A m : Same([Now EXCEPT !.modal = m])
    BY <1>2 DEF Now
  <2> HIDE DEF Same
  <2>2. \E p : Render(p) /\ Same(p)
    BY <1>7, <2>1 DEF YamlEdited, ClusterSecretModal, ModalEdited
  <2>3. CacheOK(cache, stored)' /\ AuthInv' /\ ChosenInv'
    BY <1>3, <2>2
  <2> QED BY <1>1, <2>3 DEF SecretsInv, SentSecretInv
<1>8. CASE OpenPage \/ Reload \/ PageLoaded \/ LeavePage \/ ToYaml \/ ToForm \/ ClusterCreated
  <2> DEFINE none == [t \in SecretTypes |-> None]
  <2>1. CacheOK(none, stored)
    BY DEF CacheOK
  <2>2. /\ view = "away" => \A v : Other([Closed EXCEPT !.view = "loading", !.values = v])
        /\ Other([Closed EXCEPT !.cache = none])
        /\ Other(Closed)
        /\ view = "loading" =>
             \A v, k : Other([Now EXCEPT !.view = "form", !.values = v, !.kept = k])
        /\ view = "form" => Other([Closed EXCEPT !.view = "broken"])
        /\ view = "form" => \A v, d : Other([Now EXCEPT !.view = "yaml", !.values = v, !.doc = d])
        /\ view = "yaml" => \A v : Other([Now EXCEPT !.view = "form", !.values = v])
    BY <1>2, <2>1 DEF Now, Closed
  <2> HIDE DEF Other, none
  <2>3. \E p : Render(p) /\ Other(p)
    <3>1. CASE OpenPage
      BY <2>2, <3>1 DEF OpenPage
    <3>2. CASE Reload
      <4>1. Render([Closed EXCEPT !.cache = none])
        BY <3>2 DEF Reload, none
      <4> QED BY <2>2, <4>1
    <3>3. CASE PageLoaded
      <4>1. view = "loading"
        BY <3>3 DEF PageLoaded
      <4>2. \E v, k : Render([Now EXCEPT !.view = "form", !.values = v, !.kept = k])
        BY <3>3, Zenon DEF PageLoaded
      <4> QED BY <2>2, <4>1, <4>2
    <3>4. CASE LeavePage \/ ClusterCreated
      BY <2>2, <3>4 DEF LeavePage, ClusterCreated
    <3>5. CASE ToYaml
      <4>1. view = "form"
        BY <3>5 DEF ToYaml
      <4>2. \/ Render([Closed EXCEPT !.view = "broken"])
            \/ \E v, d : Render([Now EXCEPT !.view = "yaml", !.values = v, !.doc = d])
        BY <3>5, Zenon DEF ToYaml
      <4> QED BY <2>2, <4>1, <4>2
    <3>6. CASE ToForm
      BY <2>2, <3>6 DEF ToForm
    <3> QED BY <1>8, <3>1, <3>2, <3>3, <3>4, <3>5, <3>6
  <2>4. CacheOK(cache, stored)' /\ AuthInv' /\ ChosenInv'
    BY <1>4, <2>3
  <2> QED BY <1>1, <2>4 DEF SecretsInv, SentSecretInv
<1> QED BY <1>5, <1>6, <1>7, <1>8

(* The rest of the console. *)
LEMMA ElsewhereChosen ==
  ASSUME ViewInv, SecretInv, SecretsInv, UNCHANGED pageVars,
         cache' = cache \/ cache' = CacheInvalidated \/ cache' = [t \in SecretTypes |-> None],
         \/ stored' = stored \/ \E e : stored' = Append(stored, e)
         \/ \E i : stored' = [stored EXCEPT ![i] = "gone"]
  PROVE  SecretsInv'
<1>1. /\ tour' = tour /\ view' = view /\ values' = values /\ kept' = kept /\ held' = held
      /\ sent' = sent
  BY DEF pageVars
<1>2. Grows(stored, stored')
  BY StoredGrows DEF SecretInv
<1>3. CacheOK(cache', stored) /\ \A t \in SecretTypes : cache'[t] \in {None, cache[t]}
  <2>1. CacheOK(cache, stored)
    BY DEF SecretsInv
  <2>2. CASE cache' = cache
    BY <2>1, <2>2
  <2>3. CASE cache' = CacheInvalidated
    BY <2>1, <2>3, InvalidatedOK
  <2>4. CASE cache' = [t \in SecretTypes |-> None]
    BY <2>4 DEF CacheOK
  <2> QED BY <2>2, <2>3, <2>4
<1>4. CacheOK(cache, stored)'
  BY <1>2, <1>3, CacheStays
<1>5. AuthInv'
  <2> SUFFICES ASSUME view = "form", values.provider = "local", cache'[values.auth] # None
               PROVE  held.auth = [type |-> values.auth, ids |-> cache'[values.auth]]
    BY <1>1 DEF AuthInv
  <2>1. values.auth \in SecretTypes
    BY DEF ViewInv, PageInv, SecretTypes
  <2>2. cache'[values.auth] = cache[values.auth]
    BY <1>3, <2>1
  <2> QED BY <2>2 DEF SecretsInv, AuthInv
<1>6. ChosenInv' /\ SentSecretInv'
  BY <1>1, <1>2, ChosenStays DEF SecretsInv, ChosenInv, SentSecretInv
<1> QED BY <1>4, <1>5, <1>6 DEF SecretsInv

LEMMA SecretsFitStep ==
  PageStateInv /\ PageStateInv' /\ SecretInv /\ SecretsInv /\ [Next]_vars => SecretsInv'
<1> SUFFICES ASSUME PageStateInv, PageStateInv', SecretInv, SecretsInv, [Next]_vars
             PROVE  SecretsInv'
  OBVIOUS
<1>1. ViewInv /\ ViewInv'
  BY DEF PageStateInv
<1> HIDE DEF PageStateInv
<1>2. CASE UNCHANGED <<pageVars, cache, stored>>
  BY <1>1, <1>2, ElsewhereChosen
<1>3. CASE Login \/ LogoutButton \/ Sidebar \/ ProjectPicked
  BY <1>2, <1>3 DEF Login, LogoutButton, Sidebar, ProjectPicked, formVars, pageVars
<1>4. CASE OpenOverview
  <2>1. /\ UNCHANGED pageVars /\ stored' = stored
        /\ cache' = [t \in SecretTypes |-> None]
    BY <1>4 DEF OpenOverview
  <2> QED BY <1>1, <2>1, ElsewhereChosen
<1>5. CASE TableStep
  <2>1. CASE \/ Poll \/ \E k \in Keys : ServiceReads(k) \/ RowsArrive(k) \/ ListFails(k)
    BY <1>2, <2>1 DEF Poll, ServiceReads, RowsArrive, ListFails, formVars, pageVars
  <2>2. CASE \/ ClusterTableRemoveButton \/ ClustersOverviewTableRowActions
             \/ ClustersOverviewTableButtons \/ ProjectsTableRowActions
             \/ EnvironmentsTableRowActions \/ SettingsTableRowActions
             \/ SettingsAddEntity \/ SettingsAddSecret
    <3>1. \E kind, list, id : Requested(kind, list, id)
      BY <2>2 DEF ClusterTableRemoveButton, ClustersOverviewTableRowActions,
           ClustersOverviewTableButtons, ProjectsTableRowActions, EnvironmentsTableRowActions,
           SettingsTableRowActions, SettingsAddEntity, SettingsAddSecret
    <3> QED BY <1>2, <3>1 DEF Requested, formVars, pageVars
  <2>3. CASE SettingsEdited \/ OthersChange \/ SaveSettings
    BY <1>2, <2>3 DEF SettingsEdited, OthersChange, SaveSettings, formVars, pageVars
  <2>4. CASE ServiceChanges
    <3>1. UNCHANGED pageVars /\ cache' = cache
      BY <2>4 DEF ServiceChanges
    <3>2. \/ stored' = stored \/ \E e : stored' = Append(stored, e)
          \/ \E i : stored' = [stored EXCEPT ![i] = "gone"]
      BY <2>4 DEF ServiceChanges, SecretsCarried
    <3> QED BY <1>1, <3>1, <3>2, ElsewhereChosen
  <2>5. CASE ChangeAnswered
    <3>1. /\ UNCHANGED pageVars /\ stored' = stored
          /\ cache' = cache \/ cache' = CacheInvalidated
      BY <2>5 DEF ChangeAnswered
    <3> QED BY <1>1, <3>1, ElsewhereChosen
  <2> QED BY <1>5, <2>1, <2>2, <2>3, <2>4, <2>5 DEF TableStep
<1>6. CASE FormStep
  <2>1. CASE CreateClusterButton \/ FormCancelled \/ FormReloaded \/ FormCreatesCluster
    <3>1. OpenPage \/ LeavePage \/ Reload \/ ClusterCreated
      BY <2>1 DEF CreateClusterButton, FormCancelled, FormReloaded, FormCreatesCluster
    <3> QED BY <1>1, <3>1, PageChosen
  <2>2. CASE FormStoresSecret \/ FormRefused
    BY <1>1, <2>2, AnswersChosen DEF FormStoresSecret, FormRefused
  <2>3. CASE FormWorks
    BY <1>1, <2>3, PageChosen, SubmitChosen DEF FormWorks
  <2> QED BY <1>6, <2>1, <2>2, <2>3 DEF FormStep
<1>7. CASE UNCHANGED vars
  <2>1. UNCHANGED <<pageVars, cache, stored>>
    BY <1>7 DEF vars, formVars, pageVars
  <2> QED BY <1>2, <2>1
<1> QED BY <1>3, <1>4, <1>5, <1>6, <1>7 DEF Next

LEMMA SecretsFitInit == ConsoleInit => SecretsInv
<1> SUFFICES ASSUME ConsoleInit PROVE SecretsInv
  OBVIOUS
<1>1. view = "away" /\ cache = [t \in SecretTypes |-> None] /\ sent = None
  <2>1. Init
    BY DEF ConsoleInit
  <2> QED BY <2>1, Zenon DEF Init
<1> QED BY <1>1 DEF SecretsInv, CacheOK, AuthInv, ChosenInv, SentSecretInv

LEMMA SecretsFit == Spec => [](PageStateInv /\ SecretsInv)
  BY PageFitsInit, PageFitsStep, SecretInit, SecretStep, SecretsFitInit, SecretsFitStep,
     PTL DEF Spec

(* The secret chosen in the authentication block is the one that is sent,  *)
(* unless a secret was to be saved, and it is of the chosen method unless  *)
(* a click on a provider has made it the default, lists may be late or it  *)
(* has been removed; and a request that names a secret does not carry the  *)
(* key or the password the secret stands for.                              *)
THEOREM ChosenSecret == Spec => []SecretSent
<1>1. PageStateInv /\ SecretsInv => SecretSent
  <2> SUFFICES ASSUME PageStateInv, SecretsInv, SentLocal
               PROVE  SecretSent
    BY DEF SecretSent, ChosenSecretSent, NoKeyBesideSecret
  <2> DEFINE a == sent.attempt
             v == a.values
             x == sent.expert
             sentVars == sent.request.vars
             local == LocalVars(v, sent.secret, x)
             base == BaseVars(v, x)
  <2>1. SentFromForm /\ ~sent.request.cloud /\ sent # None
    BY DEF SentLocal, SentFromForm
  <2>2. /\ v.creationType # "yaml" /\ a.custom = None /\ FormValid(v, x)
        /\ v.provider = "local" => a.from = "page"
        /\ sent.secret = SecretOf(a, sent.created)
        /\ sent.request.cloud = (v.provider # "local")
        /\ v.provider = "local" =>
             /\ sentVars = local ++ base
             /\ sent.request.envs = LocalEnvs(v, sent.secret, x)
    BY <2>1, SentFits
  <2>3. v.provider = "local"
    BY <2>1, <2>2
  <2>4. ChosenSecretSent
    <3> SUFFICES ASSUME v.defined, sent.created = None
                 PROVE  /\ sent.secret = v.secret /\ sent.secret # None
                        /\ "lag" \in tour \/ sent.secret = kept.secret
                           \/ stored[sent.secret] \in {v.auth, "gone"}
      BY DEF ChosenSecretSent
    <3>1. sent.secret = v.secret
      BY <2>2, <2>3 DEF SecretOf, SecretOfPage, IsCloud
    <3>2. v.secret # None
      BY <2>2, <2>3 DEF FormValid, LocalValid, AuthenticationValid
    <3>3. "lag" \notin tour => ChosenFits(v, kept, stored)
      BY <2>1, <2>2, <2>3 DEF SecretsInv, SentSecretInv
    <3> QED BY <3>1, <3>2, <3>3 DEF ChosenFits, OfMethod
  <2>5. NoKeyBesideSecret
    <3> SUFFICES ASSUME sent.secret # None
                 PROVE  sent.request.envs.sshKey = None /\ "password" \notin DOMAIN sentVars
      BY DEF NoKeyBesideSecret
    <3>1. sent.request.envs.sshKey = None
      <4> DEFINE envs == sent.request.envs
      <4>1. envs = LocalEnvs(v, sent.secret, x)
        BY <2>2, <2>3
      <4> HIDE DEF envs
      <4>2. envs.sshKey = None
        BY <4>1, LocalEnvsFields
      <4> QED BY <4>2 DEF envs
    <3>2. "password" \notin DOMAIN local
      BY LocalVarsFields
    <3>3. "password" \notin DOMAIN base
      BY BaseVarsFields
    <3>4. sentVars = local ++ base
      BY <2>2, <2>3
    <3> HIDE DEF local, base, sentVars
    <3>5. "password" \notin DOMAIN sentVars
      BY <3>2, <3>3, <3>4 DEF ++
    <3> QED BY <3>1, <3>5 DEF sentVars
  <2> QED BY <2>4, <2>5 DEF SecretSent
<1> QED BY <1>1, SecretsFit, PTL

-----------------------------------------------------------------------------
(***************************************************************************)
(* Types.                                                                  *)
(***************************************************************************)

(* The fields whose types are stated, and an object that has the fields of *)
(* another one and agrees with it on these.                                *)
TypedFields == {"provider", "amount", "standby", "servers", "secret"}

Keeps(v, w) == DOMAIN w = DOMAIN v /\ \A f \in TypedFields \cap DOMAIN v : w[f] = v[f]

ServersTyped(servers) ==
  \A i \in DOMAIN servers :
    "ip" \in DOMAIN servers[i] /\ servers[i].ip \in Addresses \cup {None}

(* The values have the fields of the form's, and the secret exists.        *)
Typed(v, s) ==
  /\ DOMAIN v = DOMAIN FormDefaults(TRUE)
  /\ v.provider \in Clouds \cup {"local", None}
  /\ v.amount \in 1..3 /\ v.standby \in 0..2
  /\ ServersTyped(v.servers)
  /\ v.secret \in {None} \cup DOMAIN s

(* The form as it is when its constants have been evaluated.               *)
LEMMA DefaultTyped ==
  ASSUME NEW x
  PROVE  /\ DOMAIN FormDefaults(x) = DOMAIN FormDefaults(TRUE)
         /\ TypedFields \subseteq DOMAIN FormDefaults(x)
         /\ \A s : Typed(FormDefaults(x), s)
<1> DEFINE a == [creationType |-> "form", environment |-> None, name |-> "", version |-> None]
<1>1. /\ \A l : DOMAIN FormDefaults(l) = ((DOMAIN a \cup DOMAIN CloudDefaults(l))
                   \cup DOMAIN LocalDefaults(l)) \cup DOMAIN ExpertDefaults(l)
      /\ \A f \in DOMAIN CloudDefaults(x) \ DOMAIN a :
           FormDefaults(x)[f] = CloudDefaults(x)[f]
      /\ \A f \in DOMAIN LocalDefaults(x) \ (DOMAIN a \cup DOMAIN CloudDefaults(x)) :
           FormDefaults(x)[f] = LocalDefaults(x)[f]
      /\ \A f \in DOMAIN ExpertDefaults(x)
                    \ ((DOMAIN a \cup DOMAIN CloudDefaults(x)) \cup DOMAIN LocalDefaults(x)) :
           FormDefaults(x)[f] = ExpertDefaults(x)[f]
  <2> HIDE DEF a
  <2>1. \A l : FormDefaults(l) = ((a ++ CloudDefaults(l)) ++ LocalDefaults(l)) ++ ExpertDefaults(l)
    BY DEF FormDefaults, a
  <2>2. ASSUME NEW l
        PROVE  /\ DOMAIN FormDefaults(l) = ((DOMAIN a \cup DOMAIN CloudDefaults(l))
                     \cup DOMAIN LocalDefaults(l)) \cup DOMAIN ExpertDefaults(l)
               /\ \A f \in DOMAIN CloudDefaults(l) \ DOMAIN a :
                    FormDefaults(l)[f] = CloudDefaults(l)[f]
               /\ \A f \in DOMAIN LocalDefaults(l) \ (DOMAIN a \cup DOMAIN CloudDefaults(l)) :
                    FormDefaults(l)[f] = LocalDefaults(l)[f]
               /\ \A f \in DOMAIN ExpertDefaults(l)
                      \ ((DOMAIN a \cup DOMAIN CloudDefaults(l)) \cup DOMAIN LocalDefaults(l)) :
                    FormDefaults(l)[f] = ExpertDefaults(l)[f]
    <3> DEFINE g == CloudDefaults(l)
               h == LocalDefaults(l)
               k == ExpertDefaults(l)
               p == a ++ g
               q == p ++ h
               w == q ++ k
    <3>1. FormDefaults(l) = w
      BY <2>1, Zenon
    <3> HIDE DEF g, h, k
    <3>2. /\ DOMAIN p = DOMAIN a \cup DOMAIN g
          /\ \A n \in DOMAIN g \ DOMAIN a : p[n] = g[n]
      BY Together
    <3> HIDE DEF p
    <3>3. /\ DOMAIN q = DOMAIN p \cup DOMAIN h /\ \A n \in DOMAIN p : q[n] = p[n]
          /\ \A n \in DOMAIN h \ DOMAIN p : q[n] = h[n]
      BY Together
    <3> HIDE DEF q
    <3>4. /\ DOMAIN w = DOMAIN q \cup DOMAIN k /\ \A n \in DOMAIN q : w[n] = q[n]
          /\ \A n \in DOMAIN k \ DOMAIN q : w[n] = k[n]
      BY Together
    <3> HIDE DEF w
    <3>5. /\ DOMAIN w = ((DOMAIN a \cup DOMAIN g) \cup DOMAIN h) \cup DOMAIN k
          /\ \A f \in DOMAIN g \ DOMAIN a : w[f] = g[f]
          /\ \A f \in DOMAIN h \ (DOMAIN a \cup DOMAIN g) : w[f] = h[f]
          /\ \A f \in DOMAIN k \ ((DOMAIN a \cup DOMAIN g) \cup DOMAIN h) : w[f] = k[f]
      BY <3>2, <3>3, <3>4
    <3> QED BY <3>1, <3>5 DEF g, h, k
  <2>3. \A l : DOMAIN FormDefaults(l) = ((DOMAIN a \cup DOMAIN CloudDefaults(l))
                   \cup DOMAIN LocalDefaults(l)) \cup DOMAIN ExpertDefaults(l)
    BY <2>2, Zenon
  <2> QED BY <2>2, <2>3
<1>2. /\ DOMAIN a = {"creationType", "environment", "name", "version"}
      /\ \A l : DOMAIN CloudDefaults(l) = DOMAIN CloudDefaults(TRUE)
      /\ {"provider", "amount"} \subseteq DOMAIN CloudDefaults(x)
      /\ "secret" \notin DOMAIN CloudDefaults(x) /\ "servers" \notin DOMAIN CloudDefaults(x)
      /\ "standby" \notin DOMAIN CloudDefaults(x)
      /\ CloudDefaults(x).provider = None /\ CloudDefaults(x).amount = 3
  BY DEF CloudDefaults
<1>3. /\ \A l : DOMAIN LocalDefaults(l) = DOMAIN LocalDefaults(TRUE)
      /\ {"secret", "servers"} \subseteq DOMAIN LocalDefaults(x)
      /\ "standby" \notin DOMAIN LocalDefaults(x)
      /\ LocalDefaults(x).secret = None
      /\ LocalDefaults(x).servers = [i \in 1..3 |-> [ip |-> None, exists |-> FALSE]]
  BY DEF LocalDefaults
<1>4. /\ \A l : DOMAIN ExpertDefaults(l) = DOMAIN ExpertDefaults(TRUE)
      /\ "standby" \in DOMAIN ExpertDefaults(x) /\ ExpertDefaults(x).standby = 0
  BY DEF ExpertDefaults
<1> HIDE DEF a
<1>5. DOMAIN FormDefaults(x) = DOMAIN FormDefaults(TRUE)
  <2>1. \A l : DOMAIN FormDefaults(l) = ((DOMAIN a \cup DOMAIN CloudDefaults(TRUE))
                   \cup DOMAIN LocalDefaults(TRUE)) \cup DOMAIN ExpertDefaults(TRUE)
    BY <1>1, <1>2, <1>3, <1>4
  <2> QED BY <2>1
<1>6. /\ FormDefaults(x).provider = None /\ FormDefaults(x).amount = 3
      /\ FormDefaults(x).secret = None /\ FormDefaults(x).standby = 0
      /\ FormDefaults(x).servers = [i \in 1..3 |-> [ip |-> None, exists |-> FALSE]]
  BY <1>1, <1>2, <1>3, <1>4
<1>7. TypedFields \subseteq DOMAIN FormDefaults(x)
  BY <1>1, <1>2, <1>3, <1>4 DEF TypedFields
<1>8. ServersTyped(FormDefaults(x).servers)
  BY <1>6 DEF ServersTyped
<1>9. ASSUME NEW s PROVE Typed(FormDefaults(x), s)
  <2> DEFINE v == FormDefaults(x)
  <2> HIDE DEF v
  <2>1. v.provider \in Clouds \cup {"local", None} /\ v.secret \in {None} \cup DOMAIN s
    BY <1>6 DEF v
  <2>2. v.amount \in 1..3 /\ v.standby \in 0..2
    BY <1>6 DEF v
  <2>3. DOMAIN v = DOMAIN FormDefaults(TRUE) /\ ServersTyped(v.servers)
    BY <1>5, <1>8, Zenon DEF v
  <2>4. Typed(v, s)
    BY <2>1, <2>2, <2>3, Zenon DEF Typed
  <2> QED BY <2>4 DEF v
<1> QED BY <1>5, <1>7, <1>9, Zenon

(* What keeps the fields keeps their types. *)
LEMMA KeepsTypes ==
  ASSUME NEW v, NEW s, Typed(v, s), NEW w, Keeps(v, w) PROVE Typed(w, s)
<1>1. TypedFields \subseteq DOMAIN v
  BY DefaultTyped DEF Typed
<1> QED BY <1>1 DEF Typed, Keeps, TypedFields

LEMMA KeepsTwice ==
  ASSUME NEW v, NEW w, Keeps(v, w), NEW u, Keeps(w, u) PROVE Keeps(v, u)
  BY DEF Keeps

(* The handlers and effects that touch none of them. *)
LEMMA SetKeeps ==
  ASSUME NEW field, field \notin TypedFields
  PROVE  /\ \A v, value : Keeps(v, Set(v, field, value))
         /\ \A v, row : Keeps(v, Appended(v, field, row))
         /\ \A v, i : Keeps(v, Removed(v, field, i))
  BY DEF Keeps, Set, Appended, Removed

LEMMA BoxesKeep ==
  /\ \A v, i : Keeps(v, DatabaseBoxMounts(v, i))
  /\ \A v : Keeps(v, DatabaseBoxesMount(v))
  /\ \A v, i : Keeps(v, PoolBoxMounts(v, i))
  /\ \A v : Keeps(v, PoolBoxesMount(v))
<1>1. \A v, i : Keeps(v, DatabaseBoxMounts(v, i))
  BY DEF Keeps, TypedFields, DatabaseBoxMounts
<1>2. \A v : Keeps(v, DatabaseBoxesMount(v))
  <2> SUFFICES ASSUME NEW v PROVE Keeps(v, DatabaseBoxesMount(v))
    OBVIOUS
  <2> DEFINE w == DatabaseBoxMounts(v, Len(v.databases))
  <2>1. Keeps(v, w)
    BY <1>1
  <2> HIDE DEF w
  <2>2. Keeps(w, [w EXCEPT
          !.databases = [i \in DOMAIN @ |-> [@[i] EXCEPT !.user = v.databases[i].name]]])
    BY DEF Keeps, TypedFields
  <2>3. Keeps(v, v)
    BY DEF Keeps
  <2> QED BY <2>1, <2>2, <2>3, KeepsTwice DEF DatabaseBoxesMount, w
<1>3. \A v, i : Keeps(v, PoolBoxMounts(v, i))
  BY DEF Keeps, TypedFields, PoolBoxMounts
<1>4. \A v : Keeps(v, PoolBoxesMount(v))
  BY DEF Keeps, TypedFields, PoolBoxesMount
<1> QED BY <1>1, <1>2, <1>3, <1>4

LEMMA EffectsKeep ==
  /\ \A v, mounts : Keeps(v, StorageEffects(v, mounts))
  /\ \A v : Keeps(v, BackupsEffect(v))
  /\ \A v : Keeps(v, DataDirectoryEffect(v))
  /\ \A v, selectors : Keeps(v, SelectorsIntersect(v, selectors))
<1>1. \A v, mounts : Keeps(v, StorageEffects(v, mounts))
  BY DEF Keeps, TypedFields, StorageEffects
<1>2. \A v : Keeps(v, BackupsEffect(v))
  BY DEF Keeps, TypedFields, BackupsEffect
<1>3. \A v : Keeps(v, DataDirectoryEffect(v))
  BY DEF Keeps, TypedFields, DataDirectoryEffect
<1>4. \A v, selectors : Keeps(v, SelectorsIntersect(v, selectors))
  BY DEF Keeps, TypedFields, SelectorsIntersect
<1> QED BY <1>1, <1>2, <1>3, <1>4

(* The handlers of a block and what they set off. *)
LEMMA HandlersKeep ==
  /\ \A v, code : Keeps(v, RegionPicked(v, code))
  /\ \A v, type : Keeps(v, InstanceTypePicked(v, type)) /\ Keeps(v, VolumePicked(v, type))
  /\ \A v, e, ids : Keeps(v, ExtensionSelected(v, e, ids))
  /\ \A v, method, reset : Keeps(v, MethodPicked(v, method, reset))
  /\ \A v : Keeps(v, CloudPartFilled(v))
<1>1. \A v, code : Keeps(v, RegionPicked(v, code))
  BY DEF Keeps, TypedFields, RegionPicked
<1>2. \A v, type : Keeps(v, InstanceTypePicked(v, type)) /\ Keeps(v, VolumePicked(v, type))
  BY DEF Keeps, TypedFields, InstanceTypePicked, VolumePicked
<1>3. \A v, e, ids : Keeps(v, ExtensionSelected(v, e, ids))
  BY DEF Keeps, TypedFields, ExtensionSelected
<1>4. \A v, method, reset : Keeps(v, MethodPicked(v, method, reset))
  BY DEF Keeps, TypedFields, MethodPicked
<1>5. \A v : Keeps(v, CloudPartFilled(v))
  BY DEF Keeps, TypedFields, CloudPartFilled
<1> QED BY <1>1, <1>2, <1>3, <1>4, <1>5

LEMMA DatabasesKeep ==
  /\ \A v, number, id : Keeps(v, DatabaseAppended(v, number, id))
  /\ \A v, i, name : Keeps(v, DatabaseRenamed(v, i, name))
  /\ \A v, i : Keeps(v, DatabaseDeleted(v, i))
<1>1. "databases" \notin TypedFields
  BY DEF TypedFields
<1>2. \A v, number, id : Keeps(v, DatabaseAppended(v, number, id))
  <2> SUFFICES ASSUME NEW v, NEW number, NEW id PROVE Keeps(v, DatabaseAppended(v, number, id))
    OBVIOUS
  <2> DEFINE row == [id |-> id, name |-> "db" \o ToString(number),
                     user |-> "db" \o ToString(number)]
             w == Appended(v, "databases", row)
  <2>1. Keeps(v, w)
    BY <1>1, SetKeeps
  <2> HIDE DEF w
  <2>2. Keeps(w, DatabaseBoxMounts(w, Len(v.databases) + 1))
    BY BoxesKeep
  <2> QED BY <2>1, <2>2, KeepsTwice DEF DatabaseAppended, w
<1>3. \A v, i, name : Keeps(v, DatabaseRenamed(v, i, name))
  <2> SUFFICES ASSUME NEW v, NEW i, NEW name PROVE Keeps(v, DatabaseRenamed(v, i, name))
    OBVIOUS
  <2> DEFINE w == [v EXCEPT !.databases[i].name = name]
  <2>1. Keeps(v, w)
    BY DEF Keeps, TypedFields
  <2> HIDE DEF w
  <2>2. Keeps(w, DatabaseBoxMounts(w, i))
    BY BoxesKeep
  <2> QED BY <2>1, <2>2, KeepsTwice DEF DatabaseRenamed, w
<1>4. \A v, i : Keeps(v, DatabaseDeleted(v, i))
  <2> SUFFICES ASSUME NEW v, NEW i PROVE Keeps(v, DatabaseDeleted(v, i))
    OBVIOUS
  <2> DEFINE w == [v EXCEPT !.names = [id \in DOMAIN @ \ {v.databases[i].id} |-> @[id]]]
  <2>1. Keeps(v, w)
    BY DEF Keeps, TypedFields
  <2> HIDE DEF w
  <2>2. Keeps(w, Removed(w, "databases", i))
    BY <1>1, SetKeeps
  <2> QED BY <2>1, <2>2, KeepsTwice DEF DatabaseDeleted, w
<1> QED BY <1>2, <1>3, <1>4

LEMMA VersionKeeps == \A v, version : Keeps(v, VersionPicked(v, version))
<1> SUFFICES ASSUME NEW v, NEW version PROVE Keeps(v, VersionPicked(v, version))
  OBVIOUS
<1> DEFINE w == IF version = v.version THEN v ELSE DataDirectoryEffect(Set(v, "version", version))
           gone == ShownAt(version, boxes.hidden) \ ShownAt(v.version, boxes.hidden)
<1>1. Keeps(v, w)
  <2>1. Keeps(v, v)
    BY DEF Keeps
  <2> DEFINE u == Set(v, "version", version)
  <2>2. Keeps(v, u)
    BY SetKeeps DEF TypedFields
  <2> HIDE DEF u
  <2>3. Keeps(u, DataDirectoryEffect(u))
    BY EffectsKeep
  <2>4. Keeps(v, DataDirectoryEffect(u))
    BY <2>2, <2>3, KeepsTwice
  <2> QED BY <2>1, <2>4 DEF u
<1>2. VersionPicked(v, version) = SelectorsIntersect(w, gone)
  BY DEF VersionPicked
<1> HIDE DEF w, gone
<1>3. Keeps(w, SelectorsIntersect(w, gone))
  BY EffectsKeep
<1> QED BY <1>1, <1>2, <1>3, KeepsTwice

LEMMA MountsKeep == \A v : Keeps(v, FormMounts(v))
<1> SUFFICES ASSUME NEW v PROVE Keeps(v, FormMounts(v))
  OBVIOUS
<1> DEFINE a == IF v.provider \in Clouds THEN StorageEffects(v, TRUE) ELSE v
           b == DatabaseBoxesMount(a)
           c == PoolBoxesMount(b)
           d == DataDirectoryEffect(c)
<1>1. Keeps(v, a)
  BY EffectsKeep DEF Keeps
<1>2. FormMounts(v) = SelectorsIntersect(d, ShownAt(v.version, {}))
  BY DEF FormMounts
<1> HIDE DEF a
<1>3. Keeps(a, b)
  BY BoxesKeep
<1> HIDE DEF b
<1>4. Keeps(b, c)
  BY BoxesKeep
<1> HIDE DEF c
<1>5. Keeps(c, d)
  BY EffectsKeep
<1> HIDE DEF d
<1>6. Keeps(d, SelectorsIntersect(d, ShownAt(v.version, {})))
  BY EffectsKeep
<1>7. Keeps(v, b)
  BY <1>1, <1>3, KeepsTwice
<1>8. Keeps(v, c)
  BY <1>4, <1>7, KeepsTwice
<1>9. Keeps(v, d)
  BY <1>5, <1>8, KeepsTwice
<1> QED BY <1>2, <1>6, <1>9, KeepsTwice

(* A provider is one of those there are. *)
LEMMA ProviderTyped ==
  ASSUME NEW v, NEW s, Typed(v, s), NEW p \in Clouds \cup {"local"}
  PROVE  Typed(ProviderPicked(v, p), s)
<1> DEFINE a == ProviderReset(v, p)
           b == IF p \in Clouds THEN StorageEffects(a, v.provider \notin Clouds) ELSE a
           c == BackupsEffect(b)
           d == DatabaseBoxesMount(c)
           e == PoolBoxesMount(d)
           w == ProviderPicked(v, p)
<1>1. w = IF v.provider = "local" THEN e ELSE DataDirectoryEffect(e)
  BY DEF ProviderPicked
<1>2. Typed(a, s)
  <2>1. TypedFields \subseteq DOMAIN v
    BY DefaultTyped DEF Typed
  <2>2. /\ DOMAIN a = DOMAIN v /\ a.amount = v.amount /\ a.standby = v.standby
        /\ a.servers = v.servers /\ a.secret = v.secret
    BY DEF ProviderReset
  <2>3. a.provider = p
    BY <2>1 DEF ProviderReset, TypedFields
  <2> QED BY <2>2, <2>3 DEF Typed
<1>3. Typed(b, s)
  <2> HIDE DEF a
  <2>1. Keeps(a, StorageEffects(a, v.provider \notin Clouds))
    BY EffectsKeep
  <2> QED BY <1>2, <2>1, KeepsTypes
<1> HIDE DEF b
<1>4. Typed(c, s)
  BY <1>3, KeepsTypes, EffectsKeep
<1> HIDE DEF c
<1>5. Typed(d, s)
  BY <1>4, KeepsTypes, BoxesKeep
<1> HIDE DEF d
<1>6. Typed(e, s)
  BY <1>5, KeepsTypes, BoxesKeep
<1> HIDE DEF e
<1>7. Typed(DataDirectoryEffect(e), s)
  BY <1>6, KeepsTypes, EffectsKeep
<1> QED BY <1>1, <1>6, <1>7

(* The secrets of a list exist. *)
Ids(s) == {None} \cup DOMAIN s
ListOK(list, s) == list # None /\ list.ids # None => Rows(list.ids) \subseteq DOMAIN s

(* The form is shown with typed values, and an edit leaves such values.    *)
FormTyped ==
  /\ OnForm /\ Typed(values, stored) /\ kept.secret \in Ids(stored)
  /\ ListOK(held.auth, stored)

EditTyped ==
  \E v, k : /\ Render([Now EXCEPT !.values = v, !.kept = k])
            /\ Typed(v, stored) /\ k.secret \in Ids(stored)

LEMMA TypedEdit ==
  ASSUME FormTyped, NEW part, NEW v, NEW b, EditKeeping(part, v, kept, b), Typed(v, stored)
  PROVE  EditTyped
  BY DEF EditKeeping, EditTyped, FormTyped

LEMMA KeptEdit ==
  ASSUME FormTyped, NEW part, NEW v, NEW b, EditKeeping(part, v, kept, b), Keeps(values, v)
  PROVE  EditTyped
<1>1. Typed(v, stored)
  BY KeepsTypes DEF FormTyped
<1> QED BY <1>1, TypedEdit

LEMMA SetEdit ==
  ASSUME FormTyped, NEW part, NEW field, field \notin TypedFields
  PROVE  /\ \A value : Edit(part, Set(values, field, value)) => EditTyped
         /\ \A row : Edit(part, Appended(values, field, row)) => EditTyped
         /\ \A i : Edit(part, Removed(values, field, i)) => EditTyped
  BY SetKeeps, KeptEdit DEF Edit

(* The fields that are not typed. *)
LEMMA Untyped ==
  /\ "datacenter" \notin TypedFields /\ "instance" \notin TypedFields
  /\ "serverType" \notin TypedFields /\ "spot" \notin TypedFields
  /\ "storage" \notin TypedFields /\ "network" \notin TypedFields
  /\ "sshKey" \notin TypedFields /\ "existing" \notin TypedFields /\ "vip" \notin TypedFields
  /\ "haproxy" \notin TypedFields /\ "lbOnDb" \notin TypedFields
  /\ "balancers" \notin TypedFields /\ "dcsType" \notin TypedFields
  /\ "dcsNew" \notin TypedFields /\ "dcsOnDb" \notin TypedFields
  /\ "dcsHosts" \notin TypedFields /\ "auth" \notin TypedFields
  /\ "defined" \notin TypedFields /\ "save" \notin TypedFields /\ "keyName" \notin TypedFields
  /\ "user" \notin TypedFields /\ "password" \notin TypedFields /\ "key" \notin TypedFields
  /\ "environment" \notin TypedFields /\ "name" \notin TypedFields
  /\ "dataDir" \notin TypedFields /\ "pooler" \notin TypedFields /\ "pools" \notin TypedFields
  /\ "backups" \notin TypedFields /\ "keys" \notin TypedFields /\ "config" \notin TypedFields
  /\ "pgParams" \notin TypedFields /\ "kernel" \notin TypedFields
  /\ "strict" \notin TypedFields /\ "publicAccess" \notin TypedFields
  /\ "cloudBalancer" \notin TypedFields
  BY DEF TypedFields

LEMMA ProvidersTyped == ASSUME FormTyped, ClusterFormProvidersBlock PROVE EditTyped
<1>1. PICK p \in Clouds \cup {"local"} :
        LET v == ProviderPicked(values, p) IN
        EditKeeping(p, v, [secret |-> v.secret, config |-> v.config], boxes)
  BY DEF ClusterFormProvidersBlock
<1> DEFINE v == ProviderPicked(values, p)
           k == [secret |-> v.secret, config |-> v.config]
<1>2. Typed(v, stored)
  BY ProviderTyped DEF FormTyped
<1>3. EditKeeping(p, v, k, boxes)
  BY <1>1
<1> HIDE DEF v
<1>4. k.secret \in Ids(stored)
  BY <1>2 DEF Typed, Ids
<1> HIDE DEF k
<1> QED BY <1>2, <1>3, <1>4 DEF EditKeeping, EditTyped

LEMMA CloudTyped ==
  ASSUME FormTyped,
         \/ CloudFormRegionBlock \/ CloudFormInstancesBlock \/ CustomInstance
         \/ StorageBlock \/ Network \/ SshKeyBlock
  PROVE  EditTyped
<1>1. CASE CloudFormRegionBlock \/ CloudFormInstancesBlock
  BY <1>1, SetEdit, Untyped, HandlersKeep, KeptEdit
     DEF CloudFormRegionBlock, CloudFormInstancesBlock, Edit
<1>2. CASE StorageBlock
  BY <1>2, SetEdit, Untyped, HandlersKeep, KeptEdit DEF StorageBlock, Edit
<1>3. CASE CustomInstance \/ Network \/ SshKeyBlock
  BY <1>3, SetEdit, Untyped DEF CustomInstance, Network, SshKeyBlock
<1> QED BY <1>1, <1>2, <1>3

LEMMA AmountTyped == ASSUME FormTyped, InstancesAmountBlock PROVE EditTyped
<1>1. ASSUME NEW n \in 1..3, Edit("amount", Set(values, "amount", n)) PROVE EditTyped
  <2>1. Typed(Set(values, "amount", n), stored)
    <3>1. TypedFields \subseteq DOMAIN values
      BY DefaultTyped DEF Typed, FormTyped
    <3> QED BY <3>1 DEF FormTyped, Typed, Set, TypedFields
  <2> QED BY <1>1, <2>1, TypedEdit DEF Edit
<1> QED BY <1>1, SetEdit, Untyped DEF InstancesAmountBlock

(* No more synchronous standbys than instances but one, or none. *)
LEMMA StandbysTyped == ASSUME FormTyped, AdditionalSettingsBlock PROVE EditTyped
<1>1. ASSUME NEW n \in 0..3, Edit("standby", StandbyTyped(values, n)) PROVE EditTyped
  <2> DEFINE m == IF n > values.amount - 1 THEN values.amount - 1 ELSE n
  <2>1. m \in 0..2
    <3>1. values.amount \in 1..3
      BY DEF FormTyped, Typed
    <3> QED BY <3>1
  <2>2. StandbyTyped(values, n) = Set(values, "standby", m)
    BY DEF StandbyTyped
  <2> HIDE DEF m
  <2>3. Typed(Set(values, "standby", m), stored)
    <3>1. TypedFields \subseteq DOMAIN values
      BY DefaultTyped DEF Typed, FormTyped
    <3> QED BY <2>1, <3>1 DEF FormTyped, Typed, Set, TypedFields
  <2> QED BY <1>1, <2>2, <2>3, TypedEdit DEF Edit
<1> QED BY <1>1, SetEdit, Untyped DEF AdditionalSettingsBlock

LEMMA TextsTyped ==
  ASSUME FormTyped,
         \/ VipAddressBlock \/ ClusterFormEnvironmentBlock \/ ClusterNameBox
         \/ AuthenticationFormPart \/ PasswordMethodFormPart \/ SshMethodFormPart
         \/ ConfigurePostgresParametersModal \/ ConfigureKernelParametersModal
         \/ DataDirectoryBlock \/ ConfigureBackupModal
  PROVE  EditTyped
<1>1. CASE VipAddressBlock \/ ClusterFormEnvironmentBlock \/ ClusterNameBox
  BY <1>1, SetEdit, Untyped DEF VipAddressBlock, ClusterFormEnvironmentBlock, ClusterNameBox
<1>2. CASE AuthenticationFormPart \/ PasswordMethodFormPart \/ SshMethodFormPart
  BY <1>2, SetEdit, Untyped DEF AuthenticationFormPart, PasswordMethodFormPart, SshMethodFormPart
<1>3. CASE \/ ConfigurePostgresParametersModal \/ ConfigureKernelParametersModal
           \/ DataDirectoryBlock \/ ConfigureBackupModal
  BY <1>3, SetEdit, Untyped DEF ConfigurePostgresParametersModal, ConfigureKernelParametersModal,
                               DataDirectoryBlock, ConfigureBackupModal
<1> QED BY <1>1, <1>2, <1>3

LEMMA ExpertTyped ==
  ASSUME FormTyped,
         \/ LoadBalancersBlock \/ LoadBalancersDatabaseBox \/ DcsBlock \/ DcsDatabaseBox
         \/ PostgresVersionBox \/ BackupsBlock \/ ExtensionsBlock \/ ExtensionSelector
  PROVE  EditTyped
<1>1. CASE LoadBalancersBlock
  BY <1>1, SetEdit, Untyped DEF LoadBalancersBlock
<1>2. CASE DcsBlock
  BY <1>2, SetEdit, Untyped DEF DcsBlock
<1>3. CASE LoadBalancersDatabaseBox \/ DcsDatabaseBox
  <2>1. \A i, a : /\ Keeps(values, [values EXCEPT !.balancers[i] = a])
                  /\ Keeps(values, [values EXCEPT !.dcsHosts[i] = a])
    BY DEF Keeps, TypedFields
  <2> QED BY <1>3, <2>1, KeptEdit DEF LoadBalancersDatabaseBox, DcsDatabaseBox, Edit
<1>4. CASE PostgresVersionBox
  BY <1>4, VersionKeeps, KeptEdit DEF PostgresVersionBox, Edit
<1>5. CASE BackupsBlock
  BY <1>5, SetEdit, Untyped, HandlersKeep, KeptEdit DEF BackupsBlock, Edit
<1>6. CASE ExtensionsBlock
  BY <1>6, EffectsKeep, KeptEdit DEF ExtensionsBlock
<1>7. CASE ExtensionSelector
  BY <1>7, HandlersKeep, KeptEdit DEF ExtensionSelector, Edit
<1> QED BY <1>1, <1>2, <1>3, <1>4, <1>5, <1>6, <1>7

LEMMA DatabasesTyped ==
  ASSUME FormTyped,
         DatabaseBlock \/ DatabaseBox \/ ConnectionPoolsBlock \/ ConnectionPoolBox
  PROVE  EditTyped
<1>1. \A v, w, s : Keeps(v, w) => Keeps(v, SelectorsIntersect(w, s))
  BY EffectsKeep, KeepsTwice
<1>2. CASE DatabaseBlock
  <2> DEFINE v == SelectorsIntersect(DatabaseAppended(values, boxes.number, NextDatabaseId), Shown)
  <2>1. Keeps(values, v)
    BY <1>1, DatabasesKeep
  <2>2. \E b : EditKeeping("databases", v, kept, b)
    BY <1>2, Zenon DEF DatabaseBlock
  <2> HIDE DEF v
  <2> QED BY <2>1, <2>2, KeptEdit
<1>3. CASE DatabaseBox
  <2>1. PICK i : \/ Edit("databases",
                         SelectorsIntersect(DatabaseRenamed(values, i, "renamed"), Shown))
                 \/ Edit("databases", [values EXCEPT !.databases[i].user = "typed"])
                 \/ Edit("databases", SelectorsIntersect(DatabaseDeleted(values, i), Shown))
    BY <1>3 DEF DatabaseBox
  <2>2. /\ Keeps(values, SelectorsIntersect(DatabaseRenamed(values, i, "renamed"), Shown))
        /\ Keeps(values, SelectorsIntersect(DatabaseDeleted(values, i), Shown))
    BY <1>1, DatabasesKeep
  <2>3. Keeps(values, [values EXCEPT !.databases[i].user = "typed"])
    BY DEF Keeps, TypedFields
  <2> QED BY <2>1, <2>2, <2>3, KeptEdit DEF Edit
<1>4. CASE ConnectionPoolsBlock
  <2>1. Keeps(values, PoolBoxesMount(Set(values, "pooler", TRUE)))
    <3> DEFINE v == Set(values, "pooler", TRUE)
    <3>1. Keeps(values, v)
      BY SetKeeps, Untyped
    <3> HIDE DEF v
    <3>2. Keeps(v, PoolBoxesMount(v))
      BY BoxesKeep
    <3> QED BY <3>1, <3>2, KeepsTwice DEF v
  <2>2. Keeps(values, PoolBoxMounts(Appended(values, "pools", ""), Len(values.pools) + 1))
    <3> DEFINE v == Appended(values, "pools", "")
    <3>1. Keeps(values, v)
      BY SetKeeps, Untyped
    <3> HIDE DEF v
    <3>2. Keeps(v, PoolBoxMounts(v, Len(values.pools) + 1))
      BY BoxesKeep
    <3>3. Keeps(values, PoolBoxMounts(v, Len(values.pools) + 1))
      BY <3>1, <3>2, KeepsTwice
    <3> QED BY <3>3 DEF v
  <2>3. Keeps(values, Set(values, "pooler", FALSE))
    BY SetKeeps, Untyped
  <2>4. CASE Edit("pools", IF values.pooler THEN Set(values, "pooler", FALSE)
                           ELSE PoolBoxesMount(Set(values, "pooler", TRUE)))
    <3> DEFINE v == IF values.pooler THEN Set(values, "pooler", FALSE)
                    ELSE PoolBoxesMount(Set(values, "pooler", TRUE))
    <3>1. Keeps(values, v)
      BY <2>1, <2>3
    <3> HIDE DEF v
    <3> QED BY <2>4, <3>1, KeptEdit DEF Edit, v
  <2>5. CASE Edit("pools", PoolBoxMounts(Appended(values, "pools", ""), Len(values.pools) + 1))
    BY <2>2, <2>5, KeptEdit DEF Edit
  <2>6. CASE \E i : Edit("pools", Removed(values, "pools", i))
    BY <2>6, SetEdit, Untyped
  <2> QED BY <1>4, <2>4, <2>5, <2>6 DEF ConnectionPoolsBlock
<1>5. CASE ConnectionPoolBox
  <2>1. \A i : Keeps(values, [values EXCEPT !.pools[i] = "typed"])
    BY DEF Keeps, TypedFields
  <2> QED BY <1>5, <2>1, KeptEdit DEF ConnectionPoolBox, Edit
<1> QED BY <1>2, <1>3, <1>4, <1>5

(* The secret is one of the list that is shown. *)
LEMMA SecretTyped == ASSUME FormTyped, AuthenticationMethodFormBlock PROVE EditTyped
<1>1. ASSUME SecretsListed, NEW id \in Rows(held.auth.ids), Edit("auth", Set(values, "secret", id))
      PROVE  EditTyped
  <2>1. held.auth # None /\ held.auth.ids # None
    BY <1>1 DEF SecretsListed, Count
  <2>2. id \in DOMAIN stored
    BY <2>1 DEF FormTyped, ListOK
  <2>3. Typed(Set(values, "secret", id), stored)
    <3>1. TypedFields \subseteq DOMAIN values
      BY DefaultTyped DEF Typed, FormTyped
    <3> QED BY <2>2, <3>1 DEF FormTyped, Typed, Set, TypedFields
  <2> QED BY <1>1, <2>3, TypedEdit DEF Edit
<1> QED BY <1>1, SetEdit, Untyped DEF AuthenticationMethodFormBlock

(* A list of servers with typed addresses. *)
LEMMA ServersListed ==
  ASSUME FormTyped, NEW part, NEW list, ServersTyped(list),
         Edit(part, [values EXCEPT !["servers"] = list])
  PROVE  EditTyped
<1>1. Typed([values EXCEPT !["servers"] = list], stored)
  <2>1. TypedFields \subseteq DOMAIN values
    BY DefaultTyped DEF Typed, FormTyped
  <2> QED BY <2>1 DEF FormTyped, Typed, TypedFields
<1> QED BY <1>1, TypedEdit DEF Edit

LEMMA MachinesTyped == ASSUME FormTyped, DatabaseServersBlock \/ DatabaseServerBox PROVE EditTyped
<1> DEFINE s == values.servers
<1>1. ServersTyped(s) /\ Numbered(s)
  BY DEF FormTyped, Typed, OnForm, PageInv, ServersInv
<1>2. Len(s) \in Nat /\ DOMAIN s = 1..Len(s)
  <2> HIDE DEF s
  <2> QED BY <1>1, Listed
<1>3. ASSUME NEW row, "ip" \in DOMAIN row, row.ip = None, Edit("servers", Appended(values, "servers", row))
      PROVE  EditTyped
  <2> DEFINE list == Append(s, row)
  <2>1. Edit("servers", [values EXCEPT !["servers"] = list])
    BY <1>3 DEF Appended
  <2> HIDE DEF s
  <2>2. /\ DOMAIN list = 1..(Len(s) + 1) /\ list[Len(s) + 1] = row
        /\ \A i \in 1..Len(s) : list[i] = s[i]
    <3>1. /\ Numbered(list) /\ Len(list) = Len(s) + 1
          /\ list[Len(s) + 1] = row /\ \A i \in 1..Len(s) : list[i] = s[i]
      BY <1>1, ListAppended
    <3> HIDE DEF list
    <3>2. DOMAIN list = 1..Len(list)
      BY <3>1, Listed
    <3> QED BY <3>1, <3>2
  <2> HIDE DEF list
  <2>3. ServersTyped(list)
    <3> SUFFICES ASSUME NEW i \in DOMAIN list
                 PROVE  "ip" \in DOMAIN list[i] /\ list[i].ip \in Addresses \cup {None}
      BY DEF ServersTyped
    <3>1. i \in 1..Len(s) \/ i = Len(s) + 1
      BY <1>2, <2>2
    <3>2. CASE i \in 1..Len(s)
      BY <1>1, <1>2, <2>2, <3>2 DEF ServersTyped
    <3>3. CASE i = Len(s) + 1
      BY <1>3, <2>2, <3>3
    <3> QED BY <3>1, <3>2, <3>3
  <2> QED BY <2>1, <2>3, ServersListed
<1>4. ASSUME NEW i \in 2..Len(s), Edit("servers", Removed(values, "servers", i)) PROVE EditTyped
  <2> DEFINE list == Without(s, i)
  <2>1. Edit("servers", [values EXCEPT !["servers"] = list])
    BY <1>4 DEF Removed
  <2> HIDE DEF s
  <2>2. /\ DOMAIN list = 1..(Len(s) - 1)
        /\ \A j \in 1..(Len(s) - 1) : list[j] = IF j < i THEN s[j] ELSE s[j + 1]
    BY DEF Without
  <2> HIDE DEF list
  <2>3. ServersTyped(list)
    <3> SUFFICES ASSUME NEW j \in DOMAIN list
                 PROVE  "ip" \in DOMAIN list[j] /\ list[j].ip \in Addresses \cup {None}
      BY DEF ServersTyped
    <3>1. j \in DOMAIN s /\ j + 1 \in DOMAIN s
      BY <1>2, <2>2
    <3>2. list[j] = s[j] \/ list[j] = s[j + 1]
      BY <2>2
    <3> QED BY <1>1, <3>1, <3>2 DEF ServersTyped
  <2> QED BY <2>1, <2>3, ServersListed
<1>5. ASSUME NEW i, NEW row, "ip" \in DOMAIN row,
             row.ip \in Addresses \cup {None},
             Edit("servers", [values EXCEPT !["servers"] = [s EXCEPT ![i] = row]])
      PROVE  EditTyped
  <2> DEFINE list == [s EXCEPT ![i] = row]
  <2>1. Edit("servers", [values EXCEPT !["servers"] = list])
    BY <1>5
  <2> HIDE DEF s
  <2>2. ServersTyped(list)
    BY <1>1, <1>5 DEF ServersTyped
  <2> HIDE DEF list
  <2> QED BY <2>1, <2>2, ServersListed
<1>6. CASE DatabaseServersBlock
  <2> DEFINE row == [ip |-> None, exists |-> FALSE]
  <2>1. "ip" \in DOMAIN row /\ row.ip = None
    OBVIOUS
  <2>2. \/ Edit("servers", Appended(values, "servers", row))
        \/ \E i \in 2..Len(s) : Edit("servers", Removed(values, "servers", i))
        \/ Edit("servers", Set(values, "existing", ~values.existing))
    BY <1>6 DEF DatabaseServersBlock
  <2> HIDE DEF row, s
  <2> QED BY <1>3, <1>4, <2>1, <2>2, SetEdit, Untyped DEF s
<1>7. CASE DatabaseServerBox
  <2>1. PICK i \in DOMAIN s : \/ \E a \in Addresses : Edit("servers", [values EXCEPT !.servers[i].ip = a])
                              \/ Edit("servers", [values EXCEPT !.servers[i].exists = ~@])
    BY <1>7 DEF DatabaseServerBox
  <2>2. \A a : [values EXCEPT !.servers[i].ip = a]
               = [values EXCEPT !["servers"] = [s EXCEPT ![i] = [s[i] EXCEPT !.ip = a]]]
    OBVIOUS
  <2>3. [values EXCEPT !.servers[i].exists = ~@]
        = [values EXCEPT !["servers"] = [s EXCEPT ![i] = [s[i] EXCEPT !.exists = ~s[i].exists]]]
    OBVIOUS
  <2>4. "ip" \in DOMAIN s[i] /\ s[i].ip \in Addresses \cup {None}
    BY <1>1 DEF ServersTyped
  <2>5. CASE \E a \in Addresses : Edit("servers", [values EXCEPT !.servers[i].ip = a])
    <3>1. PICK a \in Addresses : Edit("servers", [values EXCEPT !.servers[i].ip = a])
      BY <2>5
    <3> DEFINE row == [s[i] EXCEPT !.ip = a]
    <3>2. Edit("servers", [values EXCEPT !["servers"] = [s EXCEPT ![i] = row]])
      BY <2>2, <3>1
    <3>3. "ip" \in DOMAIN row /\ row.ip = a
      BY <2>4
    <3> HIDE DEF row, s
    <3> QED BY <1>5, <3>2, <3>3
  <2>6. CASE Edit("servers", [values EXCEPT !.servers[i].exists = ~@])
    <3> DEFINE row == [s[i] EXCEPT !.exists = ~s[i].exists]
    <3>1. Edit("servers", [values EXCEPT !["servers"] = [s EXCEPT ![i] = row]])
      BY <2>3, <2>6
    <3>2. "ip" \in DOMAIN row /\ row.ip = s[i].ip
      BY <2>4
    <3> HIDE DEF row, s
    <3> QED BY <1>5, <2>4, <3>1, <3>2
  <2> QED BY <2>1, <2>5, <2>6
<1> QED BY <1>6, <1>7

(* Every address is typed somewhere in the rows. *)
LEMMA MachinesFilled == ASSUME FormTyped, ClusterFormLocalMachineFormPart PROVE EditTyped
<1> DEFINE typed == SetToSeq(Addresses)
           n == Cardinality(Addresses)
           s == values.servers
           v == LocalPartFilled(values)
<1>1. n \in Nat /\ n # 0
  <2>1. IsFiniteSet(Addresses) /\ Addresses # {}
    BY AddressesAssumption
  <2>2. n \in Nat /\ (n = 0 => Addresses = {})
    BY <2>1, FS_CardinalityType, FS_EmptySet
  <2> QED BY <2>1, <2>2
<1>2. \E f \in [1..n -> Addresses] : IsInjective(f)
  <2>1. ExistsBijection(1..n, Addresses)
    BY AddressesAssumption, FS_CardinalityType
  <2> QED BY <2>1, Zenon DEF ExistsBijection, Bijection, Injection
<1>3. typed \in [1..n -> Addresses]
  BY <1>2, Zenon DEF SetToSeq
<1> HIDE DEF typed, n
<1>4. Len(typed) = n
  BY <1>1, <1>3, ListFrom
<1>5. Numbered(s) /\ TypedFields \subseteq DOMAIN values
  BY DefaultTyped DEF FormTyped, OnForm, PageInv, ServersInv, Typed
<1>6. DOMAIN s \subseteq Nat
  <2> HIDE DEF s
  <2> QED BY <1>5, Listed
<1>7. \A i \in DOMAIN s : typed[(i % Len(typed)) + 1] \in Addresses
  <2> SUFFICES ASSUME NEW i \in Nat PROVE typed[(i % n) + 1] \in Addresses
    BY <1>4, <1>6
  <2>1. (i % n) + 1 \in 1..n
    BY <1>1
  <2> QED BY <1>3, <2>1
<1>8. /\ DOMAIN v = DOMAIN values /\ v.provider = values.provider /\ v.amount = values.amount
      /\ v.standby = values.standby /\ v.secret = values.secret
  BY DEF LocalPartFilled
<1>9. v.servers = [i \in DOMAIN s |-> [s[i] EXCEPT !.ip = typed[(i % Len(typed)) + 1]]]
  BY <1>5 DEF LocalPartFilled, typed, TypedFields
<1> HIDE DEF v, s
<1>10. ServersTyped(v.servers)
  <2>1. ServersTyped(s)
    BY DEF FormTyped, Typed, s
  <2> QED BY <1>7, <1>9, <2>1 DEF ServersTyped
<1>11. Typed(v, stored)
  BY <1>8, <1>10 DEF FormTyped, Typed
<1> QED BY <1>11, TypedEdit DEF ClusterFormLocalMachineFormPart, Edit, v

LEMMA FillInTyped == ASSUME FormTyped, FillIn PROVE EditTyped
<1>1. CASE ClusterFormCloudProviderFormPart
  BY <1>1, HandlersKeep, KeptEdit DEF ClusterFormCloudProviderFormPart, Edit
<1> QED BY <1>1, ProvidersTyped, CloudTyped, AmountTyped, StandbysTyped, TextsTyped, ExpertTyped,
           DatabasesTyped, SecretTyped, MachinesTyped, MachinesFilled DEF FillIn

(* What a handler leaves to Render has types, and so has what is shown.    *)
DocOK(d) ==
  /\ "object" \in DOMAIN d /\ "cloud" \in DOMAIN d.object
  /\ d.object.cloud \in Clouds \cup {None}

ModalOK(m, s) == {"open", "chosen"} \subseteq DOMAIN m /\ m.chosen \in Ids(s)

RefOK(r, s) == DOMAIN r = Components /\ \A c \in Components : r[c] \in Ids(s)

PageOK(p, s) ==
  /\ Typed(p.values, s) /\ p.kept.secret \in Ids(s)
  /\ ModalOK(p.modal, s) /\ RefOK(p.ref, s) /\ DocOK(p.doc)

HeldOK == \A h \in Holders : ListOK(held[h], stored)

PageTypes ==
  /\ PageOK(Now, stored) /\ HeldOK
  /\ modal.open => view \in {"form", "yaml"}

LEMMA PageStays ==
  ASSUME NEW p, NEW s, NEW t, DOMAIN s \subseteq DOMAIN t, PageOK(p, s) PROVE PageOK(p, t)
  BY DEF PageOK, Typed, Ids, ModalOK, RefOK

LEMMA RenderTypes ==
  ASSUME PageTypes, CacheOK(cache, stored)', NEW p, Render(p), PageOK(p, stored'),
         DOMAIN stored \subseteq DOMAIN stored'
  PROVE  PageTypes'
<1> DEFINE Before(h) == IF p.view = view THEN held[h] ELSE None
           type == ProviderShown(p.values, p.view, p.doc)
           asks == AsksInModal(p.values, p.view, held'.page)
<1>1. /\ view' = p.view /\ cache' = p.cache /\ doc' = p.doc /\ kept' = p.kept
      /\ ref' = [page |-> IF p.view = view THEN p.ref.page ELSE None,
                 modal |-> IF asks /\ p.view = view THEN p.ref.modal ELSE None]
      /\ modal' = IF asks /\ p.view = view THEN p.modal ELSE ModalShut
  BY DEF Render
<1>2. /\ held'.page \in {None, ListShown(Before("page"), p.cache, type)}
      /\ held'.auth \in {None, ListShown(Before("auth"), p.cache, p.values.auth)}
      /\ held'.modal \in {None, ListShown(Before("modal"), p.cache, type)}
  BY DEF Render
<1>3. values' = p.values \/ \E count, before :
        values' = AuthenticationEffects(p.values, values, count, before, p.kept)
  BY DEF Render
<1>4. Typed(values', stored')
  <2>1. CASE values' = p.values
    BY <2>1 DEF PageOK
  <2>2. CASE \E count, before :
               values' = AuthenticationEffects(p.values, values, count, before, p.kept)
    <3>1. /\ DOMAIN values' = DOMAIN p.values /\ values'.provider = p.values.provider
          /\ values'.amount = p.values.amount /\ values'.standby = p.values.standby
          /\ values'.servers = p.values.servers
      BY <2>2 DEF AuthenticationEffects
    <3>2. "secret" \in DOMAIN p.values
      BY DefaultTyped DEF PageOK, Typed, TypedFields
    <3>3. values'.secret \in {p.values.secret, p.kept.secret}
      BY <2>2, <3>2 DEF AuthenticationEffects
    <3> QED BY <3>1, <3>3 DEF PageOK, Typed, Ids
  <2> QED BY <1>3, <2>1, <2>2
<1>5. ModalOK(modal', stored') /\ RefOK(ref', stored')
  <2>1. ModalOK(ModalShut, stored')
    BY DEF ModalOK, ModalShut, Ids
  <2>2. RefOK(ref', stored')
    BY <1>1 DEF PageOK, RefOK, Components, Ids
  <2> QED BY <1>1, <2>1, <2>2 DEF PageOK
<1>6. PageOK(Now, stored)'
  BY <1>1, <1>4, <1>5 DEF PageOK, Now
<1>7. ASSUME NEW h \in Holders, NEW t PROVE ListOK(ListShown(Before(h), p.cache, t), stored')
  <2>1. ListOK(Before(h), stored')
    BY DEF PageTypes, HeldOK, ListOK
  <2>2. ListOK([type |-> t, ids |-> Cached(p.cache, t)], stored')
    BY <1>1 DEF ListOK, Cached, CacheOK, OfMethod
  <2> QED BY <2>1, <2>2 DEF ListShown
<1>8. HeldOK'
  <2>1. ListOK(None, stored')
    BY DEF ListOK
  <2>2. \A h \in Holders : held'[h] = None \/ \E t : held'[h] = ListShown(Before(h), p.cache, t)
    BY <1>2 DEF Holders
  <2> QED BY <1>7, <2>1, <2>2 DEF HeldOK
<1>9. modal'.open => view' \in {"form", "yaml"}
  <2>1. ~ModalShut.open
    BY DEF ModalShut
  <2> QED BY <1>1, <2>1 DEF AsksInModal
<1> QED BY <1>6, <1>8, <1>9 DEF PageTypes

LEMMA ShutOK == \A s : ModalOK(ModalShut, s)
  BY DEF ModalOK, ModalShut, Ids

(* The editor has the cloud of the form. *)
LEMMA YamlTyped == ASSUME NEW v, NEW s, Typed(v, s) PROVE DocOK(EditorMounts(v))
<1>1. v.provider \in Clouds \cup {"local", None}
  BY DEF Typed
<1> QED BY <1>1 DEF DocOK, EditorMounts, YamlOf

LEMMA ClosedTyped ==
  ASSUME NEW s
  PROVE  /\ PageOK(Closed, s)
         /\ \A w : PageOK([Closed EXCEPT !.view = w], s)
         /\ \A w, x : PageOK([Closed EXCEPT !.view = w, !.values = FormDefaults(x)], s)
         /\ \A c : PageOK([Closed EXCEPT !.cache = c], s)
<1> DEFINE v == FormDefaults(FALSE)
<1>1. \A x : Typed(FormDefaults(x), s)
  BY DefaultTyped
<1> DEFINE d == [valid |-> FALSE, object |-> YamlOf(v)]
<1>2. DocOK(d)
  <2>1. v.provider \in Clouds \cup {"local", None}
    BY <1>1 DEF Typed
  <2> QED BY <2>1 DEF DocOK, YamlOf
<1> DEFINE k == [secret |-> None, config |-> None]
           r == [page |-> None, modal |-> None]
<1>3. k.secret \in Ids(s) /\ RefOK(r, s) /\ ModalOK(ModalShut, s)
  BY ShutOK DEF Ids, RefOK, Components
<1>4. /\ Closed.values = v /\ Closed.kept = k /\ Closed.ref = r /\ Closed.modal = ModalShut
      /\ Closed.doc = d /\ {"values", "kept", "ref", "modal", "doc"} \subseteq DOMAIN Closed
  BY DEF Closed
<1> HIDE DEF v, d, k, r
<1>5. PageOK(Closed, s)
  BY <1>1, <1>2, <1>3, <1>4 DEF PageOK, v
<1>6. \A w : PageOK([Closed EXCEPT !.view = w], s)
  BY <1>5 DEF PageOK
<1>7. \A w, x : PageOK([Closed EXCEPT !.view = w, !.values = FormDefaults(x)], s)
  BY <1>1, <1>2, <1>3, <1>4 DEF PageOK
<1>8. \A c : PageOK([Closed EXCEPT !.cache = c], s)
  BY <1>5 DEF PageOK
<1> QED BY <1>5, <1>6, <1>7, <1>8

(* What each step leaves to Render. *)
LEMMA OpensTyped ==
  ASSUME OpenPage \/ Reload \/ LeavePage \/ ClusterCreated
  PROVE  \E p : Render(p) /\ PageOK(p, stored)
<1>1. CASE OpenPage
  <2>1. Render([Closed EXCEPT !.view = "loading", !.values = FormDefaults(loaded')])
    BY <1>1 DEF OpenPage
  <2> QED BY <2>1, ClosedTyped
<1>2. CASE Reload
  <2>1. \E c : Render([Closed EXCEPT !.cache = c])
    BY <1>2 DEF Reload
  <2> QED BY <2>1, ClosedTyped
<1>3. CASE LeavePage \/ ClusterCreated
  <2>1. Render(Closed)
    BY <1>3 DEF LeavePage, ClusterCreated
  <2> QED BY <2>1, ClosedTyped
<1> QED BY <1>1, <1>2, <1>3

LEMMA LoadedTyped == ASSUME PageTypes, PageLoaded PROVE \E p : Render(p) /\ PageOK(p, stored)
<1> DEFINE place == Deployment(FirstCloud).regions[1].code
           centre == FirstDatacenter(FirstCloud)
           small == First(Deployment(FirstCloud).small)
           newest == Last(Versions)
           first == First(Environments)
           volume == IF expert THEN DefaultVolumeType(FirstCloud) ELSE values.volume
           v == [values EXCEPT !.provider = FirstCloud, !.region = place, !.datacenter = centre,
                               !.instance = small, !.version = newest, !.environment = first,
                               !.name = "name", !.volume = volume]
           k == [secret |-> v.secret, config |-> v.config]
           p == [Now EXCEPT !.view = "form", !.values = FormMounts(v), !.kept = k]
<1>1. Render(p)
  BY DEF PageLoaded
<1>2. PageOK(Now, stored) /\ Typed(values, stored)
  BY DEF PageTypes, PageOK, Now
<1>3. FirstCloud \in Clouds
  BY CatalogueAssumption DEF FirstCloud, Clouds
<1>4. Typed(v, stored)
  <2>1. TypedFields \subseteq DOMAIN values
    BY <1>2, DefaultTyped DEF Typed
  <2> HIDE DEF place, centre, small, newest, first, volume
  <2>2. /\ DOMAIN v = DOMAIN values /\ v.amount = values.amount /\ v.standby = values.standby
        /\ v.servers = values.servers /\ v.secret = values.secret
    <3>1. DOMAIN v = DOMAIN values
      OBVIOUS
    <3>2. v.amount = values.amount
      OBVIOUS
    <3>3. v.standby = values.standby
      OBVIOUS
    <3>4. v.servers = values.servers
      OBVIOUS
    <3>5. v.secret = values.secret
      OBVIOUS
    <3> QED BY <3>1, <3>2, <3>3, <3>4, <3>5
  <2>3. v.provider = FirstCloud
    BY <2>1 DEF TypedFields
  <2> HIDE DEF v
  <2> QED BY <1>2, <1>3, <2>2, <2>3 DEF Typed
<1> HIDE DEF v
<1>5. Typed(FormMounts(v), stored) /\ k.secret \in Ids(stored)
  BY <1>4, MountsKeep, KeepsTypes DEF Typed, Ids
<1>6. /\ p.values = FormMounts(v) /\ p.kept = k /\ p.ref = Now.ref /\ p.modal = Now.modal
      /\ p.doc = Now.doc
  BY DEF Now
<1> HIDE DEF p, k
<1>7. PageOK(p, stored)
  BY <1>2, <1>5, <1>6 DEF PageOK
<1> QED BY <1>1, <1>7

LEMMA FilledTyped ==
  ASSUME ViewInv, PageTypes, FillIn PROVE \E p : Render(p) /\ PageOK(p, stored)
<1>1. view = "form"
  BY FillInRenders
<1>2. PageOK(Now, stored) /\ Typed(values, stored) /\ kept.secret \in Ids(stored)
  BY DEF PageTypes, PageOK, Now
<1>3. FormTyped
  BY <1>1, <1>2 DEF ViewInv, OnForm, FormTyped, PageTypes, HeldOK, Holders
<1>4. PICK v, k : /\ Render([Now EXCEPT !.values = v, !.kept = k])
                  /\ Typed(v, stored) /\ k.secret \in Ids(stored)
  BY <1>3, FillInTyped DEF EditTyped
<1> DEFINE p == [Now EXCEPT !.values = v, !.kept = k]
<1>5. /\ p.values = v /\ p.kept = k /\ p.ref = Now.ref /\ p.modal = Now.modal
      /\ p.doc = Now.doc
  BY DEF Now
<1> HIDE DEF p
<1>6. PageOK(p, stored)
  BY <1>2, <1>4, <1>5 DEF PageOK
<1> QED BY <1>4, <1>6 DEF p

LEMMA TabsTyped ==
  ASSUME PageTypes, ToYaml \/ ToForm PROVE \E p : Render(p) /\ PageOK(p, stored)
<1>1. PageOK(Now, stored) /\ Typed(values, stored)
  BY DEF PageTypes, PageOK, Now
<1>2. \A type : Typed(Set(values, "creationType", type), stored)
  BY <1>1, SetKeeps, KeepsTypes DEF TypedFields
<1>3. CASE ToYaml
  <2> DEFINE v == Set(values, "creationType", "yaml")
             p == [Now EXCEPT !.view = "yaml", !.values = v, !.doc = EditorMounts(v)]
  <2>1. Render([Closed EXCEPT !.view = "broken"]) \/ Render(p)
    BY <1>3 DEF ToYaml
  <2>2. /\ p.values = v /\ p.kept = Now.kept /\ p.ref = Now.ref /\ p.modal = Now.modal
        /\ p.doc = EditorMounts(v)
    BY DEF Now
  <2> HIDE DEF p, v
  <2>3. Typed(v, stored) /\ DocOK(EditorMounts(v))
    BY <1>2, YamlTyped DEF v
  <2>4. PageOK(p, stored)
    BY <1>1, <2>2, <2>3 DEF PageOK
  <2> QED BY <2>1, <2>4, ClosedTyped
<1>4. CASE ToForm
  <2> DEFINE v == FormMounts(Set(values, "creationType", "form"))
             p == [Now EXCEPT !.view = "form", !.values = v]
  <2>1. Render(p)
    BY <1>4 DEF ToForm
  <2>2. /\ p.values = v /\ p.kept = Now.kept /\ p.ref = Now.ref /\ p.modal = Now.modal
        /\ p.doc = Now.doc
    BY DEF Now
  <2>3. Typed(v, stored)
    BY <1>2, MountsKeep, KeepsTypes
  <2> HIDE DEF p, v
  <2>4. PageOK(p, stored)
    BY <1>1, <2>2, <2>3 DEF PageOK
  <2> QED BY <2>1, <2>4
<1> QED BY <1>3, <1>4

LEMMA EditorTyped ==
  ASSUME PageTypes, YamlEdited \/ SecretsArrive PROVE \E p : Render(p) /\ PageOK(p, stored)
<1>1. /\ PageOK(Now, stored) /\ Now.doc = doc /\ DocOK(doc)
      /\ {"doc", "values", "kept", "ref", "modal"} \subseteq DOMAIN Now
  BY DEF PageTypes, PageOK, Now
<1>2. \A t, ids : PageOK([Now EXCEPT !.cache[t] = ids], stored)
  BY <1>1 DEF PageOK
<1>3. ASSUME NEW d, DocOK(d) PROVE PageOK([Now EXCEPT !.doc = d], stored)
  <2> DEFINE p == [Now EXCEPT !.doc = d]
  <2>1. /\ p.values = Now.values /\ p.kept = Now.kept /\ p.ref = Now.ref /\ p.modal = Now.modal
        /\ p.doc = d
    BY <1>1
  <2> HIDE DEF p
  <2>2. PageOK(p, stored)
    BY <1>1, <1>3, <2>1 DEF PageOK
  <2> QED BY <2>2 DEF p
<1>4. PageOK([Now EXCEPT !.doc.valid = FALSE], stored)
  <2> DEFINE d == [doc EXCEPT !.valid = FALSE]
  <2>1. [Now EXCEPT !.doc.valid = FALSE] = [Now EXCEPT !.doc = d]
    BY <1>1
  <2>2. DocOK(d)
    BY <1>1 DEF DocOK
  <2> HIDE DEF d
  <2> QED BY <1>3, <2>1, <2>2
<1>5. ASSUME NEW cloud \in Clouds \cup {None}, NEW o,
             o = [doc.object EXCEPT !.cloud = cloud, !.environment = Last(Environments)]
      PROVE  PageOK([Now EXCEPT !.doc = [valid |-> TRUE, object |-> o]], stored)
  <2> DEFINE d == [valid |-> TRUE, object |-> o]
  <2>1. DocOK(d)
    <3>1. "cloud" \in DOMAIN o /\ o.cloud = cloud
      BY <1>1, <1>5 DEF DocOK
    <3> QED BY <3>1 DEF DocOK
  <2> HIDE DEF d
  <2>2. PageOK([Now EXCEPT !.doc = d], stored)
    BY <1>3, <2>1
  <2> QED BY <2>2 DEF d
<1>6. CASE YamlEdited
  <2>1. \/ Render([Now EXCEPT !.doc.valid = FALSE])
        \/ \E cloud \in Clouds \cup {None} :
             Render([Now EXCEPT !.doc = [valid |-> TRUE,
               object |-> [doc.object EXCEPT !.cloud = cloud,
                                             !.environment = Last(Environments)]]])
    BY <1>6 DEF YamlEdited
  <2> QED BY <1>4, <1>5, <2>1
<1>7. CASE SecretsArrive
  <2>1. PICK t : Render([Now EXCEPT !.cache[t] = OfType(t, stored)])
    BY <1>7 DEF SecretsArrive
  <2> DEFINE ids == OfType(t, stored)
  <2> HIDE DEF ids
  <2> QED BY <1>2, <2>1 DEF ids
<1> QED BY <1>6, <1>7

(* A modal shuts, a text loses its environment, and the types stay. *)
LEMMA EndedTyped ==
  ASSUME NEW p, NEW s, PageOK(p, s), {"modal", "doc"} \subseteq DOMAIN p, NEW a
  PROVE  /\ PageOK(Ended(p, a), s)
         /\ \A c : PageOK([Ended(p, a) EXCEPT !.cache = c], s)
         /\ PageOK([p EXCEPT !.doc.object = Stripped(@)], s)
<1>1. PageOK([p EXCEPT !.modal = ModalShut], s)
  <2> DEFINE q == [p EXCEPT !.modal = ModalShut]
  <2>1. /\ q.values = p.values /\ q.kept = p.kept /\ q.ref = p.ref /\ q.doc = p.doc
        /\ q.modal = ModalShut
    OBVIOUS
  <2> HIDE DEF q
  <2> QED BY <2>1, ShutOK DEF PageOK
<1>2. PageOK(Ended(p, a), s)
  BY <1>1 DEF Ended
<1>3. \A c : PageOK([Ended(p, a) EXCEPT !.cache = c], s)
  <2> DEFINE q == Ended(p, a)
  <2>1. PageOK(q, s)
    BY <1>2
  <2> HIDE DEF q
  <2>2. \A c : PageOK([q EXCEPT !.cache = c], s)
    BY <2>1 DEF PageOK
  <2> QED BY <2>2 DEF q
<1>4. PageOK([p EXCEPT !.doc.object = Stripped(@)], s)
  <2> DEFINE o == Stripped(p.doc.object)
             d == [p.doc EXCEPT !.object = o]
             q == [p EXCEPT !.doc = d]
  <2>1. [p EXCEPT !.doc.object = Stripped(@)] = q
    OBVIOUS
  <2>2. "cloud" \in DOMAIN o /\ o.cloud = p.doc.object.cloud
    BY DEF Stripped, PageOK, DocOK
  <2> HIDE DEF o
  <2>3. DocOK(d)
    BY <2>2 DEF PageOK, DocOK
  <2>4. /\ q.values = p.values /\ q.kept = p.kept /\ q.ref = p.ref /\ q.modal = p.modal
        /\ q.doc = d
    OBVIOUS
  <2> HIDE DEF q, d
  <2>5. PageOK(q, s)
    BY <2>3, <2>4 DEF PageOK
  <2> QED BY <2>1, <2>5
<1> QED BY <1>2, <1>3, <1>4

LEMMA PostTyped ==
  ASSUME NEW s, NEW a, NEW created, NEW p, PageOK(p, s), {"modal", "doc"} \subseteq DOMAIN p,
         Post(a, p, created)
  PROVE  \E q : Render(q) /\ PageOK(q, s)
<1>1. \/ Render(Ended(p, a)) \/ Render(p)
      \/ Render([p EXCEPT !.doc.object = Stripped(@)])
  BY Zenon DEF Post
<1> QED BY <1>1, EndedTyped

LEMMA NowOK ==
  ASSUME PageTypes PROVE PageOK(Now, stored) /\ {"modal", "doc", "ref", "cache", "made"} \subseteq DOMAIN Now
  BY DEF PageTypes, Now

LEMMA SubmitTyped ==
  ASSUME PageTypes, SubmitForm \/ SubmitYaml \/ SubmitModal
  PROVE  \E p : Render(p) /\ PageOK(p, stored)
<1>1. \E a : Begin(a, Now)
  <2>1. CASE SubmitForm
    BY <2>1, Zenon DEF SubmitForm
  <2>2. CASE SubmitYaml
    BY <2>2, Zenon DEF SubmitYaml
  <2>3. CASE SubmitModal
    BY <2>3, Zenon DEF SubmitModal
  <2> QED BY <2>1, <2>2, <2>3
<1>2. PICK a : Begin(a, Now)
  BY <1>1
<1>3. Render(Now) \/ Post(a, Now, a.created)
  BY <1>2 DEF Begin
<1> QED BY <1>3, NowOK, PostTyped

(* The modal chooses one of the secrets it shows. *)
LEMMA ModalTyped ==
  ASSUME PageTypes, ClusterSecretModal PROVE \E p : Render(p) /\ PageOK(p, stored)
<1>1. ModalOK(modal, stored) /\ ListOK(held.modal, stored)
  BY DEF PageTypes, PageOK, Now, HeldOK, Holders
<1>2. \E m : ModalOK(m, stored) /\ Render([Now EXCEPT !.modal = m])
  <2>1. /\ \A x : ModalOK([modal EXCEPT !.open = x], stored)
        /\ \A x : ModalOK([modal EXCEPT !.typed = x], stored)
        /\ ModalOK([modal EXCEPT !.save = ~@], stored)
        /\ \A id \in DOMAIN stored : ModalOK([modal EXCEPT !.chosen = id], stored)
    BY <1>1 DEF ModalOK, Ids
  <2>2. Count(held.modal) > 1 => Rows(held.modal.ids) \subseteq DOMAIN stored
    BY <1>1 DEF Count, ListOK
  <2>3. \E m : ModalOK(m, stored) /\ ModalEdited(m)
    BY <2>1, <2>2 DEF ClusterSecretModal
  <2> QED BY <2>3 DEF ModalEdited
<1>3. PICK m : ModalOK(m, stored) /\ Render([Now EXCEPT !.modal = m])
  BY <1>2
<1> DEFINE p == [Now EXCEPT !.modal = m]
<1>4. /\ p.values = Now.values /\ p.kept = Now.kept /\ p.ref = Now.ref /\ p.doc = Now.doc
      /\ p.modal = m
  BY DEF Now
<1>5. Render(p)
  BY <1>3
<1> HIDE DEF p
<1>6. PageOK(p, stored)
  BY <1>3, <1>4, NowOK DEF PageOK
<1> QED BY <1>5, <1>6

(* The answers; a secret that is created is the next one. *)
LEMMA AnswersTyped ==
  ASSUME PageTypes, FlightInv, Numbered(stored), SecretCreated \/ SecretRefused \/ ClusterRefused
  PROVE  DOMAIN stored \subseteq DOMAIN stored' /\ \E p : Render(p) /\ PageOK(p, stored')
<1>1. CASE SecretRefused \/ ClusterRefused
  <2>1. \/ Render(Ended(Now, flight))
        \/ Render([Ended(Now, flight) EXCEPT !.cache = CacheInvalidated])
    BY <1>1, Zenon DEF SecretRefused, ClusterRefused
  <2>2. stored' = stored
    BY <1>1 DEF SecretRefused, ClusterRefused
  <2> DEFINE c == CacheInvalidated
  <2> HIDE DEF c
  <2>3. /\ PageOK(Ended(Now, flight), stored)
        /\ PageOK([Ended(Now, flight) EXCEPT !.cache = c], stored)
    BY NowOK, EndedTyped
  <2> QED BY <2>1, <2>2, <2>3 DEF c
<1>2. CASE SecretCreated
  <2> DEFINE id == Len(stored) + 1
             new == IF view = "away" THEN None ELSE id
             p == [Now EXCEPT !.cache = CacheInvalidated,
                              !.ref[flight.from] = new,
                              !.made[flight.from] = @ + 1]
  <2>1. Post(flight, p, id)
    BY <1>2, Zenon DEF SecretCreated
  <2>2. stored' = Append(stored, flight.type) /\ flight # None
    BY <1>2 DEF SecretCreated
  <2>3. DOMAIN stored \subseteq DOMAIN stored' /\ id \in DOMAIN stored'
    <3>1. Numbered(stored') /\ Len(stored') = Len(stored) + 1
      BY <2>2, ListAppended
    <3>2. /\ Len(stored) \in Nat /\ DOMAIN stored = 1..Len(stored)
          /\ DOMAIN stored' = 1..Len(stored')
      BY <3>1, Listed
    <3> QED BY <3>1, <3>2
  <2>4. PageOK(Now, stored')
    BY <2>3, NowOK, PageStays
  <2>5. flight.from \in Components
    BY <2>2 DEF FlightInv, AttemptOK
  <2>6. new \in Ids(stored')
    BY <2>3 DEF Ids
  <2>7. /\ p.values = Now.values /\ p.kept = Now.kept /\ p.modal = Now.modal /\ p.doc = Now.doc
        /\ {"modal", "doc"} \subseteq DOMAIN p
    BY DEF Now
  <2>8. p.ref = [Now.ref EXCEPT ![flight.from] = new]
    BY DEF Now
  <2> HIDE DEF p, id, new
  <2>9. RefOK(p.ref, stored')
    BY <2>4, <2>6, <2>8 DEF PageOK, RefOK
  <2>10. PageOK(p, stored')
    BY <2>4, <2>7, <2>9 DEF PageOK
  <2> QED BY <2>1, <2>3, <2>7, <2>10, PostTyped
<1> QED BY <1>1, <1>2

(* The rest of the console keeps the page, and every secret. *)
LEMMA ElsewhereTyped ==
  ASSUME PageTypes, Numbered(stored), UNCHANGED pageVars,
         \/ stored' = stored \/ \E e : stored' = Append(stored, e)
         \/ \E i : stored' = [stored EXCEPT ![i] = "gone"]
  PROVE  PageTypes'
<1>1. /\ view' = view /\ values' = values /\ kept' = kept /\ held' = held
      /\ ref' = ref /\ modal' = modal /\ doc' = doc
  BY DEF pageVars
<1>2. DOMAIN stored \subseteq DOMAIN stored'
  <2>1. Grows(stored, stored')
    BY StoredGrows
  <2>2. \A id \in DOMAIN stored : OfMethod(stored, id, stored[id])
    BY DEF OfMethod
  <2> QED BY <2>1, <2>2 DEF Grows, OfMethod
<1>3. PageOK(Now, stored')
  BY <1>2, PageStays DEF PageTypes
<1>4. PageOK(Now, stored)'
  BY <1>1, <1>3 DEF PageOK, Now
<1> QED BY <1>1, <1>2, <1>4 DEF PageTypes, HeldOK, ListOK

(* What a step of the page leaves has types. *)
LEMMA PageWorksTyped ==
  ASSUME PageStateInv, SecretInv, PageTypes, CacheOK(cache, stored)',
         \/ OpenPage \/ LeavePage \/ Reload \/ ClusterCreated
         \/ SecretCreated \/ SecretRefused \/ ClusterRefused \/ FormWorks
  PROVE  PageTypes'
<1>1. ViewInv /\ FlightInv /\ Numbered(stored)
  BY DEF PageStateInv, SecretInv
<1>2. CASE SecretCreated \/ SecretRefused \/ ClusterRefused
  BY <1>1, <1>2, AnswersTyped, RenderTypes
<1>3. CASE OpenPage \/ LeavePage \/ Reload \/ ClusterCreated \/ FormWorks
  <2>1. stored' = stored
    <3>1. CASE FillIn
      BY <3>1, FillInRenders
    <3>2. CASE SubmitForm \/ SubmitYaml \/ SubmitModal
      BY <3>2 DEF SubmitForm, SubmitYaml, SubmitModal
    <3>3. CASE \/ OpenPage \/ LeavePage \/ Reload \/ ClusterCreated \/ PageLoaded \/ SecretsArrive
               \/ ToYaml \/ ToForm \/ YamlEdited \/ ClusterSecretModal
      BY <3>3 DEF OpenPage, LeavePage, Reload, ClusterCreated, PageLoaded, SecretsArrive, ToYaml,
                  ToForm, YamlEdited, ClusterSecretModal, ModalEdited, Rest
    <3> QED BY <1>3, <3>1, <3>2, <3>3 DEF FormWorks
  <2>2. \E p : Render(p) /\ PageOK(p, stored)
    BY <1>1, <1>3, OpensTyped, LoadedTyped, FilledTyped, TabsTyped, EditorTyped, SubmitTyped,
       ModalTyped DEF FormWorks
  <2> QED BY <2>1, <2>2, RenderTypes
<1> QED BY <1>2, <1>3

LEMMA PageTypesStep ==
  PageStateInv /\ SecretInv /\ PageTypes /\ SecretsInv' /\ [Next]_vars => PageTypes'
<1> SUFFICES ASSUME PageStateInv, SecretInv, PageTypes, SecretsInv', [Next]_vars
             PROVE  PageTypes'
  OBVIOUS
<1>1. Numbered(stored) /\ CacheOK(cache, stored)'
  BY DEF SecretInv, SecretsInv
<1> HIDE DEF PageStateInv, SecretInv, PageTypes, SecretsInv
<1>2. CASE UNCHANGED <<pageVars, stored>>
  BY <1>1, <1>2, ElsewhereTyped
<1>3. CASE Login \/ LogoutButton \/ Sidebar \/ ProjectPicked \/ OpenOverview
  BY <1>2, <1>3 DEF Login, LogoutButton, Sidebar, ProjectPicked, OpenOverview, formVars, pageVars
<1>4. CASE TableStep
  <2>1. CASE \/ Poll \/ \E k \in Keys : ServiceReads(k) \/ RowsArrive(k) \/ ListFails(k)
    BY <1>2, <2>1 DEF Poll, ServiceReads, RowsArrive, ListFails, formVars, pageVars
  <2>2. CASE \/ ClusterTableRemoveButton \/ ClustersOverviewTableRowActions
             \/ ClustersOverviewTableButtons \/ ProjectsTableRowActions
             \/ EnvironmentsTableRowActions \/ SettingsTableRowActions
             \/ SettingsAddEntity \/ SettingsAddSecret
    <3>1. \E kind, list, id : Requested(kind, list, id)
      BY <2>2 DEF ClusterTableRemoveButton, ClustersOverviewTableRowActions,
           ClustersOverviewTableButtons, ProjectsTableRowActions, EnvironmentsTableRowActions,
           SettingsTableRowActions, SettingsAddEntity, SettingsAddSecret
    <3> QED BY <1>2, <3>1 DEF Requested, formVars, pageVars
  <2>3. CASE SettingsEdited \/ OthersChange \/ SaveSettings \/ ChangeAnswered
    BY <1>2, <2>3 DEF SettingsEdited, OthersChange, SaveSettings, ChangeAnswered, formVars, pageVars
  <2>4. CASE ServiceChanges
    <3>1. UNCHANGED pageVars
      BY <2>4 DEF ServiceChanges
    <3>2. \/ stored' = stored \/ \E e : stored' = Append(stored, e)
          \/ \E i : stored' = [stored EXCEPT ![i] = "gone"]
      BY <2>4 DEF ServiceChanges, SecretsCarried
    <3> QED BY <1>1, <3>1, <3>2, ElsewhereTyped
  <2> QED BY <1>4, <2>1, <2>2, <2>3, <2>4 DEF TableStep
<1>5. CASE FormStep
  <2>1. \/ OpenPage \/ LeavePage \/ Reload \/ ClusterCreated
        \/ SecretCreated \/ SecretRefused \/ ClusterRefused \/ FormWorks
    BY <1>5 DEF FormStep, CreateClusterButton, FormCancelled, FormReloaded, FormCreatesCluster,
                FormStoresSecret, FormRefused
  <2> QED BY <1>1, <2>1, PageWorksTyped
<1>6. CASE UNCHANGED vars
  <2>1. UNCHANGED <<pageVars, stored>>
    BY <1>6 DEF vars, formVars, pageVars
  <2> QED BY <1>2, <2>1
<1> QED BY <1>3, <1>4, <1>5, <1>6 DEF Next

LEMMA PageTypesInit == ConsoleInit => PageTypes
<1> SUFFICES ASSUME ConsoleInit PROVE PageTypes
  OBVIOUS
<1>1. /\ view = "away" /\ values = Closed.values /\ kept = Closed.kept /\ ref = Closed.ref
      /\ modal = ModalShut /\ doc = Closed.doc /\ held = [h \in Holders |-> None]
      /\ Closed.modal = ModalShut
  <2>1. Init
    BY DEF ConsoleInit
  <2>2. /\ view = "away" /\ values = FormDefaults(FALSE)
        /\ kept = [secret |-> None, config |-> None] /\ ref = [page |-> None, modal |-> None]
        /\ modal = ModalShut /\ doc = [valid |-> FALSE, object |-> YamlOf(FormDefaults(FALSE))]
        /\ held = [h \in Holders |-> None]
    BY <2>1, Zenon DEF Init
  <2> QED BY <2>2 DEF Closed
<1>2. PageOK(Closed, stored)
  BY ClosedTyped
<1>3. /\ Now.values = values /\ Now.kept = kept /\ Now.ref = ref /\ Now.modal = modal
      /\ Now.doc = doc
  BY DEF Now
<1>4. PageOK(Now, stored)
  BY <1>1, <1>2, <1>3 DEF PageOK
<1>5. HeldOK /\ ~modal.open
  BY <1>1 DEF HeldOK, ListOK, ModalShut
<1> QED BY <1>4, <1>5 DEF PageTypes

(* The secrets of the server, and the types that are asked for.            *)
StoredTypes ==
  /\ Len(stored) <= MaxSecrets /\ Rows(stored) \subseteq SecretTypes \cup {"gone"}
  /\ stale \subseteq SecretTypes
  /\ flight # None => flight.type \in SecretTypes

LEMMA ShownTyped ==
  ASSUME ViewInv, PageTypes, view \in {"form", "yaml"}
  PROVE  ProviderShown(values, view, doc) \in SecretTypes /\ values.auth \in SecretTypes
<1>1. values.provider \in Clouds \cup {"local"} /\ values.auth \in {"ssh_key", "password"}
  BY DEF ViewInv, PageInv, CloudInv
<1>2. doc.object.cloud \in Clouds \cup {None}
  BY DEF PageTypes, PageOK, DocOK, Now
<1> QED BY <1>1, <1>2 DEF ProviderShown, SecretTypes

LEMMA WantedTyped == ASSUME ViewInv, PageTypes PROVE WantedTypes \subseteq SecretTypes
  BY ShownTyped DEF WantedTypes

(* A secret is added, or is gone. *)
LEMMA StoredTyped ==
  ASSUME Numbered(stored), StoredTypes, NEW t,
         \/ t = stored
         \/ Len(stored) < MaxSecrets /\ \E e \in SecretTypes : t = Append(stored, e)
         \/ \E i : t = [stored EXCEPT ![i] = "gone"]
  PROVE  Len(t) <= MaxSecrets /\ Rows(t) \subseteq SecretTypes \cup {"gone"}
<1>1. Len(stored) \in Nat /\ DOMAIN stored = 1..Len(stored) /\ MaxSecrets \in Nat
  BY Listed, BoundsAssumption
<1>2. CASE t = stored
  BY <1>2 DEF StoredTypes
<1>3. CASE Len(stored) < MaxSecrets /\ \E e \in SecretTypes : t = Append(stored, e)
  <2>1. PICK e \in SecretTypes : t = Append(stored, e)
    BY <1>3
  <2>2. /\ Numbered(t) /\ Len(t) = Len(stored) + 1 /\ t[Len(stored) + 1] = e
        /\ \A i \in 1..Len(stored) : t[i] = stored[i]
    BY <2>1, ListAppended
  <2>3. DOMAIN t = 1..(Len(stored) + 1)
    BY <2>2, Listed
  <2> DEFINE n == Len(stored)
  <2>4. n \in Nat /\ DOMAIN stored = 1..n /\ DOMAIN t = 1..(n + 1) /\ n < MaxSecrets
        /\ t[n + 1] = e /\ Len(t) = n + 1 /\ \A i \in 1..n : t[i] = stored[i]
    BY <1>1, <1>3, <2>2, <2>3
  <2> HIDE DEF n
  <2>5. Rows(t) \subseteq SecretTypes \cup {"gone"}
    <3> SUFFICES ASSUME NEW i \in 1..(n + 1) PROVE t[i] \in SecretTypes \cup {"gone"}
      BY <2>4 DEF Rows
    <3>1. CASE i = n + 1
      BY <2>1, <2>4, <3>1
    <3>2. CASE i # n + 1
      <4>1. i \in 1..n
        BY <2>4, <3>2
      <4> QED BY <2>4, <4>1 DEF StoredTypes, Rows
    <3> QED BY <3>1, <3>2
  <2>6. n + 1 <= MaxSecrets
    <3>1. MaxSecrets \in Nat /\ n \in Nat /\ n < MaxSecrets
      BY <1>1, <2>4, Zenon
    <3> QED BY <3>1
  <2>7. Len(t) <= MaxSecrets
    BY <2>4, <2>6, Zenon
  <2> QED BY <2>5, <2>7
<1>4. CASE \E i : t = [stored EXCEPT ![i] = "gone"]
  <2>1. PICK i : t = [stored EXCEPT ![i] = "gone"]
    BY <1>4
  <2>2. Len(t) = Len(stored)
    BY <2>1, ListEdited
  <2>3. Rows(t) \subseteq Rows(stored) \cup {"gone"}
    BY <2>1 DEF Rows
  <2> QED BY <2>2, <2>3 DEF StoredTypes
<1> QED BY <1>2, <1>3, <1>4

LEMMA StoredStays ==
  ASSUME StoredTypes, UNCHANGED <<stored, flight>>, stale' \subseteq SecretTypes PROVE StoredTypes'
  BY DEF StoredTypes

LEMMA BeginTypes ==
  ASSUME StoredTypes, stored' = stored, stale' = stale, NEW a, NEW p, Begin(a, p),
         a.type \in SecretTypes, "type" \in DOMAIN a
  PROVE  StoredTypes'
<1>1. flight' \in {None, a, [a EXCEPT !.step = "cluster"]}
  BY DEF Begin, Post
<1>2. flight' # None => flight'.type \in SecretTypes
  BY <1>1
<1> QED BY <1>2 DEF StoredTypes

LEMMA PageStored ==
  ASSUME PageStateInv, SecretInv, PageTypes, StoredTypes,
         \/ OpenPage \/ LeavePage \/ Reload \/ ClusterCreated
         \/ SecretCreated \/ SecretRefused \/ ClusterRefused \/ FormWorks
  PROVE  StoredTypes'
<1>1. ViewInv /\ FlightInv /\ Numbered(stored) /\ WantedTypes \subseteq SecretTypes
  BY WantedTyped DEF PageStateInv, SecretInv
<1>2. CASE SubmitForm \/ SubmitYaml \/ SubmitModal
  <2>1. view \in {"form", "yaml"} /\ stored' = stored /\ stale' = stale
    BY <1>2 DEF SubmitForm, SubmitYaml, SubmitModal, Asks, AsksInModal
  <2>2. \E from, save : \E type \in SecretTypes : Begin(Attempt(from, save, type), Now)
    <3>1. ProviderShown(values, view, doc) \in SecretTypes /\ values.auth \in SecretTypes
      BY <1>1, <2>1, ShownTyped
    <3>2. CASE SubmitForm
      BY <3>1, <3>2, Zenon DEF SubmitForm
    <3>3. CASE SubmitYaml
      BY <3>1, <3>3, Zenon DEF SubmitYaml
    <3>4. CASE SubmitModal
      BY <3>1, <3>4, Zenon DEF SubmitModal
    <3> QED BY <1>2, <3>2, <3>3, <3>4
  <2>3. PICK from, save : \E type \in SecretTypes : Begin(Attempt(from, save, type), Now)
    BY <2>2
  <2>4. PICK type \in SecretTypes : Begin(Attempt(from, save, type), Now)
    BY <2>3
  <2> DEFINE a == Attempt(from, save, type)
  <2>5. a.type = type /\ "type" \in DOMAIN a
    BY DEF Attempt
  <2> HIDE DEF a
  <2> QED BY <2>1, <2>4, <2>5, BeginTypes DEF a
<1>3. CASE FillIn
  <2>1. stored' = stored /\ flight' = flight
    BY <1>3, FillInRenders
  <2>2. stale' = stale
    <3>1. view = "form"
      BY <1>3, FillInRenders
    <3>2. OnForm
      BY <1>1, <3>1 DEF ViewInv, OnForm
    <3> QED BY <1>3, <3>2, FillInFits DEF Edited, Rest
  <2> QED BY <2>1, <2>2, StoredStays DEF StoredTypes
<1>4. CASE \/ PageLoaded \/ ToYaml \/ ToForm \/ YamlEdited \/ ClusterSecretModal \/ SecretsArrive
           \/ OpenPage \/ LeavePage \/ Reload
  <2>1. /\ UNCHANGED <<stored, flight>>
        /\ stale' = stale \/ stale' = {} \/ \E t : stale' = stale \ {t}
    BY <1>4 DEF PageLoaded, ToYaml, ToForm, YamlEdited, ClusterSecretModal, ModalEdited,
                SecretsArrive, OpenPage, LeavePage, Reload, Rest
  <2> QED BY <2>1, StoredStays DEF StoredTypes
<1>5. CASE ClusterCreated \/ SecretRefused \/ ClusterRefused
  <2>1. stored' = stored /\ flight' = None /\ stale' \in {stale, WantedTypes}
    BY <1>5 DEF ClusterCreated, SecretRefused, ClusterRefused
  <2> QED BY <1>1, <2>1 DEF StoredTypes
<1>6. CASE SecretCreated
  <2>1. /\ stored' = Append(stored, flight.type) /\ flight # None /\ Len(stored) < MaxSecrets
        /\ stale' = WantedTypes
    BY <1>6 DEF SecretCreated
  <2>2. flight.type \in SecretTypes /\ "type" \in DOMAIN flight
    BY <1>1, <2>1 DEF StoredTypes, FlightInv, AttemptOK, FieldsOfAttempt
  <2>3. flight' \in {None, [flight EXCEPT !.step = "cluster"]}
    <3>1. \E p, id : Post(flight, p, id)
      BY <1>6, Zenon DEF SecretCreated
    <3> QED BY <3>1 DEF Post
  <2>4. Len(stored') <= MaxSecrets /\ Rows(stored') \subseteq SecretTypes \cup {"gone"}
    BY <1>1, <2>1, <2>2, StoredTyped
  <2>5. flight' # None => flight'.type \in SecretTypes
    BY <2>2, <2>3
  <2> QED BY <1>1, <2>1, <2>4, <2>5 DEF StoredTypes
<1> QED BY <1>2, <1>3, <1>4, <1>5, <1>6 DEF FormWorks

LEMMA StoredStep ==
  PageStateInv /\ SecretInv /\ PageTypes /\ StoredTypes /\ [Next]_vars => StoredTypes'
<1> SUFFICES ASSUME PageStateInv, SecretInv, PageTypes, StoredTypes, [Next]_vars
             PROVE  StoredTypes'
  OBVIOUS
<1>1. Numbered(stored) /\ stale \subseteq SecretTypes /\ WantedTypes \subseteq SecretTypes
  BY WantedTyped DEF PageStateInv, SecretInv, StoredTypes
<1> HIDE DEF PageStateInv, SecretInv, PageTypes, StoredTypes
<1>2. CASE UNCHANGED <<pageVars, stored, stale>>
  BY <1>1, <1>2, StoredStays DEF pageVars
<1>3. CASE Login \/ LogoutButton \/ Sidebar \/ ProjectPicked
  BY <1>2, <1>3 DEF Login, LogoutButton, Sidebar, ProjectPicked, formVars, pageVars
<1>4. CASE OpenOverview
  <2>1. UNCHANGED <<stored, flight>> /\ stale' = {}
    BY <1>4 DEF OpenOverview, pageVars
  <2> QED BY <2>1, StoredStays
<1>5. CASE TableStep
  <2>1. CASE \/ Poll \/ \E k \in Keys : ServiceReads(k) \/ RowsArrive(k) \/ ListFails(k)
    BY <1>2, <2>1 DEF Poll, ServiceReads, RowsArrive, ListFails, formVars, pageVars
  <2>2. CASE \/ ClusterTableRemoveButton \/ ClustersOverviewTableRowActions
             \/ ClustersOverviewTableButtons \/ ProjectsTableRowActions
             \/ EnvironmentsTableRowActions \/ SettingsTableRowActions
             \/ SettingsAddEntity \/ SettingsAddSecret
    <3>1. \E kind, list, id : Requested(kind, list, id)
      BY <2>2 DEF ClusterTableRemoveButton, ClustersOverviewTableRowActions,
           ClustersOverviewTableButtons, ProjectsTableRowActions, EnvironmentsTableRowActions,
           SettingsTableRowActions, SettingsAddEntity, SettingsAddSecret
    <3> QED BY <1>2, <3>1 DEF Requested, formVars, pageVars
  <2>3. CASE SettingsEdited \/ OthersChange \/ SaveSettings
    BY <1>2, <2>3 DEF SettingsEdited, OthersChange, SaveSettings, formVars, pageVars
  <2>4. CASE ChangeAnswered
    <3>1. UNCHANGED <<stored, flight>> /\ stale' \in {stale, WantedTypes}
      BY <2>4 DEF ChangeAnswered, pageVars
    <3> QED BY <1>1, <3>1, StoredStays
  <2>5. CASE ServiceChanges
    <3>1. UNCHANGED <<flight, stale>>
      BY <2>5 DEF ServiceChanges, pageVars
    <3>2. FirstCloud \in SecretTypes
      BY CatalogueAssumption DEF FirstCloud, Clouds, SecretTypes
    <3>3. \/ stored' = stored
          \/ Len(stored) < MaxSecrets /\ \E e \in SecretTypes : stored' = Append(stored, e)
          \/ \E i : stored' = [stored EXCEPT ![i] = "gone"]
      BY <2>5, <3>2 DEF ServiceChanges, SecretsCarried, Possible
    <3>4. Len(stored') <= MaxSecrets /\ Rows(stored') \subseteq SecretTypes \cup {"gone"}
      BY <1>1, <3>3, StoredTyped
    <3> QED BY <1>1, <3>1, <3>4 DEF StoredTypes
  <2> QED BY <1>5, <2>1, <2>2, <2>3, <2>4, <2>5 DEF TableStep
<1>6. CASE FormStep
  <2>1. \/ OpenPage \/ LeavePage \/ Reload \/ ClusterCreated
        \/ SecretCreated \/ SecretRefused \/ ClusterRefused \/ FormWorks
    BY <1>6 DEF FormStep, CreateClusterButton, FormCancelled, FormReloaded, FormCreatesCluster,
                FormStoresSecret, FormRefused
  <2> QED BY <2>1, PageStored
<1>7. CASE UNCHANGED vars
  <2>1. UNCHANGED <<pageVars, stored, stale>>
    BY <1>7 DEF vars, formVars, pageVars
  <2> QED BY <1>2, <2>1
<1> QED BY <1>3, <1>4, <1>5, <1>6, <1>7 DEF Next

LEMMA StoredInit == ConsoleInit => StoredTypes
<1> SUFFICES ASSUME ConsoleInit PROVE StoredTypes
  OBVIOUS
<1>1. /\ \E t \in Tours : stored = t.secrets
      /\ stale = {} /\ flight = None
  <2>1. Init
    BY DEF ConsoleInit
  <2> QED BY <2>1, Zenon DEF Init
<1>2. Len(stored) <= MaxSecrets /\ stored \in Seq(Clouds \cup {"ssh_key", "password"})
  BY <1>1, BoundsAssumption
<1>3. Rows(stored) \subseteq SecretTypes
  <2>1. stored \in [1..Len(stored) -> Clouds \cup {"ssh_key", "password"}]
    BY <1>2, LenProperties
  <2> QED BY <2>1 DEF Rows, SecretTypes
<1> QED BY <1>1, <1>2, <1>3 DEF StoredTypes

-----------------------------------------------------------------------------
(***************************************************************************)
(* Types: the settings, the tables, and what waits.                         *)
(***************************************************************************)

(* The service has one setting at most, and the cache one of those.        *)
SettingOK(rows) ==
  /\ \A r, q \in rows : r = q
  /\ \A r \in rows : DOMAIN r \subseteq {"tabs", "proxy"}
                     /\ ("tabs" \in DOMAIN r => r.tabs \in BOOLEAN)

FieldsOK(f) == DOMAIN f = {"expert", "tabs", "proxy"} /\ {f.expert, f.tabs} \subseteq BOOLEAN
BothOK(f) == {"now", "base"} \subseteq DOMAIN f /\ FieldsOK(f.now) /\ FieldsOK(f.base)

FlagTypes ==
  {expert, tabs} \subseteq BOOLEAN /\ loaded \in BOOLEAN \cup {None} /\ BothOK(form)

ChangeTypes ==
  /\ change # NoChange => change.kind # "none"
  /\ change.list = "clusters" => change.kind \in {"remove", "refresh"}
  /\ change.list = "settings" => FieldsOK(change.saves)

ServerTypes ==
  /\ \E n \in 1..MaxClusters : DOMAIN server.clusters = 1..n
  /\ server.hosts \subseteq Hosts0 /\ SettingOK(server.proxy)

(* The rows an entry may have, and those of an answer that is on its way.  *)
Fits(k, rows) ==
  /\ k = SettingsKey => SettingOK(rows)
  /\ k \in PolledKeys => rows \subseteq (IF k = Overview THEN Hosts0 ELSE 1..MaxClusters)

EntryOK(k, entry) == (entry.rows # None => Fits(k, entry.rows)) /\ Fits(k, entry.request.rows)

EntriesOK(e) == \A k \in Keys : EntryOK(k, e[k])

(* The setting put over the form, and the one that is sent. *)
LEMMA FormFilled ==
  ASSUME NEW f, BothOK(f), NEW rows, rows # None => SettingOK(rows) PROVE BothOK(Loaded(f, rows))
<1>1. CASE rows = None
  BY <1>1 DEF Loaded
<1>2. CASE rows # None
  <2> DEFINE r0 == CHOOSE r \in rows : TRUE
             now == [field \in DOMAIN f.now |->
                       IF \E r \in rows : field \in DOMAIN r THEN r0[field] ELSE f.now[field]]
  <2>1. Loaded(f, rows) = [now |-> now, base |-> now]
    BY <1>2, Zenon DEF Loaded, FormOf
  <2>2. DOMAIN now = {"expert", "tabs", "proxy"}
    BY DEF BothOK, FieldsOK
  <2>3. now.expert = f.now.expert
    BY <1>2 DEF BothOK, FieldsOK, SettingOK
  <2>4. now.tabs \in BOOLEAN
    <3>1. CASE \E r \in rows : "tabs" \in DOMAIN r
      <4>1. PICK r \in rows : "tabs" \in DOMAIN r
        BY <3>1
      <4>2. r0 \in rows
        BY <4>1, Zenon
      <4>3. r0 = r
        BY <1>2, <4>1, <4>2 DEF SettingOK
      <4>4. now.tabs = r0.tabs
        BY <2>2, <3>1, Zenon
      <4> QED BY <1>2, <4>1, <4>3, <4>4 DEF SettingOK
    <3>2. CASE ~\E r \in rows : "tabs" \in DOMAIN r
      <4>1. now.tabs = f.now.tabs
        BY <2>2, <3>2, Zenon
      <4> QED BY <4>1 DEF BothOK, FieldsOK
    <3> QED BY <3>1, <3>2
  <2> HIDE DEF now
  <2> QED BY <2>1, <2>2, <2>3, <2>4 DEF BothOK, FieldsOK
<1> QED BY <1>1, <1>2

LEMMA SettingSent == ASSUME NEW f, FieldsOK(f) PROVE SettingOK({SettingOf(f)})
  BY DEF FieldsOK, SettingOf, SettingOK

(* Asking for entries, and invalidating them, brings no rows. *)
LEMMA AskedFits ==
  /\ \A k : EntryOK(k, Empty)
  /\ \A k, entry : {"rows", "request"} \subseteq DOMAIN entry /\ EntryOK(k, entry)
                     => EntryOK(k, [entry EXCEPT !.request = Ask])
<1>1. \A k : Fits(k, {})
  BY DEF Fits, SettingOK
<1> QED BY <1>1 DEF EntryOK, Empty, NoRequest, Ask

LEMMA SubscribedFits ==
  ASSUME NEW e, CacheShape(e), EntriesOK(e), NEW keys PROVE EntriesOK(Subscribed(e, keys))
<1> SUFFICES ASSUME NEW k \in Keys PROVE EntryOK(k, Subscribed(e, keys)[k])
  BY DEF EntriesOK
<1>1. Subscribed(e, keys)[k] \in {e[k], [e[k] EXCEPT !.request = Ask]}
  BY DEF Subscribed
<1>2. EntryOK(k, e[k]) /\ {"rows", "request"} \subseteq DOMAIN e[k]
  BY DEF CacheShape, EntriesOK
<1>3. EntryOK(k, [e[k] EXCEPT !.request = Ask])
  BY <1>2, AskedFits
<1> QED BY <1>1, <1>2, <1>3

LEMMA EmptyFits == CacheShape([k \in Keys |-> Empty]) /\ EntriesOK([k \in Keys |-> Empty])
  BY EmptyAgrees, AskedFits DEF EntriesOK

LEMMA SettleFits ==
  ASSUME NEW e, CacheShape(e), EntriesOK(e), NEW tags, NEW keys, NEW busy,
         Settle(e, tags, keys, busy)
  PROVE  EntriesOK(entries')
<1> SUFFICES ASSUME NEW k \in Keys PROVE EntryOK(k, entries'[k])
  BY DEF EntriesOK
<1>1. entries'[k] \in {e[k], [e[k] EXCEPT !.request = Ask], Empty}
  BY DEF Settle, Invalidated
<1>2. EntryOK(k, e[k]) /\ {"rows", "request"} \subseteq DOMAIN e[k]
  BY DEF CacheShape, EntriesOK
<1>3. EntryOK(k, Empty) /\ EntryOK(k, [e[k] EXCEPT !.request = Ask])
  BY <1>2, AskedFits
<1> QED BY <1>1, <1>2, <1>3

LEMMA AnsweredFits ==
  ASSUME CacheShape(entries), EntriesOK(entries), NEW k \in Keys, NEW rows, NEW request,
         rows # None => Fits(k, rows), Fits(k, request.rows)
  PROVE  CacheShape(Answered(k, rows, request)) /\ EntriesOK(Answered(k, rows, request))
<1> DEFINE e == Answered(k, rows, request)
<1>1. e[k] = [rows |-> rows, request |-> request] /\ \A c \in Keys : c # k => e[c] = entries[c]
  BY DEF Answered, CacheShape
<1>2. CacheShape(e)
  BY DEF Answered, CacheShape
<1>3. EntryOK(k, e[k])
  BY <1>1 DEF EntryOK
<1> HIDE DEF e
<1> QED BY <1>1, <1>2, <1>3 DEF EntriesOK, e

(* What the service answers fits the entry. *)
LEMMA RowsFit == ASSUME ServerTypes, NEW k \in Keys PROVE Fits(k, RowsOf(k))
<1>1. k = SettingsKey => SettingOK(RowsOf(k))
  BY SettingsRows DEF ServerTypes
<1>2. CASE k \in PolledKeys
  <2>1. CASE k = Overview
    <3>1. RowsOf(k) \subseteq Hosts0
      BY <2>1 DEF RowsOf, Overview, Key, ServerTypes
    <3> QED BY <1>1, <2>1, <3>1 DEF Fits
  <2>2. CASE k # Overview
    <3>1. k.list = "clusters"
      BY <1>2, <2>2 DEF PolledKeys, Clusters, Key
    <3>2. PICK n \in 1..MaxClusters : DOMAIN server.clusters = 1..n
      BY DEF ServerTypes
    <3>3. DOMAIN server.clusters \subseteq 1..MaxClusters
      BY <3>2, ClustersAssumption
    <3>4. RowsOf(k) \subseteq 1..MaxClusters
      BY <3>1, <3>3 DEF RowsOf
    <3> QED BY <1>1, <2>2, <3>4 DEF Fits
  <2> QED BY <2>1, <2>2
<1>3. CASE k \notin PolledKeys
  BY <1>1, <1>3 DEF Fits
<1> QED BY <1>2, <1>3

(* Going to a page, loading it, and asking for another project. *)
LEMMA ShownFits ==
  ASSUME CacheShape(entries), EntriesOK(entries),
         \/ \E s : ShowPage(s) \/ LoadPage(s)
         \/ ProjectPicked
  PROVE  EntriesOK(entries')
<1>1. \/ \E keys : entries' = Subscribed(entries, keys)
      \/ \E keys : entries' = Subscribed([k \in Keys |-> Empty], keys)
  BY DEF ShowPage, LoadPage, ProjectPicked
<1> QED BY <1>1, SubscribedFits, EmptyFits

(* Requests for lists, and their answers. *)
LEMMA ListsFit ==
  ASSUME CacheShape(entries), EntriesOK(entries), ServerTypes, ShownKeys \subseteq Keys,
         \/ Poll \/ \E k \in Keys : ServiceReads(k) \/ RowsArrive(k) \/ ListFails(k)
  PROVE  EntriesOK(entries')
<1>1. \A k \in Keys : EntryOK(k, entries[k])
  BY DEF EntriesOK
<1>2. \A k : Fits(k, {})
  BY DEF Fits, SettingOK
<1>3. CASE Poll
  <2>1. PICK k \in Keys : entries' = Answered(k, entries[k].rows, Ask)
    BY <1>3 DEF Poll
  <2>2. Fits(k, Ask.rows) /\ (entries[k].rows # None => Fits(k, entries[k].rows))
    BY <1>1, <1>2 DEF Ask, EntryOK
  <2> QED BY <2>1, <2>2, AnsweredFits
<1>4. ASSUME NEW k \in Keys, ServiceReads(k) PROVE EntriesOK(entries')
  <2> DEFINE request == [at |-> "browser", rows |-> RowsOf(k)]
  <2>1. entries' = Answered(k, entries[k].rows, request)
    BY <1>4 DEF ServiceReads
  <2>2. Fits(k, request.rows) /\ (entries[k].rows # None => Fits(k, entries[k].rows))
    BY <1>1, RowsFit DEF EntryOK
  <2> HIDE DEF request
  <2> QED BY <2>1, <2>2, AnsweredFits
<1>5. ASSUME NEW k \in Keys, RowsArrive(k) \/ ListFails(k) PROVE EntriesOK(entries')
  <2>1. PICK rows : /\ rows \in {entries[k].rows, entries[k].request.rows}
                    /\ Settle(Answered(k, rows, NoRequest), waiting, ShownKeys, Busy)
    BY <1>5 DEF RowsArrive, ListFails
  <2>2. Fits(k, NoRequest.rows) /\ (rows # None => Fits(k, rows))
    BY <1>1, <1>2, <2>1 DEF NoRequest, EntryOK
  <2>3. /\ CacheShape(Answered(k, rows, NoRequest))
        /\ EntriesOK(Answered(k, rows, NoRequest))
    BY <2>2, AnsweredFits
  <2> QED BY <2>1, <2>3, SettleFits
<1> QED BY <1>3, <1>4, <1>5

(* The answer to a change, and to a request of the add-cluster page. *)
LEMMA InvalidationFits ==
  ASSUME CacheShape(entries), EntriesOK(entries), ScreenInv,
         ChangeAnswered \/ FormStoresSecret \/ FormRefused \/ FormCreatesCluster
  PROVE  EntriesOK(entries')
<1>1. CASE ChangeAnswered
  <2>1. Overview \in Keys
    BY DEF Keys, PolledKeys
  <2>2. entries[Overview].rows # None => Fits(Overview, entries[Overview].rows)
    BY <2>1 DEF EntriesOK, EntryOK
  <2>3. Fits(Overview, Ask.rows)
    BY DEF Ask, Fits, SettingOK
  <2>4. CacheShape(FollowUp(change)) /\ EntriesOK(FollowUp(change))
    BY <2>1, <2>2, <2>3, AnsweredFits DEF FollowUp
  <2>5. \E tags, keys, busy : Settle(FollowUp(change), tags, keys, busy)
    BY <1>1, Zenon DEF ChangeAnswered
  <2> QED BY <2>4, <2>5, SettleFits
<1>2. CASE FormStoresSecret \/ FormRefused
  <2>1. \E tags, keys, busy : Settle(entries, tags, keys, busy)
    BY <1>2, Zenon DEF FormStoresSecret, FormRefused
  <2> QED BY <2>1, SettleFits
<1>3. CASE FormCreatesCluster
  <2>1. PICK keys : \E tags, all, busy : Settle(Subscribed(entries, keys), tags, all, busy)
    BY <1>3, Zenon DEF FormCreatesCluster
  <2>2. CacheShape(Subscribed(entries, keys)) /\ EntriesOK(Subscribed(entries, keys))
    BY SubscribedAgrees, SubscribedFits
  <2> QED BY <2>1, <2>2, SettleFits
<1> QED BY <1>1, <1>2, <1>3

LEMMA EntriesStep ==
  ScreenInv /\ OwnInv /\ ServerTypes /\ EntriesOK(entries) /\ [Next]_vars => EntriesOK(entries')
<1> SUFFICES ASSUME ScreenInv, OwnInv, ServerTypes, EntriesOK(entries), [Next]_vars
             PROVE  EntriesOK(entries')
  OBVIOUS
<1>1. CacheShape(entries) /\ ShownKeys \subseteq Keys
  BY ShownInKeys DEF OwnInv, Shapes
<1> HIDE DEF ScreenInv, OwnInv, ServerTypes
<1>2. CASE entries' = entries
  BY <1>2
<1>3. CASE Login \/ LogoutButton \/ Sidebar \/ OpenOverview \/ ProjectPicked
  BY <1>1, <1>3, ShownFits DEF Login, LogoutButton, Sidebar, OpenOverview
<1>4. CASE TableStep
  <2>1. CASE \/ ClusterTableRemoveButton \/ ClustersOverviewTableRowActions
             \/ ClustersOverviewTableButtons \/ ProjectsTableRowActions
             \/ EnvironmentsTableRowActions \/ SettingsTableRowActions
             \/ SettingsAddEntity \/ SettingsAddSecret
    <3>1. \E kind, list, id : Requested(kind, list, id)
      BY <2>1 DEF ClusterTableRemoveButton, ClustersOverviewTableRowActions,
           ClustersOverviewTableButtons, ProjectsTableRowActions, EnvironmentsTableRowActions,
           SettingsTableRowActions, SettingsAddEntity, SettingsAddSecret
    <3> QED BY <1>2, <3>1 DEF Requested
  <2>2. CASE SettingsEdited \/ SaveSettings \/ ServiceChanges \/ OthersChange
    BY <1>2, <2>2 DEF SettingsEdited, SaveSettings, ServiceChanges, OthersChange
  <2> QED BY <1>1, <1>4, <2>1, <2>2, ListsFit, InvalidationFits DEF TableStep
<1>5. CASE FormStep
  <2>1. CASE CreateClusterButton \/ FormCancelled \/ FormReloaded
    BY <1>1, <2>1, ShownFits DEF CreateClusterButton, FormCancelled, FormReloaded
  <2>2. CASE FormWorks /\ UNCHANGED consoleVars
    BY <1>2, <2>2 DEF consoleVars
  <2> QED BY <1>1, <1>5, <2>1, <2>2, InvalidationFits DEF FormStep
<1>6. CASE UNCHANGED vars
  BY <1>2, <1>6 DEF vars, consoleVars
<1> QED BY <1>3, <1>4, <1>5, <1>6 DEF Next

(* A button sends a request for a list. *)
LEMMA ButtonsSend ==
  ASSUME \/ ClusterTableRemoveButton \/ ClustersOverviewTableRowActions
         \/ ClustersOverviewTableButtons \/ ProjectsTableRowActions
         \/ EnvironmentsTableRowActions \/ SettingsTableRowActions
         \/ SettingsAddEntity \/ SettingsAddSecret
  PROVE  \E kind, list, id :
           /\ Requested(kind, list, id) /\ kind # "none" /\ list # "settings"
           /\ list = "clusters" => kind \in {"remove", "refresh"}
  BY DEF ClusterTableRemoveButton, ClustersOverviewTableRowActions,
         ClustersOverviewTableButtons, ProjectsTableRowActions, EnvironmentsTableRowActions,
         SettingsTableRowActions, SettingsAddEntity, SettingsAddSecret

(* Only these change the service, or what is sent to it. *)
LEMMA ServerKept ==
  ASSUME [Next]_vars
  PROVE  \/ UNCHANGED server
         \/ ServiceChanges \/ OthersChange \/ FormCreatesCluster
<1>1. CASE TableStep
  <2>1. CASE \/ ClusterTableRemoveButton \/ ClustersOverviewTableRowActions
             \/ ClustersOverviewTableButtons \/ ProjectsTableRowActions
             \/ EnvironmentsTableRowActions \/ SettingsTableRowActions
             \/ SettingsAddEntity \/ SettingsAddSecret
    BY <2>1, ButtonsSend DEF Requested
  <2> QED BY <1>1, <2>1 DEF TableStep, Poll, ServiceReads, RowsArrive, ListFails, SettingsEdited,
                            SaveSettings, ChangeAnswered
<1>2. CASE FormStep
  BY <1>2 DEF FormStep, CreateClusterButton, FormCancelled, FormReloaded, FormStoresSecret,
              FormRefused, consoleVars
<1> QED BY <1>1, <1>2 DEF Next, Login, LogoutButton, Sidebar, OpenOverview, ProjectPicked, vars,
                          consoleVars

LEMMA ServerStep ==
  FlagInv /\ OwnInv /\ ChangeTypes /\ ServerTypes /\ [Next]_vars => ServerTypes'
<1> SUFFICES ASSUME FlagInv, OwnInv, ChangeTypes, ServerTypes, [Next]_vars PROVE ServerTypes'
  OBVIOUS
<1>1. ServerFields \subseteq DOMAIN server /\ "proxy" \in DOMAIN server
  BY DEF OwnInv, Shapes, FlagInv
<1>2. CASE UNCHANGED server
  BY <1>2 DEF ServerTypes
<1>3. CASE ServiceChanges
  <2>1. change # NoChange /\ (server' = server \/ server' = Carried(change))
    BY <1>3 DEF ServiceChanges
  <2>2. change.list \in Lists \cup {"settings"}
    BY <2>1 DEF FlagInv, ChangeInv
  <2>3. Carried(change).clusters = server.clusters
    BY <1>1, <2>2 DEF Carried, ServerFields, Lists, ChangeTypes
  <2>4. Carried(change).hosts \subseteq server.hosts
    BY <1>1, <2>2 DEF Carried, ServerFields, Lists
  <2>5. \/ Carried(change).proxy = server.proxy
        \/ change.list = "settings" /\ Carried(change).proxy = {SettingOf(change.saves)}
    BY <1>1, <2>2 DEF Carried, ServerFields, Lists
  <2>6. SettingOK(Carried(change).proxy)
    BY <2>5, SettingSent DEF ChangeTypes, ServerTypes
  <2> QED BY <2>1, <2>3, <2>4, <2>6 DEF ServerTypes
<1>4. CASE OthersChange
  <2>1. /\ server'.clusters = server.clusters /\ server'.proxy = server.proxy
        /\ server'.hosts \subseteq server.hosts
    BY <1>1, <1>4 DEF OthersChange, ServerFields
  <2> QED BY <2>1 DEF ServerTypes
<1>5. CASE FormCreatesCluster
  <2>1. PICK n \in 1..MaxClusters : DOMAIN server.clusters = 1..n
    BY DEF ServerTypes
  <2>2. Cardinality(1..n) = n /\ n \in Nat
    BY <2>1, ClustersAssumption, FS_Interval
  <2>3. n + 1 <= MaxClusters /\ Deployed(1 + n)
    <3>1. /\ 1 + Cardinality(DOMAIN server.clusters) <= MaxClusters
          /\ Deployed(1 + Cardinality(DOMAIN server.clusters))
      BY <1>5, Zenon DEF FormCreatesCluster
    <3> QED BY <2>1, <2>2, <3>1
  <2>4. /\ server'.hosts = server.hosts /\ server'.proxy = server.proxy
        /\ DOMAIN server'.clusters \in {1..n, 1..n \cup {1 + n}}
    <3> DEFINE all == [c \in {1 + n} |-> flight.project] ++ server.clusters
    <3>1. DOMAIN all = 1..n \cup {1 + n}
      BY <2>1 DEF ++
    <3>2. server' = server \/ server' = [server EXCEPT !.clusters = all]
      BY <2>3 DEF Deployed
    <3> HIDE DEF all
    <3> QED BY <1>1, <2>1, <3>1, <3>2 DEF ServerFields
  <2>5. 1..n \cup {1 + n} = 1..(n + 1) /\ n + 1 \in 1..MaxClusters
    BY <2>2, <2>3, ClustersAssumption
  <2> QED BY <2>1, <2>4, <2>5 DEF ServerTypes
<1> QED BY <1>2, <1>3, <1>4, <1>5, ServerKept

(* Whatever else happens, only the settings send their values. *)
LEMMA ChangeStep ==
  FlagInv /\ OwnInv /\ FlagTypes /\ ChangeTypes /\ [Next]_vars => ChangeTypes'
<1> SUFFICES ASSUME FlagInv, OwnInv, FlagTypes, ChangeTypes, [Next]_vars PROVE ChangeTypes'
  OBVIOUS
<1>1. {"kind", "list", "id"} \subseteq DOMAIN change
  BY DEF OwnInv, Shapes
<1>2. CASE change' = change \/ change' = NoChange
  BY <1>2 DEF ChangeTypes, NoChange
<1>3. CASE ServiceChanges
  <2>1. change # NoChange /\ "saves" \in DOMAIN change
    BY <1>3 DEF ServiceChanges, FlagInv, ChangeInv
  <2>2. /\ change'.kind = change.kind /\ change'.list = change.list
        /\ change'.saves = change.saves
    BY <1>1, <1>3, <2>1 DEF ServiceChanges
  <2> QED BY <2>1, <2>2 DEF ChangeTypes
<1>4. CASE SaveSettings
  BY <1>2, <1>4 DEF SaveSettings, FlagTypes, BothOK, ChangeTypes
<1>5. CASE TableStep
  <2>1. CASE \/ ClusterTableRemoveButton \/ ClustersOverviewTableRowActions
             \/ ClustersOverviewTableButtons \/ ProjectsTableRowActions
             \/ EnvironmentsTableRowActions \/ SettingsTableRowActions
             \/ SettingsAddEntity \/ SettingsAddSecret
    BY <2>1, ButtonsSend DEF Requested, ChangeTypes
  <2> QED BY <1>2, <1>3, <1>4, <1>5, <2>1
          DEF TableStep, Poll, ServiceReads, RowsArrive, ListFails, SettingsEdited,
              ChangeAnswered, OthersChange
<1>6. CASE FormStep
  BY <1>2, <1>6 DEF FormStep, CreateClusterButton, FormCancelled, FormReloaded, LoadPage,
              FormStoresSecret, FormCreatesCluster, FormRefused, consoleVars
<1> QED BY <1>2, <1>5, <1>6 DEF Next, Login, LogoutButton, Sidebar, OpenOverview, LoadPage,
                                ProjectPicked, vars, consoleVars

(* A page that stays is not away, and a request that is made stays made. *)
LEMMA PageHolds ==
  ASSUME FormWorks \/ SecretCreated \/ SecretRefused \/ ClusterRefused, view # "away"
  PROVE  view' # "away"
<1> DEFINE Remains(p) == p.view # "away"
<1>1. \A p : Render(p) /\ Remains(p) => view' # "away"
  BY DEF Render
<1>2. /\ Remains(Now)
      /\ \A v, k : Remains([Now EXCEPT !.view = "form", !.values = v, !.kept = k])
      /\ \A v, d : Remains([Now EXCEPT !.view = "yaml", !.values = v, !.doc = d])
      /\ \A v : Remains([Now EXCEPT !.view = "form", !.values = v])
      /\ Remains([Closed EXCEPT !.view = "broken"])
  BY DEF Now, Closed
<1>3. /\ \A v, k : Remains([Now EXCEPT !.values = v, !.kept = k])
      /\ \A t, ids : Remains([Now EXCEPT !.cache[t] = ids])
      /\ \A valid : Remains([Now EXCEPT !.doc.valid = valid])
      /\ \A d : Remains([Now EXCEPT !.doc = d])
      /\ \A m : Remains([Now EXCEPT !.modal = m])
      /\ \A c, from, id, n :
           Remains([Now EXCEPT !.cache = c, !.ref[from] = id, !.made[from] = n])
  BY DEF Now
<1>4. \A p, a : Remains(p) => /\ Remains(Ended(p, a))
                            /\ \A c : Remains([Ended(p, a) EXCEPT !.cache = c])
                            /\ \A d : Remains([p EXCEPT !.doc.object = d])
  BY DEF Ended
<1> HIDE DEF Remains
<1>5. \A a, p, id : Post(a, p, id) /\ Remains(p) => view' # "away"
  <2> SUFFICES ASSUME NEW a, NEW p, NEW id, Post(a, p, id), Remains(p) PROVE view' # "away"
    OBVIOUS
  <2>1. \/ Render(Ended(p, a)) \/ Render(p) \/ \E d : Render([p EXCEPT !.doc.object = d])
    BY DEF Post
  <2> QED BY <1>1, <1>4, <2>1
<1>6. \A a, p : Begin(a, p) /\ Remains(p) => view' # "away"
  BY <1>1, <1>5, Zenon DEF Begin
<1>7. CASE SubmitForm \/ SubmitYaml \/ SubmitModal
  <2>1. \E a : Begin(a, Now)
    BY <1>7, Zenon DEF SubmitForm, SubmitYaml, SubmitModal
  <2> QED BY <1>2, <1>6, <2>1
<1>8. CASE FillIn
  BY <1>1, <1>3, <1>8, FillInRenders
<1>9. CASE PageLoaded
  <2>1. \E v, k : Render([Now EXCEPT !.view = "form", !.values = v, !.kept = k])
    BY <1>9, Zenon DEF PageLoaded
  <2> QED BY <1>1, <1>2, <2>1
<1>10. CASE ToYaml
  <2>1. \/ Render([Closed EXCEPT !.view = "broken"])
        \/ \E v, d : Render([Now EXCEPT !.view = "yaml", !.values = v, !.doc = d])
    BY <1>10, Zenon DEF ToYaml
  <2> QED BY <1>1, <1>2, <2>1
<1>11. CASE ToForm
  <2>1. \E v : Render([Now EXCEPT !.view = "form", !.values = v])
    BY <1>11, Zenon DEF ToForm
  <2> QED BY <1>1, <1>2, <2>1
<1>12. CASE YamlEdited
  <2>1. \/ Render([Now EXCEPT !.doc.valid = FALSE]) \/ \E d : Render([Now EXCEPT !.doc = d])
    BY <1>12, Zenon DEF YamlEdited
  <2> QED BY <1>1, <1>3, <2>1
<1>13. CASE ClusterSecretModal
  <2>1. \E m : Render([Now EXCEPT !.modal = m])
    BY <1>13, Zenon DEF ClusterSecretModal, ModalEdited
  <2> QED BY <1>1, <1>3, <2>1
<1>14. CASE SecretsArrive
  <2>1. \E t, ids : Render([Now EXCEPT !.cache[t] = ids])
    BY <1>14, Zenon DEF SecretsArrive
  <2> QED BY <1>1, <1>3, <2>1
<1>15. CASE SecretCreated
  <2>1. \E c, from, id, n : Post(flight, [Now EXCEPT !.cache = c, !.ref[from] = id,
                                                    !.made[from] = n], id)
    <3> DEFINE id == Len(stored) + 1
               n == Now.made[flight.from] + 1
               next == IF view = "away" THEN None ELSE id
    <3>1. Post(flight, [Now EXCEPT !.cache = CacheInvalidated, !.ref[flight.from] = next,
                                   !.made[flight.from] = n], id)
      BY <1>15, Zenon DEF SecretCreated
    <3>2. next = id
      OBVIOUS
    <3> HIDE DEF next, n
    <3> QED BY <3>1, <3>2, Zenon
  <2> QED BY <1>3, <1>5, <2>1
<1>16. CASE SecretRefused \/ ClusterRefused
  <2>1. \/ Render(Ended(Now, flight))
        \/ Render([Ended(Now, flight) EXCEPT !.cache = CacheInvalidated])
    BY <1>16, Zenon DEF SecretRefused, ClusterRefused
  <2>2. /\ Remains(Ended(Now, flight))
        /\ Remains([Ended(Now, flight) EXCEPT !.cache = CacheInvalidated])
    BY <1>2, <1>4, Zenon
  <2> QED BY <1>1, <2>1, <2>2, Zenon
<1> QED BY <1>7, <1>8, <1>9, <1>10, <1>11, <1>12, <1>13, <1>14, <1>15, <1>16 DEF FormWorks

(* What the page leaves alone. *)
LEMMA WorkRests ==
  ASSUME PageStateInv, FormWorks
  PROVE  UNCHANGED <<expert, tabs, loaded>> /\ (flight = None \/ flight' = flight)
<1>1. CASE FillIn
  <2>1. view = "form"
    BY <1>1, FillInRenders
  <2>2. OnForm
    BY <2>1 DEF PageStateInv, ViewInv, OnForm
  <2> QED BY <1>1, <2>2, FillInFits DEF Edited, Rest
<1>2. CASE SubmitForm
  BY <1>2, Zenon DEF SubmitForm, CanSubmit
<1>3. CASE SubmitYaml
  BY <1>3, Zenon DEF SubmitYaml, CanSubmit
<1>4. CASE SubmitModal
  BY <1>4, Zenon DEF SubmitModal, CanSubmit
<1>5. CASE \/ PageLoaded \/ SecretsArrive \/ ToYaml \/ ToForm \/ YamlEdited
           \/ ClusterSecretModal
  BY <1>5 DEF PageLoaded, SecretsArrive, ToYaml, ToForm, YamlEdited, ClusterSecretModal,
              ModalEdited, Rest
<1> QED BY <1>1, <1>2, <1>3, <1>4, <1>5 DEF FormWorks

LEMMA PageRests ==
  ASSUME PageStateInv, FormStep
  PROVE  /\ UNCHANGED <<expert, tabs>> /\ loaded' \in {loaded, expert, None}
         /\ CreateClusterButton \/ FormCancelled => flight' = flight
<1>1. OpenPage => UNCHANGED <<expert, tabs, flight>> /\ loaded' \in {loaded, expert}
  BY Zenon DEF OpenPage
<1>2. /\ LeavePage => UNCHANGED <<expert, tabs, flight, loaded>>
      /\ Reload => UNCHANGED <<expert, tabs>> /\ loaded' = None
  BY DEF Reload, LeavePage, Rest
<1>3. SecretCreated => UNCHANGED <<expert, tabs, loaded>>
  BY Zenon DEF SecretCreated
<1>4. SecretRefused \/ ClusterRefused \/ ClusterCreated => UNCHANGED <<expert, tabs, loaded>>
  BY DEF ClusterCreated, ClusterRefused, SecretRefused
<1> QED BY <1>1, <1>2, <1>3, <1>4, WorkRests, Zenon
        DEF FormStep, CreateClusterButton, FormCancelled, FormReloaded, FormStoresSecret,
            FormCreatesCluster, FormRefused

(* The settings form, and what it stores. *)
LEMMA FlagTypesStep ==
  /\ PageStateInv /\ OwnInv /\ EntriesOK(entries) /\ ChangeTypes /\ FlagTypes /\ [Next]_vars
  => FlagTypes'
<1> SUFFICES ASSUME PageStateInv, OwnInv, EntriesOK(entries), ChangeTypes, FlagTypes, [Next]_vars
             PROVE  FlagTypes'
  BY Zenon
<1>1. EntryOK(SettingsKey, entries[SettingsKey]) /\ CacheShape(entries)
  BY SettingsKeyInKeys DEF EntriesOK, OwnInv, Shapes
<1>2. /\ entries[SettingsKey].rows # None => SettingOK(entries[SettingsKey].rows)
      /\ SettingOK(entries[SettingsKey].request.rows)
  BY <1>1 DEF EntryOK, Fits
<1> HIDE DEF PageStateInv, OwnInv, EntriesOK
<1>3. CASE UNCHANGED <<expert, tabs, form>> /\ loaded' \in {loaded, expert, None}
  BY <1>3 DEF FlagTypes
<1>4. CASE Login \/ LogoutButton \/ OpenOverview \/ ProjectPicked
  BY <1>3, <1>4 DEF Login, LogoutButton, OpenOverview, ProjectPicked, formVars
<1>5. CASE Sidebar
  <2>1. BothOK(FromStorage)
    BY DEF FlagTypes, FromStorage, FormOf, BothOK, FieldsOK
  <2>2. BothOK(Loaded(FromStorage, entries[SettingsKey].rows))
    BY <1>2, <2>1, FormFilled
  <2>3. form' = form \/ form' = Loaded(FromStorage, entries[SettingsKey].rows)
    BY <1>5 DEF Sidebar, SettingsKey
  <2> QED BY <1>5, <2>2, <2>3 DEF Sidebar, formVars, FlagTypes
<1>6. CASE TableStep
  <2>1. CASE Poll \/ \E k \in Keys : ServiceReads(k) \/ ListFails(k)
    BY <1>3, <2>1 DEF Poll, ServiceReads, ListFails, formVars
  <2>2. ASSUME NEW k \in Keys, RowsArrive(k) PROVE FlagTypes'
    <3>1. form' = form \/ form' = Loaded(form, entries[SettingsKey].request.rows)
      BY <2>2 DEF RowsArrive, SettingsKey
    <3>2. BothOK(Loaded(form, entries[SettingsKey].request.rows))
      BY <1>2, FormFilled DEF FlagTypes
    <3> QED BY <2>2, <3>1, <3>2 DEF RowsArrive, formVars, FlagTypes
  <2>3. CASE \/ ClusterTableRemoveButton \/ ClustersOverviewTableRowActions
             \/ ClustersOverviewTableButtons \/ ProjectsTableRowActions
             \/ EnvironmentsTableRowActions \/ SettingsTableRowActions
             \/ SettingsAddEntity \/ SettingsAddSecret
    BY <1>3, <2>3, ButtonsSend DEF Requested, formVars
  <2>4. CASE SettingsEdited
    <3>1. BothOK(form')
      BY <2>4 DEF SettingsEdited, FlagTypes, BothOK, FieldsOK
    <3> QED BY <2>4, <3>1 DEF SettingsEdited, formVars, FlagTypes
  <2>5. CASE SaveSettings
    <3>1. BothOK(form')
      BY <2>5 DEF SaveSettings, FlagTypes, BothOK, FormOf
    <3>2. {expert', tabs'} \subseteq BOOLEAN /\ loaded' = loaded
      BY <2>5 DEF SaveSettings, FlagTypes, BothOK, FieldsOK
    <3> QED BY <3>1, <3>2 DEF FlagTypes
  <2>6. CASE ServiceChanges \/ OthersChange
    BY <1>3, <2>6 DEF ServiceChanges, OthersChange, formVars
  <2>7. CASE ChangeAnswered
    <3>1. BothOK(form')
      BY <2>7 DEF ChangeAnswered, FlagTypes, ChangeTypes, FormOf, BothOK
    <3> QED BY <2>7, <3>1 DEF ChangeAnswered, FlagTypes
  <2> QED BY <1>6, <2>1, <2>2, <2>3, <2>4, <2>5, <2>6, <2>7 DEF TableStep
<1>7. CASE FormStep
  <2>1. form' = form
    BY <1>7 DEF FormStep, CreateClusterButton, FormCancelled, FormReloaded, FormStoresSecret,
                FormCreatesCluster, FormRefused, consoleVars
  <2> QED BY <1>3, <1>7, <2>1, PageRests
<1>8. CASE UNCHANGED vars
  BY <1>3, <1>8 DEF vars, formVars, consoleVars
<1> QED BY <1>4, <1>5, <1>6, <1>7, <1>8 DEF Next

(***************************************************************************)
(* What waits.                                                             *)
(***************************************************************************)

(* An invalidation waits for a request that is under way.                  *)
WaitInv == waiting # {} => Busy \/ \E k \in Keys : ~Idle(k)

LEMMA SettleWaits ==
  ASSUME NEW e, NEW tags, NEW keys, NEW busy, Settle(e, tags, keys, busy), busy => Busy'
  PROVE  WaitInv'
  BY DEF Settle, WaitInv, Idle

(* A request that is under way stays, or what waited waits no longer. *)
LEMMA StillWaits ==
  ASSUME WaitInv, waiting' \in {waiting, {}}, Busy => Busy',
         \A k \in Keys : ~Idle(k) => ~Idle(k)'
  PROVE  WaitInv'
  BY DEF WaitInv

LEMMA SubscribedWaits ==
  ASSUME WaitInv, waiting' = waiting, Busy => Busy', NEW keys, entries' = Subscribed(entries, keys)
  PROVE  WaitInv'
<1>1. ASSUME NEW k \in Keys, ~Idle(k) PROVE ~Idle(k)'
  <2>1. entries[k] # Empty
    BY <1>1 DEF Idle, Empty
  <2>2. entries'[k] = entries[k]
    BY <2>1 DEF Subscribed
  <2> QED BY <1>1, <2>2 DEF Idle
<1> QED BY <1>1, StillWaits

LEMMA WaitStep ==
  PageStateInv /\ OwnInv /\ ScreenInv /\ ChangeTypes /\ ChangeTypes' /\ WaitInv /\ [Next]_vars
  => WaitInv'
<1> SUFFICES ASSUME PageStateInv, OwnInv, ScreenInv, ChangeTypes, ChangeTypes', WaitInv,
                    [Next]_vars
             PROVE  WaitInv'
  BY Zenon
<1>1. CacheShape(entries) /\ ShownKeys \subseteq Keys
  BY ShownInKeys DEF OwnInv, Shapes
<1>2. change' = change /\ flight' = flight => Busy' = Busy
  BY DEF Busy
<1>3. \A s : ShowPage(s) /\ change' = change /\ flight' = flight => WaitInv'
  BY <1>2, SubscribedWaits DEF ShowPage
<1>4. \A s : LoadPage(s) => WaitInv'
  BY DEF LoadPage, WaitInv
<1>5. UNCHANGED <<entries, waiting>> /\ (Busy => Busy') => WaitInv'
  BY DEF WaitInv, Idle
<1>6. CASE Login \/ LogoutButton \/ Sidebar
  BY <1>3, <1>6 DEF Login, LogoutButton, Sidebar, formVars
<1>7. CASE OpenOverview
  BY <1>4, <1>7 DEF OpenOverview
<1>8. CASE ProjectPicked
  BY <1>2, <1>8, SubscribedWaits DEF ProjectPicked, pageVars
<1>9. CASE TableStep
  <2>1. CASE Poll
    <3>1. PICK k \in Keys : entries' = Answered(k, entries[k].rows, Ask)
      BY <1>1, <2>1 DEF Poll
    <3>2. \A c \in Keys : ~Idle(c) => ~Idle(c)'
      BY <1>1, <3>1 DEF Idle, Answered, Ask, NoRequest, CacheShape
    <3> QED BY <1>2, <2>1, <3>2, StillWaits DEF Poll, formVars
  <2>2. ASSUME NEW k \in Keys, ServiceReads(k) PROVE WaitInv'
    <3>1. \A c \in Keys : ~Idle(c) => ~Idle(c)'
      BY <1>1, <2>2 DEF ServiceReads, Idle, Answered, NoRequest, CacheShape
    <3> QED BY <1>2, <2>2, <3>1, StillWaits DEF ServiceReads, formVars
  <2>3. ASSUME NEW k \in Keys, RowsArrive(k) \/ ListFails(k) PROVE WaitInv'
    <3>1. change' = change /\ flight' = flight
      BY <2>3 DEF RowsArrive, ListFails, formVars
    <3>2. \E e, tags, keys : Settle(e, tags, keys, Busy)
      BY <2>3 DEF RowsArrive, ListFails
    <3> QED BY <1>2, <3>1, <3>2, SettleWaits
  <2>4. CASE \/ ClusterTableRemoveButton \/ ClustersOverviewTableRowActions
             \/ ClustersOverviewTableButtons \/ ProjectsTableRowActions
             \/ EnvironmentsTableRowActions \/ SettingsTableRowActions
             \/ SettingsAddEntity \/ SettingsAddSecret
    <3>1. /\ UNCHANGED <<entries, waiting>> /\ change'.kind # "none"
      BY <2>4, ButtonsSend DEF Requested
    <3> QED BY <1>5, <3>1 DEF Busy, NoChange
  <2>5. CASE SettingsEdited \/ OthersChange
    <3>1. UNCHANGED <<entries, waiting, change, flight>>
      BY <2>5 DEF SettingsEdited, OthersChange, formVars
    <3> QED BY <1>2, <1>5, <3>1
  <2>6. CASE SaveSettings
    <3>1. UNCHANGED <<entries, waiting, flight>> /\ change = NoChange
      BY <2>6 DEF SaveSettings, pageVars
    <3> QED BY <1>5, <3>1 DEF Busy
  <2>7. CASE ServiceChanges
    <3>1. {"kind", "list", "id"} \subseteq DOMAIN change
      BY DEF OwnInv, Shapes
    <3>2. change'.kind # "none" /\ UNCHANGED <<entries, waiting>>
      BY <2>7, <3>1 DEF ServiceChanges, ChangeTypes
    <3> QED BY <1>5, <3>2 DEF Busy, NoChange
  <2>8. CASE ChangeAnswered
    <3>1. flight' = flight /\ \E e, tags, keys : Settle(e, tags, keys, flight # None)
      BY <2>8, Zenon DEF ChangeAnswered, pageVars
    <3> QED BY <3>1, SettleWaits DEF Busy
  <2> QED BY <1>9, <2>1, <2>2, <2>3, <2>4, <2>5, <2>6, <2>7, <2>8 DEF TableStep
<1>10. CASE FormStep
  <2>1. CASE CreateClusterButton \/ FormCancelled
    <3>1. flight' = flight
      BY <1>10, <2>1, PageRests
    <3> QED BY <1>3, <2>1, <3>1 DEF CreateClusterButton, FormCancelled
  <2>2. CASE FormReloaded
    BY <1>4, <2>2 DEF FormReloaded
  <2>3. CASE FormStoresSecret \/ FormCreatesCluster \/ FormRefused
    <3>1. change' = change /\ \E e, tags, keys : Settle(e, tags, keys, change # NoChange)
      BY <2>3, Zenon DEF FormStoresSecret, FormCreatesCluster, FormRefused
    <3> QED BY <3>1, SettleWaits DEF Busy
  <2>4. CASE FormWorks /\ UNCHANGED consoleVars
    <3>1. UNCHANGED <<entries, waiting, change>>
      BY <2>4 DEF consoleVars
    <3> QED BY <1>5, <2>4, <3>1, WorkRests DEF Busy
  <2> QED BY <1>10, <2>1, <2>2, <2>3, <2>4 DEF FormStep
<1>11. CASE UNCHANGED vars
  BY <1>2, <1>5, <1>11 DEF vars, formVars, consoleVars
<1> QED BY <1>6, <1>7, <1>8, <1>9, <1>10, <1>11 DEF Next

(* The add-cluster page is on the screen while it is open. *)
LEMMA FormShownStep ==
  /\ PageStateInv /\ PageStateInv' /\ (screen = "form" => view # "away") /\ [Next]_vars
  => (screen' = "form" => view' # "away")
<1> SUFFICES ASSUME PageStateInv, PageStateInv', screen = "form" => view # "away", [Next]_vars,
                    screen' = "form"
             PROVE  view' # "away"
  BY Zenon
<1>1. CASE screen' = screen /\ view' = view
  BY <1>1
<1>2. CASE Login \/ LogoutButton \/ Sidebar \/ OpenOverview
  BY <1>2 DEF Login, LogoutButton, Sidebar, OpenOverview, ShowPage, LoadPage
<1>3. CASE ProjectPicked
  BY <1>1, <1>3 DEF ProjectPicked, pageVars
<1>4. CASE TableStep
  <2>1. CASE \/ Poll \/ \E k \in Keys : ServiceReads(k) \/ RowsArrive(k) \/ ListFails(k)
    BY <1>1, <2>1 DEF Poll, ServiceReads, RowsArrive, ListFails, formVars
  <2>2. CASE \/ ClusterTableRemoveButton \/ ClustersOverviewTableRowActions
             \/ ClustersOverviewTableButtons \/ ProjectsTableRowActions
             \/ EnvironmentsTableRowActions \/ SettingsTableRowActions
             \/ SettingsAddEntity \/ SettingsAddSecret
    BY <1>1, <2>2, ButtonsSend DEF Requested, formVars
  <2>3. CASE SettingsEdited \/ OthersChange \/ SaveSettings
    BY <1>1, <2>3 DEF SettingsEdited, OthersChange, SaveSettings, formVars, pageVars
  <2>4. CASE ServiceChanges \/ ChangeAnswered
    BY <1>1, <2>4 DEF ServiceChanges, ChangeAnswered, pageVars
  <2> QED BY <1>4, <2>1, <2>2, <2>3, <2>4 DEF TableStep
<1>5. CASE FormStep
  <2>1. CASE CreateClusterButton
    <3>1. Render([Closed EXCEPT !.view = "loading", !.values = FormDefaults(loaded')])
      BY <2>1, Zenon DEF CreateClusterButton, OpenPage
    <3>2. view' = "loading"
      BY <3>1 DEF Render, Closed
    <3> QED BY <3>2
  <2>2. CASE FormCancelled \/ FormReloaded \/ FormCreatesCluster
    BY <2>2 DEF FormCancelled, FormReloaded, FormCreatesCluster, ShowPage, LoadPage
  <2>3. CASE FormStoresSecret \/ FormRefused \/ (FormWorks /\ UNCHANGED consoleVars)
    <3>1. screen' = screen
      BY <2>3 DEF FormStoresSecret, FormRefused, consoleVars
    <3>2. FormWorks \/ SecretCreated \/ SecretRefused \/ ClusterRefused
      BY <2>3 DEF FormStoresSecret, FormRefused
    <3> QED BY <3>1, <3>2, PageHolds
  <2> QED BY <1>5, <2>1, <2>2, <2>3 DEF FormStep
<1>6. CASE UNCHANGED vars
  BY <1>1, <1>6 DEF vars, formVars, consoleVars
<1> QED BY <1>2, <1>3, <1>4, <1>5, <1>6 DEF Next

(* The first page. *)
TablesInv ==
  /\ FlagTypes /\ ChangeTypes /\ ServerTypes /\ EntriesOK(entries) /\ WaitInv
  /\ screen = "form" => view # "away"

LEMMA TablesInit == ConsoleInit => TablesInv
<1> SUFFICES ASSUME ConsoleInit PROVE TablesInv
  OBVIOUS
<1>1. expert \in BOOLEAN /\ tabs \in BOOLEAN /\ loaded = None
  <2>1. Init
    BY DEF ConsoleInit
  <2>2. expert \in BOOLEAN /\ loaded = None /\ tabs = ("yaml" \in tour)
    BY <2>1, Zenon DEF Init
  <2>3. ("yaml" \in tour) \in BOOLEAN
    OBVIOUS
  <2> QED BY <2>2, <2>3, Zenon
<1>2. form = FromStorage /\ change = NoChange /\ waiting = {} /\ screen # "form"
  BY DEF ConsoleInit
<1>3. FlagTypes /\ ChangeTypes /\ WaitInv
  BY <1>1, <1>2
     DEF FlagTypes, BothOK, FieldsOK, FromStorage, FormOf, ChangeTypes, NoChange, WaitInv
<1>4. ServerTypes
  <2>1. DOMAIN server.clusters = {1} /\ server.hosts = Hosts0 /\ server.proxy = {}
    BY DEF ConsoleInit
  <2>2. {1} = 1..1 /\ 1 \in 1..MaxClusters
    BY ClustersAssumption
  <2> QED BY <2>1, <2>2 DEF ServerTypes, SettingOK
<1>5. EntriesOK(entries)
  BY EmptyFits, SubscribedFits DEF ConsoleInit
<1> QED BY <1>2, <1>3, <1>4, <1>5 DEF TablesInv

(* The console's part of the types. *)
LEMMA TablesStep ==
  /\ PageStateInv /\ PageStateInv' /\ FlagInv /\ OwnInv /\ ScreenInv /\ TablesInv /\ [Next]_vars
  => TablesInv'
<1> SUFFICES ASSUME PageStateInv, PageStateInv', FlagInv, OwnInv, ScreenInv, TablesInv,
                    [Next]_vars
             PROVE  TablesInv'
  BY Zenon
<1>1. ChangeTypes'
  BY ChangeStep DEF TablesInv
<1>2. FlagTypes' /\ ServerTypes' /\ EntriesOK(entries)'
  BY FlagTypesStep, ServerStep, EntriesStep DEF TablesInv, EntriesOK
<1>3. WaitInv'
  BY <1>1, WaitStep DEF TablesInv
<1>4. screen' = "form" => view' # "away"
  BY FormShownStep DEF TablesInv
<1> QED BY <1>1, <1>2, <1>3, <1>4 DEF TablesInv

(* The types of the console, for any catalogue, any tour and any bounds:   *)
(* the secrets that the lists, the form, the modal and the two references  *)
(* hold exist, so that none is a number of another server or of an         *)
(* earlier page; the form is open on its own page only; what the settings  *)
(* form is filled with has its fields, whatever the service had; a table   *)
(* has rows of its list; and an invalidation that waits waits for a        *)
(* request that is under way, so that no table waits for ever for nothing. *)
THEOREM TypesHold == Spec => []TypeOK
<1>1. /\ PageStateInv /\ SecretInv /\ SecretsInv /\ PageTypes /\ StoredTypes /\ ScreenInv
         /\ TablesInv
      => TypeOK
  <2> SUFFICES ASSUME PageStateInv, SecretsInv, PageTypes, StoredTypes, ScreenInv, TablesInv
               PROVE  TypeOK
    BY Zenon
  <2>1. /\ {expert, tabs} \subseteq BOOLEAN /\ loaded \in BOOLEAN \cup {None}
        /\ DOMAIN form.now = {"expert", "tabs", "proxy"} /\ DOMAIN form.base = DOMAIN form.now
    BY DEF TablesInv, FlagTypes, BothOK, FieldsOK
  <2>2. /\ view \in {"away", "loading", "form", "yaml", "broken"}
        /\ (screen = "form") = (view # "away")
    BY DEF PageStateInv, ViewInv, TablesInv
  <2>3. /\ DOMAIN values = DOMAIN FormDefaults(TRUE)
        /\ values.provider \in Clouds \cup {"local", None}
        /\ values.amount \in 1..3 /\ values.standby \in 0..2
        /\ \A s \in Rows(values.servers) : s.ip \in Addresses \cup {None}
    BY DEF PageTypes, PageOK, Now, Typed, TypedFields, ServersTyped, Rows
  <2>4. {values.secret, modal.chosen, ref.page, ref.modal} \subseteq {None} \cup DOMAIN stored
    BY DEF PageTypes, PageOK, Now, Typed, ModalOK, RefOK, Ids, Components
  <2>5. modal.open => view \in {"form", "yaml"}
    BY DEF PageTypes
  <2>6. \A t \in SecretTypes : cache[t] # None => Rows(cache[t]) \subseteq DOMAIN stored
    BY DEF SecretsInv, CacheOK, Rows, OfMethod
  <2>7. FormTypeOK
    BY <2>1, <2>2, <2>3, <2>4, <2>5, <2>6, Zenon DEF FormTypeOK, StoredTypes
  <2>8. DOMAIN server.clusters \subseteq 1..MaxClusters /\ server.hosts \subseteq Hosts0
    <3>1. PICK n \in 1..MaxClusters : DOMAIN server.clusters = 1..n
      BY DEF TablesInv, ServerTypes
    <3> QED BY <3>1, ClustersAssumption DEF TablesInv, ServerTypes
  <2>9. \A k \in PolledKeys : entries[k].rows # None =>
          entries[k].rows \subseteq (IF k = Overview THEN Hosts0 ELSE 1..MaxClusters)
    BY DEF TablesInv, EntriesOK, EntryOK, Fits, Keys
  <2> QED BY <2>1, <2>2, <2>7, <2>8, <2>9
          DEF TypeOK, ScreenInv, Screens, TablesInv, WaitInv
<1>2. Spec => [](PageStateInv /\ SecretInv)
  BY PageFitsInit, PageFitsStep, SecretInit, SecretStep, PTL DEF Spec
<1>3. Spec => []SecretsInv
  BY SecretsFit, PTL
<1>4. Spec => []FlagInv
  BY FlagInit, FlagStep, PTL DEF Spec
<1>5. Spec => []OwnInv
  BY <1>4, OwnInit, OwnStep, PTL DEF Spec
<1>6. Spec => []ScreenInv
  BY <1>4, <1>5, ScreenInit, ScreenStep, PTL DEF Spec
<1>7. Spec => []TablesInv
  BY <1>2, <1>4, <1>5, <1>6, TablesInit, TablesStep, PTL DEF Spec
<1>8. Spec => []PageTypes
  BY <1>2, <1>3, PageTypesInit, PageTypesStep, PTL DEF Spec
<1>9. Spec => []StoredTypes
  BY <1>2, <1>8, StoredInit, StoredStep, PTL DEF Spec
<1> QED BY <1>1, <1>2, <1>3, <1>6, <1>7, <1>8, <1>9, PTL

=============================================================================
