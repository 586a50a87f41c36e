--------------------------- MODULE Console_proofs ---------------------------
(***************************************************************************)
(* Proofs about Console, for any catalogue of clouds, any tour and any     *)
(* bounds: the form creates one secret while its page or modal stays, and  *)
(* the expert switch shows the mode the form is in.                        *)
(***************************************************************************)
EXTENDS Console, SequenceTheorems, TLAPS

-----------------------------------------------------------------------------
(***************************************************************************)
(* One secret per page.                                                    *)
(***************************************************************************)

Components == {"page", "modal"}

(* The server's secrets are numbered, so that none has the number None.    *)
Numbered(s) == \E S : s \in Seq(S)

(* A component that is still shown and has created a secret knows it, and  *)
(* the request for a secret that is under way is the component's first.    *)
SecretInv ==
  /\ Numbered(stored)
  /\ Components \subseteq DOMAIN made /\ Components \subseteq DOMAIN ref
  /\ \A c \in Components :
       /\ made[c] \in {0, 1}
       /\ view # "away" /\ made[c] = 1 => ref[c] # None
  /\ flight # None =>
       /\ {"step", "from"} \subseteq DOMAIN flight
       /\ flight.from \in Components
       /\ flight.step = "secret" => made[flight.from] = 0

(* What Render does to the two counters: they go on, with the references   *)
(* that belong to them, or start anew.                                     *)
LEMMA RenderCounts ==
  ASSUME NEW p, Render(p)
  PROVE  /\ view' = p.view
         /\ Components \subseteq DOMAIN made' /\ Components \subseteq DOMAIN ref'
         /\ \A c \in Components :
              \/ made'[c] = 0
              \/ made'[c] = p.made[c] /\ ref'[c] = p.ref[c] /\ p.view = view
  BY DEF Render, Components

(* A handler that neither creates a secret nor sends a request. *)
LEMMA RenderKeeps ==
  ASSUME SecretInv, NEW p, Render(p), flight' \in {None, flight}, UNCHANGED stored,
         \A c \in Components :
           p.made[c] = 0 \/ (p.made[c] = made[c] /\ p.ref[c] = ref[c])
  PROVE  SecretInv'
  BY RenderCounts DEF SecretInv

(* Render is given the counters and the view as they are.                  *)
LEMMA NowCounts == Now.made = made /\ Now.ref = ref /\ Now.view = view
  BY DEF Now

(* A page that goes forgets what it created.                               *)
LEMMA ClosedCounts == \A c \in Components : Closed.made[c] = 0
  BY DEF Closed, Components

(* The number of the next secret is a number, and None is not.             *)
LEMMA NumberedLen == ASSUME NEW s, Numbered(s) PROVE Len(s) + 1 # None
  BY BoundsAssumption, LenProperties DEF Numbered

(* The service adds its secrets at the end.                                *)
LEMMA NumberedAppend == ASSUME NEW s, Numbered(s), NEW e PROVE Numbered(Append(s, e))
<1>1. PICK S : s \in Seq(S)
  BY DEF Numbered
<1>2. s \in Seq(S \cup {e})
  BY <1>1, SeqDef
<1>3. Append(s, e) \in Seq(S \cup {e})
  BY <1>2, AppendProperties
<1> QED BY <1>3 DEF Numbered

(* A secret that is edited keeps its number.                               *)
LEMMA NumberedExcept ==
  ASSUME NEW s, Numbered(s), NEW i, NEW e PROVE Numbered([s EXCEPT ![i] = e])
<1>1. PICK S : s \in Seq(S)
  BY DEF Numbered
<1>2. s \in Seq(S \cup {e})
  BY <1>1, SeqDef
<1>3. PICK n \in Nat : s \in [1..n -> S \cup {e}]
  BY <1>2, SeqDef
<1>4. [s EXCEPT ![i] = e] \in [1..n -> S \cup {e}]
  BY <1>3
<1>5. [s EXCEPT ![i] = e] \in Seq(S \cup {e})
  BY <1>4, SeqDef
<1> QED BY <1>5 DEF Numbered

(* The first lists are sequences, and nothing is under way.                *)
LEMMA SecretInit == ConsoleInit => SecretInv
<1> SUFFICES ASSUME ConsoleInit PROVE SecretInv
  OBVIOUS
<1>1. /\ flight = None /\ made = [page |-> 0, modal |-> 0] /\ view = "away"
      /\ ref = [page |-> None, modal |-> None]
      /\ \E t \in Tours : stored = t.secrets
  <2>1. Init
    BY DEF ConsoleInit
  <2> QED BY <2>1, Zenon DEF Init
<1>2. Numbered(stored)
  BY <1>1, BoundsAssumption DEF Numbered
<1> QED BY <1>1, <1>2 DEF SecretInv, Components

(* Every block's handler leaves the counters to Render.                    *)
LEMMA FillInRenders ==
  ASSUME FillIn
  PROVE  /\ \E v, k : Render([Now EXCEPT !.values = v, !.kept = k])
         /\ UNCHANGED <<tour, project, stored, flight>> /\ view = "form"
<1> DEFINE Edited == \E part, v, k, b : EditKeeping(part, v, k, b)
<1>1. Edited => /\ \E v, k : Render([Now EXCEPT !.values = v, !.kept = k])
                /\ UNCHANGED <<tour, project, stored, flight>> /\ view = "form"
  BY DEF EditKeeping, Rest
<1>2. \A part, v : Edit(part, v) => Edited
  BY DEF Edit
<1>3. \A part, v, k, b : EditKeeping(part, v, k, b) => Edited
  OBVIOUS
<1> HIDE DEF Edited
<1>4. CASE ClusterFormProvidersBlock
  BY <1>1, <1>3, <1>4 DEF ClusterFormProvidersBlock
<1>5. CASE CloudFormRegionBlock \/ CloudFormInstancesBlock \/ CustomInstance
           \/ InstancesAmountBlock \/ StorageBlock \/ Network \/ SshKeyBlock
  BY <1>1, <1>2, <1>5 DEF CloudFormRegionBlock, CloudFormInstancesBlock, CustomInstance,
                    InstancesAmountBlock, StorageBlock, Network, SshKeyBlock
<1>6. CASE DatabaseServersBlock \/ DatabaseServerBox \/ VipAddressBlock
           \/ LoadBalancersBlock \/ LoadBalancersDatabaseBox \/ DcsBlock \/ DcsDatabaseBox
  BY <1>1, <1>2, <1>6 DEF DatabaseServersBlock, DatabaseServerBox, VipAddressBlock,
                    LoadBalancersBlock, LoadBalancersDatabaseBox, DcsBlock, DcsDatabaseBox
<1>7. CASE AuthenticationMethodFormBlock \/ AuthenticationFormPart
           \/ PasswordMethodFormPart \/ SshMethodFormPart
  BY <1>1, <1>2, <1>7 DEF AuthenticationMethodFormBlock, AuthenticationFormPart,
                    PasswordMethodFormPart, SshMethodFormPart
<1>8. CASE ClusterFormEnvironmentBlock \/ ClusterNameBox \/ PostgresVersionBox
           \/ DataDirectoryBlock
  BY <1>1, <1>2, <1>8 DEF ClusterFormEnvironmentBlock, ClusterNameBox, PostgresVersionBox,
                    DataDirectoryBlock
<1>9. CASE DatabaseBlock \/ DatabaseBox \/ ConnectionPoolsBlock \/ ConnectionPoolBox
           \/ ExtensionsBlock \/ ExtensionSelector
  BY <1>1, <1>2, <1>3, <1>9 DEF DatabaseBlock, DatabaseBox, ConnectionPoolsBlock,
                          ConnectionPoolBox, ExtensionsBlock, ExtensionSelector
<1>10. CASE BackupsBlock \/ ConfigureBackupModal \/ ConfigurePostgresParametersModal
            \/ ConfigureKernelParametersModal \/ AdditionalSettingsBlock
            \/ ClusterFormCloudProviderFormPart \/ ClusterFormLocalMachineFormPart
  BY <1>1, <1>2, <1>10 DEF BackupsBlock, ConfigureBackupModal, ConfigurePostgresParametersModal,
                     ConfigureKernelParametersModal, AdditionalSettingsBlock,
                     ClusterFormCloudProviderFormPart, ClusterFormLocalMachineFormPart
<1> QED BY <1>1, <1>4, <1>5, <1>6, <1>7, <1>8, <1>9, <1>10 DEF FillIn

(* Filling in, leaving and loading the page, and the tabs.                 *)
LEMMA PageKeeps ==
  ASSUME SecretInv,
         \/ OpenPage \/ Reload \/ PageLoaded \/ LeavePage \/ SecretsArrive \/ FillIn
         \/ ToYaml \/ ToForm \/ YamlEdited \/ ClusterSecretModal
  PROVE  SecretInv'
<1> DEFINE Keeps(p) == \A c \in Components :
                         p.made[c] = 0 \/ (p.made[c] = made[c] /\ p.ref[c] = ref[c])
<1>1. \A p : Render(p) /\ Keeps(p) /\ UNCHANGED <<stored, flight>> => SecretInv'
  BY RenderKeeps
<1>2. /\ \A v, k : Keeps([Now EXCEPT !.values = v, !.kept = k])
      /\ \A w, v, k : Keeps([Now EXCEPT !.view = w, !.values = v, !.kept = k])
      /\ \A w, v : Keeps([Now EXCEPT !.view = w, !.values = v])
      /\ \A w, v, d : Keeps([Now EXCEPT !.view = w, !.values = v, !.doc = d])
      /\ \A t, ids : Keeps([Now EXCEPT !.cache[t] = ids])
      /\ \A valid : Keeps([Now EXCEPT !.doc.valid = valid])
      /\ \A d : Keeps([Now EXCEPT !.doc = d])
      /\ \A m : Keeps([Now EXCEPT !.modal = m])
  BY DEF Now
<1>3. /\ \A w, v : Keeps([Closed EXCEPT !.view = w, !.values = v])
      /\ \A w : Keeps([Closed EXCEPT !.view = w])
      /\ \A c : Keeps([Closed EXCEPT !.cache = c])
      /\ Keeps(Closed)
  BY DEF Closed, Components
<1> HIDE DEF Keeps
<1>4. CASE OpenPage \/ Reload \/ LeavePage
  BY <1>1, <1>3, <1>4 DEF OpenPage, Reload, LeavePage, Rest
<1>5. CASE PageLoaded
  <2>1. \E v, k : Render([Now EXCEPT !.view = "form", !.values = v, !.kept = k])
    BY <1>5, Zenon DEF PageLoaded
  <2>2. UNCHANGED <<stored, flight>>
    BY <1>5 DEF PageLoaded, Rest
  <2> QED BY <1>1, <1>2, <2>1, <2>2
<1>6. CASE SecretsArrive
  BY <1>1, <1>2, <1>6 DEF SecretsArrive
<1>7. CASE FillIn
  BY <1>1, <1>2, <1>7, FillInRenders
<1>8. CASE ToYaml \/ ToForm
  BY <1>1, <1>2, <1>3, <1>8 DEF ToYaml, ToForm, Rest
<1>9. CASE YamlEdited
  BY <1>1, <1>2, <1>9 DEF YamlEdited, Rest
<1>10. CASE ClusterSecretModal
  BY <1>1, <1>2, <1>10 DEF ClusterSecretModal, ModalEdited, Rest
<1> QED BY <1>4, <1>5, <1>6, <1>7, <1>8, <1>9, <1>10

(* Post: the request for the cluster goes, or building it throws; either   *)
(* way no secret is asked for, and the counters are those it was given.    *)
LEMMA PostCounts ==
  ASSUME NEW a, NEW p, NEW created, Post(a, p, created),
         {"step", "from"} \subseteq DOMAIN a, a.from \in Components,
         \A c \in Components : p.made[c] \in {0, 1},
         p.view # "away" => \A c \in Components : p.made[c] = 1 => p.ref[c] # None,
         Numbered(stored')
  PROVE  SecretInv'
<1>1. \E q : Render(q) /\ q.made = p.made /\ q.ref = p.ref /\ q.view = p.view
  <2> DEFINE Same(q) == q.made = p.made /\ q.ref = p.ref /\ q.view = p.view
  <2>1. /\ Same(p) /\ Same([p EXCEPT !.modal = ModalShut])
        /\ \A d : Same([p EXCEPT !.doc.object = d])
    OBVIOUS
  <2>2. Same(Ended(p, a))
    BY <2>1 DEF Ended
  <2> HIDE DEF Same
  <2>3. \E q : Render(q) /\ Same(q)
    BY <2>1, <2>2 DEF Post
  <2> QED BY <2>3 DEF Same
<1>2. flight' = None \/ flight' = [a EXCEPT !.step = "cluster"]
  BY DEF Post
<1>3. flight' # None =>
        /\ {"step", "from"} \subseteq DOMAIN flight' /\ flight'.from \in Components
        /\ flight'.step = "cluster"
  BY <1>2
<1> QED BY <1>1, <1>3, RenderCounts DEF SecretInv

(* An attempt knows the component it comes from and the secret that one    *)
(* has created.                                                            *)
LEMMA AttemptFields ==
  ASSUME NEW from \in Components, NEW save, NEW type
  PROVE  LET a == Attempt(from, save, type) IN
         /\ {"step", "from"} \subseteq DOMAIN a /\ a.from = from /\ a.created = ref[from]
         /\ SecretFirst(a) => ref[from] = None
  BY DEF Attempt, SecretFirst

(* A submission asks for a secret only if its component has none.          *)
LEMMA BeginKeeps ==
  ASSUME SecretInv, view # "away", NEW from \in Components, NEW save, NEW type,
         Begin(Attempt(from, save, type), Now), UNCHANGED stored
  PROVE  SecretInv'
<1> DEFINE a == Attempt(from, save, type)
<1>1. /\ {"step", "from"} \subseteq DOMAIN a /\ a.from = from
      /\ SecretFirst(a) => ref[from] = None
  BY AttemptFields
<1> HIDE DEF a
<1>2. CASE SecretFirst(a)
  <2>1. flight' = a /\ Render(Now)
    BY <1>2 DEF Begin, a
  <2>2. made[from] = 0
    BY <1>1, <1>2 DEF SecretInv
  <2> QED BY <1>1, <2>1, <2>2, NowCounts, RenderCounts DEF SecretInv
<1>3. CASE ~SecretFirst(a)
  <2>1. Post(a, Now, a.created)
    BY <1>3 DEF Begin, a
  <2> QED BY <1>1, <2>1, NowCounts, PostCounts DEF SecretInv
<1> QED BY <1>2, <1>3

(* The three submit buttons and the answers of the service.                *)
LEMMA SubmissionKeeps ==
  ASSUME SecretInv,
         \/ SubmitForm \/ SubmitYaml \/ SubmitModal
         \/ SecretCreated \/ SecretRefused \/ ClusterCreated \/ ClusterRefused
  PROVE  SecretInv'
<1>1. CASE SubmitForm \/ SubmitYaml
  <2>1. /\ view # "away" /\ UNCHANGED stored
        /\ \E save, type : Begin(Attempt("page", save, type), Now)
    BY <1>1, Zenon DEF SubmitForm, SubmitYaml
  <2> QED BY <2>1, BeginKeeps DEF Components
<1>2. CASE SubmitModal
  <2>1. /\ UNCHANGED stored
        /\ \E save, type : Begin(Attempt("modal", save, type), Now)
    BY <1>2, Zenon DEF SubmitModal
  <2>2. view # "away"
    BY <1>2 DEF SubmitModal, Asks, AsksInModal
  <2> QED BY <2>1, <2>2, BeginKeeps DEF Components
<1>3. CASE SecretCreated
  <2> DEFINE id == Len(stored) + 1
             p == [Now EXCEPT !.cache = CacheInvalidated,
                              !.ref[flight.from] = IF view = "away" THEN None ELSE id,
                              !.made[flight.from] = @ + 1]
  <2>1. /\ Post(flight, p, id) /\ stored' = Append(stored, flight.type)
        /\ flight # None /\ flight.step = "secret"
    BY <1>3, Zenon DEF SecretCreated
  <2>2. id # None
    BY NumberedLen DEF SecretInv
  <2>3. p.view = view
    BY DEF Now
  <2>4. \A c \in Components : /\ p.made[c] \in {0, 1}
                              /\ view # "away" /\ p.made[c] = 1 => p.ref[c] # None
    <3>1. /\ p.made = [made EXCEPT ![flight.from] = made[flight.from] + 1]
          /\ p.ref = [ref EXCEPT ![flight.from] = IF view = "away" THEN None ELSE id]
      BY DEF Now
    <3> HIDE DEF p, id
    <3> QED BY <2>1, <2>2, <3>1 DEF SecretInv, Components
  <2>5. Numbered(stored')
    BY <2>1, NumberedAppend DEF SecretInv
  <2> HIDE DEF p, id
  <2> QED BY <2>1, <2>3, <2>4, <2>5, PostCounts DEF SecretInv
<1>4. CASE SecretRefused \/ ClusterRefused
  <2> DEFINE Same(q) == q.made = made /\ q.ref = ref
  <2>1. /\ Same(Ended(Now, flight))
        /\ \A c : Same([Ended(Now, flight) EXCEPT !.cache = c])
    BY DEF Now, Ended
  <2> HIDE DEF Same
  <2>2. (\E q : Render(q) /\ Same(q)) /\ flight' = None /\ UNCHANGED stored
    BY <1>4, <2>1, Zenon DEF SecretRefused, ClusterRefused
  <2> QED BY <2>2, RenderKeeps DEF Same
<1>5. CASE ClusterCreated
  <2>1. Render(Closed) /\ flight' = None /\ UNCHANGED stored
    BY <1>5 DEF ClusterCreated
  <2> QED BY <2>1, ClosedCounts, RenderKeeps
<1> QED BY <1>1, <1>2, <1>3, <1>4, <1>5

(* A step of the console away from the form. *)
LEMMA ElsewhereKeeps ==
  ASSUME SecretInv, UNCHANGED <<view, made, ref, flight>>,
         \/ UNCHANGED stored
         \/ \E e : stored' = Append(stored, e)
         \/ \E i, e : stored' = [stored EXCEPT ![i] = e]
  PROVE  SecretInv'
<1>1. Numbered(stored')
  <2>1. Numbered(stored)
    BY DEF SecretInv
  <2>2. CASE UNCHANGED stored
    BY <2>1, <2>2
  <2>3. CASE \E e : stored' = Append(stored, e)
    BY <2>1, <2>3, NumberedAppend
  <2>4. CASE \E i, e : stored' = [stored EXCEPT ![i] = e]
    <3>1. PICK i, e : stored' = [stored EXCEPT ![i] = e]
      BY <2>4
    <3>2. Numbered([stored EXCEPT ![i] = e])
      BY <2>1, NumberedExcept
    <3> QED BY <3>1, <3>2, Zenon
  <2> QED BY <2>2, <2>3, <2>4
<1>2. view' = view /\ made' = made /\ ref' = ref /\ flight' = flight
  OBVIOUS
<1> QED BY <1>1, <1>2, Zenon DEF SecretInv

(* Every step of the console: the form's, and those of the tables and the  *)
(* service, which leave the form alone.                                    *)
LEMMA SecretStep == SecretInv /\ [Next]_vars => SecretInv'
<1> SUFFICES ASSUME SecretInv, [Next]_vars
             PROVE  SecretInv'
  OBVIOUS
<1>1. CASE FormStep
  <2>1. CASE CreateClusterButton \/ FormCancelled \/ FormReloaded
    BY <2>1, PageKeeps DEF CreateClusterButton, FormCancelled, FormReloaded
  <2>2. CASE FormStoresSecret \/ FormCreatesCluster \/ FormRefused
    BY <2>2, SubmissionKeeps DEF FormStoresSecret, FormCreatesCluster, FormRefused
  <2>3. CASE FormWorks
    BY <2>3, PageKeeps, SubmissionKeeps DEF FormWorks
  <2> QED BY <1>1, <2>1, <2>2, <2>3 DEF FormStep
<1>2. CASE UNCHANGED formVars
  BY <1>2, ElsewhereKeeps DEF formVars
<1>3. CASE Login \/ LogoutButton \/ Sidebar
  BY <1>2, <1>3 DEF Login, LogoutButton, Sidebar
<1>4. CASE OpenOverview \/ ProjectPicked
  BY <1>4, ElsewhereKeeps DEF OpenOverview, ProjectPicked, pageVars
<1>5. CASE TableStep
  <2> USE DEF Requested, pageVars
  <2>1. CASE \/ Poll \/ \E k \in Keys : ServiceReads(k) \/ RowsArrive(k) \/ ListFails(k)
    BY <1>2, <2>1 DEF Poll, ServiceReads, RowsArrive, ListFails
  <2>2. CASE \/ ClusterTableRemoveButton \/ ClustersOverviewTableRowActions
             \/ ClustersOverviewTableButtons \/ ProjectsTableRowActions
             \/ EnvironmentsTableRowActions \/ SettingsTableRowActions
             \/ SettingsAddEntity \/ SettingsAddSecret
    BY <1>2, <2>2
       DEF ClusterTableRemoveButton, ClustersOverviewTableRowActions,
           ClustersOverviewTableButtons, ProjectsTableRowActions, EnvironmentsTableRowActions,
           SettingsTableRowActions, SettingsAddEntity, SettingsAddSecret
  <2>3. CASE SettingsEdited \/ OthersChange
    BY <1>2, <2>3 DEF SettingsEdited, OthersChange
  <2>4. CASE SaveSettings \/ ChangeAnswered
    BY <2>4, ElsewhereKeeps DEF SaveSettings, ChangeAnswered
  <2>5. CASE ServiceChanges
    <3>1. UNCHANGED <<view, made, ref, flight>>
      BY <2>5 DEF ServiceChanges
    <3>2. UNCHANGED stored \/ stored' = SecretsCarried(change)
      BY <2>5 DEF ServiceChanges
    <3> QED BY <3>1, <3>2, ElsewhereKeeps DEF SecretsCarried
  <2> QED BY <1>5, <2>1, <2>2, <2>3, <2>4, <2>5 DEF TableStep
<1>6. CASE UNCHANGED vars
  BY <1>2, <1>6 DEF vars
<1> QED BY <1>1, <1>3, <1>4, <1>5, <1>6 DEF Next

(* "ref is used for case when user saves secret and uses its ID to create  *)
(* cluster": for any number of refusals and retries, and whatever else is  *)
(* clicked while a request is under way, a page or modal that stays on the *)
(* screen creates one secret.                                              *)
THEOREM OneSecret == Spec => []OneSecretPerPage
<1>1. SecretInv => OneSecretPerPage
  BY DEF SecretInv, Components, OneSecretPerPage
<1> QED BY <1>1, SecretInit, SecretStep, PTL DEF Spec

-----------------------------------------------------------------------------
(***************************************************************************)
(* The expert switch.                                                      *)
(***************************************************************************)

SettingsKey == Page("settings")

WithoutFlag(rows) == \A r \in rows : "expert" \notin DOMAIN r

(* The cached setting, and the answer under way with it, have no flag.      *)
CacheInv(e) ==
  /\ {"rows", "request"} \subseteq DOMAIN e[SettingsKey]
  /\ e[SettingsKey].rows # None => WithoutFlag(e[SettingsKey].rows)
  /\ {"at", "rows"} \subseteq DOMAIN e[SettingsKey].request
  /\ WithoutFlag(e[SettingsKey].request.rows)

FormInv(f) == {"now", "base"} \subseteq DOMAIN f /\ "expert" \in DOMAIN f.now

ChangeInv(c) ==
  c # NoChange => /\ {"list", "saves"} \subseteq DOMAIN c
                  /\ c.list \in Lists \cup {"settings"}
                  /\ c.list = "settings" => "expert" \in DOMAIN c.saves

(* The flag is never part of the setting: not at the service, not in the   *)
(* cache and not in an answer; the form always has it.                     *)
FlagInv ==
  /\ "proxy" \in DOMAIN server /\ WithoutFlag(server.proxy)
  /\ DOMAIN entries = Keys /\ CacheInv(entries)
  /\ ChangeInv(change)
  /\ FormInv(form)

(* The setting put over the form leaves the flag alone.                    *)
LEMMA LoadedKeepsFlag ==
  ASSUME NEW f, FormInv(f), NEW rows, rows # None => WithoutFlag(rows)
  PROVE  FormInv(Loaded(f, rows)) /\ Loaded(f, rows).now.expert = f.now.expert
  BY DEF FormInv, WithoutFlag, Loaded, FormOf

(* The settings have an entry of their own in the cache.                   *)
LEMMA SettingsKeyInKeys == SettingsKey \in Keys
  BY DEF SettingsKey, Keys

(* Asking for entries, forgetting them and invalidating them.              *)
LEMMA SubscribedKeeps ==
  ASSUME NEW e, CacheInv(e), NEW keys
  PROVE  CacheInv(Subscribed(e, keys)) /\ DOMAIN Subscribed(e, keys) = Keys
  BY SettingsKeyInKeys DEF CacheInv, Subscribed, Ask, Empty, NoRequest, WithoutFlag

(* No request has no setting. *)
LEMMA NoRequestKeeps ==
  {"at", "rows"} \subseteq DOMAIN NoRequest /\ WithoutFlag(NoRequest.rows)
  BY DEF NoRequest, WithoutFlag

(* An empty cache has no setting. *)
LEMMA EmptyKeeps == CacheInv([k \in Keys |-> Empty])
  BY SettingsKeyInKeys DEF CacheInv, Empty, NoRequest, WithoutFlag

(* An invalidated entry is asked for again or forgotten. *)
LEMMA InvalidatedKeeps ==
  ASSUME NEW e, CacheInv(e), NEW tags, NEW keys
  PROVE  CacheInv(Invalidated(e, tags, keys)) /\ DOMAIN Invalidated(e, tags, keys) = Keys
  BY SettingsKeyInKeys DEF CacheInv, Invalidated, Ask, Empty, NoRequest, WithoutFlag

(* An invalidation is done now, or left for later. *)
LEMMA SettleKeeps ==
  ASSUME NEW e, CacheInv(e), DOMAIN e = Keys, NEW tags, NEW keys, NEW busy,
         Settle(e, tags, keys, busy)
  PROVE  CacheInv(entries') /\ DOMAIN entries' = Keys
  BY InvalidatedKeeps DEF Settle

(* A new entry of the cache, for the settings or for another list.         *)
LEMMA AnsweredKeeps ==
  ASSUME FlagInv, NEW k, NEW rows, NEW request,
         k = SettingsKey =>
           /\ rows # None => WithoutFlag(rows)
           /\ {"at", "rows"} \subseteq DOMAIN request /\ WithoutFlag(request.rows)
  PROVE  CacheInv(Answered(k, rows, request)) /\ DOMAIN Answered(k, rows, request) = Keys
<1>1. CASE k = SettingsKey
  BY <1>1, SettingsKeyInKeys DEF FlagInv, CacheInv, Answered
<1>2. CASE k # SettingsKey
  <2>1. Answered(k, rows, request)[SettingsKey] = entries[SettingsKey]
    BY <1>2, SettingsKeyInKeys DEF FlagInv, Answered
  <2>2. DOMAIN Answered(k, rows, request) = Keys
    BY DEF FlagInv, Answered
  <2> HIDE DEF SettingsKey
  <2> QED BY <2>1, <2>2 DEF FlagInv, CacheInv
<1> QED BY <1>1, <1>2

(* Nothing is cached at first, and the form starts from localStorage.      *)
LEMMA FlagInit == ConsoleInit => FlagInv
<1> SUFFICES ASSUME ConsoleInit PROVE FlagInv
  OBVIOUS
<1>1. "proxy" \in DOMAIN server /\ WithoutFlag(server.proxy) /\ ChangeInv(change)
  BY DEF ConsoleInit, WithoutFlag, ChangeInv
<1>2. CacheInv(entries) /\ DOMAIN entries = Keys
  BY EmptyKeeps, SubscribedKeeps DEF ConsoleInit
<1>3. FormInv(form)
  BY DEF ConsoleInit, FormInv, FromStorage, FormOf
<1> QED BY <1>1, <1>2, <1>3 DEF FlagInv

(* Going to a page and loading it.                                         *)
LEMMA PageFlag ==
  ASSUME FlagInv, NEW s, ShowPage(s) \/ LoadPage(s)
  PROVE  CacheInv(entries') /\ DOMAIN entries' = Keys
  BY EmptyKeeps, SubscribedKeeps DEF FlagInv, ShowPage, LoadPage

(* The rows of the settings are the setting of the service.                *)
LEMMA SettingsRows == RowsOf(SettingsKey) = server.proxy
  BY DEF RowsOf, SettingsKey, Page, Key

(* Requests for lists and their answers.                                   *)
LEMMA ListsFlag ==
  ASSUME FlagInv, \/ Poll
                  \/ \E k \in Keys : ServiceReads(k) \/ RowsArrive(k) \/ ListFails(k)
  PROVE  FlagInv'
<1>1. CASE Poll
  <2>1. PICK k \in ShownKeys : entries' = Answered(k, entries[k].rows, Ask)
    BY <1>1 DEF Poll
  <2>2. CacheInv(entries') /\ DOMAIN entries' = Keys
    <3>1. k = SettingsKey => (entries[k].rows # None => WithoutFlag(entries[k].rows))
      BY DEF FlagInv, CacheInv
    <3>2. {"at", "rows"} \subseteq DOMAIN Ask /\ WithoutFlag(Ask.rows)
      BY DEF Ask, WithoutFlag
    <3> QED BY <2>1, <3>1, <3>2, AnsweredKeeps
  <2> QED BY <1>1, <2>2 DEF Poll, FlagInv
<1>2. ASSUME NEW k \in Keys, ServiceReads(k) PROVE FlagInv'
  <2> DEFINE request == [at |-> "browser", rows |-> RowsOf(k)]
  <2>1. k = SettingsKey => /\ entries[k].rows # None => WithoutFlag(entries[k].rows)
                           /\ WithoutFlag(request.rows)
    BY SettingsRows DEF FlagInv, CacheInv
  <2>2. {"at", "rows"} \subseteq DOMAIN request
    OBVIOUS
  <2> HIDE DEF request
  <2>3. CacheInv(Answered(k, entries[k].rows, request))
        /\ DOMAIN Answered(k, entries[k].rows, request) = Keys
    BY <2>1, <2>2, AnsweredKeeps
  <2> QED BY <1>2, <2>3 DEF ServiceReads, FlagInv, request
<1>3. ASSUME NEW k \in Keys, RowsArrive(k) PROVE FlagInv'
  <2> DEFINE rows == entries[k].request.rows
  <2>1. k = SettingsKey => WithoutFlag(rows)
    BY <1>3 DEF FlagInv, CacheInv, RowsArrive, Pending
  <2> HIDE DEF rows
  <2>2. CacheInv(Answered(k, rows, NoRequest)) /\ DOMAIN Answered(k, rows, NoRequest) = Keys
    BY <2>1, NoRequestKeeps, AnsweredKeeps
  <2>3. Settle(Answered(k, rows, NoRequest), waiting, ShownKeys, Busy)
    BY <1>3 DEF RowsArrive, rows
  <2>4. CacheInv(entries') /\ DOMAIN entries' = Keys
    BY <2>2, <2>3, SettleKeeps
  <2>5. FormInv(form')
    <3>1. form' = IF k = SettingsKey /\ screen = "settings" /\ rows # entries[k].rows
                  THEN Loaded(form, rows) ELSE form
      BY <1>3 DEF RowsArrive, rows, SettingsKey
    <3> QED BY <2>1, <3>1, LoadedKeepsFlag DEF FlagInv
  <2> QED BY <1>3, <2>4, <2>5 DEF RowsArrive, FlagInv
<1>4. ASSUME NEW k \in Keys, ListFails(k) PROVE FlagInv'
  <2>1. k = SettingsKey => (entries[k].rows # None => WithoutFlag(entries[k].rows))
    BY DEF FlagInv, CacheInv
  <2>2. /\ CacheInv(Answered(k, entries[k].rows, NoRequest))
        /\ DOMAIN Answered(k, entries[k].rows, NoRequest) = Keys
    BY <2>1, NoRequestKeeps, AnsweredKeeps
  <2>3. CacheInv(entries') /\ DOMAIN entries' = Keys
    BY <1>4, <2>2, SettleKeeps DEF ListFails
  <2> QED BY <1>4, <2>3 DEF ListFails, FlagInv
<1> QED BY <1>1, <1>2, <1>3, <1>4

(* The buttons only start a request, for a list or for the settings.       *)
LEMMA ButtonsFlag ==
  ASSUME FlagInv,
         \/ ClusterTableRemoveButton \/ ClustersOverviewTableRowActions
         \/ ClustersOverviewTableButtons \/ ProjectsTableRowActions
         \/ EnvironmentsTableRowActions \/ SettingsTableRowActions
         \/ SettingsAddEntity \/ SettingsAddSecret
  PROVE  FlagInv'
<1>1. \E kind, id : \E list \in Lists : Requested(kind, list, id)
  BY DEF ClusterTableRemoveButton, ClustersOverviewTableRowActions,
         ClustersOverviewTableButtons, ProjectsTableRowActions, EnvironmentsTableRowActions,
         SettingsTableRowActions, SettingsAddEntity, SettingsAddSecret, Lists
<1>2. ASSUME NEW kind, NEW id, NEW list \in Lists, Requested(kind, list, id)
      PROVE  FlagInv'
  <2>1. change' = [kind |-> kind, list |-> list, id |-> id, saves |-> None, done |-> None]
    BY <1>2 DEF Requested
  <2>2. ChangeInv(change')
    BY <2>1 DEF ChangeInv, Lists
  <2> QED BY <1>2, <2>2 DEF Requested, FlagInv
<1> QED BY <1>1, <1>2

(* Editing and saving the settings: what is sent has the flag taken out.   *)
LEMMA SettingsFlag ==
  ASSUME FlagInv, SettingsEdited \/ SaveSettings
  PROVE  FlagInv'
<1>1. CASE SettingsEdited
  <2>1. FormInv(form')
    BY <1>1 DEF SettingsEdited, FlagInv, FormInv
  <2> QED BY <1>1, <2>1 DEF SettingsEdited, FlagInv
<1>2. CASE SaveSettings
  <2>1. FormInv(form')
    BY <1>2 DEF SaveSettings, FlagInv, FormInv, FormOf
  <2>2. ChangeInv(change')
    BY <1>2 DEF SaveSettings, FlagInv, FormInv, ChangeInv
  <2> QED BY <1>2, <2>1, <2>2 DEF SaveSettings, FlagInv
<1> QED BY <1>1, <1>2

(* The service carries a change out.                                       *)
LEMMA ServiceFlag ==
  ASSUME FlagInv, ServiceChanges \/ OthersChange
  PROVE  FlagInv'
<1>1. CASE ServiceChanges
  <2>1. ChangeInv(change')
    BY <1>1 DEF ServiceChanges, FlagInv, ChangeInv
  <2>2. "proxy" \in DOMAIN server' /\ WithoutFlag(server'.proxy)
    <3>1. server' = server \/ server' = Carried(change)
      BY <1>1 DEF ServiceChanges
    <3>2. change.list \in Lists \cup {"settings"}
      BY <1>1 DEF ServiceChanges, FlagInv, ChangeInv
    <3>3. "expert" \notin DOMAIN SettingOf(change.saves)
      BY DEF SettingOf
    <3>4. "proxy" \in DOMAIN Carried(change) /\ WithoutFlag(Carried(change).proxy)
      <4>1. /\ "proxy" \in DOMAIN Carried(change)
            /\ \/ Carried(change).proxy = server.proxy
               \/ Carried(change).proxy = {SettingOf(change.saves)}
        BY <3>2 DEF Carried, FlagInv, Lists
      <4> QED BY <3>3, <4>1 DEF FlagInv, WithoutFlag
    <3> QED BY <3>1, <3>4 DEF FlagInv
  <2> QED BY <1>1, <2>1, <2>2 DEF ServiceChanges, FlagInv
<1>2. CASE OthersChange
  <2>1. "proxy" \in DOMAIN server' /\ server'.proxy = server.proxy
    BY <1>2 DEF OthersChange, FlagInv
  <2> QED BY <1>2, <2>1 DEF OthersChange, FlagInv
<1> QED BY <1>1, <1>2

(* The answer to a change: the form is reset to what was saved.            *)
LEMMA AnswerFlag ==
  ASSUME FlagInv, ChangeAnswered
  PROVE  FlagInv'
<1>1. CacheInv(FollowUp(change)) /\ DOMAIN FollowUp(change) = Keys
  <2>1. {"at", "rows"} \subseteq DOMAIN Ask /\ WithoutFlag(Ask.rows)
    BY DEF Ask, WithoutFlag
  <2>2. Overview # SettingsKey
    BY DEF Overview, SettingsKey, Page, Key
  <2>3. CacheInv(Answered(Overview, entries[Overview].rows, Ask))
        /\ DOMAIN Answered(Overview, entries[Overview].rows, Ask) = Keys
    BY <2>1, <2>2, AnsweredKeeps
  <2> QED BY <2>3 DEF FollowUp, FlagInv
<1>2. CacheInv(entries') /\ DOMAIN entries' = Keys
  BY <1>1, SettleKeeps DEF ChangeAnswered
<1>3. FormInv(form')
  BY DEF ChangeAnswered, FlagInv, FormInv, FormOf, ChangeInv
<1> QED BY <1>2, <1>3 DEF ChangeAnswered, FlagInv, ChangeInv

(* The add-cluster page knows nothing of the settings but the cache.       *)
LEMMA PageStepFlag ==
  ASSUME FlagInv, FormStep
  PROVE  FlagInv'
<1>1. CASE CreateClusterButton \/ FormCancelled
  <2>1. \E s : ShowPage(s)
    BY <1>1 DEF CreateClusterButton, FormCancelled
  <2> QED BY <1>1, <2>1, PageFlag DEF CreateClusterButton, FormCancelled, FlagInv
<1>2. CASE FormReloaded
  <2>1. LoadPage("clusters") /\ server' = server /\ form' = form
    BY <1>2 DEF FormReloaded
  <2> QED BY <2>1, PageFlag DEF FlagInv, LoadPage, ChangeInv
<1>3. CASE FormStoresSecret \/ FormRefused
  <2>1. \E tags : Settle(entries, tags, ShownKeys, change # NoChange)
    BY <1>3 DEF FormStoresSecret, FormRefused
  <2>2. CacheInv(entries') /\ DOMAIN entries' = Keys
    BY <2>1, SettleKeeps DEF FlagInv
  <2> QED BY <1>3, <2>2 DEF FormStoresSecret, FormRefused, FlagInv
<1>4. CASE FormCreatesCluster
  <2> DEFINE keys == KeysOf("clusters", project)
  <2>1. Settle(Subscribed(entries, keys \ ShownKeys), waiting \cup TagsOfNewCluster, keys,
               change # NoChange)
    BY <1>4 DEF FormCreatesCluster
  <2>2. CacheInv(entries') /\ DOMAIN entries' = Keys
    BY <2>1, SubscribedKeeps, SettleKeeps DEF FlagInv
  <2>3. "proxy" \in DOMAIN server' /\ server'.proxy = server.proxy
    BY <1>4 DEF FormCreatesCluster, Deployed, FlagInv
  <2> QED BY <1>4, <2>2, <2>3 DEF FormCreatesCluster, FlagInv
<1>5. CASE FormWorks /\ UNCHANGED consoleVars
  BY <1>5 DEF consoleVars, FlagInv
<1> QED BY <1>1, <1>2, <1>3, <1>4, <1>5 DEF FormStep

(* Every step of the console keeps the flag out of the setting.            *)
LEMMA FlagStep == FlagInv /\ [Next]_vars => FlagInv'
<1> SUFFICES ASSUME FlagInv, [Next]_vars
             PROVE  FlagInv'
  OBVIOUS
<1>1. CASE Login \/ LogoutButton \/ Sidebar
  <2>1. \E s : ShowPage(s)
    BY <1>1 DEF Login, LogoutButton, Sidebar
  <2>2. FormInv(form')
    <3>1. FormInv(FromStorage)
      BY DEF FormInv, FromStorage, FormOf
    <3>2. \A s : s = "settings" =>
            FormInv(Loaded(FromStorage, entries[Page(s)].rows))
      BY <3>1, LoadedKeepsFlag DEF FlagInv, CacheInv, SettingsKey
    <3> QED BY <1>1, <3>2 DEF Login, LogoutButton, Sidebar, FlagInv
  <2>3. CacheInv(entries') /\ DOMAIN entries' = Keys
    BY <2>1, PageFlag
  <2> QED BY <1>1, <2>2, <2>3 DEF Login, LogoutButton, Sidebar, FlagInv
<1>2. CASE OpenOverview
  <2>1. LoadPage("overview") /\ server' = server /\ form' = form
    BY <1>2 DEF OpenOverview
  <2> QED BY <2>1, PageFlag DEF FlagInv, LoadPage, ChangeInv
<1>3. CASE ProjectPicked
  <2>1. \E keys : entries' = Subscribed(entries, keys)
    BY <1>3 DEF ProjectPicked
  <2>2. CacheInv(entries') /\ DOMAIN entries' = Keys
    BY <2>1, SubscribedKeeps DEF FlagInv
  <2> QED BY <1>3, <2>2 DEF ProjectPicked, FlagInv
<1>4. CASE TableStep
  BY <1>4, ListsFlag, ButtonsFlag, SettingsFlag, ServiceFlag, AnswerFlag DEF TableStep
<1>5. CASE FormStep
  BY <1>5, PageStepFlag
<1>6. CASE UNCHANGED vars
  BY <1>6 DEF vars, consoleVars, FlagInv
<1> QED BY <1>1, <1>2, <1>3, <1>4, <1>5, <1>6 DEF Next

(* Only the sidebar opens the settings: a button of another page, and an   *)
(* answer, leave the screen or go to a page of their own.                  *)
LEMMA SettingsOpened ==
  ASSUME [Next]_vars, screen # "settings", screen' = "settings"
  PROVE  Sidebar
<1>1. ~Login /\ ~LogoutButton
  BY DEF Login, LogoutButton, ShowPage
<1>2. ~OpenOverview /\ ~ProjectPicked
  BY DEF OpenOverview, LoadPage, ProjectPicked
<1>3. ~TableStep
  BY DEF TableStep, Poll, ServiceReads, RowsArrive, ListFails, ClusterTableRemoveButton,
         ClustersOverviewTableRowActions, ClustersOverviewTableButtons,
         ProjectsTableRowActions, EnvironmentsTableRowActions, SettingsTableRowActions,
         SettingsAddEntity, SettingsAddSecret, Requested, SettingsEdited, SaveSettings,
         ServiceChanges, ChangeAnswered, OthersChange
<1>4. ~FormStep
  BY DEF FormStep, CreateClusterButton, FormCancelled, ShowPage, FormReloaded, LoadPage,
         FormStoresSecret, FormCreatesCluster, FormRefused, consoleVars
<1>5. ~UNCHANGED vars
  BY DEF vars, consoleVars
<1> QED BY <1>1, <1>2, <1>3, <1>4, <1>5 DEF Next

(* The settings form reads the flag from localStorage when it is opened,   *)
(* and no setting that the service has or ever had, late or not, brings    *)
(* another one: the switch shows the mode of the add-cluster page.         *)
THEOREM SwitchIsMode == Spec => SwitchShowsMode
<1> DEFINE A == \/ screen # "settings" /\ screen' = "settings"
                \/ screen = "settings" /\ form.now.expert = expert /\ RowsArrive(Page("settings"))
                => form'.now.expert = expert'
<1>1. FlagInv /\ [Next]_vars => [A]_vars
  <2> SUFFICES ASSUME FlagInv, [Next]_vars PROVE A
    OBVIOUS
  <2>1. CASE screen # "settings" /\ screen' = "settings"
    <3>1. Sidebar
      BY <2>1, SettingsOpened
    <3>2. form' = Loaded(FromStorage, entries[SettingsKey].rows) /\ expert' = expert
      BY <2>1, <3>1 DEF Sidebar, ShowPage, SettingsKey, formVars
    <3>3. FormInv(FromStorage) /\ FromStorage.now.expert = expert
      BY DEF FormInv, FromStorage, FormOf
    <3> QED BY <3>2, <3>3, LoadedKeepsFlag DEF FlagInv, CacheInv
  <2>2. CASE screen = "settings" /\ form.now.expert = expert /\ RowsArrive(SettingsKey)
    <3> DEFINE rows == entries[SettingsKey].request.rows
    <3>1. /\ form' = Loaded(form, rows) \/ form' = form
          /\ expert' = expert
      BY <2>2 DEF RowsArrive, formVars, SettingsKey
    <3>2. WithoutFlag(rows)
      BY <2>2 DEF RowsArrive, Pending, FlagInv, CacheInv
    <3> HIDE DEF rows
    <3> QED BY <2>2, <3>1, <3>2, LoadedKeepsFlag DEF FlagInv
  <2> QED BY <2>1, <2>2 DEF SettingsKey
<1>2. Spec => []FlagInv
  BY FlagInit, FlagStep, PTL DEF Spec
<1>3. Spec => [][A]_vars
  BY <1>1, <1>2, PTL DEF Spec
<1> QED BY <1>3 DEF SwitchShowsMode

-----------------------------------------------------------------------------
(***************************************************************************)
(* Own changes are shown.                                                  *)
(***************************************************************************)

(* The list a table or the header is a view of; the overview has no tag    *)
(* for its servers, and the setting is no list.                            *)
ListOf(k) == IF k.list = "header" THEN "projects" ELSE k.list
OwnKeys == {k \in Keys : k.list # "settings" /\ k # Overview}

(* An invalidation of the list waits, or a change of it has been sent.     *)
Outdated(k) == AllOf(ListOf(k)) \in waiting \cup Tags(change)

(* An entry, and the answer that is on its way to it, agree with what the  *)
(* service has on the rows that are this console's own.                    *)
Agrees(entry, has, mine) ==
  /\ entry.request = NoRequest /\ entry.rows # None =>
       entry.rows \cap mine = has \cap mine
  /\ entry.request.at = "browser" => entry.request.rows \cap mine = has \cap mine

CacheShape(e) == DOMAIN e = Keys /\ \A k \in Keys : {"rows", "request"} \subseteq DOMAIN e[k]

ServerFields == {"clusters", "deleted", "hosts", "projects", "environments"}

Shapes ==
  /\ ServerFields \subseteq DOMAIN server /\ Lists \subseteq DOMAIN own
  /\ {"kind", "list", "id"} \subseteq DOMAIN change
  /\ change.kind = "refresh" => change.list = "clusters"
  /\ CacheShape(entries)

(* Unless a request has failed, an entry agrees or is about to go.         *)
OwnInv ==
  /\ Shapes
  /\ "failures" \notin tour =>
       \A k \in OwnKeys : Outdated(k) \/ Agrees(entries[k], RowsOf(k), own[ListOf(k)])

OwnLists == {"clusters", "projects", "environments", "secrets"}

(* The lists that are followed.                                            *)
LEMMA OwnKeyLists ==
  ASSUME NEW k \in OwnKeys
  PROVE  /\ k \in Keys /\ k # Overview /\ ListOf(k) \in OwnLists /\ ListOf(k) \in Lists
         /\ k.list \in OwnLists \cup {"header"} /\ k.list # "overview"
         /\ k.list # "header" => ListOf(k) = k.list
  BY DEF OwnKeys, Keys, PolledKeys, Clusters, Secrets, Header, Page, Overview, Key, ListOf,
         OwnLists, Lists

(* A request that has not been read, and an entry that is empty, agree.    *)
LEMMA AskedAgrees ==
  ASSUME NEW has, NEW mine
  PROVE  /\ Agrees(Empty, has, mine)
         /\ \A entry : {"rows", "request"} \subseteq DOMAIN entry =>
              Agrees([entry EXCEPT !.request = Ask], has, mine)
<1>1. Ask # NoRequest /\ Ask.at # "browser" /\ NoRequest.at # "browser"
  BY DEF Ask, NoRequest
<1> QED BY <1>1 DEF Agrees, Empty

(* Asking for entries takes nothing away from those that agree.            *)
LEMMA SubscribedAgrees ==
  ASSUME NEW e, CacheShape(e), NEW keys
  PROVE  /\ CacheShape(Subscribed(e, keys))
         /\ \A k \in Keys : \A has, mine :
              Agrees(e[k], has, mine) => Agrees(Subscribed(e, keys)[k], has, mine)
<1>1. ASSUME NEW k \in Keys
      PROVE  Subscribed(e, keys)[k] \in {e[k], [e[k] EXCEPT !.request = Ask]}
  BY DEF Subscribed
<1>2. DOMAIN Subscribed(e, keys) = Keys
  BY DEF Subscribed
<1>3. \A k \in Keys : {"rows", "request"} \subseteq DOMAIN Subscribed(e, keys)[k]
  BY <1>1 DEF CacheShape
<1>4. ASSUME NEW k \in Keys, NEW has, NEW mine, Agrees(e[k], has, mine)
      PROVE  Agrees(Subscribed(e, keys)[k], has, mine)
  <2>1. Agrees([e[k] EXCEPT !.request = Ask], has, mine)
    BY AskedAgrees DEF CacheShape
  <2> QED BY <1>1, <1>4, <2>1
<1> QED BY <1>2, <1>3, <1>4 DEF CacheShape

(* An empty cache. *)
LEMMA EmptyAgrees ==
  /\ CacheShape([k \in Keys |-> Empty])
  /\ \A k \in Keys : \A has, mine : Agrees([c \in Keys |-> Empty][k], has, mine)
  BY AskedAgrees DEF CacheShape, Empty

(* What an invalidation leaves of the lists of its tags agrees.            *)
LEMMA InvalidatedAgrees ==
  ASSUME NEW e, CacheShape(e), NEW tags, NEW keys
  PROVE  /\ CacheShape(Invalidated(e, tags, keys))
         /\ \A k \in OwnKeys : \A has, mine :
              AllOf(ListOf(k)) \in tags \/ Agrees(e[k], has, mine) =>
                Agrees(Invalidated(e, tags, keys)[k], has, mine)
<1> DEFINE after == Invalidated(e, tags, keys)
<1>1. ASSUME NEW k \in Keys
      PROVE  after[k] \in {e[k], [e[k] EXCEPT !.request = Ask], Empty}
  BY DEF Invalidated
<1>2. DOMAIN after = Keys
  BY DEF Invalidated
<1>3. \A k \in Keys : {"rows", "request"} \subseteq DOMAIN after[k]
  BY <1>1 DEF CacheShape, Empty
<1>4. ASSUME NEW k \in OwnKeys, AllOf(ListOf(k)) \in tags
      PROVE  after[k] \in {[e[k] EXCEPT !.request = Ask], Empty}
  <2>1. k \in Keys
    BY OwnKeyLists
  <2>2. Provides(e, k, AllOf(ListOf(k)))
    BY OwnKeyLists DEF Provides, ListOf, AllOf, Tag
  <2> QED BY <1>4, <2>1, <2>2 DEF Invalidated
<1> HIDE DEF after
<1>5. ASSUME NEW k \in OwnKeys, NEW has, NEW mine,
             AllOf(ListOf(k)) \in tags \/ Agrees(e[k], has, mine)
      PROVE  Agrees(after[k], has, mine)
  <2>1. k \in Keys /\ {"rows", "request"} \subseteq DOMAIN e[k]
    BY OwnKeyLists DEF CacheShape
  <2>2. Agrees([e[k] EXCEPT !.request = Ask], has, mine) /\ Agrees(Empty, has, mine)
    BY <2>1, AskedAgrees
  <2> QED BY <1>1, <1>4, <1>5, <2>1, <2>2
<1>6. CacheShape(after)
  BY <1>2, <1>3 DEF CacheShape
<1> QED BY <1>5, <1>6 DEF after

(* An invalidation is done, or waits.                                      *)
LEMMA SettleAgrees ==
  ASSUME NEW e, CacheShape(e), NEW tags, NEW keys, NEW busy, Settle(e, tags, keys, busy)
  PROVE  /\ CacheShape(entries')
         /\ \A k \in OwnKeys : \A has, mine :
              AllOf(ListOf(k)) \in tags \/ Agrees(e[k], has, mine) =>
                AllOf(ListOf(k)) \in waiting' \/ Agrees(entries'[k], has, mine)
<1>1. CASE entries' = e /\ waiting' = tags
  BY <1>1
<1>2. CASE entries' = Invalidated(e, tags, keys)
  BY <1>2, InvalidatedAgrees
<1> QED BY <1>1, <1>2 DEF Settle

(* What the service has for an entry follows from the fields of its list.  *)
LEMMA RowsFollow ==
  ASSUME NEW k \in OwnKeys,
         ListOf(k) = "clusters" => /\ server'.clusters = server.clusters
                                   /\ server'.deleted = server.deleted,
         ListOf(k) = "projects" => server'.projects = server.projects,
         ListOf(k) = "environments" => server'.environments = server.environments,
         ListOf(k) = "secrets" => stored' = stored
  PROVE  RowsOf(k)' = RowsOf(k)
<1>1. CASE k.list = "clusters"
  BY <1>1 DEF RowsOf, ListOf
<1>2. CASE k.list \in {"header", "projects"}
  BY <1>2 DEF RowsOf, ListOf
<1>3. CASE k.list = "environments"
  BY <1>3 DEF RowsOf, ListOf
<1>4. CASE k.list = "secrets"
  BY <1>4 DEF RowsOf, ListOf
<1> QED BY <1>1, <1>2, <1>3, <1>4, OwnKeyLists DEF OwnLists

(* A step that changes neither the service nor what is known to be own,    *)
(* and forgets no invalidation.                                            *)
LEMMA CacheOnly ==
  ASSUME OwnInv, CacheShape(entries'), UNCHANGED <<tour, stored, server, change, own>>,
         "failures" \notin tour =>
           \A k \in OwnKeys : \A has, mine :
             AllOf(ListOf(k)) \in waiting \/ Agrees(entries[k], has, mine) =>
               AllOf(ListOf(k)) \in waiting' \/ Agrees(entries'[k], has, mine)
  PROVE  OwnInv'
<1>1. Shapes'
  BY DEF OwnInv, Shapes
<1>2. \A k \in OwnKeys : RowsOf(k)' = RowsOf(k)
  BY RowsFollow
<1>3. ASSUME "failures" \notin tour, NEW k \in OwnKeys
      PROVE  (Outdated(k) \/ Agrees(entries[k], RowsOf(k), own[ListOf(k)]))'
  <2>1. CASE AllOf(ListOf(k)) \in Tags(change)
    BY <2>1 DEF Outdated
  <2>2. CASE AllOf(ListOf(k)) \notin Tags(change)
    <3>1. AllOf(ListOf(k)) \in waiting \/ Agrees(entries[k], RowsOf(k), own[ListOf(k)])
      BY <1>3, <2>2 DEF OwnInv, Outdated
    <3>2. AllOf(ListOf(k)) \in waiting'
          \/ Agrees(entries'[k], RowsOf(k), own[ListOf(k)])
      BY <1>3, <3>1
    <3> QED BY <1>2, <3>2 DEF Outdated
  <2> QED BY <2>1, <2>2
<1> QED BY <1>1, <1>3 DEF OwnInv

(* Nothing is own at first, and the cache is empty.                        *)
LEMMA OwnInit == ConsoleInit => OwnInv
<1> SUFFICES ASSUME ConsoleInit PROVE OwnInv
  OBVIOUS
<1>1. /\ CacheShape(entries)
      /\ \A k \in Keys : \A has, mine : Agrees(entries[k], has, mine)
  BY EmptyAgrees, SubscribedAgrees DEF ConsoleInit
<1>2. Shapes
  BY <1>1 DEF ConsoleInit, Shapes, ServerFields, NoChange
<1> QED BY <1>1, <1>2, OwnKeyLists DEF OwnInv

(* Requests for lists and their answers.                                   *)
LEMMA ListsOwn ==
  ASSUME OwnInv, \/ Poll
                 \/ \E k \in Keys : ServiceReads(k) \/ RowsArrive(k) \/ ListFails(k)
  PROVE  OwnInv'
<1>1. UNCHANGED <<tour, stored, server, change, own>>
  BY DEF Poll, ServiceReads, RowsArrive, ListFails, formVars
<1>2. CacheShape(entries)
  BY DEF OwnInv, Shapes
<1>3. CASE Poll
  <2>1. PICK k \in ShownKeys : entries' = Answered(k, entries[k].rows, Ask)
    BY <1>3 DEF Poll
  <2>2. \A c \in Keys : entries'[c] \in {entries[c], [rows |-> entries[c].rows, request |-> Ask]}
    BY <1>2, <2>1 DEF Answered, CacheShape
  <2>3. CacheShape(entries')
    BY <1>2, <2>1, <2>2 DEF Answered, CacheShape
  <2>4. \A c \in OwnKeys : \A has, mine : Agrees(entries[c], has, mine) =>
                                        Agrees(entries'[c], has, mine)
    <3>1. Ask # NoRequest /\ Ask.at # "browser"
      BY DEF Ask, NoRequest
    <3>2. \A rows, has, mine : Agrees([rows |-> rows, request |-> Ask], has, mine)
      BY <3>1 DEF Agrees
    <3> QED BY <2>2, <3>2, OwnKeyLists
  <2>5. waiting' = waiting
    BY <1>3 DEF Poll
  <2> QED BY <1>1, <2>3, <2>4, <2>5, CacheOnly
<1>4. ASSUME NEW k \in Keys, ServiceReads(k) PROVE OwnInv'
  <2> DEFINE request == [at |-> "browser", rows |-> RowsOf(k)]
  <2>1. entries' = Answered(k, entries[k].rows, request) /\ waiting' = waiting
    BY <1>4 DEF ServiceReads
  <2>2. /\ entries'[k] = [rows |-> entries[k].rows, request |-> request]
        /\ \A c \in Keys : c # k => entries'[c] = entries[c]
        /\ CacheShape(entries')
    BY <1>2, <2>1 DEF Answered, CacheShape
  <2>3. \A mine : Agrees(entries'[k], RowsOf(k), mine)
    BY <2>2 DEF Agrees, NoRequest
  <2>4. ASSUME "failures" \notin tour, NEW c \in OwnKeys
        PROVE  (Outdated(c) \/ Agrees(entries[c], RowsOf(c), own[ListOf(c)]))'
    <3>1. RowsOf(c)' = RowsOf(c) /\ Outdated(c)' = Outdated(c) /\ own' = own
      BY <1>1, <2>1, RowsFollow DEF Outdated
    <3>2. c \in Keys
      BY OwnKeyLists
    <3>3. Outdated(c) \/ Agrees(entries'[c], RowsOf(c), own[ListOf(c)])
      BY <2>2, <2>3, <2>4, <3>2 DEF OwnInv
    <3> QED BY <3>1, <3>3
  <2>5. Shapes'
    BY <1>1, <2>2 DEF OwnInv, Shapes
  <2> QED BY <1>1, <2>4, <2>5 DEF OwnInv
<1>5. ASSUME NEW k \in Keys, RowsArrive(k) PROVE OwnInv'
  <2> DEFINE rows == entries[k].request.rows
             e == Answered(k, rows, NoRequest)
  <2>1. Settle(e, waiting, ShownKeys, Busy)
    BY <1>5 DEF RowsArrive
  <2>2. /\ e[k] = [rows |-> rows, request |-> NoRequest]
        /\ \A c \in Keys : c # k => e[c] = entries[c]
        /\ CacheShape(e)
    BY <1>2 DEF Answered, CacheShape
  <2>3. \A has, mine : Agrees(entries[k], has, mine) => Agrees(e[k], has, mine)
    <3>1. entries[k].request.at = "browser" /\ NoRequest.at # "browser"
      BY <1>5 DEF RowsArrive, Pending, NoRequest
    <3> QED BY <2>2, <3>1 DEF Agrees
  <2> HIDE DEF e
  <2>4. \A c \in OwnKeys : \A has, mine : Agrees(entries[c], has, mine) => Agrees(e[c], has, mine)
    BY <2>2, <2>3, OwnKeyLists
  <2>5. /\ CacheShape(entries')
        /\ \A c \in OwnKeys : \A has, mine :
             AllOf(ListOf(c)) \in waiting \/ Agrees(e[c], has, mine) =>
               AllOf(ListOf(c)) \in waiting' \/ Agrees(entries'[c], has, mine)
    BY <2>1, <2>2, SettleAgrees
  <2> QED BY <1>1, <2>4, <2>5, CacheOnly
<1>6. ASSUME NEW k \in Keys, ListFails(k) PROVE OwnInv'
  <2> DEFINE e == Answered(k, entries[k].rows, NoRequest)
  <2>1. Settle(e, waiting, ShownKeys, Busy) /\ "failures" \in tour
    BY <1>6 DEF ListFails
  <2>2. CacheShape(e)
    BY <1>2 DEF Answered, CacheShape
  <2> HIDE DEF e
  <2>3. CacheShape(entries')
    BY <2>1, <2>2, SettleAgrees
  <2> QED BY <1>1, <2>1, <2>3, CacheOnly
<1> QED BY <1>3, <1>4, <1>5, <1>6

(* A button only sends a request: what waits to be invalidated still does. *)
LEMMA ButtonsOwn ==
  ASSUME OwnInv,
         \/ ClusterTableRemoveButton \/ ClustersOverviewTableRowActions
         \/ ClustersOverviewTableButtons \/ ProjectsTableRowActions
         \/ EnvironmentsTableRowActions \/ SettingsTableRowActions
         \/ SettingsAddEntity \/ SettingsAddSecret \/ SaveSettings
  PROVE  OwnInv'
<1>1. /\ UNCHANGED <<tour, stored, server, entries, waiting, own>>
      /\ change = NoChange /\ {"kind", "list", "id"} \subseteq DOMAIN change'
      /\ change'.kind = "refresh" => change'.list = "clusters"
  <2>1. CASE SaveSettings
    BY <2>1 DEF SaveSettings, pageVars, NoChange
  <2>2. CASE ~SaveSettings
    <3>1. \E kind, list, id : /\ Requested(kind, list, id)
                              /\ kind = "refresh" => list = "clusters"
      BY <2>2 DEF ClusterTableRemoveButton, ClustersOverviewTableRowActions,
         ClustersOverviewTableButtons, ProjectsTableRowActions, EnvironmentsTableRowActions,
         SettingsTableRowActions, SettingsAddEntity, SettingsAddSecret
    <3> QED BY <3>1 DEF Requested, formVars
  <2> QED BY <2>1, <2>2
<1>2. ASSUME NEW k \in OwnKeys
      PROVE  /\ RowsOf(k)' = RowsOf(k)
             /\ Outdated(k) => Outdated(k)'
  <2>1. AllOf(ListOf(k)) \notin Tags(NoChange)
    BY OwnKeyLists DEF Tags, NoChange, AllOf, Tag, OwnLists
  <2> QED BY <1>1, <2>1, RowsFollow DEF Outdated
<1>3. Shapes'
  BY <1>1 DEF OwnInv, Shapes
<1> QED BY <1>1, <1>2, <1>3 DEF OwnInv

(* The service carries a change out: its list is to be invalidated when    *)
(* the answer comes.                                                       *)
LEMMA ServiceOwn ==
  ASSUME OwnInv, FlagInv, ServiceChanges
  PROVE  OwnInv'
<1>1. UNCHANGED <<tour, entries, waiting, own>>
  BY DEF ServiceChanges, pageVars
<1>2. /\ {"kind", "list", "id"} \subseteq DOMAIN change'
      /\ change'.kind = change.kind /\ change'.list = change.list
      /\ Tags(change') = Tags(change)
  <2>1. \/ change' = [change EXCEPT !.done = FALSE]
        \/ change' = [change EXCEPT !.done = TRUE, !.id = IdOf(change)]
    BY DEF ServiceChanges
  <2>2. {"kind", "list", "id"} \subseteq DOMAIN change
    BY DEF OwnInv, Shapes
  <2>3. change'.kind = change.kind /\ change'.list = change.list
    BY <2>1, <2>2
  <2>4. change.kind = "refresh" => change'.id = change.id
    BY <2>1, <2>2 DEF IdOf
  <2>5. {"kind", "list", "id"} \subseteq DOMAIN change'
    BY <2>1, <2>2
  <2> QED BY <2>3, <2>4, <2>5 DEF Tags
<1>3. change.list \in Lists \cup {"settings"}
  BY DEF ServiceChanges, FlagInv, ChangeInv
<1>4. ServerFields \subseteq DOMAIN server
  BY DEF OwnInv, Shapes
<1>5. \/ UNCHANGED <<server, stored>>
      \/ change.list = "secrets" /\ server' = server
      \/ server' = Carried(change) /\ stored' = stored
  BY DEF ServiceChanges
<1>6. ServerFields \subseteq DOMAIN Carried(change)
  BY <1>4 DEF Carried
<1>7. ASSUME NEW k \in OwnKeys, AllOf(ListOf(k)) \notin Tags(change)
      PROVE  RowsOf(k)' = RowsOf(k)
  <2>1. /\ change.kind # "refresh" => ListOf(k) # change.list
        /\ change.list = "secrets" => ListOf(k) # "secrets"
    BY <1>7, OwnKeyLists DEF Tags, OwnLists, OwnInv, Shapes
  <2>2. CASE UNCHANGED <<server, stored>>
    BY <2>2, RowsFollow
  <2>3. CASE change.list = "secrets" /\ server' = server
    <3>1. ListOf(k) # "secrets"
      BY <2>1, <2>3
    <3>2. /\ server'.clusters = server.clusters /\ server'.deleted = server.deleted
          /\ server'.projects = server.projects
          /\ server'.environments = server.environments
      BY <2>3
    <3> QED BY <3>1, <3>2, RowsFollow
  <2>4. CASE server' = Carried(change) /\ stored' = stored
    <3>1. CASE change.kind = "refresh"
      <4>1. server' = server /\ stored' = stored
        BY <2>4, <3>1 DEF Carried, OwnInv, Shapes
      <4> QED BY <4>1, RowsFollow
    <3>2. CASE change.kind # "refresh"
      <4>1. /\ ListOf(k) = "clusters" => /\ server'.clusters = server.clusters
                                         /\ server'.deleted = server.deleted
            /\ ListOf(k) = "projects" => server'.projects = server.projects
            /\ ListOf(k) = "environments" => server'.environments = server.environments
        BY <1>3, <1>4, <2>1, <2>4, <3>2 DEF Carried, ServerFields, Lists
      <4> QED BY <2>4, <4>1, RowsFollow
    <3> QED BY <3>1, <3>2
  <2> QED BY <1>5, <2>2, <2>3, <2>4
<1>8. Shapes'
  BY <1>1, <1>2, <1>4, <1>5, <1>6 DEF OwnInv, Shapes
<1>9. ASSUME "failures" \notin tour, NEW k \in OwnKeys
      PROVE  (Outdated(k) \/ Agrees(entries[k], RowsOf(k), own[ListOf(k)]))'
  BY <1>1, <1>2, <1>7, <1>9 DEF OwnInv, Outdated
<1> QED BY <1>1, <1>8, <1>9 DEF OwnInv

(* The answer: what is known to be own changes for the list that is        *)
(* invalidated.                                                            *)
LEMMA AnswerOwn ==
  ASSUME OwnInv, FlagInv, ChangeAnswered
  PROVE  OwnInv'
<1> DEFINE e == FollowUp(change)
           tags == waiting \cup Tags(change)
<1>1. /\ UNCHANGED <<tour, stored, server>> /\ change' = NoChange /\ own' = Told(change)
      /\ Settle(e, tags, ShownKeys, flight # None)
  BY DEF ChangeAnswered, pageVars
<1>2. CacheShape(e) /\ \A k \in OwnKeys : e[k] = entries[k]
  BY OwnKeyLists DEF FollowUp, Answered, OwnInv, Shapes, CacheShape
<1>3. Lists \subseteq DOMAIN own
  BY DEF OwnInv, Shapes
<1>4. Lists \subseteq DOMAIN own'
  BY <1>1, <1>3 DEF Told
<1> HIDE DEF e
<1>5. /\ CacheShape(entries')
      /\ \A k \in OwnKeys : \A has, mine :
           AllOf(ListOf(k)) \in tags \/ Agrees(e[k], has, mine) =>
             AllOf(ListOf(k)) \in waiting' \/ Agrees(entries'[k], has, mine)
  BY <1>1, <1>2, SettleAgrees
<1>6. ASSUME NEW k \in OwnKeys, AllOf(ListOf(k)) \notin tags
      PROVE  own'[ListOf(k)] = own[ListOf(k)]
  <2>1. change.kind # "refresh" => change.list # ListOf(k)
    BY <1>6, OwnKeyLists DEF Tags, OwnLists
  <2> QED BY <1>1, <1>3, <2>1, OwnKeyLists DEF Told
<1>7. ASSUME "failures" \notin tour, NEW k \in OwnKeys
      PROVE  (Outdated(k) \/ Agrees(entries[k], RowsOf(k), own[ListOf(k)]))'
  <2>1. AllOf(ListOf(k)) \in tags \/ Agrees(e[k], RowsOf(k), own'[ListOf(k)])
    BY <1>2, <1>6, <1>7 DEF OwnInv, Outdated
  <2>2. RowsOf(k)' = RowsOf(k)
    BY <1>1, RowsFollow
  <2> QED BY <1>5, <2>1, <2>2 DEF Outdated
<1>8. Shapes'
  BY <1>1, <1>4, <1>5 DEF OwnInv, Shapes, NoChange
<1> QED BY <1>1, <1>7, <1>8 DEF OwnInv

(* Another console removes a row: it is own no more.                       *)
LEMMA OthersOwn ==
  ASSUME OwnInv, OthersChange
  PROVE  OwnInv'
<1>1. UNCHANGED <<tour, stored, entries, waiting, change>>
  BY DEF OthersChange, formVars
<1>2. ServerFields \subseteq DOMAIN server /\ Lists \subseteq DOMAIN own
  BY DEF OwnInv, Shapes
<1>3. Shapes'
  <2>1. ServerFields \subseteq DOMAIN server' /\ Lists \subseteq DOMAIN own'
    BY <1>2 DEF OthersChange
  <2> QED BY <1>1, <2>1 DEF OwnInv, Shapes
<1>4. CASE \E h : /\ server' = [server EXCEPT !.hosts = server.hosts \ {h}]
                  /\ own' = own
  <2>1. /\ server'.clusters = server.clusters /\ server'.deleted = server.deleted
        /\ server'.projects = server.projects
        /\ server'.environments = server.environments
    BY <1>2, <1>4 DEF ServerFields
  <2>2. \A k \in OwnKeys : RowsOf(k)' = RowsOf(k) /\ Outdated(k)' = Outdated(k)
    BY <1>1, <2>1, RowsFollow DEF Outdated
  <2> QED BY <1>1, <1>3, <1>4, <2>2 DEF OwnInv
<1>5. ASSUME NEW c, server' = [server EXCEPT !.deleted = server.deleted \cup {c}],
             own' = [own EXCEPT !["clusters"] = own["clusters"] \ {c}]
      PROVE  OwnInv'
  <2>1. /\ server'.clusters = server.clusters
        /\ server'.deleted = server.deleted \cup {c}
        /\ server'.projects = server.projects
        /\ server'.environments = server.environments
    BY <1>2, <1>5 DEF ServerFields
  <2>2. ASSUME NEW k \in OwnKeys, k.list = "clusters"
        PROVE  /\ RowsOf(k)' = RowsOf(k) \ {c}
               /\ own'[ListOf(k)] = own[ListOf(k)] \ {c}
    <3>1. RowsOf(k)' = RowsOf(k) \ {c}
      BY <2>1, <2>2 DEF RowsOf
    <3> QED BY <1>2, <1>5, <2>2, <3>1, OwnKeyLists DEF Lists
  <2>3. ASSUME NEW k \in OwnKeys, k.list # "clusters"
        PROVE  RowsOf(k)' = RowsOf(k) /\ own'[ListOf(k)] = own[ListOf(k)]
    <3>1. ListOf(k) # "clusters"
      BY <2>3 DEF ListOf
    <3> QED BY <1>1, <1>2, <1>5, <2>1, <3>1, RowsFollow, OwnKeyLists
  <2>4. \A entry, has, mine :
          Agrees(entry, has, mine) => Agrees(entry, has \ {c}, mine \ {c})
    BY DEF Agrees
  <2>5. ASSUME "failures" \notin tour, NEW k \in OwnKeys
        PROVE  (Outdated(k) \/ Agrees(entries[k], RowsOf(k), own[ListOf(k)]))'
    BY <1>1, <2>2, <2>3, <2>4, <2>5 DEF OwnInv, Outdated
  <2> QED BY <1>1, <1>3, <2>5 DEF OwnInv
<1> QED BY <1>4, <1>5 DEF OthersChange

(* Going to a page, loading it, and asking for another project.            *)
LEMMA ScreenOwn ==
  ASSUME OwnInv, Login \/ LogoutButton \/ Sidebar \/ OpenOverview \/ ProjectPicked
  PROVE  OwnInv'
<1>1. UNCHANGED <<tour, stored, server, change, own>>
  BY DEF Login, LogoutButton, Sidebar, OpenOverview, ProjectPicked, LoadPage, formVars,
         pageVars
<1>2. CASE ~OpenOverview
  <2>1. (\E keys : entries' = Subscribed(entries, keys)) /\ waiting' = waiting
    BY <1>2 DEF Login, LogoutButton, Sidebar, ProjectPicked, ShowPage
  <2>2. /\ CacheShape(entries')
        /\ \A k \in Keys : \A has, mine :
             Agrees(entries[k], has, mine) => Agrees(entries'[k], has, mine)
    BY <2>1, SubscribedAgrees DEF OwnInv, Shapes
  <2> QED BY <1>1, <2>1, <2>2, OwnKeyLists, CacheOnly
<1>3. CASE OpenOverview
  <2>1. \E keys : entries' = Subscribed([k \in Keys |-> Empty], keys)
    BY <1>3 DEF OpenOverview, LoadPage
  <2>2. CacheShape(entries') /\ \A k \in Keys : \A has, mine : Agrees(entries'[k], has, mine)
    BY <2>1, EmptyAgrees, SubscribedAgrees
  <2> QED BY <1>1, <2>2, OwnKeyLists, CacheOnly
<1> QED BY <1>2, <1>3

(* What the add-cluster page does with the secrets; the tour stays.        *)
LEMMA FormStores ==
  ASSUME FormStep
  PROVE  /\ tour' = tour /\ project' = project
         /\ FormStoresSecret \/ stored' = stored
         /\ FormWorks => stored' = stored
<1>1. FormWorks => UNCHANGED <<tour, project, stored>>
  <2> SUFFICES ASSUME FormWorks PROVE UNCHANGED <<tour, project, stored>>
    OBVIOUS
  <2>1. CASE FillIn
    BY <2>1, FillInRenders
  <2>2. CASE ~FillIn
    BY <2>2 DEF FormWorks, PageLoaded, SecretsArrive, ToYaml, ToForm, YamlEdited,
                      SubmitForm, SubmitYaml, ClusterSecretModal, ModalEdited, SubmitModal,
                      Rest
  <2> QED BY <2>1, <2>2
<1>2. CASE CreateClusterButton \/ FormCancelled \/ FormReloaded
  BY <1>1, <1>2 DEF CreateClusterButton, FormCancelled, FormReloaded, OpenPage, LeavePage, Reload,
              Rest
<1>3. CASE FormStoresSecret
  <2>1. SecretCreated => UNCHANGED <<tour, project>>
    BY Zenon DEF SecretCreated
  <2>2. SecretRefused => UNCHANGED <<tour, project>>
    BY Zenon DEF SecretRefused
  <2>3. ~FormWorks \/ stored' = stored
    BY <1>1
  <2> QED BY <1>3, <2>1, <2>2, <2>3 DEF FormStoresSecret
<1>4. CASE FormCreatesCluster \/ FormRefused
  BY <1>1, <1>4 DEF FormCreatesCluster, FormRefused, ClusterCreated, ClusterRefused
<1> QED BY <1>1, <1>2, <1>3, <1>4 DEF FormStep

(* The add-cluster page: the secret it stores and the cluster it creates   *)
(* belong to lists that its requests invalidate.                           *)
LEMMA FormOwn ==
  ASSUME OwnInv, FormStep
  PROVE  OwnInv'
<1>1. tour' = tour /\ (FormStoresSecret \/ stored' = stored)
  BY FormStores
<1>2. CacheShape(entries) /\ ServerFields \subseteq DOMAIN server /\ Lists \subseteq DOMAIN own
  BY DEF OwnInv, Shapes
<1>3. CASE CreateClusterButton \/ FormCancelled
  <2>1. (\E keys : entries' = Subscribed(entries, keys)) /\ waiting' = waiting
    BY <1>3 DEF CreateClusterButton, FormCancelled, ShowPage
  <2>2. /\ CacheShape(entries')
        /\ \A k \in Keys : \A has, mine :
             Agrees(entries[k], has, mine) => Agrees(entries'[k], has, mine)
    BY <1>2, <2>1, SubscribedAgrees
  <2>3. UNCHANGED <<tour, stored, server, change, own>>
    BY <1>1, <1>3, Zenon DEF CreateClusterButton, FormCancelled, OpenPage, LeavePage, Rest
  <2> QED BY <2>1, <2>2, <2>3, OwnKeyLists, CacheOnly
<1>4. CASE FormReloaded
  <2>1. \E keys : entries' = Subscribed([k \in Keys |-> Empty], keys)
    BY <1>4 DEF FormReloaded, LoadPage
  <2>2. CacheShape(entries') /\ \A k \in Keys : \A has, mine : Agrees(entries'[k], has, mine)
    BY <2>1, EmptyAgrees, SubscribedAgrees
  <2>3. UNCHANGED <<server, own>> /\ change' = NoChange
    BY <1>4 DEF FormReloaded, LoadPage
  <2> QED BY <1>2, <2>2, <2>3, OwnKeyLists DEF OwnInv, Shapes, NoChange
<1>5. CASE FormStoresSecret \/ FormRefused
  <2> DEFINE tags == waiting \cup (IF FormStoresSecret THEN {AllOf("secrets")}
                                   ELSE TagsOfNewCluster)
  <2>1. UNCHANGED <<server, change, own>> /\ Settle(entries, tags, ShownKeys, change # NoChange)
    BY <1>5 DEF FormStoresSecret, FormRefused
  <2>2. ASSUME NEW k \in OwnKeys, AllOf(ListOf(k)) \notin tags
        PROVE  RowsOf(k)' = RowsOf(k)
    <3>1. FormStoresSecret => ListOf(k) # "secrets"
      BY <2>2
    <3> QED BY <1>1, <2>1, <3>1, RowsFollow
  <2>3. waiting \subseteq tags
    OBVIOUS
  <2> HIDE DEF tags
  <2>4. /\ CacheShape(entries')
        /\ \A k \in OwnKeys : \A has, mine :
             AllOf(ListOf(k)) \in tags \/ Agrees(entries[k], has, mine) =>
               AllOf(ListOf(k)) \in waiting' \/ Agrees(entries'[k], has, mine)
    BY <1>2, <2>1, SettleAgrees
  <2>5. ASSUME "failures" \notin tour, NEW k \in OwnKeys
        PROVE  (Outdated(k) \/ Agrees(entries[k], RowsOf(k), own[ListOf(k)]))'
    <3>1. \/ AllOf(ListOf(k)) \in tags \/ AllOf(ListOf(k)) \in Tags(change)
          \/ Agrees(entries[k], RowsOf(k)', own[ListOf(k)])
      BY <2>2, <2>3, <2>5 DEF OwnInv, Outdated
    <3> QED BY <2>1, <2>4, <3>1 DEF Outdated
  <2>6. Shapes'
    BY <2>1, <2>4 DEF OwnInv, Shapes
  <2> QED BY <1>1, <2>5, <2>6 DEF OwnInv
<1>6. CASE FormCreatesCluster
  <2> DEFINE keys == KeysOf("clusters", project)
             e == Subscribed(entries, keys \ ShownKeys)
             tags == waiting \cup TagsOfNewCluster
             id == 1 + Cardinality(DOMAIN server.clusters)
  <2>1. Settle(e, tags, keys, change # NoChange) /\ change' = change /\ Deployed(id)
    BY <1>6, Zenon DEF FormCreatesCluster
  <2>2. /\ CacheShape(e)
        /\ \A k \in Keys : \A has, mine : Agrees(entries[k], has, mine) => Agrees(e[k], has, mine)
    BY <1>2, SubscribedAgrees
  <2>3. stored' = stored
    BY <1>6, Zenon DEF FormCreatesCluster, ClusterCreated
  <2> HIDE DEF id, e
  <2>4. /\ ServerFields \subseteq DOMAIN server' /\ Lists \subseteq DOMAIN own'
        /\ server'.projects = server.projects
        /\ server'.environments = server.environments
        /\ \A list \in Lists : list # "clusters" => own'[list] = own[list]
    BY <1>2, <2>1 DEF Deployed, ServerFields, Lists
  <2>5. ASSUME NEW k \in OwnKeys, AllOf(ListOf(k)) \notin tags
        PROVE  RowsOf(k)' = RowsOf(k) /\ own'[ListOf(k)] = own[ListOf(k)]
    <3>1. ListOf(k) # "clusters"
      BY <2>5 DEF TagsOfNewCluster
    <3> QED BY <2>3, <2>4, <3>1, RowsFollow, OwnKeyLists
  <2>6. waiting \subseteq tags
    OBVIOUS
  <2> HIDE DEF tags
  <2>7. /\ CacheShape(entries')
        /\ \A k \in OwnKeys : \A has, mine :
             AllOf(ListOf(k)) \in tags \/ Agrees(e[k], has, mine) =>
               AllOf(ListOf(k)) \in waiting' \/ Agrees(entries'[k], has, mine)
    BY <2>1, <2>2, SettleAgrees
  <2>8. ASSUME "failures" \notin tour, NEW k \in OwnKeys
        PROVE  (Outdated(k) \/ Agrees(entries[k], RowsOf(k), own[ListOf(k)]))'
    <3>1. \/ AllOf(ListOf(k)) \in tags \/ AllOf(ListOf(k)) \in Tags(change)
          \/ Agrees(entries[k], RowsOf(k)', own'[ListOf(k)])
      BY <2>5, <2>6, <2>8 DEF OwnInv, Outdated
    <3>2. k \in Keys
      BY OwnKeyLists
    <3> QED BY <2>1, <2>2, <2>7, <3>1, <3>2 DEF Outdated
  <2>9. Shapes'
    BY <2>1, <2>4, <2>7 DEF OwnInv, Shapes
  <2> QED BY <1>1, <2>8, <2>9 DEF OwnInv
<1>7. CASE FormWorks /\ UNCHANGED consoleVars
  <2>1. stored' = stored /\ UNCHANGED <<server, entries, waiting, change, own>>
    BY <1>1, <1>7, FormStores DEF consoleVars
  <2> QED BY <1>1, <1>2, <2>1, CacheOnly
<1> QED BY <1>3, <1>4, <1>5, <1>6, <1>7 DEF FormStep

(* Every step of the console. *)
LEMMA OwnStep == OwnInv /\ FlagInv /\ [Next]_vars => OwnInv'
<1> SUFFICES ASSUME OwnInv, FlagInv, [Next]_vars PROVE OwnInv'
  OBVIOUS
<1>1. CASE \/ SettingsEdited \/ UNCHANGED vars
  <2>1. UNCHANGED <<tour, stored, server, entries, waiting, change, own>>
    BY <1>1 DEF SettingsEdited, vars, formVars, consoleVars
  <2> QED BY <2>1, CacheOnly DEF OwnInv, Shapes
<1>2. CASE TableStep
  BY <1>1, <1>2, ListsOwn, ButtonsOwn, ServiceOwn, AnswerOwn, OthersOwn DEF TableStep
<1> QED BY <1>1, <1>2, ScreenOwn, FormOwn DEF Next

(***************************************************************************)
(* What is on the screen has an entry in the cache.                        *)
(***************************************************************************)

Screens == {"login", "clusters", "overview", "projects", "environments", "secrets",
            "settings", "form"}

(* The header offers the projects there are.                               *)
HeaderRows(entry) ==
  /\ entry.rows # None => entry.rows \subseteq Rows(ProjectOrder)
  /\ entry.request.rows \subseteq Rows(ProjectOrder)

ScreenInv ==
  /\ screen \in Screens /\ project \in Rows(ProjectOrder)
  /\ server.projects \subseteq Rows(ProjectOrder)
  /\ change.list = "projects" /\ change.kind = "add" => change.id \in Rows(ProjectOrder)
  /\ HeaderRows(entries[Header])

(* The header has an entry of its own. *)
LEMMA HeaderInKeys == Header \in Keys /\ \A list : Header # Page(list) \/ list = "header"
  BY DEF Keys, Header, Page, Key

(* Asking for entries, and invalidating them, brings no rows.              *)
LEMMA HeaderAfter ==
  ASSUME NEW e, CacheShape(e), HeaderRows(e[Header]), NEW keys, NEW tags, NEW busy,
         \/ entries' = Subscribed(e, keys)
         \/ Settle(e, tags, keys, busy)
  PROVE  HeaderRows(entries'[Header])
<1>1. entries'[Header] \in {e[Header], [e[Header] EXCEPT !.request = Ask], Empty}
  BY HeaderInKeys DEF Subscribed, Settle, Invalidated
<1>2. HeaderRows(Empty)
  BY DEF HeaderRows, Empty, NoRequest
<1>3. HeaderRows([e[Header] EXCEPT !.request = Ask])
  BY HeaderInKeys DEF HeaderRows, Ask, CacheShape
<1> QED BY <1>1, <1>2, <1>3

(* The first page. *)
LEMMA ScreenInit == ConsoleInit => ScreenInv
<1> SUFFICES ASSUME ConsoleInit PROVE ScreenInv
  OBVIOUS
<1>1. project = "p1"
  BY Zenon DEF ConsoleInit, Init
<1>2. HeaderRows(entries[Header])
  <2>1. entries[Header] \in {[Empty EXCEPT !.request = Ask], Empty}
    BY HeaderInKeys DEF ConsoleInit, Subscribed
  <2> QED BY <2>1 DEF HeaderRows, Empty, NoRequest, Ask
<1> QED BY <1>1, <1>2, ProjectAssumption DEF ConsoleInit, ScreenInv, Screens, NoChange

(* The tables and the service.                                             *)
LEMMA TableScreen ==
  ASSUME ScreenInv, OwnInv, FlagInv, TableStep
  PROVE  ScreenInv'
<1>1. UNCHANGED <<screen, project>>
  BY DEF TableStep, Poll, ServiceReads, RowsArrive, ListFails, ClusterTableRemoveButton,
         ClustersOverviewTableRowActions, ClustersOverviewTableButtons,
         ProjectsTableRowActions, EnvironmentsTableRowActions, SettingsTableRowActions,
         SettingsAddEntity, SettingsAddSecret, Requested, SettingsEdited, SaveSettings,
         ServiceChanges, ChangeAnswered, OthersChange, formVars, pageVars
<1>2. CacheShape(entries) /\ ServerFields \subseteq DOMAIN server
  BY DEF OwnInv, Shapes
<1>3. CASE Poll
  <2>1. PICK k \in ShownKeys : entries' = Answered(k, entries[k].rows, Ask)
    BY <1>3 DEF Poll
  <2>2. HeaderRows(entries'[Header])
    BY <1>2, <2>1, HeaderInKeys DEF Answered, CacheShape, ScreenInv, HeaderRows, Ask
  <2> QED BY <1>1, <1>3, <2>2 DEF Poll, ScreenInv
<1>4. ASSUME NEW k \in Keys, ServiceReads(k) PROVE ScreenInv'
  <2>1. RowsOf(Header) = server.projects
    BY DEF RowsOf, Header, Key
  <2>2. HeaderRows(entries'[Header])
    BY <1>2, <1>4, <2>1, HeaderInKeys
       DEF ServiceReads, Answered, CacheShape, ScreenInv, HeaderRows
  <2> QED BY <1>1, <1>4, <2>2 DEF ServiceReads, ScreenInv
<1>5. ASSUME NEW k \in Keys, RowsArrive(k) \/ ListFails(k) PROVE ScreenInv'
  <2>1. PICK rows : /\ rows \in {entries[k].rows, entries[k].request.rows}
                    /\ Settle(Answered(k, rows, NoRequest), waiting, ShownKeys, Busy)
    BY <1>5 DEF RowsArrive, ListFails
  <2>2. CacheShape(Answered(k, rows, NoRequest))
    BY <1>2 DEF Answered, CacheShape
  <2>3. HeaderRows(Answered(k, rows, NoRequest)[Header])
    BY <1>2, <2>1, HeaderInKeys DEF Answered, CacheShape, ScreenInv, HeaderRows, NoRequest
  <2>4. HeaderRows(entries'[Header])
    BY <2>1, <2>2, <2>3, HeaderAfter
  <2> QED BY <1>1, <1>5, <2>4 DEF RowsArrive, ListFails, ScreenInv
<1>6. CASE \E kind, list, id : Requested(kind, list, id)
                               /\ (list = "projects" /\ kind = "add" => id \in Rows(ProjectOrder))
  BY <1>1, <1>6 DEF Requested, ScreenInv
<1>7. CASE SettingsEdited \/ SaveSettings
  <2>1. change' = change \/ change' = NoChange \/ change'.list = "settings"
    <3>1. SettingsEdited => change' = change
      BY DEF SettingsEdited
    <3>2. SaveSettings => change' = NoChange \/ change'.list = "settings"
      BY DEF SaveSettings
    <3> QED BY <1>7, <3>1, <3>2
  <2>2. UNCHANGED <<server, entries>>
    BY <1>7 DEF SettingsEdited, SaveSettings
  <2> QED BY <1>1, <2>1, <2>2 DEF ScreenInv, NoChange
<1>8. CASE ServiceChanges
  <2>1. /\ change.list \in Lists \cup {"settings"}
        /\ {"kind", "list", "id"} \subseteq DOMAIN change
    BY <1>8 DEF ServiceChanges, FlagInv, ChangeInv, OwnInv, Shapes
  <2>2. server'.projects \subseteq Rows(ProjectOrder)
    <3>1. Carried(change).projects \subseteq Rows(ProjectOrder)
      BY <1>2, <2>1 DEF Carried, ServerFields, ScreenInv, Lists
    <3> QED BY <1>8, <3>1 DEF ServiceChanges, ScreenInv
  <2>3. change'.list = "projects" /\ change'.kind = "add" => change'.id \in Rows(ProjectOrder)
    BY <1>8, <2>1 DEF ServiceChanges, ScreenInv, IdOf
  <2> QED BY <1>1, <1>8, <2>2, <2>3 DEF ServiceChanges, ScreenInv
<1>9. CASE ChangeAnswered
  <2> DEFINE e == FollowUp(change)
  <2>1. CacheShape(e) /\ e[Header] = entries[Header]
    BY <1>2, HeaderInKeys
       DEF FollowUp, Answered, CacheShape, Header, Overview, Key
  <2> HIDE DEF e
  <2>2. HeaderRows(entries'[Header])
    BY <1>9, <2>1, HeaderAfter DEF ChangeAnswered, ScreenInv, e
  <2> QED BY <1>1, <1>9, <2>2 DEF ChangeAnswered, ScreenInv, NoChange
<1>10. CASE OthersChange
  <2>1. server'.projects = server.projects
    BY <1>2, <1>10 DEF OthersChange, ServerFields
  <2> QED BY <1>1, <1>10, <2>1 DEF OthersChange, ScreenInv
<1>11. CASE \/ ClusterTableRemoveButton \/ ClustersOverviewTableRowActions
            \/ ClustersOverviewTableButtons \/ ProjectsTableRowActions
            \/ EnvironmentsTableRowActions \/ SettingsTableRowActions
            \/ SettingsAddEntity \/ SettingsAddSecret
  BY <1>6, <1>11 DEF ClusterTableRemoveButton, ClustersOverviewTableRowActions,
         ClustersOverviewTableButtons, ProjectsTableRowActions, EnvironmentsTableRowActions,
         SettingsTableRowActions, SettingsAddEntity, SettingsAddSecret
<1> QED BY <1>3, <1>4, <1>5, <1>7, <1>8, <1>9, <1>10, <1>11 DEF TableStep

(* Going from page to page.                                                *)
LEMMA ScreenStep ==
  ScreenInv /\ OwnInv /\ FlagInv /\ [Next]_vars => ScreenInv'
<1> SUFFICES ASSUME ScreenInv, OwnInv, FlagInv, [Next]_vars PROVE ScreenInv'
  OBVIOUS
<1>1. CacheShape(entries) /\ ServerFields \subseteq DOMAIN server
  BY DEF OwnInv, Shapes
<1>2. CacheShape([k \in Keys |-> Empty]) /\ HeaderRows([k \in Keys |-> Empty][Header])
  BY EmptyAgrees, HeaderInKeys DEF HeaderRows, Empty, NoRequest
<1>3. \A s : ShowPage(s) \/ LoadPage(s) => HeaderRows(entries'[Header])
  <2>1. \A keys : entries' = Subscribed(entries, keys) => HeaderRows(entries'[Header])
    BY <1>1, HeaderAfter DEF ScreenInv
  <2>2. \A keys : entries' = Subscribed([k \in Keys |-> Empty], keys)
                    => HeaderRows(entries'[Header])
    BY <1>2, HeaderAfter
  <2> QED BY <2>1, <2>2 DEF ShowPage, LoadPage
<1>4. CASE Login \/ LogoutButton \/ Sidebar
  <2>1. /\ UNCHANGED <<project, server, change>>
        /\ \E s \in Screens : ShowPage(s)
    BY <1>4 DEF Login, LogoutButton, Sidebar, formVars, Screens
  <2> QED BY <1>3, <2>1 DEF ScreenInv, ShowPage
<1>5. CASE OpenOverview
  BY <1>3, <1>5 DEF OpenOverview, LoadPage, ScreenInv, Screens, NoChange
<1>6. CASE ProjectPicked
  <2>1. UNCHANGED <<screen, server, change>> /\ \E keys : entries' = Subscribed(entries, keys)
    BY <1>6 DEF ProjectPicked
  <2>2. project' \in Rows(ProjectOrder)
    BY <1>6 DEF ProjectPicked, ScreenInv, HeaderRows
  <2>3. HeaderRows(entries'[Header])
    BY <1>1, <2>1, HeaderAfter DEF ScreenInv
  <2> QED BY <2>1, <2>2, <2>3 DEF ScreenInv
<1>7. CASE TableStep
  BY <1>7, TableScreen
<1>8. CASE FormStep
  <2>1. project' = project
    BY <1>8, FormStores
  <2>2. CASE CreateClusterButton \/ FormCancelled
    BY <1>3, <2>1, <2>2 DEF CreateClusterButton, FormCancelled, ShowPage, ScreenInv, Screens
  <2>3. CASE FormReloaded
    BY <1>3, <2>1, <2>3 DEF FormReloaded, LoadPage, ScreenInv, Screens, NoChange
  <2>4. CASE FormStoresSecret \/ FormRefused
    <3>1. /\ UNCHANGED <<screen, server, change>>
          /\ \E tags : Settle(entries, tags, ShownKeys, change # NoChange)
      BY <2>4 DEF FormStoresSecret, FormRefused
    <3>2. HeaderRows(entries'[Header])
      BY <1>1, <3>1, HeaderAfter DEF ScreenInv
    <3> QED BY <2>1, <3>1, <3>2 DEF ScreenInv
  <2>5. CASE FormCreatesCluster
    <3> DEFINE keys == KeysOf("clusters", project)
               e == Subscribed(entries, keys \ ShownKeys)
    <3>1. /\ Settle(e, waiting \cup TagsOfNewCluster, keys, change # NoChange)
          /\ change' = change /\ screen' = "clusters" /\ \E id : Deployed(id)
      BY <2>5, Zenon DEF FormCreatesCluster
    <3>2. CacheShape(e)
      BY <1>1, SubscribedAgrees
    <3>3. HeaderRows(e[Header])
      <4>1. e[Header] \in {entries[Header], [entries[Header] EXCEPT !.request = Ask]}
        BY HeaderInKeys DEF Subscribed
      <4>2. {"rows", "request"} \subseteq DOMAIN entries[Header]
        BY <1>1, HeaderInKeys DEF CacheShape
      <4> HIDE DEF e
      <4> QED BY <4>1, <4>2 DEF ScreenInv, HeaderRows, Ask
    <3> HIDE DEF e
    <3>4. HeaderRows(entries'[Header])
      BY <3>1, <3>2, <3>3, HeaderAfter
    <3>5. server'.projects = server.projects
      BY <1>1, <3>1 DEF Deployed, ServerFields
    <3> QED BY <2>1, <3>1, <3>4, <3>5 DEF ScreenInv, Screens
  <2>6. CASE FormWorks /\ UNCHANGED consoleVars
    BY <2>1, <2>6 DEF consoleVars, ScreenInv
  <2> QED BY <1>8, <2>2, <2>3, <2>4, <2>5, <2>6 DEF FormStep
<1>9. CASE UNCHANGED vars
  BY <1>9 DEF vars, formVars, consoleVars, ScreenInv
<1> QED BY <1>4, <1>5, <1>6, <1>7, <1>8, <1>9 DEF Next

(* What is on the screen is cached. *)
LEMMA ShownInKeys == ScreenInv => ShownKeys \subseteq Keys
  BY DEF ScreenInv, Screens, ShownKeys, KeysOf, Keys, PolledKeys

(* An entry that is at rest has what the service has of this console's own *)
(* changes, whatever other requests were under way meanwhile: the tags of  *)
(* the endpoints (shared/api) cover every list that a change alters, for   *)
(* any interleaving of clicks, intervals, answers, reloads and other       *)
(* consoles.                                                               *)
THEOREM OwnShown == Spec => []OwnChangesShown
<1>1. OwnInv /\ ScreenInv => OwnChangesShown
  <2> SUFFICES ASSUME OwnInv, ScreenInv, AtRest, "failures" \notin tour, NEW k \in ShownKeys,
                      k.list # "settings", k # Overview, entries[k].rows # None,
                      NEW mine, mine = own[ListOf(k)]
               PROVE  entries[k].rows \cap mine = RowsOf(k) \cap mine
    <3>1. \A k \in Keys : (IF k = Header THEN "projects" ELSE k.list) = ListOf(k)
      BY DEF ListOf, Keys, PolledKeys, Clusters, Secrets, Overview, Header, Page, Key
    <3> QED BY <3>1, ShownInKeys, Zenon DEF OwnChangesShown
  <2>1. k \in OwnKeys
    BY ShownInKeys DEF OwnKeys
  <2>2. ~Outdated(k)
    BY <2>1, OwnKeyLists DEF AtRest, Outdated, Tags, NoChange, AllOf, Tag, OwnLists
  <2>3. Idle(k)
    BY <2>1, OwnKeyLists DEF AtRest
  <2> QED BY <2>1, <2>2, <2>3 DEF OwnInv, Agrees, Idle
<1>2. Spec => []FlagInv
  BY FlagInit, FlagStep, PTL DEF Spec
<1>3. Spec => []OwnInv
  BY <1>2, OwnInit, OwnStep, PTL DEF Spec
<1>4. Spec => []ScreenInv
  BY <1>2, <1>3, ScreenInit, ScreenStep, PTL DEF Spec
<1> QED BY <1>1, <1>3, <1>4, PTL
=============================================================================
