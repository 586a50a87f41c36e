------------------------------- MODULE Console -------------------------------
(***************************************************************************)
(* The console in the browser: the session, the header with the current    *)
(* project, the tables and their menus, the settings, and the add-cluster  *)
(* page of ClusterForm.  A table is a view of an entry of the query cache  *)
(* (RTK Query): it asks for the entry when it is shown and the entry is    *)
(* empty, some tables ask again at an interval, and a request that changes *)
(* something invalidates entries by the tags of its endpoint (shared/api). *)
(* Invalidation waits until no request is pending.                         *)
(***************************************************************************)
EXTENDS ClusterForm

CONSTANTS
  ProjectOrder,  \* projects by id
  Hosts0,        \* the servers of the first cluster
  MaxClusters    \* bound on the clusters of a behaviour

\* The current project of Init.
ASSUME ProjectAssumption == "p1" \in Rows(ProjectOrder)

\* There is a first cluster.
ASSUME ClustersAssumption == MaxClusters \in Nat \ {0}

VARIABLES
  screen,   \* the page that is shown; "login" if localStorage has no token
  server,   \* what the service has
  entries,  \* the query cache: key -> its rows and its request
  waiting,  \* tags whose invalidation waits
  change,   \* the request under way that changes something, or NoChange
  own,      \* list -> the rows this console was told it added or removed (history)
  form      \* the settings form: its values and the values it is compared to

consoleVars == <<screen, server, entries, waiting, change, own, form>>
vars == <<formVars, consoleVars>>

\* What only the add-cluster page changes.
pageVars == <<tour, view, values, kept, boxes, held, ref, made, modal, doc, flight, sent>>

Key(list, of) == [list |-> list, of |-> of]
Clusters(p) == Key("clusters", p)
Secrets(p) == Key("secrets", p)
Overview == Key("overview", "first")   \* of the first cluster (a bound)
Header == Key("header", "all")
Page(list) == Key(list, "all")         \* projects, environments, settings

PolledKeys == {Clusters(p) : p \in Rows(ProjectOrder)} \cup {Overview}
Keys == PolledKeys \cup {Secrets(p) : p \in Rows(ProjectOrder)}
        \cup {Header, Page("projects"), Page("environments"), Page("settings")}

Lists == {"clusters", "overview", "projects", "environments", "secrets"}

NoRequest == [at |-> "none", rows |-> {}]
Empty == [rows |-> None, request |-> NoRequest]
Ask == [at |-> "service", rows |-> {}]

\* What the service answers.  The secrets belong to the first project.
RowsOf(k) ==
  CASE k.list = "clusters" -> {c \in DOMAIN server.clusters \ server.deleted :
                                 server.clusters[c] = k.of}
    [] k.list = "overview" -> IF 1 \in server.deleted THEN {} ELSE server.hosts
    [] k.list \in {"header", "projects"} -> server.projects
    [] k.list = "environments" -> server.environments
    [] k.list = "secrets" -> IF k.of # ProjectOrder[1] THEN {}
                             ELSE {i \in DOMAIN stored : stored[i] # "gone"}
    [] k.list = "settings" -> server.proxy

-----------------------------------------------------------------------------
(* What a page shows, and the cache.                                       *)

KeysOf(s, p) ==
  LET page == CASE s = "clusters" -> {Clusters(p), Page("environments")}
                [] s = "overview" -> {Overview}
                [] s = "secrets" -> {Secrets(p)}
                [] s \in {"login", "form"} -> {}
                [] OTHER -> {Page(s)}
  IN  {k \in page \cup (IF s = "login" THEN {} ELSE {Header}) : k.list \in tour}

ShownKeys == KeysOf(screen, project)
Idle(k) == entries[k].request = NoRequest

\* The variant of Polled: the overview is not asked for again.
PolledClusters == {"clusters"}

\* useQueryPolling
Polled == {"clusters", "overview"}

(* A component that mounts, or asks for another project, starts a request  *)
(* unless the entry has rows or a request.                                 *)
Subscribed(e, keys) ==
  [k \in Keys |-> IF k \in keys /\ e[k] = Empty THEN [e[k] EXCEPT !.request = Ask] ELSE e[k]]

Answered(k, rows, request) == [entries EXCEPT ![k] = [rows |-> rows, request |-> request]]

Tag(type, id) == [type |-> type, id |-> id]
AllOf(type) == Tag(type, 0)     \* the tag LIST

(* The tags an entry provides: a list that of the list and one for each    *)
(* row, a cluster its own.                                                 *)
Provides(e, k, tag) ==
  IF k.list = "overview" THEN tag = Tag("clusters", 1)
  ELSE /\ tag.type = IF k.list = "header" THEN "projects" ELSE k.list
       /\ tag.id = 0 \/ (e[k].rows # None /\ tag.id \in e[k].rows)

\* Invalidated entries that are shown are asked for again, others go.
Invalidated(e, tags, keys) ==
  [k \in Keys |-> IF ~\E tag \in tags : Provides(e, k, tag) THEN e[k]
                  ELSE IF k \in keys THEN [e[k] EXCEPT !.request = Ask] ELSE Empty]

(* Variant: invalidation does not wait; what is pending is not asked again.*)
SettleAtOnce(e, tags, keys, busy) ==
  /\ entries' = [k \in Keys |-> IF e[k].request # NoRequest THEN e[k]
                                ELSE Invalidated(e, tags, keys)[k]]
  /\ waiting' = {}

(* Variant: what has had to wait waits for the next change. *)
SettleLater(e, tags, keys, busy) ==
  IF busy \/ tags = waiting \/ \E k \in Keys : e[k].request # NoRequest
  THEN entries' = e /\ waiting' = tags
  ELSE entries' = Invalidated(e, tags, keys) /\ waiting' = {}

\* Invalidation waits until no request is pending.
Settle(e, tags, keys, busy) ==
  IF busy \/ \E k \in Keys : e[k].request # NoRequest
  THEN entries' = e /\ waiting' = tags
  ELSE entries' = Invalidated(e, tags, keys) /\ waiting' = {}

NoChange == [kind |-> "none", list |-> "none", id |-> None, saves |-> None, done |-> None]
Busy == change # NoChange \/ flight # None

\* Goes to a page: other entries are shown.
ShowPage(s) ==
  /\ screen' = s
  /\ entries' = Subscribed(entries, KeysOf(s, project) \ ShownKeys)
  /\ UNCHANGED waiting

\* A page load: the stores are new, what is in localStorage stays.
LoadPage(s) ==
  /\ screen' = s
  /\ entries' = Subscribed([k \in Keys |-> Empty], KeysOf(s, project))
  /\ waiting' = {} /\ change' = NoChange

-----------------------------------------------------------------------------
(* The settings form.                                                      *)

FormOf(now) == [now |-> now, base |-> now]
FromStorage == FormOf([expert |-> expert, tabs |-> tabs, proxy |-> ""])

(* Variant: the setting of the service has the expert flag, too. *)
SettingWithExpert(now) ==
  [field \in DOMAIN now \ (IF now.proxy = "" THEN {"proxy"} ELSE {}) |-> now[field]]

\* What is sent: the fields that are not empty, without the expert flag.
SettingOf(now) ==
  [field \in DOMAIN now \ ({"expert"} \cup IF now.proxy = "" THEN {"proxy"} ELSE {}) |-> now[field]]

(* The effect of the list: the setting is put over the values.             *)
Loaded(f, rows) ==
  IF rows = None THEN f
  ELSE FormOf([field \in DOMAIN f.now |->
                 IF \E r \in rows : field \in DOMAIN r
                 THEN (CHOOSE r \in rows : TRUE)[field] ELSE f.now[field]])

-----------------------------------------------------------------------------
ConsoleInit ==
  /\ Init
  /\ screen = IF "session" \in tour THEN "login" ELSE "clusters"
  /\ server = [clusters |-> [id \in {1} |-> ProjectOrder[1]], deleted |-> {}, hosts |-> Hosts0,
               projects |-> Rows(ProjectOrder), environments |-> Rows(Environments),
               proxy |-> {}]
  /\ entries = Subscribed([k \in Keys |-> Empty], ShownKeys)
  /\ waiting = {} /\ change = NoChange
  /\ own = [list \in Lists |-> {}]
  /\ form = FromStorage

-----------------------------------------------------------------------------
(* Session and navigation; the add-cluster page has its own way out.       *)

Away == view = "away" /\ flight = None

\* Any text is taken as the token; a wrong one makes the lists fail.
Login ==
  /\ screen = "login" /\ ShowPage("clusters")
  /\ UNCHANGED <<formVars, server, change, own, form>>

LogoutButton ==
  /\ "session" \in tour /\ screen # "login" /\ Away
  /\ ShowPage("login")
  /\ UNCHANGED <<formVars, server, change, own, form>>

(* The settings form starts from localStorage and from the cached list. *)
Sidebar ==
  /\ Away /\ screen # "login"
  /\ \E s \in {"clusters"} \cup ({"projects", "environments", "secrets", "settings"} \cap tour) :
       /\ s # screen /\ ShowPage(s)
       /\ form' = IF s = "settings" THEN Loaded(FromStorage, entries[Page(s)].rows) ELSE form
  /\ UNCHANGED <<formVars, server, change, own>>

RowsShown(k) == IF k \in ShownKeys /\ Idle(k) /\ entries[k].rows # None THEN entries[k].rows ELSE {}

(* The name of a cluster is a plain link: the page is loaded anew. *)
OpenOverview ==
  /\ "overview" \in tour /\ Away /\ change = NoChange
  /\ 1 \in RowsShown(Clusters(project))
  /\ LoadPage("overview")
  /\ loaded' = None /\ cache' = [t \in SecretTypes |-> None] /\ stale' = {}
  /\ UNCHANGED <<pageVars, expert, tabs, project, stored, server, own, form>>

\* handleProjectChange of the header
ProjectPicked ==
  /\ "project" \in tour /\ Away /\ screen # "login" /\ entries[Header].rows # None
  /\ \E p \in entries[Header].rows :
       /\ p # project /\ project' = p
       /\ entries' = Subscribed(entries, KeysOf(screen, p) \ ShownKeys)
  /\ UNCHANGED <<pageVars, expert, tabs, loaded, stored, cache, stale>>
  /\ UNCHANGED <<screen, server, waiting, change, own, form>>

-----------------------------------------------------------------------------
(* Requests for lists.                                                     *)

\* The interval of useQueryPolling, or the button above the clusters.
Poll ==
  /\ \E k \in ShownKeys : /\ k.list \in Polled /\ Idle(k)
                          /\ entries' = Answered(k, entries[k].rows, Ask)
  /\ UNCHANGED <<formVars, screen, server, waiting, change, own, form>>

ServiceReads(k) ==
  /\ entries[k].request = Ask
  /\ entries' = Answered(k, entries[k].rows, [at |-> "browser", rows |-> RowsOf(k)])
  /\ UNCHANGED <<formVars, screen, server, waiting, change, own, form>>

Pending(k) == entries[k].request.at = "browser"

(* The rows come; the settings form is filled in anew if they are others.  *)
RowsArrive(k) ==
  /\ Pending(k)
  /\ LET rows == entries[k].request.rows
     IN  /\ Settle(Answered(k, rows, NoRequest), waiting, ShownKeys, Busy)
         /\ form' = IF k = Page("settings") /\ screen = "settings" /\ rows # entries[k].rows
                    THEN Loaded(form, rows) ELSE form
  /\ UNCHANGED <<formVars, screen, server, change, own>>

\* rtkQueryErrorLogger shows a toast; the rows stay as they were.
ListFails(k) ==
  /\ "failures" \in tour /\ Pending(k)
  /\ Settle(Answered(k, entries[k].rows, NoRequest), waiting, ShownKeys, Busy)
  /\ UNCHANGED <<formVars, screen, server, change, own, form>>

-----------------------------------------------------------------------------
(* Menus and buttons.                                                      *)

Requested(kind, list, id) ==
  /\ change = NoChange
  /\ change' = [kind |-> kind, list |-> list, id |-> id, saves |-> None, done |-> None]
  /\ UNCHANGED <<formVars, screen, server, entries, waiting, own, form>>

ClusterTableRemoveButton ==
  \E id \in RowsShown(Clusters(project)) :
    "removal" \in tour /\ Requested("remove", "clusters", id)

ClustersOverviewTableRowActions ==
  \E id \in RowsShown(Overview) : Requested("remove", "overview", id)

ClustersOverviewTableButtons == screen = "overview" /\ Requested("refresh", "clusters", 1)

\* The current project is refused at once.
ProjectsTableRowActions ==
  \E id \in RowsShown(Page("projects")) : id # project /\ Requested("remove", "projects", id)

EnvironmentsTableRowActions ==
  \E id \in RowsShown(Page("environments")) :
    screen = "environments" /\ Requested("remove", "environments", id)

\* A secret in use is not removed; those of the table are not (a bound).
SettingsTableRowActions ==
  \E id \in RowsShown(Secrets(project)) : Requested("remove", "secrets", id)

\* A project or environment is added that was removed before (a bound).
SettingsAddEntity ==
  \/ /\ screen = "projects"
     /\ \E id \in Rows(ProjectOrder) \ server.projects : Requested("add", "projects", id)
  \/ /\ screen = "environments"
     /\ \E id \in Rows(Environments) \ server.environments : Requested("add", "environments", id)

SettingsAddSecret ==
  /\ screen = "secrets" /\ project = ProjectOrder[1] /\ Len(stored) < MaxSecrets
  /\ Requested("add", "secrets", Len(stored) + 1)

SettingsShown == screen = "settings" /\ Idle(Page("settings"))

SettingsEdited ==
  /\ SettingsShown
  /\ \/ form' = [form EXCEPT !.now.expert = ~@]
     \/ "yaml" \in tour /\ form' = [form EXCEPT !.now.tabs = ~@]
     \/ \E text \in {"", "proxy"} : form' = [form EXCEPT !.now.proxy = text]
  /\ UNCHANGED <<formVars, screen, server, entries, waiting, change, own>>

Dirty(field) == form.now[field] # form.base[field]

\* onSubmit: the flags are stored before the request, which may fail.
SaveSettings ==
  /\ SettingsShown /\ change = NoChange /\ form.now # form.base
  /\ IF Dirty("expert") \/ Dirty("tabs")
     THEN expert' = form.now.expert /\ tabs' = form.now.tabs
     ELSE UNCHANGED <<expert, tabs>>
  /\ IF Dirty("proxy")
     THEN /\ change' = [kind |-> IF entries[Page("settings")].rows \in {None, {}}
                                 THEN "add" ELSE "patch",
                        list |-> "settings", id |-> 0, saves |-> form.now, done |-> None]
          /\ form' = form
     ELSE form' = FormOf(form.now) /\ change' = NoChange
  /\ UNCHANGED <<pageVars, loaded, project, stored, cache, stale>>
  /\ UNCHANGED <<screen, server, entries, waiting, own>>

-----------------------------------------------------------------------------
(* The service carries the request out, or refuses it.  A cluster that is  *)
(* deleted still refers to its project and its environment, the first.     *)

Possible(c) ==
  CASE c.list = "projects" /\ c.kind = "remove" ->
         \A k \in DOMAIN server.clusters : server.clusters[k] # c.id
    [] c.list = "environments" /\ c.kind = "remove" -> c.id # First(Environments)
    [] c.list = "settings" -> (server.proxy = {}) = (c.kind = "add")
    [] c.list = "secrets" /\ c.kind = "add" -> Len(stored) < MaxSecrets
    [] OTHER -> TRUE

Carried(c) ==
  CASE c.kind = "refresh" -> server
    [] c.list = "settings" -> [server EXCEPT !.proxy = {SettingOf(c.saves)}]
    [] c.kind = "add" /\ c.list # "settings" -> [server EXCEPT ![c.list] = @ \cup {c.id}]
    [] c.kind = "remove" /\ c.list = "clusters" -> [server EXCEPT !.deleted = @ \cup {c.id}]
    [] c.kind = "remove" /\ c.list = "overview" -> [server EXCEPT !.hosts = @ \ {c.id}]
    [] OTHER -> [server EXCEPT ![c.list] = @ \ {c.id}]

SecretsCarried(c) ==
  IF c.kind = "add" THEN Append(stored, FirstCloud) ELSE [stored EXCEPT ![c.id] = "gone"]

\* The form may have got the number meanwhile.
IdOf(c) == IF c.list = "secrets" /\ c.kind = "add" THEN Len(stored) + 1 ELSE c.id

ServiceChanges ==
  /\ change # NoChange /\ change.done = None
  /\ \/ /\ "failures" \in tour \/ ~Possible(change)
        /\ change' = [change EXCEPT !.done = FALSE]
        /\ UNCHANGED <<server, stored>>
     \/ /\ Possible(change)
        /\ change' = [change EXCEPT !.done = TRUE, !.id = IdOf(change)]
        /\ IF change.list = "secrets"
           THEN stored' = SecretsCarried(change) /\ server' = server
           ELSE server' = Carried(change) /\ stored' = stored
  /\ UNCHANGED <<pageVars, expert, tabs, loaded, project, cache, stale>>
  /\ UNCHANGED <<screen, entries, waiting, own, form>>

\* invalidatesTags of the endpoints; the one that removes a server has none.
Tags(c) ==
  CASE c.kind = "refresh" -> {Tag("clusters", c.id)}
    [] c.list = "overview" -> {}
    [] OTHER -> {AllOf(c.list)}

(* The menu of a server asks for the cluster again, which does nothing     *)
(* while a request for it is pending.                                      *)
FollowUp(c) ==
  IF c.list = "overview" /\ c.done /\ screen = "overview" /\ Idle(Overview)
  THEN Answered(Overview, entries[Overview].rows, Ask) ELSE entries

Told(c) ==
  IF c.done /\ c.list \in Lists /\ c.kind # "refresh"
  THEN [own EXCEPT ![c.list] = @ \cup {c.id}] ELSE own

(* The answer: the tags are invalidated whether or not it was refused; the *)
(* settings form is reset to what was saved.                               *)
ChangeAnswered ==
  /\ change # NoChange /\ change.done # None
  /\ Settle(FollowUp(change), waiting \cup Tags(change), ShownKeys, flight # None)
  /\ own' = Told(change) /\ change' = NoChange
  /\ form' = IF change.list = "settings" /\ change.done /\ screen = "settings"
             THEN FormOf(change.saves) ELSE form
  /\ IF change.list = "secrets"
     THEN cache' = CacheInvalidated /\ stale' = WantedTypes
     ELSE UNCHANGED <<cache, stale>>
  /\ UNCHANGED <<pageVars, expert, tabs, loaded, project, stored, screen, server>>

\* Another console removes a cluster or a server.
OthersChange ==
  /\ "others" \in tour
  /\ \/ \E c \in DOMAIN server.clusters \ server.deleted :
          /\ server' = [server EXCEPT !.deleted = @ \cup {c}]
          /\ own' = [own EXCEPT !["clusters"] = @ \ {c}]
     \/ \E h \in server.hosts :
          /\ server' = [server EXCEPT !.hosts = @ \ {h}]
          /\ own' = own
  /\ UNCHANGED <<formVars, screen, entries, waiting, change, form>>

-----------------------------------------------------------------------------
(* The add-cluster page in the console.                                    *)

CreateClusterButton ==
  /\ screen = "clusters" /\ OpenPage /\ ShowPage("form")
  /\ UNCHANGED <<server, change, own, form>>

FormCancelled ==
  /\ LeavePage /\ ShowPage("clusters")
  /\ UNCHANGED <<server, change, own, form>>

FormReloaded ==
  /\ Reload /\ LoadPage("clusters")
  /\ UNCHANGED <<server, own, form>>

\* The tag of the secrets; the request for the cluster comes after that.
FormStoresSecret ==
  /\ SecretCreated \/ SecretRefused
  /\ Settle(entries, waiting \cup {AllOf("secrets")}, ShownKeys, change # NoChange)
  /\ UNCHANGED <<screen, server, change, own, form>>

TagsOfNewCluster == {AllOf("clusters")}

\* The rows of the clusters are followed in the tours that show them.
Deployed(id) ==
  IF "clusters" \in tour
  THEN /\ server' = [server EXCEPT !.clusters = [c \in {id} |-> flight.project] ++ @]
       /\ own' = [own EXCEPT !["clusters"] = @ \cup {id}]
  ELSE UNCHANGED <<server, own>>

(* The user is taken to the clusters, wherever the form was left for.  The *)
(* secrets of the table stay unused, and can be removed (a bound).         *)
FormCreatesCluster ==
  LET id == 1 + Cardinality(DOMAIN server.clusters)
      keys == KeysOf("clusters", project)
  IN  /\ "secrets" \notin tour /\ ClusterCreated /\ id <= MaxClusters /\ Deployed(id)
      /\ screen' = "clusters"
      /\ Settle(Subscribed(entries, keys \ ShownKeys), waiting \cup TagsOfNewCluster, keys,
                change # NoChange)
      /\ UNCHANGED <<change, form>>

FormRefused ==
  /\ ClusterRefused
  /\ Settle(entries, waiting \cup TagsOfNewCluster, ShownKeys, change # NoChange)
  /\ UNCHANGED <<screen, server, change, own, form>>

FormStep ==
  \/ CreateClusterButton \/ FormCancelled \/ FormReloaded \/ FormStoresSecret
  \/ FormCreatesCluster \/ FormRefused
  \/ FormWorks /\ UNCHANGED consoleVars

-----------------------------------------------------------------------------
TableStep ==
  \/ Poll
  \/ \E k \in Keys : ServiceReads(k) \/ RowsArrive(k) \/ ListFails(k)
  \/ ClusterTableRemoveButton \/ ClustersOverviewTableRowActions
  \/ ClustersOverviewTableButtons \/ ProjectsTableRowActions
  \/ EnvironmentsTableRowActions \/ SettingsTableRowActions
  \/ SettingsAddEntity \/ SettingsAddSecret \/ SettingsEdited \/ SaveSettings
  \/ ServiceChanges \/ ChangeAnswered \/ OthersChange

Next == \/ Login \/ LogoutButton \/ Sidebar \/ OpenOverview \/ ProjectPicked
        \/ TableStep \/ FormStep

(* The interval keeps firing, the service answers, and not every answer is *)
(* an error.  Nothing is assumed of the user.                              *)
Fairness ==
  /\ WF_vars(Poll)
  /\ WF_vars(\E k \in PolledKeys : ServiceReads(k))
  /\ SF_vars(\E k \in PolledKeys : RowsArrive(k))

Spec == ConsoleInit /\ [][Next]_vars /\ Fairness

-----------------------------------------------------------------------------
(* Properties.                                                             *)

(* Types: the form is open on its page only, what is shown has the rows of *)
(* its list, the settings form has its fields, and an invalidation waits   *)
(* for nothing but a request that will be answered.                        *)
TypeOK ==
  /\ FormTypeOK
  /\ screen \in {"login", "clusters", "overview", "projects", "environments", "secrets",
                 "settings", "form"}
  /\ (screen = "form") = (view # "away")
  /\ project \in Rows(ProjectOrder) /\ server.projects \subseteq Rows(ProjectOrder)
  /\ DOMAIN server.clusters \subseteq 1..MaxClusters /\ server.hosts \subseteq Hosts0
  /\ \A k \in PolledKeys : entries[k].rows # None =>
       entries[k].rows \subseteq (IF k = Overview THEN Hosts0 ELSE 1..MaxClusters)
  /\ DOMAIN form.now = {"expert", "tabs", "proxy"} /\ DOMAIN form.base = DOMAIN form.now
  /\ waiting # {} => Busy \/ \E k \in Keys : ~Idle(k)

AtRest == change = NoChange /\ waiting = {} /\ \A k \in Keys : Idle(k)

(* A table that waits for nothing shows what this console was told it had  *)
(* added and nothing it was told it had removed, whatever other requests   *)
(* were under way meanwhile, as long as none of them failed (tags of the   *)
(* endpoints; the overview has no tag for its servers and may be late).    *)
OwnChangesShown ==
  AtRest /\ "failures" \notin tour =>
    \A k \in ShownKeys : k.list # "settings" /\ k # Overview /\ entries[k].rows # None =>
      LET mine == own[IF k = Header THEN "projects" ELSE k.list]
      IN  entries[k].rows \cap mine = RowsOf(k) \cap mine

(* When the settings are opened, and when the setting of the service is    *)
(* put over a form that agrees with it, the expert switch shows the mode   *)
(* the add-cluster page is in: saving and loading a proxy never brings     *)
(* back an older flag (the load effect and onSubmit of SettingsForm).      *)
SwitchShowsMode ==
  [][\/ screen # "settings" /\ screen' = "settings"
     \/ screen = "settings" /\ form.now.expert = expert /\ RowsArrive(Page("settings"))
     => form'.now.expert = expert']_vars

(* A table that stays on the screen shows again and again what the service *)
(* has: changes of others are seen (useQueryPolling).                      *)
TablesCatchUp ==
  \A k \in PolledKeys : <>[](k \in ShownKeys) => []<>(entries[k].rows = RowsOf(k))

=============================================================================
