---------------------------- MODULE DashboardPage ----------------------------
(***************************************************************************)
(* The dashboard page (main.js, applist.js) and the registry of the add-on *)
(* (simulator.js): the page shows a copy of the records, which messages    *)
(* bring up to date while requests of both are under way; how an app is    *)
(* added by the URL of a page, and how it gets its test receipt.           *)
(*                                                                         *)
(* A message to the page carries a copy of a record; one whose manifest    *)
(* was never read cannot be rendered, which ends the rendering.  A job is  *)
(* a request, or the writing of files and the installation after it; the   *)
(* check of an app cache is not one, for nobody waits for it.  What they   *)
(* do to the simulator is AppRegistry, here a job is done, fails or is     *)
(* lost with the simulator.  A record is an object, which a job may hold   *)
(* after another has taken its place: `gen` tells them apart.              *)
(***************************************************************************)
EXTENDS Naturals, Sequences

CONSTANTS
  Apps,
  Generated,      \* made from a page; the others have a manifest to be fetched
  Before,         \* the apps whose ids come before that of each
  Receipts,       \* the kinds of receipts
  Jobs,           \* bound: the jobs under way
  MaxGen, MaxCommands

PageAssumption ==
  /\ Generated \subseteq Apps /\ Before \in [Apps -> SUBSET Apps]
  /\ MaxGen \in Nat /\ MaxCommands \in Nat

VARIABLES
  apps,       \* simulator.apps
  list,       \* apps of applist.js
  rows,       \* the record each row of the list was made from
  cut,        \* a record that cannot be rendered has cut the list short
  open,       \* there is a page
  down, up,   \* messages to the page, and from it
  job,
  checks,     \* the apps whose cache is asked for, on behalf of their records
  commands,   \* those given so far
  gen,        \* the records made so far
  installed,  \* the receipt the app is installed with
  crossed     \* apps two installations of which overlapped, or one failed; or one not told of

shownVars == <<list, rows, cut>>
pageVars == <<shownVars, open, down, up>>
vars == <<apps, pageVars, job, checks, commands, gen, installed, crossed>>

NoApp == [gen |-> 0]
NewApp(g) == [gen |-> g, removed |-> FALSE, receipt |-> "none", updateReceipt |-> FALSE,
              validated |-> FALSE, errors |-> {}]
Has(a) == apps[a] # NoApp
Nothing == [a \in Apps |-> NoApp]

Idle == [do |-> "idle"]
Job(do, a, what) == [do |-> do, app |-> a, gen |-> apps[a].gen, what |-> what]
Of(a) == {k \in Jobs : job[k] # Idle /\ job[k].app = a}
Free == {k \in Jobs : job[k] = Idle}
Starts(j) == \E k \in Free : (\A i \in Free : k =< i) /\ job' = [job EXCEPT ![k] = j]
Goes(k, j) == job' = [job EXCEPT ![k] = j]
Ends(k) == Goes(k, Idle)

(* sendSingleApp and the messages about receipts: none without a page;     *)
(* sendListApps throws without one.                                        *)
Message(name, a, value) == [name |-> name, app |-> a, value |-> value]
Send(ms) == down' = IF open THEN down \o ms ELSE down
sendSingleApp(a) == <<Message("updateSingleApp", a, apps'[a])>>
sendListApps == <<Message("listApps", "all", apps')>>
Told(then, a) == IF then = "list" THEN sendListApps ELSE sendSingleApp(a)

-----------------------------------------------------------------------------
(* The page.  It opens with an empty list and asks for the apps, and the   *)
(* add-on takes that for the moment to drop the removed ones.              *)
OpenPage ==
  /\ ~open /\ commands < MaxCommands /\ commands' = commands + 1
  /\ open' = TRUE /\ list' = Nothing /\ rows' = Nothing /\ cut' = FALSE /\ down' = <<>>
  /\ up' = <<Message("listApps", "all", "flush")>>
  /\ UNCHANGED <<apps, job, checks, gen, installed, crossed>>

ClosePage ==
  /\ open /\ open' = FALSE /\ down' = <<>> /\ up' = <<>>
  /\ list' = Nothing /\ rows' = Nothing /\ cut' = FALSE
  /\ UNCHANGED <<apps, job, checks, commands, gen, installed, crossed>>

(* What is offered for an app that is shown.                               *)
Offered(a) ==
  IF rows[a] = NoApp THEN {}
  ELSE IF rows[a].removed THEN {<<"undoRemoveApp", "">>}
  ELSE {<<"removeApp", "">>, <<"updateApp", "">>} \cup {"updateReceiptType"} \X (Receipts \cup {"none"})

Command(a) ==
  /\ open /\ commands < MaxCommands /\ commands' = commands + 1
  /\ \E c \in Offered(a) \cup {<<"addAppByTab", "">>} : up' = Append(up, Message(c[1], a, c[2]))
  /\ UNCHANGED <<apps, shownVars, open, down, job, checks, gen, installed, crossed>>

(* render: all rows, up to the first record that throws, or the row of one *)
(* app if it has one.                                                      *)
Throws(a) == list'[a] # NoApp /\ ~list'[a].validated
RenderAll ==
  /\ cut' = \E a \in Apps : Throws(a)
  /\ rows' = [a \in Apps |-> IF \E b \in Before[a] \cup {a} : Throws(b) THEN NoApp ELSE list'[a]]
Render(a) ==
  /\ UNCHANGED cut
  /\ rows' = IF rows[a] = NoApp \/ Throws(a) THEN rows ELSE [rows EXCEPT ![a] = list'[a]]

(* AppList.updateAll, and update: of a whole app, or of some of its        *)
(* fields; what is told of an app that is no more changes nothing.         *)
UpdateSingle(a, r) ==
  /\ list' = [list EXCEPT ![a] = r]
  /\ IF list[a] = NoApp THEN RenderAll ELSE Render(a)
Extend(a, flag) == list' = [list EXCEPT ![a].updateReceipt = flag] /\ Render(a)
Receive ==
  /\ open /\ down # <<>> /\ down' = Tail(down)
  /\ LET m == Head(down) IN
       \/ m.name = "listApps" /\ list' = m.value /\ RenderAll
       \/ m.name = "updateSingleApp" /\ m.value # NoApp /\ UpdateSingle(m.app, m.value)
       \/ m.name = "updateSingleApp" /\ m.value = NoApp /\ UNCHANGED shownVars
       \/ /\ m.name \in {"updateReceiptStart", "updateReceiptStop"}
          /\ IF list[m.app] = NoApp THEN UNCHANGED shownVars
             ELSE Extend(m.app, m.name = "updateReceiptStart")
  /\ UNCHANGED <<apps, open, up, job, checks, commands, gen, installed, crossed>>

-----------------------------------------------------------------------------
(* onMessage.                                                              *)
Asked(name) == open /\ up # <<>> /\ Head(up).name = name /\ up' = Tail(up)
Requested == Head(up).app

ListApps ==
  /\ Asked("listApps")
  /\ apps' = [a \in Apps |-> IF Has(a) /\ apps[a].removed THEN NoApp ELSE apps[a]]
  /\ checks' = {a \in checks : apps'[a] # NoApp}
  /\ Send(sendListApps)
  /\ UNCHANGED <<shownVars, open, job, commands, gen, installed, crossed>>

(* updateApp asks for the manifest; what has none to ask for goes on.      *)
Update(a, then) == Starts(Job("manifest", a, then))
UpdateApp ==
  /\ Asked("updateApp")
  /\ IF Has(Requested) THEN Update(Requested, "list") ELSE UNCHANGED job
  /\ UNCHANGED <<apps, shownVars, open, down, checks, commands, gen, installed, crossed>>

RemoveApp ==
  /\ Asked("removeApp")
  /\ LET a == Requested IN
       IF Has(a) THEN apps' = [apps EXCEPT ![a].removed = TRUE] /\ Starts(Job("uninstall", a, ""))
       ELSE UNCHANGED <<apps, job>>
  /\ UNCHANGED <<shownVars, open, down, checks, commands, gen, installed, crossed>>

UndoRemoveApp ==
  /\ Asked("undoRemoveApp")
  /\ LET a == Requested IN
       IF Has(a) /\ apps[a].removed
       THEN apps' = [apps EXCEPT ![a].removed = FALSE] /\ Update(a, "single")
       ELSE UNCHANGED <<apps, job>>
  /\ UNCHANGED <<shownVars, open, down, checks, commands, gen, installed, crossed>>

(* _updateApp: the files are written with the receipt of now, then the app *)
(* is installed with it; the page is told at once.                         *)
InstallWith(a, then) ==
  [do |-> "install", app |-> a, gen |-> apps'[a].gen, what |-> <<apps'[a].receipt, then>>]
Overlap(a, k) == IF Of(a) \ {k} # {} THEN crossed \cup {a} ELSE crossed \ {a}

updateReceiptType ==
  /\ Asked("updateReceiptType")
  /\ LET a == Requested
         type == Head(up).value
     IN IF ~Has(a) THEN UNCHANGED <<apps, job, down, crossed>>
        ELSE IF type = "none"
        THEN /\ apps' = [apps EXCEPT ![a].receipt = "none"]
             /\ Starts(InstallWith(a, "nothing")) /\ crossed' = Overlap(a, 0)
             /\ Send(sendSingleApp(a))
        ELSE /\ apps' = [apps EXCEPT ![a].updateReceipt = TRUE]
             /\ Starts(Job("receipt", a, type)) /\ UNCHANGED crossed
             /\ Send(<<Message("updateReceiptStart", a, "")>>)
  /\ UNCHANGED <<shownVars, open, checks, commands, gen, installed>>

(* addAppByTabUrl: the page is in a tab, or its URL is asked what it is.    *)
addAppByTabUrl ==
  /\ Asked("addAppByTab")
  /\ Starts(Job(IF Requested \in Generated THEN "add" ELSE "validate", Requested, ""))
  /\ UNCHANGED <<apps, shownVars, open, down, checks, commands, gen, installed, crossed>>

-----------------------------------------------------------------------------
(* The jobs.                                                               *)
At(k, do) == job[k].do = do
App(k) == job[k].app
Same(k) == apps[App(k)].gen = job[k].gen
Fails(k) == Ends(k) /\ UNCHANGED <<apps, checks, gen>>

(* validateUrl: a manifest is fetched then, anything else is made into one  *)
(* by force.  addManifest puts a new record in the place of an old one.     *)
validateUrl(k) ==
  /\ At(k, "validate")
  /\ \/ Goes(k, [job[k] EXCEPT !.do = "add"])
     \/ \E g \in Generated : Goes(k, [job[k] EXCEPT !.do = "add", !.app = g])
  /\ UNCHANGED <<apps, pageVars, checks, commands, gen, installed, crossed>>

addManifest(k) ==
  /\ At(k, "add")
  /\ \/ /\ gen < MaxGen /\ gen' = gen + 1
        /\ apps' = [apps EXCEPT ![App(k)] = NewApp(gen + 1)]
        /\ Goes(k, [do |-> "manifest", app |-> App(k), gen |-> gen + 1, what |-> "single"])
        /\ checks' = checks \ {App(k)}
     \/ App(k) \notin Generated /\ Fails(k)
  /\ UNCHANGED <<pageVars, commands, installed, crossed>>

(* updateApp, its manifest come: it looks the record up again, and throws  *)
(* if it is gone; the page is told of what is wrong with it.  validateApp  *)
(* asks for the app cache too, and what is wrong there is added to the     *)
(* record's errors when the answer comes; of that the page is not told.    *)
Validated(a, wrong) == apps' = [apps EXCEPT ![a].validated = TRUE, ![a].errors = wrong]
ManifestRead(k) ==
  /\ At(k, "manifest")
  /\ LET a == App(k)
         then == job[k].what
     IN IF ~Has(a) THEN Ends(k) /\ UNCHANGED <<apps, checks, down, crossed>>
        ELSE /\ \/ /\ Validated(a, {"manifest"})
                   /\ Ends(k) /\ Send(Told(then, a)) /\ UNCHANGED crossed
                \/ /\ Validated(a, {})
                   /\ Goes(k, InstallWith(a, then)) /\ crossed' = Overlap(a, k)
                   /\ Send(sendSingleApp(a))
             /\ \/ checks' = checks \ {a}
                \/ a \notin Generated /\ checks' = checks \cup {a}
  /\ UNCHANGED <<shownVars, open, up, commands, gen, installed>>

validateAppCache(a) ==
  /\ a \in checks /\ checks' = checks \ {a}
  /\ apps' \in {apps, [apps EXCEPT ![a].errors = @ \cup {"appcache"}]}
  /\ UNCHANGED <<pageVars, job, commands, gen, installed, crossed>>

(* The app is installed, or that fails; the callback tells the page (the   *)
(* one of a receipt of no kind throws, having lost its `this`).            *)
Installed(k) ==
  /\ At(k, "install") /\ Ends(k)
  /\ LET a == App(k) IN
       /\ \/ installed' = [installed EXCEPT ![a] = job[k].what[1]] /\ UNCHANGED crossed
          \/ crossed' = crossed \cup {a} /\ UNCHANGED installed
       /\ apps' = apps
       /\ IF job[k].what[2] = "nothing" THEN UNCHANGED down ELSE Send(Told(job[k].what[2], a))
  /\ UNCHANGED <<shownVars, open, up, checks, commands, gen>>

(* uninstall, and what it does when the simulator cannot run: the flag of   *)
(* the record it holds is taken back.                                       *)
Uninstalled(k) ==
  /\ At(k, "uninstall") /\ Ends(k)
  /\ apps' \in {apps, IF Same(k) THEN [apps EXCEPT ![App(k)].removed = FALSE] ELSE apps}
  /\ Send(sendSingleApp(App(k)))
  /\ UNCHANGED <<shownVars, open, up, checks, commands, gen, installed, crossed>>

(* fetchReceipt: the answer goes into the record that was asked for, and   *)
(* the record of now is written.                                           *)
Stop(k) == <<Message("updateReceiptStop", App(k), "")>>
fetched(k) ==
  /\ At(k, "receipt")
  /\ LET a == App(k)
         Clear == IF Same(k) THEN [apps EXCEPT ![a].updateReceipt = FALSE] ELSE apps
     IN \/ apps' = Clear /\ Ends(k) /\ Send(Stop(k) \o sendSingleApp(a)) /\ UNCHANGED crossed
        \/ /\ apps' = IF Same(k) THEN [Clear EXCEPT ![a].receipt = job[k].what] ELSE apps
           /\ IF Has(a) THEN Goes(k, InstallWith(a, "single")) /\ crossed' = Overlap(a, k)
              ELSE Ends(k) /\ UNCHANGED crossed
           /\ Send(Stop(k) \o sendSingleApp(a))
  /\ UNCHANGED <<shownVars, open, up, checks, commands, gen, installed>>

(* The simulator ends: an answer never comes.                              *)
Lost(k) ==
  /\ job[k].do \in {"install", "uninstall"} /\ Ends(k) /\ crossed' = crossed \cup {App(k)}
  /\ UNCHANGED <<apps, pageVars, checks, commands, gen, installed>>

-----------------------------------------------------------------------------
Init ==
  /\ apps = [a \in Apps |-> NoApp] /\ list = Nothing /\ rows = Nothing /\ cut = FALSE
  /\ open = FALSE /\ down = <<>> /\ up = <<>> /\ job = [k \in Jobs |-> Idle] /\ checks = {}
  /\ commands = 0 /\ gen = 0
  /\ installed = [a \in Apps |-> "none"] /\ crossed = {}

Handles == ListApps \/ UpdateApp \/ RemoveApp \/ UndoRemoveApp \/ updateReceiptType \/ addAppByTabUrl
Works(k) == validateUrl(k) \/ addManifest(k) \/ ManifestRead(k) \/ Installed(k) \/ Uninstalled(k)
            \/ fetched(k) \/ Lost(k)

(* The manifest made from a page is there when it is read: nothing comes   *)
(* between.                                                                *)
AtHand == {k \in Jobs : At(k, "manifest") /\ App(k) \in Generated}
Next ==
  \/ \E k \in AtHand : ManifestRead(k)
  \/ /\ AtHand = {}
     /\ \/ OpenPage \/ ClosePage \/ Receive \/ Handles
        \/ \E a \in Apps : Command(a) \/ validateAppCache(a)
        \/ \E k \in Jobs : Works(k)
Spec == Init /\ [][Next]_vars

-----------------------------------------------------------------------------
(* Once nothing is under way the page has the records as they are: none    *)
(* too many, no flag, receipt or error that has changed since, whatever    *)
(* the order of the answers, but for what an app cache's check has found   *)
(* after the page was told.  Each row shows its record so, and none is     *)
(* missing unless a record without validation has cut the list short.  An  *)
(* app with no other error is installed with the receipt its record has,   *)
(* unless two installations of it overlapped or one failed.                *)
Quiet(a) == Of(a) = {} /\ down = <<>> /\ up = <<>>
Known(a) == IF Has(a) THEN {apps[a], [apps[a] EXCEPT !.errors = @ \ {"appcache"}]} ELSE {NoApp}
PageAgrees ==
  \A a \in Apps : Quiet(a) /\ a \notin crossed =>
    /\ open => list[a] \in Known(a) /\ (rows[a] = list[a] \/ (cut /\ rows[a] = NoApp))
    /\ Has(a) => ~apps[a].updateReceipt
    /\ Has(a) /\ "manifest" \notin apps[a].errors => installed[a] = apps[a].receipt

=============================================================================
