----------------------------- MODULE AppRegistry -----------------------------
(***************************************************************************)
(* The registry of apps of the dashboard and what the simulator has        *)
(* installed: add, update, remove, undo and flush of simulator.js, with    *)
(* simulator.run seen as the queue it keeps for the event "ready".         *)
(*                                                                         *)
(* A record is an object: whoever holds it (`config`) keeps it after the   *)
(* registry has dropped it, so a record is an app id and a generation,     *)
(* which also stands for the xkey under which it is installed.  Manifests, *)
(* validation and messages to the dashboard are left out.                  *)
(***************************************************************************)
EXTENDS Naturals, Sequences

CONSTANTS
    Apps,        \* ids of apps
    Hosted,      \* those whose manifest is fetched; the others are packaged
    Tasks,       \* updates in flight at a time (bound)
    MaxGen,      \* times an app is added (bound)
    MaxQueue,    \* callbacks that wait for "ready", and requests under way (bound)
    MaxSweeps    \* updateAll at a time (bound)

(* Assumed of the constants (an instance checks it). *)
RegistryAssumption ==
    /\ Hosted \subseteq Apps /\ MaxGen \in Nat \ {0} /\ MaxQueue \in Nat \ {0}
    /\ MaxSweeps \in Nat

VARIABLES
    sim,        \* "off", "starting", "early" (_remote is set, "ready" not yet emitted), "ready"
    handlers,   \* handlers of the next event "ready", in order
    requests,   \* requests to the simulator that it has not served, in order
    installed,  \* the records the simulator has installed
    registry,   \* per app: is there a record, which, and its flag removed
    task,       \* per slot: an update between two of its asynchronous steps
    needsAll,   \* needsUpdateAll: the add-on has been upgraded
    sweep,      \* per updateAll under way: the apps left, and the callback of the run it is for
    crossed     \* apps on which an operation failed, was lost or overtook another

vars == <<sim, handlers, requests, installed, registry, task, needsAll, sweep, crossed>>

Idle == [at |-> "idle"]
Sweeps == 1..MaxSweeps
None == 0
NoSweep == [at |-> "none", left |-> {}]
Registered(a) == registry[a].here
Rec(a) == <<a, registry[a].gen>>

(* A request: what is asked for which record, and the updateAll that waits. *)
Ask(do, r, sw) == [do |-> do, rec |-> r, sweep |-> sw]
Of(q, a) == {i \in DOMAIN q : q[i].rec[1] = a}
Busy(a) == {t \in Tasks : task[t] # Idle /\ task[t].app = a}
Settled(a) ==
    /\ Busy(a) = {} /\ Of(handlers, a) = {} /\ Of(requests, a) = {}
    /\ \A i \in Sweeps : sweep[i] # NoSweep =>
           sweep[i].then.rec[1] # a /\ a \notin sweep[i].left

Init ==
    /\ sim = "off" /\ handlers = <<>> /\ requests = <<>> /\ installed = {}
    /\ registry = [a \in Apps |-> [here |-> FALSE, gen |-> 0, removed |-> FALSE]]
    /\ task = [t \in Tasks |-> Idle]
    /\ needsAll \in BOOLEAN
    /\ sweep = [i \in Sweeps |-> NoSweep]
    /\ crossed = {}

(* simulator.run(cb), cb being a request.  With needsUpdateAll a run that    *)
(* finds _remote set before "ready" calls itself without end and throws.     *)
Throws == sim = "early" /\ needsAll
Overtakes(a) == sim = "early" /\ Of(handlers, a) # {}
Run(ask) ==
    \/ /\ sim \in {"off", "starting"}
       /\ Len(handlers) < MaxQueue
       /\ sim' = "starting"
       /\ handlers' = Append(handlers, ask)
       /\ requests' = requests
    \/ Throws /\ UNCHANGED <<sim, handlers, requests>>
    \/ /\ sim \in {"early", "ready"} /\ ~Throws
       /\ Len(requests) < MaxQueue
       /\ requests' = Append(requests, ask)
       /\ UNCHANGED <<sim, handlers>>

(* updateApp up to its first asynchronous step: the manifest of a hosted    *)
(* app is requested, a packaged app's is read (ok or not) and its directory *)
(* is being archived.                                                       *)
Writing(a, g, sw) == [at |-> "write", app |-> a, gen |-> g, sweep |-> sw]
UpdateApp(a, g, sw) ==
    \E t \in Tasks :
        /\ task[t] = Idle
        /\ task' = [task EXCEPT ![t] =
                        IF a \in Hosted THEN [at |-> "fetch", app |-> a, gen |-> g, sweep |-> sw]
                                        ELSE Writing(a, g, sw)]

(* An operation that starts with nothing of the app under way clears what  *)
(* happened before; one that meets another does not.                       *)
Fresh(a) == IF Settled(a) THEN crossed \ {a} ELSE crossed

(* addManifest, addManifestFile: a new record, over an old one if there is. *)
Add(a) ==
    /\ registry[a].gen < MaxGen
    /\ registry' = [registry EXCEPT ![a] = [here |-> TRUE, gen |-> @.gen + 1, removed |-> FALSE]]
    /\ UpdateApp(a, registry[a].gen + 1, None)
    /\ crossed' = IF Settled(a) THEN crossed \ {a} ELSE crossed \cup {a}
    /\ UNCHANGED <<sim, handlers, requests, installed, needsAll, sweep>>

(* The command updateApp of the dashboard, offered for apps not removed. *)
Update(a) ==
    /\ Registered(a) /\ ~registry[a].removed
    /\ UpdateApp(a, registry[a].gen, None)
    /\ crossed' = Fresh(a)
    /\ UNCHANGED <<sim, handlers, requests, installed, registry, needsAll, sweep>>

(* removeApp: the flag, then uninstall once the simulator is ready. *)
RemoveApp(a) ==
    /\ Registered(a)
    /\ registry' = [registry EXCEPT ![a].removed = TRUE]
    /\ Run(Ask("uninstall", Rec(a), None))
    /\ crossed' = IF Busy(a) # {} \/ Overtakes(a) \/ Throws THEN crossed \cup {a} ELSE Fresh(a)
    /\ UNCHANGED <<installed, task, needsAll, sweep>>

ReinstallNot(a) == task' = task    \* mutant
Reinstall(a) == UpdateApp(a, registry[a].gen, None)

(* undoRemoveApp: the flag back, and an update. *)
UndoRemoveApp(a) ==
    /\ Registered(a) /\ registry[a].removed
    /\ registry' = [registry EXCEPT ![a].removed = FALSE]
    /\ Reinstall(a)
    /\ crossed' = Fresh(a)
    /\ UNCHANGED <<sim, handlers, requests, installed, needsAll, sweep>>

(* flushRemovedApps, when a dashboard page opens: removed records go. *)
Flush ==
    /\ \E a \in Apps : Registered(a) /\ registry[a].removed
    /\ registry' = [a \in Apps |-> IF registry[a].removed
                                   THEN [registry[a] EXCEPT !.here = FALSE, !.removed = FALSE]
                                   ELSE registry[a]]
    /\ UNCHANGED <<sim, handlers, requests, installed, task, needsAll, sweep, crossed>>

(* The next app of updateAll, once the update of the one before has ended. *)
SweepGoesOn(i) == sweep' = IF i # None THEN [sweep EXCEPT ![i].at = "next"] ELSE sweep

(* The manifest has come: updateApp's callback looks the record up again   *)
(* (and throws if it is gone), validates it, and _updateApp writes the     *)
(* files of the record it finds now.                                       *)
Fetched(t) ==
    /\ task[t].at = "fetch"
    /\ LET a == task[t].app IN
       \/ /\ Registered(a)
          /\ task' = [task EXCEPT ![t] = Writing(a, registry[a].gen, @.sweep)]
          /\ UNCHANGED <<sweep, crossed>>
       \/ /\ task' = [task EXCEPT ![t] = Idle]
          /\ crossed' = crossed \cup {a}
          /\ SweepGoesOn(IF Registered(a) THEN task[t].sweep ELSE None)
    /\ UNCHANGED <<sim, handlers, requests, installed, registry, needsAll>>

(* The files are written (or the archive failed): install when ready. *)
Written(t) ==
    /\ task[t].at = "write"
    /\ task' = [task EXCEPT ![t] = Idle]
    /\ LET a == task[t].app IN
       \/ /\ Run(Ask("install", <<a, task[t].gen>>, task[t].sweep))
          /\ crossed' = IF Overtakes(a) \/ Throws THEN crossed \cup {a} ELSE crossed
          /\ sweep' = sweep
       \/ /\ crossed' = crossed \cup {a}
          /\ SweepGoesOn(task[t].sweep)
          /\ UNCHANGED <<sim, handlers, requests>>
    /\ UNCHANGED <<installed, registry, needsAll>>

(* The debugger connection: _remote is set, then "ready" is emitted.  The  *)
(* handlers run in order.  needsUpdateAll is only reset here, so either no *)
(* run that waits has met it or all have: then each handler starts an      *)
(* updateAll, and its callback is called when that has ended.              *)
Early ==
    /\ sim = "starting"
    /\ sim' = "early"
    /\ UNCHANGED <<handlers, requests, installed, registry, task, needsAll, sweep, crossed>>

ActiveApps == {a \in Apps : Registered(a)}     \* `deleted` is a flag nobody sets
UpdateAll(h) == [at |-> "next", left |-> ActiveApps, then |-> h]
Ready ==
    /\ sim = "early"
    /\ sim' = "ready"
    /\ needsAll' = FALSE
    /\ handlers' = <<>>
    /\ \/ /\ needsAll /\ Len(handlers) =< MaxSweeps
          /\ sweep' = [i \in Sweeps |-> IF i \in DOMAIN handlers THEN UpdateAll(handlers[i])
                                                                ELSE sweep[i]]
          /\ crossed' = crossed \cup {handlers[n].rec[1] : n \in DOMAIN handlers}
                                \cup (IF handlers = <<>> THEN {} ELSE ActiveApps)
          /\ requests' = requests
       \/ /\ ~needsAll /\ Len(requests) + Len(handlers) =< MaxQueue
          /\ requests' = requests \o handlers
          /\ UNCHANGED <<sweep, crossed>>
    /\ UNCHANGED <<installed, registry, task>>

(* One step of the iterator of updateAll, in a timer; an app that has been *)
(* dropped meanwhile makes updateApp throw, and nothing follows.  At the   *)
(* end the callback of the run that waited is called.                      *)
SweepNext(i) ==
    /\ sweep[i].at = "next"
    /\ IF sweep[i].left = {}
       THEN /\ sim = "ready" /\ Len(requests) < MaxQueue
            /\ requests' = Append(requests, sweep[i].then)
            /\ sweep' = [sweep EXCEPT ![i] = NoSweep]
            /\ UNCHANGED <<task, crossed>>
       ELSE \E a \in sweep[i].left :
            /\ requests' = requests
            /\ IF Registered(a)
               THEN /\ UpdateApp(a, registry[a].gen, i)
                    /\ crossed' = crossed
                    /\ sweep' = [sweep EXCEPT ![i].at = "busy", ![i].left = @ \ {a}]
               ELSE /\ sweep' = [sweep EXCEPT ![i] = NoSweep]
                    /\ crossed' = crossed \cup {sweep[i].then.rec[1]}
                    /\ task' = task
    /\ UNCHANGED <<sim, handlers, installed, registry, needsAll>>

(* The simulator serves the requests in order and answers. *)
Serve ==
    /\ sim = "ready" /\ requests # <<>>
    /\ LET q == Head(requests) IN
       /\ installed' = IF q.do = "install" THEN installed \cup {q.rec} ELSE installed \ {q.rec}
       /\ SweepGoesOn(q.sweep)
    /\ requests' = Tail(requests)
    /\ UNCHANGED <<sim, handlers, registry, task, needsAll, crossed>>

(* The simulator ends: its requests get no answer, the handlers stay. *)
SimEnds ==
    /\ sim # "off"
    /\ sim' = "off" /\ requests' = <<>>
    /\ crossed' = crossed \cup {requests[i].rec[1] : i \in DOMAIN requests}
    /\ UNCHANGED <<handlers, installed, registry, task, needsAll, sweep>>

Next ==
    \/ \E a \in Apps : Add(a) \/ Update(a) \/ RemoveApp(a) \/ UndoRemoveApp(a)
    \/ Flush
    \/ \E t \in Tasks : Fetched(t) \/ Written(t)
    \/ \E i \in Sweeps : SweepNext(i)
    \/ Early \/ Ready \/ Serve \/ SimEnds

Spec == Init /\ [][Next]_vars

-----------------------------------------------------------------------------
Records == Apps \X (1..MaxGen)
Asks == [do : {"install", "uninstall"}, rec : Records, sweep : 0..MaxSweeps]
Steps == [at : {"fetch", "write"}, app : Apps, gen : 1..MaxGen, sweep : 0..MaxSweeps]
TypeOK ==
    /\ sim \in {"off", "starting", "early", "ready"}
    /\ handlers \in Seq(Asks) /\ Len(handlers) =< MaxQueue
    /\ requests \in Seq(Asks) /\ Len(requests) =< MaxQueue
    /\ installed \subseteq Records
    /\ registry \in [Apps -> [here : BOOLEAN, gen : 0..MaxGen, removed : BOOLEAN]]
    /\ \A a \in Apps : /\ Registered(a) => registry[a].gen # 0
                       /\ registry[a].removed => Registered(a)
    /\ task \in [Tasks -> Steps \cup {Idle}]
    /\ needsAll \in BOOLEAN
    /\ sweep \in [Sweeps -> {NoSweep} \cup
                   [at : {"next", "busy"}, left : SUBSET Apps, then : Asks]]
    /\ crossed \subseteq Apps

(* Once nothing is under way for a registered app, and nothing it was asked *)
(* since it last was at rest failed, was lost or overtook another, the      *)
(* simulator has it installed exactly if it is not marked removed.          *)
InstalledAgrees ==
    \A a \in Apps : Registered(a) /\ Settled(a) /\ a \notin crossed =>
        (Rec(a) \in installed <=> ~registry[a].removed)

=============================================================================
