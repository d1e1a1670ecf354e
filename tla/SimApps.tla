-------------------------------- MODULE SimApps --------------------------------
(***************************************************************************)
(* The apps that run in the simulator, what the dashboard knows of them,   *)
(* and the toolbox that is connected to one of them: connectToApp, runApp  *)
(* and the handlers of appOpen, appClose and onExit of simulator.js; at    *)
(* the other end of the debugger connection dbg-simulator-actors.js, which *)
(* launches an app, and dbg-webapps-actors.js, which watches the frames of *)
(* the apps and hands out actors for them. The connection keeps the order. *)
(*                                                                         *)
(* Left out: how the simulator starts (SimProcess), how an app is          *)
(* installed (AppRegistry), apps that the dashboard does not have, the     *)
(* system app, the window of the simulator.                                *)
(***************************************************************************)
EXTENDS Naturals, Sequences, SequencesExt

CONSTANTS Apps, MaxConns, MaxTouches   \* bounds: connections, and what the user does to a frame

Conns == 1..MaxConns
None == 0

VARIABLES
  simulator,         \* "off", "starting", "ready"
  present,           \* apps that are installed
  frame,             \* frame[a]: "none", "created", "open"
  actors,            \* apps whose frame is in _appActorsMap
  byOrigin,          \* apps with a frame, of now or of before, in _framesByOrigin
  launching,         \* apps for which a runnable of _runApp is under way
  asks, tells,       \* requests, and replies and events, on the connection
  running,           \* running[a]: how often a is in gRunningApps
  step,              \* step[k]: where connection k is
  target,            \* target[k]: its app
  second,            \* connections that run their app after an update
  current, toolbox, manifestURL,   \* gCurrentConnection, gCurrentToolbox, gCurrentToolboxManifestURL
  shown,             \* toolboxes on the screen
  touches,
  unseen,            \* apps with a frame whose opening was not told
  again,             \* apps whose opening was told twice
  deaf,              \* connections that listen for an opening that nobody owes them
  late               \* connections whose app was closed before the toolbox was there

frameVars == <<present, frame, actors, byOrigin, launching, unseen, again>>
toolVars == <<current, toolbox, manifestURL, shown>>
connVars == <<step, target, second, deaf, late>>
appsVars == <<simulator, frameVars, asks, tells, running, connVars, toolVars, touches>>

Goes(k, s) == step' = [step EXCEPT ![k] = s]
Asks(r) == asks' = Append(asks, r)
Tells(e) == tells' = Append(tells, e)

-----------------------------------------------------------------------------
(* simulator.run with a callback: at once if the simulator is ready, else  *)
(* with the next event "ready".                                            *)
RunOf(k, rest) ==
  /\ step' = [rest EXCEPT ![k] = IF simulator = "ready" THEN "asked" ELSE "run"]
  /\ IF simulator = "ready" THEN Asks(<<"runApp", k>>) ELSE UNCHANGED asks
  /\ simulator' = IF simulator = "off" THEN "starting" ELSE simulator
  /\ running' = IF simulator = "off" THEN [a \in Apps |-> 0] ELSE running

ConnectToApp(a) ==
  \E k \in Conns :
    /\ step[k] = "off" /\ \A j \in 1..(k - 1) : step[j] # "off"
    /\ current' = k /\ target' = [target EXCEPT ![k] = a] /\ RunOf(k, step)
    /\ UNCHANGED <<frameVars, tells, toolbox, manifestURL, shown, second, deaf, late, touches>>

(* updateApp, of an app that was not installed; then it is run again.      *)
Updated(k) ==
  /\ step[k] = "update"
  /\ \/ present' = present \cup {target[k]} /\ second' = second \cup {k} /\ RunOf(k, step)
     \/ Goes(k, "over") /\ UNCHANGED <<present, second, asks, simulator, running>>
  /\ UNCHANGED <<frame, actors, byOrigin, launching, unseen, again, tells, toolVars, target,
                 deaf, late, touches>>

SimReady ==
  /\ simulator = "starting" /\ simulator' = "ready"
  /\ step' = [k \in Conns |-> IF step[k] = "run" THEN "asked" ELSE step[k]]
  /\ asks' = SelectSeq([k \in Conns |-> <<"runApp", k>>], LAMBDA r : step[r[2]] = "run")
  /\ UNCHANGED <<frameVars, tells, running, toolVars, target, second, deaf, late, touches>>

(* onExit closes the toolbox; what is on the connection is lost.           *)
Waiting == {"asked", "actor", "show"}
SimExits ==
  /\ simulator # "off" /\ simulator' = "off"
  /\ shown' = shown \ {toolbox} /\ toolbox' = None
  /\ frame' = [a \in Apps |-> "none"] /\ actors' = {} /\ byOrigin' = {} /\ launching' = {}
  /\ asks' = <<>> /\ tells' = <<>> /\ unseen' = {} /\ again' = {}
  /\ step' = [k \in Conns |-> IF step[k] \in Waiting THEN "over" ELSE step[k]]
  /\ deaf' = deaf \cup {k \in Conns : step[k] = "listen"}
  /\ late' = late \cup {k \in Conns : step[k] = "attached"}
  /\ UNCHANGED <<present, running, target, second, current, manifestURL, touches>>

-----------------------------------------------------------------------------
(* The simulator. appwillopen is told once for a frame, unless the frame   *)
(* is in the map already; it is taken from the map when the toolbox        *)
(* attaches to it. Nobody watches before the connection is ready.          *)
Ignored(a) == a \in actors
handleWillOpen(a) ==
  IF simulator # "ready" \/ Ignored(a)
  THEN /\ unseen' = IF frame[a] = "created" THEN unseen \cup {a} ELSE unseen
       /\ UNCHANGED <<actors, byOrigin, again, tells>>
  ELSE /\ actors' = actors \cup {a} /\ byOrigin' = byOrigin \cup {a} /\ Tells(<<"appOpen", a>>)
       /\ again' = IF frame[a] = "open" /\ a \notin actors THEN again \cup {a} ELSE again
       /\ UNCHANGED unseen

handleTerminated(a) ==
  IF a \in byOrigin THEN Tells(<<"appClose", a>>) ELSE UNCHANGED tells

(* A frame comes into the document, by a launch or by the user; then its   *)
(* event; it may come to the foreground again, and it is closed.           *)
Untouched == UNCHANGED <<simulator, present, running, connVars, toolVars>>
Touch == touches < MaxTouches /\ touches' = touches + 1

UserOpens(a) ==
  /\ simulator # "off" /\ frame[a] = "none" /\ a \in present /\ Touch
  /\ frame' = [frame EXCEPT ![a] = "created"]
  /\ Untouched /\ UNCHANGED <<actors, byOrigin, launching, asks, tells, unseen, again>>

WillOpen(a) ==
  /\ frame[a] = "created" /\ handleWillOpen(a) /\ frame' = [frame EXCEPT ![a] = "open"]
  /\ Untouched /\ UNCHANGED <<launching, asks, touches>>

Foreground(a) ==
  /\ frame[a] = "open" /\ Touch /\ handleWillOpen(a)
  /\ Untouched /\ UNCHANGED <<frame, launching, asks>>

Terminated(a) ==
  /\ frame[a] = "open" /\ Touch /\ handleTerminated(a)
  /\ frame' = [frame EXCEPT ![a] = "none"] /\ actors' = actors \ {a}
  /\ Untouched /\ UNCHANGED <<byOrigin, launching, asks, unseen, again>>

(* onRunApp answers, and does the rest in a runnable: an app that runs is  *)
(* reloaded, else it is launched, if it is found.                          *)
Serves == asks' = Tail(asks)
onRunApp ==
  /\ asks # <<>> /\ Head(asks)[1] = "runApp" /\ Serves
  /\ LET k == Head(asks)[2] IN
     /\ launching' = IF target[k] \in present THEN launching \cup {target[k]} ELSE launching
     /\ Tells(<<"ran", k, target[k] \in present>>)
  /\ Untouched /\ UNCHANGED <<frame, actors, byOrigin, unseen, again, touches>>

RunApp(a) ==
  /\ a \in launching /\ launching' = launching \ {a}
  /\ \/ frame[a] # "none" /\ UNCHANGED <<frame, deaf>>
     \/ frame[a] = "none" /\ frame' = [frame EXCEPT ![a] = "created"] /\ UNCHANGED deaf
     \/ /\ frame[a] = "none" /\ deaf' = deaf \cup {k \in Conns : target[k] = a} /\ UNCHANGED frame
  /\ UNCHANGED <<simulator, present, running, step, target, second, late, toolVars, actors,
                 byOrigin, asks, tells, unseen, again, touches>>

(* listApps makes an actor for each frame, also one not yet told of.       *)
Frames == {a \in Apps : frame[a] # "none"}
listApps ==
  /\ asks # <<>> /\ Head(asks)[1] = "listApps" /\ Serves
  /\ actors' = actors \cup Frames
  /\ Tells(<<"actor", Head(asks)[2], target[Head(asks)[2]] \in Frames>>)
  /\ Untouched /\ UNCHANGED <<frame, byOrigin, launching, unseen, again, touches>>

Attach ==
  /\ asks # <<>> /\ Head(asks)[1] = "attach" /\ Serves
  /\ LET k == Head(asks)[2] IN
       Goes(k, IF frame[target[k]] = "none" THEN "over" ELSE "attached") /\ actors' = actors \ {target[k]}
  /\ UNCHANGED <<simulator, present, running, target, second, deaf, late, toolVars, frame,
                 byOrigin, launching, tells, unseen, again, touches>>

-----------------------------------------------------------------------------
(* openToolboxForApp, by those of ks that are the current connection:      *)
(* nobody else has a say any more.                                         *)
OpenToolboxForApp(ks) ==
  /\ step' = [k \in Conns |-> IF k \notin ks THEN step[k] ELSE IF k = current THEN "actor" ELSE "over"]
  /\ IF current \in ks
     THEN /\ shown' = shown \ {toolbox} /\ toolbox' = None /\ manifestURL' = target[current]
          /\ Asks(<<"listApps", current>>)
     ELSE UNCHANGED <<shown, toolbox, manifestURL, asks>>
  /\ UNCHANGED current

(* What the dashboard is told: the answer to runApp, appOpen and appClose, *)
(* and the actors of listApps. A second failure to run goes on as if it    *)
(* had succeeded: openToolboxForApp looks at no error.                     *)
Hears(e) == tells # <<>> /\ Head(tells)[1] = e /\ tells' = Tail(tells)
Ran ==
  /\ Hears("ran")
  /\ LET k == Head(tells)[2]  success == Head(tells)[3] IN
     IF (success /\ running[target[k]] > 0) \/ (~success /\ k \in second)
     THEN OpenToolboxForApp({k})
     ELSE Goes(k, IF success THEN "listen" ELSE "update") /\ UNCHANGED <<toolVars, asks>>
  /\ UNCHANGED <<simulator, frameVars, running, target, second, deaf, late, touches>>

AppOpen ==
  /\ Hears("appOpen")
  /\ LET a == Head(tells)[2] IN
     /\ running' = [running EXCEPT ![a] = @ + 1]
     /\ OpenToolboxForApp({k \in Conns : step[k] = "listen" /\ target[k] = a})
  /\ UNCHANGED <<simulator, frameVars, target, second, deaf, late, touches>>

(* The handler of appClose throws when the toolbox is not there yet.       *)
AppClose ==
  /\ Hears("appClose")
  /\ LET a == Head(tells)[2] IN
     /\ running' = [running EXCEPT ![a] = IF @ > 0 THEN @ - 1 ELSE 0]
     /\ IF manifestURL = a
        THEN shown' = shown \ {toolbox} /\ toolbox' = None
        ELSE UNCHANGED <<shown, toolbox>>
     /\ late' = IF manifestURL = a /\ toolbox = None /\ current # None
                THEN late \cup {current} ELSE late
  /\ UNCHANGED <<simulator, frameVars, asks, step, target, second, deaf, current, manifestURL, touches>>

GetActor ==
  /\ Hears("actor")
  /\ LET k == Head(tells)[2] IN
     IF Head(tells)[3] THEN Goes(k, "show") /\ Asks(<<"attach", k>>)
     ELSE Goes(k, "over") /\ UNCHANGED asks
  /\ UNCHANGED <<simulator, frameVars, running, target, second, deaf, late, toolVars, touches>>

(* The promise of showToolbox.                                             *)
Superseded(k) == k # current
ToolboxDisplayed(k) ==
  /\ step[k] = "attached" /\ Goes(k, "over")
  /\ IF Superseded(k) THEN UNCHANGED <<shown, toolbox>>
     ELSE shown' = shown \cup {k} /\ toolbox' = k
  /\ UNCHANGED <<simulator, frameVars, asks, tells, running, target, second, deaf, late, current,
                 manifestURL, touches>>

(* The user closes a toolbox; nobody is told.                              *)
UserClosesToolbox(k) ==
  /\ k \in shown /\ shown' = shown \ {k}
  /\ UNCHANGED <<simulator, frameVars, asks, tells, running, connVars, current, toolbox,
                 manifestURL, touches>>

-----------------------------------------------------------------------------
Init ==
  /\ simulator = "off" /\ present \in SUBSET Apps
  /\ frame = [a \in Apps |-> "none"] /\ actors = {} /\ byOrigin = {} /\ launching = {}
  /\ asks = <<>> /\ tells = <<>> /\ running = [a \in Apps |-> 0]
  /\ step = [k \in Conns |-> "off"] /\ target = [k \in Conns |-> "none"] /\ second = {}
  /\ current = None /\ toolbox = None /\ manifestURL = "none" /\ shown = {} /\ touches = 0
  /\ unseen = {} /\ again = {} /\ deaf = {} /\ late = {}

Next ==
  \/ SimReady \/ SimExits \/ onRunApp \/ listApps \/ Attach
  \/ Ran \/ AppOpen \/ AppClose \/ GetActor
  \/ \E a \in Apps : ConnectToApp(a) \/ UserOpens(a) \/ WillOpen(a) \/ Foreground(a)
                     \/ Terminated(a) \/ RunApp(a)
  \/ \E k \in Conns : Updated(k) \/ ToolboxDisplayed(k) \/ UserClosesToolbox(k)

Spec == Init /\ [][Next]_appsVars

-----------------------------------------------------------------------------
Told(e) == {i \in DOMAIN tells : tells[i] = e}
Times(e) == Len(SelectSeq(tells, LAMBDA x : x = e))

(* There is one toolbox at most, the one that onExit, appClose and the     *)
(* next connection will destroy, and it is of the app they think it is of. *)
(* It does not outlive its app, unless the app was closed, or the          *)
(* simulator, before the toolbox was there.                                *)
OneToolbox ==
  /\ shown \subseteq {toolbox} \ {None}
  /\ toolbox # None => manifestURL = target[toolbox] /\ toolbox \notin {k \in Conns : step[k] # "over"}
  /\ toolbox # None /\ toolbox \notin late /\ target[toolbox] \notin unseen =>
       frame[target[toolbox]] # "none" \/ Told(<<"appClose", target[toolbox]>>) # {}

(* gRunningApps counts the apps that run, give or take what is on its way; *)
(* but for an app whose opening fell before the watch, or between the      *)
(* making of its frame and a listApps, and for one that was debugged and   *)
(* then came to the foreground again.                                      *)
RunningAgrees ==
  simulator = "ready" => \A a \in Apps \ (unseen \cup again) :
    running[a] + Times(<<"appOpen", a>>)
      = (IF frame[a] = "open" THEN 1 ELSE 0) + Times(<<"appClose", a>>)

(* A connection that listens for the opening of its app will hear of one.  *)
ListenAgrees ==
  \A k \in Conns \ deaf : step[k] = "listen" /\ target[k] \notin unseen =>
    target[k] \in launching \/ frame[target[k]] = "created" \/ Told(<<"appOpen", target[k]>>) # {}

=============================================================================
