------------------------------ MODULE DevicePush ------------------------------
(***************************************************************************)
(* Apps pushed to a device: the device tracker, the port forwarded to the  *)
(* device, the debugger connection through it (debugger.js) and the push   *)
(* of an app (simulator.js), against devices that come and go.             *)
(*                                                                         *)
(* The main thread handles one event at a time; the list of devices comes  *)
(* from the server's worker, the outcome of a query from the utility and   *)
(* io workers, answers from the debugger server of the device, so the      *)
(* order between them is any.  A file is pushed by FileSync.               *)
(***************************************************************************)
EXTENDS Naturals, Sequences, FiniteSets

CONSTANTS
    Devices,
    Pushes,       \* pushes of an app, each once, and so their DebuggerClients
    Packaged,     \* those of a packaged app: one file; the others: two
    Flaky,        \* the devices that are also listed as offline (bound)
    MaxUpdates,   \* lists of devices on their way (bound)
    NoOne

(* Assumed of the constants (an instance checks it). *)
PushAssumption ==
    /\ Packaged \subseteq Pushes /\ Flaky \subseteq Devices /\ MaxUpdates \in Nat \ {0}
    /\ NoOne \notin Devices \cup Pushes

VARIABLES
    plugged,       \* per device what the server lists: "gone", "offline" or "device"
    forward,       \* the device the server forwards the port to
    updates,       \* lists of devices on their way to the tracker
    devices,       \* the tracker: "unknown", "off" (false) or the status
    hasDevice,
    deviceConnected, adbReady, debuggerReady,     \* simulator.js
    client, webappsActor,                         \* debugger.js: the push whose they are
    link,          \* per push: its DebuggerClient, and the device it leads to
    push,          \* per push: where it is
    got,           \* per device: the files that were pushed whole
    installed,     \* per device: the pushes whose install request it carried out
    crossed,       \* an answer was overtaken by the loss of a device, or two were there, or two clients
    own            \* per push: the client when its files began to be pushed

tracker == <<devices, hasDevice>>
flags == <<deviceConnected, adbReady, debuggerReady>>
globals == <<client, webappsActor>>
history == <<crossed, own>>
vars == <<plugged, forward, updates, devices, hasDevice, deviceConnected, adbReady,
          debuggerReady, client, webappsActor, link, push, got, installed, crossed, own>>

Present == {d \in Devices : plugged[d] # "gone"}
Files(i) == IF i \in Packaged THEN <<"package">> ELSE <<"manifest", "metadata">>
To(i, s) == push' = [push EXCEPT ![i].at = s]

(* "sent": the device has answered listTabs; "alive": nothing has cut the link *)
NoLink == [at |-> "none", dev |-> NoOne, alive |-> FALSE]
Cut(S) == [i \in Pushes |-> IF i \in S THEN [link[i] EXCEPT !.alive = FALSE] ELSE link[i]]
Leading(d) == {i \in Pushes : link[i].dev = d /\ link[i].alive}
Unsettled == {i \in Pushes : link[i].at = "sent" \/ (link[i].alive /\ link[i].at \in {"trying", "up"})}
Init ==
    /\ plugged = [d \in Devices |-> "gone"] /\ forward = NoOne /\ updates = <<>>
    /\ devices = [d \in Devices |-> "unknown"] /\ hasDevice = FALSE
    /\ deviceConnected = FALSE /\ adbReady = FALSE /\ debuggerReady = FALSE
    /\ client = NoOne /\ webappsActor = NoOne
    /\ link = [i \in Pushes |-> NoLink]
    /\ push = [i \in Pushes |-> [at |-> "new", files |-> Files(i)]]
    /\ got = [d \in Devices |-> {}] /\ installed = [d \in Devices |-> {}]
    /\ crossed = FALSE /\ own = [i \in Pushes |-> NoOne]

-----------------------------------------------------------------------------
(* The server: a device comes, changes or goes; each time the new list is   *)
(* sent.  A device that goes takes the forwarded port with it, one that     *)
(* goes or is offline the connections.                                      *)
Changes(d, s) ==
    /\ plugged[d] # s /\ Len(updates) < MaxUpdates /\ (s = "offline" => d \in Flaky)
    /\ plugged' = [plugged EXCEPT ![d] = s]
    /\ updates' = Append(updates, plugged')
    /\ forward' = IF s = "gone" /\ forward = d THEN NoOne ELSE forward
    /\ link' = IF s = "device" THEN link ELSE Cut(Leading(d))
    /\ crossed' = CASE s = "device" -> crossed
                     [] s = "offline" -> crossed \/ Leading(d) # {}
                     [] s = "gone" -> \/ crossed \/ Present # {d}
                                      \/ \E i \in Pushes : push[i].at = "answer" \/ link[i].at = "sent"
    /\ UNCHANGED <<tracker, flags, globals, push, got, installed, own>>

(* The debugger server of the device goes: nobody listens for the close.    *)
LinkLost(i) ==
    /\ link[i].alive
    /\ link' = Cut({i})
    /\ crossed' = TRUE
    /\ UNCHANGED <<plugged, forward, updates, tracker, flags, globals, push, got, installed, own>>

(* handleChange, with the notifications and what observe does at each: the  *)
(* empty list turns every known device off; otherwise a device whose status *)
(* is new is connected, an absent one is left as it was.                    *)
Listed(u) == {d \in Devices : u[d] # "gone"}
DropPort == adbReady' = FALSE /\ debuggerReady' = debuggerReady    \* mutant
DropFlags == adbReady' = FALSE /\ debuggerReady' = FALSE
HandleChange ==
    /\ updates # <<>>
    /\ updates' = Tail(updates)
    /\ LET u == Head(updates)
           known == {d \in Devices : devices[d] # "unknown"}
           new == {d \in Listed(u) : devices[d] # u[d]}
       IN  /\ hasDevice' = (Listed(u) # {})
           /\ IF Listed(u) = {}
              THEN /\ devices' = [d \in Devices |-> IF d \in known THEN "off" ELSE devices[d]]
                   /\ IF known = {} THEN UNCHANGED flags ELSE deviceConnected' = FALSE /\ DropFlags
              ELSE /\ devices' = [d \in Devices |-> IF d \in new THEN u[d] ELSE devices[d]]
                   /\ deviceConnected' = (deviceConnected \/ new # {})
                   /\ UNCHANGED <<adbReady, debuggerReady>>
    /\ UNCHANGED <<plugged, forward, globals, link, push, got, installed, history>>

-----------------------------------------------------------------------------
(* connectToDevice for push i: connectADBToDevice, then, at once if the     *)
(* port is forwarded, connectDebuggerToDevice, then the files.              *)

(* Debugger.init: the global client is the new one at once; the port is     *)
(* connected to if something is forwarded.                                  *)
Begins(i, c) == own' = [own EXCEPT ![i] = c]
ConnectDebugger(i) ==
    IF debuggerReady
    THEN To(i, "files") /\ Begins(i, client) /\ UNCHANGED <<client, link, crossed>>
    ELSE /\ To(i, "connect")
         /\ client' = i
         /\ link' = [link EXCEPT ![i] = IF forward = NoOne THEN [@ EXCEPT !.at = "refused"]
                                        ELSE [at |-> "trying", dev |-> forward, alive |-> TRUE]]
         /\ crossed' = (crossed \/ Unsettled # {})
         /\ own' = own

(* forwardPort without a device rejects, and nobody handles it. *)
PushAppToDevice(i) ==
    /\ push[i].at = "new"
    /\ IF adbReady THEN ConnectDebugger(i)
       ELSE To(i, IF hasDevice THEN "query" ELSE "open") /\ UNCHANGED <<client, link, crossed, own>>
    /\ UNCHANGED <<plugged, forward, updates, tracker, flags, webappsActor, got, installed>>

(* The utility worker: connect_service, as the server answers it (one       *)
(* device, or the query fails and the rejected promise is not handled).     *)
Query(i) ==
    /\ push[i].at = "query"
    /\ IF Cardinality(Present) = 1
       THEN (\E d \in Present : forward' = d) /\ To(i, "answer")
       ELSE forward' = forward /\ To(i, "open")
    /\ UNCHANGED <<plugged, updates, tracker, flags, globals, link, got, installed, history>>

(* The io worker has read the answer. *)
SetsReady == adbReady' = TRUE
Answer(i) ==
    /\ push[i].at = "answer"
    /\ SetsReady
    /\ ConnectDebugger(i)
    /\ UNCHANGED <<plugged, forward, updates, tracker, deviceConnected, debuggerReady,
                   webappsActor, got, installed>>

(* onConnected stops the timer and asks for the tabs; the device answers,   *)
(* and the answer arrives: with an actor, or without.                       *)
Connected(i) ==
    /\ link[i].at = "trying" /\ link[i].alive
    /\ link' = [link EXCEPT ![i].at = "up"]
    /\ IF push[i].at = "connect" THEN To(i, "tabs") ELSE push' = push
    /\ UNCHANGED <<plugged, forward, updates, tracker, flags, globals, got, installed, history>>
TabsSent(i) ==
    /\ link[i].at = "up" /\ link[i].alive
    /\ link' = [link EXCEPT ![i].at = "sent"]
    /\ UNCHANGED <<plugged, forward, updates, tracker, flags, globals, push, got, installed, history>>
Tabs(i) ==
    /\ link[i].at = "sent"
    /\ \/ /\ webappsActor' = i
          /\ link' = [link EXCEPT ![i].at = "ready"]
          /\ IF push[i].at = "tabs" THEN To(i, "files") /\ Begins(i, client) /\ debuggerReady' = TRUE
                                    ELSE UNCHANGED <<push, own, debuggerReady>>
       \/ /\ To(i, "told")
          /\ link' = [link EXCEPT ![i].at = "useless"]
          /\ UNCHANGED <<webappsActor, own, debuggerReady>>
    /\ UNCHANGED <<plugged, forward, updates, tracker, deviceConnected, adbReady, client, got,
                   installed, crossed>>

(* 15 seconds without onConnected: the user is told; a connection may still *)
(* be made.                                                                 *)
Timeout(i) ==
    /\ push[i].at = "connect"
    /\ To(i, "told")
    /\ UNCHANGED <<plugged, forward, updates, tracker, flags, globals, link, got, installed, history>>

(* ADB.push of the next file: to the only device, or it fails, or its       *)
(* promise stays open (JsClosed of FileSync).  Building it may fail too.    *)
AloneNot(d) == d \in Present    \* mutant
Alone(d) == Present = {d}
PushFile(i) ==
    /\ push[i].at = "files" /\ push[i].files # <<>>
    /\ \/ \E d \in Present :
            /\ hasDevice /\ Alone(d) /\ plugged[d] = "device"
            /\ got' = [got EXCEPT ![d] = @ \cup {<<i, Head(push[i].files)>>}]
            /\ push' = [push EXCEPT ![i].files = Tail(@)]
       \/ To(i, "failed") /\ got' = got
       \/ To(i, "open") /\ got' = got /\ hasDevice
    /\ UNCHANGED <<plugged, forward, updates, tracker, flags, globals, link, installed, history>>

(* webappsRequest: to the actor and on the client that are global now.  The *)
(* device answers on a connection that stands; the actor of another         *)
(* connection it does not know.                                             *)
Request(i) ==
    /\ push[i].at = "files" /\ push[i].files = <<>>
    /\ LET c == link[client] IN
       \/ /\ c.at = "ready" /\ c.alive /\ webappsActor = client
          /\ installed' = [installed EXCEPT ![c.dev] = @ \cup {i}] /\ To(i, "installed")
       \/ c.at = "ready" /\ c.alive /\ installed' = installed /\ To(i, "failed")
       \/ ~(c.at = "ready" /\ c.alive) /\ installed' = installed /\ To(i, "open")
    /\ UNCHANGED <<plugged, forward, updates, tracker, flags, globals, link, got, history>>

Next ==
    \/ \E d \in Devices, s \in {"gone", "offline", "device"} : Changes(d, s)
    \/ HandleChange
    \/ \E i \in Pushes :
          \/ PushAppToDevice(i) \/ Query(i) \/ Answer(i) \/ Connected(i) \/ TabsSent(i) \/ Tabs(i)
          \/ Timeout(i) \/ PushFile(i) \/ Request(i) \/ LinkLost(i)

Spec == Init /\ [][Next]_vars

-----------------------------------------------------------------------------
TypeOK ==
    /\ plugged \in [Devices -> {"gone", "offline", "device"}] /\ forward \in Devices \cup {NoOne}
    /\ devices \in [Devices -> {"unknown", "off", "offline", "device"}]
    /\ {hasDevice, deviceConnected, adbReady, debuggerReady, crossed} \subseteq BOOLEAN
    /\ client \in Pushes \cup {NoOne} /\ webappsActor \in Pushes \cup {NoOne}
    /\ \A i \in Pushes :
          /\ link[i].at \in {"none", "refused", "trying", "up", "sent", "ready", "useless"}
          /\ link[i].dev \in Devices \cup {NoOne}
          /\ push[i].at \in {"new", "query", "answer", "connect", "tabs", "files",
                            "installed", "failed", "told", "open"}

(* With every list handled, the dashboard and the tracker know whether a    *)
(* device is there; and unless an answer was overtaken by the loss of its   *)
(* device, one of several was lost, a link was cut, or two clients were     *)
(* made at a time, a flag that says "ready" is true: the port is forwarded, *)
(* the global client is connected, and the actor is one of its connection.  *)
ReadyAgrees ==
    updates = <<>> =>
        /\ hasDevice = (Present # {}) /\ deviceConnected = (Present # {})
        /\ ~crossed =>
              /\ adbReady => forward # NoOne
              /\ debuggerReady =>
                    link[client].at = "ready" /\ link[client].alive /\ webappsActor = client

(* A device that carries out an install request finds every file of the     *)
(* app, whatever devices came and went while they were pushed, unless       *)
(* another push has made itself the global client meanwhile.                *)
InstallWhole ==
    \A d \in Devices : \A i \in installed[d] :
        own[i] = client => \A n \in DOMAIN Files(i) : <<i, Files(i)[n]>> \in got[d]

=============================================================================
