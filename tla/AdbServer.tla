------------------------------ MODULE AdbServer ------------------------------
(***************************************************************************)
(* What a client program of the adb server sees: the listeners (alistener  *)
(* of adb.cpp), the smart socket that reads its requests (sockets.c), the  *)
(* services of the host itself (handle_host_request, wait_for_state), and  *)
(* the choice of a device (acquire_one_transport).  All of it runs on the  *)
(* event loop but the threads that wait for a device and the input thread  *)
(* that closes the sockets of a device that has gone.                      *)
(*                                                                         *)
(* A request is one value, handled when its last byte is there; text and   *)
(* lengths are left out but for a frame that cannot be read.  The life of  *)
(* a transport is that of AdbTransport, cut down to what is seen here.     *)
(***************************************************************************)
EXTENDS Naturals, Sequences, FiniteSets

CONSTANTS
  Device,      \* the transports that may be registered
  NoDevice,    \* no transport
  Client,      \* connections to the server, or to a forwarded port
  Port,        \* local names other than the smart socket's
  Smart,       \* the local name of the smart socket, "tcp:5037"
  Target       \* what a port can be forwarded to on a device

ASSUME ServerAssumption == NoDevice \notin Device /\ Smart \notin Port

VARIABLES
  state,       \* connection_state of each device
  phase,       \* how far each device is in its life
  listener,    \* listener_list, by local name
  dis,         \* the listeners on each transport's list of disconnects
  client,      \* the local socket of each client and what it waits for
  got          \* the statuses the client got for its last request

vars == <<state, phase, listener, dis, client, got>>
transportVars == <<state, phase>>
listenerVars == <<listener, dis>>
clientVars == <<client, got>>

Name == Port \cup {Smart}
Selector == Device \cup {"any"}

NoListener == [to |-> "none", tr |-> NoDevice]
Smartsocket == [to |-> "*smartsocket*", tr |-> NoDevice]

At == {"none", "smart", "opening", "open", "waiting", "reading", "closed"}
Rig == {"plain", "notify"}
Nobody == [at |-> "none", tr |-> NoDevice, sel |-> "any", rig |-> "plain"]

-----------------------------------------------------------------------------
(* Transports.                                                             *)

Listed(t) == phase[t] \in {"up", "down", "closed"}

(* The candidates of the loop over transport_list.                         *)
Matching(sel) ==
  {t \in Device : Listed(t) /\ state[t] # "noperm" /\ (sel = "any" \/ sel = t)}

OfflineToo(t) == FALSE                                              \* mutant
Ignored(t) == state[t] = "offline"

(* acquire_one_transport(CS_ANY, ...): the transport, or NULL.             *)
AcquireOne(sel) ==
  IF \E t \in Device : Matching(sel) = {t} /\ ~Ignored(t)
  THEN CHOOSE t \in Device : Matching(sel) = {t}
  ELSE NoDevice

(* run_transport_disconnects: the listeners on the list are freed and the  *)
(* streams whose remote socket is on it are closed.                        *)
Shut(c) == [client[c] EXCEPT !.at = "closed", !.tr = NoDevice]
RunDisconnects(t) ==
  /\ listener' = [n \in Name |-> IF n \in dis[t] THEN NoListener ELSE listener[n]]
  /\ dis' = [u \in Device |-> dis[u] \ dis[t]]
  /\ client' = [c \in Client |-> IF client[c].at = "open" /\ client[c].tr = t
                                 THEN Shut(c) ELSE client[c]]

(* transport_registration_func, action 1; a device that may not be opened  *)
(* gets no io threads.                                                     *)
Register(t) ==
  /\ phase[t] = "none"
  /\ \E s \in {"offline", "noperm"} : state' = [state EXCEPT ![t] = s]
  /\ phase' = [phase EXCEPT ![t] = "up"]
  /\ UNCHANGED <<listenerVars, clientVars>>

(* handle_packet of A_CNXN.                                                *)
Connected(t) ==
  /\ phase[t] = "up" /\ state[t] # "noperm"
  /\ state' = [state EXCEPT ![t] = "device"]
  /\ IF state[t] # "offline" THEN RunDisconnects(t) ELSE UNCHANGED <<listenerVars, client>>
  /\ UNCHANGED <<phase, got>>

(* handle_packet of SYNC(0,0).                                             *)
GoOffline(t) ==
  /\ phase[t] = "up" /\ state[t] # "noperm"
  /\ state' = [state EXCEPT ![t] = "offline"]
  /\ phase' = [phase EXCEPT ![t] = "down"]
  /\ RunDisconnects(t)
  /\ UNCHANGED got

(* close_all_sockets by the input thread: local_socket_close_locked is     *)
(* called itself, not the close the socket was rigged with.                *)
Bound(c, t) == client[c].at \in {"smart", "opening", "open"} /\ client[c].tr = t
CloseAllSockets(t) ==
  /\ phase[t] = "down"
  /\ phase' = [phase EXCEPT ![t] = "closed"]
  /\ client' = [c \in Client |-> IF Bound(c, t) THEN Shut(c) ELSE client[c]]
  /\ UNCHANGED <<state, listenerVars, got>>

(* transport_registration_func, action 0: after both threads have ended,   *)
(* or for a device without permission once it is unplugged.                *)
Remove(t) ==
  /\ phase[t] = "closed" \/ (phase[t] = "up" /\ state[t] = "noperm")
  /\ phase' = [phase EXCEPT ![t] = "freed"]
  /\ RunDisconnects(t)
  /\ UNCHANGED <<state, got>>

-----------------------------------------------------------------------------
(* Listeners.                                                              *)

InUse(n) == listener[n] # NoListener

(* free_listener.                                                          *)
FreeListeners(S) ==
  /\ listener' = [n \in Name |-> IF n \in S THEN NoListener ELSE listener[n]]
  /\ dis' = [t \in Device |-> dis[t] \ S]

(* The disconnect of a listener moves with it when it is rebound.          *)
LeaveBehind(n, t) == [dis EXCEPT ![t] = @ \cup {n}]                 \* mutant
MoveDisconnect(n, t) ==
  [u \in Device |-> IF u = t THEN dis[u] \cup {n} ELSE dis[u] \ {n}]

(* install_listener, and what handle_host_request answers.                 *)
Installed(n, norebind) ==
  ~InUse(n) \/ (listener[n].to # "*smartsocket*" /\ ~norebind)
Install(n, to, t) ==
  /\ listener' = [listener EXCEPT ![n] = [to |-> to, tr |-> t]]
  /\ dis' = IF InUse(n) THEN MoveDisconnect(n, t)
                        ELSE [dis EXCEPT ![t] = @ \cup {n}]

-----------------------------------------------------------------------------
(* Clients.                                                                *)

Smarting(c) == client[c].at = "smart"
Answer(c, statuses) == got' = [got EXCEPT ![c] = statuses]
CloseSmart(c) ==
  client' = [client EXCEPT ![c].at = "closed", ![c].tr = NoDevice]

(* ss_listener_event_func.                                                 *)
Connect(c) ==
  /\ client[c].at = "none" /\ InUse(Smart)
  /\ client' = [client EXCEPT ![c] = [Nobody EXCEPT !.at = "smart"]]
  /\ UNCHANGED <<transportVars, listenerVars, got>>

(* listener_event_func: no status is owed to a forwarded connection.       *)
Forwarded(c, n) ==
  /\ client[c].at = "none" /\ n # Smart /\ InUse(n)
  /\ client' = [client EXCEPT ![c] = [Nobody EXCEPT !.at = "opening",
                                                   !.tr = listener[n].tr]]
  /\ UNCHANGED <<transportVars, listenerVars, got>>

(* A frame smart_socket_enqueue cannot read, or host:emulator: closed with *)
(* no status.                                                              *)
AskNothing(c) ==
  /\ Smarting(c) /\ CloseSmart(c) /\ Answer(c, <<>>)
  /\ UNCHANGED <<transportVars, listenerVars>>

(* host:devices, get-state, get-serialno, get-devpath, list-forward.       *)
AskQuery(c) ==
  /\ Smarting(c) /\ CloseSmart(c) /\ Answer(c, <<"OKAY">>)
  /\ UNCHANGED <<transportVars, listenerVars>>

(* host:version, host:track-devices and services that do not exist.        *)
AskUnknown(c) ==
  /\ Smarting(c) /\ CloseSmart(c) /\ Answer(c, <<"FAIL">>)
  /\ UNCHANGED <<transportVars, listenerVars>>

(* host:transport: the connection stays open, also after FAIL.             *)
AskTransport(c, sel) ==
  LET t == AcquireOne(sel) IN
    /\ Smarting(c)
    /\ IF t # NoDevice
       THEN client' = [client EXCEPT ![c].tr = t] /\ Answer(c, <<"OKAY">>)
       ELSE Answer(c, <<"FAIL">>) /\ UNCHANGED client
    /\ UNCHANGED <<transportVars, listenerVars>>

(* host:forward:[norebind:]<n>;<to>                                        *)
AskForward(c, sel, n, to, norebind) ==
  LET t == AcquireOne(sel) IN
    /\ Smarting(c) /\ CloseSmart(c)
    /\ IF t # NoDevice /\ Installed(n, norebind)
       THEN Install(n, to, t) /\ Answer(c, <<"OKAY", "OKAY">>)
       ELSE Answer(c, <<"FAIL">>) /\ UNCHANGED listenerVars
    /\ UNCHANGED transportVars

(* The port is taken by another program.                                   *)
AskForwardBusy(c) ==
  /\ \E n \in Name : ~InUse(n)
  /\ Smarting(c) /\ CloseSmart(c) /\ Answer(c, <<"FAIL">>)
  /\ UNCHANGED <<transportVars, listenerVars>>

(* host:killforward:<n>: any device will do, and any listener.             *)
AskKillForward(c, sel, n) ==
  /\ Smarting(c) /\ CloseSmart(c)
  /\ IF AcquireOne(sel) # NoDevice /\ InUse(n)
     THEN FreeListeners({n}) /\ Answer(c, <<"OKAY", "OKAY">>)
     ELSE Answer(c, <<"FAIL">>) /\ UNCHANGED listenerVars
  /\ UNCHANGED transportVars

(* host:killforward-all spares the smart socket.                           *)
AskKillForwardAll(c) ==
  /\ Smarting(c) /\ CloseSmart(c) /\ Answer(c, <<"OKAY", "OKAY">>)
  /\ FreeListeners({n \in Name : listener[n].to # "*smartsocket*"})
  /\ UNCHANGED transportVars

(* A service of the device: the local socket is rigged to pass a status on *)
(* and OPEN is sent, or the device has gone.                               *)
AskService(c) ==
  LET t == client[c].tr IN
    /\ Smarting(c)
    /\ IF t # NoDevice /\ ~Ignored(t)
       THEN /\ client' = [client EXCEPT ![c].at = "opening", ![c].rig = "notify"]
            /\ Answer(c, <<>>)
       ELSE CloseSmart(c) /\ Answer(c, <<"FAIL">>)
    /\ UNCHANGED <<transportVars, listenerVars>>

(* local_socket_ready_notify, on each OKAY of the device.                  *)
StillRigged(c) == client[c].rig                                     \* mutant
Unrigged(c) == "plain"
DeviceOkay(c) ==
  /\ client[c].at \in {"opening", "open"} /\ state[client[c].tr] = "device"
  /\ client' = [client EXCEPT ![c].at = "open", ![c].rig = Unrigged(c)]
  /\ Answer(c, IF client[c].rig = "notify" THEN Append(got[c], "OKAY") ELSE got[c])
  /\ UNCHANGED <<transportVars, listenerVars>>

(* local_socket_close_notify or local_socket_close: CLSE of the device, or *)
(* the end of the client's input.                                          *)
LocalClose(c) ==
  /\ client[c].at \in {"opening", "open"}
  /\ client' = [client EXCEPT ![c].at = "closed", ![c].tr = NoDevice, ![c].rig = "plain"]
  /\ Answer(c, IF client[c].rig = "notify" THEN Append(got[c], "FAIL") ELSE got[c])
  /\ UNCHANGED <<transportVars, listenerVars>>

(* The client reads what is there and closes; its place is taken anew. A   *)
(* thread that still waits for it changes nothing any more.                *)
ClientLeaves(c) ==
  /\ client[c].at \in {"closed", "smart", "waiting", "reading"}
  /\ client' = [client EXCEPT ![c] = Nobody] /\ Answer(c, <<>>)
  /\ UNCHANGED <<transportVars, listenerVars>>

-----------------------------------------------------------------------------
(* host:wait-for-any and host-serial:<s>:wait-for-...: a thread.           *)

AskWait(c, sel) ==
  /\ Smarting(c)
  /\ client' = [client EXCEPT ![c].at = "waiting", ![c].tr = NoDevice, ![c].sel = sel]
  /\ Answer(c, <<"OKAY">>)
  /\ UNCHANGED <<transportVars, listenerVars>>

Ambiguous(sel) == sel = "any" /\ Cardinality(Matching(sel)) > 1

(* The list is searched under transport_lock ...                           *)
WaitPick(c) ==
  /\ client[c].at = "waiting"
  /\ \E t \in Device : /\ Matching(client[c].sel) = {t}
                       /\ client' = [client EXCEPT ![c].at = "reading", ![c].tr = t]
  /\ UNCHANGED <<transportVars, listenerVars, got>>

WaitAmbiguousNever(c) == FALSE                                      \* mutant
WaitGivesUp(c) == client[c].at = "waiting" /\ Ambiguous(client[c].sel)
WaitAmbiguous(c) ==
  /\ WaitGivesUp(c) /\ CloseSmart(c) /\ Answer(c, <<"OKAY", "FAIL">>)
  /\ UNCHANGED <<transportVars, listenerVars>>

(* ... and the state is read without it: of a transport that is freed it   *)
(* may be anything.                                                        *)
WaitRead(c) ==
  LET t == client[c].tr
      Found == CloseSmart(c) /\ Answer(c, <<"OKAY", "OKAY">>)
      Retry == /\ client' = [client EXCEPT ![c].at = "waiting", ![c].tr = NoDevice]
               /\ UNCHANGED got
  IN /\ client[c].at = "reading"
     /\ \/ phase[t] # "freed" /\ state[t] = "device" /\ Found
        \/ phase[t] # "freed" /\ state[t] # "device" /\ Retry
        \/ phase[t] = "freed" /\ (Found \/ Retry)
     /\ UNCHANGED <<transportVars, listenerVars>>

-----------------------------------------------------------------------------
Init ==
  /\ state = [t \in Device |-> "offline"] /\ phase = [t \in Device |-> "none"]
  /\ listener = [n \in Name |-> IF n = Smart THEN Smartsocket ELSE NoListener]
  /\ dis = [t \in Device |-> {}]
  /\ client = [c \in Client |-> Nobody] /\ got = [c \in Client |-> <<>>]

TransportStep ==
  \E t \in Device : Register(t) \/ Connected(t) \/ GoOffline(t)
                      \/ CloseAllSockets(t) \/ Remove(t)

Host(c) ==
  \/ AskNothing(c) \/ AskQuery(c) \/ AskUnknown(c) \/ AskKillForwardAll(c)
  \/ AskForwardBusy(c)
  \/ \E sel \in Selector :
       \/ AskTransport(c, sel) \/ AskWait(c, sel)
       \/ \E n \in Name : \/ AskKillForward(c, sel, n)
                          \/ \E to \in Target, norebind \in BOOLEAN :
                               AskForward(c, sel, n, to, norebind)

ClientStep(c) ==
  \/ Connect(c) \/ (\E n \in Name : Forwarded(c, n)) \/ AskService(c)
  \/ DeviceOkay(c) \/ LocalClose(c) \/ ClientLeaves(c)

WaitStep(c) == WaitPick(c) \/ WaitAmbiguous(c) \/ WaitRead(c)

Next == TransportStep \/ \E c \in Client : Host(c) \/ ClientStep(c) \/ WaitStep(c)

Spec == Init /\ [][Next]_vars

(* The thread that waits for a device looks again every second.            *)
FairSpec == Spec /\ \A c \in Client : WF_vars(WaitStep(c))

-----------------------------------------------------------------------------
(* Every variable has its type.                                            *)
TypeOK ==
  /\ state \in [Device -> {"offline", "device", "noperm"}]
  /\ phase \in [Device -> {"none", "up", "down", "closed", "freed"}]
  /\ listener \in [Name -> [to : Target \cup {"none", "*smartsocket*"},
                            tr : Device \cup {NoDevice}]]
  /\ dis \in [Device -> SUBSET Name]
  /\ client \in [Client -> [at : At, tr : Device \cup {NoDevice},
                            sel : Selector, rig : Rig]]
  /\ got \in [Client -> Seq({"OKAY", "FAIL"})] /\ \A c \in Client : Len(got[c]) <= 2

(* A port is forwarded only to a device that is connected: none outlives   *)
(* the transport it points to, through rebinding and reconnection.         *)
ForwardsOnline ==
  \A n \in Name : \A t \in Device :
    listener[n].tr = t => phase[t] = "up" /\ state[t] = "device"

(* The list of disconnects of a transport names its own listeners exactly. *)
DisconnectsAgree ==
  \A t \in Device : dis[t] = {n \in Name : listener[n].tr = t}

(* Once the input thread has closed the sockets of a device, none is bound *)
(* to it, nor will be: neither by a request nor through a forwarded port.  *)
NoSocketLeft ==
  \A t \in Device : phase[t] \in {"closed", "freed"} =>
    \A c \in Client : ~Bound(c, t)

(* A device that goes takes with it its own forwards and no others.        *)
OthersStay ==
  [][\A t \in Device : GoOffline(t) \/ Connected(t) \/ Remove(t) =>
       \A n \in Name : listener[n].tr # t => listener'[n] = listener[n]]_vars

(* A request for a service gets one status at most: whatever step is taken *)
(* while its stream is opened or open, also the one that closes it, the    *)
(* client has no second status after it, however often the device answers. *)
InService(c) == client[c].at \in {"opening", "open"}
OneStatus == [][\A c \in Client : InService(c) => Len(got'[c]) <= 1]_vars

(* A client that waits for a device is told as soon as there is one, or    *)
(* that there are several, unless that changes again.                      *)
Found(sel) == \E t \in Device : Matching(sel) = {t} /\ state[t] = "device"
Waits(c) == client[c].at = "waiting"
Told(c) ==
  \/ client[c].at \in {"closed", "none"}
  \/ ~(Found(client[c].sel) \/ Ambiguous(client[c].sel))
WaitAnswered == \A c \in Client : Waits(c) ~> Told(c)

(* sockets.c rigs local sockets "to avoid closing them without a status    *)
(* message": a client whose connection is closed has got a status.         *)
Answered ==
  \A c \in Client :
    client[c].at = "closed" /\ client[c].rig = "notify" => got[c] # <<>>
=============================================================================
