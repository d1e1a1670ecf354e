--------------------------- MODULE AdbServerProofs ---------------------------
(***************************************************************************)
(* For any number of devices, clients, ports and targets: no forward and   *)
(* no socket outlives the connection of the transport it names, and a      *)
(* request for a service is answered with one status at most.              *)
(***************************************************************************)
EXTENDS AdbServer, TLAPS

(* The part of TypeOK the proofs use.                                      *)
Types ==
  /\ state \in [Device -> {"offline", "device", "noperm"}]
  /\ phase \in [Device -> {"none", "up", "down", "closed", "freed"}]
  /\ listener \in [Name -> [to : Target \cup {"none", "*smartsocket*"},
                            tr : Device \cup {NoDevice}]]
  /\ dis \in [Device -> SUBSET Name]
  /\ client \in [Client -> [at : At, tr : Device \cup {NoDevice},
                            sel : Selector, rig : Rig]]

(* A transport that has gone offline stays so until it is freed: what      *)
(* acquire_one_transport relies on.                                        *)
StaysOffline ==
  \A t \in Device : phase[t] \in {"down", "closed"} => state[t] = "offline"

(* A socket is bound to a transport that has, or had, its io threads.      *)
BoundToLive ==
  \A c \in Client : \A t \in Device :
    Bound(c, t) => phase[t] \in {"up", "down"} /\ state[t] # "noperm"

IInv == Types /\ StaysOffline /\ ForwardsOnline /\ DisconnectsAgree /\ BoundToLive

USE ServerAssumption DEF ServerAssumption

(* acquire_one_transport returns a device that is connected, or NULL.      *)
LEMMA Acquired ==
  ASSUME IInv, NEW sel \in Selector, AcquireOne(sel) # NoDevice
  PROVE  /\ AcquireOne(sel) \in Device
         /\ phase[AcquireOne(sel)] = "up" /\ state[AcquireOne(sel)] = "device"
<1> DEFINE t == AcquireOne(sel)
<1>1. \E u \in Device : Matching(sel) = {u} /\ ~Ignored(u)
  BY DEF AcquireOne
<1>2. PICK u \in Device : Matching(sel) = {u} /\ ~Ignored(u)
  BY <1>1
<1>3. t = CHOOSE v \in Device : Matching(sel) = {v}
  BY <1>1 DEF AcquireOne
<1>4. t \in Device /\ Matching(sel) = {t}
  BY <1>2, <1>3
<1>5. t = u
  BY <1>2, <1>4
<1>6. Listed(t) /\ state[t] # "noperm" /\ state[t] # "offline"
  BY <1>2, <1>4, <1>5 DEF Matching, Ignored
<1> QED
  BY <1>4, <1>6 DEF IInv, Types, StaysOffline, Listed

(* run_transport_disconnects leaves nothing that names the transport.      *)
LEMMA Disconnected ==
  ASSUME IInv, NEW t \in Device, RunDisconnects(t)
  PROVE  /\ listener' \in [Name -> [to : Target \cup {"none", "*smartsocket*"},
                                    tr : Device \cup {NoDevice}]]
         /\ dis' \in [Device -> SUBSET Name]
         /\ client' \in [Client -> [at : At, tr : Device \cup {NoDevice},
                                    sel : Selector, rig : Rig]]
         /\ \A n \in Name : \A u \in Device :
              listener'[n].tr = u <=> (listener[n].tr = u /\ u # t)
         /\ \A n \in Name : listener[n].tr # t => listener'[n] = listener[n]
         /\ DisconnectsAgree'
         /\ \A c \in Client : \A u \in Device : Bound(c, u)' => Bound(c, u)
<1>1. \A n \in Name : n \in dis[t] <=> listener[n].tr = t
  BY DEF IInv, DisconnectsAgree
<1>2. listener' = [n \in Name |-> IF n \in dis[t] THEN NoListener ELSE listener[n]]
  BY DEF RunDisconnects
<1>3. \A n \in Name : listener'[n] = IF listener[n].tr = t THEN NoListener ELSE listener[n]
  BY <1>1, <1>2
<1>4. NoListener \in [to : Target \cup {"none", "*smartsocket*"},
                      tr : Device \cup {NoDevice}] /\ NoListener.tr = NoDevice
  BY DEF NoListener
<1>5. listener' \in [Name -> [to : Target \cup {"none", "*smartsocket*"},
                              tr : Device \cup {NoDevice}]]
  BY <1>2, <1>3, <1>4 DEF IInv, Types
<1>6. dis' = [u \in Device |-> dis[u] \ dis[t]] /\ dis' \in [Device -> SUBSET Name]
  BY DEF RunDisconnects, IInv, Types
<1>7. \A n \in Name : \A u \in Device :
        listener'[n].tr = u <=> (listener[n].tr = u /\ u # t)
  BY <1>3, <1>4
<1>8. \A n \in Name : listener[n].tr # t => listener'[n] = listener[n]
  BY <1>3
<1>9. ASSUME NEW u \in Device PROVE dis'[u] = {n \in Name : listener'[n].tr = u}
  <2>1. dis[u] = {n \in Name : listener[n].tr = u}
    BY DEF IInv, DisconnectsAgree
  <2> QED
    BY <1>1, <1>6, <1>7, <2>1
<1>10. ASSUME NEW c \in Client
       PROVE  Shut(c) \in [at : At, tr : Device \cup {NoDevice}, sel : Selector, rig : Rig]
              /\ Shut(c).tr = NoDevice
  BY DEF Shut, IInv, Types, At
<1>11. client' = [c \in Client |-> IF client[c].at = "open" /\ client[c].tr = t
                                   THEN Shut(c) ELSE client[c]]
  BY DEF RunDisconnects
<1>12. client' \in [Client -> [at : At, tr : Device \cup {NoDevice},
                               sel : Selector, rig : Rig]]
  BY <1>10, <1>11 DEF IInv, Types
<1>13. ASSUME NEW c \in Client, NEW u \in Device, Bound(c, u)' PROVE Bound(c, u)
  BY <1>10, <1>11, <1>13 DEF Bound
<1> QED
  BY <1>5, <1>6, <1>7, <1>8, <1>9, <1>12, <1>13 DEF DisconnectsAgree

(* A step that changes only clients, and binds one only to a transport     *)
(* that is connected.                                                      *)
LEMMA ClientsOnly ==
  ASSUME IInv, UNCHANGED transportVars, UNCHANGED listenerVars,
         client' \in [Client -> [at : At, tr : Device \cup {NoDevice},
                                sel : Selector, rig : Rig]],
         \A c \in Client : \A t \in Device :
           Bound(c, t)' => Bound(c, t) \/ (phase[t] = "up" /\ state[t] # "noperm")
  PROVE  IInv'
BY DEF IInv, Types, StaysOffline, ForwardsOnline, DisconnectsAgree, BoundToLive,
       transportVars, listenerVars

(* A request that is answered and closes its smart socket binds nothing.   *)
LEMMA SmartClosed ==
  ASSUME IInv, NEW c \in Client, CloseSmart(c)
  PROVE  /\ client' \in [Client -> [at : At, tr : Device \cup {NoDevice},
                                    sel : Selector, rig : Rig]]
         /\ \A d \in Client : \A t \in Device : Bound(d, t)' => Bound(d, t)
<1>1. client' = [client EXCEPT ![c].at = "closed", ![c].tr = NoDevice]
  BY DEF CloseSmart
<1>2. client'[c].at = "closed"
  BY <1>1 DEF IInv, Types
<1>3. \A d \in Client : d # c => client'[d] = client[d]
  BY <1>1 DEF IInv, Types
<1>4. client' \in [Client -> [at : At, tr : Device \cup {NoDevice},
                            sel : Selector, rig : Rig]]
  BY <1>1 DEF IInv, Types, At
<1> QED
  BY <1>2, <1>3, <1>4 DEF Bound

(* free_listener keeps the lists of disconnects in step.                   *)
LEMMA Freed ==
  ASSUME IInv, NEW S \in SUBSET Name, FreeListeners(S), UNCHANGED transportVars
  PROVE  /\ listener' \in [Name -> [to : Target \cup {"none", "*smartsocket*"},
                                    tr : Device \cup {NoDevice}]]
         /\ dis' \in [Device -> SUBSET Name]
         /\ ForwardsOnline' /\ DisconnectsAgree'
<1>1. NoListener \in [to : Target \cup {"none", "*smartsocket*"},
                      tr : Device \cup {NoDevice}] /\ NoListener.tr = NoDevice
  BY DEF NoListener
<1>2. listener' = [n \in Name |-> IF n \in S THEN NoListener ELSE listener[n]]
      /\ dis' = [t \in Device |-> dis[t] \ S]
  BY DEF FreeListeners
<1>3. \A n \in Name : \A t \in Device :
        listener'[n].tr = t <=> (listener[n].tr = t /\ n \notin S)
  BY <1>1, <1>2
<1>4. ForwardsOnline'
  BY <1>3 DEF IInv, ForwardsOnline, transportVars
<1>5. ASSUME NEW t \in Device PROVE dis'[t] = {n \in Name : listener'[n].tr = t}
  <2>1. dis[t] = {n \in Name : listener[n].tr = t}
    BY DEF IInv, DisconnectsAgree
  <2> QED
    BY <1>2, <1>3, <2>1
<1> QED
  BY <1>1, <1>2, <1>4, <1>5 DEF IInv, Types, DisconnectsAgree

(* install_listener too, whether it makes a listener or rebinds one.       *)
LEMMA InstallAgrees ==
  ASSUME IInv, NEW n \in Name, NEW to \in Target, NEW t \in Device,
         phase[t] = "up", state[t] = "device",
         Install(n, to, t), UNCHANGED transportVars
  PROVE  /\ listener' \in [Name -> [to : Target \cup {"none", "*smartsocket*"},
                                    tr : Device \cup {NoDevice}]]
         /\ dis' \in [Device -> SUBSET Name]
         /\ ForwardsOnline' /\ DisconnectsAgree'
<1>1. listener' = [listener EXCEPT ![n] = [to |-> to, tr |-> t]]
  BY DEF Install
<1>2. listener' \in [Name -> [to : Target \cup {"none", "*smartsocket*"},
                              tr : Device \cup {NoDevice}]]
  BY <1>1 DEF IInv, Types
<1>3. \A m \in Name : listener'[m].tr = IF m = n THEN t ELSE listener[m].tr
  BY <1>1 DEF IInv, Types
<1>4. ForwardsOnline'
  BY <1>3 DEF IInv, ForwardsOnline, transportVars
<1>5. \A u \in Device : dis'[u] = IF u = t THEN dis[u] \cup {n} ELSE dis[u] \ {n}
  <2>1. CASE InUse(n)
    BY <2>1 DEF Install, MoveDisconnect
  <2>2. CASE ~InUse(n)
    <3>1. dis' = [dis EXCEPT ![t] = @ \cup {n}]
      BY <2>2 DEF Install
    <3>2. \A u \in Device : n \notin dis[u]
      BY <2>2 DEF IInv, DisconnectsAgree, InUse, NoListener
    <3> QED
      BY <3>1, <3>2 DEF IInv, Types
  <2> QED
    BY <2>1, <2>2
<1>6. dis' \in [Device -> SUBSET Name]
  <2>1. CASE InUse(n)
    BY <2>1 DEF Install, MoveDisconnect, IInv, Types
  <2>2. CASE ~InUse(n)
    BY <2>2 DEF Install, IInv, Types
  <2> QED
    BY <2>1, <2>2
<1>7. ASSUME NEW u \in Device PROVE dis'[u] = {m \in Name : listener'[m].tr = u}
  <2>1. dis[u] = {m \in Name : listener[m].tr = u}
    BY DEF IInv, DisconnectsAgree
  <2>2. ASSUME NEW m \in Name PROVE m \in dis'[u] <=> listener'[m].tr = u
    <3>1. m \in dis[u] <=> listener[m].tr = u BY <2>1
    <3> QED BY <1>3, <1>5, <3>1
  <2>3. dis'[u] \subseteq Name BY <1>6
  <2> QED
    BY <2>2, <2>3
<1> QED
  BY <1>2, <1>4, <1>6, <1>7 DEF DisconnectsAgree

-----------------------------------------------------------------------------
LEMMA InitHolds == Init => IInv
BY DEF Init, IInv, Types, StaysOffline, ForwardsOnline, DisconnectsAgree,
       BoundToLive, Bound, Nobody, NoListener, Smartsocket, At, Rig, Selector, Name

LEMMA TransportHolds == ASSUME IInv, NEW t \in Device PROVE
  Register(t) \/ Connected(t) \/ GoOffline(t) \/ CloseAllSockets(t) \/ Remove(t) => IInv'
<1>0. Types /\ StaysOffline /\ ForwardsOnline /\ DisconnectsAgree /\ BoundToLive
  BY DEF IInv
<1> USE DEF listenerVars, clientVars
<1>1. CASE Register(t)
  <2>1. phase[t] = "none" /\ (\A n \in Name : listener[n].tr # t)
        /\ (\A c \in Client : ~Bound(c, t))
    BY <1>0, <1>1 DEF Register, ForwardsOnline, BoundToLive
  <2>2. PICK s \in {"offline", "noperm"} : state' = [state EXCEPT ![t] = s]
    BY <1>1 DEF Register
  <2>3. phase' = [phase EXCEPT ![t] = "up"]
    BY <1>1 DEF Register
  <2>4. Types'
    BY <1>0, <1>1, <2>2, <2>3 DEF Register, Types
  <2>5. StaysOffline'
    BY <1>0, <2>2, <2>3 DEF StaysOffline, Types
  <2>6. ForwardsOnline'
    BY <1>0, <1>1, <2>1, <2>2, <2>3 DEF Types, Register, ForwardsOnline
  <2>7. BoundToLive' /\ DisconnectsAgree'
    BY <1>0, <1>1, <2>1, <2>2, <2>3 DEF Types, Register, BoundToLive, Bound, DisconnectsAgree
  <2> QED
    BY <2>4, <2>5, <2>6, <2>7 DEF IInv
<1>2. CASE Connected(t)
  <2>1. state' = [state EXCEPT ![t] = "device"] /\ phase' = phase /\ phase[t] = "up"
    BY <1>2 DEF Connected
  <2>2. CASE state[t] # "offline"
    <3>1. RunDisconnects(t)
      BY <1>2, <2>2 DEF Connected
    <3>2. Types' /\ DisconnectsAgree'
      BY <1>0, <2>1, <3>1, Disconnected DEF Types
    <3>3. StaysOffline'
      BY <1>0, <2>1 DEF StaysOffline, Types
    <3>4. ForwardsOnline'
      BY <1>0, <2>1, <3>1, Disconnected DEF Types, ForwardsOnline
    <3>5. BoundToLive'
      BY <1>0, <2>1, <3>1, Disconnected DEF Types, BoundToLive
    <3> QED
      BY <3>2, <3>3, <3>4, <3>5 DEF IInv
  <2>3. CASE state[t] = "offline"
    BY <1>0, <1>2, <2>1, <2>3 DEF IInv, Types, Connected, StaysOffline, ForwardsOnline,
       DisconnectsAgree, BoundToLive, Bound
  <2> QED
    BY <2>2, <2>3
<1>3. CASE GoOffline(t)
  <2>1. /\ state' = [state EXCEPT ![t] = "offline"]
        /\ phase' = [phase EXCEPT ![t] = "down"] /\ RunDisconnects(t)
    BY <1>3 DEF GoOffline
  <2>2. Types' /\ DisconnectsAgree'
    BY <1>0, <2>1, Disconnected DEF Types
  <2>3. StaysOffline'
    BY <1>0, <2>1 DEF StaysOffline, Types
  <2>4. ForwardsOnline'
    BY <1>0, <2>1, Disconnected DEF Types, ForwardsOnline
  <2>5. BoundToLive'
    BY <1>0, <2>1, Disconnected DEF Types, BoundToLive
  <2> QED
    BY <2>2, <2>3, <2>4, <2>5 DEF IInv
<1>4. CASE CloseAllSockets(t)
  <2>1. phase' = [phase EXCEPT ![t] = "closed"] /\ state' = state /\ phase[t] = "down"
    BY <1>4 DEF CloseAllSockets
  <2>2. client' = [c \in Client |-> IF Bound(c, t) THEN Shut(c) ELSE client[c]]
    BY <1>4 DEF CloseAllSockets
  <2>3. ASSUME NEW c \in Client
        PROVE  /\ Shut(c) \in [at : At, tr : Device \cup {NoDevice},
                               sel : Selector, rig : Rig]
               /\ Shut(c).at = "closed"
    BY <1>0 DEF Shut, At, Types
  <2>4. client' \in [Client -> [at : At, tr : Device \cup {NoDevice},
                               sel : Selector, rig : Rig]]
    BY <1>0, <2>2, <2>3 DEF Types
  <2>5. \A c \in Client : ~Bound(c, t)'
    BY <2>2, <2>3 DEF Bound
  <2>6. \A c \in Client : \A u \in Device : Bound(c, u)' => Bound(c, u)
    BY <2>2, <2>3 DEF Bound
  <2>7. BoundToLive'
    BY <1>0, <2>1, <2>5, <2>6 DEF BoundToLive, Types
  <2>8. StaysOffline' /\ ForwardsOnline' /\ DisconnectsAgree'
    BY <1>0, <1>4, <2>1 DEF Types, CloseAllSockets, StaysOffline, ForwardsOnline, DisconnectsAgree
  <2> QED
    BY <1>0, <1>4, <2>1, <2>4, <2>7, <2>8 DEF CloseAllSockets, IInv, Types
<1>5. CASE Remove(t)
  <2>1. phase' = [phase EXCEPT ![t] = "freed"] /\ state' = state /\ RunDisconnects(t)
    BY <1>5 DEF Remove
  <2>2. \A c \in Client : ~Bound(c, t)
    BY <1>0, <1>5 DEF Remove, BoundToLive
  <2>3. Types' /\ DisconnectsAgree'
    BY <1>0, <2>1, Disconnected DEF Types
  <2>4. StaysOffline'
    BY <1>0, <2>1 DEF StaysOffline, Types
  <2>5. ForwardsOnline'
    BY <1>0, <2>1, Disconnected DEF Types, ForwardsOnline
  <2>6. BoundToLive'
    BY <1>0, <2>1, <2>2, Disconnected DEF BoundToLive, Types
  <2> QED
    BY <2>3, <2>4, <2>5, <2>6 DEF IInv
<1> QED
  BY <1>1, <1>2, <1>3, <1>4, <1>5

LEMMA HostHolds == ASSUME IInv, NEW c \in Client, Host(c) PROVE IInv'
<1>1. CASE AskNothing(c) \/ AskQuery(c) \/ AskUnknown(c) \/ AskForwardBusy(c)
  BY <1>1, SmartClosed, ClientsOnly
     DEF AskNothing, AskQuery, AskUnknown, AskForwardBusy
<1>2. CASE AskKillForwardAll(c)
  <2> DEFINE S == {n \in Name : listener[n].to # "*smartsocket*"}
  <2>1. S \in SUBSET Name /\ FreeListeners(S) /\ CloseSmart(c) /\ UNCHANGED transportVars
    BY <1>2 DEF AskKillForwardAll
  <2> HIDE DEF S
  <2> QED
    BY <2>1, Freed, SmartClosed DEF IInv, Types, StaysOffline, BoundToLive, transportVars
<1>3. ASSUME NEW sel \in Selector, AskTransport(c, sel) PROVE IInv'
  <2> DEFINE t == AcquireOne(sel)
  <2>1. CASE t # NoDevice
    <3>1. client' = [client EXCEPT ![c].tr = t] /\ t \in Device
          /\ phase[t] = "up" /\ state[t] = "device"
      BY <1>3, <2>1, Acquired DEF AskTransport
    <3> HIDE DEF t
    <3>2. client' \in [Client -> [at : At, tr : Device \cup {NoDevice},
                                 sel : Selector, rig : Rig]]
      BY <3>1 DEF IInv, Types
    <3>3. \A d \in Client : \A u \in Device :
            Bound(d, u)' => Bound(d, u) \/ (phase[u] = "up" /\ state[u] # "noperm")
      BY <3>1 DEF IInv, Types, Bound
    <3> QED
      BY <1>3, <3>2, <3>3, ClientsOnly DEF AskTransport
  <2>2. CASE t = NoDevice
    <3>1. UNCHANGED client
      BY <1>3, <2>2 DEF AskTransport
    <3> QED
      BY <1>3, <3>1, ClientsOnly DEF AskTransport, IInv, Types, Bound
  <2> QED
    BY <2>1, <2>2
<1>4. ASSUME NEW sel \in Selector, AskWait(c, sel) PROVE IInv'
  <2>1. client' = [client EXCEPT ![c] = [client[c] EXCEPT !.at = "waiting",
                                         !.tr = NoDevice, !.sel = sel]]
    BY <1>4 DEF AskWait, IInv, Types
  <2>2. client' \in [Client -> [at : At, tr : Device \cup {NoDevice},
                               sel : Selector, rig : Rig]]
    BY <2>1 DEF IInv, Types, At
  <2>3. \A d \in Client : \A u \in Device : Bound(d, u)' => Bound(d, u)
    BY <2>1 DEF IInv, Types, Bound
  <2> QED
    BY <1>4, <2>2, <2>3, ClientsOnly DEF AskWait
<1>5. ASSUME NEW sel \in Selector, NEW n \in Name, AskKillForward(c, sel, n)
      PROVE  IInv'
  <2>1. CloseSmart(c) /\ UNCHANGED transportVars
    BY <1>5 DEF AskKillForward
  <2>2. CASE AcquireOne(sel) # NoDevice /\ InUse(n)
    <3>1. {n} \in SUBSET Name /\ FreeListeners({n})
      BY <1>5, <2>2 DEF AskKillForward
    <3> QED
      BY <2>1, <3>1, Freed, SmartClosed
         DEF IInv, Types, StaysOffline, BoundToLive, transportVars
  <2>3. CASE ~(AcquireOne(sel) # NoDevice /\ InUse(n))
    BY <1>5, <2>1, <2>3, SmartClosed, ClientsOnly DEF AskKillForward
  <2> QED
    BY <2>2, <2>3
<1>6. ASSUME NEW sel \in Selector, NEW n \in Name, NEW to \in Target,
             NEW norebind \in BOOLEAN, AskForward(c, sel, n, to, norebind)
      PROVE  IInv'
  <2> DEFINE t == AcquireOne(sel)
  <2>1. CloseSmart(c) /\ UNCHANGED transportVars
    BY <1>6 DEF AskForward
  <2>2. CASE t # NoDevice /\ Installed(n, norebind)
    <3>1. Install(n, to, t) /\ t \in Device /\ phase[t] = "up" /\ state[t] = "device"
      BY <1>6, <2>2, Acquired DEF AskForward
    <3> HIDE DEF t
    <3> QED
      BY <2>1, <3>1, InstallAgrees, SmartClosed
         DEF IInv, Types, StaysOffline, BoundToLive, transportVars
  <2>3. CASE ~(t # NoDevice /\ Installed(n, norebind))
    BY <1>6, <2>1, <2>3, SmartClosed, ClientsOnly DEF AskForward
  <2> QED
    BY <2>2, <2>3
<1> QED
  BY <1>1, <1>2, <1>3, <1>4, <1>5, <1>6 DEF Host

ClientRec == [at : At, tr : Device \cup {NoDevice}, sel : Selector, rig : Rig]

(* A step that gives one client another record.                            *)
LEMMA ClientSet ==
  ASSUME IInv, NEW c \in Client, NEW r \in ClientRec,
         client' = [client EXCEPT ![c] = r],
         \A t \in Device : r.at \in {"smart", "opening", "open"} /\ r.tr = t =>
           Bound(c, t) \/ (phase[t] = "up" /\ state[t] # "noperm"),
         UNCHANGED transportVars, UNCHANGED listenerVars
  PROVE  IInv'
<1>1. client' \in [Client -> [at : At, tr : Device \cup {NoDevice},
                             sel : Selector, rig : Rig]]
  BY DEF IInv, Types, ClientRec
<1>2. \A d \in Client : \A t \in Device :
        Bound(d, t)' => Bound(d, t) \/ (phase[t] = "up" /\ state[t] # "noperm")
  BY DEF IInv, Types, Bound
<1> QED
  BY <1>1, <1>2, ClientsOnly

LEMMA ClientHolds ==
  ASSUME IInv, NEW c \in Client, ClientStep(c) \/ WaitStep(c) PROVE IInv'
<1> DEFINE r == client[c]
<1>0. r \in ClientRec /\ client \in [Client -> ClientRec] /\ Nobody \in ClientRec
  BY DEF IInv, Types, ClientRec, Nobody, At, Rig, Selector
<1>1. CASE Connect(c)
  <2> DEFINE new == [Nobody EXCEPT !.at = "smart"]
  <2>1. new \in ClientRec /\ new.tr = NoDevice
    BY DEF ClientRec, Nobody, At, Rig, Selector
  <2>2. client' = [client EXCEPT ![c] = new] /\ UNCHANGED transportVars
        /\ UNCHANGED listenerVars
    BY <1>1 DEF Connect
  <2>3. NoDevice \notin Device BY ServerAssumption
  <2> HIDE DEF new
  <2> QED
    BY <2>1, <2>2, <2>3, ClientSet
<1>2. ASSUME NEW n \in Name, Forwarded(c, n) PROVE IInv'
  <2> DEFINE new == [Nobody EXCEPT !.at = "opening", !.tr = listener[n].tr]
  <2>1. new \in ClientRec /\ new.tr = listener[n].tr
    BY DEF IInv, Types, ClientRec, Nobody, At, Rig, Selector
  <2>2. \A t \in Device : listener[n].tr = t => phase[t] = "up" /\ state[t] # "noperm"
    BY DEF IInv, ForwardsOnline
  <2>3. client' = [client EXCEPT ![c] = new] /\ UNCHANGED transportVars
        /\ UNCHANGED listenerVars
    BY <1>2 DEF Forwarded
  <2>4. \A t \in Device : new.at \in {"smart", "opening", "open"} /\ new.tr = t =>
          Bound(c, t) \/ (phase[t] = "up" /\ state[t] # "noperm")
    BY <2>1, <2>2
  <2> HIDE DEF new
  <2> QED
    BY <2>1, <2>3, <2>4, ClientSet
<1>3. CASE AskService(c)
  <2>1. CASE r.tr # NoDevice /\ ~Ignored(r.tr)
    <3> DEFINE new == [r EXCEPT !.at = "opening", !.rig = "notify"]
    <3>1. client' = [client EXCEPT ![c] = new] /\ r.at = "smart"
      BY <1>0, <1>3, <2>1 DEF AskService, Smarting
    <3>2. new \in ClientRec /\ new.tr = r.tr
      BY <1>0 DEF ClientRec, At, Rig
    <3>3. \A t \in Device : r.tr = t => Bound(c, t)
      BY <3>1 DEF Bound
    <3>4. UNCHANGED transportVars /\ UNCHANGED listenerVars
      BY <1>3 DEF AskService
    <3>5. \A t \in Device : new.at \in {"smart", "opening", "open"} /\ new.tr = t =>
            Bound(c, t) \/ (phase[t] = "up" /\ state[t] # "noperm")
      BY <3>2, <3>3
    <3> HIDE DEF new
    <3> QED
      BY <3>1, <3>2, <3>4, <3>5, ClientSet
  <2>2. CASE ~(r.tr # NoDevice /\ ~Ignored(r.tr))
    BY <1>3, <2>2, SmartClosed, ClientsOnly DEF AskService
  <2> QED
    BY <2>1, <2>2
<1>4. CASE DeviceOkay(c)
  <2> DEFINE new == [r EXCEPT !.at = "open", !.rig = "plain"]
  <2>1. client' = [client EXCEPT ![c] = new] /\ r.at \in {"opening", "open"}
    BY <1>0, <1>4 DEF DeviceOkay, Unrigged
  <2>2. new \in ClientRec /\ new.tr = r.tr
    BY <1>0 DEF ClientRec, At, Rig
  <2>3. \A t \in Device : r.tr = t => Bound(c, t)
    BY <2>1 DEF Bound
  <2>4. UNCHANGED transportVars /\ UNCHANGED listenerVars
    BY <1>4 DEF DeviceOkay, Answer
  <2> HIDE DEF new
  <2> QED
    BY <2>1, <2>2, <2>3, <2>4, ClientSet
<1>5. CASE LocalClose(c)
  <2> DEFINE new == [r EXCEPT !.at = "closed", !.tr = NoDevice, !.rig = "plain"]
  <2>1. client' = [client EXCEPT ![c] = new]
    BY <1>0, <1>5 DEF LocalClose
  <2>2. new \in ClientRec /\ new.at = "closed"
    BY <1>0 DEF ClientRec, At, Rig
  <2> QED
    BY <1>5, <2>1, <2>2, ClientSet DEF LocalClose
<1>6. CASE ClientLeaves(c)
  BY <1>0, <1>6, ClientSet DEF ClientLeaves, Nobody
<1>7. CASE WaitPick(c)
  <2>1. PICK t \in Device :
          client' = [client EXCEPT ![c].at = "reading", ![c].tr = t]
    BY <1>7 DEF WaitPick
  <2> DEFINE new == [r EXCEPT !.at = "reading", !.tr = t]
  <2>2. client' = [client EXCEPT ![c] = new]
    BY <1>0, <2>1
  <2>3. new \in ClientRec /\ new.at = "reading"
    BY <1>0 DEF ClientRec, At
  <2> QED
    BY <1>7, <2>2, <2>3, ClientSet DEF WaitPick
<1>8. CASE WaitAmbiguous(c)
  BY <1>8, SmartClosed, ClientsOnly DEF WaitAmbiguous
<1>9. CASE WaitRead(c)
  <2>1. CASE CloseSmart(c)
    BY <1>9, <2>1, SmartClosed, ClientsOnly DEF WaitRead
  <2>2. CASE client' = [client EXCEPT ![c].at = "waiting", ![c].tr = NoDevice]
    <3> DEFINE new == [r EXCEPT !.at = "waiting", !.tr = NoDevice]
    <3>1. client' = [client EXCEPT ![c] = new]
      BY <1>0, <2>2
    <3>2. new \in ClientRec /\ new.at = "waiting"
      BY <1>0 DEF ClientRec, At
    <3> QED
      BY <1>9, <3>1, <3>2, ClientSet DEF WaitRead
  <2> QED
    BY <1>9, <2>1, <2>2 DEF WaitRead
<1> QED
  BY <1>1, <1>2, <1>3, <1>4, <1>5, <1>6, <1>7, <1>8, <1>9 DEF ClientStep, WaitStep

LEMMA NextHolds == IInv /\ [Next]_vars => IInv'
<1> SUFFICES ASSUME IInv, [Next]_vars PROVE IInv'
  OBVIOUS
<1>1. CASE TransportStep
  BY <1>1, TransportHolds DEF TransportStep
<1>2. ASSUME NEW c \in Client, Host(c) \/ ClientStep(c) \/ WaitStep(c) PROVE IInv'
  BY <1>2, HostHolds, ClientHolds
<1>3. CASE UNCHANGED vars
  BY <1>3, ClientsOnly DEF vars, transportVars, listenerVars, IInv, Types, Bound
<1> QED
  BY <1>1, <1>2, <1>3 DEF Next

LEMMA Inductive == Spec => []IInv
BY InitHolds, NextHolds, PTL DEF Spec

(* A port is forwarded only to a device that is connected: a rebinding, a  *)
(* lost device or a reconnection leaves no listener with a transport that  *)
(* is offline or freed (free_listener, run_transport_disconnects).         *)
THEOREM NoForwardOutlives == Spec => []ForwardsOnline
<1>1. IInv => ForwardsOnline
  BY DEF IInv
<1> QED
  BY Inductive, <1>1, PTL

(* The disconnects of every transport name its own listeners exactly       *)
(* (install_listener, free_listener, remove_transport_disconnect).         *)
THEOREM DisconnectsExact == Spec => []DisconnectsAgree
<1>1. IInv => DisconnectsAgree
  BY DEF IInv
<1> QED
  BY Inductive, <1>1, PTL

(* Once the input thread has closed the sockets of a device none is bound  *)
(* to it, until it is freed and after (close_all_sockets, CS_OFFLINE in    *)
(* smart_socket_enqueue and acquire_one_transport).                        *)
THEOREM NoSocketOutlives == Spec => []NoSocketLeft
<1>1. IInv => NoSocketLeft
  BY DEF IInv, NoSocketLeft, BoundToLive
<1> QED
  BY Inductive, <1>1, PTL

(* A device that goes takes with it its own forwards and no others.        *)
THEOREM OnlyItsOwn == Spec => OthersStay
<1>1. ASSUME IInv, NEW t \in Device, GoOffline(t) \/ Connected(t) \/ Remove(t),
             NEW n \in Name, listener[n].tr # t
      PROVE  listener'[n] = listener[n]
  <2>1. CASE RunDisconnects(t)
    BY <1>1, <2>1, Disconnected
  <2>2. CASE UNCHANGED listener
    BY <2>2
  <2> QED
    BY <1>1, <2>1, <2>2 DEF GoOffline, Connected, Remove, listenerVars
<1>2. IInv /\ [Next]_vars =>
        [\A t \in Device : GoOffline(t) \/ Connected(t) \/ Remove(t) =>
           \A n \in Name : listener[n].tr # t => listener'[n] = listener[n]]_vars
  BY <1>1
<1> QED
  BY Inductive, <1>2, PTL DEF Spec, OthersStay

-----------------------------------------------------------------------------
(* The statuses.  local_socket_ready_notify and local_socket_close_notify  *)
(* undo the rig as they write a status; that there is only one needs the   *)
(* count at each stage before, from the request on.                        *)

Status == {"OKAY", "FAIL"}

(* What the client may have got, by how far its socket is.                 *)
GotSoFar(c) ==
  /\ client[c].at \in {"none", "opening"} => got[c] = <<>>
  /\ client[c].at \in {"smart", "open"} => Len(got[c]) <= 1
  /\ client[c].at = "open" => client[c].rig = "plain"
  /\ client[c].at \in {"waiting", "reading"} => got[c] = <<"OKAY">>
  /\ Len(got[c]) <= 2

StatusInv == got \in [Client -> Seq(Status)] /\ \A c \in Client : GotSoFar(c)

(* A step of one client leaves the others alone.                           *)
LEMMA OneTold ==
  ASSUME StatusInv, NEW c \in Client, NEW g \in Seq(Status),
         got' = [got EXCEPT ![c] = g],
         \A d \in Client \ {c} : client'[d] = client[d],
         GotSoFar(c)'
  PROVE  StatusInv'
<1>1. got' \in [Client -> Seq(Status)] BY DEF StatusInv
<1>2. \A d \in Client \ {c} : GotSoFar(d)' BY DEF StatusInv, GotSoFar
<1> QED BY <1>1, <1>2 DEF StatusInv

LEMMA Answers ==
  ASSUME StatusInv, NEW c \in Client, NEW g \in Seq(Status), Answer(c, g)
  PROVE  got' = [got EXCEPT ![c] = g] /\ got'[c] = g
BY DEF Answer, StatusInv

(* A request whose answer closes the smart socket.                         *)
LEMMA ClosedTold ==
  ASSUME IInv, StatusInv, NEW c \in Client, NEW g \in Seq(Status), Len(g) <= 2,
         CloseSmart(c), Answer(c, g)
  PROVE  StatusInv'
<1>1. client'[c].at = "closed" /\ \A d \in Client \ {c} : client'[d] = client[d]
  BY DEF CloseSmart, IInv, Types
<1>2. got' = [got EXCEPT ![c] = g] /\ got'[c] = g BY Answers
<1> QED BY <1>1, <1>2, OneTold DEF GotSoFar

(* The sockets a device takes with it are closed with what they have got.  *)
LEMMA TransportTold ==
  ASSUME IInv, StatusInv, UNCHANGED got,
         \A c \in Client : client'[c] \in {client[c], Shut(c)}
  PROVE  StatusInv'
<1>1. ASSUME NEW c \in Client PROVE GotSoFar(c)'
  <2>1. CASE client'[c] = client[c] BY <2>1 DEF StatusInv, GotSoFar
  <2>2. CASE client'[c] = Shut(c)
    <3>1. client[c] \in ClientRec BY DEF IInv, Types, ClientRec
    <3>2. client'[c].at = "closed" BY <2>2, <3>1 DEF Shut, ClientRec
    <3>3. got' = got /\ GotSoFar(c) BY DEF StatusInv
    <3> QED BY <3>2, <3>3 DEF GotSoFar
  <2> QED BY <2>1, <2>2
<1> QED BY <1>1 DEF StatusInv

LEMMA HostTold ==
  ASSUME IInv, StatusInv, NEW c \in Client, Host(c) PROVE StatusInv'
<1>0. /\ <<>> \in Seq(Status) /\ Len(<<>>) <= 2
      /\ <<"OKAY">> \in Seq(Status) /\ Len(<<"OKAY">>) <= 2
      /\ <<"FAIL">> \in Seq(Status) /\ Len(<<"FAIL">>) <= 2
      /\ <<"OKAY", "OKAY">> \in Seq(Status) /\ Len(<<"OKAY", "OKAY">>) <= 2
  BY DEF Status
<1>1. CASE AskNothing(c) \/ AskQuery(c) \/ AskUnknown(c) \/ AskKillForwardAll(c)
           \/ AskForwardBusy(c)
  BY <1>0, <1>1, ClosedTold DEF AskNothing, AskQuery, AskUnknown,
     AskKillForwardAll, AskForwardBusy
<1>2. ASSUME NEW sel \in Selector, AskTransport(c, sel) PROVE StatusInv'
  <2>1. PICK g \in Seq(Status) : Answer(c, g) /\ Len(g) = 1
    <3>1. Len(<<"OKAY">>) = 1 /\ Len(<<"FAIL">>) = 1 OBVIOUS
    <3> QED BY <1>0, <1>2, <3>1 DEF AskTransport
  <2>2. client'[c].at = "smart" /\ \A d \in Client \ {c} : client'[d] = client[d]
    BY <1>2 DEF AskTransport, Smarting, IInv, Types
  <2>3. got' = [got EXCEPT ![c] = g] BY <2>1, Answers
  <2>4. Len(got'[c]) = 1 BY <2>1, Answers
  <2>5. GotSoFar(c)' BY <2>2, <2>4 DEF GotSoFar
  <2> QED BY <2>2, <2>3, <2>5, OneTold
<1>3. ASSUME NEW sel \in Selector, AskWait(c, sel) PROVE StatusInv'
  <2>1. client'[c].at = "waiting" /\ \A d \in Client \ {c} : client'[d] = client[d]
    BY <1>3 DEF AskWait, IInv, Types
  <2>2. got' = [got EXCEPT ![c] = <<"OKAY">>]
    BY <1>0, <1>3, Answers DEF AskWait
  <2>3. got'[c] = <<"OKAY">> /\ Len(<<"OKAY">>) = 1
    BY <1>0, <1>3, Answers DEF AskWait
  <2>4. GotSoFar(c)' BY <2>1, <2>3 DEF GotSoFar
  <2> QED BY <1>0, <2>1, <2>2, <2>4, OneTold
<1>4. ASSUME NEW sel \in Selector, NEW n \in Name, AskKillForward(c, sel, n)
      PROVE  StatusInv'
  BY <1>0, <1>4, ClosedTold DEF AskKillForward
<1>5. ASSUME NEW sel \in Selector, NEW n \in Name, NEW to \in Target,
             NEW norebind \in BOOLEAN, AskForward(c, sel, n, to, norebind)
      PROVE  StatusInv'
  BY <1>0, <1>5, ClosedTold DEF AskForward
<1> QED BY <1>1, <1>2, <1>3, <1>4, <1>5 DEF Host

LEMMA ClientTold ==
  ASSUME IInv, StatusInv, NEW c \in Client, ClientStep(c) \/ WaitStep(c)
  PROVE  StatusInv'
<1>0. /\ <<>> \in Seq(Status) /\ got[c] \in Seq(Status) /\ GotSoFar(c)
      /\ \A g \in {<<"FAIL">>, <<"OKAY", "OKAY">>, <<"OKAY", "FAIL">>} :
           g \in Seq(Status) /\ Len(g) <= 2
      /\ client[c] \in ClientRec
  BY DEF Status, StatusInv, IInv, Types, ClientRec
<1>1. ASSUME UNCHANGED got, GotSoFar(c)', \A d \in Client \ {c} : client'[d] = client[d]
      PROVE  StatusInv'
  BY <1>1 DEF StatusInv, GotSoFar
<1>2. CASE Connect(c)
  <2>1. client'[c].at = "smart" /\ \A d \in Client \ {c} : client'[d] = client[d]
    BY <1>2 DEF Connect, Nobody, IInv, Types
  <2> QED BY <1>0, <1>1, <1>2, <2>1 DEF Connect, GotSoFar
<1>3. ASSUME NEW n \in Name, Forwarded(c, n) PROVE StatusInv'
  <2>1. client'[c].at = "opening" /\ \A d \in Client \ {c} : client'[d] = client[d]
    BY <1>3 DEF Forwarded, Nobody, IInv, Types
  <2> QED BY <1>0, <1>1, <1>3, <2>1 DEF Forwarded, GotSoFar
<1>4. CASE AskService(c)
  <2>1. CASE CloseSmart(c) /\ Answer(c, <<"FAIL">>) BY <1>0, <2>1, ClosedTold
  <2>2. CASE /\ client' = [client EXCEPT ![c].at = "opening", ![c].rig = "notify"]
             /\ Answer(c, <<>>)
    <3>1. client'[c].at = "opening" /\ \A d \in Client \ {c} : client'[d] = client[d]
      BY <2>2 DEF IInv, Types
    <3>2. got' = [got EXCEPT ![c] = <<>>] /\ got'[c] = <<>>
      BY <1>0, <2>2, Answers
    <3>3. GotSoFar(c)' BY <1>0, <3>1, <3>2 DEF GotSoFar
    <3> QED BY <1>0, <3>1, <3>2, <3>3, OneTold
  <2> QED BY <1>4, <2>1, <2>2 DEF AskService
<1>5. CASE DeviceOkay(c)
  <2>1. client'[c].at = "open" /\ client'[c].rig = "plain"
        /\ \A d \in Client \ {c} : client'[d] = client[d]
    BY <1>5 DEF DeviceOkay, Unrigged, IInv, Types
  <2>2. PICK g \in Seq(Status) : Answer(c, g) /\ Len(g) <= 1
    <3>1. CASE client[c].rig = "notify"
      <4>1. got[c] = <<>> BY <1>0, <1>5, <3>1 DEF DeviceOkay, GotSoFar
      <4> DEFINE g == Append(got[c], "OKAY")
      <4>2. g \in Seq(Status) /\ Len(g) <= 1 BY <4>1 DEF Status
      <4>3. Answer(c, g) BY <1>5, <3>1 DEF DeviceOkay
      <4> HIDE DEF g
      <4> QED BY <4>2, <4>3
    <3>2. CASE client[c].rig # "notify"
      <4>1. Len(got[c]) <= 1 BY <1>0, <1>5 DEF DeviceOkay, GotSoFar
      <4> QED BY <1>0, <1>5, <3>2, <4>1 DEF DeviceOkay
    <3> QED BY <3>1, <3>2
  <2>3. got' = [got EXCEPT ![c] = g] /\ got'[c] = g BY <2>2, Answers
  <2>4. GotSoFar(c)' BY <2>1, <2>2, <2>3 DEF GotSoFar
  <2> QED BY <2>1, <2>2, <2>3, <2>4, OneTold
<1>6. CASE LocalClose(c)
  <2>1. client'[c].at = "closed" /\ \A d \in Client \ {c} : client'[d] = client[d]
    BY <1>6 DEF LocalClose, IInv, Types
  <2>2. PICK g \in Seq(Status) : Answer(c, g) /\ Len(g) <= 2
    <3>1. CASE client[c].rig = "notify"
      <4> DEFINE g == Append(got[c], "FAIL")
      <4>1. g \in Seq(Status) /\ Len(g) = Len(got[c]) + 1 BY <1>0 DEF Status
      <4>2. Len(got[c]) \in Nat /\ Len(got[c]) <= 1
        BY <1>0, <1>6 DEF LocalClose, GotSoFar
      <4>3. Answer(c, g) BY <1>6, <3>1 DEF LocalClose
      <4> HIDE DEF g
      <4> QED BY <4>1, <4>2, <4>3
    <3>2. CASE client[c].rig # "notify"
      BY <1>0, <1>6, <3>2 DEF LocalClose, GotSoFar
    <3> QED BY <3>1, <3>2
  <2>3. got' = [got EXCEPT ![c] = g] /\ got'[c] = g BY <2>2, Answers
  <2>4. GotSoFar(c)' BY <2>1, <2>2, <2>3 DEF GotSoFar
  <2> QED BY <2>1, <2>2, <2>3, <2>4, OneTold
<1>7. CASE ClientLeaves(c)
  <2>1. client'[c].at = "none" /\ \A d \in Client \ {c} : client'[d] = client[d]
    BY <1>7 DEF ClientLeaves, Nobody, IInv, Types
  <2>2. got' = [got EXCEPT ![c] = <<>>] /\ got'[c] = <<>>
    BY <1>0, <1>7, Answers DEF ClientLeaves
  <2>3. GotSoFar(c)' BY <1>0, <2>1, <2>2 DEF GotSoFar
  <2> QED BY <1>0, <2>1, <2>2, <2>3, OneTold
<1>8. CASE WaitPick(c)
  <2>1. client'[c].at = "reading" /\ \A d \in Client \ {c} : client'[d] = client[d]
    BY <1>8 DEF WaitPick, IInv, Types
  <2> QED BY <1>0, <1>1, <1>8, <2>1 DEF WaitPick, GotSoFar
<1>9. CASE WaitAmbiguous(c)
  BY <1>0, <1>9, ClosedTold DEF WaitAmbiguous
<1>10. CASE WaitRead(c)
  <2>1. CASE CloseSmart(c) /\ Answer(c, <<"OKAY", "OKAY">>)
    BY <1>0, <2>1, ClosedTold
  <2>2. CASE /\ client' = [client EXCEPT ![c].at = "waiting", ![c].tr = NoDevice]
             /\ UNCHANGED got
    <3>1. client'[c].at = "waiting" /\ \A d \in Client \ {c} : client'[d] = client[d]
      BY <2>2 DEF IInv, Types
    <3> QED BY <1>0, <1>1, <1>10, <2>2, <3>1 DEF WaitRead, GotSoFar
  <2> QED BY <1>10, <2>1, <2>2 DEF WaitRead
<1> QED BY <1>2, <1>3, <1>4, <1>5, <1>6, <1>7, <1>8, <1>9, <1>10
    DEF ClientStep, WaitStep

LEMMA StatusInductive == Spec => [](IInv /\ StatusInv)
<1>1. Init => StatusInv
  BY DEF Init, StatusInv, GotSoFar, Nobody, Status
<1>2. IInv /\ StatusInv /\ [Next]_vars => StatusInv'
  <2> SUFFICES ASSUME IInv, StatusInv, [Next]_vars PROVE StatusInv'
    OBVIOUS
  <2>1. ASSUME NEW t \in Device,
               Register(t) \/ Connected(t) \/ GoOffline(t) \/ CloseAllSockets(t)
                 \/ Remove(t)
        PROVE  StatusInv'
    <3>1. UNCHANGED got
      BY <2>1 DEF Register, Connected, GoOffline, CloseAllSockets, Remove, clientVars
    <3>2. \A c \in Client : client'[c] \in {client[c], Shut(c)}
      BY <2>1 DEF Register, Connected, GoOffline, CloseAllSockets, Remove,
         clientVars, RunDisconnects
    <3> QED BY <3>1, <3>2, TransportTold
  <2>2. ASSUME NEW c \in Client, Host(c) \/ ClientStep(c) \/ WaitStep(c)
        PROVE  StatusInv'
    BY <2>2, HostTold, ClientTold
  <2>3. CASE UNCHANGED vars BY <2>3, TransportTold DEF vars
  <2> QED BY <2>1, <2>2, <2>3 DEF Next, TransportStep
<1> QED BY <1>1, <1>2, InitHolds, NextHolds, PTL DEF Spec

(* Every device, client, port and target: each variable has its type, and  *)
(* no client ever gets more than two statuses for one request.             *)
THEOREM TypeCorrect == Spec => []TypeOK
<1>1. IInv /\ StatusInv => TypeOK
  BY DEF IInv, Types, StatusInv, Status, GotSoFar, TypeOK
<1> QED BY <1>1, StatusInductive, PTL

(* A step of one client writes no status to another.                       *)
LEMMA OthersTold ==
  ASSUME StatusInv, NEW c \in Client, NEW d \in Client \ {c},
         Host(d) \/ ClientStep(d) \/ WaitStep(d)
  PROVE  got'[c] = got[c]
<1>1. ASSUME NEW g, Answer(d, g) PROVE got'[c] = got[c]
  BY <1>1 DEF Answer, StatusInv
<1>2. CASE UNCHANGED got BY <1>2
<1>3. CASE Host(d)
  BY <1>1, <1>3 DEF Host, AskNothing, AskQuery, AskUnknown, AskKillForwardAll,
     AskForwardBusy, AskTransport, AskWait, AskKillForward, AskForward
<1>4. CASE ClientStep(d)
  BY <1>1, <1>2, <1>4 DEF ClientStep, Connect, Forwarded, AskService, DeviceOkay,
     LocalClose, ClientLeaves
<1>5. CASE WaitStep(d)
  BY <1>1, <1>2, <1>5 DEF WaitStep, WaitPick, WaitAmbiguous, WaitRead
<1> QED BY <1>3, <1>4, <1>5

(* What a step leaves a client whose stream is opened or open with: each   *)
(* status is written by a socket that is no longer rigged afterwards.      *)
LEMMA InServiceTold ==
  ASSUME IInv, StatusInv, NEW c \in Client, InService(c),
         ClientStep(c) \/ WaitStep(c) \/ Host(c)
  PROVE  Len(got'[c]) <= 1
<1>1. /\ client[c] \in ClientRec /\ got[c] \in Seq(Status) /\ Len(got[c]) <= 1
      /\ client[c].rig = "notify" => got[c] = <<>>
  BY DEF IInv, Types, ClientRec, StatusInv, GotSoFar, InService
<1>2. Len(<<>>) <= 1 /\ <<>> \in Seq(Status) OBVIOUS
<1>3. ASSUME NEW s \in Status,
             Answer(c, IF client[c].rig = "notify" THEN Append(got[c], s) ELSE got[c])
      PROVE  Len(got'[c]) <= 1
  <2>1. CASE client[c].rig = "notify"
    <3> DEFINE g == Append(got[c], s)
    <3>1. g \in Seq(Status) /\ Len(g) <= 1 BY <1>1, <2>1
    <3>2. Answer(c, g) BY <1>3, <2>1
    <3> HIDE DEF g
    <3> QED BY <3>1, <3>2, Answers
  <2>2. CASE client[c].rig # "notify"
    <3>1. Answer(c, got[c]) BY <1>3, <2>2
    <3> QED BY <1>1, <3>1, Answers
  <2> QED BY <2>1, <2>2
<1>4. CASE DeviceOkay(c) BY <1>3, <1>4 DEF DeviceOkay, Status
<1>5. CASE LocalClose(c) BY <1>3, <1>5 DEF LocalClose, Status
<1>6. ~Connect(c) /\ ~AskService(c) /\ ~ClientLeaves(c) /\ ~(\E n \in Name : Forwarded(c, n))
  BY DEF InService, Connect, AskService, ClientLeaves, Forwarded, Smarting
<1>7. ~WaitStep(c)
  BY DEF InService, WaitStep, WaitPick, WaitAmbiguous, WaitGivesUp, WaitRead
<1>8. ~Host(c)
  BY DEF InService, Host, AskNothing, AskQuery, AskUnknown, AskKillForwardAll,
     AskForwardBusy, AskTransport, AskWait, AskKillForward, AskForward, Smarting
<1> QED BY <1>4, <1>5, <1>6, <1>7, <1>8 DEF ClientStep

(* A request for a service of a device gets one status at most, however    *)
(* often the device answers, whoever closes the stream, and when it goes.  *)
THEOREM StatusOnce == Spec => OneStatus
<1>1. IInv /\ StatusInv /\ [Next]_vars
        => [\A c \in Client : InService(c) => Len(got'[c]) <= 1]_vars
  <2> SUFFICES ASSUME IInv, StatusInv, Next, NEW c \in Client, InService(c)
               PROVE  Len(got'[c]) <= 1
    OBVIOUS
  <2>1. ASSUME got'[c] = got[c] PROVE Len(got'[c]) <= 1
    BY <2>1 DEF StatusInv, GotSoFar, InService
  <2>2. CASE TransportStep
    <3>1. UNCHANGED got
      BY <2>2 DEF TransportStep, Register, Connected, GoOffline, CloseAllSockets,
         Remove, clientVars
    <3> QED BY <2>1, <3>1
  <2>3. ASSUME NEW d \in Client \ {c}, Host(d) \/ ClientStep(d) \/ WaitStep(d)
        PROVE  got'[c] = got[c]
    BY <2>3, OthersTold
  <2>4. CASE \E d \in Client : Host(d) \/ ClientStep(d) \/ WaitStep(d)
    BY <2>1, <2>3, <2>4, InServiceTold
  <2> QED BY <2>2, <2>4 DEF Next
<1> QED BY <1>1, StatusInductive, PTL DEF Spec, OneStatus
=============================================================================
