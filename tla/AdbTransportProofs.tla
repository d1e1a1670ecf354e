-------------------------- MODULE AdbTransportProofs --------------------------
(***************************************************************************)
(* Theorems about AdbTransport, for any number of devices, packets and     *)
(* clients, when devices come one after the other: the reference counts,   *)
(* the registration queue and the SYNC protocol.                           *)
(*                                                                         *)
(* All of them assume that devices do not overlap, as output_thread says   *)
(* it does: with an overlap they are false (the flags of the clean-up are  *)
(* shared by all transports).                                              *)
(*                                                                         *)
(* The invariant has four parts: who is registered (Registered), who holds *)
(* a reference (Counted), whose output thread the global flags are about   *)
(* (OneVictim), and what is on its way between a device, its two threads   *)
(* and the loop (Talking).                                                 *)
(***************************************************************************)
EXTENDS AdbTransport, TLAPS

-----------------------------------------------------------------------------
(* A device comes when the ones before it are freed; a transport has       *)
(* threads only once it is live; regq and spawn name each transport once.  *)

Before(t) == life[t] \in {"none", "queued"}

Lives(t) ==
  /\ dev[t] = "absent" <=> life[t] = "none"
  /\ Before(t) => ref[t] = 0 /\ out[t] = "idle"
  /\ out[t] = "idle" <=> inp[t] = "idle"
  /\ life[t] = "freed" => ref[t] = 0
  /\ \A u \in T : u < t /\ dev[t] # "absent" => life[u] = "freed"

Messages ==
  \A i \in DOMAIN regq :
    /\ life[regq[i].t] = IF regq[i].act = "add" THEN "queued" ELSE "live"
    /\ regq[i].act = "remove" => ref[regq[i].t] = 0
    /\ \A j \in DOMAIN regq : regq[j].t = regq[i].t => i = j

Spawns ==
  \A i \in DOMAIN spawn :
    /\ life[spawn[i]] = "live" /\ out[spawn[i]] = "idle"
    /\ \A j \in DOMAIN spawn : spawn[j] = spawn[i] => i = j

Registered == (\A t \in T : Lives(t)) /\ Messages /\ Spawns

-----------------------------------------------------------------------------
(* Each thread that still needs a transport has a reference of its own;    *)
(* kill_io_pump takes over that of the thread it has terminated.           *)

One(b) == IF b THEN 1 ELSE 0

KillHolds(t) ==
  /\ victim = t /\ out[t] = "stopped"
  /\ killer \in {"flags", "offline", "kick", "unref"}

Counted ==
  \A t \in T : ~Before(t) =>
    One(OutNeeds(t)) + One(InNeeds(t)) + One(KillHolds(t)) <= ref[t]

-----------------------------------------------------------------------------
(* started_output_cleanup and ended_output_cleanup are about the last      *)
(* transport spawned, the one kill_io_pump is given.                       *)

OneVictim ==
  /\ \A t \in T :
       /\ OutNeeds(t) /\ out[t] # "idle" => t = victim
       /\ out[t] = "stopped" => t = victim /\ killer # "idle"
       /\ out[t] \in {"read", "check"} => ~started
  /\ victim # 0 => out[victim] # "idle" /\ (out[victim] = "done" => ended)
  /\ killer \in {"flags", "offline", "kick", "unref"} =>
       /\ victim # 0
       /\ out[victim] = "stopped" \/ (killer = "flags" /\ out[victim] = "done")

-----------------------------------------------------------------------------
(* What was said.  Quiet(t): nobody posts to the loop for t any more.      *)

Quiet(t) ==
  \/ out[t] \in {"kick", "unref", "end", "done"}
  \/ out[t] = "stopped" /\ killer \notin {"flags", "offline"}

Among(p, s) == \E i \in DOMAIN s : s[i] = p

Silent(t) ==
  out[t] \in {"idle", "start"} =>
    /\ token[t] = 1 /\ up[t] = <<>> /\ down[t] = <<>>
    /\ ~heard[t] /\ ~active[t] /\ ~online[t]

(* SYNC(0,0) is the last packet to the loop ...                            *)
LastWord(t) ==
  \A i \in DOMAIN up[t] : up[t][i] = Offline => i = Len(up[t]) /\ Quiet(t)

(* ... and once the loop has passed it on the transport stays offline.     *)
StaysOffline(t) ==
  inp[t] \in {"close", "kick", "unref", "done"} \/ Among(Offline, down[t]) =>
    loop = "dead" \/ (~online[t] /\ up[t] = <<>> /\ Quiet(t))

(* The device speaks only after it has heard the host, and the host only   *)
(* after the input thread has become active.                               *)
InTurn(t) ==
  /\ heard[t] => active[t]
  /\ online[t] => heard[t]
  /\ Among(Cnxn, up[t]) \/ Among(Data, up[t]) => heard[t]
  /\ Among(Online(2), up[t]) => token[t] = 2
  /\ inp[t] \in {"idle", "read"} /\ ~active[t] /\ down[t] # <<>> =>
       Head(down[t]) \in {Online(token[t]), Offline}

Posted(t) ==
  out[t] \in {"kick", "unref", "end", "done"} /\ inp[t] = "read"
    /\ loop = "running" =>
    Among(Offline, up[t]) \/ Among(Offline, down[t])

Talk(t) ==
  Silent(t) /\ LastWord(t) /\ StaysOffline(t) /\ InTurn(t) /\ Posted(t)

Talking == \A t \in T : Talk(t)

(* A client is bound to a transport until it is closed; the loop does not  *)
(* end inside a handler.                                                   *)
Clients ==
  /\ \A c \in Client :
       client[c].at \in {"smart", "opening", "open"} <=> client[c].t \in T
  /\ loop = "dead" => busy = {}

IInv == TypeOK /\ Registered /\ Counted /\ OneVictim /\ Talking /\ Clients
        /\ NoClientLeft

-----------------------------------------------------------------------------
(* What IInv says about the references at a step that uses one.            *)

LEMMA Transports == T \subseteq Nat /\ 0 \notin T /\ T \subseteq Int
BY TransportAssumption DEF T

LEMMA Held ==
  ASSUME IInv, NEW t \in T, ~Before(t),
         (OutNeeds(t) \/ InNeeds(t) \/ KillHolds(t))
  PROVE  ref[t] \in {1, 2} /\ life[t] = "live"
<1>1. ref[t] \in {0, 1, 2} /\ life[t] \in {"none", "queued", "live", "freed"}
  BY DEF IInv, TypeOK
<1>2. One(OutNeeds(t)) + One(InNeeds(t)) + One(KillHolds(t)) <= ref[t]
  BY DEF IInv, Counted
<1>3. ref[t] # 0 BY <1>1, <1>2 DEF One
<1>4. life[t] # "freed" BY <1>3 DEF IInv, Registered, Lives
<1> QED BY <1>1, <1>3, <1>4 DEF Before

(* A thread that has begun holds a reference of a live transport.          *)
LEMMA HeldByThread ==
  ASSUME IInv, NEW t \in T, out[t] # "idle" \/ inp[t] # "idle",
         OutNeeds(t) \/ InNeeds(t) \/ KillHolds(t)
  PROVE  ref[t] \in {1, 2} /\ life[t] = "live"
<1>1. ~Before(t) BY DEF IInv, Registered, Lives
<1> QED BY <1>1, Held

LEMMA UnusedWhenZero ==
  ASSUME IInv, NEW t \in T, ~Before(t), ref[t] = 0
  PROVE  ~OutNeeds(t) /\ ~InNeeds(t) /\ ~KillHolds(t)
BY Held

-----------------------------------------------------------------------------
(* The types.                                                              *)

LEMMA SeqTypes ==
  ASSUME NEW S, NEW s \in Seq(S)
  PROVE  /\ \A x \in S : Append(s, x) \in Seq(S)
         /\ \A r \in Seq(S) : s \o r \in Seq(S)
         /\ s # <<>> => Head(s) \in S /\ Tail(s) \in Seq(S)
         /\ \A i \in DOMAIN s : s[i] \in S
OBVIOUS

Registration == [act : {"add", "remove"}, t : T]

LEMMA RegqTypes ==
  ASSUME TypeOK
  PROVE  \A i \in DOMAIN regq : regq[i].t \in T /\ regq[i].act \in {"add", "remove"}
<1>1. regq \in Seq(Registration) BY DEF TypeOK, Registration
<1>2. \A i \in DOMAIN regq : regq[i] \in Registration BY <1>1, SeqTypes
<1> QED BY <1>2 DEF Registration

LEMMA PostTypes ==
  ASSUME TypeOK, NEW t \in T, NEW p \in Packet, Post(t, p)
  PROVE  up' \in [T -> Seq(Packet)]
BY DEF TypeOK, Post

LEMMA UnrefTypes ==
  ASSUME TypeOK, NEW t \in T, ref[t] \in {1, 2}, Unref(t)
  PROVE  /\ ref' \in [T -> 0..2] /\ kicked' \in [T -> BOOLEAN]
         /\ regq' \in Seq([act : {"add", "remove"}, t : T])
<1>1. ref' \in [T -> 0..2] BY DEF TypeOK, Unref
<1>2. kicked' \in [T -> BOOLEAN] BY DEF TypeOK, Unref
<1>3. [act |-> "remove", t |-> t] \in Registration BY DEF Registration
<1>4. regq \in Seq(Registration) BY DEF TypeOK, Registration
<1>5. Append(regq, [act |-> "remove", t |-> t]) \in Seq(Registration)
  BY <1>3, <1>4, SeqTypes
<1>6. regq' \in Seq(Registration) BY <1>4, <1>5 DEF Unref
<1> QED BY <1>1, <1>2, <1>6 DEF Registration

Bindings ==
  [at : {"none", "smart", "opening", "open", "closed"}, t : {0} \cup T]

LEMMA CloseTypes ==
  ASSUME client \in [Client -> Bindings], NEW S, CloseClients(S)
  PROVE  client' \in [Client -> Bindings]
BY DEF CloseClients, Bindings

LEMMA TypeInit == ASSUME Init PROVE TypeOK
<1>1. /\ sent \in [T -> 0..MaxPackets] /\ ref \in [T -> 0..2]
      /\ token \in [T -> 1..2]
  BY TransportAssumption DEF Init
<1>2. up \in [T -> Seq(Packet)] /\ down \in [T -> Seq(Packet)] BY DEF Init
<1>3. regq \in Seq([act : {"add", "remove"}, t : T]) /\ spawn \in Seq(T)
  BY DEF Init
<1> QED BY <1>1, <1>2, <1>3 DEF Init, TypeOK, OutPc, InPc, KillerPc, Unbound

LEMMA TypeOut ==
  ASSUME IInv, NEW t \in T, OutStep(t) \/ OutRead(t) \/ OutFail(t)
  PROVE  TypeOK'
<1> USE DEF deviceVars, flagVars, pumpVars, lifeVars, loopVars, mainVars
<1>0. TypeOK /\ MaxPackets \in Nat BY TransportAssumption DEF IInv
<1>1. CASE OutStart(t)
  <2>1. token[t] = 1 BY <1>1 DEF IInv, Talking, Talk, Silent, OutStart, OutAt
  <2>2. Online(token[t] + 1) \in Packet BY <2>1 DEF Packet, Online
  <2>3. up' \in [T -> Seq(Packet)] BY <1>0, <1>1, <2>2, PostTypes DEF OutStart
  <2>4. token' \in [T -> 1..2] BY <1>0, <1>1, <2>1 DEF OutStart, TypeOK
  <2> QED BY <1>0, <1>1, <2>3, <2>4 DEF OutStart, OutTo, AfterPost, TypeOK, OutPc
<1>2. CASE OutRead(t)
  <2>1. up' \in [T -> Seq(Packet)] BY <1>0, <1>2, PostTypes DEF OutRead, Packet
  <2>2. sent' \in [T -> 0..MaxPackets] BY <1>0, <1>2 DEF OutRead, TypeOK
  <2> QED BY <1>0, <1>2, <2>1, <2>2 DEF OutRead, OutTo, AfterPost, TypeOK, OutPc
<1>3. CASE OutFail(t) BY <1>0, <1>3 DEF OutFail, OutTo, TypeOK, OutPc
<1>4. CASE OutCheck(t) BY <1>0, <1>4 DEF OutCheck, OutTo, TypeOK, OutPc
<1>5. CASE OutOffline(t)
  <2>1. up' \in [T -> Seq(Packet)]
    BY <1>0, <1>5, PostTypes DEF OutOffline, OutOfflinePost, Packet
  <2> QED BY <1>0, <1>5, <2>1 DEF OutOffline, OutTo, TypeOK, OutPc
<1>6. CASE OutKick(t) BY <1>0, <1>6 DEF OutKick, Kick, OutTo, TypeOK, OutPc
<1>7. CASE OutUnref(t)
  <2>1. ref[t] \in {1, 2}
    BY <1>7, HeldByThread DEF OutUnref, OutAt, OutNeeds
  <2> QED BY <1>0, <1>7, <2>1, UnrefTypes DEF OutUnref, OutTo, TypeOK, OutPc
<1>8. CASE OutEnd(t) BY <1>0, <1>8 DEF OutEnd, OutTo, TypeOK, OutPc
<1> QED BY <1>1, <1>2, <1>3, <1>4, <1>5, <1>6, <1>7, <1>8 DEF OutStep

LEMMA TypeIn ==
  ASSUME IInv, NEW t \in T, InStep(t) PROVE TypeOK'
<1> USE DEF deviceVars, flagVars, pumpVars, lifeVars, loopVars, mainVars
<1>0. TypeOK BY DEF IInv
<1>1. CASE InSync(t)
  <2>1. down' \in [T -> Seq(Packet)] BY <1>0, <1>1 DEF InSync, TypeOK
  <2>2. active' \in [T -> BOOLEAN] /\ inp' \in [T -> InPc]
    BY <1>0, <1>1 DEF InSync, InTo, TypeOK, InPc
  <2> QED BY <1>0, <1>1, <2>1, <2>2 DEF InSync, TypeOK
<1>2. CASE InData(t)
  <2>1. down' \in [T -> Seq(Packet)] BY <1>0, <1>2 DEF InData, TypeOK
  <2>2. heard' \in [T -> BOOLEAN] BY <1>0, <1>2 DEF InData, TypeOK, Broken
  <2> QED BY <1>0, <1>2, <2>1, <2>2 DEF InData, TypeOK
<1>3. CASE InEof(t) BY <1>0, <1>3 DEF InEof, InTo, TypeOK, InPc
<1>4. CASE InClose(t)
  <2>1. client' \in [Client -> Bindings]
    BY <1>0, <1>4, CloseTypes DEF InClose, CloseAll, TypeOK, Bindings
  <2> QED BY <1>0, <1>4, <2>1 DEF InClose, InTo, TypeOK, InPc, Bindings
<1>5. CASE InKick(t) BY <1>0, <1>5 DEF InKick, Kick, InTo, TypeOK, InPc
<1>6. CASE InUnref(t)
  <2>1. ref[t] \in {1, 2}
    BY <1>6, HeldByThread DEF InUnref, InAt, InNeeds
  <2> QED BY <1>0, <1>6, <2>1, UnrefTypes DEF InUnref, InTo, TypeOK, InPc
<1> QED BY <1>1, <1>2, <1>3, <1>4, <1>5, <1>6 DEF InStep

LEMMA TypeLoop ==
  ASSUME IInv, NEW t \in T, LoopStep(t) PROVE TypeOK'
<1> USE DEF deviceVars, flagVars, pumpVars, lifeVars, loopVars, mainVars
<1>0. TypeOK BY DEF IInv
<1>1. CASE LoopSync(t)
  <2>1. up' \in [T -> Seq(Packet)] BY <1>0, <1>1 DEF LoopSync, TypeOK
  <2>2. Head(up[t]) \in Packet BY <1>0, <1>1 DEF LoopSync, TypeOK
  <2>3. Echo(Head(up[t])) \in Seq(Packet) BY <2>2 DEF Echo, Packet
  <2>4. down' \in [T -> Seq(Packet)]
    <3>1. down \in [T -> Seq(Packet)] BY <1>0 DEF TypeOK
    <3>2. Offline \in Packet BY DEF Packet
    <3>3. \E d \in Seq(Packet) : down' = [down EXCEPT ![t] = d]
      BY <1>1, <2>3, <3>1, <3>2, SeqTypes DEF LoopSync
    <3> QED BY <3>1, <3>3
  <2>5. online' \in [T -> BOOLEAN] BY <1>0, <1>1 DEF LoopSync, TypeOK
  <2>6. client' \in [Client -> Bindings]
    BY <1>0, <1>1, CloseTypes DEF LoopSync, TypeOK, Bindings
  <2> QED BY <1>0, <1>1, <2>1, <2>4, <2>5, <2>6 DEF LoopSync, TypeOK, Bindings
<1>2. CASE LoopCnxn(t)
  <2>1. up' \in [T -> Seq(Packet)] BY <1>0, <1>2 DEF LoopCnxn, TypeOK
  <2> QED BY <1>0, <1>2, <2>1 DEF LoopCnxn, TypeOK
<1>3. CASE LoopData(t)
  <2>1. up' \in [T -> Seq(Packet)] BY <1>0, <1>3 DEF LoopData, TypeOK
  <2>2. client' \in [Client -> Bindings]
    <3>0. client \in [Client -> Bindings] BY <1>0 DEF TypeOK, Bindings
    <3>1. ASSUME NEW c \in Client, client' = [client EXCEPT ![c].at = "open"]
          PROVE  client' \in [Client -> Bindings]
      <4>1. client[c] \in Bindings BY <3>0
      <4> QED BY <3>0, <3>1, <4>1 DEF Bindings
    <3> QED BY <1>3, <3>0, <3>1, CloseTypes DEF LoopData
  <2> QED BY <1>0, <1>3, <2>1, <2>2 DEF LoopData, TypeOK, Bindings
<1> QED BY <1>1, <1>2, <1>3 DEF LoopStep

LEMMA TypeClient ==
  ASSUME IInv, NEW c \in Client, LoopHandle(c) \/ HandlerEnd(c) PROVE TypeOK'
<1> USE DEF deviceVars, flagVars, pumpVars, lifeVars, loopVars, mainVars
<1>0. TypeOK /\ client \in [Client -> Bindings] BY DEF IInv, TypeOK, Bindings
<1>1. CASE LoopHandle(c) BY <1>0, <1>1 DEF LoopHandle, TypeOK
<1>2. ASSUME NEW t \in T, ClientAcquire(c, t) PROVE TypeOK'
  <2>1. client' \in [Client -> Bindings]
    BY <1>0, <1>2 DEF ClientAcquire, Bindings
  <2> QED BY <1>0, <1>2, <2>1 DEF ClientAcquire, Handled, TypeOK, Bindings
<1>3. CASE ClientService(c)
  <2>1. client[c].t \in T
    BY <1>3 DEF ClientService, IInv, Clients
  <2>2. client' \in [Client -> Bindings]
    <3>1. client[c] \in Bindings BY <1>0
    <3> QED BY <1>0, <1>3, <3>1, CloseTypes DEF ClientService, Bindings
  <2>3. down' \in [T -> Seq(Packet)]
    <3>1. down \in [T -> Seq(Packet)] BY <1>0 DEF TypeOK
    <3>2. Append(down[client[c].t], Data) \in Seq(Packet)
      <4>1. down[client[c].t] \in Seq(Packet) BY <2>1, <3>1
      <4>2. Data \in Packet BY DEF Packet
      <4> QED BY <4>1, <4>2, SeqTypes
    <3>3. \E d \in Seq(Packet) : down' = [down EXCEPT ![client[c].t] = d] \/ down' = down
      BY <1>3, <3>2 DEF ClientService
    <3> QED BY <3>1, <3>3
  <2> QED BY <1>0, <1>3, <2>2, <2>3 DEF ClientService, Handled, TypeOK, Bindings
<1>4. CASE ClientGone(c)
  <2>1. client' \in [Client -> Bindings]
    BY <1>0, <1>4, CloseTypes DEF ClientGone
  <2> QED BY <1>0, <1>4, <2>1 DEF ClientGone, Handled, TypeOK, Bindings
<1> QED BY <1>1, <1>2, <1>3, <1>4 DEF HandlerEnd

LEMMA TypeOther ==
  ASSUME IInv,
         \/ \E t \in T : Plug(t) \/ Unplug(t)
         \/ HandlerReturns \/ LoopAdd \/ LoopRemove
         \/ SpawnIo \/ Close \/ Terminate \/ KillStep \/ LoopDies
  PROVE  TypeOK'
<1> USE DEF deviceVars, flagVars, pumpVars, lifeVars, loopVars, mainVars
<1>0. TypeOK /\ MaxPlug \in Nat BY TransportAssumption DEF IInv
<1>1. ASSUME NEW t \in T, Plug(t) PROVE TypeOK'
  <2>1. [act |-> "add", t |-> t] \in Registration BY DEF Registration
  <2>2. regq \in Seq(Registration) BY <1>0 DEF TypeOK, Registration
  <2>3. Append(regq, [act |-> "add", t |-> t]) \in Seq(Registration)
    BY <2>1, <2>2, SeqTypes
  <2>4. regq' \in Seq([act : {"add", "remove"}, t : T])
    BY <1>1, <2>3 DEF Plug, Registration
  <2> QED BY <1>0, <1>1, <2>4 DEF Plug, TypeOK
<1>2. ASSUME NEW t \in T, Unplug(t) PROVE TypeOK'
  BY <1>0, <1>2 DEF Unplug, TypeOK
<1>3. CASE HandlerReturns BY <1>0, <1>3 DEF HandlerReturns, TypeOK
<1>4. ASSUME regq # <<>>
      PROVE  Head(regq).t \in T /\ Tail(regq) \in Seq([act : {"add", "remove"}, t : T])
  <2>1. regq \in Seq(Registration) BY <1>0 DEF TypeOK, Registration
  <2>2. Head(regq) \in Registration /\ Tail(regq) \in Seq(Registration)
    BY <1>4, <2>1, SeqTypes
  <2> QED BY <2>2 DEF Registration
<1>5. CASE LoopAdd
  <2>1. spawn' \in Seq(T) BY <1>0, <1>4, <1>5 DEF LoopAdd, TypeOK
  <2>2. regq' \in Seq([act : {"add", "remove"}, t : T]) BY <1>4, <1>5 DEF LoopAdd
  <2>3. life' \in [T -> {"none", "queued", "live", "freed"}] /\ ref' \in [T -> 0..2]
    <3>1. PICK t \in T : t = Head(regq).t BY <1>4, <1>5 DEF LoopAdd
    <3>2. life' = [life EXCEPT ![t] = "live"] /\ ref' = [ref EXCEPT ![t] = 2]
      BY <1>5, <3>1 DEF LoopAdd
    <3> QED BY <1>0, <3>2 DEF TypeOK
  <2> QED BY <1>0, <1>5, <2>1, <2>2, <2>3 DEF LoopAdd, TypeOK
<1>6. CASE LoopRemove
  <2>1. <<>> \in Seq(Packet) OBVIOUS
  <2>2. regq' \in Seq([act : {"add", "remove"}, t : T]) BY <1>4, <1>6 DEF LoopRemove
  <2>3. /\ life' \in [T -> {"none", "queued", "live", "freed"}]
        /\ up' \in [T -> Seq(Packet)] /\ down' \in [T -> Seq(Packet)]
    BY <1>0, <1>4, <1>6, <2>1 DEF LoopRemove, TypeOK
  <2> QED BY <1>0, <1>6, <2>2, <2>3 DEF LoopRemove, TypeOK
<1>7. CASE SpawnIo
  <2>1. Head(spawn) \in T /\ Tail(spawn) \in Seq(T)
    BY <1>0, <1>7 DEF SpawnIo, TypeOK
  <2> QED BY <1>0, <1>7, <2>1 DEF SpawnIo, OutTo, TypeOK, OutPc, InPc
<1>8. CASE Close BY <1>0, <1>8 DEF Close, TypeOK, KillerPc
<1>9. CASE Terminate
  <2>1. victim \in T BY <1>0, <1>9 DEF Terminate, TypeOK
  <2> QED BY <1>0, <1>9, <2>1 DEF Terminate, OutTo, TypeOK, OutPc, KillerPc
<1>10. CASE KillStep
  <2>1. CASE KillFlags BY <1>0, <2>1 DEF KillFlags, TypeOK, KillerPc
  <2>2. killer \in {"offline", "kick", "unref"} =>
          victim \in T /\ out[victim] = "stopped"
    BY <1>0 DEF IInv, OneVictim, TypeOK
  <2>3. CASE KillOffline
    <3>1. up' \in [T -> Seq(Packet)]
      BY <1>0, <2>2, <2>3, PostTypes DEF KillOffline, Packet
    <3> QED BY <1>0, <2>3, <3>1 DEF KillOffline, TypeOK, KillerPc
  <2>4. CASE KillKick BY <1>0, <2>2, <2>4 DEF KillKick, Kick, TypeOK, KillerPc
  <2>5. CASE KillUnref
    <3>1. victim \in T /\ KillHolds(victim) /\ out[victim] # "idle"
      BY <2>2, <2>5 DEF KillUnref, KillHolds
    <3>2. ref[victim] \in {1, 2} BY <3>1, HeldByThread
    <3> QED BY <1>0, <2>5, <3>1, <3>2, UnrefTypes DEF KillUnref, TypeOK, KillerPc
  <2> QED BY <1>10, <2>1, <2>3, <2>4, <2>5 DEF KillStep
<1>11. CASE LoopDies BY <1>0, <1>11 DEF LoopDies, TypeOK, KillerPc
<1> QED BY <1>1, <1>2, <1>3, <1>5, <1>6, <1>7, <1>8, <1>9, <1>10, <1>11

LEMMA TypeNext == ASSUME IInv, Next PROVE TypeOK'
BY TypeOut, TypeIn, TypeLoop, TypeClient, TypeOther DEF Next

-----------------------------------------------------------------------------
(* What a step of each thread leaves alone.                                *)

Same(f, t) == \A u \in T : u # t => f'[u] = f[u]

LEMMA OutKeeps ==
  ASSUME TypeOK, NEW t \in T, OutStep(t) \/ OutRead(t) \/ OutFail(t)
  PROVE  /\ UNCHANGED <<dev, heard, life, online, active, inp, down, loopVars,
                        mainVars>>
         /\ Same(out, t) /\ Same(up, t) /\ Same(token, t)
         /\ out[t] \notin {"idle", "done", "stopped"}
         /\ out'[t] \notin {"idle", "start", "stopped"}
         /\ out[t] \in {"kick", "unref", "end"} => out'[t] \in {"unref", "end", "done"}
         /\ OutNeeds(t)' => OutNeeds(t)
         /\ ~OutUnref(t) => UNCHANGED <<ref, regq>>
<1> USE DEF deviceVars, flagVars, pumpVars, lifeVars, loopVars, mainVars, Same,
            OutAt, OutTo, AfterPost, OutNeeds, TypeOK
<1>1. CASE OutStart(t) BY <1>1 DEF OutStart, Post
<1>2. CASE OutRead(t) BY <1>2 DEF OutRead, Post
<1>3. CASE OutFail(t) BY <1>3 DEF OutFail
<1>4. CASE OutCheck(t) BY <1>4 DEF OutCheck
<1>5. CASE OutOffline(t) BY <1>5 DEF OutOffline, OutOfflinePost, Post
<1>6. CASE OutKick(t) BY <1>6 DEF OutKick
<1>7. CASE OutUnref(t) BY <1>7 DEF OutUnref
<1>8. CASE OutEnd(t) BY <1>8 DEF OutEnd
<1> QED BY <1>1, <1>2, <1>3, <1>4, <1>5, <1>6, <1>7, <1>8 DEF OutStep

LEMMA InKeeps ==
  ASSUME TypeOK, NEW t \in T, InStep(t)
  PROVE  /\ UNCHANGED <<dev, sent, flagVars, token, out, up, life, online, busy,
                        loop, mainVars>>
         /\ Same(inp, t) /\ Same(down, t) /\ Same(heard, t) /\ Same(active, t)
         /\ inp[t] \notin {"idle", "done"} /\ inp'[t] # "idle"
         /\ InNeeds(t)
         /\ ~InUnref(t) => UNCHANGED <<ref, regq>>
<1> USE DEF deviceVars, flagVars, pumpVars, lifeVars, loopVars, mainVars, Same,
            InAt, InTo, InNeeds, TypeOK
<1>1. CASE InSync(t) BY <1>1 DEF InSync
<1>2. CASE InData(t) BY <1>2 DEF InData
<1>3. CASE InEof(t) BY <1>3 DEF InEof
<1>4. CASE InClose(t) BY <1>4 DEF InClose
<1>5. CASE InKick(t) BY <1>5 DEF InKick
<1>6. CASE InUnref(t) BY <1>6 DEF InUnref
<1> QED BY <1>1, <1>2, <1>3, <1>4, <1>5, <1>6 DEF InStep

LEMMA LoopKeeps ==
  ASSUME TypeOK, NEW t \in T, LoopStep(t)
  PROVE  /\ UNCHANGED <<deviceVars, flagVars, token, active, out, inp, life, ref,
                        kicked, regq, busy, loop, mainVars>>
         /\ Same(up, t) /\ Same(down, t) /\ Same(online, t)
         /\ up[t] # <<>> /\ up'[t] = Tail(up[t]) /\ loop = "running"
<1> USE DEF pumpVars, lifeVars, loopVars, mainVars, Same, TypeOK, LoopIdle
<1>1. CASE LoopSync(t) BY <1>1 DEF LoopSync
<1>2. CASE LoopCnxn(t) BY <1>2 DEF LoopCnxn
<1>3. CASE LoopData(t) BY <1>3 DEF LoopData
<1> QED BY <1>1, <1>2, <1>3 DEF LoopStep

LEMMA ClientKeeps ==
  ASSUME NEW c \in Client, LoopHandle(c) \/ HandlerEnd(c)
  PROVE  UNCHANGED <<deviceVars, flagVars, token, active, out, inp, up, lifeVars,
                     loop, mainVars>>
<1> USE DEF pumpVars, loopVars
<1>1. CASE LoopHandle(c) BY <1>1 DEF LoopHandle
<1>2. CASE HandlerEnd(c)
  BY <1>2 DEF HandlerEnd, ClientAcquire, ClientService, ClientGone
<1> QED BY <1>1, <1>2

LEMMA KillKeeps ==
  ASSUME TypeOK, KillStep
  PROVE  /\ UNCHANGED <<deviceVars, flagVars, token, active, out, inp, down, life,
                        online, loopVars, spawn, victim>>
         /\ Same(up, victim)
         /\ killer \in {"flags", "offline", "kick", "unref"}
         /\ killer' \in {"offline", "kick", "unref", "die"}
         /\ killer \in {"kick", "unref"} => killer' \in {"unref", "die"}
         /\ ~KillUnref => UNCHANGED <<ref, regq>>
<1> USE DEF pumpVars, lifeVars, Same, TypeOK
<1>1. CASE KillFlags BY <1>1 DEF KillFlags
<1>2. CASE KillOffline BY <1>2 DEF KillOffline, Post
<1>3. CASE KillKick BY <1>3 DEF KillKick
<1>4. CASE KillUnref BY <1>4 DEF KillUnref
<1> QED BY <1>1, <1>2, <1>3, <1>4 DEF KillStep

-----------------------------------------------------------------------------
(* Registration.                                                           *)

LEMMA AppendOne ==
  ASSUME NEW S, NEW q \in Seq(S), NEW m \in S, NEW r, r = Append(q, m)
  PROVE  \A i \in DOMAIN r :
           \/ i \in DOMAIN q /\ r[i] = q[i] /\ i # Len(q) + 1
           \/ i = Len(q) + 1 /\ r[i] = m
OBVIOUS

LEMMA TailOne ==
  ASSUME NEW S, NEW q \in Seq(S), q # <<>>, NEW r, r = Tail(q)
  PROVE  /\ 1 \in DOMAIN q /\ Head(q) = q[1]
         /\ \A i \in DOMAIN r :
              i \in Int /\ i + 1 \in DOMAIN q /\ r[i] = q[i + 1] /\ i + 1 # 1
OBVIOUS

(* Steps that leave the registration of every transport as it is.          *)
LEMMA RegisteredFrame ==
  ASSUME Registered, UNCHANGED <<dev, life, ref, regq, spawn>>,
         \A u \in T : /\ out[u] = "idle" <=> out'[u] = "idle"
                      /\ inp[u] = "idle" <=> inp'[u] = "idle",
         TypeOK
  PROVE  Registered'
<1>1. (\A u \in T : Lives(u))' BY DEF Registered, Lives, Before
<1>2. Messages' BY DEF Registered, Messages
<1>3. Spawns'
  <2>1. \A i \in DOMAIN spawn : spawn[i] \in T BY DEF TypeOK
  <2> QED BY <2>1 DEF Registered, Spawns
<1> QED BY <1>1, <1>2, <1>3 DEF Registered

LEMMA RegisteredUnref ==
  ASSUME IInv, NEW t \in T, Unref(t), life[t] = "live", ref[t] \in {1, 2},
         UNCHANGED <<dev, life, spawn>>,
         \A u \in T : /\ out[u] = "idle" <=> out'[u] = "idle"
                      /\ inp[u] = "idle" <=> inp'[u] = "idle"
  PROVE  Registered'
<1>0. TypeOK /\ Registered BY DEF IInv
<1>1. \A u \in T : ref'[u] = IF u = t THEN ref[t] - 1 ELSE ref[u]
  BY <1>0 DEF Unref, TypeOK
<1>2. (\A u \in T : Lives(u))' BY <1>0, <1>1 DEF Registered, Lives, Before
<1>3. Messages'
  <2>1. regq \in Seq(Registration) BY <1>0 DEF TypeOK, Registration
  <2>2. \A i \in DOMAIN regq : regq[i].t \in T /\ regq[i].act \in {"add", "remove"}
    BY <1>0, RegqTypes
  <2>3. \A i \in DOMAIN regq : regq[i].t # t
    BY <1>0, <2>2 DEF Registered, Messages
  <2>4. CASE ref[t] = 1
    <3> DEFINE m == [act |-> "remove", t |-> t]
    <3>1. m \in Registration BY DEF Registration
    <3>2. regq' = Append(regq, m) BY <2>4 DEF Unref, LastRef
    <3>3. \A i \in DOMAIN regq' :
            \/ i \in DOMAIN regq /\ regq'[i] = regq[i] /\ i # Len(regq) + 1
            \/ i = Len(regq) + 1 /\ regq'[i] = m
      BY <2>1, <3>1, <3>2, AppendOne
    <3>4. ref'[t] = 0 BY <1>1, <2>4
    <3>5. m.t = t /\ m.act = "remove" OBVIOUS
    <3> HIDE DEF m
    <3> QED BY <1>0, <1>1, <2>2, <2>3, <3>3, <3>4, <3>5 DEF Registered, Messages
  <2>5. CASE ref[t] # 1
    <3>1. regq' = regq BY <2>5 DEF Unref, LastRef
    <3> QED BY <1>0, <1>1, <2>2, <2>3, <3>1 DEF Registered, Messages
  <2> QED BY <2>4, <2>5
<1>4. Spawns'
  <2>1. \A i \in DOMAIN spawn : spawn[i] \in T BY <1>0 DEF TypeOK
  <2> QED BY <1>0, <2>1 DEF Registered, Spawns
<1> QED BY <1>2, <1>3, <1>4 DEF Registered

LEMMA RegisteredPlug ==
  ASSUME IInv, ~Overlap, NEW t \in T, Plug(t) PROVE Registered'
<1>0. TypeOK /\ Registered BY DEF IInv
<1>1. \A u \in T : /\ life'[u] = IF u = t THEN "queued" ELSE life[u]
                   /\ dev'[u] = IF u = t THEN "present" ELSE dev[u]
  BY <1>0 DEF Plug, TypeOK
<1>2. UNCHANGED <<ref, out, inp, spawn>>
  BY DEF Plug, pumpVars, mainVars
<1>3. dev[t] = "absent" /\ life[t] = "none" /\ \A u \in T : u < t => life[u] = "freed"
  BY <1>0 DEF Plug, Registered, Lives
<1>4. (\A u \in T : Lives(u))'
  <2>1. SUFFICES ASSUME NEW u \in T PROVE Lives(u)' OBVIOUS
  <2>2. Lives(u) /\ Lives(t) /\ (\A v \in T : Lives(v)) BY <1>0 DEF Registered
  <2>3. ASSUME NEW v \in T, v < u, dev'[u] # "absent" PROVE life'[v] = "freed"
    <3>1. CASE u = t BY <1>1, <1>3, <2>3, <3>1, Transports
    <3>2. CASE u # t
      <4>1. life[v] = "freed" BY <1>1, <2>2, <2>3, <3>2 DEF Lives
      <4> QED BY <1>1, <1>3, <4>1
    <3> QED BY <3>1, <3>2
  <2> QED BY <1>1, <1>2, <1>3, <2>2, <2>3 DEF Lives, Before
<1>5. Messages'
  <2>1. regq \in Seq(Registration) BY <1>0 DEF TypeOK, Registration
  <2>2. \A i \in DOMAIN regq : regq[i].t \in T /\ regq[i].act \in {"add", "remove"}
    BY <1>0, RegqTypes
  <2>3. \A i \in DOMAIN regq : regq[i].t # t
    BY <1>0, <1>3, <2>2 DEF Registered, Messages
  <2> DEFINE m == [act |-> "add", t |-> t]
  <2>4. m \in Registration BY DEF Registration
  <2>5. regq' = Append(regq, m) BY DEF Plug
  <2>6. \A i \in DOMAIN regq' :
          \/ i \in DOMAIN regq /\ regq'[i] = regq[i] /\ i # Len(regq) + 1
          \/ i = Len(regq) + 1 /\ regq'[i] = m
    BY <2>1, <2>4, <2>5, AppendOne
  <2>7. m.t = t /\ m.act = "add" OBVIOUS
  <2> HIDE DEF m
  <2> QED BY <1>0, <1>1, <1>2, <2>2, <2>3, <2>6, <2>7 DEF Registered, Messages
<1>6. Spawns'
  <2>1. \A i \in DOMAIN spawn : spawn[i] \in T BY <1>0 DEF TypeOK
  <2>2. \A i \in DOMAIN spawn : spawn[i] # t
    BY <1>0, <1>3, <2>1 DEF Registered, Spawns
  <2> QED BY <1>0, <1>1, <1>2, <2>1, <2>2 DEF Registered, Spawns
<1> QED BY <1>4, <1>5, <1>6 DEF Registered

LEMMA HeadMessage ==
  ASSUME IInv, regq # <<>>, NEW t, t = Head(regq).t
  PROVE  /\ t \in T /\ life[t] = IF Head(regq).act = "add" THEN "queued" ELSE "live"
         /\ Head(regq).act = "remove" => ref[t] = 0
         /\ \A i \in DOMAIN Tail(regq) :
              /\ i \in Int /\ i + 1 \in DOMAIN regq
              /\ Tail(regq)[i] = regq[i + 1] /\ regq[i + 1].t # t
         /\ \A i \in DOMAIN regq : regq[i].t \in T
<1>1. regq \in Seq(Registration) /\ Messages
  BY DEF IInv, TypeOK, Registration, Registered
<1>2. \A i \in DOMAIN regq : regq[i].t \in T BY RegqTypes DEF IInv
<1>3. /\ 1 \in DOMAIN regq /\ Head(regq) = regq[1]
      /\ \A i \in DOMAIN Tail(regq) :
           i \in Int /\ i + 1 \in DOMAIN regq /\ Tail(regq)[i] = regq[i + 1] /\ i + 1 # 1
  BY <1>1, TailOne
<1> QED BY <1>1, <1>2, <1>3 DEF Messages

LEMMA RegisteredAdd == ASSUME IInv, LoopAdd PROVE Registered'
<1> DEFINE t == Head(regq).t
<1>0. TypeOK /\ Registered /\ regq # <<>> /\ Head(regq).act = "add"
  BY DEF IInv, LoopAdd
<1>1. t \in T /\ life[t] = "queued" BY <1>0, HeadMessage
<1>2. /\ life' = [life EXCEPT ![t] = "live"] /\ ref' = [ref EXCEPT ![t] = 2]
      /\ spawn' = Append(spawn, t) /\ regq' = Tail(regq)
      /\ UNCHANGED <<dev, out, inp>>
  BY DEF LoopAdd, deviceVars, pumpVars
<1>3. \A i \in DOMAIN regq' :
        /\ i \in Int /\ i + 1 \in DOMAIN regq
        /\ regq'[i] = regq[i + 1] /\ regq[i + 1].t # t /\ regq[i + 1].t \in T
  BY <1>0, <1>2, HeadMessage
<1>4. spawn \in Seq(T) BY <1>0 DEF TypeOK
<1>5. \A i \in DOMAIN spawn' :
        \/ i \in DOMAIN spawn /\ spawn'[i] = spawn[i] /\ i # Len(spawn) + 1
        \/ i = Len(spawn) + 1 /\ spawn'[i] = t
  BY <1>1, <1>2, <1>4, AppendOne
<1> HIDE DEF t
<1>6. \A u \in T : /\ life'[u] = IF u = t THEN "live" ELSE life[u]
                   /\ ref'[u] = IF u = t THEN 2 ELSE ref[u]
  BY <1>0, <1>2 DEF TypeOK
<1>7. out[t] = "idle" /\ dev[t] # "absent" /\ UNCHANGED <<dev, out, inp>>
  BY <1>0, <1>1, <1>2 DEF Registered, Lives, Before
<1>8. (\A u \in T : Lives(u))'
  BY <1>0, <1>1, <1>6, <1>7 DEF Registered, Lives, Before
<1>9. Messages' BY <1>0, <1>3, <1>6 DEF Registered, Messages
<1>10. Spawns'
  <2>1. \A i \in DOMAIN spawn : spawn[i] \in T BY <1>4
  <2>2. \A i \in DOMAIN spawn : spawn[i] # t
    BY <1>0, <1>1, <2>1 DEF Registered, Spawns
  <2> QED BY <1>0, <1>1, <1>5, <1>6, <1>7, <2>1, <2>2 DEF Registered, Spawns
<1> QED BY <1>8, <1>9, <1>10 DEF Registered

LEMMA RegisteredRemove == ASSUME IInv, LoopRemove PROVE Registered'
<1> DEFINE t == Head(regq).t
<1>0. TypeOK /\ Registered /\ regq # <<>> /\ Head(regq).act = "remove"
  BY DEF IInv, LoopRemove
<1>1. t \in T /\ life[t] = "live" /\ ref[t] = 0 BY <1>0, HeadMessage
<1>2. /\ life' = [life EXCEPT ![t] = "freed"] /\ regq' = Tail(regq)
      /\ UNCHANGED <<dev, ref, out, inp, spawn>>
  BY DEF LoopRemove, deviceVars, mainVars
<1>3. \A i \in DOMAIN regq' :
        /\ i \in Int /\ i + 1 \in DOMAIN regq
        /\ regq'[i] = regq[i + 1] /\ regq[i + 1].t # t /\ regq[i + 1].t \in T
  BY <1>0, <1>2, HeadMessage
<1>4. out[t] # "idle"
  BY <1>1, UnusedWhenZero DEF Before, OutNeeds
<1> HIDE DEF t
<1>5. \A u \in T : life'[u] = IF u = t THEN "freed" ELSE life[u]
  BY <1>0, <1>2 DEF TypeOK
<1>6. (\A u \in T : Lives(u))'
  BY <1>0, <1>1, <1>2, <1>5 DEF Registered, Lives, Before
<1>7. Messages' BY <1>0, <1>2, <1>3, <1>5 DEF Registered, Messages
<1>8. Spawns'
  <2>1. \A i \in DOMAIN spawn : spawn[i] \in T BY <1>0 DEF TypeOK
  <2> QED BY <1>0, <1>2, <1>4, <1>5, <2>1 DEF Registered, Spawns
<1> QED BY <1>6, <1>7, <1>8 DEF Registered

LEMMA HeadSpawn ==
  ASSUME IInv, spawn # <<>>, NEW t, t = Head(spawn)
  PROVE  /\ t \in T /\ life[t] = "live" /\ out[t] = "idle" /\ inp[t] = "idle"
         /\ \A i \in DOMAIN Tail(spawn) :
              /\ i \in Int /\ i + 1 \in DOMAIN spawn
              /\ Tail(spawn)[i] = spawn[i + 1]
              /\ spawn[i + 1] \in T /\ spawn[i + 1] # t
<1>1. spawn \in Seq(T) /\ Spawns /\ \A u \in T : Lives(u)
  BY DEF IInv, TypeOK, Registered
<1>2. \A i \in DOMAIN spawn : spawn[i] \in T BY <1>1
<1>3. /\ 1 \in DOMAIN spawn /\ Head(spawn) = spawn[1]
      /\ \A i \in DOMAIN Tail(spawn) :
           i \in Int /\ i + 1 \in DOMAIN spawn /\ Tail(spawn)[i] = spawn[i + 1] /\ i + 1 # 1
  BY <1>1, TailOne
<1> QED BY <1>1, <1>2, <1>3 DEF Spawns, Lives

LEMMA RegisteredSpawn == ASSUME IInv, SpawnIo PROVE Registered'
<1> DEFINE t == Head(spawn)
<1>0. TypeOK /\ Registered /\ spawn # <<>> BY DEF IInv, SpawnIo
<1>1. t \in T /\ life[t] = "live" /\ out[t] = "idle" BY <1>0, HeadSpawn
<1>2. /\ out' = [out EXCEPT ![t] = "start"] /\ inp' = [inp EXCEPT ![t] = "read"]
      /\ spawn' = Tail(spawn) /\ UNCHANGED <<dev, life, ref, regq>>
  BY DEF SpawnIo, OutTo, deviceVars, lifeVars
<1>3. \A i \in DOMAIN spawn' :
        /\ i \in Int /\ i + 1 \in DOMAIN spawn /\ spawn'[i] = spawn[i + 1]
        /\ spawn[i + 1] \in T /\ spawn[i + 1] # t
  BY <1>0, <1>2, HeadSpawn
<1> HIDE DEF t
<1>4. \A u \in T : /\ out'[u] = IF u = t THEN "start" ELSE out[u]
                   /\ inp'[u] = IF u = t THEN "read" ELSE inp[u]
  BY <1>0, <1>2 DEF TypeOK
<1>5. UNCHANGED <<dev, life, ref, regq>> BY <1>2
<1>6. (\A u \in T : Lives(u))'
  BY <1>0, <1>1, <1>4, <1>5 DEF Registered, Lives, Before
<1>7. Messages' BY <1>0, <1>5 DEF Registered, Messages
<1>8. Spawns' BY <1>0, <1>3, <1>4, <1>5 DEF Registered, Spawns
<1> QED BY <1>6, <1>7, <1>8 DEF Registered

LEMMA RegisteredNext == ASSUME IInv, ~Overlap, Next PROVE Registered'
<1>0. TypeOK /\ Registered BY DEF IInv
<1>1. ASSUME NEW t \in T, Plug(t) PROVE Registered' BY <1>1, RegisteredPlug
<1>2. ASSUME NEW t \in T, Unplug(t) PROVE Registered'
  <2>1. \A u \in T : dev'[u] = "absent" <=> dev[u] = "absent"
    BY <1>0, <1>2 DEF Unplug, TypeOK
  <2>2. UNCHANGED <<life, ref, out, inp, regq, spawn>>
    BY <1>2 DEF Unplug, lifeVars, pumpVars, mainVars
  <2>3. (\A u \in T : Lives(u))' BY <1>0, <2>1, <2>2 DEF Registered, Lives, Before
  <2>4. Messages' /\ Spawns' BY <1>0, <2>2 DEF Registered, Messages, Spawns
  <2> QED BY <2>3, <2>4 DEF Registered
<1>3. ASSUME NEW t \in T, OutStep(t) \/ OutRead(t) \/ OutFail(t) PROVE Registered'
  <2>0. /\ UNCHANGED <<dev, life, inp, spawn>> /\ out[t] # "idle"
        /\ \A u \in T : out[u] = "idle" <=> out'[u] = "idle"
        /\ ~OutUnref(t) => UNCHANGED <<ref, regq>>
    BY <1>0, <1>3, OutKeeps DEF Same, mainVars
  <2>1. CASE OutUnref(t)
    <3>1. ref[t] \in {1, 2} /\ life[t] = "live"
      BY <2>0, <2>1, HeldByThread DEF OutUnref, OutAt, OutNeeds
    <3> QED BY <2>0, <2>1, <3>1, RegisteredUnref DEF OutUnref
  <2>2. CASE ~OutUnref(t) BY <1>0, <2>0, <2>2, RegisteredFrame
  <2> QED BY <2>1, <2>2
<1>4. ASSUME NEW t \in T, InStep(t) PROVE Registered'
  <2>0. /\ UNCHANGED <<dev, life, out, spawn>> /\ inp[t] # "idle" /\ InNeeds(t)
        /\ \A u \in T : inp[u] = "idle" <=> inp'[u] = "idle"
        /\ ~InUnref(t) => UNCHANGED <<ref, regq>>
    BY <1>0, <1>4, InKeeps DEF Same, mainVars
  <2>1. CASE InUnref(t)
    <3>1. ref[t] \in {1, 2} /\ life[t] = "live" BY <2>0, HeldByThread
    <3> QED BY <2>0, <2>1, <3>1, RegisteredUnref DEF InUnref
  <2>2. CASE ~InUnref(t) BY <1>0, <2>0, <2>2, RegisteredFrame
  <2> QED BY <2>1, <2>2
<1>5. ASSUME NEW t \in T, LoopStep(t) PROVE Registered'
  <2>1. UNCHANGED <<dev, life, ref, regq, spawn, out, inp>>
    BY <1>0, <1>5, LoopKeeps DEF deviceVars, mainVars
  <2> QED BY <1>0, <2>1, RegisteredFrame
<1>6. ASSUME NEW c \in Client, LoopHandle(c) \/ HandlerEnd(c) PROVE Registered'
  <2>1. UNCHANGED <<dev, life, ref, regq, spawn, out, inp>>
    BY <1>6, ClientKeeps DEF deviceVars, lifeVars, mainVars
  <2> QED BY <1>0, <2>1, RegisteredFrame
<1>7. CASE HandlerReturns \/ Close \/ LoopDies
  <2>1. UNCHANGED <<dev, life, ref, regq, spawn, out, inp>>
    BY <1>7 DEF HandlerReturns, Close, LoopDies, deviceVars, lifeVars, pumpVars,
                mainVars
  <2> QED BY <1>0, <2>1, RegisteredFrame
<1>8. CASE LoopAdd BY <1>8, RegisteredAdd
<1>9. CASE LoopRemove BY <1>9, RegisteredRemove
<1>10. CASE SpawnIo BY <1>10, RegisteredSpawn
<1>11. CASE Terminate
  <2>1. UNCHANGED <<dev, life, ref, regq, spawn, inp>>
    BY <1>11 DEF Terminate, deviceVars, lifeVars
  <2>2. \A u \in T : out[u] = "idle" <=> out'[u] = "idle"
    BY <1>0, <1>11 DEF Terminate, OutAt, OutTo, TypeOK
  <2> QED BY <1>0, <2>1, <2>2, RegisteredFrame
<1>12. CASE KillStep
  <2>0. /\ UNCHANGED <<dev, life, out, inp, spawn>>
        /\ ~KillUnref => UNCHANGED <<ref, regq>>
    BY <1>0, <1>12, KillKeeps DEF deviceVars
  <2>1. CASE KillUnref
    <3>1. victim \in T /\ KillHolds(victim) /\ out[victim] # "idle"
      BY <1>0, <2>1 DEF KillUnref, IInv, OneVictim, TypeOK, KillHolds
    <3>2. ref[victim] \in {1, 2} /\ life[victim] = "live"
      BY <3>1, HeldByThread
    <3> QED BY <2>0, <2>1, <3>1, <3>2, RegisteredUnref DEF KillUnref
  <2>2. CASE ~KillUnref BY <1>0, <2>0, <2>2, RegisteredFrame
  <2> QED BY <2>1, <2>2
<1> QED BY <1>1, <1>2, <1>3, <1>4, <1>5, <1>6, <1>7, <1>8, <1>9, <1>10, <1>11,
           <1>12 DEF Next

-----------------------------------------------------------------------------
(* The references.                                                         *)

LEMMA CountedFrame ==
  ASSUME TypeOK, Counted, UNCHANGED ref,
         \A u \in T : /\ Before(u) => Before(u)'
                      /\ OutNeeds(u)' => OutNeeds(u)
                      /\ InNeeds(u)' => InNeeds(u)
                      /\ KillHolds(u)' => KillHolds(u)
  PROVE  Counted'
<1>1. \A u \in T : ref[u] \in Int BY DEF TypeOK
<1>2. \A u \in T : ~Before(u) =>
        One(OutNeeds(u)) + One(InNeeds(u)) + One(KillHolds(u)) <= ref[u]
  BY DEF Counted
<1> QED BY <1>1, <1>2 DEF Counted, One

LEMMA CountedUnref ==
  ASSUME IInv, NEW t \in T, Unref(t), UNCHANGED life,
         \A u \in T : /\ OutNeeds(u)' => OutNeeds(u)
                      /\ InNeeds(u)' => InNeeds(u)
                      /\ KillHolds(u)' => KillHolds(u),
         \/ OutNeeds(t) /\ ~OutNeeds(t)'
         \/ InNeeds(t) /\ ~InNeeds(t)'
         \/ KillHolds(t) /\ ~KillHolds(t)'
  PROVE  Counted'
<1>1. \A u \in T : ref'[u] = IF u = t THEN ref[t] - 1 ELSE ref[u]
  BY DEF Unref, IInv, TypeOK
<1>2. \A u \in T : ref[u] \in Int BY DEF IInv, TypeOK
<1>3. \A u \in T : Before(u)' <=> Before(u) BY DEF Before
<1>4. \A u \in T : ~Before(u) =>
        One(OutNeeds(u)) + One(InNeeds(u)) + One(KillHolds(u)) <= ref[u]
  BY DEF IInv, Counted
<1> QED BY <1>1, <1>2, <1>3, <1>4 DEF Counted, One

LEMMA CountedNext == ASSUME IInv, Next PROVE Counted'
<1>0. TypeOK /\ Registered /\ Counted /\ OneVictim BY DEF IInv
<1>1. ASSUME NEW t \in T, Plug(t) \/ Unplug(t) PROVE Counted'
  <2>1. UNCHANGED <<ref, out, inp, victim, killer>> /\ \A u \in T : Before(u) => Before(u)'
    BY <1>0, <1>1 DEF Plug, Unplug, lifeVars, pumpVars, mainVars, Before, TypeOK
  <2> QED BY <1>0, <2>1, CountedFrame DEF OutNeeds, InNeeds, KillHolds
<1>3. ASSUME NEW t \in T, OutStep(t) \/ OutRead(t) \/ OutFail(t) PROVE Counted'
  <2>0. /\ UNCHANGED <<life, inp, victim, killer>> /\ Same(out, t)
        /\ out[t] # "idle" /\ out'[t] # "stopped" /\ (OutNeeds(t)' => OutNeeds(t))
        /\ ~OutUnref(t) => UNCHANGED <<ref, regq>>
    BY <1>0, <1>3, OutKeeps DEF mainVars
  <2>1. \A u \in T : /\ OutNeeds(u)' => OutNeeds(u)
                     /\ InNeeds(u)' => InNeeds(u)
                     /\ KillHolds(u)' => KillHolds(u)
    BY <2>0 DEF OutNeeds, InNeeds, KillHolds, Same
  <2>2. CASE OutUnref(t)
    <3>1. OutNeeds(t) /\ ~OutNeeds(t)' /\ Unref(t)
      BY <1>0, <2>2 DEF OutUnref, OutAt, OutTo, OutNeeds, TypeOK
    <3>2. UNCHANGED life BY <2>0
    <3> QED BY <2>1, <3>1, <3>2, CountedUnref
  <2>3. CASE ~OutUnref(t) BY <1>0, <2>0, <2>1, <2>3, CountedFrame DEF Before
  <2> QED BY <2>2, <2>3
<1>4. ASSUME NEW t \in T, InStep(t) PROVE Counted'
  <2>0. /\ UNCHANGED <<life, out, victim, killer>> /\ Same(inp, t) /\ InNeeds(t)
        /\ ~InUnref(t) => UNCHANGED <<ref, regq>>
    BY <1>0, <1>4, InKeeps DEF mainVars
  <2>1. \A u \in T : /\ OutNeeds(u)' => OutNeeds(u)
                     /\ InNeeds(u)' => InNeeds(u)
                     /\ KillHolds(u)' => KillHolds(u)
    BY <2>0 DEF OutNeeds, InNeeds, KillHolds, Same
  <2>2. CASE InUnref(t)
    <3>1. ~InNeeds(t)' /\ Unref(t)
      BY <1>0, <2>2 DEF InUnref, InTo, InNeeds, TypeOK
    <3> QED BY <2>0, <2>1, <3>1, CountedUnref
  <2>3. CASE ~InUnref(t) BY <1>0, <2>0, <2>1, <2>3, CountedFrame DEF Before
  <2> QED BY <2>2, <2>3
<1>5. ASSUME NEW t \in T, LoopStep(t) PROVE Counted'
  <2>1. UNCHANGED <<life, ref, out, inp, victim, killer>>
    BY <1>0, <1>5, LoopKeeps DEF mainVars
  <2> QED BY <1>0, <2>1, CountedFrame DEF Before, OutNeeds, InNeeds, KillHolds
<1>6. ASSUME NEW c \in Client, LoopHandle(c) \/ HandlerEnd(c) PROVE Counted'
  <2>1. UNCHANGED <<life, ref, out, inp, victim, killer>>
    BY <1>6, ClientKeeps DEF lifeVars, mainVars
  <2> QED BY <1>0, <2>1, CountedFrame DEF Before, OutNeeds, InNeeds, KillHolds
<1>7. CASE HandlerReturns \/ LoopDies
  <2>1. UNCHANGED <<life, ref, out, inp, victim>>
    BY <1>7 DEF HandlerReturns, LoopDies, lifeVars, pumpVars, mainVars
  <2>2. UNCHANGED killer \/ killer' = "done"
    BY <1>7 DEF HandlerReturns, LoopDies, mainVars
  <2> QED BY <1>0, <2>1, <2>2, CountedFrame DEF Before, OutNeeds, InNeeds, KillHolds
<1>8. CASE Close
  <2>1. UNCHANGED <<life, ref, out, inp, victim>> /\ killer' = "die"
    BY <1>8 DEF Close, lifeVars, pumpVars
  <2> QED BY <1>0, <2>1, CountedFrame DEF Before, OutNeeds, InNeeds, KillHolds
<1>9. CASE LoopAdd
  <2> DEFINE t == Head(regq).t
  <2>1. t \in T /\ life[t] = "queued" BY <1>9, HeadMessage DEF LoopAdd
  <2>2. /\ life' = [life EXCEPT ![t] = "live"] /\ ref' = [ref EXCEPT ![t] = 2]
        /\ UNCHANGED <<out, inp, victim, killer>>
    BY <1>9 DEF LoopAdd, pumpVars
  <2> HIDE DEF t
  <2>3. \A u \in T : ref'[u] = IF u = t THEN 2 ELSE ref[u] BY <1>0, <2>2 DEF TypeOK
  <2>4. \A u \in T : u # t => (Before(u)' <=> Before(u))
    BY <1>0, <2>2 DEF Before, TypeOK
  <2>5. out[t] = "idle" BY <1>0, <2>1 DEF Registered, Lives, Before
  <2>6. ~KillHolds(t) BY <2>5 DEF KillHolds
  <2>7. \A u \in T : /\ OutNeeds(u)' <=> OutNeeds(u) 
                     /\ InNeeds(u)' <=> InNeeds(u)
                     /\ KillHolds(u)' <=> KillHolds(u)
    BY <2>2 DEF OutNeeds, InNeeds, KillHolds
  <2>8. \A u \in T : ~Before(u) =>
          One(OutNeeds(u)) + One(InNeeds(u)) + One(KillHolds(u)) <= ref[u]
    BY <1>0 DEF Counted
  <2> QED BY <2>3, <2>4, <2>6, <2>7, <2>8 DEF Counted, One
<1>10. CASE LoopRemove
  <2>1. /\ Head(regq).t \in T /\ life[Head(regq).t] = "live"
    BY <1>10, HeadMessage DEF LoopRemove
  <2>2. /\ life' = [life EXCEPT ![Head(regq).t] = "freed"]
        /\ UNCHANGED <<ref, out, inp, victim, killer>>
    BY <1>10 DEF LoopRemove, mainVars
  <2>3. \A u \in T : Before(u) => Before(u)' BY <1>0, <2>1, <2>2 DEF Before, TypeOK
  <2> QED BY <1>0, <2>2, <2>3, CountedFrame DEF OutNeeds, InNeeds, KillHolds
<1>11. CASE SpawnIo
  <2> DEFINE t == Head(spawn)
  <2>1. t \in T /\ out[t] = "idle" /\ inp[t] = "idle" BY <1>11, HeadSpawn DEF SpawnIo
  <2>2. /\ out' = [out EXCEPT ![t] = "start"] /\ inp' = [inp EXCEPT ![t] = "read"]
        /\ victim' = t /\ UNCHANGED <<life, ref, killer>>
    BY <1>11 DEF SpawnIo, OutTo, lifeVars
  <2> HIDE DEF t
  <2>3. \A u \in T : /\ out'[u] = IF u = t THEN "start" ELSE out[u]
                     /\ inp'[u] = IF u = t THEN "read" ELSE inp[u]
    BY <1>0, <2>2 DEF TypeOK
  <2>4. \A u \in T : /\ OutNeeds(u)' => OutNeeds(u)
                     /\ InNeeds(u)' => InNeeds(u)
                     /\ KillHolds(u)' => KillHolds(u)
    BY <2>1, <2>2, <2>3 DEF OutNeeds, InNeeds, KillHolds
  <2> QED BY <1>0, <2>2, <2>4, CountedFrame DEF Before
<1>12. CASE Terminate
  <2>1. /\ victim \in T /\ out[victim] \in {"start", "read", "done"} /\ killer = "idle"
        /\ killer' = "flags" /\ UNCHANGED <<life, ref, inp, victim>>
    BY <1>0, <1>12 DEF Terminate, lifeVars, TypeOK
  <2>2. \A u \in T : out'[u] = IF u = victim
                               THEN (IF out[u] = "done" THEN "done" ELSE "stopped")
                               ELSE out[u]
    BY <1>0, <1>12 DEF Terminate, OutAt, OutTo, TypeOK
  <2>3. \A u \in T : /\ Before(u)' <=> Before(u)
                     /\ InNeeds(u)' <=> InNeeds(u)
                     /\ ~KillHolds(u)
    BY <2>1 DEF Before, InNeeds, KillHolds
  <2>4. \A u \in T : KillHolds(u)' \/ OutNeeds(u)' => OutNeeds(u)
    BY <1>0, <2>1, <2>2 DEF OutNeeds, KillHolds, OneVictim
  <2>5. \A u \in T : ~(KillHolds(u)' /\ OutNeeds(u)')
    BY DEF OutNeeds, KillHolds
  <2>6. \A u \in T : ref[u] \in Int BY <1>0 DEF TypeOK
  <2>7. \A u \in T : ~Before(u) =>
          One(OutNeeds(u)) + One(InNeeds(u)) + One(KillHolds(u)) <= ref[u]
    BY <1>0 DEF Counted
  <2>8. UNCHANGED ref BY <2>1
  <2> QED BY <2>3, <2>4, <2>5, <2>6, <2>7, <2>8 DEF Counted, One
<1>13. CASE KillStep
  <2>0. /\ UNCHANGED <<life, out, inp, victim>>
        /\ killer \in {"flags", "offline", "kick", "unref"}
        /\ ~KillUnref => UNCHANGED <<ref, regq>>
    BY <1>0, <1>13, KillKeeps
  <2>1. \A u \in T : /\ OutNeeds(u)' => OutNeeds(u)
                     /\ InNeeds(u)' => InNeeds(u)
                     /\ KillHolds(u)' => KillHolds(u)
    BY <2>0 DEF OutNeeds, InNeeds, KillHolds
  <2>2. CASE KillUnref
    <3>1. victim \in T /\ KillHolds(victim) /\ ~KillHolds(victim)' /\ Unref(victim)
      BY <1>0, <2>2 DEF KillUnref, OneVictim, TypeOK, KillHolds
    <3> QED BY <2>0, <2>1, <3>1, CountedUnref
  <2>3. CASE ~KillUnref BY <1>0, <2>0, <2>1, <2>3, CountedFrame DEF Before
  <2> QED BY <2>2, <2>3
<1> QED BY <1>1, <1>3, <1>4, <1>5, <1>6, <1>7, <1>8, <1>9, <1>10, <1>11, <1>12,
           <1>13 DEF Next

-----------------------------------------------------------------------------
(* One victim.                                                             *)

LEMMA VictimFrame ==
  ASSUME OneVictim, UNCHANGED <<out, victim, killer, started, ended>>
  PROVE  OneVictim'
BY DEF OneVictim, OutNeeds

(* The thread that takes a step is the victim.                             *)
LEMMA VictimSteps ==
  ASSUME IInv, NEW t \in T, out[t] \notin {"idle", "done", "stopped"}, out[t] # "end"
  PROVE  victim = t
BY DEF IInv, OneVictim, OutNeeds, TypeOK, OutPc

LEMMA VictimOut ==
  ASSUME IInv, NEW t \in T, OutStep(t) \/ OutRead(t) \/ OutFail(t)
  PROVE  OneVictim'
<1> USE DEF OutAt, OutTo
<1>0. /\ TypeOK /\ OneVictim /\ out \in [T -> OutPc]
      /\ victim \in {0} \cup T
  BY DEF IInv, TypeOK
<1>1. UNCHANGED <<victim, killer>> /\ Same(out, t)
      /\ out[t] \notin {"idle", "done", "stopped"}
      /\ out'[t] \notin {"idle", "start", "stopped"}
      /\ (OutNeeds(t)' => OutNeeds(t))
  BY <1>0, OutKeeps DEF mainVars
<1>2. ASSUME UNCHANGED <<started, ended>>, out'[t] # "done",
             out'[t] \in {"read", "check"} => out[t] \in {"read", "check"}
      PROVE  OneVictim'
  BY <1>0, <1>1, <1>2 DEF OneVictim, OutNeeds, Same
<1>3. CASE OutStart(t)
  <2>1. started' = FALSE /\ ended' = FALSE /\ out'[t] \in {"read", "kick"} /\ victim = t
    BY <1>0, <1>3, VictimSteps DEF OutStart, AfterPost
  <2> QED BY <1>0, <1>1, <2>1 DEF OneVictim, OutNeeds, Same
<1>4. CASE OutRead(t)
  BY <1>0, <1>2, <1>4 DEF OutRead, AfterPost, flagVars
<1>5. CASE OutFail(t) BY <1>0, <1>2, <1>5 DEF OutFail, flagVars
<1>6. CASE OutCheck(t)
  <2>1. victim = t /\ ~started /\ out'[t] = "offline" /\ UNCHANGED ended
    BY <1>0, <1>6, VictimSteps DEF OutCheck, AlreadyCleaned, OneVictim
  <2>2. \A u \in T : out'[u] \notin {"read", "check"}
    BY <1>0, <1>1, <2>1 DEF OneVictim, OutNeeds, Same
  <2> QED BY <1>0, <1>1, <2>1, <2>2 DEF OneVictim, OutNeeds, Same
<1>7. CASE OutOffline(t) BY <1>0, <1>2, <1>7 DEF OutOffline, flagVars
<1>8. CASE OutKick(t) BY <1>0, <1>2, <1>8 DEF OutKick, flagVars
<1>9. CASE OutUnref(t) BY <1>0, <1>2, <1>9 DEF OutUnref, flagVars
<1>10. CASE OutEnd(t)
  <2>1. out'[t] = "done" /\ ended' = TRUE /\ UNCHANGED started
    BY <1>0, <1>10 DEF OutEnd
  <2> QED BY <1>0, <1>1, <2>1 DEF OneVictim, OutNeeds, Same
<1> QED BY <1>3, <1>4, <1>5, <1>6, <1>7, <1>8, <1>9, <1>10 DEF OutStep

(* The next transport gets its threads when the one before it is freed.    *)
LEMMA VictimSpawn == ASSUME IInv, SpawnIo PROVE OneVictim'
<1> DEFINE t == Head(spawn)
<1>0. TypeOK /\ OneVictim /\ Registered BY DEF IInv
<1>1. t \in T /\ life[t] = "live" BY HeadSpawn DEF SpawnIo
<1>2. /\ out' = [out EXCEPT ![t] = "start"] /\ killer = "idle"
      /\ victim' = t /\ UNCHANGED <<killer, started, ended>>
  BY DEF SpawnIo, OutTo, flagVars
<1> HIDE DEF t
<1>3. \A u \in T : out'[u] = IF u = t THEN "start" ELSE out[u]
  BY <1>0, <1>2 DEF TypeOK
<1>4. ASSUME NEW u \in T, u # t PROVE out[u] = "idle" \/ ~OutNeeds(u)
  <2>1. dev[t] # "absent" BY <1>0, <1>1 DEF Registered, Lives
  <2>2. CASE u < t
    <3>1. life[u] = "freed" BY <1>0, <1>1, <2>1, <2>2 DEF Registered, Lives
    <3>2. ref[u] = 0 BY <1>0, <3>1 DEF Registered, Lives
    <3> QED BY <3>1, <3>2, UnusedWhenZero DEF Before
  <2>3. CASE t < u
    <3>1. dev[u] = "absent" BY <1>0, <1>1, <2>3 DEF Registered, Lives
    <3> QED BY <1>0, <3>1 DEF Registered, Lives, Before
  <2> QED BY <1>1, <1>4, <2>2, <2>3, Transports
<1> QED BY <1>0, <1>1, <1>2, <1>3, <1>4 DEF OneVictim, OutNeeds

LEMMA VictimNext == ASSUME IInv, Next PROVE OneVictim'
<1>0. TypeOK /\ OneVictim BY DEF IInv
<1>1. ASSUME NEW t \in T, Plug(t) \/ Unplug(t) PROVE OneVictim'
  BY <1>0, <1>1, VictimFrame DEF Plug, Unplug, flagVars, pumpVars, mainVars
<1>2. ASSUME NEW t \in T, OutStep(t) \/ OutRead(t) \/ OutFail(t) PROVE OneVictim'
  BY <1>2, VictimOut
<1>3. ASSUME NEW t \in T, InStep(t) PROVE OneVictim'
  <2>1. UNCHANGED <<out, victim, killer, started, ended>>
    BY <1>0, <1>3, InKeeps DEF flagVars, mainVars
  <2> QED BY <1>0, <2>1, VictimFrame
<1>4. ASSUME NEW t \in T, LoopStep(t) PROVE OneVictim'
  <2>1. UNCHANGED <<out, victim, killer, started, ended>>
    BY <1>0, <1>4, LoopKeeps DEF flagVars, mainVars
  <2> QED BY <1>0, <2>1, VictimFrame
<1>5. ASSUME NEW c \in Client, LoopHandle(c) \/ HandlerEnd(c) PROVE OneVictim'
  <2>1. UNCHANGED <<out, victim, killer, started, ended>>
    BY <1>5, ClientKeeps DEF flagVars, mainVars
  <2> QED BY <1>0, <2>1, VictimFrame
<1>6. CASE HandlerReturns \/ LoopAdd \/ LoopRemove
  BY <1>0, <1>6, VictimFrame
  DEF HandlerReturns, LoopAdd, LoopRemove, flagVars, pumpVars, mainVars
<1>7. CASE SpawnIo BY <1>7, VictimSpawn
<1>8. CASE Close \/ LoopDies
  <2>1. UNCHANGED <<out, victim, started, ended>> /\ killer' \in {"die", "done"}
    BY <1>8 DEF Close, LoopDies, flagVars, pumpVars
  <2> QED BY <1>0, <2>1 DEF OneVictim, OutNeeds
<1>9. CASE Terminate
  <2>1. /\ victim \in T /\ out[victim] \in {"start", "read", "done"} /\ killer = "idle"
        /\ killer' = "flags" /\ UNCHANGED <<victim, started, ended>>
    BY <1>0, <1>9 DEF Terminate, flagVars, TypeOK
  <2>2. \A u \in T : out'[u] = IF u = victim
                               THEN (IF out[u] = "done" THEN "done" ELSE "stopped")
                               ELSE out[u]
    BY <1>0, <1>9 DEF Terminate, OutAt, OutTo, TypeOK
  <2>3. victim # 0 BY <2>1, Transports
  <2> QED BY <1>0, <2>1, <2>2, <2>3 DEF OneVictim, OutNeeds
<1>10. CASE KillStep
  <2>1. /\ UNCHANGED <<out, victim, started, ended>>
        /\ killer \in {"flags", "offline", "kick", "unref"}
        /\ killer' \in {"offline", "kick", "unref", "die"}
    BY <1>0, <1>10, KillKeeps DEF flagVars
  <2>2. killer' # "die" => out[victim] = "stopped" /\ victim # 0
    BY <1>0, <1>10
    DEF KillStep, KillFlags, KillOffline, KillKick, KillUnref, NothingToDo, OneVictim
  <2> QED BY <1>0, <2>1, <2>2 DEF OneVictim, OutNeeds
<1> QED BY <1>1, <1>2, <1>3, <1>4, <1>5, <1>6, <1>7, <1>8, <1>9, <1>10 DEF Next

-----------------------------------------------------------------------------
(* Packets under way.                                                      *)

LEMMA Packets ==
  /\ Online(2) # Offline /\ Online(2) # Cnxn /\ Online(2) # Data
  /\ Offline # Cnxn /\ Offline # Data /\ Cnxn # Data
  /\ {Online(2), Offline, Cnxn, Data} = Packet
  /\ Online(2)[1] = "SYNC" /\ Offline[1] = "SYNC"
  /\ Cnxn[1] # "SYNC" /\ Data[1] # "SYNC"
BY DEF Online, Offline, Cnxn, Data, Packet

LEMMA Posting ==
  ASSUME NEW s \in Seq(Packet), NEW p \in Packet, NEW r, r = Append(s, p)
  PROVE  /\ r # <<>> /\ Len(r) = Len(s) + 1 /\ Len(s) \in Nat
         /\ DOMAIN r = 1..(Len(s) + 1) /\ DOMAIN s = 1..Len(s)
         /\ r[Len(s) + 1] = p /\ \A i \in DOMAIN s : r[i] = s[i]
         /\ Head(r) = IF s = <<>> THEN p ELSE Head(s)
OBVIOUS

LEMMA PostingAmong ==
  ASSUME NEW s \in Seq(Packet), NEW p \in Packet, NEW r, r = Append(s, p), NEW q
  PROVE  Among(q, r) <=> (Among(q, s) \/ q = p)
<1>1. /\ Len(r) = Len(s) + 1 /\ Len(s) \in Nat
      /\ DOMAIN r = 1..(Len(s) + 1) /\ DOMAIN s = 1..Len(s)
      /\ r[Len(s) + 1] = p /\ \A i \in DOMAIN s : r[i] = s[i]
  BY Posting
<1>3. ASSUME Among(q, r) PROVE Among(q, s) \/ q = p
  <2>1. PICK i \in DOMAIN r : r[i] = q BY <1>3 DEF Among
  <2>2. CASE i = Len(s) + 1 BY <1>1, <2>1, <2>2
  <2>3. CASE i # Len(s) + 1
    <3>1. i \in DOMAIN s /\ s[i] = q BY <1>1, <2>1, <2>3
    <3> QED BY <3>1 DEF Among
  <2> QED BY <2>2, <2>3
<1>4. ASSUME Among(q, s) PROVE Among(q, r)
  <2>1. PICK i \in DOMAIN s : s[i] = q BY <1>4 DEF Among
  <2>2. i \in DOMAIN r /\ r[i] = q BY <1>1, <2>1
  <2> QED BY <2>2 DEF Among
<1>5. Among(p, r)
  <2>1. Len(s) + 1 \in DOMAIN r /\ r[Len(s) + 1] = p BY <1>1
  <2> QED BY <2>1 DEF Among
<1> QED BY <1>3, <1>4, <1>5

LEMMA Popping ==
  ASSUME NEW s \in Seq(Packet), s # <<>>, NEW r, r = Tail(s)
  PROVE  /\ Head(s) \in Packet /\ r \in Seq(Packet) /\ (Len(s) = 1 => r = <<>>)
         /\ Len(s) \in Nat \ {0} /\ Len(r) = Len(s) - 1
         /\ DOMAIN s = 1..Len(s) /\ DOMAIN r = 1..(Len(s) - 1) /\ s[1] = Head(s)
         /\ \A i \in DOMAIN r : r[i] = s[i + 1]
OBVIOUS

LEMMA PoppingAmong ==
  ASSUME NEW s \in Seq(Packet), s # <<>>, NEW r, r = Tail(s), NEW q
  PROVE  Among(q, s) <=> (Among(q, r) \/ q = Head(s))
<1>1. /\ Len(s) \in Nat /\ Len(s) # 0 /\ DOMAIN s = 1..Len(s)
      /\ DOMAIN r = 1..(Len(s) - 1) /\ s[1] = Head(s)
      /\ \A i \in DOMAIN r : r[i] = s[i + 1]
  BY Popping
<1>3. ASSUME Among(q, s) PROVE Among(q, r) \/ q = Head(s)
  <2>1. PICK i \in DOMAIN s : s[i] = q BY <1>3 DEF Among
  <2>2. CASE i = 1 BY <1>1, <2>1, <2>2
  <2>3. CASE i # 1
    <3>1. i - 1 \in DOMAIN r /\ r[i - 1] = q BY <1>1, <2>1, <2>3
    <3> QED BY <3>1 DEF Among
  <2> QED BY <2>2, <2>3
<1>4. ASSUME Among(q, r) PROVE Among(q, s)
  <2>1. PICK i \in DOMAIN r : r[i] = q BY <1>4 DEF Among
  <2>2. i + 1 \in DOMAIN s /\ s[i + 1] = q BY <1>1, <2>1
  <2> QED BY <2>2 DEF Among
<1>5. Among(Head(s), s)
  <2>1. 1 \in DOMAIN s /\ s[1] = Head(s) BY <1>1
  <2> QED BY <2>1 DEF Among
<1> QED BY <1>3, <1>4, <1>5

LEMMA NoneAmong == \A q : ~Among(q, <<>>)
BY DEF Among

(* The conversation of a transport the step does not touch.                *)
LEMMA TalkFrame ==
  ASSUME NEW t \in T, Talk(t),
         out'[t] = out[t], inp'[t] = inp[t], token'[t] = token[t],
         up'[t] = up[t], down'[t] = down[t], heard'[t] = heard[t],
         active'[t] = active[t], online'[t] = online[t],
         loop' = loop \/ loop' = "dead", Quiet(t) => Quiet(t)'
  PROVE  Talk(t)'
<1>1. Silent(t)' BY DEF Talk, Silent
<1>2. LastWord(t)' BY DEF Talk, LastWord
<1>3. StaysOffline(t)' BY DEF Talk, StaysOffline, Among
<1>4. InTurn(t)' BY DEF Talk, InTurn, Among
<1>5. Posted(t)' BY DEF Talk, Posted, Among
<1> QED BY <1>1, <1>2, <1>3, <1>4, <1>5 DEF Talk

LEMMA TalkFrameAll ==
  ASSUME Talking, UNCHANGED <<out, inp, token, up, down, heard, active, online>>,
         loop' = loop \/ loop' = "dead", \A t \in T : Quiet(t) => Quiet(t)'
  PROVE  Talking'
BY TalkFrame DEF Talking

(* An output thread moves on without posting anything.                     *)
LEMMA TalkOutMoves ==
  ASSUME NEW t \in T, Talk(t), out'[t] \notin {"idle", "start"},
         inp'[t] = inp[t], token'[t] = token[t],
         up'[t] = up[t], down'[t] = down[t], heard'[t] = heard[t],
         active'[t] = active[t], online'[t] = online[t],
         loop' = loop, killer' = killer,
         Quiet(t) => Quiet(t)',
         out'[t] \in {"kick", "unref", "end", "done"} =>
           out[t] \in {"kick", "unref", "end", "done"}
  PROVE  Talk(t)'
<1>1. Silent(t)' BY DEF Talk, Silent
<1>2. LastWord(t)' BY DEF Talk, LastWord
<1>3. StaysOffline(t)' BY DEF Talk, StaysOffline, Among
<1>4. InTurn(t)' BY DEF Talk, InTurn, Among
<1>5. Posted(t)' BY DEF Talk, Posted, Among
<1> QED BY <1>1, <1>2, <1>3, <1>4, <1>5 DEF Talk

LEMMA TalkOut ==
  ASSUME IInv, NEW t \in T, OutStep(t) \/ OutRead(t) \/ OutFail(t)
  PROVE  Talk(t)'
<1> USE DEF OutAt, OutTo
<1>0. /\ TypeOK /\ OneVictim /\ Talk(t) /\ up[t] \in Seq(Packet)
      /\ out[t] \in OutPc /\ loop \in {"running", "dead"}
  BY DEF IInv, TypeOK, Talking
<1>1. /\ UNCHANGED <<heard, online, active, inp, down, loop, killer>>
      /\ out[t] \notin {"idle", "done", "stopped"}
      /\ out'[t] \notin {"idle", "start", "stopped"}
  BY <1>0, OutKeeps DEF loopVars, mainVars
<1>2. CASE OutStart(t)
  <2>1. /\ token[t] = 1 /\ up[t] = <<>> /\ down[t] = <<>>
        /\ ~heard[t] /\ ~active[t] /\ ~online[t]
    BY <1>0, <1>2 DEF OutStart, Talk, Silent
  <2>2. token'[t] = 2 /\ out'[t] = AfterPost("read") /\ ~Quiet(t)
    BY <1>0, <1>2, <2>1 DEF OutStart, TypeOK, Quiet
  <2>3. up'[t] = IF loop = "running" THEN <<Online(2)>> ELSE <<>>
    BY <1>0, <1>2, <2>1 DEF OutStart, Post, TypeOK
  <2>4. \A q : Among(q, up'[t]) => q = Online(2) /\ loop = "running"
    BY <2>3 DEF Among
  <2>5. Silent(t)' BY <1>1 DEF Silent
  <2>6. LastWord(t)' BY <2>4, Packets DEF LastWord, Among
  <2>7. StaysOffline(t)'
    <3>1. inp[t] \in {"close", "kick", "unref", "done"} => loop = "dead"
      BY <1>0, <2>2 DEF Talk, StaysOffline
    <3>2. ~Among(Offline, down'[t]) BY <1>1, <2>1, NoneAmong
    <3> QED BY <1>1, <3>1, <3>2 DEF StaysOffline
  <2>8. InTurn(t)' BY <1>1, <2>1, <2>2, <2>4, Packets DEF InTurn
  <2>9. Posted(t)' BY <1>1, <2>2 DEF Posted, AfterPost
  <2> QED BY <2>5, <2>6, <2>7, <2>8, <2>9 DEF Talk
<1>3. CASE OutRead(t)
  <2>1. /\ out[t] = "read" /\ out'[t] = AfterPost("read") /\ heard[t] /\ ~Quiet(t)
        /\ UNCHANGED token
    BY <1>0, <1>3 DEF OutRead, Quiet, TypeOK
  <2>2. CASE loop = "dead"
    <3>1. up'[t] = up[t] /\ out'[t] = "kick"
      BY <1>3, <2>1, <2>2 DEF OutRead, Post, AfterPost
    <3>2. Silent(t)' BY <3>1 DEF Silent
    <3>3. LastWord(t)' BY <1>0, <2>1, <3>1 DEF Talk, LastWord
    <3>4. StaysOffline(t)' BY <1>1, <2>2 DEF StaysOffline
    <3>5. InTurn(t)' BY <1>0, <1>1, <2>1, <3>1 DEF Talk, InTurn, Among
    <3>6. Posted(t)' BY <1>1, <2>2 DEF Posted
    <3> QED BY <3>2, <3>3, <3>4, <3>5, <3>6 DEF Talk
  <2>3. CASE loop = "running"
    <3>1. PICK p \in {Cnxn, Data} : up'[t] = Append(up[t], p)
      BY <1>0, <1>3, <2>3 DEF OutRead, Post, TypeOK
    <3>2. p \in Packet /\ p # Offline /\ p # Online(2) BY Packets
    <3>0. up[t] \in Seq(Packet) BY <1>0
    <3>3. \A i \in DOMAIN up'[t] :
            (i \in DOMAIN up[t] /\ up'[t][i] = up[t][i]) \/ up'[t][i] = p
      <4>1. /\ DOMAIN up'[t] = 1..(Len(up[t]) + 1) /\ DOMAIN up[t] = 1..Len(up[t])
            /\ Len(up[t]) \in Nat /\ up'[t][Len(up[t]) + 1] = p
            /\ \A i \in DOMAIN up[t] : up'[t][i] = up[t][i]
        BY <3>0, <3>1, <3>2, Posting
      <4> QED BY <4>1
    <3>10. \A q : Among(q, up'[t]) <=> (Among(q, up[t]) \/ q = p)
      BY <3>0, <3>1, <3>2, PostingAmong
    <3>4. out'[t] = "read" BY <2>1, <2>3 DEF AfterPost
    <3>5. Silent(t)' BY <3>4 DEF Silent
    <3>6. LastWord(t)' BY <1>0, <2>1, <3>2, <3>3 DEF Talk, LastWord
    <3>7. StaysOffline(t)' BY <1>0, <1>1, <2>1, <2>3 DEF Talk, StaysOffline
    <3>8. InTurn(t)' BY <1>0, <1>1, <2>1, <3>2, <3>10 DEF Talk, InTurn
    <3>9. Posted(t)' BY <3>4 DEF Posted
    <3> QED BY <3>5, <3>6, <3>7, <3>8, <3>9 DEF Talk
  <2> QED BY <1>0, <2>2, <2>3
<1>4. CASE OutFail(t)
  <2>1. UNCHANGED <<up, token>> /\ out[t] = "read" /\ out'[t] = "check"
    BY <1>0, <1>4 DEF OutFail, TypeOK
  <2> QED BY <1>0, <1>1, <2>1, TalkOutMoves DEF Quiet
<1>5. CASE OutCheck(t)
  <2>1. UNCHANGED <<up, token>> /\ out[t] = "check" /\ out'[t] = "offline"
    BY <1>0, <1>5 DEF OutCheck, AlreadyCleaned, OneVictim, TypeOK
  <2> QED BY <1>0, <1>1, <2>1, TalkOutMoves DEF Quiet
<1>6. CASE OutOffline(t)
  <2>1. out[t] = "offline" /\ out'[t] = "kick" /\ UNCHANGED token
        /\ ~Quiet(t) /\ Quiet(t)'
    BY <1>0, <1>6 DEF OutOffline, Quiet, TypeOK
  <2>2. CASE loop = "dead"
    <3>1. up'[t] = up[t] BY <1>6, <2>2 DEF OutOffline, OutOfflinePost, Post
    <3>2. Silent(t)' BY <2>1 DEF Silent
    <3>3. LastWord(t)' BY <1>0, <2>1, <3>1 DEF Talk, LastWord
    <3>4. StaysOffline(t)' BY <1>1, <2>2 DEF StaysOffline
    <3>5. InTurn(t)' BY <1>0, <1>1, <2>1, <3>1 DEF Talk, InTurn, Among
    <3>6. Posted(t)' BY <1>1, <2>2 DEF Posted
    <3> QED BY <3>2, <3>3, <3>4, <3>5, <3>6 DEF Talk
  <2>3. CASE loop = "running"
    <3>0. up[t] \in Seq(Packet) BY <1>0
    <3>1. up'[t] = Append(up[t], Offline) /\ Offline \in Packet
      BY <1>0, <1>6, <2>3, Packets DEF OutOffline, OutOfflinePost, Post, TypeOK
    <3>2. \A i \in DOMAIN up'[t] : \/ i \in DOMAIN up[t] /\ up'[t][i] = up[t][i]
                                   \/ i = Len(up'[t])
      <4>1. /\ DOMAIN up'[t] = 1..(Len(up[t]) + 1) /\ DOMAIN up[t] = 1..Len(up[t])
            /\ Len(up[t]) \in Nat /\ Len(up'[t]) = Len(up[t]) + 1
            /\ \A i \in DOMAIN up[t] : up'[t][i] = up[t][i]
        BY <3>0, <3>1, Posting
      <4> QED BY <4>1
    <3>10. \A q : Among(q, up'[t]) <=> (Among(q, up[t]) \/ q = Offline)
      BY <3>0, <3>1, PostingAmong
    <3>3. Silent(t)' BY <2>1 DEF Silent
    <3>4. LastWord(t)' BY <1>0, <2>1, <3>2 DEF Talk, LastWord
    <3>5. StaysOffline(t)' BY <1>0, <1>1, <2>1, <2>3 DEF Talk, StaysOffline
    <3>6. InTurn(t)' BY <1>0, <1>1, <2>1, <3>10, Packets DEF Talk, InTurn
    <3>7. Posted(t)' BY <3>10 DEF Posted
    <3> QED BY <3>3, <3>4, <3>5, <3>6, <3>7 DEF Talk
  <2> QED BY <1>0, <2>2, <2>3
<1>7. CASE OutKick(t)
  <2>1. UNCHANGED <<up, token>> /\ out[t] = "kick" /\ out'[t] = "unref"
    BY <1>0, <1>7 DEF OutKick, TypeOK
  <2> QED BY <1>0, <1>1, <2>1, TalkOutMoves DEF Quiet
<1>8. CASE OutUnref(t)
  <2>1. UNCHANGED <<up, token>> /\ out[t] = "unref" /\ out'[t] = "end"
    BY <1>0, <1>8 DEF OutUnref, TypeOK
  <2> QED BY <1>0, <1>1, <2>1, TalkOutMoves DEF Quiet
<1>9. CASE OutEnd(t)
  <2>1. UNCHANGED <<up, token>> /\ out[t] = "end" /\ out'[t] = "done"
    BY <1>0, <1>9 DEF OutEnd, TypeOK
  <2> QED BY <1>0, <1>1, <2>1, TalkOutMoves DEF Quiet
<1> QED BY <1>2, <1>3, <1>4, <1>5, <1>6, <1>7, <1>8, <1>9 DEF OutStep

LEMMA TalkIn == ASSUME IInv, NEW t \in T, InStep(t) PROVE Talk(t)'
<1> USE DEF InAt, InTo
<1>0. /\ TypeOK /\ Talk(t) /\ down[t] \in Seq(Packet) /\ inp[t] \in InPc
      /\ Lives(t) /\ active[t] \in BOOLEAN
  BY DEF IInv, TypeOK, Talking, Registered
<1>1. /\ UNCHANGED <<out, token, up, online, loop, killer>>
      /\ inp[t] \notin {"idle", "done"} /\ inp'[t] # "idle"
  BY <1>0, InKeeps DEF mainVars
<1>2. LastWord(t)' /\ (Quiet(t)' <=> Quiet(t))
  BY <1>0, <1>1 DEF Talk, LastWord, Quiet
<1>3. CASE InSync(t)
  <2>1. /\ inp[t] = "read" /\ down[t] # <<>> /\ down'[t] = Tail(down[t])
        /\ UNCHANGED heard
    BY <1>0, <1>3 DEF InSync, TypeOK, deviceVars
  <2>2. /\ Head(down[t]) \in Packet
        /\ \A q : Among(q, down[t]) <=> (Among(q, down'[t]) \/ q = Head(down[t]))
    <3>1. Head(down[t]) \in Packet BY <1>0, <2>1, Popping
    <3>2. \A q : Among(q, down[t]) <=> (Among(q, down'[t]) \/ q = Head(down[t]))
      BY <1>0, <2>1, PoppingAmong
    <3> QED BY <3>1, <3>2
  <2>3. out[t] \notin {"idle", "start"} BY <1>0, <2>1 DEF Talk, Silent
  <2>4. Silent(t)' BY <1>1, <2>3 DEF Silent
  <2>5. CASE Head(down[t]) = Offline
    <3>1. inp'[t] = "close" /\ UNCHANGED active BY <1>0, <1>3, <2>5 DEF InSync, TypeOK
    <3>2. StaysOffline(t)' BY <1>0, <1>1, <1>2, <2>2, <2>5 DEF Talk, StaysOffline
    <3>3. InTurn(t)' BY <1>0, <1>1, <2>1, <3>1 DEF Talk, InTurn, Among
    <3>4. Posted(t)' BY <3>1 DEF Posted
    <3> QED BY <1>2, <2>4, <3>2, <3>3, <3>4 DEF Talk
  <2>6. CASE Head(down[t]) # Offline
    <3>1. UNCHANGED inp BY <1>3, <2>6 DEF InSync
    <3>2. active'[t] = (active[t] \/ Head(down[t]) = Online(token[t]))
      BY <1>0, <1>3, <2>6 DEF InSync, TypeOK
    <3>3. active'[t]
      <4>1. ~active[t] => Head(down[t]) \in {Online(token[t]), Offline}
        BY <1>0, <2>1 DEF Talk, InTurn
      <4> QED BY <1>0, <2>6, <3>2, <4>1
    <3>4. StaysOffline(t)' BY <1>0, <1>1, <1>2, <2>2, <3>1 DEF Talk, StaysOffline
    <3>5. InTurn(t)' BY <1>0, <1>1, <2>1, <3>3 DEF Talk, InTurn, Among
    <3>6. Posted(t)' BY <1>0, <1>1, <2>2, <2>6, <3>1 DEF Talk, Posted, Among
    <3> QED BY <1>2, <2>4, <3>4, <3>5, <3>6 DEF Talk
  <2> QED BY <2>5, <2>6
<1>4. CASE InData(t)
  <2>1. /\ inp[t] = "read" /\ down[t] # <<>> /\ down'[t] = Tail(down[t])
        /\ Head(down[t])[1] # "SYNC" /\ UNCHANGED <<active, inp>>
    BY <1>0, <1>4 DEF InData, TypeOK
  <2>2. \A q : Among(q, down[t]) <=> (Among(q, down'[t]) \/ q = Head(down[t]))
    BY <1>0, <2>1, PoppingAmong
  <2>3. Head(down[t]) \in Packet BY <1>0, <2>1, Popping
  <2>4. Head(down[t]) \in {Cnxn, Data} BY <2>1, <2>3, Packets
  <2>5. out[t] \notin {"idle", "start"} BY <1>0, <2>1 DEF Talk, Silent
  <2>6. token[t] = 2 \/ token[t] = 1 BY <1>0 DEF TypeOK
  <2>7. active[t]
    <3>1. ~active[t] => Head(down[t]) \in {Online(token[t]), Offline}
      BY <1>0, <2>1 DEF Talk, InTurn
    <3>2. Online(token[t])[1] = "SYNC" /\ Offline[1] = "SYNC" BY DEF Online, Offline
    <3> QED BY <2>1, <3>1, <3>2
  <2>8. heard[t] => heard'[t] BY <1>0, <1>4 DEF InData, TypeOK
  <2>9. Silent(t)' BY <1>1, <2>5 DEF Silent
  <2>10. StaysOffline(t)' BY <1>0, <1>1, <1>2, <2>1, <2>2 DEF Talk, StaysOffline
  <2>11. InTurn(t)' BY <1>0, <1>1, <2>1, <2>7, <2>8 DEF Talk, InTurn, Among
  <2>12. Posted(t)' BY <1>0, <1>1, <2>1, <2>2, <2>4, Packets DEF Talk, Posted, Among
  <2> QED BY <1>2, <2>9, <2>10, <2>11, <2>12 DEF Talk
<1>5. ASSUME UNCHANGED <<down, heard, active>>, inp'[t] # "read",
             loop = "dead" \/ inp[t] \in {"close", "kick", "unref"}
      PROVE  Talk(t)'
  <2>1. Silent(t)' BY <1>0, <1>1, <1>5 DEF Talk, Silent
  <2>2. StaysOffline(t)' BY <1>0, <1>1, <1>2, <1>5 DEF Talk, StaysOffline
  <2>3. InTurn(t)' BY <1>0, <1>1, <1>5 DEF Talk, InTurn, Among
  <2>4. Posted(t)' BY <1>5 DEF Posted
  <2> QED BY <1>2, <2>1, <2>2, <2>3, <2>4 DEF Talk
<1>6. CASE InEof(t)
  BY <1>0, <1>5, <1>6 DEF InEof, FdsClosed, deviceVars, TypeOK
<1>7. CASE InClose(t) BY <1>0, <1>5, <1>7 DEF InClose, deviceVars, TypeOK
<1>8. CASE InKick(t) BY <1>0, <1>5, <1>8 DEF InKick, deviceVars, TypeOK
<1>9. CASE InUnref(t) BY <1>0, <1>5, <1>9 DEF InUnref, deviceVars, TypeOK
<1> QED BY <1>3, <1>4, <1>6, <1>7, <1>8, <1>9 DEF InStep

LEMMA EchoIsTwo ==
  ASSUME NEW s \in Seq(Packet)
  PROVE  s \o Echo(Online(2)) = Append(Append(s, Online(2)), Cnxn)
<1>1. Online(2) \in Packet /\ Cnxn \in Packet BY Packets
<1>2. PICK a, b : a = Online(2) /\ b = Cnxn /\ a \in Packet /\ b \in Packet BY <1>1
<1>3. s \o <<a, b>> = Append(Append(s, a), b) OBVIOUS
<1> QED BY <1>2, <1>3 DEF Echo

LEMMA Echoing ==
  ASSUME NEW s \in Seq(Packet), NEW r, r = s \o Echo(Online(2))
  PROVE  /\ r # <<>> /\ Head(r) = IF s = <<>> THEN Online(2) ELSE Head(s)
         /\ Among(Offline, r) <=> Among(Offline, s)
<1>0. Online(2) \in Packet /\ Cnxn \in Packet BY Packets
<1>1. PICK m : m = Append(s, Online(2)) OBVIOUS
<1>2. m \in Seq(Packet) BY <1>0, <1>1, SeqTypes
<1>3. r = Append(m, Cnxn) BY <1>1, EchoIsTwo
<1>4. m # <<>> /\ Head(m) = IF s = <<>> THEN Online(2) ELSE Head(s)
  BY <1>0, <1>1, Posting
<1>5. r # <<>> /\ Head(r) = Head(m) BY <1>0, <1>2, <1>3, <1>4, Posting
<1>8. Offline # Online(2) /\ Offline # Cnxn BY Packets
<1>6. Among(Offline, m) <=> (Among(Offline, s) \/ Offline = Online(2))
  <2>1. PICK a : a = Online(2) OBVIOUS
  <2>2. a \in Packet /\ m = Append(s, a) BY <1>0, <1>1, <2>1
  <2>3. Among(Offline, m) <=> (Among(Offline, s) \/ Offline = a)
    BY <2>2, PostingAmong
  <2> QED BY <2>1, <2>3
<1>7. Among(Offline, r) <=> (Among(Offline, m) \/ Offline = Cnxn)
  BY <1>0, <1>2, <1>3, PostingAmong
<1> QED BY <1>4, <1>5, <1>6, <1>7, <1>8

LEMMA TalkLoop == ASSUME IInv, NEW t \in T, LoopStep(t) PROVE Talk(t)'
<1>0. /\ TypeOK /\ Talk(t) /\ up[t] \in Seq(Packet) /\ down[t] \in Seq(Packet)
  BY DEF IInv, TypeOK, Talking
<1>1. /\ UNCHANGED <<out, inp, token, heard, active, loop, killer>>
      /\ up[t] # <<>> /\ up'[t] = Tail(up[t]) /\ loop = "running"
  BY <1>0, LoopKeeps DEF mainVars, deviceVars
<1>2. /\ Head(up[t]) \in Packet /\ (Len(up[t]) = 1 => up'[t] = <<>>)
      /\ Len(up[t]) \in Nat \ {0} /\ Len(up'[t]) = Len(up[t]) - 1
      /\ DOMAIN up[t] = 1..Len(up[t]) /\ DOMAIN up'[t] = 1..(Len(up[t]) - 1)
      /\ up[t][1] = Head(up[t]) /\ \A i \in DOMAIN up'[t] : up'[t][i] = up[t][i + 1]
  BY <1>0, <1>1, Popping
<1>3. \A q : Among(q, up[t]) <=> (Among(q, up'[t]) \/ q = Head(up[t]))
  BY <1>0, <1>1, PoppingAmong
<1>4. Silent(t)' BY <1>0, <1>1 DEF Talk, Silent
<1>5. Quiet(t)' <=> Quiet(t) BY <1>1 DEF Quiet
<1>6. LastWord(t)'
  <2>1. ASSUME NEW i \in DOMAIN up'[t], up'[t][i] = Offline
        PROVE  i = Len(up'[t]) /\ Quiet(t)'
    <3>1. i + 1 \in DOMAIN up[t] /\ up[t][i + 1] = Offline BY <1>2, <2>1
    <3>2. i + 1 = Len(up[t]) /\ Quiet(t) BY <1>0, <3>1 DEF Talk, LastWord
    <3> QED BY <1>2, <1>5, <2>1, <3>2
  <2> QED BY <2>1 DEF LastWord
<1>7. /\ inp[t] \notin {"close", "kick", "unref", "done"}
      /\ ~Among(Offline, down[t])
  BY <1>0, <1>1 DEF Talk, StaysOffline
<1>8. CASE LoopSync(t)
  <2>1. Head(up[t]) \in {Offline, Online(2)} BY <1>2, <1>8, Packets DEF LoopSync
  <2>2. CASE Head(up[t]) = Offline
    <3>1. down'[t] = Append(down[t], Offline) /\ online'[t] = FALSE
      BY <1>0, <1>8, <2>2 DEF LoopSync, TypeOK
    <3>2. 1 \in DOMAIN up[t] BY <1>2
    <3>3. Quiet(t) /\ up'[t] = <<>> BY <1>0, <1>2, <2>2, <3>2 DEF Talk, LastWord
    <3>4. Offline \in Packet BY Packets
    <3>5. Among(Offline, down'[t])
          /\ Head(down'[t]) = IF down[t] = <<>> THEN Offline ELSE Head(down[t])
      BY <1>0, <3>1, <3>4, Posting, PostingAmong
    <3>6. StaysOffline(t)' BY <1>5, <3>1, <3>3 DEF StaysOffline
    <3>7. InTurn(t)'
      <4>1. ~Among(Cnxn, up'[t]) /\ ~Among(Data, up'[t]) /\ ~Among(Online(2), up'[t])
        BY <3>3, NoneAmong
      <4> QED BY <1>0, <1>1, <3>1, <3>5, <4>1 DEF Talk, InTurn
    <3>8. Posted(t)' BY <3>5 DEF Posted
    <3> QED BY <1>4, <1>6, <3>6, <3>7, <3>8 DEF Talk
  <2>3. CASE Head(up[t]) = Online(2)
    <3>0. Online(2) # Offline BY Packets
    <3>1. down'[t] = down[t] \o Echo(Online(2)) /\ UNCHANGED online
      <4>1. PICK e : e = Echo(Head(up[t])) OBVIOUS
      <4>2. down' = [down EXCEPT ![t] = down[t] \o e] /\ UNCHANGED online
        BY <1>8, <2>3, <3>0, <4>1 DEF LoopSync
      <4>3. e = Echo(Online(2)) BY <2>3, <4>1
      <4> HIDE <4>1
      <4>4. down'[t] = down[t] \o e BY <1>0, <4>2 DEF TypeOK
      <4> QED BY <4>2, <4>3, <4>4
    <3>2. /\ down'[t] # <<>>
          /\ Head(down'[t]) = IF down[t] = <<>> THEN Online(2) ELSE Head(down[t])
          /\ Among(Offline, down'[t]) <=> Among(Offline, down[t])
      BY <1>0, <3>1, Echoing
    <3>3. token[t] = 2
      <4>1. Among(Online(2), up[t]) BY <1>3, <2>3
      <4> QED BY <1>0, <4>1 DEF Talk, InTurn
    <3>4. StaysOffline(t)' BY <1>1, <1>7, <3>2 DEF StaysOffline
    <3>5. InTurn(t)' BY <1>0, <1>1, <1>3, <3>1, <3>2, <3>3 DEF Talk, InTurn
    <3>6. Posted(t)' BY <1>0, <1>1, <1>3, <2>3, <3>0, <3>2 DEF Talk, Posted
    <3> QED BY <1>4, <1>6, <3>4, <3>5, <3>6 DEF Talk
  <2> QED BY <2>1, <2>2, <2>3
<1>9. ASSUME UNCHANGED down, Head(up[t]) # Offline, online'[t] => heard[t]
      PROVE  Talk(t)'
  <2>1. StaysOffline(t)' BY <1>1, <1>7, <1>9 DEF StaysOffline, Among
  <2>2. InTurn(t)' BY <1>0, <1>1, <1>3, <1>9 DEF Talk, InTurn
  <2>3. Posted(t)' BY <1>0, <1>1, <1>3, <1>9 DEF Talk, Posted
  <2> QED BY <1>4, <1>6, <2>1, <2>2, <2>3 DEF Talk
<1>10. CASE LoopCnxn(t)
  <2>1. UNCHANGED down /\ Head(up[t]) = Cnxn BY <1>10 DEF LoopCnxn
  <2>2. Among(Cnxn, up[t]) BY <1>3, <2>1
  <2>3. heard[t] BY <1>0, <2>2 DEF Talk, InTurn
  <2>4. Head(up[t]) # Offline BY <2>1, Packets
  <2> QED BY <1>9, <2>1, <2>3, <2>4
<1>11. CASE LoopData(t)
  <2>1. UNCHANGED <<down, online>> /\ Head(up[t]) = Data
    BY <1>11 DEF LoopData, lifeVars
  <2>2. online'[t] => heard[t] BY <1>0, <2>1 DEF Talk, InTurn
  <2>3. Head(up[t]) # Offline BY <2>1, Packets
  <2> QED BY <1>9, <2>1, <2>2, <2>3
<1> QED BY <1>8, <1>10, <1>11 DEF LoopStep

LEMMA TalkService ==
  ASSUME IInv, NEW c \in Client, ClientService(c) PROVE Talking'
<1>0. TypeOK /\ Talking BY DEF IInv
<1>1. PICK t \in T : t = client[c].t
  BY DEF ClientService, IInv, Clients
<1>2. UNCHANGED <<out, inp, token, up, heard, active, online, loop, killer>>
  BY DEF ClientService, deviceVars, lifeVars, mainVars
<1>3. \A u \in T : Quiet(u)' <=> Quiet(u) BY <1>2 DEF Quiet
<1>4. CASE ~online[t]
  <2>1. UNCHANGED down BY <1>1, <1>4 DEF ClientService
  <2> QED BY <1>0, <1>2, <1>3, <2>1, TalkFrameAll
<1>5. CASE online[t]
  <2>1. down' = [down EXCEPT ![t] = Append(@, Data)] BY <1>1, <1>5 DEF ClientService
  <2>2. Talk(t) /\ down[t] \in Seq(Packet) BY <1>0, <1>1 DEF Talking, TypeOK
  <2>3. down'[t] = Append(down[t], Data) BY <1>0, <1>1, <2>1 DEF TypeOK
  <2>4. \A u \in T : u # t => down'[u] = down[u] BY <1>0, <2>1 DEF TypeOK
  <2>5. Data \in Packet /\ Data # Offline BY Packets
  <2>6. \A q : Among(q, down'[t]) <=> (Among(q, down[t]) \/ q = Data)
    BY <2>2, <2>3, <2>5, PostingAmong
  <2>7. Silent(t)' BY <1>2, <1>5, <2>2 DEF Talk, Silent
  <2>8. LastWord(t)' BY <1>1, <1>2, <1>3, <2>2 DEF Talk, LastWord
  <2>9. StaysOffline(t)'
    BY <1>1, <1>2, <1>3, <2>2, <2>5, <2>6 DEF Talk, StaysOffline
  <2>10. InTurn(t)' BY <1>2, <1>5, <2>2 DEF Talk, InTurn, Among
  <2>11. Posted(t)' BY <1>2, <2>2, <2>6 DEF Talk, Posted, Among
  <2>12. Talk(t)' BY <2>7, <2>8, <2>9, <2>10, <2>11 DEF Talk
  <2>13. ASSUME NEW u \in T, u # t PROVE Talk(u)'
    <3>1. Talk(u) /\ down'[u] = down[u] BY <1>0, <2>4, <2>13 DEF Talking
    <3> QED BY <1>2, <1>3, <3>1, TalkFrame
  <2> QED BY <2>12, <2>13 DEF Talking
<1> QED BY <1>4, <1>5

LEMMA TalkRemove == ASSUME IInv, LoopRemove PROVE Talking'
<1>0. TypeOK /\ Talking BY DEF IInv
<1>1. PICK t \in T : t = Head(regq).t /\ life[t] = "live" /\ ref[t] = 0
  BY HeadMessage DEF LoopRemove
<1>2. ~OutNeeds(t) /\ ~InNeeds(t)
  BY <1>1, UnusedWhenZero DEF Before
<1>3. /\ up' = [up EXCEPT ![t] = <<>>] /\ down' = [down EXCEPT ![t] = <<>>]
      /\ UNCHANGED <<out, inp, token, heard, active, online, loop, killer>>
  BY <1>1 DEF LoopRemove, deviceVars, loopVars, mainVars
<1>4. up'[t] = <<>> /\ down'[t] = <<>> BY <1>0, <1>1, <1>3 DEF TypeOK
<1>5. \A u \in T : u # t => up'[u] = up[u] /\ down'[u] = down[u]
  BY <1>0, <1>3 DEF TypeOK
<1>6. UNCHANGED <<out, inp, token, heard, active, online, loop, killer>> BY <1>3
<1>7. \A u \in T : Quiet(u)' <=> Quiet(u) BY <1>6 DEF Quiet
<1>8. Talk(t)'
  <2>0. Talk(t) BY <1>0, <1>1 DEF Talking
  <2>1. Silent(t)' BY <1>2, <1>6 DEF Silent, OutNeeds
  <2>2. LastWord(t)' BY <1>4 DEF LastWord
  <2>3. StaysOffline(t)'
    <3>1. ~Among(Offline, down'[t]) BY <1>4, NoneAmong
    <3> QED BY <1>1, <1>4, <1>6, <1>7, <2>0, <3>1 DEF Talk, StaysOffline
  <2>4. InTurn(t)'
    <3>1. \A q : ~Among(q, up'[t]) BY <1>4, NoneAmong
    <3> QED BY <1>4, <1>6, <2>0, <3>1 DEF Talk, InTurn
  <2>5. Posted(t)' BY <1>2, <1>6 DEF Posted, InNeeds
  <2> QED BY <2>1, <2>2, <2>3, <2>4, <2>5 DEF Talk
<1>9. ASSUME NEW u \in T, u # t PROVE Talk(u)'
  <2>1. Talk(u) /\ up'[u] = up[u] /\ down'[u] = down[u]
    BY <1>0, <1>5, <1>9 DEF Talking
  <2> QED BY <1>6, <1>7, <2>1, TalkFrame
<1> QED BY <1>8, <1>9 DEF Talking

LEMMA TalkSpawn == ASSUME IInv, SpawnIo PROVE Talking'
<1>0. TypeOK /\ Talking BY DEF IInv
<1>1. PICK t \in T : t = Head(spawn) /\ out[t] = "idle" BY HeadSpawn DEF SpawnIo
<1>2. /\ out' = [out EXCEPT ![t] = "start"] /\ inp' = [inp EXCEPT ![t] = "read"]
      /\ UNCHANGED <<token, up, down, heard, active, online, loop, killer>>
  BY <1>1 DEF SpawnIo, OutTo, deviceVars, lifeVars, loopVars
<1>3. \A u \in T : /\ out'[u] = IF u = t THEN "start" ELSE out[u]
                   /\ inp'[u] = IF u = t THEN "read" ELSE inp[u]
  BY <1>0, <1>2 DEF TypeOK
<1>4. UNCHANGED <<token, up, down, heard, active, online, loop, killer>> BY <1>2
<1>5. Talk(t)'
  <2>1. Talk(t) BY <1>0, <1>1 DEF Talking
  <2>2. /\ token[t] = 1 /\ up[t] = <<>> /\ down[t] = <<>>
        /\ ~heard[t] /\ ~active[t] /\ ~online[t]
    BY <1>1, <2>1 DEF Talk, Silent
  <2>3. \A q : ~Among(q, up'[t]) /\ ~Among(q, down'[t]) BY <1>4, <2>2, NoneAmong
  <2>4. Silent(t)' BY <1>4, <2>2 DEF Silent
  <2>5. LastWord(t)' BY <1>4, <2>2 DEF LastWord
  <2>6. StaysOffline(t)' BY <1>1, <1>3, <2>3 DEF StaysOffline
  <2>7. InTurn(t)' BY <1>4, <2>2, <2>3 DEF InTurn
  <2>8. Posted(t)' BY <1>1, <1>3 DEF Posted
  <2> QED BY <2>4, <2>5, <2>6, <2>7, <2>8 DEF Talk
<1>6. ASSUME NEW u \in T, u # t PROVE Talk(u)'
  <2>1. Talk(u) /\ out'[u] = out[u] /\ inp'[u] = inp[u]
    BY <1>0, <1>3, <1>6 DEF Talking
  <2>2. Quiet(u)' <=> Quiet(u) BY <1>4, <2>1 DEF Quiet
  <2> QED BY <1>4, <2>1, <2>2, TalkFrame
<1> QED BY <1>5, <1>6 DEF Talking

LEMMA TalkTerminate == ASSUME IInv, Terminate PROVE Talking'
<1>0. TypeOK /\ Talking BY DEF IInv
<1>1. /\ victim \in T /\ out[victim] \in {"start", "read", "done"} /\ killer = "idle"
      /\ killer' = "flags"
      /\ UNCHANGED <<inp, token, up, down, heard, active, online, loop>>
  BY <1>0 DEF Terminate, deviceVars, lifeVars, loopVars, TypeOK
<1>2. \A u \in T : out'[u] = IF u = victim
                             THEN (IF out[u] = "done" THEN "done" ELSE "stopped")
                             ELSE out[u]
  BY <1>0 DEF Terminate, OutAt, OutTo, TypeOK
<1>3. ASSUME NEW u \in T PROVE Talk(u)'
  <2>0. Talk(u) BY <1>0 DEF Talking
  <2>1. Quiet(u) => Quiet(u)'
    <3>1. out[u] = "stopped" => u = victim /\ killer # "idle"
      BY DEF IInv, OneVictim
    <3> QED BY <1>1, <1>2, <3>1 DEF Quiet
  <2>2. Silent(u)' BY <1>1, <1>2, <2>0 DEF Talk, Silent
  <2>3. LastWord(u)' BY <1>1, <2>0, <2>1 DEF Talk, LastWord
  <2>4. StaysOffline(u)' BY <1>1, <2>0, <2>1 DEF Talk, StaysOffline, Among
  <2>5. InTurn(u)' BY <1>1, <2>0 DEF Talk, InTurn, Among
  <2>6. Posted(u)' BY <1>1, <1>2, <2>0 DEF Talk, Posted, Among
  <2> QED BY <2>2, <2>3, <2>4, <2>5, <2>6 DEF Talk
<1> QED BY <1>3 DEF Talking

LEMMA TalkKill == ASSUME IInv, KillStep PROVE Talking'
<1>0. TypeOK /\ Talking BY DEF IInv
<1>1. /\ UNCHANGED <<out, inp, token, down, heard, active, online, loop, victim>>
      /\ Same(up, victim)
  BY <1>0, KillKeeps DEF deviceVars, loopVars
<1>2. \A u \in T : Quiet(u) => Quiet(u)'
  BY <1>0, <1>1, KillKeeps DEF Quiet
<1>3. ASSUME UNCHANGED up PROVE Talking' BY <1>0, <1>1, <1>2, <1>3, TalkFrameAll
<1>4. CASE KillFlags \/ KillKick \/ KillUnref
  BY <1>3, <1>4 DEF KillFlags, KillKick, KillUnref, pumpVars
<1>5. CASE KillOffline
  <2>1. /\ victim \in T /\ out[victim] = "stopped"
        /\ killer = "offline" /\ killer' = "kick"
    BY <1>0, <1>5 DEF KillOffline, IInv, OneVictim, TypeOK
  <2>2. CASE loop # "running" BY <1>3, <1>5, <2>2 DEF KillOffline, Post
  <2>3. CASE loop = "running"
    <3>t. PICK t \in T : t = victim BY <2>1
    <3>0. up[t] \in Seq(Packet) /\ Offline \in Packet /\ Talk(t)
      BY <1>0, Packets DEF TypeOK, Talking
    <3>1. up'[t] = Append(up[t], Offline)
      BY <1>0, <1>5, <2>3, <3>t DEF KillOffline, Post, TypeOK
    <3>2. UNCHANGED <<out, inp, token, down, heard, active, online, loop>> BY <1>1
    <3>3. ~Quiet(t) /\ Quiet(t)' BY <2>1, <3>t, <3>2 DEF Quiet
    <3>4. \A i \in DOMAIN up'[t] : \/ i \in DOMAIN up[t] /\ up'[t][i] = up[t][i]
                                   \/ i = Len(up'[t])
      <4>1. /\ DOMAIN up'[t] = 1..(Len(up[t]) + 1) /\ DOMAIN up[t] = 1..Len(up[t])
            /\ Len(up[t]) \in Nat /\ Len(up'[t]) = Len(up[t]) + 1
            /\ \A i \in DOMAIN up[t] : up'[t][i] = up[t][i]
        BY <3>0, <3>1, Posting
      <4> QED BY <4>1
    <3>5. \A q : Among(q, up'[t]) <=> (Among(q, up[t]) \/ q = Offline)
      BY <3>0, <3>1, PostingAmong
    <3>6. Silent(t)' BY <2>1, <3>t, <3>2 DEF Silent
    <3>7. LastWord(t)' BY <3>0, <3>3, <3>4 DEF Talk, LastWord
    <3>8. StaysOffline(t)' BY <2>3, <3>0, <3>2, <3>3 DEF Talk, StaysOffline
    <3>9. InTurn(t)' BY <3>0, <3>2, <3>5, Packets DEF Talk, InTurn
    <3>10. Posted(t)' BY <2>1, <3>t, <3>2 DEF Posted
    <3>11. Talk(t)' BY <3>6, <3>7, <3>8, <3>9, <3>10 DEF Talk
    <3>12. ASSUME NEW u \in T, u # t PROVE Talk(u)'
      <4>1. Talk(u) /\ up'[u] = up[u] BY <1>0, <1>1, <3>t, <3>12 DEF Talking, Same
      <4> QED BY <1>2, <3>2, <4>1, TalkFrame
    <3> QED BY <3>11, <3>12 DEF Talking
  <2> QED BY <2>2, <2>3
<1> QED BY <1>4, <1>5 DEF KillStep

LEMMA TalkNext == ASSUME IInv, Next PROVE Talking'
<1>0. TypeOK /\ Talking BY DEF IInv
<1>1. ASSUME UNCHANGED <<out, inp, token, up, down, heard, active, online, killer>>,
             loop' = loop
      PROVE  Talking'
  <2>1. \A t \in T : Quiet(t) => Quiet(t)' BY <1>1 DEF Quiet
  <2> QED BY <1>0, <1>1, <2>1, TalkFrameAll
<1>2. ASSUME NEW t \in T, Plug(t) \/ Unplug(t) PROVE Talking'
  BY <1>1, <1>2 DEF Plug, Unplug, pumpVars, lifeVars, loopVars, mainVars
<1>3. ASSUME NEW t \in T, OutStep(t) \/ OutRead(t) \/ OutFail(t) PROVE Talking'
  <2>1. Talk(t)' BY <1>3, TalkOut
  <2>2. ASSUME NEW u \in T, u # t PROVE Talk(u)'
    <3>1. /\ UNCHANGED <<inp, heard, active, online, down, loop, killer>> /\ Talk(u)
          /\ out'[u] = out[u] /\ up'[u] = up[u] /\ token'[u] = token[u]
      BY <1>0, <1>3, <2>2, OutKeeps DEF Same, loopVars, mainVars, Talking
    <3>2. Quiet(u)' <=> Quiet(u) BY <3>1 DEF Quiet
    <3> QED BY <3>1, <3>2, TalkFrame
  <2> QED BY <2>1, <2>2 DEF Talking
<1>4. ASSUME NEW t \in T, InStep(t) PROVE Talking'
  <2>1. Talk(t)' BY <1>4, TalkIn
  <2>2. ASSUME NEW u \in T, u # t PROVE Talk(u)'
    <3>1. /\ UNCHANGED <<out, token, up, online, loop, killer>> /\ Talk(u)
          /\ inp'[u] = inp[u] /\ down'[u] = down[u] /\ heard'[u] = heard[u]
          /\ active'[u] = active[u]
      BY <1>0, <1>4, <2>2, InKeeps DEF Same, mainVars, Talking
    <3>2. Quiet(u)' <=> Quiet(u) BY <3>1 DEF Quiet
    <3> QED BY <3>1, <3>2, TalkFrame
  <2> QED BY <2>1, <2>2 DEF Talking
<1>5. ASSUME NEW t \in T, LoopStep(t) PROVE Talking'
  <2>1. Talk(t)' BY <1>5, TalkLoop
  <2>2. ASSUME NEW u \in T, u # t PROVE Talk(u)'
    <3>1. /\ UNCHANGED <<out, inp, token, heard, active, loop, killer>> /\ Talk(u)
          /\ up'[u] = up[u] /\ down'[u] = down[u] /\ online'[u] = online[u]
      BY <1>0, <1>5, <2>2, LoopKeeps DEF Same, deviceVars, mainVars, Talking
    <3>2. Quiet(u)' <=> Quiet(u) BY <3>1 DEF Quiet
    <3> QED BY <3>1, <3>2, TalkFrame
  <2> QED BY <2>1, <2>2 DEF Talking
<1>6. ASSUME NEW c \in Client, LoopHandle(c) \/ HandlerEnd(c) PROVE Talking'
  <2>1. CASE ClientService(c) BY <2>1, TalkService
  <2>2. CASE LoopHandle(c) \/ ClientGone(c) \/ \E t \in T : ClientAcquire(c, t)
    BY <1>1, <2>2
    DEF LoopHandle, ClientGone, ClientAcquire, deviceVars, pumpVars, lifeVars, mainVars
  <2> QED BY <1>6, <2>1, <2>2 DEF HandlerEnd
<1>7. CASE HandlerReturns \/ LoopAdd
  BY <1>1, <1>7
  DEF HandlerReturns, LoopAdd, deviceVars, pumpVars, lifeVars, loopVars, mainVars
<1>8. CASE LoopRemove BY <1>8, TalkRemove
<1>9. CASE SpawnIo BY <1>9, TalkSpawn
<1>10. CASE Close \/ LoopDies
  <2>1. /\ UNCHANGED <<out, inp, token, up, down, heard, active, online>>
        /\ loop' \in {loop, "dead"} /\ killer' \in {"die", "done"}
    BY <1>10 DEF Close, LoopDies, deviceVars, pumpVars, lifeVars, loopVars
  <2>2. \A t \in T : Quiet(t) => Quiet(t)' BY <2>1 DEF Quiet
  <2> QED BY <1>0, <2>1, <2>2, TalkFrameAll
<1>11. CASE Terminate BY <1>11, TalkTerminate
<1>12. CASE KillStep BY <1>12, TalkKill
<1> QED BY <1>2, <1>3, <1>4, <1>5, <1>6, <1>7, <1>8, <1>9, <1>10, <1>11, <1>12 DEF Next

-----------------------------------------------------------------------------
(* The clients.                                                            *)

(* No client moves to a transport whose input thread is leaving.           *)
Stays(c) == client'[c] = [at |-> "closed", t |-> 0]
              \/ (client'[c].t = client[c].t
                    /\ client'[c].at \in {"smart", "opening", "open"}
                    /\ client[c].at \in {"smart", "opening", "open"})
              \/ client'[c] = client[c]

LEMMA ClientsFrame ==
  ASSUME IInv, \A c \in Client : Stays(c), UNCHANGED inp, loop' = "dead" => busy' = {}
  PROVE  Clients' /\ NoClientLeft'
<1>1. Clients /\ NoClientLeft /\ 0 \notin T BY Transports DEF IInv
<1>2. Clients' BY <1>1 DEF Clients, Stays
<1>3. NoClientLeft' BY <1>1 DEF NoClientLeft, Stays, Bound
<1> QED BY <1>2, <1>3

LEMMA ClientsNext == ASSUME IInv, Next PROVE Clients' /\ NoClientLeft'
<1>0. TypeOK /\ Clients /\ NoClientLeft /\ Talking BY DEF IInv
<1>1. ASSUME UNCHANGED <<client, inp>>, loop' = "dead" => busy' = {}
      PROVE  Clients' /\ NoClientLeft'
  BY <1>1, ClientsFrame DEF Stays
<1>2. ASSUME NEW t \in T, Plug(t) \/ Unplug(t) PROVE Clients' /\ NoClientLeft'
  BY <1>0, <1>1, <1>2 DEF Plug, Unplug, pumpVars, loopVars, Clients
<1>3. ASSUME NEW t \in T, OutStep(t) \/ OutRead(t) \/ OutFail(t)
      PROVE  Clients' /\ NoClientLeft'
  BY <1>0, <1>1, <1>3, OutKeeps DEF loopVars, Clients
<1>4. ASSUME NEW t \in T, InStep(t) PROVE Clients' /\ NoClientLeft'
  <2>0. UNCHANGED <<loop, busy>> /\ Same(inp, t) BY <1>0, <1>4, InKeeps
  <2>1. CASE InClose(t)
    <3>1. \A c \in Client : client'[c] = IF client[c].t = t
                                         THEN [at |-> "closed", t |-> 0]
                                         ELSE client[c]
      BY <2>1 DEF InClose, CloseAll, CloseClients, Bound
    <3>2. Clients'
      BY <1>0, <2>0, <3>1, Transports DEF Clients
    <3>3. NoClientLeft'
      BY <1>0, <2>0, <3>1, Transports DEF NoClientLeft, Bound, Same
    <3> QED BY <3>2, <3>3
  <2>2. CASE ~InClose(t)
    <3>1. UNCHANGED client
      BY <1>4, <2>2
      DEF InStep, InSync, InData, InEof, InKick, InUnref, loopVars
    <3>2. inp'[t] \in {"kick", "unref", "done"} => inp[t] \in {"kick", "unref", "done"}
      BY <1>0, <1>4, <2>2
      DEF InStep, InSync, InData, InEof, InKick, InUnref, InAt, InTo, TypeOK
    <3>3. Clients' BY <1>0, <2>0, <3>1 DEF Clients
    <3>4. NoClientLeft' BY <1>0, <2>0, <3>1, <3>2 DEF NoClientLeft, Bound, Same
    <3> QED BY <3>3, <3>4
  <2> QED BY <2>1, <2>2
<1>5. ASSUME NEW t \in T, LoopStep(t) PROVE Clients' /\ NoClientLeft'
  <2>0. UNCHANGED <<inp, loop, busy>> BY <1>0, <1>5, LoopKeeps
  <2>1. \A c \in Client : Stays(c)
    <3>1. CASE LoopSync(t) BY <3>1 DEF LoopSync, CloseClients, Stays
    <3>2. CASE LoopCnxn(t) BY <3>2 DEF LoopCnxn, loopVars, Stays
    <3>3. CASE LoopData(t)
      <4>1. ASSUME NEW c \in Client, client[c].at \in {"opening", "open"},
                   client' = [client EXCEPT ![c].at = "open"]
            PROVE  \A d \in Client : Stays(d)
        BY <1>0, <4>1 DEF Stays, TypeOK
      <4>2. ASSUME NEW c \in Client, CloseClients({c})
            PROVE  \A d \in Client : Stays(d)
        BY <4>2 DEF Stays, CloseClients
      <4> QED BY <3>3, <4>1, <4>2 DEF LoopData, Stays
    <3> QED BY <1>5, <3>1, <3>2, <3>3 DEF LoopStep
  <2> QED BY <1>0, <2>0, <2>1, ClientsFrame DEF Clients
<1>6. ASSUME NEW c \in Client, LoopHandle(c) PROVE Clients' /\ NoClientLeft'
  BY <1>1, <1>6 DEF LoopHandle, LoopIdle, pumpVars
<1>7. ASSUME NEW c \in Client, NEW t \in T, ClientAcquire(c, t)
      PROVE  Clients' /\ NoClientLeft'
  <2>1. /\ loop # "dead" /\ busy' = {} /\ online[t] /\ UNCHANGED <<inp, loop>>
    BY <1>0, <1>7 DEF ClientAcquire, Handled, Acquire, pumpVars, Clients
  <2>2. inp[t] \notin {"close", "kick", "unref", "done"}
    BY <1>0, <2>1 DEF Talking, Talk, StaysOffline
  <2>3. \A d \in Client : client'[d] = IF d = c THEN [at |-> "smart", t |-> t] ELSE client[d]
    BY <1>0, <1>7 DEF ClientAcquire, TypeOK
  <2>4. Clients' BY <1>0, <2>1, <2>3 DEF Clients
  <2>5. NoClientLeft' BY <1>0, <2>1, <2>2, <2>3 DEF NoClientLeft, Bound
  <2> QED BY <2>4, <2>5
<1>8. ASSUME NEW c \in Client, ClientService(c) \/ ClientGone(c)
      PROVE  Clients' /\ NoClientLeft'
  <2>1. busy' = {} /\ UNCHANGED inp
    BY <1>8 DEF ClientService, ClientGone, Handled, pumpVars
  <2>2. \A d \in Client : Stays(d)
    <3>1. CASE client' = [client EXCEPT ![c].at = "opening"] /\ client[c].at = "smart"
      BY <1>0, <3>1 DEF Stays, TypeOK
    <3>2. CASE CloseClients({c}) BY <3>2 DEF Stays, CloseClients
    <3> QED BY <1>8, <3>1, <3>2 DEF ClientService, ClientGone
  <2> QED BY <2>1, <2>2, ClientsFrame
<1>9. CASE HandlerReturns \/ LoopAdd \/ LoopRemove
  BY <1>0, <1>1, <1>9
  DEF HandlerReturns, LoopAdd, LoopRemove, pumpVars, loopVars, Clients
<1>10. CASE SpawnIo
  <2>1. /\ \A u \in T : u # Head(spawn) => inp'[u] = inp[u]
        /\ UNCHANGED <<client, loop, busy>>
    BY <1>0, <1>10 DEF SpawnIo, loopVars, TypeOK
  <2>2. Head(spawn) \in T BY <1>10, HeadSpawn DEF SpawnIo
  <2>3. inp'[Head(spawn)] = "read" BY <1>0, <1>10, <2>2 DEF SpawnIo, TypeOK
  <2>4. Clients' BY <1>0, <2>1 DEF Clients
  <2>5. NoClientLeft' BY <1>0, <2>1, <2>3 DEF NoClientLeft, Bound
  <2> QED BY <2>4, <2>5
<1>11. CASE Close \/ Terminate
  BY <1>0, <1>1, <1>11 DEF Close, Terminate, pumpVars, loopVars, Clients
<1>12. CASE KillStep
  BY <1>0, <1>1, <1>12, KillKeeps DEF loopVars, Clients
<1>13. CASE LoopDies
  BY <1>1, <1>13 DEF LoopDies, LoopIdle, pumpVars
<1> QED BY <1>2, <1>3, <1>4, <1>5, <1>6, <1>7, <1>8, <1>9, <1>10, <1>11, <1>12, <1>13
    DEF Next, HandlerEnd

-----------------------------------------------------------------------------
(* The theorems.                                                           *)

LEMMA InitHolds == ASSUME Init PROVE IInv
<1>1. TypeOK BY TypeInit
<1>2. Registered
  <2>1. \A t \in T : Lives(t) BY DEF Init, Lives, Before
  <2>2. Messages /\ Spawns BY DEF Init, Messages, Spawns
  <2> QED BY <2>1, <2>2 DEF Registered
<1>3. Counted BY DEF Init, Counted, Before
<1>4. OneVictim BY DEF Init, OneVictim, OutNeeds
<1>5. Talking
  <2> SUFFICES ASSUME NEW t \in T PROVE Talk(t) BY DEF Talking
  <2>1. Silent(t) BY DEF Init, Silent
  <2>2. LastWord(t) BY DEF Init, LastWord
  <2>3. StaysOffline(t) BY DEF Init, StaysOffline, Among
  <2>4. InTurn(t) BY DEF Init, InTurn, Among
  <2>5. Posted(t) BY DEF Init, Posted
  <2> QED BY <2>1, <2>2, <2>3, <2>4, <2>5 DEF Talk
<1>6. Clients BY Transports DEF Init, Clients, Unbound
<1>7. NoClientLeft BY DEF Init, NoClientLeft
<1> QED BY <1>1, <1>2, <1>3, <1>4, <1>5, <1>6, <1>7 DEF IInv

LEMMA Stutter == ASSUME IInv, UNCHANGED vars PROVE IInv'
<1> USE DEF vars, deviceVars, flagVars, pumpVars, lifeVars, loopVars, mainVars
<1>0. TypeOK /\ Registered /\ Counted /\ OneVictim /\ Talking BY DEF IInv
<1>1. TypeOK' BY <1>0 DEF TypeOK
<1>2. Registered' BY <1>0, RegisteredFrame
<1>3. Counted' BY <1>0, CountedFrame DEF Before, OutNeeds, InNeeds, KillHolds
<1>4. OneVictim' BY <1>0, VictimFrame
<1>5. Talking' BY <1>0, TalkFrameAll DEF Quiet
<1>6. Clients' /\ NoClientLeft' BY DEF IInv, Clients, NoClientLeft, Bound
<1> QED BY <1>1, <1>2, <1>3, <1>4, <1>5, <1>6 DEF IInv

LEMMA Invariant == ASSUME ~Overlap PROVE Spec => []IInv
<1>1. Init => IInv BY InitHolds
<1>2. IInv /\ [Next]_vars => IInv'
  BY TypeNext, RegisteredNext, CountedNext, VictimNext, TalkNext, ClientsNext,
     Stutter DEF IInv
<1> QED BY <1>1, <1>2, PTL DEF Spec

(* Every variable keeps its type; above all a reference count stays within *)
(* 0..2: transport_unref_locked never drops a reference nobody holds.      *)
THEOREM TypeCorrect == ASSUME ~Overlap PROVE Spec => []TypeOK
<1>1. IInv => TypeOK BY DEF IInv
<1> QED BY <1>1, Invariant, PTL

LEMMA FreedOnceHolds == ASSUME IInv PROVE FreedOnce
<1>0. TypeOK /\ Registered BY DEF IInv
<1>1. BothExited
  <2>1. ASSUME NEW t \in T, Closed(t)
        PROVE  ~OutNeeds(t) /\ ~InNeeds(t) /\ ~KillNeeds(t)
    <3>1. ref[t] \in {0, 1, 2} BY <1>0 DEF TypeOK
    <3>2. life[t] = "freed" => ref[t] = 0 BY <1>0 DEF Registered, Lives
    <3>3. ref[t] = 0 /\ ~Before(t) BY <2>1, <3>1, <3>2 DEF Closed, Before
    <3>4. ~OutNeeds(t) /\ ~InNeeds(t) /\ ~KillHolds(t) BY <3>3, UnusedWhenZero
    <3> QED BY <3>4 DEF KillNeeds, KillHolds, IInv, OneVictim
  <2> QED BY <2>1 DEF BothExited
<1>2. RemovedOnce BY <1>0 DEF Registered, Messages, RemovedOnce
<1> QED BY <1>1, <1>2 DEF FreedOnce

(* A device is closed and its transport removed and freed once, after both *)
(* io threads and kill_io_pump are through with it.                        *)
THEOREM FreedLast == ASSUME ~Overlap PROVE Spec => []FreedOnce
<1>1. IInv => FreedOnce BY FreedOnceHolds
<1> QED BY <1>1, Invariant, PTL

(* Once an input thread has run close_all_sockets no client is bound to    *)
(* its transport, nor will be.                                             *)
THEOREM ClientsGone == ASSUME ~Overlap PROVE Spec => []NoClientLeft
<1>1. IInv => NoClientLeft BY DEF IInv
<1> QED BY <1>1, Invariant, PTL

LEMMA SyncHolds == ASSUME IInv PROVE SyncKept
<1>1. OfflinePosted
  <2>1. ASSUME NEW t \in T, out[t] \in {"kick", "unref", "end", "done"},
               inp[t] = "read", loop = "running"
        PROVE  \E i \in DOMAIN (up[t] \o down[t]) : (up[t] \o down[t])[i] = Offline
    <3>1. Among(Offline, up[t]) \/ Among(Offline, down[t])
      BY <2>1 DEF IInv, Talking, Talk, Posted
    <3>2. PICK a \in Seq(Packet), b \in Seq(Packet) : a = up[t] /\ b = down[t]
      BY DEF IInv, TypeOK
    <3>3. /\ \A i \in DOMAIN a : i \in DOMAIN (a \o b) /\ (a \o b)[i] = a[i]
          /\ \A i \in DOMAIN b : /\ Len(a) + i \in DOMAIN (a \o b)
                               /\ (a \o b)[Len(a) + i] = b[i]
      OBVIOUS
    <3>4. PICK ab : ab = a \o b OBVIOUS
    <3>5. /\ \A i \in DOMAIN a : i \in DOMAIN ab /\ ab[i] = a[i]
          /\ \A i \in DOMAIN b : Len(a) + i \in DOMAIN ab /\ ab[Len(a) + i] = b[i]
      BY <3>3, <3>4
    <3>6. \E i \in DOMAIN ab : ab[i] = Offline
      <4>1. Among(Offline, a) \/ Among(Offline, b) BY <3>1, <3>2
      <4> QED BY <3>5, <4>1 DEF Among
    <3> QED BY <3>2, <3>4, <3>6
  <2> QED BY <2>1 DEF OfflinePosted
<1>2. NothingIgnored
  <2>1. ASSUME NEW t \in T, inp[t] = "read", down[t] # <<>>,
               Head(down[t])[1] # "SYNC", ~active[t]
        PROVE  FALSE
    <3>1. Head(down[t]) \in {Online(token[t]), Offline}
      BY <2>1 DEF IInv, Talking, Talk, InTurn
    <3>2. Online(token[t])[1] = "SYNC" /\ Offline[1] = "SYNC" BY DEF Online, Offline
    <3> QED BY <2>1, <3>1, <3>2
  <2> QED BY <2>1 DEF NothingIgnored
<1> QED BY <1>1, <1>2 DEF SyncKept

(* The SYNC protocol: an output thread that is done has told the input     *)
(* thread, and the input thread drops nothing the loop sends it.           *)
THEOREM SyncsKept == ASSUME ~Overlap PROVE Spec => []SyncKept
<1>1. IInv => SyncKept BY SyncHolds
<1> QED BY <1>1, Invariant, PTL
=============================================================================
