---------------------------- MODULE AdbTransport ----------------------------
(***************************************************************************)
(* The life of a transport of the host server (android-tools/adb-bin/      *)
(* transport.cpp): registered by the device poll thread, served by an      *)
(* input and an output thread that talk to the event loop over a           *)
(* socketpair, and removed when both threads have dropped their reference; *)
(* and kill_io_pump, which the add-on runs on the main thread when it      *)
(* closes adb (adb.js, close) after terminating the output thread.         *)
(*                                                                         *)
(* Transport t is the t-th device plugged in. A packet is a pair: <<"SYNC",*)
(* n>> with n > 0 is SYNC(1, n), <<"SYNC", 0>> is SYNC(0, 0). The sockets  *)
(* of AdbStream appear as Client: a local socket and the smart or remote   *)
(* socket it is bound to; each client makes one request. The handler of a  *)
(* client's descriptor takes two steps, since close_all_sockets of an      *)
(* input thread does not wait for it. Not modelled: transports without     *)
(* permission (they get no threads), TCP transports, and Windows, where    *)
(* close goes through should_kill_threads (KillThreads).                   *)
(***************************************************************************)
EXTENDS Integers, Sequences

CONSTANTS
  MaxPlug,      \* devices plugged in, one after the other
  MaxPackets,   \* packets a device sends
  Overlap,      \* a device may come before the one before it is removed
  Client        \* clients of the server

ASSUME TransportAssumption ==
  MaxPlug \in Nat /\ MaxPackets \in Nat /\ Overlap \in BOOLEAN

T == 1..MaxPlug

VARIABLES
  dev,      \* dev[t]: the device is "absent", "present" or "gone"
  sent,     \* sent[t]: packets the device has sent
  heard,    \* heard[t]: the device was sent the host's CNXN
  life,     \* life[t]: "none", "queued" (register_transport), "live", "freed"
  ref,      \* ref[t]: t->ref_count
  kicked,   \* kicked[t]: t->kicked
  online,   \* online[t]: t->online and connection_state # CS_OFFLINE
  token,    \* token[t]: t->sync_token
  active,   \* active[t]: the input thread's flag of that name
  out,      \* out[t]: where the output thread is
  inp,      \* inp[t]: where the input thread is
  up,       \* up[t]: packets from t->fd to the event loop
  down,     \* down[t]: packets from the event loop to t->fd
  regq,     \* messages in the registration socketpair
  spawn,    \* spawn-io-threads messages the add-on has not handled
  client,   \* client[c]: what the local socket of c is bound to
  busy,     \* the client whose handler the event loop is in, if any
  loop,     \* "running" or "dead"
  started,  \* started_output_cleanup
  ended,    \* ended_output_cleanup
  victim,   \* context.t_ptrS of the add-on: the last transport spawned
  killer    \* where close of adb.js is

deviceVars == <<dev, sent, heard>>
flagVars == <<started, ended>>
pumpVars == <<token, active, out, inp, up, down>>
lifeVars == <<life, ref, kicked, online, regq>>
loopVars == <<client, busy, loop>>
mainVars == <<spawn, victim, killer>>
vars == <<deviceVars, flagVars, pumpVars, lifeVars, loopVars, mainVars>>

Online(n) == <<"SYNC", n>>
Offline == <<"SYNC", 0>>
Cnxn == <<"CNXN", 0>>
Data == <<"DATA", 0>>
Packet == {Online(2), Offline, Cnxn, Data}

Unbound == [at |-> "none", t |-> 0]
Bound(c, t) == client[c].t = t
OutPc == {"idle", "start", "read", "check", "offline", "kick", "unref", "end",
          "done", "stopped"}
InPc == {"idle", "read", "close", "kick", "unref", "done"}
KillerPc == {"idle", "flags", "offline", "kick", "unref", "die", "done"}

-----------------------------------------------------------------------------
(* transport_unref_locked, under transport_lock: the last reference kicks  *)
(* and closes the device and asks the loop to remove the transport.        *)
LastRefEarly(n) == n = 2                                            \* mutant
LastRefAny(n) == TRUE                                               \* mutant
LastRef(n) == n = 1

Unref(t) ==
  /\ ref' = [ref EXCEPT ![t] = @ - 1]
  /\ IF LastRef(ref[t])
     THEN /\ kicked' = [kicked EXCEPT ![t] = TRUE]
          /\ regq' = Append(regq, [act |-> "remove", t |-> t])
     ELSE UNCHANGED <<kicked, regq>>

(* Reads and writes of a device that is gone or kicked fail.               *)
Broken(t) == dev[t] = "gone" \/ kicked[t]

Kick(t) == kicked' = [kicked EXCEPT ![t] = TRUE]

(* write_packet: it fails once the loop is dead, for server_thread closes  *)
(* every descriptor on its way out.                                        *)
Post(t, p) == up' = IF loop = "running" THEN [up EXCEPT ![t] = Append(@, p)]
                                        ELSE up

(* The clients of S are destroyed: their requests are over.                *)
CloseClients(S) ==
  client' = [c \in Client |->
               IF c \in S THEN [at |-> "closed", t |-> 0] ELSE client[c]]

-----------------------------------------------------------------------------
(* The device and the device poll thread.                                  *)

(* find_usb_device: a new device is opened and registered. output_thread   *)
(* "will only work in the case where there is only one device connected";  *)
(* with Overlap the next one comes, as it may, before the poll thread has  *)
(* kicked the last.                                                        *)
Plug(t) ==
  /\ dev[t] = "absent" /\ killer # "done"
  /\ \A u \in T : u < t => IF Overlap THEN dev[u] = "gone"
                                       ELSE life[u] = "freed"
  /\ dev' = [dev EXCEPT ![t] = "present"]
  /\ life' = [life EXCEPT ![t] = "queued"]
  /\ regq' = Append(regq, [act |-> "add", t |-> t])
  /\ UNCHANGED <<sent, heard, flagVars, pumpVars, ref, kicked, online, loopVars,
                 mainVars>>

Unplug(t) ==
  /\ dev[t] = "present"
  /\ dev' = [dev EXCEPT ![t] = "gone"]
  /\ UNCHANGED <<sent, heard, flagVars, pumpVars, lifeVars, loopVars, mainVars>>

-----------------------------------------------------------------------------
(* The output thread of t (output_thread).                                 *)

OutAt(t, pc) == out[t] = pc
OutTo(t, pc) == out' = [out EXCEPT ![t] = pc]

(* Where a thread goes whose write to t->fd failed: "oops".                *)
AfterPost(pc) == IF loop = "running" THEN pc ELSE "kick"

OutStart(t) ==
  /\ OutAt(t, "start") /\ OutTo(t, AfterPost("read"))
  /\ started' = FALSE /\ ended' = FALSE
  /\ token' = [token EXCEPT ![t] = @ + 1]
  /\ Post(t, Online(token[t] + 1))
  /\ UNCHANGED <<deviceVars, active, inp, down, lifeVars, loopVars, mainVars>>

(* The device answers the host's CNXN with its own before anything else.   *)
OutRead(t) ==
  /\ OutAt(t, "read") /\ OutTo(t, AfterPost("read"))
  /\ ~Broken(t) /\ heard[t] /\ sent[t] < MaxPackets
  /\ sent' = [sent EXCEPT ![t] = @ + 1]
  /\ Post(t, IF sent[t] = 0 THEN Cnxn ELSE Data)
  /\ UNCHANGED <<dev, heard, flagVars, token, active, inp, down, lifeVars,
                 loopVars, mainVars>>

(* read_from_remote fails: the device is broken, or what it sent has a bad *)
(* header.                                                                 *)
OutFail(t) ==
  /\ OutAt(t, "read") /\ OutTo(t, "check")
  /\ UNCHANGED <<deviceVars, flagVars, token, active, inp, up, down, lifeVars,
                 loopVars, mainVars>>

AlreadyCleaned == started

OutCheck(t) ==
  /\ OutAt(t, "check")
  /\ OutTo(t, IF AlreadyCleaned THEN "done" ELSE "offline")
  /\ started' = TRUE
  /\ UNCHANGED <<deviceVars, ended, token, active, inp, up, down, lifeVars,
                 loopVars, mainVars>>

(* handle_output_offline.                                                  *)
OutOfflinePost(t) == Post(t, Offline)

OutOffline(t) ==
  /\ OutAt(t, "offline") /\ OutTo(t, "kick")
  /\ OutOfflinePost(t)
  /\ UNCHANGED <<deviceVars, flagVars, token, active, inp, down, lifeVars,
                 loopVars, mainVars>>

(* handle_output_oops.                                                     *)
OutKick(t) ==
  /\ OutAt(t, "kick") /\ OutTo(t, "unref")
  /\ Kick(t)
  /\ UNCHANGED <<deviceVars, flagVars, token, active, inp, up, down, life, ref,
                 online, regq, loopVars, mainVars>>

OutUnref(t) ==
  /\ OutAt(t, "unref") /\ OutTo(t, "end")
  /\ Unref(t)
  /\ UNCHANGED <<deviceVars, flagVars, token, active, inp, up, down, life,
                 online, loopVars, mainVars>>

OutEnd(t) ==
  /\ OutAt(t, "end") /\ OutTo(t, "done")
  /\ ended' = TRUE
  /\ UNCHANGED <<deviceVars, started, token, active, inp, up, down, lifeVars,
                 loopVars, mainVars>>

-----------------------------------------------------------------------------
(* The input thread of t (input_thread).                                   *)

InAt(t, pc) == inp[t] = pc
InTo(t, pc) == inp' = [inp EXCEPT ![t] = pc]

InSync(t) ==
  /\ InAt(t, "read") /\ down[t] # <<>> /\ Head(down[t])[1] = "SYNC"
  /\ down' = [down EXCEPT ![t] = Tail(@)]
  /\ IF Head(down[t]) = Offline
     THEN InTo(t, "close") /\ UNCHANGED active
     ELSE /\ active' = [active EXCEPT ![t] =
                          @ \/ Head(down[t]) = Online(token[t])]
          /\ UNCHANGED inp
  /\ UNCHANGED <<deviceVars, flagVars, token, out, up, lifeVars, loopVars,
                 mainVars>>

(* write_to_remote; its result is ignored.                                 *)
InData(t) ==
  /\ InAt(t, "read") /\ down[t] # <<>> /\ Head(down[t])[1] # "SYNC"
  /\ down' = [down EXCEPT ![t] = Tail(@)]
  /\ heard' = [heard EXCEPT ![t] =
                 @ \/ (active[t] /\ Head(down[t]) = Cnxn /\ ~Broken(t))]
  /\ UNCHANGED <<dev, sent, flagVars, token, active, out, inp, up, lifeVars,
                 loopVars, mainVars>>

(* read_packet fails: the descriptors are closed with the server.          *)
FdsClosedNever == FALSE                                             \* mutant
FdsClosed == loop = "dead"

InEof(t) ==
  /\ InAt(t, "read") /\ FdsClosed /\ InTo(t, "close")
  /\ UNCHANGED <<deviceVars, flagVars, token, active, out, up, down, lifeVars,
                 loopVars, mainVars>>

(* close_all_sockets.                                                      *)
CloseAll(t) == CloseClients({c \in Client : Bound(c, t)})

InClose(t) ==
  /\ InAt(t, "close") /\ InTo(t, "kick")
  /\ CloseAll(t)
  /\ UNCHANGED <<deviceVars, flagVars, token, active, out, up, down, lifeVars,
                 busy, loop, mainVars>>

InKick(t) ==
  /\ InAt(t, "kick") /\ InTo(t, "unref")
  /\ Kick(t)
  /\ UNCHANGED <<deviceVars, flagVars, token, active, out, up, down, life, ref,
                 online, regq, loopVars, mainVars>>

InUnref(t) ==
  /\ InAt(t, "unref") /\ InTo(t, "done")
  /\ Unref(t)
  /\ UNCHANGED <<deviceVars, flagVars, token, active, out, up, down, life,
                 online, loopVars, mainVars>>

-----------------------------------------------------------------------------
(* The event loop.                                                         *)

LoopIdle == loop = "running" /\ busy = {}

(* transport_registration_func: the threads are asked for, and the         *)
(* transport joins the list.                                               *)
LoopAdd ==
  /\ LoopIdle /\ regq # <<>> /\ Head(regq).act = "add"
  /\ LET t == Head(regq).t IN
       /\ life' = [life EXCEPT ![t] = "live"]
       /\ ref' = [ref EXCEPT ![t] = 2]
       /\ spawn' = Append(spawn, t)
  /\ regq' = Tail(regq)
  /\ UNCHANGED <<deviceVars, flagVars, pumpVars, kicked, online, loopVars,
                 victim, killer>>

(* The socketpair is closed, with what is in it, and the transport freed.  *)
LoopRemove ==
  /\ LoopIdle /\ regq # <<>> /\ Head(regq).act = "remove"
  /\ LET t == Head(regq).t IN
       /\ life' = [life EXCEPT ![t] = "freed"]
       /\ up' = [up EXCEPT ![t] = <<>>] /\ down' = [down EXCEPT ![t] = <<>>]
  /\ regq' = Tail(regq)
  /\ UNCHANGED <<deviceVars, flagVars, token, active, out, inp, ref, kicked,
                 online, loopVars, mainVars>>

(* transport_socket_events and handle_packet. A SYNC is sent back to the   *)
(* input thread; going offline closes the sockets that have a remote peer, *)
(* coming online sends the host's CNXN behind the SYNC.                    *)
EchoOnline(p) == <<Cnxn, p>>                                        \* mutant
Echo(p) == <<p, Cnxn>>

LoopSync(t) ==
  /\ LoopIdle /\ life[t] = "live"
  /\ up[t] # <<>> /\ Head(up[t])[1] = "SYNC"
  /\ up' = [up EXCEPT ![t] = Tail(@)]
  /\ IF Head(up[t]) = Offline
     THEN /\ down' = [down EXCEPT ![t] = Append(@, Offline)]
          /\ online' = [online EXCEPT ![t] = FALSE]
          /\ CloseClients({c \in Client : Bound(c, t) /\ client[c].at = "open"})
     ELSE /\ down' = [down EXCEPT ![t] = @ \o Echo(Head(up[t]))]
          /\ UNCHANGED <<online, client>>
  /\ UNCHANGED <<deviceVars, flagVars, token, active, out, inp, life, ref,
                 kicked, regq, busy, loop, mainVars>>

LoopCnxn(t) ==
  /\ LoopIdle /\ life[t] = "live"
  /\ up[t] # <<>> /\ Head(up[t]) = Cnxn
  /\ up' = [up EXCEPT ![t] = Tail(@)]
  /\ online' = [online EXCEPT ![t] = TRUE]
  /\ UNCHANGED <<deviceVars, flagVars, token, active, out, inp, down, life, ref,
                 kicked, regq, loopVars, mainVars>>

(* OKAY opens a client, CLSE closes one, anything else changes none.       *)
LoopData(t) ==
  /\ LoopIdle /\ life[t] = "live"
  /\ up[t] # <<>> /\ Head(up[t]) = Data
  /\ up' = [up EXCEPT ![t] = Tail(@)]
  /\ \/ UNCHANGED client
     \/ \E c \in Client :
          /\ online[t] /\ Bound(c, t) /\ client[c].at \in {"opening", "open"}
          /\ \/ client' = [client EXCEPT ![c].at = "open"]
             \/ CloseClients({c})
  /\ UNCHANGED <<deviceVars, flagVars, token, active, out, inp, down, lifeVars,
                 busy, loop, mainVars>>

(* local_socket_event_func of client c begins ...                          *)
LoopHandle(c) ==
  /\ LoopIdle /\ client[c].at # "closed"
  /\ busy' = {c}
  /\ UNCHANGED <<deviceVars, flagVars, pumpVars, lifeVars, client, loop, mainVars>>

(* ... and ends: the smart socket handles a request, or nothing of the     *)
(* kind happens. If the client was destroyed meanwhile the handler works   *)
(* on freed memory; here it then leaves the client as it is.               *)
Handled(c) == c \in busy /\ busy' = {} /\ client[c].at # "closed"

(* host:transport: acquire_one_transport takes a device that is online.    *)
AcquireAny(t) == TRUE                                               \* mutant
Acquire(t) == online[t]

ClientAcquire(c, t) ==
  /\ Handled(c) /\ client[c].at = "none"
  /\ life[t] = "live" /\ Acquire(t)
  /\ client' = [client EXCEPT ![c] = [at |-> "smart", t |-> t]]
  /\ UNCHANGED <<deviceVars, flagVars, pumpVars, lifeVars, loop, mainVars>>

(* The service: refused when the device is offline, else OPEN is sent.     *)
ClientService(c) ==
  /\ Handled(c) /\ client[c].at = "smart"
  /\ LET t == client[c].t IN
       IF online[t]
       THEN /\ client' = [client EXCEPT ![c].at = "opening"]
            /\ down' = [down EXCEPT ![t] = Append(@, Data)]
       ELSE CloseClients({c}) /\ UNCHANGED down
  /\ UNCHANGED <<deviceVars, flagVars, token, active, out, inp, up, lifeVars,
                 loop, mainVars>>

(* The client is gone, or its bytes change nothing here.                   *)
ClientGone(c) ==
  /\ Handled(c) /\ CloseClients({c})
  /\ UNCHANGED <<deviceVars, flagVars, pumpVars, lifeVars, loop, mainVars>>

HandlerReturns ==
  /\ busy # {} /\ busy' = {}
  /\ UNCHANGED <<deviceVars, flagVars, pumpVars, lifeVars, client, loop, mainVars>>

-----------------------------------------------------------------------------
(* The add-on, on its main thread.                                         *)

(* spawnIO_task of adb-server-thread.js.                                   *)
SpawnIo ==
  /\ killer = "idle" /\ spawn # <<>>
  /\ LET t == Head(spawn) IN
       inp' = [inp EXCEPT ![t] = "read"] /\ OutTo(t, "start") /\ victim' = t
  /\ spawn' = Tail(spawn)
  /\ UNCHANGED <<deviceVars, flagVars, token, active, up, down, lifeVars,
                 loopVars, killer>>

(* close terminates the output worker. Terminate assumes what the code     *)
(* assumes, that this finds the thread in read_from_remote (or not in C at *)
(* all) and that it executes no more; the comment at kill_io_pump warns of *)
(* the other case, in which both drop the output thread's reference.       *)
Close ==
  /\ killer = "idle" /\ victim = 0 /\ killer' = "die"
  /\ UNCHANGED <<deviceVars, flagVars, pumpVars, lifeVars, loopVars, spawn, victim>>

Terminate ==
  /\ killer = "idle" /\ victim # 0 /\ killer' = "flags"
  /\ out[victim] \in {"start", "read", "done"}
  /\ OutTo(victim, IF OutAt(victim, "done") THEN "done" ELSE "stopped")
  /\ UNCHANGED <<deviceVars, flagVars, token, active, inp, up, down, lifeVars,
                 loopVars, spawn, victim>>

(* kill_io_pump.                                                           *)
NothingToDoNever == FALSE                                           \* mutant
NothingToDo == started \/ ended

KillFlags ==
  /\ killer = "flags"
  /\ killer' = IF NothingToDo THEN "die" ELSE "offline"
  /\ UNCHANGED <<deviceVars, flagVars, pumpVars, lifeVars, loopVars, spawn, victim>>

KillOffline ==
  /\ killer = "offline" /\ killer' = "kick"
  /\ Post(victim, Offline)
  /\ UNCHANGED <<deviceVars, flagVars, token, active, out, inp, down, lifeVars,
                 loopVars, spawn, victim>>

KillKick ==
  /\ killer = "kick" /\ killer' = "unref"
  /\ Kick(victim)
  /\ UNCHANGED <<deviceVars, flagVars, pumpVars, life, ref, online, regq,
                 loopVars, spawn, victim>>

KillUnref ==
  /\ killer = "unref" /\ killer' = "die"
  /\ Unref(victim)
  /\ UNCHANGED <<deviceVars, flagVars, pumpVars, life, online, loopVars, spawn,
                 victim>>

(* The loop reads 0xDEAD from the descriptor close wrote to, and returns.  *)
LoopDies ==
  /\ killer = "die" /\ killer' = "done"
  /\ LoopIdle /\ loop' = "dead"
  /\ UNCHANGED <<deviceVars, flagVars, pumpVars, lifeVars, client, busy, spawn,
                 victim>>

-----------------------------------------------------------------------------
Init ==
  /\ dev = [t \in T |-> "absent"] /\ sent = [t \in T |-> 0]
  /\ heard = [t \in T |-> FALSE] /\ life = [t \in T |-> "none"]
  /\ ref = [t \in T |-> 0] /\ kicked = [t \in T |-> FALSE]
  /\ online = [t \in T |-> FALSE] /\ token = [t \in T |-> 1]
  /\ active = [t \in T |-> FALSE]
  /\ out = [t \in T |-> "idle"] /\ inp = [t \in T |-> "idle"]
  /\ up = [t \in T |-> <<>>] /\ down = [t \in T |-> <<>>]
  /\ regq = <<>> /\ spawn = <<>>
  /\ client = [c \in Client |-> Unbound]
  /\ busy = {} /\ loop = "running"
  /\ started = FALSE /\ ended = FALSE /\ victim = 0 /\ killer = "idle"

OutStep(t) == OutCheck(t) \/ OutOffline(t) \/ OutKick(t) \/ OutUnref(t)
                \/ OutEnd(t) \/ OutStart(t)
InStep(t) == InSync(t) \/ InData(t) \/ InEof(t) \/ InClose(t) \/ InKick(t)
               \/ InUnref(t)
LoopStep(t) == LoopSync(t) \/ LoopCnxn(t) \/ LoopData(t)
HandlerEnd(c) == (\E t \in T : ClientAcquire(c, t)) \/ ClientService(c)
                   \/ ClientGone(c)
KillStep == KillFlags \/ KillOffline \/ KillKick \/ KillUnref

Next ==
  \/ \E t \in T : \/ Plug(t) \/ Unplug(t) \/ OutRead(t) \/ OutFail(t)
                  \/ OutStep(t) \/ InStep(t) \/ LoopStep(t)
  \/ \E c \in Client : LoopHandle(c) \/ HandlerEnd(c)
  \/ HandlerReturns \/ LoopAdd \/ LoopRemove
  \/ SpawnIo \/ Close \/ Terminate \/ KillStep \/ LoopDies

Spec == Init /\ [][Next]_vars

(* Every thread is scheduled, a read of a broken device returns, and the   *)
(* loop serves every ready descriptor however busy its clients keep it.    *)
Fairness ==
  /\ \A t \in T : /\ WF_vars(OutStep(t)) /\ WF_vars(OutFail(t) /\ Broken(t))
                  /\ WF_vars(InStep(t)) /\ SF_vars(LoopStep(t))
  /\ SF_vars(LoopAdd \/ LoopRemove) /\ SF_vars(LoopDies)
  /\ WF_vars(HandlerReturns) /\ WF_vars(SpawnIo) /\ WF_vars(KillStep)

FairSpec == Spec /\ Fairness

-----------------------------------------------------------------------------
(* Every variable has its type; a reference count is never negative.       *)
TypeOK ==
  /\ dev \in [T -> {"absent", "present", "gone"}]
  /\ sent \in [T -> 0..MaxPackets] /\ heard \in [T -> BOOLEAN]
  /\ life \in [T -> {"none", "queued", "live", "freed"}]
  /\ ref \in [T -> 0..2] /\ kicked \in [T -> BOOLEAN]
  /\ online \in [T -> BOOLEAN] /\ token \in [T -> 1..2]
  /\ active \in [T -> BOOLEAN] /\ out \in [T -> OutPc] /\ inp \in [T -> InPc]
  /\ up \in [T -> Seq(Packet)] /\ down \in [T -> Seq(Packet)]
  /\ regq \in Seq([act : {"add", "remove"}, t : T]) /\ spawn \in Seq(T)
  /\ client \in [Client ->
        [at : {"none", "smart", "opening", "open", "closed"}, t : {0} \cup T]]
  /\ busy \subseteq Client /\ loop \in {"running", "dead"}
  /\ started \in BOOLEAN /\ ended \in BOOLEAN
  /\ victim \in {0} \cup T /\ killer \in KillerPc

OutNeeds(t) == out[t] \in {"idle", "start", "read", "check", "offline", "kick",
                          "unref"}
InNeeds(t) == inp[t] # "done"
KillNeeds(t) == victim = t /\ killer \in {"offline", "kick", "unref"}
Closed(t) == life[t] = "freed" \/ (life[t] = "live" /\ ref[t] <= 0)

(* A device is closed, and its transport freed, only after both io threads *)
(* are through with it, and kill_io_pump too: the reference counts of      *)
(* output_thread, input_thread and kill_io_pump agree.                     *)
BothExited ==
  \A t \in T : Closed(t) => ~OutNeeds(t) /\ ~InNeeds(t) /\ ~KillNeeds(t)

(* A transport is registered once and removed once: the registration       *)
(* socket never holds two messages for it, nor one once it is freed.       *)
RemovedOnce ==
  \A i \in DOMAIN regq :
    /\ life[regq[i].t] = (IF regq[i].act = "add" THEN "queued" ELSE "live")
    /\ \A j \in DOMAIN regq : regq[j].t = regq[i].t => i = j

(* Both: a transport is removed and freed once, after its last use.        *)
FreedOnce == BothExited /\ RemovedOnce

(* Once an input thread has closed the sockets of its transport no client  *)
(* is bound to it, nor will be: handle_offline and the test of CS_OFFLINE  *)
(* in smart_socket_enqueue and acquire_one_transport leave no window.      *)
NoClientLeft ==
  \A t \in T : inp[t] \in {"kick", "unref", "done"} =>
    \A c \in Client : ~Bound(c, t)

(* An output thread that is through with a device has told the input       *)
(* thread: a SYNC(0,0) is under way to it if it is still reading.          *)
OfflinePosted ==
  \A t \in T :
    /\ out[t] \in {"kick", "unref", "end", "done"}
    /\ inp[t] = "read" /\ loop = "running"
    => \E i \in DOMAIN (up[t] \o down[t]) : (up[t] \o down[t])[i] = Offline

(* The input thread never drops a packet of the loop as "ignored while     *)
(* offline": the echo of SYNC(1, token) always runs ahead of it.           *)
NothingIgnored ==
  \A t \in T : inp[t] = "read" /\ down[t] # <<>> /\ Head(down[t])[1] # "SYNC"
               => active[t]

(* The SYNC protocol between the loop and the io threads, both ways: what  *)
(* the two above say.                                                      *)
SyncKept == OfflinePosted /\ NothingIgnored

(* A device that is pulled out is in the end removed and freed, while adb  *)
(* is not being closed.                                                    *)
GoneFreed ==
  \A t \in T : dev[t] = "gone" ~> (life[t] = "freed" \/ killer # "idle")

(* When adb is closed both io threads come to their end.                   *)
ThreadsEnd ==
  \A t \in T : killer = "done" ~> (inp[t] \in {"idle", "done"}
                                    /\ out[t] \in {"idle", "stopped", "done"})

(* Both: what io threads hold comes to its end, by the cable or by close.  *)
IoEnds == GoneFreed /\ ThreadsEnd
=============================================================================
