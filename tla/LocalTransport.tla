---------------------------- MODULE LocalTransport ----------------------------
(***************************************************************************)
(* The transports over TCP (transport_local.cpp): the requests             *)
(* host:connect and host:emulator open them on the event loop, two io      *)
(* threads use them, and either of these or the end of the transport       *)
(* closes what it keeps. A descriptor is a number that the system gives    *)
(* out again as soon as it is closed, the lowest first, and the rest of    *)
(* adb opens and closes descriptors as well; so this module keeps the      *)
(* table of who owns which number, and each thread that uses a number      *)
(* holds it in its hand from the moment it has read it from the transport. *)
(*                                                                         *)
(* Left out: the content of packets, SYNC(1, token) (AdbTransport has it), *)
(* the transports over USB, the clean-up flags of output_thread.           *)
(***************************************************************************)
EXTENDS Naturals, FiniteSets

CONSTANTS
  T,          \* transports, each used once
  Ports,      \* adb ports of emulators
  Hosts,      \* host:port of devices
  Slots,      \* ADB_LOCAL_TRANSPORT_MAX
  MaxFd       \* bound: descriptor numbers are 0..MaxFd

LocalAssumption ==
  /\ Ports \cap Hosts = {} /\ T # {} /\ Slots \in Nat /\ MaxFd \in Nat
  /\ \A p \in Ports \cup Hosts : p # "none"

Fd == 0..MaxFd
NoFd == MaxFd + 1                        \* -1
Free == <<"free", 0>>
Stranger == <<"stranger", 0>>

VARIABLES
  fds,               \* fds[n]: who opened n: Free, Stranger, or a kind and a transport
  calling,           \* the address connect_emulator or connect_device waits for, or "none"
  address,           \* address[t]: adb_port or host:port, "none" before
  life,              \* life[t]: "none", "queued", "listed", "removing", "freed"
  sfd,               \* sfd[t]: the socket, NoFd once kicked
  socket, fd,        \* transport_socket and fd: the socket pair to the event loop
  kicked, ref,
  local_transports,  \* emulators in the table
  lio,               \* lio[w][t]: "off", "run", "busy", "kick", "unref", "over"
  hand,              \* hand[w][t]: the number a call in progress uses
  offline,           \* transports whose input thread was sent SYNC(0,0)
  stolen             \* a descriptor was closed by one who did not own it

ownVars == <<address, life, sfd, socket, fd, kicked, ref, local_transports>>
localVars == <<fds, calling, ownVars, lio, hand, offline, stolen>>

Ios == {"output", "input"}
IoTo(w, t, l) == lio' = [lio EXCEPT ![w][t] = l]

Lowest(taken) == CHOOSE n \in Fd : n \notin taken /\ \A m \in 0..(n - 1) : m \in taken
Open == {n \in Fd : fds[n] # Free}
Room(k) == Cardinality(Open) + k <= MaxFd + 1

-----------------------------------------------------------------------------
(* What is already known: an emulator in the table, or a device on the     *)
(* list under its serial.                                                  *)
find_emulator_transport_by_adb_port(p) == \E t \in local_transports : address[t] = p
find_transport(h) == \E t \in T : life[t] \in {"listed", "removing"} /\ address[t] = h
SlotFree == Cardinality(local_transports) < Slots

(* connect_emulator and connect_device refuse what they know; then they    *)
(* connect, which takes its time. host:emulator:<port> asks nothing first. *)
connect_emulator(p) ==
  /\ calling = "none" /\ p \in Ports
  /\ ~find_emulator_transport_by_adb_port(p) /\ SlotFree
  /\ calling' = p
  /\ UNCHANGED <<fds, ownVars, lio, hand, offline, stolen>>

connect_device(h) ==
  /\ calling = "none" /\ h \in Hosts /\ ~find_transport(h)
  /\ calling' = h
  /\ UNCHANGED <<fds, ownVars, lio, hand, offline, stolen>>

local_connect(p) ==
  /\ calling = "none" /\ p \in Ports
  /\ calling' = p
  /\ UNCHANGED <<fds, ownVars, lio, hand, offline, stolen>>

(* init_socket_transport under local_transports_lock: a second transport   *)
(* for the port of an emulator, or one too many, fails.                    *)
Accepted(p) == p \in Ports => ~find_emulator_transport_by_adb_port(p) /\ SlotFree

(* register_socket_transport with the new socket; or there is no           *)
(* connection, or init fails and the socket is closed again.               *)
Connected(t) ==
  /\ calling # "none" /\ life[t] = "none" /\ calling' = "none"
  /\ IF Accepted(calling) /\ Room(1)
     THEN LET n == Lowest(Open) IN
          /\ fds' = [fds EXCEPT ![n] = <<"sfd", t>>]
          /\ sfd' = [sfd EXCEPT ![t] = n]
          /\ address' = [address EXCEPT ![t] = calling]
          /\ life' = [life EXCEPT ![t] = "queued"]
          /\ local_transports' =
               IF calling \in Ports THEN local_transports \cup {t} ELSE local_transports
     ELSE UNCHANGED <<fds, sfd, address, life, local_transports>>
  /\ UNCHANGED <<socket, fd, kicked, ref, lio, hand, offline, stolen>>

NotConnected ==
  /\ calling # "none" /\ calling' = "none"
  /\ UNCHANGED <<fds, ownVars, lio, hand, offline, stolen>>

(* The event loop registers the transport: a socket pair, two threads.     *)
AddTransport(t) ==
  /\ calling = "none" /\ life[t] = "queued" /\ Room(2)
  /\ LET a == Lowest(Open)  b == Lowest(Open \cup {a}) IN
     /\ fds' = [fds EXCEPT ![a] = <<"socket", t>>, ![b] = <<"fd", t>>]
     /\ socket' = [socket EXCEPT ![t] = a] /\ fd' = [fd EXCEPT ![t] = b]
  /\ life' = [life EXCEPT ![t] = "listed"]
  /\ ref' = [ref EXCEPT ![t] = 2]
  /\ lio' = [w \in Ios |-> [lio[w] EXCEPT ![t] = "run"]]
  /\ UNCHANGED <<calling, address, sfd, kicked, local_transports, hand, offline, stolen>>

-----------------------------------------------------------------------------
(* remote_read and remote_write pass t->sfd to readx and writex, which go  *)
(* on with that number until all bytes are through.                        *)
Begins(w, t) ==
  /\ lio[w][t] = "run" /\ IoTo(w, t, "busy")
  /\ hand' = [hand EXCEPT ![w][t] = sfd[t]]
  /\ UNCHANGED <<fds, calling, ownVars, offline, stolen>>

(* A read that fails ends the transport; any read or write may fail, and   *)
(* one of a number that nobody has open must.                              *)
remote_read(t) ==
  /\ lio["output"][t] = "busy" /\ hand' = [hand EXCEPT !["output"][t] = NoFd]
  /\ \/ /\ hand["output"][t] \in Open /\ IoTo("output", t, "run") /\ UNCHANGED offline
     \/ IoTo("output", t, "kick") /\ offline' = offline \cup {t}
  /\ UNCHANGED <<fds, calling, ownVars, stolen>>

(* Nobody looks at the result of a write.                                  *)
remote_write(t) ==
  /\ lio["input"][t] = "busy" /\ hand' = [hand EXCEPT !["input"][t] = NoFd]
  /\ IoTo("input", t, "run")
  /\ UNCHANGED <<fds, calling, ownVars, offline, stolen>>

SeeOffline(t) ==
  /\ lio["input"][t] = "run" /\ t \in offline /\ IoTo("input", t, "kick")
  /\ UNCHANGED <<fds, calling, ownVars, hand, offline, stolen>>

-----------------------------------------------------------------------------
(* adb_close of number n, which t takes for its own descriptor of that     *)
(* kind.                                                                   *)
Close(n, owner) ==
  IF n \notin Open THEN UNCHANGED <<fds, stolen>>
  ELSE /\ fds' = [fds EXCEPT ![n] = Free]
       /\ stolen' = (stolen \/ fds[n] # owner)

(* kick_transport, and remote_kick of whoever is the first: the socket is  *)
(* closed and the emulator leaves the table.                               *)
LeavesSlot(t) == local_transports \ {t}

Kick(w, t) ==
  /\ lio[w][t] = "kick" /\ IoTo(w, t, "unref")
  /\ IF t \in kicked THEN UNCHANGED <<fds, stolen, kicked, sfd, local_transports>>
     ELSE /\ kicked' = kicked \cup {t}
          /\ sfd' = [sfd EXCEPT ![t] = NoFd]
          /\ Close(sfd[t], <<"sfd", t>>)
          /\ local_transports' = LeavesSlot(t)
  /\ UNCHANGED <<calling, address, life, socket, fd, ref, hand, offline>>

(* transport_unref: with the last reference remote_close closes the fd of  *)
(* the socket pair, and the event loop is told to remove the transport.    *)
Unref(w, t) ==
  /\ lio[w][t] = "unref" /\ IoTo(w, t, "over")
  /\ ref' = [ref EXCEPT ![t] = @ - 1]
  /\ IF ref[t] = 1
     THEN Close(fd[t], <<"fd", t>>) /\ life' = [life EXCEPT ![t] = "removing"]
     ELSE UNCHANGED <<fds, stolen, life>>
  /\ UNCHANGED <<calling, address, sfd, socket, fd, kicked, local_transports, hand, offline>>

(* transport_registration_func removes it: fdevent_remove closes           *)
(* transport_socket, and then t->fd is closed, for the second time.        *)
RemoveTransport(t) ==
  /\ calling = "none" /\ life[t] = "removing"
  /\ life' = [life EXCEPT ![t] = "freed"]
  /\ LET wrong == fds[socket[t]] \notin {<<"socket", t>>, Free} \/ fds[fd[t]] # Free IN
     /\ fds' = [fds EXCEPT ![socket[t]] = Free, ![fd[t]] = Free]
     /\ stolen' = (stolen \/ wrong)
  /\ UNCHANGED <<calling, address, sfd, socket, fd, kicked, ref, local_transports, lio, hand, offline>>

-----------------------------------------------------------------------------
(* The rest of the process opens and closes its own descriptors.           *)
StrangerOpens ==
  /\ Room(1) /\ Stranger \notin {fds[n] : n \in Fd}
  /\ fds' = [fds EXCEPT ![Lowest(Open)] = Stranger]
  /\ UNCHANGED <<calling, ownVars, lio, hand, offline, stolen>>

StrangerCloses(n) ==
  /\ fds[n] = Stranger /\ fds' = [fds EXCEPT ![n] = Free]
  /\ UNCHANGED <<calling, ownVars, lio, hand, offline, stolen>>

-----------------------------------------------------------------------------
Init ==
  /\ fds = [n \in Fd |-> Free] /\ calling = "none"
  /\ address = [t \in T |-> "none"] /\ life = [t \in T |-> "none"]
  /\ sfd = [t \in T |-> NoFd] /\ socket = [t \in T |-> NoFd] /\ fd = [t \in T |-> NoFd]
  /\ kicked = {} /\ ref = [t \in T |-> 0] /\ local_transports = {}
  /\ lio = [w \in Ios |-> [t \in T |-> "off"]]
  /\ hand = [w \in Ios |-> [t \in T |-> NoFd]]
  /\ offline = {} /\ stolen = FALSE

Next ==
  \/ NotConnected \/ StrangerOpens \/ \E n \in Fd : StrangerCloses(n)
  \/ \E p \in Ports \cup Hosts : connect_emulator(p) \/ connect_device(p) \/ local_connect(p)
  \/ \E t \in T :
       \/ Connected(t) \/ AddTransport(t) \/ RemoveTransport(t)
       \/ remote_read(t) \/ remote_write(t) \/ SeeOffline(t)
       \/ \E w \in Ios : Begins(w, t) \/ Kick(w, t) \/ Unref(w, t)

Spec == Init /\ [][Next]_localVars

-----------------------------------------------------------------------------
(* Every variable has its type.                                            *)
TypeOK ==
  /\ fds \in [Fd -> {Free, Stranger} \cup ({"sfd", "socket", "fd"} \X T)]
  /\ calling \in Ports \cup Hosts \cup {"none"}
  /\ address \in [T -> Ports \cup Hosts \cup {"none"}]
  /\ life \in [T -> {"none", "queued", "listed", "removing", "freed"}]
  /\ {sfd, socket, fd} \subseteq [T -> 0..NoFd]
  /\ kicked \subseteq T /\ ref \in [T -> 0..2] /\ local_transports \subseteq T
  /\ lio \in [Ios -> [T -> {"off", "run", "busy", "kick", "unref", "over"}]]
  /\ hand \in [Ios -> [T -> 0..NoFd]]
  /\ offline \subseteq T /\ stolen \in BOOLEAN

(* The table holds the emulators that are connected and no other, one for  *)
(* a port and never too many (adb.cpp:1351 counts on it); a device that is *)
(* kicked can be connected again though it is still on the list.           *)
TableAgrees ==
  /\ \A t \in T : t \in local_transports <=>
       address[t] \in Ports /\ life[t] \in {"queued", "listed"} /\ t \notin kicked
  /\ \A t, u \in local_transports : address[t] = address[u] => t = u
  /\ Cardinality(local_transports) <= Slots

(* As long as the second close of t->fd has hit nobody: a transport has    *)
(* what it thinks it has open, a transfer uses another's descriptor only   *)
(* if the transport was kicked under it, and a removed transport leaves    *)
(* nothing open.                                                           *)
FdsKept ==
  ~stolen =>
    \A t \in T :
      /\ sfd[t] # NoFd => fds[sfd[t]] = <<"sfd", t>>
      /\ life[t] = "listed" => fds[socket[t]] = <<"socket", t>> /\ fds[fd[t]] = <<"fd", t>>
      /\ \A w \in Ios : hand[w][t] # NoFd => fds[hand[w][t]] = <<"sfd", t>> \/ t \in kicked
      /\ life[t] = "freed" => \A n \in Fd : fds[n][2] # t

=============================================================================
