------------------------------ MODULE AdbStream ------------------------------
(***************************************************************************)
(* The stream multiplexer of adb (android-tools/adb-bin/sockets.c and      *)
(* handle_packet in adb.cpp): two ends, the host server and the daemon of  *)
(* one device, run the same socket code and exchange OPEN, OKAY (READY),   *)
(* WRTE and CLSE messages over one transport.                              *)
(*                                                                         *)
(* A local socket s = <<end, id>> owns a file descriptor whose other side  *)
(* is a client program (on the host) or a service (on the device). Its     *)
(* remote socket, the asocket that stands for the far end, is the pair     *)
(* peer[s] (the pointer s->peer is not NULL) and rid[s] (the remote id; it *)
(* keeps its last value after the remote socket is freed).                 *)
(*                                                                         *)
(* Abstractions. Payload is counted in units: the n-th unit a client       *)
(* writes is the number n. A queue of packets is the sequence of the units *)
(* not yet written. wire[e] is everything between the event loop of e and  *)
(* the event loop of the far end: the socketpair, the io threads, the      *)
(* cable. Every handler runs to its end before the next one, as on the one *)
(* fdevent thread; AdbTransport models the threads. The request a client   *)
(* makes of the smart socket is one step (ClientOpen).                     *)
(***************************************************************************)
EXTENDS Naturals, Sequences, FiniteSets

CONSTANTS
  MaxId,        \* sockets an end creates
  MaxUnits,     \* units a client writes into its descriptor
  MaxPayload,   \* MAX_PAYLOAD: units one WRTE carries
  MaxLinks      \* times the transport comes up

ASSUME StreamAssumption ==
  /\ MaxId \in Nat \ {0}
  /\ MaxUnits \in Nat
  /\ MaxPayload \in Nat \ {0}
  /\ MaxLinks \in Nat

End == {"host", "device"}
Far(e) == IF e = "host" THEN "device" ELSE "host"
Id == 1..MaxId
Sock == End \X Id
Unit == 1..MaxUnits

VARIABLES
  online,   \* online[e]: t->online (and connection_state # CS_OFFLINE)
  nextId,   \* nextId[e]: local_socket_next_id
  list,     \* list[s]: the list s is on: none, local, closing; or freed
  peer,     \* peer[s]: s->peer is a remote socket
  rid,      \* rid[s]: the id of that remote socket, 0 before there is one
  pkts,     \* pkts[s]: units queued for the descriptor (pkt_first)
  rd,       \* rd[s]: FDE_READ is wanted
  wr,       \* wr[s]: FDE_WRITE is wanted
  notify,   \* notify[s]: s->ready and s->close are the _notify functions
  wire,     \* wire[e]: messages from e the far end has not handled
  link,     \* the cable and the io threads: "up" or "down"
  links,    \* how many times the link came up
  sweep,    \* sweep[e]: the input thread of e has yet to close_all_sockets
  wrote,    \* wrote[s]: units the client wrote
  taken,    \* taken[s]: how many of them the server has read
  got,      \* got[s]: units the server wrote to the client
  told,     \* told[s]: the status the host client was sent
  shut      \* shut[s]: what the client has shut: "open", "eof", "gone"

sockVars == <<nextId, list, peer, rid, pkts, rd, wr, notify>>
linkVars == <<online, link, links, sweep>>
clientVars == <<wrote, shut>>
vars == <<sockVars, linkVars, clientVars, wire, taken, got, told>>

Msg(cmd, local, remote, data) ==
  [cmd |-> cmd, arg0 |-> local, arg1 |-> remote, data |-> data]

Message == [cmd  : {"CNXN", "OPEN", "OKAY", "CLSE", "WRTE", "SYNC"},
            arg0 : 0..MaxId, arg1 : 0..MaxId, data : Seq(Unit)]

-----------------------------------------------------------------------------
(* send_packet: what is sent on a dead transport is discarded.             *)

Sent(e, ms) == IF link = "up" THEN wire[e] \o ms ELSE wire[e]

Send(e, ms) == wire' = [wire EXCEPT ![e] = Sent(e, ms)]

(* The next message for e is m; it is consumed and ms are sent.            *)
Reply(e, ms) ==
  wire' = [wire EXCEPT ![Far(e)] = Tail(@), ![e] = Sent(e, ms)]

Arrives(e, cmd) == wire[Far(e)] # <<>> /\ Head(wire[Far(e)]).cmd = cmd

(* find_local_socket: sockets on the closing list have lost their id.      *)
Found(e, id) == id \in Id /\ list[<<e, id>>] = "local"

(* local_socket_close_locked on the sockets of S: the remote socket is     *)
(* told (CloseMsgs) and freed; a socket that still owes its client data    *)
(* goes to the closing list, any other is destroyed.                       *)
DiesNow(s) == TRUE                                                  \* mutant
Dies(s) == list[s] = "closing" \/ pkts[s] = <<>>

CloseSockets(S) ==
  /\ list' = [s \in Sock |-> IF s \notin S THEN list[s]
                             ELSE IF Dies(s) THEN "freed" ELSE "closing"]
  /\ pkts' = [s \in Sock |-> IF s \in S /\ Dies(s) THEN <<>> ELSE pkts[s]]
  /\ wr' = [s \in Sock |-> wr[s] /\ ~(s \in S /\ Dies(s))]
  /\ peer' = [s \in Sock |-> peer[s] /\ s \notin S]
  /\ rd' = [s \in Sock |-> rd[s] /\ s \notin S]
  /\ notify' = [s \in Sock |-> notify[s] /\ s \notin S]
  /\ UNCHANGED <<nextId, rid>>

(* send_ready and send_close of adb.cpp.                                   *)
SendReadyNone(local, remote) == <<>>                                \* mutant
SendReady(local, remote) == <<Msg("OKAY", local, remote, <<>>)>>

SendCloseNone(remote) == <<>>                                       \* mutant
SendClose(remote) == <<Msg("CLSE", 0, remote, <<>>)>>

(* remote_socket_close: by the time it runs its peer pointer is cleared,   *)
(* so the CLSE names no local id.                                          *)
CloseMsgsNone(s) == <<>>                                            \* mutant
CloseMsgs(s) ==
  IF peer[s] THEN <<Msg("CLSE", 0, rid[s], <<>>)>> ELSE <<>>

(* remote_socket_ready and the result 1 of remote_socket_enqueue, on which *)
(* the reader stops until the far end is ready.                            *)
RemoteReadyNone(s) == <<>>                                          \* mutant
RemoteReady(s) == <<Msg("OKAY", s[2], rid[s], <<>>)>>

ReadsOnAlways(s) == TRUE                                            \* mutant
ReadsOn(s) == ~peer[s]

(* s->close of a socket that is still opening tells its client "FAIL".     *)
Tell(S) == told' = [s \in Sock |-> IF s \in S /\ notify[s] THEN "fail"
                                   ELSE told[s]]

Attached(e) == {s \in Sock : s[1] = e /\ peer[s]}

-----------------------------------------------------------------------------
(* The transport: registration and CNXN, loss, SYNC(0,0), the sweep.       *)

(* output_thread posts SYNC(1, token) and the host's loop answers CNXN.    *)
LinkUp ==
  /\ link = "down" /\ links < MaxLinks
  /\ \A e \in End : wire[e] = <<>> /\ ~online[e] /\ ~sweep[e]
  /\ link' = "up" /\ links' = links + 1
  /\ wire' = [wire EXCEPT !["host"] = <<Msg("CNXN", 0, 0, <<>>)>>]
  /\ UNCHANGED <<sockVars, online, sweep, clientVars, taken, got, told>>

(* The cable is pulled: what had not reached the far loop is lost and each *)
(* output thread posts SYNC(0,0) behind what had (handle_output_offline).  *)
LinkLost ==
  /\ link = "up" /\ link' = "down"
  /\ \E h \in 0..Len(wire["host"]), d \in 0..Len(wire["device"]) :
       wire' = [e \in End |->
                  SubSeq(wire[e], 1, IF e = "host" THEN h ELSE d)
                    \o <<Msg("SYNC", 0, 0, <<>>)>>]
  /\ UNCHANGED <<sockVars, online, links, sweep, clientVars, taken, got, told>>

(* handle_packet, A_SYNC with arg0 = 0: handle_offline runs the disconnect *)
(* of every remote socket, then the packet wakes the input thread.         *)
HandleSync(e) ==
  /\ Arrives(e, "SYNC")
  /\ online' = [online EXCEPT ![e] = FALSE]
  /\ CloseSockets(Attached(e)) /\ Tell(Attached(e))
  /\ sweep' = [sweep EXCEPT ![e] = TRUE]
  /\ Reply(e, <<>>)
  /\ UNCHANGED <<link, links, clientVars, taken, got>>

(* close_all_sockets, called by the input thread on its way out: it goes   *)
(* round s->close, so a client still waiting for OKAY is not told.         *)
CloseAllSockets(e) ==
  /\ sweep[e]
  /\ sweep' = [sweep EXCEPT ![e] = FALSE]
  /\ CloseSockets({s \in Sock : /\ s[1] = e /\ list[s] = "local"
                                /\ e = "host" \/ peer[s]})
  /\ UNCHANGED <<online, link, links, clientVars, wire, taken, got, told>>

(* handle_packet, A_CNXN; the device answers with its own.                 *)
HandleCnxn(e) ==
  LET lost == IF online[e] THEN Attached(e) ELSE {} IN
  /\ Arrives(e, "CNXN")
  /\ CloseSockets(lost) /\ Tell(lost)
  /\ online' = [online EXCEPT ![e] = TRUE]
  /\ Reply(e, IF e = "device" THEN <<Msg("CNXN", 0, 0, <<>>)>> ELSE <<>>)
  /\ UNCHANGED <<link, links, sweep, clientVars, taken, got>>

-----------------------------------------------------------------------------
(* Opening a stream.                                                       *)

(* install_local_socket: ids are never given twice.                        *)
NewSocketReused(e) ==                                               \* mutant
  <<e, CHOOSE i \in Id : list[<<e, i>>] \in {"none", "freed"}>>
NewSocket(e) == <<e, nextId[e]>>

(* A host client's request reaches the smart socket, which hands the       *)
(* socket its transport and sends OPEN. If the same read also saw the end  *)
(* of the client's input (early), local_socket_event_func then closes it.  *)
ClientOpen(early) ==
  LET s == NewSocket("host") IN
  /\ online["host"] /\ nextId["host"] \in Id
  /\ nextId' = [nextId EXCEPT !["host"] = @ + 1]
  /\ list' = [list EXCEPT ![s] = IF early THEN "freed" ELSE "local"]
  /\ notify' = [notify EXCEPT ![s] = ~early]
  /\ told' = [told EXCEPT ![s] = IF early THEN "fail" ELSE "none"]
  /\ shut' = [shut EXCEPT ![s] = IF early THEN "eof" ELSE "open"]
  /\ Send("host", <<Msg("OPEN", s[2], 0, <<>>)>>)
  /\ UNCHANGED <<peer, rid, pkts, rd, wr, linkVars, wrote, taken, got>>

(* handle_packet, A_OPEN: the service starts, or it does not.              *)
OpenAccepted(e) ==
  LET m == Head(wire[Far(e)])
      s == NewSocket(e) IN
  /\ Arrives(e, "OPEN") /\ online[e] /\ nextId[e] \in Id
  /\ nextId' = [nextId EXCEPT ![e] = @ + 1]
  /\ list' = [list EXCEPT ![s] = "local"]
  /\ peer' = [peer EXCEPT ![s] = TRUE]
  /\ rid' = [rid EXCEPT ![s] = m.arg0]
  /\ rd' = [rd EXCEPT ![s] = TRUE]
  /\ Reply(e, SendReady(s[2], m.arg0))
  /\ UNCHANGED <<pkts, wr, notify, linkVars, clientVars, taken, got, told>>

OpenRefused(e) ==
  /\ Arrives(e, "OPEN") /\ online[e]
  /\ Reply(e, SendClose(Head(wire[Far(e)]).arg0))
  /\ UNCHANGED <<sockVars, linkVars, clientVars, taken, got, told>>

(* handle_packet, A_OKAY: the first one creates the remote socket; then    *)
(* s->ready, which for an opening socket tells the client "OKAY".          *)
HandleOkay(e) ==
  LET m == Head(wire[Far(e)])
      s == <<e, m.arg1>> IN
  /\ Arrives(e, "OKAY") /\ online[e] /\ Found(e, m.arg1)
  /\ peer' = [peer EXCEPT ![s] = TRUE]
  /\ rid' = [rid EXCEPT ![s] = IF peer[s] THEN @ ELSE m.arg0]
  /\ told' = [told EXCEPT ![s] = IF notify[s] THEN "okay" ELSE @]
  /\ notify' = [notify EXCEPT ![s] = FALSE]
  /\ rd' = [rd EXCEPT ![s] = TRUE]
  /\ Reply(e, <<>>)
  /\ UNCHANGED <<nextId, list, pkts, wr, linkVars, clientVars, taken, got>>

(* handle_packet, A_CLSE: s->close.                                        *)
HandleClse(e) ==
  LET m == Head(wire[Far(e)])
      s == <<e, m.arg1>> IN
  /\ Arrives(e, "CLSE") /\ online[e] /\ Found(e, m.arg1)
  /\ CloseSockets({s}) /\ Tell({s})
  /\ Reply(e, CloseMsgs(s))
  /\ UNCHANGED <<linkVars, clientVars, taken, got>>

(* A message for a socket that is not there, or on an offline transport,   *)
(* is dropped.                                                             *)
Ignore(e) ==
  LET m == Head(wire[Far(e)]) IN
  /\ wire[Far(e)] # <<>>
  /\ m.cmd \in {"OPEN", "OKAY", "CLSE", "WRTE"}
  /\ ~online[e] \/ (m.cmd # "OPEN" /\ ~Found(e, m.arg1))
  /\ Reply(e, <<>>)
  /\ UNCHANGED <<sockVars, linkVars, clientVars, taken, got, told>>

-----------------------------------------------------------------------------
(* Data. A write to the descriptor accepts any part of what is offered;    *)
(* it may fail once the client is gone.                                    *)

(* A packet after k units of it were written (p->ptr moved on).            *)
RestAll(data, k) == data                                            \* mutant
Rest(data, k) == SubSeq(data, k + 1, Len(data))

(* handle_packet, A_WRTE, with local_socket_enqueue returning 0 (all       *)
(* written: OKAY goes back) or 1 (the rest is queued, or there already was *)
(* a queue).                                                               *)
WrteWritten(e) ==
  LET m == Head(wire[Far(e)])
      s == <<e, m.arg1>> IN
  /\ Arrives(e, "WRTE") /\ online[e] /\ Found(e, m.arg1)
  /\ pkts[s] = <<>>
  /\ got' = [got EXCEPT ![s] = @ \o m.data]
  /\ Reply(e, SendReady(s[2], m.arg0))
  /\ UNCHANGED <<sockVars, linkVars, clientVars, taken, told>>

WrteQueued(e) ==
  LET m == Head(wire[Far(e)])
      s == <<e, m.arg1>> IN
  /\ Arrives(e, "WRTE") /\ online[e] /\ Found(e, m.arg1)
  /\ \E k \in 0..Len(m.data) - 1 :
       /\ pkts[s] # <<>> => k = 0
       /\ got' = [got EXCEPT ![s] = @ \o SubSeq(m.data, 1, k)]
       /\ pkts' = [pkts EXCEPT ![s] = @ \o Rest(m.data, k)]
  /\ wr' = [wr EXCEPT ![s] = TRUE]
  /\ Reply(e, <<>>)
  /\ UNCHANGED <<nextId, list, peer, rid, rd, notify, linkVars, clientVars,
                 taken, told>>

WrteFailed(e) ==
  LET m == Head(wire[Far(e)])
      s == <<e, m.arg1>> IN
  /\ Arrives(e, "WRTE") /\ online[e] /\ Found(e, m.arg1)
  /\ pkts[s] = <<>> /\ shut[s] = "gone"
  /\ CloseSockets({s}) /\ Tell({s})
  /\ Reply(e, CloseMsgs(s))
  /\ UNCHANGED <<linkVars, clientVars, taken, got>>

(* local_socket_event_func, FDE_WRITE: part of the queue is written;       *)
DrainSome(s) ==
  /\ wr[s]
  /\ \E k \in 1..Len(pkts[s]) - 1 :
       /\ got' = [got EXCEPT ![s] = @ \o SubSeq(pkts[s], 1, k)]
       /\ pkts' = [pkts EXCEPT ![s] = Rest(@, k)]
  /\ UNCHANGED <<nextId, list, peer, rid, rd, wr, notify, linkVars,
                 clientVars, wire, taken, told>>

(* all of it: the peer is ready again,                                     *)
DrainAll(s) ==
  /\ wr[s] /\ list[s] = "local"
  /\ got' = [got EXCEPT ![s] = @ \o pkts[s]]
  /\ pkts' = [pkts EXCEPT ![s] = <<>>]
  /\ wr' = [wr EXCEPT ![s] = FALSE]
  /\ Send(s[1], RemoteReady(s))
  /\ UNCHANGED <<nextId, list, peer, rid, rd, notify, linkVars, clientVars,
                 taken, told>>

(* or, for a closing socket, the socket is destroyed;                      *)
DrainLast(s) ==
  /\ wr[s] /\ list[s] = "closing"
  /\ got' = [got EXCEPT ![s] = @ \o pkts[s]]
  /\ CloseSockets({s})
  /\ UNCHANGED <<linkVars, clientVars, wire, taken, told>>

(* the write fails.                                                        *)
DrainFailed(s) ==
  /\ wr[s] /\ shut[s] = "gone"
  /\ CloseSockets({s}) /\ Tell({s})
  /\ Send(s[1], CloseMsgs(s))
  /\ UNCHANGED <<linkVars, clientVars, taken, got>>

(* local_socket_event_func, FDE_READ: up to MAX_PAYLOAD is read and sent;  *)
(* reading stops until the far end is ready. End of input, which only a    *)
(* short read sees, closes the socket after the data.                      *)
AvailableFull(s) == MaxPayload                                      \* mutant
Available(s) == IF wrote[s] - taken[s] < MaxPayload THEN wrote[s] - taken[s]
                                                    ELSE MaxPayload

ReadData(s) ==
  IF Available(s) > 0 /\ peer[s]
  THEN <<Msg("WRTE", s[2], rid[s], [k \in 1..Available(s) |-> taken[s] + k])>>
  ELSE <<>>

ReadSome(s) ==
  /\ rd[s] /\ Available(s) > 0
  /\ shut[s] = "open" \/ Available(s) = MaxPayload
  /\ taken' = [taken EXCEPT ![s] = @ + Available(s)]
  /\ rd' = [rd EXCEPT ![s] = ReadsOn(s)]
  /\ Send(s[1], ReadData(s))
  /\ UNCHANGED <<nextId, list, peer, rid, pkts, wr, notify, linkVars,
                 clientVars, got, told>>

ReadEof(s) ==
  /\ rd[s] /\ shut[s] # "open" /\ Available(s) < MaxPayload
  /\ taken' = [taken EXCEPT ![s] = @ + Available(s)]
  /\ CloseSockets({s}) /\ Tell({s})
  /\ Send(s[1], ReadData(s) \o CloseMsgs(s))
  /\ UNCHANGED <<linkVars, clientVars, got>>

-----------------------------------------------------------------------------
(* The programs at the other side of the descriptors. A host client writes *)
(* only after it was told OKAY.                                            *)

Live(s) == list[s] \in {"local", "closing"}

ClientWrite(s) ==
  /\ list[s] = "local" /\ shut[s] = "open" /\ wrote[s] < MaxUnits
  /\ s[1] = "host" => told[s] = "okay"
  /\ wrote' = [wrote EXCEPT ![s] = @ + 1]
  /\ UNCHANGED <<sockVars, linkVars, wire, taken, got, told, shut>>

ClientShut(s, how) ==
  /\ Live(s)
  /\ \/ shut[s] = "open"
     \/ shut[s] = "eof" /\ how = "gone"
  /\ shut' = [shut EXCEPT ![s] = how]
  /\ UNCHANGED <<sockVars, linkVars, wire, taken, got, told, wrote>>

-----------------------------------------------------------------------------

Init ==
  /\ online = [e \in End |-> FALSE]
  /\ nextId = [e \in End |-> 1]
  /\ list = [s \in Sock |-> "none"]
  /\ peer = [s \in Sock |-> FALSE]
  /\ rid = [s \in Sock |-> 0]
  /\ pkts = [s \in Sock |-> <<>>]
  /\ rd = [s \in Sock |-> FALSE]
  /\ wr = [s \in Sock |-> FALSE]
  /\ notify = [s \in Sock |-> FALSE]
  /\ wire = [e \in End |-> <<>>]
  /\ link = "down" /\ links = 0
  /\ sweep = [e \in End |-> FALSE]
  /\ wrote = [s \in Sock |-> 0]
  /\ taken = [s \in Sock |-> 0]
  /\ got = [s \in Sock |-> <<>>]
  /\ told = [s \in Sock |-> "none"]
  /\ shut = [s \in Sock |-> "open"]

Handle(e) ==
  \/ HandleSync(e) \/ HandleCnxn(e)
  \/ OpenAccepted(e) \/ OpenRefused(e)
  \/ HandleOkay(e) \/ HandleClse(e) \/ Ignore(e)
  \/ WrteWritten(e) \/ WrteQueued(e) \/ WrteFailed(e)

Event(s) ==
  \/ DrainSome(s) \/ DrainAll(s) \/ DrainLast(s) \/ DrainFailed(s)
  \/ ReadSome(s) \/ ReadEof(s)

Next ==
  \/ LinkUp \/ LinkLost
  \/ \E e \in End : Handle(e) \/ CloseAllSockets(e)
  \/ \E early \in BOOLEAN : ClientOpen(early)
  \/ \E s \in Sock : Event(s)
  \/ \E s \in Sock : ClientWrite(s)
  \/ \E s \in Sock, how \in {"eof", "gone"} : ClientShut(s, how)

Spec == Init /\ [][Next]_vars

(* The event loop and the input thread keep running, and a client keeps    *)
(* reading its descriptor until it is gone: what can be drained is.        *)
Drains(s) == DrainAll(s) \/ DrainLast(s) \/ DrainFailed(s)
Reads(s) == ReadSome(s) \/ ReadEof(s)

FairSpec ==
  /\ Spec
  /\ \A e \in End : WF_vars(Handle(e)) /\ WF_vars(CloseAllSockets(e))
  /\ \A s \in Sock : WF_vars(Drains(s)) /\ WF_vars(Reads(s))

-----------------------------------------------------------------------------
TypeOK ==
  /\ online \in [End -> BOOLEAN]
  /\ nextId \in [End -> 1..MaxId + 1]
  /\ list \in [Sock -> {"none", "local", "closing", "freed"}]
  /\ peer \in [Sock -> BOOLEAN]
  /\ rid \in [Sock -> 0..MaxId]
  /\ pkts \in [Sock -> Seq(Unit)]
  /\ rd \in [Sock -> BOOLEAN]
  /\ wr \in [Sock -> BOOLEAN]
  /\ notify \in [Sock -> BOOLEAN]
  /\ wire \in [End -> Seq(Message)]
  /\ link \in {"up", "down"} /\ links \in 0..MaxLinks
  /\ sweep \in [End -> BOOLEAN]
  /\ wrote \in [Sock -> 0..MaxUnits]
  /\ taken \in [Sock -> 0..MaxUnits]
  /\ \A s \in Sock : taken[s] <= wrote[s]
  /\ got \in [Sock -> Seq(Unit)]
  /\ told \in [Sock -> {"none", "okay", "fail"}]
  /\ shut \in [Sock -> {"open", "eof", "gone"}]

-----------------------------------------------------------------------------
(* Safety.                                                                 *)

Opposite(s) == <<Far(s[1]), rid[s]>>

InFlight(e, cmd, local, remote) ==
  {k \in DOMAIN wire[e] : /\ wire[e][k].cmd = cmd
                          /\ wire[e][k].arg0 = local
                          /\ wire[e][k].arg1 = remote}

(* The streams x -- y both of whose ends are open.                         *)
Joined(x, y) ==
  /\ x[1] # y[1]
  /\ list[x] = "local" /\ peer[x] /\ rid[x] = y[2]
  /\ list[y] = "local" /\ peer[y] /\ rid[y] = x[2]

(* The permissions to send that exist for the direction from x to y: x may *)
(* read, or its WRTE is under way, or y still holds its data, or the OKAY  *)
(* that returns the permission is under way.                               *)
Credits(x, y) ==
  (IF rd[x] THEN 1 ELSE 0)
    + Cardinality(InFlight(x[1], "WRTE", x[2], y[2]))
    + (IF pkts[y] # <<>> THEN 1 ELSE 0)
    + Cardinality(InFlight(y[1], "OKAY", y[2], x[2]))

(* Flow control never lets a second WRTE out before the READY that answers *)
(* the first: handle_packet and both event handlers duplicate no credit.   *)
NoExtraCredit == \A x, y \in Sock : Joined(x, y) => Credits(x, y) <= 1

(* Nor do they lose one while the cable holds: neither direction of an     *)
(* open stream can be left with FDE_READ off and no OKAY to come.          *)
NoLostCredit ==
  link = "up" => \A x, y \in Sock : Joined(x, y) => Credits(x, y) >= 1

(* local_socket_event_func calls s->peer->ready after a drain without a    *)
(* test for NULL: a socket that may drain and go on has a peer.            *)
DrainHasPeer == \A s \in Sock : list[s] = "local" /\ wr[s] => peer[s]

(* The three together: the permission to send is there once, and for one   *)
(* who is there to use it.                                                 *)
CreditKept == NoExtraCredit /\ NoLostCredit /\ DrainHasPeer

(* Ids route: an OKAY or WRTE that meets an open socket comes from the     *)
(* socket it is connected to, never from another or an earlier stream.     *)
NoStrangers ==
  \A e \in End : \A k \in DOMAIN wire[e] :
    LET m == wire[e][k]
        s == <<Far(e), m.arg1>> IN
    m.cmd \in {"OKAY", "WRTE"} /\ Found(Far(e), m.arg1) /\ peer[s]
      => rid[s] = m.arg0

(* No half-open stream: if the far socket of an open one is gone, a CLSE   *)
(* is on its way, or the cable was lost. The exception is a client that    *)
(* was failed before the device's OKAY came: the host sends nothing then.  *)
NoOrphan ==
  \A s \in Sock :
    link = "up" /\ list[s] = "local" /\ peer[s]
      => LET o == Opposite(s) IN
         \/ list[o] = "local"
         \/ told[o] = "fail"
         \/ \E k \in DOMAIN wire[o[1]] : /\ wire[o[1]][k].cmd = "CLSE"
                                         /\ wire[o[1]][k].arg1 = s[2]

-----------------------------------------------------------------------------
(* The multiplexer implements a pair of ordered, bounded pipes per stream. *)

PipeState(s) ==
  CASE list[s] = "none" -> "idle"
    [] list[s] = "local" -> IF peer[s] THEN "open" ELSE "opening"
    [] OTHER -> "closed"

Pipe == INSTANCE StreamPipe
          WITH Window <- MaxPayload, state <- [s \in Sock |-> PipeState(s)],
               mate <- rid, sent <- taken, rcvd <- got

(* Every step of the sockets is a step of the pipes or changes nothing     *)
(* their users can see.                                                    *)
PipeSpec == Pipe!Spec

-----------------------------------------------------------------------------
(* Liveness, under FairSpec.                                               *)

(* A client that asked for a stream does not wait for ever: it is told, or *)
(* its socket is closed with the transport.                                *)
OpenAnswered ==
  \A i \in Id : notify[<<"host", i>>] ~> ~notify[<<"host", i>>]

(* A socket whose client has ended its input is closed, unless it is the   *)
(* device side of a stream whose client was failed early.                  *)
EofCloses ==
  \A s \in Sock :
    list[s] = "local" /\ shut[s] # "open"
      ~> list[s] # "local" \/ (peer[s] /\ told[Opposite(s)] = "fail")

(* Both: a stream comes to its answer and to its end.                      *)
StreamsEnd == OpenAnswered /\ EofCloses

(* Closing is graceful: what the server has read from one client reaches   *)
(* the other, even when the reader of the data closes the stream at once,  *)
(* unless that other client ends its own input or the cable is lost.       *)
Delivered ==
  \A x, y \in Sock :
    x[1] # y[1] /\ rid[x] = y[2] /\ taken[x] > Len(got[y])
      ~> \/ taken[x] = Len(got[y])
         \/ link = "down" \/ shut[y] # "open" \/ told[y] = "fail"
=============================================================================
