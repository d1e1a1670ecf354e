------------------------------ MODULE SimProcess ------------------------------
(***************************************************************************)
(* The simulator process and the debugger connection to it:                *)
(* remote-simulator-client.js, with run, kill and the toggle of the        *)
(* dashboard in simulator.js.                                              *)
(*                                                                         *)
(* All of it runs on the main thread of the browser; what comes in any     *)
(* order are the events: the end of the process, the outcome of an attempt *)
(* to connect, an answer of the debugger server, the close of a            *)
(* connection, timers, and the clicks of the user.  A client object that   *)
(* has closed is garbage and its identity is used again.                   *)
(***************************************************************************)
EXTENDS Naturals, FiniteSets

CONSTANTS
    Clients,    \* identities of DebuggerClient objects
    Ports,      \* TCP ports the system hands out
    Calls,      \* callers of simulator.run that leave a callback
    NoClient, NoPort

(* Assumed of the constants (an instance checks it). *)
SimAssumption == NoClient \notin Clients /\ NoPort \notin Ports /\ IsFiniteSet(Clients)

VARIABLES
    process,     \* "none" (this.process is null), "up", "listening" or "ended" (done not called yet)
    dbgport,     \* the port on the command line of the process
    port,        \* _foundRemoteDebuggerPort
    shuttingDown,
    connecting,  \* _clientConnecting
    connected,   \* _clientConnected
    late,        \* 30 seconds have passed since _startConnectingTime
    remote,      \* the client of _remote
    retries,     \* timers that will call connectDebuggerClient
    client,      \* per client: where it is, and the port it connects to
    waiting,     \* the callers whose callback is a handler of "ready"
    spinning,    \* the toggle of the dashboard waits for a message isRunning
    orderly      \* no run has begun while a connection or a retry of an earlier one was pending

conn == <<port, connecting, connected, retries, client>>
vars == <<process, dbgport, port, shuttingDown, connecting, connected, late, remote, retries,
          client, waiting, spinning, orderly>>

(* "open": connected, listTabs asked; "watching": watchApps asked; *)
(* "closing": the socket is closed, the event "closed" has not been delivered *)
Open == {"open", "watching", "ready"}
Away == {c \in Clients : client[c].at = "closed"}
IsRunning == process # "none"
IsReady == remote # NoClient
Trying == connecting \/ retries > 0
Reaches(c) == process = "listening" /\ dbgport = client[c].port

Init ==
    /\ process = "none" /\ dbgport = NoPort /\ port = NoPort
    /\ shuttingDown = FALSE /\ connecting = FALSE /\ connected = FALSE /\ late = FALSE
    /\ remote = NoClient /\ retries = 0
    /\ client = [c \in Clients |-> [at |-> "closed", port |-> NoPort]]
    /\ waiting = {} /\ spinning = FALSE /\ orderly = TRUE

(* The getter remoteDebuggerPort: the port found before, or a free one. *)
FoundPort == IF port # NoPort THEN {port}
             ELSE {q \in Ports : ~(process = "listening" /\ dbgport = q)}

Engaged == connected \/ connecting

(* connectDebuggerClient, with `left` retry timers after it: nothing when   *)
(* one is connected or connecting, else a new client on the port of before. *)
ConnectDebuggerClient(q, left) ==
    /\ port' = q
    /\ retries' = left
    /\ connected' = connected
    /\ IF Engaged
       THEN UNCHANGED <<connecting, client>>
       ELSE /\ connecting' = TRUE
            /\ \E c \in Away : client' = [client EXCEPT ![c] = [at |-> "trying", port |-> q]]

(* The attempts under way: a closed one becomes a timer, a timer an attempt, *)
(* so only a run adds one.  Bound of the instance: a run begins only while   *)
(* a client object is left for its attempt.                                  *)
Pending == Cardinality(Clients \ Away) + retries
RunBound == Pending < Cardinality(Clients)

(* RemoteSimulatorClient.run, called with no process (simulator.run checks). *)
RemoteRun ==
    /\ RunBound
    /\ process' = "up"
    /\ late' = FALSE
    /\ orderly' = (orderly /\ Pending = 0)
    /\ \E q \in FoundPort : dbgport' = q /\ ConnectDebuggerClient(q, retries)
    /\ UNCHANGED <<shuttingDown, remote>>

(* simulator.run with a callback: at once when ready, on the next event     *)
(* "ready" when the process is starting, after a start when there is none.  *)
Run(k) ==
    /\ k \notin waiting
    /\ waiting' = IF IsRunning /\ IsReady THEN waiting ELSE waiting \cup {k}
    /\ spinning' = spinning
    /\ IF IsRunning
       THEN ~IsReady /\ UNCHANGED <<process, dbgport, shuttingDown, late, remote, orderly, conn>>
       ELSE RemoteRun

(* RemoteSimulatorClient.kill, once per process: the event "kill" closes    *)
(* the connected clients.                                                   *)
Killed(cl) == [c \in Clients |-> IF cl[c].at \in Open THEN [cl[c] EXCEPT !.at = "closing"] ELSE cl[c]]
KillTo(cl) ==
    IF IsRunning /\ ~shuttingDown
    THEN shuttingDown' = TRUE /\ client' = Killed(cl)
    ELSE shuttingDown' = shuttingDown /\ client' = cl

(* simulator.kill: the command line, unload, the last tab closed. *)
Kill ==
    /\ IsRunning /\ ~shuttingDown
    /\ KillTo(client)
    /\ UNCHANGED <<process, dbgport, port, connecting, connected, late, remote, retries,
                   waiting, spinning, orderly>>

(* The toggle of the dashboard: it spins until a message isRunning comes; *)
(* the answer is at once when there is nothing to do.                     *)
ToggleOn ==
    /\ spinning' = ~IsRunning
    /\ waiting' = waiting
    /\ IF IsRunning
       THEN UNCHANGED <<process, dbgport, shuttingDown, late, remote, orderly, conn>>
       ELSE RemoteRun
ToggleOff ==
    /\ spinning' = IsRunning
    /\ KillTo(client)
    /\ UNCHANGED <<process, dbgport, port, connecting, connected, late, remote, retries,
                   waiting, orderly>>

(* The simulator itself: it listens, and it ends, killed or by itself.      *)
ProcessListens ==
    /\ process = "up" /\ ~shuttingDown
    /\ process' = "listening"
    /\ UNCHANGED <<dbgport, shuttingDown, late, remote, waiting, spinning, orderly, conn>>
ProcessEnds ==
    /\ process \in {"up", "listening"}
    /\ process' = "ended"
    /\ UNCHANGED <<dbgport, shuttingDown, late, remote, waiting, spinning, orderly, conn>>

(* The handler done of the process; onExit tells the dashboard. *)
ProcessDone ==
    /\ process = "ended"
    /\ process' = "none" /\ port' = NoPort /\ connecting' = FALSE /\ shuttingDown' = FALSE
    /\ spinning' = FALSE
    /\ UNCHANGED <<dbgport, connected, late, remote, retries, client, waiting, orderly>>

(* The outcome of an attempt: connected (handler of "clientConnected"), or  *)
(* refused, or stuck for a second and closed by the timer.                  *)
ClientConnected(c) ==
    /\ client[c].at = "trying" /\ Reaches(c)
    /\ client' = [client EXCEPT ![c].at = "open"]
    /\ connecting' = FALSE /\ connected' = TRUE
    /\ UNCHANGED <<process, dbgport, port, shuttingDown, late, remote, retries,
                   waiting, spinning, orderly>>
ClientFails(c) ==
    /\ client[c].at = "trying"
    /\ client' = [client EXCEPT ![c].at = "closing"]
    /\ UNCHANGED <<process, dbgport, port, shuttingDown, connecting, connected, late, remote,
                   retries, waiting, spinning, orderly>>

(* The peer of a connected client goes away. *)
ClientDrops(c) ==
    /\ client[c].at \in Open
    /\ client' = [client EXCEPT ![c].at = "closing"]
    /\ UNCHANGED <<process, dbgport, port, shuttingDown, connecting, connected, late, remote,
                   retries, waiting, spinning, orderly>>

(* The answer to listTabs: handler of "clientReady". *)
ClientReady(c) ==
    /\ client[c].at = "open" /\ Reaches(c)
    /\ client' = [client EXCEPT ![c].at = "watching"]
    /\ remote' = c
    /\ UNCHANGED <<process, dbgport, port, shuttingDown, connecting, connected, late, retries,
                   waiting, spinning, orderly>>

UncalledAll == waiting      \* mutant
Uncalled == {}

(* The answer to watchApps: "ready" is emitted, the callbacks that wait are *)
(* called and the dashboard is told.                                        *)
Ready(c) ==
    /\ client[c].at = "watching" /\ Reaches(c)
    /\ client' = [client EXCEPT ![c].at = "ready"]
    /\ waiting' = Uncalled /\ spinning' = FALSE
    /\ UNCHANGED <<process, dbgport, port, shuttingDown, connecting, connected, late, remote,
                   retries, orderly>>

(* The event "closed" of a client: handler of "clientClosed".  Before a     *)
(* connection the attempt is repeated, for 30 seconds; then the process is  *)
(* killed.  After one, _remote is dropped.                                  *)
KeepTryingEver == IsRunning    \* mutant
KeepTrying == ~connected /\ IsRunning
ClientClosed(c) ==
    /\ client[c].at = "closing"
    /\ connecting' = FALSE
    /\ LET cl == [client EXCEPT ![c] = [at |-> "closed", port |-> NoPort]] IN
       IF KeepTrying
       THEN /\ IF late THEN retries' = retries /\ KillTo(cl)
                       ELSE retries' = retries + 1 /\ client' = cl /\ shuttingDown' = shuttingDown
            /\ UNCHANGED <<remote, connected>>
       ELSE /\ remote' = NoClient /\ connected' = FALSE
            /\ client' = cl
            /\ UNCHANGED <<retries, shuttingDown>>
    /\ UNCHANGED <<process, dbgport, port, late, waiting, spinning, orderly>>

RetryTimer ==
    /\ retries > 0
    /\ \E q \in (IF Engaged THEN {port} ELSE FoundPort) :
           ConnectDebuggerClient(q, retries - 1)
    /\ UNCHANGED <<process, dbgport, shuttingDown, late, remote, waiting, spinning, orderly>>

TimePasses ==
    /\ IsRunning /\ ~late
    /\ late' = TRUE
    /\ UNCHANGED <<process, dbgport, shuttingDown, remote, waiting, spinning, orderly, conn>>

Next ==
    \/ \E k \in Calls : Run(k)
    \/ Kill \/ ToggleOn \/ ToggleOff
    \/ ProcessListens \/ ProcessEnds \/ ProcessDone
    \/ \E c \in Clients : \/ ClientConnected(c) \/ ClientFails(c) \/ ClientDrops(c)
                          \/ ClientReady(c) \/ Ready(c) \/ ClientClosed(c)
    \/ RetryTimer \/ TimePasses

(* Timers fire, the system reports the end of a process and of a            *)
(* connection, an attempt ends within its second, a killed process ends,    *)
(* and a server answers or its connection goes.                             *)
Fairness ==
    /\ WF_vars(ProcessDone) /\ WF_vars(RetryTimer) /\ WF_vars(TimePasses)
    /\ WF_vars(shuttingDown /\ ProcessEnds)
    /\ \A c \in Clients :
          /\ WF_vars(ClientConnected(c) \/ ClientFails(c))
          /\ WF_vars(ClientClosed(c))
          /\ WF_vars(ClientReady(c) \/ Ready(c) \/ (~Reaches(c) /\ ClientDrops(c)))

Spec == Init /\ [][Next]_vars /\ Fairness

-----------------------------------------------------------------------------
TypeOK ==
    /\ process \in {"none", "up", "listening", "ended"}
    /\ dbgport \in Ports \cup {NoPort} /\ port \in Ports \cup {NoPort}
    /\ {shuttingDown, connecting, connected, late, spinning, orderly} \subseteq BOOLEAN
    /\ remote \in Clients \cup {NoClient} /\ retries \in 0..Cardinality(Clients)
    /\ client \in [Clients -> [at : Open \cup {"trying", "closing", "closed"},
                               port : Ports \cup {NoPort}]]
    /\ waiting \subseteq Calls

(* As long as every run began with nothing left of the one before, there is *)
(* at most one client, _clientConnecting and _clientConnected say where it  *)
(* is, and isReady answers for a client that has not closed ("we can start  *)
(* using the client", remote-simulator-client.js:74).                       *)
OneChannel ==
    orderly =>
        /\ Pending =< 1
        /\ connected => \E c \in Clients : client[c].at \in Open \cup {"closing"}
        /\ connecting /\ IsRunning => \E c \in Clients : client[c].at \in {"trying", "closing"}
        /\ IsReady => remote \notin Away

(* A running process that has been lost: connected once, and not any more. *)
Lost == IsRunning /\ ~connected /\ ~Trying

(* An attempt to reach the process ends: whoever waits for "ready" is       *)
(* called, or the process ends (killed after 30 seconds of retries, at the  *)
(* latest), or the connection was made and lost.                            *)
RunAnswered == \A k \in Calls :
    (k \in waiting /\ IsRunning /\ Trying) ~> (k \notin waiting \/ ~IsRunning \/ Lost \/ ~orderly)

(* The toggle of the dashboard stops spinning, unless the connection was    *)
(* made and lost or a run began on what was left of the one before.         *)
ToggleSettles == spinning ~> (~spinning \/ Lost \/ ~orderly)

=============================================================================
