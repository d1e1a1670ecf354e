---------------------------- MODULE AdbLifecycle ----------------------------
(***************************************************************************)
(* How the add-on starts adb and takes it down again (addon/lib/adb).      *)
(* adb.js runs on the browser's main thread; every thread of the native    *)
(* library runs inside a chrome worker and reaches adb.js by messages,     *)
(* which arrive in order from one worker and in any order from several.    *)
(* close() is one call of the main thread: while it waits, no message is   *)
(* handled, but the workers go on.                                         *)
(*                                                                         *)
(* Only the messages that change this state are kept.  One device may come *)
(* and go.  The work of the native threads is cut down to when they start, *)
(* leave, and tell one another (AdbTransport and FdEvent have the rest).   *)
(***************************************************************************)
EXTENDS Naturals, Sequences

CONSTANTS
  Platform,    \* the systems the add-on may run on
  Helper,      \* the workers io_thread and util_thread
  MaxFatals    \* bound: calls of fatal() and of MSG("restart-adb")

ASSUME LifecycleAssumption ==
  /\ Platform \subseteq {"linux", "darwin", "winnt"}
  /\ Helper \subseteq {"io", "util"}
  /\ MaxFatals \in Nat

VARIABLES
  platform,    \* the system, fixed at the start
  main,        \* where close() is, or "idle"
  ready, ran,  \* adb.ready and adb.didRunInitially
  shutdown,    \* hasStartedShutdown
  dieFd,       \* server_die_fd is known
  registered,  \* context.__workers
  cleaned,     \* how often cleanupNativeCode has run
  life,        \* each worker and the native code it runs
  terminated,  \* workers whose terminate() was called
  inbox,       \* messages from each worker to the main thread
  device,      \* the USB device: "absent", "present" or "gone"
  offline,     \* SYNC(0,0) was written to the transport's socket
  kills, pump, \* should_kill and is_io_pump_on
  pipe, dead,  \* 0xDEAD was written to the die fd; SHOULD_DIE = 2
  fatals       \* calls of fatal() so far

jsVars == <<ready, ran, shutdown, dieFd, registered, cleaned>>
workerVars == <<life, terminated, inbox>>
nativeVars == <<device, offline, kills, pump, pipe, dead>>
vars == <<platform, main, jsVars, workerVars, nativeVars, fatals>>

Io == {"input", "output"}
Worker == {"server", "poll"} \cup Io \cup Helper
Message == {"register", "initack", "kill-server-fd", "spawn-device-loop",
            "spawn-io", "restart-me", "started"}
Life == {"none", "created", "booted", "inited", "asked", "spawned", "usbwait",
         "listening", "loop", "native", "leaving", "returned"}

TypeOK ==
  /\ platform \in Platform
  /\ main \in {"idle", "killing", "writing", "waiting", "cleaning"}
  /\ ready \in BOOLEAN /\ ran \in BOOLEAN /\ shutdown \in BOOLEAN
  /\ dieFd \in BOOLEAN /\ offline \in BOOLEAN
  /\ pipe \in BOOLEAN /\ dead \in BOOLEAN
  /\ registered \subseteq Worker /\ terminated \subseteq Worker
  /\ cleaned \in Nat
  /\ life \in [Worker -> Life]
  /\ inbox \in [Worker -> Seq(Message)]
  /\ device \in {"absent", "present", "gone"}
  /\ kills \in Nat /\ pump \in {0, 1}
  /\ fatals \in 0..MaxFatals

Init ==
  /\ platform \in Platform
  /\ main = "idle"
  /\ ready = FALSE /\ ran = FALSE /\ shutdown = FALSE /\ dieFd = FALSE
  /\ registered = {} /\ terminated = {} /\ cleaned = 0
  /\ life = [w \in Worker |-> "none"]
  /\ inbox = [w \in Worker |-> <<>>]
  /\ device = "absent" /\ offline = FALSE
  /\ kills = 0 /\ pump = 0
  /\ pipe = FALSE /\ dead = FALSE
  /\ fatals = 0

-----------------------------------------------------------------------------
(* The main thread.                                                        *)

\* new EventedChromeWorker for every worker of ws
Created(ws) == [w \in Worker |-> IF w \in ws THEN "created" ELSE life[w]]

\* The dashboard opens; the worker setter of simulator.js starts adb unless
\* it is ready.  ready is set before the library is loaded, so that a load
\* that fails is not tried again.
Start ==
  /\ main = "idle" /\ ~ready
  /\ ready' = TRUE /\ shutdown' = FALSE
  /\ \/ ran' = TRUE /\ life' = Created({"server"} \cup Helper)
     \/ ran' = FALSE /\ UNCHANGED life
  /\ UNCHANGED <<platform, main, dieFd, registered, cleaned, terminated,
                 inbox, nativeVars, fatals>>

First(w) == Head(inbox[w])

\* The main thread takes a message; those of a terminated worker are dropped.
Take(w, m) ==
  /\ main = "idle" /\ w \notin terminated
  /\ inbox[w] # <<>> /\ First(w) = m
  /\ inbox' = [inbox EXCEPT ![w] = Tail(@)]

\* The task a worker sends first: it joins context.__workers.
HandleRegister(w) ==
  /\ Take(w, "register")
  /\ registered' = registered \cup {w}
  /\ UNCHANGED <<platform, main, ready, ran, shutdown, dieFd, cleaned, life,
                 terminated, nativeVars, fatals>>

HandleInitAck ==
  /\ Take("server", "initack")
  /\ life' = [life EXCEPT !["server"] = "asked"]
  /\ UNCHANGED <<platform, main, jsVars, terminated, nativeVars, fatals>>

HandleKillFd ==
  /\ Take("server", "kill-server-fd")
  /\ dieFd' = TRUE
  /\ UNCHANGED <<platform, main, ready, ran, shutdown, registered, cleaned,
                 life, terminated, nativeVars, fatals>>

HandleSpawnLoop ==
  /\ Take("server", "spawn-device-loop")
  /\ life' = Created({"poll"})
  /\ UNCHANGED <<platform, main, jsVars, terminated, nativeVars, fatals>>

HandleSpawnIo ==
  /\ Take("server", "spawn-io")
  /\ life' = Created(Io)
  /\ UNCHANGED <<platform, main, jsVars, terminated, nativeVars, fatals>>

HandleStarted ==
  /\ Take("server", "started")
  /\ UNCHANGED <<platform, main, jsVars, life, terminated, nativeVars, fatals>>

-----------------------------------------------------------------------------
(* close(), step by step.                                                  *)

ClosingNever == FALSE  \* mutant
Closing == shutdown

\* The head of close() up to kill_threads: the output worker is stopped and
\* its cleanup done for it, except on Windows; should_kill is set, except on
\* Linux.
BeginClose ==
  /\ shutdown' = TRUE
  /\ main' = "killing"
  /\ IF life["output"] # "none" /\ platform # "winnt"
     THEN terminated' = terminated \cup {"output"} /\ offline' = TRUE
     ELSE UNCHANGED <<terminated, offline>>
  /\ kills' = IF platform = "linux" THEN kills ELSE 1
  /\ UNCHANGED <<platform, ready, ran, dieFd, registered, cleaned, life,
                 device, pump, pipe, dead, fatals>>

\* The add-on is unloaded.
Unload ==
  /\ main = "idle" /\ ran /\ ~Closing
  /\ BeginClose
  /\ UNCHANGED inbox

\* A worker asks for a restart.  restart() closes adb and goes no further:
\* its next line calls debug, which adb.js does not define.
HandleRestart(w) ==
  /\ Take(w, "restart-me")
  /\ IF Closing
     THEN UNCHANGED <<platform, main, jsVars, life, terminated, nativeVars,
                      fatals>>
     ELSE BeginClose

WantedOne == 1 + pump  \* mutant
\* On Windows kill_threads waits for the poll thread and, while the pump is
\* on, for the input thread.  The wait polls: adb_cond_wait is handed the
\* address of the event and returns at once.
Wanted == 2 + pump

KillThreads ==
  /\ main = "killing"
  /\ platform = "winnt" => kills >= Wanted
  /\ main' = "writing"
  /\ UNCHANGED <<platform, jsVars, workerVars, nativeVars, fatals>>

\* writeFully(server_die_fd): with no descriptor yet the call throws and
\* close() ends here.
WriteDie ==
  /\ main = "writing"
  /\ main' = IF dieFd THEN "waiting" ELSE "idle"
  /\ pipe' = dieFd
  /\ UNCHANGED <<platform, jsVars, workerVars, device, offline, kills, pump,
                 dead, fatals>>

\* waitForServerDeath: should_die_fdevent waits on Windows only.
WaitServer ==
  /\ main = "waiting"
  /\ platform = "winnt" => dead
  /\ main' = "cleaning"
  /\ UNCHANGED <<platform, jsVars, workerVars, nativeVars, fatals>>

DoomedHelpers == registered \cap Helper  \* mutant
Doomed == registered

\* cleanupNativeCode, and terminate() for context.__workers.
Cleanup ==
  /\ main = "cleaning"
  /\ main' = "idle"
  /\ cleaned' = cleaned + 1
  /\ terminated' = terminated \cup Doomed
  /\ UNCHANGED <<platform, ready, ran, shutdown, dieFd, registered, life,
                 inbox, nativeVars, fatals>>

-----------------------------------------------------------------------------
(* The workers and the native threads they run.                            *)

Send(w, ms) == inbox' = [inbox EXCEPT ![w] = @ \o ms]
Becomes(w, l) == life' = [life EXCEPT ![w] = l]

\* The script of a worker sets up its EventedChromeWorker.
Boot(w) ==
  /\ life[w] = "created" /\ w \notin terminated
  /\ Becomes(w, "booted")
  /\ Send(w, <<"register">>)
  /\ UNCHANGED <<platform, main, jsVars, terminated, nativeVars, fatals>>

ServerInit ==
  /\ life["server"] = "booted" /\ "server" \notin terminated
  /\ Becomes("server", "inited")
  /\ Send("server", <<"initack">>)
  /\ UNCHANGED <<platform, main, jsVars, terminated, nativeVars, fatals>>

\* "start": the die descriptor is sent, then server_thread runs usb_init,
\* which asks for the poll worker, except on Linux.
ServerStart ==
  /\ life["server"] = "asked" /\ "server" \notin terminated
  /\ Becomes("server", IF platform = "darwin" THEN "spawned" ELSE "listening")
  /\ Send("server", IF platform = "linux" THEN <<"kill-server-fd">>
                    ELSE <<"kill-server-fd", "spawn-device-loop">>)
  /\ UNCHANGED <<platform, main, jsVars, terminated, nativeVars, fatals>>

\* usb_init of usb_osx.cpp waits for the poll thread; a signal that came
\* before the wait is lost.
UsbWait ==
  /\ life["server"] = "spawned"
  /\ Becomes("server", "usbwait")
  /\ UNCHANGED <<platform, main, jsVars, terminated, inbox, nativeVars, fatals>>

\* The poll worker enters usb_monitor.
PollRun ==
  /\ life["poll"] = "booted" /\ "poll" \notin terminated
  /\ life' = [life EXCEPT !["poll"] = "native",
                !["server"] = IF @ = "usbwait" THEN "listening" ELSE @]
  /\ UNCHANGED <<platform, main, jsVars, terminated, inbox, nativeVars, fatals>>

\* install_listener succeeds, or the port is in use and server_thread returns.
Listen ==
  /\ life["server"] = "listening"
  /\ \/ Becomes("server", "loop") /\ UNCHANGED inbox
     \/ Becomes("server", "returned") /\ Send("server", <<"started">>)
  /\ UNCHANGED <<platform, main, jsVars, terminated, nativeVars, fatals>>

DieSeenNever == FALSE  \* mutant
DieSeen == pipe

\* fdevent_loop reads 0xDEAD and returns.
LoopEnds ==
  /\ life["server"] = "loop" /\ DieSeen
  /\ dead' = TRUE
  /\ Becomes("server", "leaving")
  /\ UNCHANGED <<platform, main, jsVars, terminated, inbox, device, offline,
                 kills, pump, pipe, fatals>>

\* The rest of server_thread, and the worker's answer to "start".
ServerEnds ==
  /\ life["server"] = "leaving"
  /\ Becomes("server", "returned")
  /\ Send("server", <<"started">>)
  /\ UNCHANGED <<platform, main, jsVars, terminated, nativeVars, fatals>>

NotifiedNot == kills  \* mutant
NotifiedLess == kills - 2  \* mutant
\* notify_should_kill counts only once the kill has begun.
Notified == IF kills = 0 THEN 0 ELSE kills + 1

PollEnds ==
  /\ life["poll"] = "native" /\ kills > 0
  /\ Becomes("poll", "returned")
  /\ kills' = IF platform = "winnt" THEN Notified ELSE kills
  /\ UNCHANGED <<platform, main, jsVars, terminated, inbox, device, offline,
                 pump, pipe, dead, fatals>>

\* A device is found and registered: the server asks for its two workers.
Plug ==
  /\ life["server"] = "loop" /\ device = "absent"
  /\ platform = "linux" \/ life["poll"] = "native"
  /\ device' = "present"
  /\ Send("server", <<"spawn-io">>)
  /\ UNCHANGED <<platform, main, jsVars, life, terminated, offline, kills,
                 pump, pipe, dead, fatals>>

Unplug ==
  /\ device = "present"
  /\ device' = "gone"
  /\ UNCHANGED <<platform, main, jsVars, workerVars, offline, kills, pump,
                 pipe, dead, fatals>>

OutputRun ==
  /\ life["output"] = "booted" /\ "output" \notin terminated
  /\ Becomes("output", "native")
  /\ pump' = 1
  /\ UNCHANGED <<platform, main, jsVars, terminated, inbox, device, offline,
                 kills, pipe, dead, fatals>>

\* A read of the device fails; the thread writes SYNC(0,0) on its way out.
OutputEnds ==
  /\ life["output"] = "native"
  /\ device = "gone" \/ offline \/ (platform = "winnt" /\ kills > 0)
  /\ Becomes("output", "returned")
  /\ offline' = TRUE
  /\ UNCHANGED <<platform, main, jsVars, terminated, inbox, device, kills,
                 pump, pipe, dead, fatals>>

InputRun ==
  /\ life["input"] = "booted" /\ "input" \notin terminated
  /\ Becomes("input", "native")
  /\ UNCHANGED <<platform, main, jsVars, terminated, inbox, nativeVars, fatals>>

\* The input thread reads SYNC(0,0) and tells kill_threads ...
InputEnds ==
  /\ life["input"] = "native" /\ offline
  /\ Becomes("input", "leaving")
  /\ kills' = IF platform = "winnt" THEN Notified ELSE kills
  /\ UNCHANGED <<platform, main, jsVars, terminated, inbox, device, offline,
                 pump, pipe, dead, fatals>>

\* ... and only then takes the pump off.
InputGone ==
  /\ life["input"] = "leaving"
  /\ Becomes("input", "returned")
  /\ pump' = IF platform = "winnt" THEN 0 ELSE pump
  /\ UNCHANGED <<platform, main, jsVars, terminated, inbox, device, offline,
                 kills, pipe, dead, fatals>>

\* fatal() in a native thread; the thread goes on.
Fatal(w) ==
  /\ life[w] \in {"listening", "loop", "native"}
  /\ fatals < MaxFatals
  /\ fatals' = fatals + 1
  /\ Send(w, <<"restart-me">>)
  /\ UNCHANGED <<platform, main, jsVars, life, terminated, nativeVars>>

Handle ==
  \/ \E w \in Worker : HandleRegister(w) \/ HandleRestart(w)
  \/ HandleInitAck \/ HandleKillFd \/ HandleSpawnLoop \/ HandleSpawnIo
  \/ HandleStarted

CloseStep == KillThreads \/ WriteDie \/ WaitServer \/ Cleanup

Native ==
  \/ UsbWait \/ Listen \/ LoopEnds \/ ServerEnds \/ PollEnds
  \/ OutputEnds \/ InputEnds \/ InputGone

Script ==
  \/ \E w \in Worker : Boot(w)
  \/ ServerInit \/ ServerStart \/ PollRun \/ OutputRun \/ InputRun

Next ==
  \/ Start \/ Unload \/ Handle \/ CloseStep \/ Native \/ Script
  \/ Plug \/ Unplug
  \/ \E w \in Worker : Fatal(w)

Spec == Init /\ [][Next]_vars

\* Threads that can run do; what the user does, a device does or fatal()
\* does need not happen.
Fairness ==
  /\ WF_vars(CloseStep) /\ WF_vars(Handle)
  /\ WF_vars(LoopEnds \/ ServerEnds) /\ WF_vars(PollEnds)
  /\ WF_vars(OutputEnds) /\ WF_vars(InputEnds \/ InputGone)
  /\ WF_vars(PollRun) /\ WF_vars(InputRun)
  /\ \A w \in Worker : WF_vars(Boot(w))

FairSpec == Spec /\ Fairness

-----------------------------------------------------------------------------
(* Properties.                                                             *)

\* close() may be asked for by the unloading add-on and by every worker that
\* met a fatal error, also late, by workers the first close did not know:
\* the library is cleaned up and unloaded at most once (hasStartedShutdown).
CleanupOnce == cleaned <= 1

\* What the waits of close() give on Windows: kill_threads returns only after
\* the poll thread or the input thread has left, and should_die_fdevent only
\* after the event loop has.
Awaited ==
  platform = "winnt" =>
    /\ main \in {"writing", "waiting", "cleaning"} =>
         \E w \in {"poll", "input"} : life[w] = "returned"
    /\ main = "cleaning" => life["server"] \in {"leaving", "returned"}

\* kill_threads waits "for both the device loop's and the input_thread's
\* death": the poll thread is out of the library when it is cleaned up.
QuietCleanup ==
  platform = "winnt" /\ main = "cleaning" => life["poll"] = "returned"

\* Once adb is closed nothing it left behind can bring a worker to life:
\* close() gets that far only with the die descriptor, and then the server's
\* worker is among those it terminates.
NothingAfterClose ==
  [][cleaned > 0 => \A w \in Worker : life[w] = "none" => life'[w] = "none"]_vars

\* A server that is in its event loop when it is told to die leaves the loop.
DieObeyed == (pipe /\ life["server"] = "loop") ~> (life["server"] = "returned")

\* adb is up: the server loops and, but for Linux, the poll worker is there.
Up ==
  /\ life["server"] = "loop"
  /\ platform = "linux" \/ life["poll"] \in {"created", "booted", "native"}

\* close() returns when it is called with adb up, whatever the device does
\* meanwhile.  (Called before the poll worker exists, or after the port was
\* found in use, it waits for ever on Windows.)
CloseReturnsWhenUp == (main = "killing" /\ Up) ~> (main = "idle")

\* Both: what close asks for is done, and close returns.
CloseEnds == DieObeyed /\ CloseReturnsWhenUp
=============================================================================
