------------------------- MODULE AdbLifecycleProofs -------------------------
(***************************************************************************)
(* Theorems about what MCLifecycle runs together.                          *)
(*                                                                         *)
(* AdbLifecycle: the library is cleaned up at most once; a finished        *)
(* close() leaves nothing that could spawn a worker; and what the waits of *)
(* close() give on Windows.  The second needs to know why the server's     *)
(* worker is always among those close() terminates: its first message is   *)
(* the one that registers it, so it is registered before the descriptor    *)
(* close() cannot do without arrives.  The last counts the notices behind  *)
(* should_kill.                                                            *)
(*                                                                         *)
(* SimProcess (Sim): an attempt under way, a connection, a closed socket   *)
(* and a timer are one and the same attempt in turn (Channel).             *)
(*                                                                         *)
(* WorkerMessages (Messages): a request is in one channel only, its slug   *)
(* finds the callback of its query (Queued); the pieces on their way and   *)
(* those in the result are together what was read (Whole), and the answer  *)
(* comes behind them (PiecesFirst).                                        *)
(***************************************************************************)
EXTENDS MCLifecycle, FiniteSetTheorems, TLAPS

\* Before the start there is nothing to close.
NotStarted ==
  ~ready =>
    /\ main = "idle" /\ cleaned = 0 /\ ~ran
    /\ \A w \in Worker : life[w] = "none" /\ inbox[w] = <<>>

\* close() runs, or has run, only under hasStartedShutdown, and that flag is
\* cleared only by a start, which adb.ready lets happen once.
ClosedOnce ==
  /\ cleaned \in {0, 1}
  /\ main # "idle" => cleaned = 0
  /\ main # "idle" \/ cleaned > 0 => shutdown

\* Until the server's worker is registered its first message registers it.
RegistersFirst ==
  "server" \notin registered =>
    IF life["server"] \in {"none", "created"}
    THEN inbox["server"] = <<>>
    ELSE inbox["server"] # <<>> /\ Head(inbox["server"]) = "register"

\* What close() needs to get to its end.
KnowsServer ==
  /\ dieFd => "server" \in registered
  /\ main \in {"waiting", "cleaning"} => dieFd
  /\ cleaned > 0 => "server" \in terminated

IInv == TypeOK /\ NotStarted /\ ClosedOnce /\ RegistersFirst /\ KnowsServer

LEMMA Workers == {"server", "poll", "input", "output"} \subseteq Worker
BY DEF Worker, Io

LEMMA InitHolds == ASSUME Init PROVE IInv
<1>1. TypeOK
  <2>1. life \in [Worker -> Life] BY DEF Init, Life
  <2>2. inbox \in [Worker -> Seq(Message)] BY DEF Init
  <2>3. fatals \in 0..MaxFatals BY LifecycleAssumption DEF Init
  <2> QED BY <2>1, <2>2, <2>3 DEF Init, TypeOK
<1>2. NotStarted /\ ClosedOnce BY DEF Init, NotStarted, ClosedOnce
<1>3. RegistersFirst BY Workers DEF Init, RegistersFirst
<1>4. KnowsServer BY DEF Init, KnowsServer
<1> QED BY <1>1, <1>2, <1>3, <1>4 DEF IInv

LEMMA TakeTypes ==
  ASSUME TypeOK, NEW w \in Worker, NEW m, Take(w, m)
  PROVE  inbox' \in [Worker -> Seq(Message)]
BY DEF TypeOK, Take, First

LEMMA SendTypes ==
  ASSUME TypeOK, NEW w \in Worker, NEW ms \in Seq(Message), Send(w, ms)
  PROVE  inbox' \in [Worker -> Seq(Message)]
BY DEF TypeOK, Send

LEMMA SendOne ==
  ASSUME TypeOK, NEW w \in Worker, NEW m \in Message, Send(w, <<m>>)
  PROVE  inbox' \in [Worker -> Seq(Message)]
<1>1. <<m>> \in Seq(Message) OBVIOUS
<1> QED BY <1>1, SendTypes

LEMMA BecomesTypes ==
  ASSUME TypeOK, NEW w \in Worker, NEW l \in Life, Becomes(w, l)
  PROVE  life' \in [Worker -> Life]
BY DEF TypeOK, Becomes

LEMMA TypeNext == ASSUME TypeOK, Next PROVE TypeOK'
<1>0. /\ {"server", "poll", "input", "output"} \subseteq Worker
      /\ MaxFatals \in Nat
      /\ {"created", "booted", "inited", "asked", "spawned", "usbwait",
          "listening", "loop", "native", "leaving", "returned"} \subseteq Life
      /\ {"register", "initack", "kill-server-fd", "spawn-device-loop",
          "spawn-io", "restart-me", "started"} \subseteq Message
  BY Workers, LifecycleAssumption DEF Life, Message
<1>1. CASE Start BY <1>0, <1>1 DEF Start, Created, TypeOK, nativeVars
<1>2. CASE Unload BY <1>0, <1>2 DEF Unload, BeginClose, TypeOK
<1>3. CASE Handle
  <2>1. ASSUME NEW w \in Worker, HandleRegister(w) PROVE TypeOK'
    BY <1>0, <2>1, TakeTypes DEF HandleRegister, Take, TypeOK, nativeVars
  <2>2. ASSUME NEW w \in Worker, HandleRestart(w) PROVE TypeOK'
    <3>1. inbox' \in [Worker -> Seq(Message)]
      BY <2>2, TakeTypes DEF HandleRestart
    <3>2. CASE BeginClose BY <1>0, <3>1, <3>2 DEF BeginClose, TypeOK
    <3>3. CASE UNCHANGED <<platform, main, jsVars, life, terminated,
                           nativeVars, fatals>>
      BY <3>1, <3>3 DEF TypeOK, jsVars, nativeVars
    <3> QED BY <2>2, <3>2, <3>3 DEF HandleRestart
  <2>3. CASE HandleInitAck
    BY <1>0, <2>3, TakeTypes DEF HandleInitAck, Take, TypeOK, jsVars, nativeVars
  <2>4. CASE HandleKillFd
    BY <1>0, <2>4, TakeTypes DEF HandleKillFd, Take, TypeOK, nativeVars
  <2>5. CASE HandleSpawnLoop
    BY <1>0, <2>5, TakeTypes
    DEF HandleSpawnLoop, Created, Take, TypeOK, jsVars, nativeVars
  <2>6. CASE HandleSpawnIo
    BY <1>0, <2>6, TakeTypes
    DEF HandleSpawnIo, Created, Take, TypeOK, jsVars, nativeVars
  <2>7. CASE HandleStarted
    BY <1>0, <2>7, TakeTypes DEF HandleStarted, Take, TypeOK, jsVars, nativeVars
  <2> QED BY <1>3, <2>1, <2>2, <2>3, <2>4, <2>5, <2>6, <2>7 DEF Handle
<1>4. CASE CloseStep
  BY <1>4 DEF CloseStep, KillThreads, WriteDie, WaitServer, Cleanup, Doomed,
     TypeOK, jsVars, workerVars, nativeVars
<1>5. CASE Native
  <2>1. CASE UsbWait
    BY <1>0, <2>1, BecomesTypes DEF UsbWait, TypeOK, jsVars, nativeVars
  <2>2. CASE Listen
    <3>1. inbox' \in [Worker -> Seq(Message)]
      BY <1>0, <2>2, SendOne, BecomesTypes DEF Listen, TypeOK
    <3> QED BY <1>0, <2>2, <3>1, BecomesTypes DEF Listen, TypeOK, jsVars, nativeVars
  <2>3. CASE LoopEnds
    BY <1>0, <2>3, BecomesTypes DEF LoopEnds, TypeOK, jsVars
  <2>4. CASE ServerEnds
    <3>1. inbox' \in [Worker -> Seq(Message)]
      BY <1>0, <2>4, SendOne DEF ServerEnds
    <3> QED BY <1>0, <2>4, <3>1, BecomesTypes
        DEF ServerEnds, TypeOK, jsVars, nativeVars
  <2>5. CASE PollEnds
    BY <1>0, <2>5, BecomesTypes DEF PollEnds, Notified, TypeOK, jsVars
  <2>6. CASE OutputEnds
    BY <1>0, <2>6, BecomesTypes DEF OutputEnds, TypeOK, jsVars
  <2>7. CASE InputEnds
    BY <1>0, <2>7, BecomesTypes DEF InputEnds, Notified, TypeOK, jsVars
  <2>8. CASE InputGone
    BY <1>0, <2>8, BecomesTypes DEF InputGone, TypeOK, jsVars
  <2> QED BY <1>5, <2>1, <2>2, <2>3, <2>4, <2>5, <2>6, <2>7, <2>8 DEF Native
<1>6. CASE Script
  <2>1. ASSUME NEW w \in Worker, Boot(w) PROVE TypeOK'
    <3>1. inbox' \in [Worker -> Seq(Message)]
      BY <1>0, <2>1, SendOne DEF Boot
    <3> QED BY <1>0, <2>1, <3>1, BecomesTypes DEF Boot, TypeOK, jsVars, nativeVars
  <2>2. CASE ServerInit
    <3>1. inbox' \in [Worker -> Seq(Message)]
      BY <1>0, <2>2, SendOne DEF ServerInit
    <3> QED BY <1>0, <2>2, <3>1, BecomesTypes
        DEF ServerInit, TypeOK, jsVars, nativeVars
  <2>3. CASE ServerStart
    <3>1. /\ <<"kill-server-fd">> \in Seq(Message)
          /\ <<"kill-server-fd", "spawn-device-loop">> \in Seq(Message)
      BY <1>0
    <3>2. inbox' \in [Worker -> Seq(Message)]
      BY <1>0, <2>3, <3>1, SendTypes DEF ServerStart
    <3>3. life' \in [Worker -> Life] BY <1>0, <2>3, BecomesTypes DEF ServerStart
    <3>4. UNCHANGED <<platform, main, jsVars, terminated, nativeVars, fatals>>
      BY <2>3 DEF ServerStart
    <3>5. UNCHANGED <<platform, main, ready, ran, shutdown, dieFd, registered, cleaned,
                      terminated, device, offline, kills, pump, pipe, dead, fatals>>
      BY <3>4 DEF jsVars, nativeVars
    <3> QED BY <3>2, <3>3, <3>5 DEF TypeOK
  <2>4. CASE PollRun
    <3>1. life' \in [Worker -> Life]
      <4>1. PICK l \in Life : life' = [life EXCEPT !["poll"] = "native", !["server"] = l]
        BY <1>0, <2>4 DEF PollRun, TypeOK
      <4> QED BY <1>0, <4>1 DEF TypeOK
    <3>2. UNCHANGED <<platform, main, ready, ran, shutdown, dieFd, registered, cleaned,
                      terminated, inbox, device, offline, kills, pump, pipe, dead, fatals>>
      BY <2>4 DEF PollRun, jsVars, nativeVars
    <3> QED BY <3>1, <3>2 DEF TypeOK
  <2>5. CASE OutputRun
    BY <1>0, <2>5, BecomesTypes DEF OutputRun, TypeOK, jsVars
  <2>6. CASE InputRun
    BY <1>0, <2>6, BecomesTypes DEF InputRun, TypeOK, jsVars, nativeVars
  <2> QED BY <1>6, <2>1, <2>2, <2>3, <2>4, <2>5, <2>6 DEF Script
<1>7. CASE Plug
  <2>1. inbox' \in [Worker -> Seq(Message)]
    BY <1>0, <1>7, SendOne DEF Plug
  <2> QED BY <1>7, <2>1 DEF Plug, TypeOK, jsVars
<1>8. CASE Unplug BY <1>8 DEF Unplug, TypeOK, jsVars, workerVars
<1>9. ASSUME NEW w \in Worker, Fatal(w) PROVE TypeOK'
  <2>1. inbox' \in [Worker -> Seq(Message)]
    BY <1>0, <1>9, SendOne DEF Fatal
  <2> QED BY <1>0, <1>9, <2>1 DEF Fatal, TypeOK, jsVars, nativeVars
<1> QED BY <1>1, <1>2, <1>3, <1>4, <1>5, <1>6, <1>7, <1>8, <1>9 DEF Next

\* Every value of the constants: any platforms, helpers and fatal errors.
THEOREM TypeCorrect == Spec => []TypeOK
<1>1. Init => TypeOK BY InitHolds DEF IInv
<1>2. TypeOK /\ [Next]_vars => TypeOK'
  <2>1. CASE Next BY <2>1, TypeNext
  <2>2. CASE UNCHANGED vars
    BY <2>2 DEF vars, jsVars, workerVars, nativeVars, TypeOK
  <2> QED BY <2>1, <2>2
<1> QED BY <1>1, <1>2, PTL DEF Spec

-----------------------------------------------------------------------------

\* Only a start can happen before the start.
LEMMA NotStartedNext == ASSUME IInv, Next PROVE NotStarted'
<1>0. TypeOK /\ NotStarted BY DEF IInv
<1>1. CASE ready
  <2>1. \A w \in Worker : HandleRestart(w) => ready'
    BY <1>1 DEF HandleRestart, BeginClose, jsVars
  <2>2. Handle => ready'
    BY <1>1, <2>1 DEF Handle, HandleRegister, HandleInitAck, HandleKillFd,
       HandleSpawnLoop, HandleSpawnIo, HandleStarted, jsVars
  <2>3. CloseStep \/ Unload \/ Start => ready'
    BY <1>1 DEF CloseStep, KillThreads, WriteDie, WaitServer, Cleanup, Unload,
       BeginClose, Start, jsVars
  <2>4. Native => ready'
    BY <1>1 DEF Native, UsbWait, Listen, LoopEnds, ServerEnds, PollEnds,
       OutputEnds, InputEnds, InputGone, jsVars
  <2>5. Script => ready'
    BY <1>1 DEF Script, Boot, ServerInit, ServerStart, PollRun, OutputRun,
       InputRun, jsVars
  <2>6. Plug \/ Unplug \/ (\E w \in Worker : Fatal(w)) => ready'
    BY <1>1 DEF Plug, Unplug, Fatal, jsVars
  <2> QED BY <2>2, <2>3, <2>4, <2>5, <2>6 DEF Next, NotStarted
<1>2. CASE ~ready
  <2>1. /\ main = "idle" /\ ~ran
        /\ \A w \in Worker : life[w] = "none" /\ inbox[w] = <<>>
    BY <1>0, <1>2 DEF NotStarted
  <2>2. CASE Unplug
    BY <1>0, <2>1, <2>2 DEF Unplug, NotStarted, jsVars, workerVars
  <2>3. ~Handle
    BY <2>1, Workers DEF Handle, HandleRegister, HandleRestart, HandleInitAck,
       HandleKillFd, HandleSpawnLoop, HandleSpawnIo, HandleStarted, Take
  <2>4. ~CloseStep /\ ~Unload
    BY <2>1 DEF CloseStep, KillThreads, WriteDie, WaitServer, Cleanup, Unload
  <2>5. ~Native
    BY <2>1, Workers DEF Native, UsbWait, Listen, LoopEnds, ServerEnds,
       PollEnds, OutputEnds, InputEnds, InputGone
  <2>6. ~Script
    BY <2>1, Workers DEF Script, Boot, ServerInit, ServerStart, PollRun,
       OutputRun, InputRun
  <2>7. ~Plug /\ \A w \in Worker : ~Fatal(w)
    BY <2>1, Workers DEF Plug, Fatal
  <2>8. Start => ready' BY DEF Start
  <2> QED BY <2>2, <2>3, <2>4, <2>5, <2>6, <2>7, <2>8 DEF Next, NotStarted
<1> QED BY <1>1, <1>2

LEMMA ClosedOnceNext == ASSUME IInv, Next PROVE ClosedOnce'
<1>0. TypeOK /\ NotStarted /\ ClosedOnce BY DEF IInv
<1>1. CASE Start BY <1>0, <1>1 DEF Start, NotStarted, ClosedOnce, nativeVars
<1>2. CASE BeginClose /\ ~Closing /\ main = "idle"
  BY <1>0, <1>2 DEF BeginClose, Closing, ClosedOnce, TypeOK
<1>3. CASE Cleanup BY <1>0, <1>3 DEF Cleanup, ClosedOnce
<1>4. CASE KillThreads \/ WriteDie \/ WaitServer
  BY <1>0, <1>4 DEF KillThreads, WriteDie, WaitServer, ClosedOnce, jsVars
<1>5. CASE UNCHANGED <<main, ready, shutdown, cleaned>>
  BY <1>0, <1>5 DEF ClosedOnce
<1>6. CASE Handle
  <2>1. ASSUME NEW w \in Worker, HandleRestart(w) PROVE ClosedOnce'
    BY <1>2, <1>5, <2>1 DEF HandleRestart, Take, jsVars
  <2>2. ASSUME NEW w \in Worker, HandleRegister(w) PROVE ClosedOnce'
    BY <1>5, <2>2 DEF HandleRegister
  <2> QED BY <1>5, <1>6, <2>1, <2>2
      DEF Handle, HandleInitAck, HandleKillFd, HandleSpawnLoop, HandleSpawnIo,
          HandleStarted, jsVars
<1>7. CASE Native
  BY <1>5, <1>7 DEF Native, UsbWait, Listen, LoopEnds, ServerEnds, PollEnds,
     OutputEnds, InputEnds, InputGone, jsVars
<1>8. CASE Script
  BY <1>5, <1>8 DEF Script, Boot, ServerInit, ServerStart, PollRun, OutputRun,
     InputRun, jsVars
<1>9. CASE Plug \/ Unplug \/ \E w \in Worker : Fatal(w)
  BY <1>5, <1>9 DEF Plug, Unplug, Fatal, jsVars
<1> QED BY <1>1, <1>2, <1>3, <1>4, <1>6, <1>7, <1>8, <1>9
    DEF Next, Unload, CloseStep

\* A message other than "register" is taken only from a registered server.
LEMMA TakenAfter ==
  ASSUME IInv, NEW m, m # "register", Take("server", m)
  PROVE  "server" \in registered
BY DEF IInv, RegistersFirst, Take, First

\* What the server's worker sends goes behind its first message.
LEMMA SendKeepsFirst ==
  ASSUME IInv, NEW w \in Worker, NEW ms \in Seq(Message), Send(w, ms),
         inbox["server"] # <<>>
  PROVE  inbox'["server"] # <<>> /\ Head(inbox'["server"]) = Head(inbox["server"])
<1>1. inbox["server"] \in Seq(Message) BY Workers DEF IInv, TypeOK
<1>2. CASE w = "server"
  <2>1. inbox'["server"] = inbox["server"] \o ms
    BY <1>2, Workers DEF IInv, TypeOK, Send
  <2> QED BY <1>1, <2>1
<1>3. CASE w # "server" BY <1>3 DEF IInv, TypeOK, Send
<1> QED BY <1>2, <1>3

\* A step that leaves the server's first message where it is.
LEMMA FirstKept ==
  ASSUME IInv, registered' = registered,
         life["server"] \notin {"none", "created"},
         life'["server"] \notin {"none", "created"},
         inbox["server"] # <<>> =>
           /\ inbox'["server"] # <<>>
           /\ Head(inbox'["server"]) = Head(inbox["server"])
  PROVE  RegistersFirst'
BY DEF IInv, RegistersFirst

\* A step of another worker.
LEMMA NotTheServers ==
  ASSUME IInv, registered' = registered,
         life'["server"] = life["server"], inbox'["server"] = inbox["server"]
  PROVE  RegistersFirst'
BY DEF IInv, RegistersFirst

LEMMA HandleKeepsFirst == ASSUME IInv, Handle PROVE RegistersFirst'
<1>0. TypeOK /\ RegistersFirst /\ "server" \in Worker
  BY Workers DEF IInv
<1>1. ASSUME NEW w \in Worker, HandleRegister(w) PROVE RegistersFirst'
  <2>1. CASE w = "server" BY <1>1, <2>1 DEF HandleRegister, RegistersFirst
  <2>2. CASE w # "server"
    BY <1>0, <1>1, <2>2 DEF HandleRegister, Take, TypeOK, RegistersFirst
  <2> QED BY <2>1, <2>2
<1>2. ASSUME NEW w \in Worker, HandleRestart(w) PROVE RegistersFirst'
  <2>0. registered' = registered /\ life' = life /\ Take(w, "restart-me")
    BY <1>2 DEF HandleRestart, BeginClose, jsVars
  <2>1. CASE w = "server"
    BY <2>0, <2>1, TakenAfter DEF RegistersFirst
  <2>2. CASE w # "server"
    BY <1>0, <2>0, <2>2, NotTheServers DEF Take, TypeOK
  <2> QED BY <2>1, <2>2
<1>3. ASSUME NEW m \in Message \ {"register"}, Take("server", m),
             registered' = registered
      PROVE  RegistersFirst'
  BY <1>3, TakenAfter DEF RegistersFirst
<1> QED BY <1>1, <1>2, <1>3
    DEF Handle, HandleInitAck, HandleKillFd, HandleSpawnLoop, HandleSpawnIo,
        HandleStarted, jsVars, Message

LEMMA SendersKeepFirst ==
  ASSUME IInv, NEW w \in Worker, NEW ms \in Seq(Message), Send(w, ms),
         registered' = registered, life[w] \notin {"none", "created"},
         w = "server" => life'["server"] \notin {"none", "created"},
         w # "server" => life'["server"] = life["server"]
  PROVE  RegistersFirst'
<1>1. CASE w = "server" BY <1>1, SendKeepsFirst, FirstKept
<1>2. CASE w # "server"
  <2>1. inbox'["server"] = inbox["server"]
    BY <1>2, Workers DEF IInv, TypeOK, Send
  <2> QED BY <1>2, <2>1, NotTheServers
<1> QED BY <1>1, <1>2

\* A native thread or a script that changes its own stage and sends nothing.
LEMMA StagesKeepFirst ==
  ASSUME IInv, NEW w \in Worker, NEW l \in Life \ {"none", "created"},
         Becomes(w, l), life[w] \notin {"none", "created"},
         registered' = registered, inbox' = inbox
  PROVE  RegistersFirst'
<1>1. CASE w = "server"
  <2>1. life'["server"] = l BY <1>1, Workers DEF IInv, TypeOK, Becomes
  <2> QED BY <1>1, <2>1, FirstKept
<1>2. CASE w # "server"
  <2>1. life'["server"] = life["server"]
    BY <1>2, Workers DEF IInv, TypeOK, Becomes
  <2> QED BY <2>1, NotTheServers
<1> QED BY <1>1, <1>2

LEMMA NativeKeepsFirst == ASSUME IInv, Native PROVE RegistersFirst'
<1>0. /\ {"server", "poll", "input", "output"} \subseteq Worker
      /\ {"usbwait", "listening", "loop", "leaving", "returned"}
            \subseteq Life \ {"none", "created"}
      /\ <<"started">> \in Seq(Message)
  BY Workers DEF Life, Message
<1>1. CASE UsbWait
  BY <1>0, <1>1, StagesKeepFirst DEF UsbWait, jsVars
<1>2. CASE Listen
  <2>1. CASE Becomes("server", "loop") /\ UNCHANGED inbox
    BY <1>0, <1>2, <2>1, StagesKeepFirst DEF Listen, jsVars
  <2>2. CASE Becomes("server", "returned") /\ Send("server", <<"started">>)
    <3>1. life'["server"] = "returned"
      BY <1>0, <2>2 DEF IInv, TypeOK, Becomes
    <3> QED BY <1>0, <1>2, <2>2, <3>1, SendersKeepFirst DEF Listen, jsVars
  <2> QED BY <1>2, <2>1, <2>2 DEF Listen
<1>3. CASE LoopEnds
  BY <1>0, <1>3, StagesKeepFirst DEF LoopEnds, jsVars
<1>4. CASE ServerEnds
  <2>1. life'["server"] = "returned"
    BY <1>0, <1>4 DEF ServerEnds, IInv, TypeOK, Becomes
  <2> QED BY <1>0, <1>4, <2>1, SendersKeepFirst DEF ServerEnds, jsVars
<1>5. CASE PollEnds BY <1>0, <1>5, StagesKeepFirst DEF PollEnds, jsVars
<1>6. CASE OutputEnds BY <1>0, <1>6, StagesKeepFirst DEF OutputEnds, jsVars
<1>7. CASE InputEnds BY <1>0, <1>7, StagesKeepFirst DEF InputEnds, jsVars
<1>8. CASE InputGone BY <1>0, <1>8, StagesKeepFirst DEF InputGone, jsVars
<1> QED BY <1>1, <1>2, <1>3, <1>4, <1>5, <1>6, <1>7, <1>8 DEF Native

LEMMA ScriptKeepsFirst == ASSUME IInv, Script PROVE RegistersFirst'
<1>0. /\ {"server", "poll", "input", "output"} \subseteq Worker
      /\ {"booted", "inited", "asked", "spawned", "listening", "native"}
            \subseteq Life \ {"none", "created"}
      /\ <<"initack">> \in Seq(Message)
      /\ <<"kill-server-fd">> \in Seq(Message)
      /\ <<"kill-server-fd", "spawn-device-loop">> \in Seq(Message)
  BY Workers DEF Life, Message
<1>1. ASSUME NEW w \in Worker, Boot(w) PROVE RegistersFirst'
  <2>1. CASE w = "server"
    <3>1. /\ life'["server"] = "booted"
          /\ inbox'["server"] = inbox["server"] \o <<"register">>
          /\ registered' = registered
      BY <1>0, <1>1, <2>1 DEF Boot, Becomes, Send, IInv, TypeOK, jsVars
    <3>2. "server" \notin registered => inbox["server"] = <<>>
      BY <1>1, <2>1 DEF Boot, IInv, RegistersFirst
    <3> QED BY <3>1, <3>2 DEF RegistersFirst
  <2>2. CASE w # "server"
    <3>1. /\ life'["server"] = life["server"]
          /\ inbox'["server"] = inbox["server"]
          /\ registered' = registered
      BY <1>0, <1>1, <2>2 DEF Boot, Becomes, Send, IInv, TypeOK, jsVars
    <3> QED BY <3>1, NotTheServers
  <2> QED BY <2>1, <2>2
<1>2. CASE ServerInit
  <2>1. life'["server"] = "inited"
    BY <1>0, <1>2 DEF ServerInit, IInv, TypeOK, Becomes
  <2> QED BY <1>0, <1>2, <2>1, SendersKeepFirst DEF ServerInit, jsVars
<1>3. CASE ServerStart
  <2>1. life'["server"] \in {"spawned", "listening"}
    BY <1>0, <1>3 DEF ServerStart, IInv, TypeOK, Becomes
  <2>2. PICK ms \in Seq(Message) : Send("server", ms)
    BY <1>0, <1>3 DEF ServerStart
  <2> QED BY <1>0, <1>3, <2>1, <2>2, SendersKeepFirst DEF ServerStart, jsVars
<1>4. CASE PollRun
  <2>1. /\ registered' = registered /\ inbox' = inbox
        /\ life'["server"] = IF life["server"] = "usbwait" THEN "listening"
                             ELSE life["server"]
    BY <1>0, <1>4 DEF PollRun, IInv, TypeOK, jsVars
  <2> QED BY <2>1 DEF IInv, RegistersFirst
<1>5. CASE OutputRun BY <1>0, <1>5, StagesKeepFirst DEF OutputRun, jsVars
<1>6. CASE InputRun BY <1>0, <1>6, StagesKeepFirst DEF InputRun, jsVars
<1> QED BY <1>1, <1>2, <1>3, <1>4, <1>5, <1>6 DEF Script

LEMMA RegistersFirstNext == ASSUME IInv, Next PROVE RegistersFirst'
<1>0. /\ "server" \in Worker
      /\ <<"spawn-io">> \in Seq(Message) /\ <<"restart-me">> \in Seq(Message)
  BY Workers DEF Message
<1>1. CASE Start
  <2>1. inbox["server"] = <<>> /\ inbox' = inbox
    BY <1>0, <1>1 DEF Start, IInv, NotStarted
  <2>2. life'["server"] \in {"none", "created"}
    BY <1>0, <1>1 DEF Start, Created, IInv, NotStarted
  <2> QED BY <2>1, <2>2 DEF RegistersFirst
<1>2. CASE Unload \/ CloseStep \/ Unplug
  <2>1. registered' = registered /\ life' = life /\ inbox' = inbox
    BY <1>2 DEF Unload, BeginClose, CloseStep, KillThreads, WriteDie,
       WaitServer, Cleanup, Unplug, jsVars, workerVars
  <2> QED BY <2>1, NotTheServers
<1>3. CASE Plug
  BY <1>0, <1>3, SendersKeepFirst DEF Plug, jsVars
<1>4. ASSUME NEW w \in Worker, Fatal(w) PROVE RegistersFirst'
  BY <1>0, <1>4, SendersKeepFirst DEF Fatal, jsVars
<1> QED BY <1>1, <1>2, <1>3, <1>4, HandleKeepsFirst, NativeKeepsFirst,
        ScriptKeepsFirst DEF Next

LEMMA KnowsServerNext == ASSUME IInv, Next PROVE KnowsServer'
<1>0. TypeOK /\ KnowsServer /\ ClosedOnce /\ NotStarted BY DEF IInv
<1>1. CASE UNCHANGED <<main, dieFd, registered, cleaned>>
           /\ terminated' = terminated
  BY <1>0, <1>1 DEF KnowsServer
<1>2. CASE BeginClose
  BY <1>0, <1>2 DEF BeginClose, KnowsServer
<1>3. CASE CloseStep
  BY <1>0, <1>3 DEF CloseStep, KillThreads, WriteDie, WaitServer, Cleanup,
     Doomed, KnowsServer, jsVars, workerVars
<1>4. CASE HandleKillFd
  <2>1. "server" \in registered BY <1>4, TakenAfter DEF HandleKillFd
  <2> QED BY <1>0, <1>4, <2>1 DEF HandleKillFd, KnowsServer
<1>5. ASSUME NEW w \in Worker, HandleRegister(w) PROVE KnowsServer'
  BY <1>0, <1>5 DEF HandleRegister, KnowsServer
<1>6. ASSUME NEW w \in Worker, HandleRestart(w) PROVE KnowsServer'
  BY <1>1, <1>2, <1>6 DEF HandleRestart, jsVars
<1>7. CASE Handle
  BY <1>1, <1>4, <1>5, <1>6, <1>7 DEF Handle, HandleInitAck, HandleSpawnLoop,
     HandleSpawnIo, HandleStarted, jsVars
<1>8. CASE Native
  BY <1>1, <1>8 DEF Native, UsbWait, Listen, LoopEnds, ServerEnds, PollEnds,
     OutputEnds, InputEnds, InputGone, jsVars
<1>9. CASE Script
  BY <1>1, <1>9 DEF Script, Boot, ServerInit, ServerStart, PollRun, OutputRun,
     InputRun, jsVars
<1>10. CASE Start \/ Plug \/ Unplug \/ \E w \in Worker : Fatal(w)
  BY <1>1, <1>10 DEF Start, Plug, Unplug, Fatal, jsVars, workerVars
<1> QED BY <1>2, <1>3, <1>7, <1>8, <1>9, <1>10 DEF Next, Unload

LEMMA Kept == ASSUME IInv, [Next]_vars PROVE IInv'
<1>1. ASSUME Next PROVE IInv'
  <2>1. TypeOK BY DEF IInv
  <2> QED BY <1>1, <2>1, TypeNext, NotStartedNext, ClosedOnceNext,
          RegistersFirstNext, KnowsServerNext DEF IInv
<1>2. ASSUME UNCHANGED vars PROVE IInv'
  BY <1>2 DEF IInv, TypeOK, NotStarted, ClosedOnce, RegistersFirst,
     KnowsServer, vars, jsVars, workerVars, nativeVars
<1> QED BY <1>1, <1>2

LEMMA Inductive == Spec => []IInv
BY Kept, InitHolds, PTL DEF Spec

\* However many workers ask for a restart, and whenever the add-on is
\* unloaded, the native library is cleaned up at most once.
THEOREM CleanedUpOnce == Spec => []CleanupOnce
<1>1. IInv => CleanupOnce BY DEF IInv, ClosedOnce, CleanupOnce
<1> QED BY <1>1, Inductive, PTL

\* After a close() that got to its end no worker is ever created: the
\* server's worker, whose messages create them, has been terminated.
THEOREM NothingSpawned == Spec => NothingAfterClose
<1>1. ASSUME IInv, Next, cleaned > 0, NEW w \in Worker, life[w] = "none"
      PROVE  life'[w] = "none"
  <2>1. "server" \in terminated /\ ready /\ life \in [Worker -> Life]
    BY <1>1 DEF IInv, KnowsServer, NotStarted, TypeOK
  <2>2. Handle => life' = life
    BY <2>1 DEF Handle, HandleRegister, HandleRestart, BeginClose, Take,
       HandleInitAck, HandleKillFd, HandleSpawnLoop, HandleSpawnIo,
       HandleStarted, jsVars
  <2>3. CloseStep \/ Unload \/ Unplug \/ Plug => life' = life
    BY DEF CloseStep, KillThreads, WriteDie, WaitServer, Cleanup, Unload,
       BeginClose, Unplug, Plug, workerVars
  <2>4. \A v \in Worker : Fatal(v) => life' = life BY DEF Fatal
  <2>5. Native => life'[w] = "none"
    BY <1>1, <2>1, Workers DEF Native, UsbWait, Listen, LoopEnds, ServerEnds,
       PollEnds, OutputEnds, InputEnds, InputGone, Becomes
  <2>6. Script => life'[w] = "none"
    BY <1>1, <2>1, Workers DEF Script, Boot, ServerInit, ServerStart, PollRun,
       OutputRun, InputRun, Becomes
  <2>7. ~Start BY <2>1 DEF Start
  <2> QED BY <1>1, <2>2, <2>3, <2>4, <2>5, <2>6, <2>7 DEF Next
<1>2. IInv /\ [Next]_vars =>
        [cleaned > 0 => \A w \in Worker : life[w] = "none" => life'[w] = "none"]_vars
  BY <1>1
<1> QED BY <1>2, Inductive, PTL DEF Spec, NothingAfterClose

-----------------------------------------------------------------------------
(* The waits of close() on Windows.  Each of the two notices is given once *)
(* only because each worker is created once, and that depends on messages: *)
(* the server's worker asks for the poll worker and for the io workers at  *)
(* most once, so no message on its way could bring one of them back.       *)

In(m, s) == \E i \in 1..Len(s) : s[i] = m
Once(m, s) == \A i, j \in 1..Len(s) : s[i] = m /\ s[j] = m => i = j

\* The messages that set a worker's stage back.
Spawning == {"initack", "spawn-device-loop", "spawn-io"}

\* The server's worker before it runs server_thread.
Early == {"none", "created", "booted", "inited", "asked"}

SpawnedOnce ==
  /\ \A m \in Spawning : Once(m, inbox["server"])
  /\ In("initack", inbox["server"]) => life["server"] = "inited"
  /\ In("spawn-device-loop", inbox["server"]) => life["poll"] = "none"
  /\ life["server"] \in Early =>
       ~In("spawn-device-loop", inbox["server"]) /\ life["poll"] = "none"
  /\ In("spawn-io", inbox["server"]) => \A w \in Io : life[w] = "none"
  /\ device = "absent" =>
       ~In("spawn-io", inbox["server"]) /\ \A w \in Io : life[w] = "none"

PollNotice == IF life["poll"] = "returned" THEN 1 ELSE 0
InputNotice == IF life["input"] \in {"leaving", "returned"} THEN 1 ELSE 0

\* What should_kill and is_io_pump_on tell about the threads.
Notices ==
  /\ kills <= 1 + PollNotice + InputNotice
  /\ life["input"] \in {"leaving", "returned"} => offline
  /\ offline => life["output"] = "returned"
  /\ life["output"] \in {"native", "returned"} /\ life["input"] # "returned" =>
       pump = 1

\* What close() has waited for.
Waited ==
  /\ main \in {"writing", "waiting", "cleaning"} =>
       \E w \in {"poll", "input"} : life[w] = "returned"
  /\ dead => life["server"] \in {"leaving", "returned"}
  /\ main = "cleaning" => dead

WInv == IInv /\ SpawnedOnce /\ (platform = "winnt" => Notices /\ Waited)

LEMMA TailOnce ==
  ASSUME NEW S, NEW s \in Seq(S), s # <<>>, NEW m, Once(m, s)
  PROVE  /\ Once(m, Tail(s))
         /\ In(m, Tail(s)) => In(m, s)
         /\ m = Head(s) => In(m, s) /\ ~In(m, Tail(s))
<1>1. /\ Len(s) \in Nat /\ Len(s) > 0 /\ Len(Tail(s)) = Len(s) - 1
      /\ \A i \in 1..Len(Tail(s)) : Tail(s)[i] = s[i + 1] /\ i + 1 \in 1..Len(s)
      /\ Head(s) = s[1]
  OBVIOUS
<1>2. Once(m, Tail(s)) /\ (In(m, Tail(s)) => In(m, s)) BY <1>1 DEF Once, In
<1>3. m = Head(s) => In(m, s) /\ ~In(m, Tail(s)) BY <1>1 DEF Once, In
<1> QED BY <1>2, <1>3

LEMMA AddOne ==
  ASSUME NEW S, NEW s \in Seq(S), NEW x \in S, NEW m
  PROVE  /\ In(m, s \o <<x>>) <=> In(m, s) \/ m = x
         /\ Once(m, s) /\ (m = x => ~In(m, s)) => Once(m, s \o <<x>>)
<1>1. /\ Len(s) \in Nat /\ Len(s \o <<x>>) = Len(s) + 1
      /\ \A i \in 1..Len(s) : (s \o <<x>>)[i] = s[i]
      /\ (s \o <<x>>)[Len(s) + 1] = x
  OBVIOUS
<1>2. In(m, s \o <<x>>) <=> In(m, s) \/ m = x BY <1>1 DEF In
<1>3. ASSUME Once(m, s), m = x => ~In(m, s) PROVE Once(m, s \o <<x>>)
  BY <1>1, <1>3 DEF Once, In
<1> QED BY <1>2, <1>3

\* A step that adds no spawning message and brings no worker to life.
LEMMA SpawnKept ==
  ASSUME SpawnedOnce,
         \A m \in Spawning : /\ Once(m, inbox'["server"])
                             /\ In(m, inbox'["server"]) => In(m, inbox["server"]),
         \A w \in {"poll", "input", "output"} :
           life[w] = "none" => life'[w] = "none",
         In("initack", inbox'["server"]) => life'["server"] = "inited",
         life'["server"] \in Early => life["server"] \in Early,
         device' = "absent" => device = "absent"
  PROVE  SpawnedOnce'
BY DEF SpawnedOnce, Spawning, Io

LEMMA ServerTakes ==
  ASSUME IInv, SpawnedOnce, NEW m, Take("server", m)
  PROVE  /\ \A x \in Spawning :
              /\ Once(x, inbox'["server"])
              /\ In(x, inbox'["server"]) => In(x, inbox["server"])
         /\ m \in Spawning => In(m, inbox["server"]) /\ ~In(m, inbox'["server"])
<1>1. /\ inbox["server"] \in Seq(Message) /\ inbox["server"] # <<>>
      /\ inbox'["server"] = Tail(inbox["server"]) /\ Head(inbox["server"]) = m
  BY Workers DEF Take, First, IInv, TypeOK
<1>2. \A x \in Spawning : Once(x, inbox["server"]) BY DEF SpawnedOnce
<1>3. ASSUME NEW x \in Spawning
      PROVE  /\ Once(x, inbox'["server"])
             /\ In(x, inbox'["server"]) => In(x, inbox["server"])
             /\ x = m => In(x, inbox["server"]) /\ ~In(x, inbox'["server"])
  BY <1>1, <1>2, TailOnce
<1> QED BY <1>3

LEMMA OthersTake ==
  ASSUME IInv, NEW w \in Worker, w # "server", NEW m, Take(w, m)
  PROVE  inbox'["server"] = inbox["server"]
BY DEF Take, IInv, TypeOK

\* Messages of other kinds, and of other workers, change nothing here.
LEMMA ServerSends ==
  ASSUME IInv, SpawnedOnce, NEW w \in Worker, NEW x \in Message \ Spawning,
         Send(w, <<x>>)
  PROVE  \A m \in Spawning :
           /\ Once(m, inbox'["server"])
           /\ In(m, inbox'["server"]) => In(m, inbox["server"])
<1>1. inbox["server"] \in Seq(Message) BY Workers DEF IInv, TypeOK
<1>2. \A m \in Spawning : Once(m, inbox["server"]) BY DEF SpawnedOnce
<1>3. CASE w # "server"
  <2>1. inbox'["server"] = inbox["server"]
    BY <1>3, Workers DEF Send, IInv, TypeOK
  <2> QED BY <1>2, <2>1
<1>4. CASE w = "server"
  <2>1. inbox'["server"] = inbox["server"] \o <<x>>
    BY <1>4, Workers DEF Send, IInv, TypeOK
  <2>2. ASSUME NEW m \in Spawning
        PROVE  /\ Once(m, inbox'["server"])
               /\ In(m, inbox'["server"]) => In(m, inbox["server"])
    <3>1. m # x OBVIOUS
    <3> QED BY <1>1, <1>2, <2>1, <3>1, AddOne
  <2> QED BY <2>2
<1> QED BY <1>3, <1>4

LEMMA StagesKeepSpawned ==
  ASSUME IInv, SpawnedOnce, NEW w \in Worker, NEW l \in Life,
         Becomes(w, l), life[w] # "none", device' = device,
         \A m \in Spawning :
           /\ Once(m, inbox'["server"])
           /\ In(m, inbox'["server"]) => In(m, inbox["server"]),
         w = "server" => life["server"] # "inited"
                         /\ (l \in Early => life["server"] \in Early)
  PROVE  SpawnedOnce'
<1>1. \A v \in Worker : life'[v] = IF v = w THEN l ELSE life[v]
  BY DEF Becomes, IInv, TypeOK
<1>2. \A v \in {"poll", "input", "output"} : life[v] = "none" => life'[v] = "none"
  BY <1>1, Workers
<1>3. In("initack", inbox'["server"]) => life'["server"] = "inited"
  BY <1>1, Workers DEF SpawnedOnce, Spawning
<1>4. life'["server"] \in Early => life["server"] \in Early
  BY <1>1, Workers
<1> QED BY <1>2, <1>3, <1>4, SpawnKept

LEMMA HandleSpawned == ASSUME IInv, SpawnedOnce, Handle PROVE SpawnedOnce'
<1>0. "server" \in Worker /\ \A m \in Spawning : Once(m, inbox["server"])
  BY Workers DEF SpawnedOnce
<1>1. ASSUME NEW w \in Worker, NEW m, Take(w, m), life' = life, device' = device
      PROVE  SpawnedOnce'
  <2>1. \A x \in Spawning :
          /\ Once(x, inbox'["server"])
          /\ In(x, inbox'["server"]) => In(x, inbox["server"])
    <3>1. CASE w = "server" BY <1>1, <3>1, ServerTakes
    <3>2. CASE w # "server"
      <4>1. inbox'["server"] = inbox["server"] BY <1>1, <3>2, OthersTake
      <4> QED BY <1>0, <4>1
    <3> QED BY <3>1, <3>2
  <2>2. In("initack", inbox'["server"]) => life'["server"] = "inited"
    BY <1>1, <2>1 DEF SpawnedOnce, Spawning
  <2> QED BY <1>1, <2>1, <2>2, SpawnKept
<1>2. ASSUME NEW w \in Worker, HandleRegister(w) PROVE SpawnedOnce'
  BY <1>1, <1>2 DEF HandleRegister, nativeVars
<1>3. ASSUME NEW w \in Worker, HandleRestart(w) PROVE SpawnedOnce'
  BY <1>1, <1>3 DEF HandleRestart, BeginClose, nativeVars
<1>4. CASE HandleInitAck
  <2>1. /\ \A x \in Spawning :
             /\ Once(x, inbox'["server"])
             /\ In(x, inbox'["server"]) => In(x, inbox["server"])
        /\ In("initack", inbox["server"]) /\ ~In("initack", inbox'["server"])
    BY <1>4, ServerTakes DEF HandleInitAck, Spawning
  <2>2. /\ \A w \in Worker \ {"server"} : life'[w] = life[w]
        /\ life["server"] = "inited" /\ life'["server"] = "asked"
    BY <1>0, <1>4, <2>1 DEF HandleInitAck, IInv, TypeOK, SpawnedOnce
  <2> QED BY <1>4, <2>1, <2>2, Workers
      DEF HandleInitAck, SpawnedOnce, Spawning, Early, Io, nativeVars
<1>5. CASE HandleSpawnLoop
  <2>1. /\ \A x \in Spawning :
             /\ Once(x, inbox'["server"])
             /\ In(x, inbox'["server"]) => In(x, inbox["server"])
        /\ In("spawn-device-loop", inbox["server"])
        /\ ~In("spawn-device-loop", inbox'["server"])
    BY <1>5, ServerTakes DEF HandleSpawnLoop, Spawning
  <2>2. \A w \in {"server", "input", "output"} : life'[w] = life[w]
    BY <1>5, Workers DEF HandleSpawnLoop, Created
  <2> QED BY <1>5, <2>1, <2>2
      DEF HandleSpawnLoop, SpawnedOnce, Spawning, Early, Io, nativeVars
<1>6. CASE HandleSpawnIo
  <2>1. /\ \A x \in Spawning :
             /\ Once(x, inbox'["server"])
             /\ In(x, inbox'["server"]) => In(x, inbox["server"])
        /\ In("spawn-io", inbox["server"]) /\ ~In("spawn-io", inbox'["server"])
    BY <1>6, ServerTakes DEF HandleSpawnIo, Spawning
  <2>2. \A w \in {"server", "poll"} : life'[w] = life[w]
    BY <1>6, Workers DEF HandleSpawnIo, Created, Io
  <2> QED BY <1>6, <2>1, <2>2
      DEF HandleSpawnIo, SpawnedOnce, Spawning, Early, Io, nativeVars
<1>7. CASE HandleKillFd \/ HandleStarted
  BY <1>0, <1>1, <1>7 DEF HandleKillFd, HandleStarted, nativeVars
<1> QED BY <1>2, <1>3, <1>4, <1>5, <1>6, <1>7 DEF Handle

LEMMA NativeSpawned == ASSUME IInv, SpawnedOnce, Native PROVE SpawnedOnce'
<1>0. /\ {"server", "poll", "input", "output"} \subseteq Worker
      /\ {"usbwait", "listening", "loop", "leaving", "returned"} \subseteq Life
      /\ {"usbwait", "listening", "loop", "leaving", "returned"} \cap Early = {}
      /\ "started" \in Message \ Spawning
      /\ \A m \in Spawning : Once(m, inbox["server"])
  BY Workers DEF Life, Message, Early, Spawning, SpawnedOnce
<1>1. CASE UsbWait
  BY <1>0, <1>1, StagesKeepSpawned DEF UsbWait, nativeVars
<1>2. CASE Listen
  <2>1. CASE Becomes("server", "loop") /\ UNCHANGED inbox
    BY <1>0, <1>2, <2>1, StagesKeepSpawned DEF Listen, nativeVars
  <2>2. CASE Becomes("server", "returned") /\ Send("server", <<"started">>)
    <3>1. \A m \in Spawning :
            /\ Once(m, inbox'["server"])
            /\ In(m, inbox'["server"]) => In(m, inbox["server"])
      BY <1>0, <2>2, ServerSends
    <3> QED BY <1>0, <1>2, <2>2, <3>1, StagesKeepSpawned DEF Listen, nativeVars
  <2> QED BY <1>2, <2>1, <2>2 DEF Listen
<1>3. CASE LoopEnds BY <1>0, <1>3, StagesKeepSpawned DEF LoopEnds
<1>4. CASE ServerEnds
  <2>1. \A m \in Spawning :
          /\ Once(m, inbox'["server"])
          /\ In(m, inbox'["server"]) => In(m, inbox["server"])
    BY <1>0, <1>4, ServerSends DEF ServerEnds
  <2> QED BY <1>0, <1>4, <2>1, StagesKeepSpawned DEF ServerEnds, nativeVars
<1>5. CASE PollEnds BY <1>0, <1>5, StagesKeepSpawned DEF PollEnds
<1>6. CASE OutputEnds BY <1>0, <1>6, StagesKeepSpawned DEF OutputEnds
<1>7. CASE InputEnds BY <1>0, <1>7, StagesKeepSpawned DEF InputEnds
<1>8. CASE InputGone BY <1>0, <1>8, StagesKeepSpawned DEF InputGone
<1> QED BY <1>1, <1>2, <1>3, <1>4, <1>5, <1>6, <1>7, <1>8 DEF Native

LEMMA ScriptSpawned == ASSUME IInv, SpawnedOnce, Script PROVE SpawnedOnce'
<1>0. /\ {"server", "poll", "input", "output"} \subseteq Worker
      /\ {"booted", "inited", "native", "spawned", "listening"} \subseteq Life
      /\ "register" \in Message \ Spawning
      /\ {"initack", "kill-server-fd", "spawn-device-loop"} \subseteq Message
      /\ inbox["server"] \in Seq(Message)
      /\ \A m \in Spawning : Once(m, inbox["server"])
  BY Workers DEF Life, Message, Spawning, SpawnedOnce, IInv, TypeOK
<1>1. ASSUME NEW w \in Worker, Boot(w) PROVE SpawnedOnce'
  <2>1. \A m \in Spawning :
          /\ Once(m, inbox'["server"])
          /\ In(m, inbox'["server"]) => In(m, inbox["server"])
    BY <1>0, <1>1, ServerSends DEF Boot
  <2> QED BY <1>0, <1>1, <2>1, StagesKeepSpawned DEF Boot, Early, nativeVars
<1>2. CASE ServerInit
  <2>1. /\ inbox'["server"] = inbox["server"] \o <<"initack">>
        /\ life["server"] = "booted" /\ life'["server"] = "inited"
        /\ \A w \in Worker \ {"server"} : life'[w] = life[w]
        /\ device' = device
    BY <1>0, <1>2 DEF ServerInit, Send, Becomes, IInv, TypeOK, nativeVars
  <2>2. ~In("initack", inbox["server"]) BY <2>1 DEF SpawnedOnce
  <2>3. \A m \in Spawning : /\ Once(m, inbox'["server"])
                            /\ In(m, inbox'["server"])
                                 <=> In(m, inbox["server"]) \/ m = "initack"
    BY <1>0, <2>1, <2>2, AddOne
  <2> QED BY <1>0, <2>1, <2>3 DEF SpawnedOnce, Spawning, Early, Io
<1>3. CASE ServerStart
  <2>1. /\ life["server"] = "asked" /\ life'["server"] \notin Early
        /\ life'["server"] # "inited"
        /\ \A w \in Worker \ {"server"} : life'[w] = life[w]
        /\ device' = device
    BY <1>0, <1>3 DEF ServerStart, Becomes, Early, IInv, TypeOK, nativeVars
  <2>2. /\ life["poll"] = "none"
        /\ ~In("spawn-device-loop", inbox["server"])
        /\ ~In("initack", inbox["server"])
    BY <2>1 DEF SpawnedOnce, Early
  <2>3. /\ inbox["server"] \o <<"kill-server-fd">> \in Seq(Message)
        /\ (inbox["server"] \o <<"kill-server-fd">>) \o <<"spawn-device-loop">>
             = inbox["server"] \o <<"kill-server-fd", "spawn-device-loop">>
    BY <1>0
  <2>4. \/ inbox'["server"] = inbox["server"] \o <<"kill-server-fd">>
        \/ inbox'["server"] =
             (inbox["server"] \o <<"kill-server-fd">>) \o <<"spawn-device-loop">>
    BY <1>0, <1>3, <2>3 DEF ServerStart, Send, IInv, TypeOK
  <2>5. \A m \in Spawning :
          /\ Once(m, inbox["server"] \o <<"kill-server-fd">>)
          /\ In(m, inbox["server"] \o <<"kill-server-fd">>)
               <=> In(m, inbox["server"])
    BY <1>0, AddOne DEF Spawning
  <2>6. \A m \in Spawning :
          /\ Once(m, inbox'["server"])
          /\ In(m, inbox'["server"]) =>
               In(m, inbox["server"]) \/ m = "spawn-device-loop"
    <3> DEFINE q == inbox["server"] \o <<"kill-server-fd">>
    <3>1. CASE inbox'["server"] = q BY <2>5, <3>1
    <3>2. CASE inbox'["server"] = q \o <<"spawn-device-loop">>
      <4>1. q \in Seq(Message) /\ "spawn-device-loop" \in Message
        BY <1>0, <2>3
      <4>2. \A m \in Spawning : Once(m, q) /\ (In(m, q) <=> In(m, inbox["server"]))
        BY <2>5
      <4> HIDE DEF q
      <4>3. ASSUME NEW m \in Spawning
            PROVE  /\ Once(m, inbox'["server"])
                   /\ In(m, inbox'["server"]) =>
                        In(m, inbox["server"]) \/ m = "spawn-device-loop"
        BY <2>2, <3>2, <4>1, <4>2, AddOne
      <4> QED BY <4>3
    <3> QED BY <2>4, <3>1, <3>2
  <2> QED BY <1>0, <2>1, <2>2, <2>6 DEF SpawnedOnce, Spawning, Io
<1>4. CASE PollRun
  <2>1. /\ life["poll"] = "booted" /\ life'["poll"] = "native"
        /\ life'["server"] = IF life["server"] = "usbwait" THEN "listening"
                             ELSE life["server"]
        /\ \A w \in Worker \ {"poll", "server"} : life'[w] = life[w]
        /\ inbox' = inbox /\ device' = device
    BY <1>0, <1>4 DEF PollRun, IInv, TypeOK, nativeVars
  <2>2. In("initack", inbox["server"]) => life["server"] = "inited"
    BY DEF SpawnedOnce
  <2> QED BY <1>0, <2>1, <2>2, SpawnKept DEF Early
<1>5. CASE OutputRun BY <1>0, <1>5, StagesKeepSpawned DEF OutputRun
<1>6. CASE InputRun BY <1>0, <1>6, StagesKeepSpawned DEF InputRun, nativeVars
<1> QED BY <1>1, <1>2, <1>3, <1>4, <1>5, <1>6 DEF Script

LEMMA SpawnedOnceNext == ASSUME IInv, SpawnedOnce, Next PROVE SpawnedOnce'
<1>0. /\ {"server", "poll", "input", "output"} \subseteq Worker
      /\ "spawn-io" \in Message /\ "restart-me" \in Message \ Spawning
      /\ inbox["server"] \in Seq(Message)
      /\ \A m \in Spawning : Once(m, inbox["server"])
      /\ In("initack", inbox["server"]) => life["server"] = "inited"
  BY Workers DEF Message, Spawning, SpawnedOnce, IInv, TypeOK
<1>1. CASE Start
  <2>1. /\ inbox["server"] = <<>> /\ inbox' = inbox /\ device' = device
        /\ life["server"] = "none"
        /\ \A w \in {"poll", "input", "output"} : life'[w] = life[w]
    BY <1>0, <1>1, LifecycleAssumption
    DEF Start, Created, IInv, NotStarted, nativeVars
  <2> QED BY <1>0, <2>1, SpawnKept DEF Early
<1>2. CASE Unload \/ CloseStep \/ Unplug
  <2>1. /\ life' = life /\ inbox' = inbox
        /\ device' = "absent" => device = "absent"
    BY <1>2 DEF Unload, BeginClose, CloseStep, KillThreads, WriteDie,
       WaitServer, Cleanup, Unplug, workerVars, nativeVars
  <2> QED BY <1>0, <2>1, SpawnKept
<1>3. CASE Plug
  <2>1. /\ inbox'["server"] = inbox["server"] \o <<"spawn-io">>
        /\ life' = life /\ device = "absent" /\ device' = "present"
        /\ life["server"] = "loop"
    BY <1>0, <1>3 DEF Plug, Send, IInv, TypeOK
  <2>2. \A m \in Spawning : /\ Once(m, inbox'["server"])
                            /\ In(m, inbox'["server"])
                                 <=> In(m, inbox["server"]) \/ m = "spawn-io"
    <3>1. ~In("spawn-io", inbox["server"]) BY <2>1 DEF SpawnedOnce
    <3> QED BY <1>0, <2>1, <3>1, AddOne
  <2> QED BY <2>1, <2>2 DEF SpawnedOnce, Spawning, Early, Io
<1>4. ASSUME NEW w \in Worker, Fatal(w) PROVE SpawnedOnce'
  <2>1. \A m \in Spawning :
          /\ Once(m, inbox'["server"])
          /\ In(m, inbox'["server"]) => In(m, inbox["server"])
    BY <1>0, <1>4, ServerSends DEF Fatal
  <2>2. In("initack", inbox'["server"]) => life'["server"] = "inited"
    BY <1>0, <1>4, <2>1 DEF Fatal, Spawning
  <2> QED BY <1>4, <2>1, <2>2, SpawnKept DEF Fatal, nativeVars
<1> QED BY <1>1, <1>2, <1>3, <1>4, HandleSpawned, NativeSpawned, ScriptSpawned
    DEF Next

-----------------------------------------------------------------------------

CloseWaits == Notices /\ Waited

\* A step that touches neither the threads nor what close() waits for.
LEMMA WaitsKept ==
  ASSUME CloseWaits, \A w \in {"server", "poll", "input", "output"} : life'[w] = life[w],
         UNCHANGED <<main, kills, pump, offline, dead>>
  PROVE  CloseWaits'
BY DEF CloseWaits, Notices, PollNotice, InputNotice, Waited

LEMMA BeginCloseWaits ==
  ASSUME platform = "winnt", CloseWaits, main = "idle", BeginClose PROVE CloseWaits'
BY DEF BeginClose, CloseWaits, Notices, PollNotice, InputNotice, Waited

LEMMA HandleWaits ==
  ASSUME platform = "winnt", IInv, SpawnedOnce, CloseWaits, Handle PROVE CloseWaits'
<1>0. {"server", "poll", "input", "output"} \subseteq Worker BY Workers
<1>1. ASSUME NEW w \in Worker, HandleRegister(w) PROVE CloseWaits'
  BY <1>1, WaitsKept DEF HandleRegister, nativeVars
<1>2. ASSUME NEW w \in Worker, HandleRestart(w) PROVE CloseWaits'
  BY <1>2, WaitsKept, BeginCloseWaits DEF HandleRestart, Take, jsVars, nativeVars
<1>3. CASE HandleInitAck
  <2>1. In("initack", inbox["server"])
    BY <1>3, ServerTakes DEF HandleInitAck, Spawning
  <2>2. /\ life["server"] = "inited" /\ life'["server"] = "asked"
        /\ \A w \in {"poll", "input", "output"} : life'[w] = life[w]
    BY <1>0, <1>3, <2>1 DEF HandleInitAck, SpawnedOnce, IInv, TypeOK
  <2> QED BY <1>3, <2>2 DEF HandleInitAck, nativeVars, CloseWaits, Notices,
          PollNotice, InputNotice, Waited
<1>4. CASE HandleSpawnLoop
  <2>1. In("spawn-device-loop", inbox["server"])
    BY <1>4, ServerTakes DEF HandleSpawnLoop, Spawning
  <2>2. /\ life["poll"] = "none" /\ life'["poll"] = "created"
        /\ \A w \in {"server", "input", "output"} : life'[w] = life[w]
    BY <1>0, <1>4, <2>1 DEF HandleSpawnLoop, Created, SpawnedOnce
  <2> QED BY <1>4, <2>2 DEF HandleSpawnLoop, jsVars, nativeVars, CloseWaits, Notices,
          PollNotice, InputNotice, Waited
<1>5. CASE HandleSpawnIo
  <2>1. In("spawn-io", inbox["server"])
    BY <1>5, ServerTakes DEF HandleSpawnIo, Spawning
  <2>2. /\ \A w \in {"input", "output"} :
             life[w] = "none" /\ life'[w] = "created"
        /\ \A w \in {"server", "poll"} : life'[w] = life[w]
    BY <1>0, <1>5, <2>1 DEF HandleSpawnIo, Created, Io, SpawnedOnce
  <2> QED BY <1>5, <2>2 DEF HandleSpawnIo, jsVars, nativeVars, CloseWaits, Notices,
          PollNotice, InputNotice, Waited
<1>6. CASE HandleKillFd \/ HandleStarted
  BY <1>6, WaitsKept DEF HandleKillFd, HandleStarted, nativeVars
<1> QED BY <1>1, <1>2, <1>3, <1>4, <1>5, <1>6 DEF Handle

LEMMA NativeWaits ==
  ASSUME platform = "winnt", IInv, CloseWaits, Native PROVE CloseWaits'
<1>0. /\ life \in [Worker -> Life] /\ kills \in Nat /\ pump \in {0, 1}
      /\ {"server", "poll", "input", "output"} \subseteq Worker
  BY Workers DEF IInv, TypeOK
<1>1. ASSUME NEW w \in Worker, NEW l, Becomes(w, l)
      PROVE  \A v \in Worker : life'[v] = IF v = w THEN l ELSE life[v]
  BY <1>0, <1>1 DEF Becomes
<1>2. CASE UsbWait \/ Listen \/ LoopEnds \/ ServerEnds
  <2>1. /\ UNCHANGED <<main, kills, pump, offline>>
        /\ \A v \in Worker \ {"server"} : life'[v] = life[v]
        /\ dead' => dead \/ life'["server"] = "leaving"
        /\ dead => life["server"] \in {"leaving", "returned"}
        /\ life["server"] \in {"leaving", "returned"} =>
             life'["server"] \in {"leaving", "returned"}
        /\ dead => dead'
    BY <1>0, <1>1, <1>2 DEF UsbWait, Listen, LoopEnds, ServerEnds, jsVars,
       nativeVars, CloseWaits, Waited
  <2> QED BY <1>0, <2>1
      DEF CloseWaits, Notices, PollNotice, InputNotice, Waited
<1>3. CASE PollEnds
  <2>1. /\ life["poll"] = "native" /\ life'["poll"] = "returned"
        /\ \A v \in Worker \ {"poll"} : life'[v] = life[v]
        /\ kills' = kills + 1
        /\ UNCHANGED <<main, pump, offline, dead>>
    BY <1>0, <1>1, <1>3 DEF PollEnds, Notified, jsVars
  <2> QED BY <1>0, <2>1 DEF CloseWaits, Notices, PollNotice, InputNotice, Waited
<1>4. CASE OutputEnds
  <2>1. /\ life["output"] = "native" /\ life'["output"] = "returned"
        /\ \A v \in Worker \ {"output"} : life'[v] = life[v]
        /\ offline'
        /\ UNCHANGED <<main, kills, pump, dead>>
    BY <1>0, <1>1, <1>4 DEF OutputEnds, jsVars
  <2> QED BY <1>0, <2>1 DEF CloseWaits, Notices, PollNotice, InputNotice, Waited
<1>5. CASE InputEnds
  <2>1. /\ life["input"] = "native" /\ life'["input"] = "leaving" /\ offline
        /\ \A v \in Worker \ {"input"} : life'[v] = life[v]
        /\ kills' \in {0, kills + 1}
        /\ UNCHANGED <<main, pump, offline, dead>>
    BY <1>0, <1>1, <1>5 DEF InputEnds, Notified, jsVars
  <2> QED BY <1>0, <2>1 DEF CloseWaits, Notices, PollNotice, InputNotice, Waited
<1>6. CASE InputGone
  <2>1. /\ life["input"] = "leaving" /\ life'["input"] = "returned"
        /\ \A v \in Worker \ {"input"} : life'[v] = life[v]
        /\ UNCHANGED <<main, kills, offline, dead>>
    BY <1>0, <1>1, <1>6 DEF InputGone, jsVars
  <2> QED BY <1>0, <2>1 DEF CloseWaits, Notices, PollNotice, InputNotice, Waited
<1> QED BY <1>2, <1>3, <1>4, <1>5, <1>6 DEF Native

LEMMA ScriptWaits ==
  ASSUME platform = "winnt", IInv, CloseWaits, Script PROVE CloseWaits'
<1>0. /\ life \in [Worker -> Life] /\ kills \in Nat /\ pump \in {0, 1}
      /\ {"server", "poll", "input", "output"} \subseteq Worker
  BY Workers DEF IInv, TypeOK
<1>1. ASSUME NEW w \in Worker, NEW l, Becomes(w, l)
      PROVE  \A v \in Worker : life'[v] = IF v = w THEN l ELSE life[v]
  BY <1>0, <1>1 DEF Becomes
<1>2. ASSUME NEW w \in Worker, Boot(w) PROVE CloseWaits'
  <2>1. /\ life[w] = "created" /\ life'[w] = "booted"
        /\ \A v \in Worker \ {w} : life'[v] = life[v]
        /\ UNCHANGED <<main, kills, pump, offline, dead>>
    BY <1>0, <1>1, <1>2 DEF Boot, jsVars, nativeVars
  <2> QED BY <1>0, <2>1 DEF CloseWaits, Notices, PollNotice, InputNotice, Waited
<1>3. CASE ServerInit \/ ServerStart \/ PollRun
  <2>1. /\ UNCHANGED <<main, kills, pump, offline, dead>>
        /\ \A v \in {"input", "output"} : life'[v] = life[v]
        /\ \/ life'["poll"] = life["poll"]
           \/ life["poll"] = "booted" /\ life'["poll"] = "native"
        /\ life["server"] \in {"leaving", "returned"} =>
             life'["server"] = life["server"]
    BY <1>0, <1>1, <1>3
    DEF ServerInit, ServerStart, PollRun, jsVars, nativeVars
  <2> QED BY <1>0, <2>1 DEF CloseWaits, Notices, PollNotice, InputNotice, Waited
<1>4. CASE OutputRun
  <2>1. /\ life["output"] = "booted" /\ life'["output"] = "native"
        /\ \A v \in Worker \ {"output"} : life'[v] = life[v]
        /\ pump' = 1
        /\ UNCHANGED <<main, kills, offline, dead>>
    BY <1>0, <1>1, <1>4 DEF OutputRun, jsVars
  <2> QED BY <1>0, <2>1 DEF CloseWaits, Notices, PollNotice, InputNotice, Waited
<1>5. CASE InputRun
  <2>1. /\ life["input"] = "booted" /\ life'["input"] = "native"
        /\ \A v \in Worker \ {"input"} : life'[v] = life[v]
        /\ UNCHANGED <<main, kills, pump, offline, dead>>
    BY <1>0, <1>1, <1>5 DEF InputRun, jsVars, nativeVars
  <2> QED BY <1>0, <2>1 DEF CloseWaits, Notices, PollNotice, InputNotice, Waited
<1> QED BY <1>2, <1>3, <1>4, <1>5 DEF Script

LEMMA WaitsNext ==
  ASSUME platform = "winnt", IInv, SpawnedOnce, CloseWaits, Next PROVE CloseWaits'
<1>1. CASE Start
  <2>1. /\ UNCHANGED <<main, kills, pump, offline, dead>> /\ main = "idle"
        /\ \A w \in Worker : life[w] = "none"
        /\ \A w \in Worker \ {"server"} : life'[w] \in {"none", "created"}
    BY <1>1 DEF Start, Created, IInv, NotStarted, jsVars, nativeVars
  <2> QED BY <2>1, Workers DEF CloseWaits, Notices, PollNotice, InputNotice, Waited
<1>2. CASE Unload BY <1>2, BeginCloseWaits DEF Unload
<1>3. CASE KillThreads
  BY <1>3 DEF KillThreads, Wanted, IInv, TypeOK, workerVars, nativeVars,
     CloseWaits, Notices, PollNotice, InputNotice, Waited
<1>4. CASE WriteDie \/ WaitServer \/ Cleanup
  BY <1>4 DEF WriteDie, WaitServer, Cleanup, workerVars, nativeVars,
     CloseWaits, Notices, PollNotice, InputNotice, Waited
<1>5. CASE Plug \/ Unplug \/ \E w \in Worker : Fatal(w)
  BY <1>5, WaitsKept DEF Plug, Unplug, Fatal, jsVars, workerVars, nativeVars
<1> QED BY <1>1, <1>2, <1>3, <1>4, <1>5, HandleWaits, NativeWaits, ScriptWaits
    DEF Next, CloseStep

\* On Windows close() cleans up only after the poll thread or the input thread
\* has left the library, and after the event loop has.
THEOREM ThreadsAwaited == Spec => []Awaited
<1>1. Init => WInv
  <2>1. ASSUME Init PROVE SpawnedOnce /\ Notices /\ Waited
    BY <2>1, Workers DEF Init, SpawnedOnce, In, Once, Io, Notices, PollNotice,
       InputNotice, Waited
  <2> QED BY <2>1, InitHolds DEF WInv
<1>2. IInv /\ IInv' /\ WInv /\ [Next]_vars => WInv'
  <2>1. ASSUME IInv', WInv, Next PROVE WInv'
    <3>1. platform' = platform
      BY <2>1 DEF Next, Start, Unload, BeginClose, Handle, HandleRegister,
         HandleRestart, HandleInitAck, HandleKillFd, HandleSpawnLoop,
         HandleSpawnIo, HandleStarted, CloseStep, KillThreads, WriteDie,
         WaitServer, Cleanup, Native, UsbWait, Listen, LoopEnds, ServerEnds,
         PollEnds, OutputEnds, InputEnds, InputGone, Script, Boot, ServerInit,
         ServerStart, PollRun, OutputRun, InputRun, Plug, Unplug, Fatal
    <3> QED BY <2>1, <3>1, SpawnedOnceNext, WaitsNext DEF WInv, CloseWaits
  <2>2. ASSUME WInv, IInv', UNCHANGED vars PROVE WInv'
    BY <2>2 DEF WInv, SpawnedOnce, Notices, PollNotice, InputNotice, Waited,
       vars, workerVars, nativeVars
  <2> QED BY <2>1, <2>2
<1>3. WInv => Awaited BY DEF WInv, Waited, Awaited
<1> QED BY <1>1, <1>2, <1>3, Inductive, PTL DEF Spec

-----------------------------------------------------------------------------
(* The connection to the simulator process.                                *)
Left == {c \in Clients : client[c].at # "closed"}
Linked == Sim!Open \cup {"closing"}
Kinds == Sim!Open \cup {"trying", "closing", "closed"}
Channel ==
  /\ Cardinality(Left) + retries <= 1
  /\ \A c \in Clients : client[c].at \in Sim!Open => connected
  /\ connected => \E c \in Clients : client[c].at \in Linked
  /\ connecting => \E c \in Clients : client[c].at \in {"trying", "closing"}
  /\ remote # NoClient => connected /\ remote \in Clients /\ client[remote].at \in Linked

(* The instance's own copies of the operators of FiniteSets.               *)
LEMMA SameSets ==
  ASSUME NEW S
  PROVE  Sim!Cardinality(S) = Cardinality(S) /\ (Sim!IsFiniteSet(S) <=> IsFiniteSet(S))
<1>1. Sim!Cardinality(S) = Cardinality(S) BY DEF Cardinality, Sim!Cardinality
<1>2. Sim!IsFiniteSet(S) <=> IsFiniteSet(S) BY DEF IsFiniteSet, Sim!IsFiniteSet
<1> QED BY <1>1, <1>2

LEMMA LeftFinite ==
  ASSUME Sim!SimAssumption
  PROVE  /\ IsFiniteSet(Clients) /\ IsFiniteSet(Left)
         /\ Cardinality(Clients) \in Nat /\ Cardinality(Left) \in Nat
         /\ Cardinality(Left) <= Cardinality(Clients)
<1>1. IsFiniteSet(Clients) /\ Left \subseteq Clients BY SameSets DEF Sim!SimAssumption, Left
<1> QED BY <1>1, FS_Subset, FS_CardinalityType

LEMMA LeftOne ==
  ASSUME Sim!SimAssumption, Cardinality(Left) <= 1, NEW c \in Left, NEW d \in Left
  PROVE  c = d
<1> SUFFICES ASSUME c # d PROVE FALSE
  OBVIOUS
<1>1. /\ IsFiniteSet(Left \ {c}) /\ Cardinality(Left \ {c}) = Cardinality(Left) - 1
  BY LeftFinite, FS_RemoveElement
<1>2. Cardinality(Left \ {c}) \in Nat BY <1>1, FS_CardinalityType
<1>3. Cardinality(Left \ {c}) = 0 BY <1>1, <1>2, LeftFinite
<1>4. Left \ {c} = {} BY <1>1, <1>3, FS_EmptySet
<1> QED BY <1>4

LEMMA LeftNone ==
  ASSUME Sim!SimAssumption, Cardinality(Left) = 0 PROVE Left = {}
BY LeftFinite, FS_EmptySet

(* One more client that has not closed, or one less.                       *)
LEMMA LeftMore ==
  ASSUME Sim!SimAssumption, NEW c \in Clients, c \notin Left, Left' = Left \cup {c}
  PROVE  Cardinality(Left') = Cardinality(Left) + 1
BY LeftFinite, FS_AddElement

LEMMA LeftLess ==
  ASSUME Sim!SimAssumption, NEW c \in Left, Left' = Left \ {c}
  PROVE  Cardinality(Left') = Cardinality(Left) - 1
BY LeftFinite, FS_RemoveElement

(* The type invariant, the set of the Booleans apart.                      *)
ClientSet == [at : Kinds, port : Ports \cup {NoPort}]
ProcTyped ==
  /\ process \in {"none", "up", "listening", "ended"}
  /\ dbgport \in Ports \cup {NoPort} /\ port \in Ports \cup {NoPort}
  /\ shuttingDown \in BOOLEAN /\ connecting \in BOOLEAN /\ connected \in BOOLEAN
  /\ late \in BOOLEAN /\ spinning \in BOOLEAN /\ orderly \in BOOLEAN
  /\ remote \in Clients \cup {NoClient} /\ retries \in Nat
  /\ client \in [Clients -> ClientSet]
  /\ waiting \subseteq Calls

ProcIs ==
  /\ Sim!SimAssumption /\ ProcTyped
  /\ Cardinality(Left) + retries <= Cardinality(Clients)
  /\ orderly => Channel

LEMMA ProcParts == ASSUME Sim!SimAssumption, ProcTyped,
                          Cardinality(Left) + retries <= Cardinality(Clients)
                   PROVE  Sim!TypeOK
<1>1. retries \in 0..Cardinality(Clients) BY LeftFinite DEF ProcTyped
<1>2. retries \in 0..Sim!Cardinality(Clients) BY <1>1, SameSets
<1>3. client \in [Clients -> [at : Sim!Open \cup {"trying", "closing", "closed"},
                              port : Ports \cup {NoPort}]]
  BY DEF ProcTyped, ClientSet, Kinds
<1> QED BY <1>2, <1>3 DEF ProcTyped, Sim!TypeOK

LEMMA PendingIs == Sim!Pending = Cardinality(Left) + retries
<1>1. Clients \ Sim!Away = Left BY DEF Sim!Away, Left
<1>2. Sim!Pending = Sim!Cardinality(Clients \ Sim!Away) + retries BY DEF Sim!Pending
<1>3. Sim!Cardinality(Left) = Cardinality(Left) BY SameSets
<1> QED BY <1>1, <1>2, <1>3

LEMMA ProcInit == ASSUME Sim!SimAssumption, Sim!Init PROVE ProcIs
<1>1. ProcTyped
  <2>1. client \in [Clients -> ClientSet] BY DEF Sim!Init, ClientSet, Kinds
  <2> QED BY <2>1 DEF Sim!Init, ProcTyped
<1>2. Left = {} /\ retries = 0 BY DEF Left, Sim!Init
<1>3. Cardinality(Left) = 0 /\ Cardinality(Clients) \in Nat BY <1>2, FS_EmptySet, LeftFinite
<1>4. Channel BY <1>2, <1>3 DEF Channel, Sim!Init, Sim!Open
<1> QED BY <1>1, <1>2, <1>3, <1>4 DEF ProcIs

(* Who is where, of the clients that have not closed.                      *)
LEMMA KindsAre ==
  /\ "trying" \notin Sim!Open /\ "closing" \notin Sim!Open /\ "closed" \notin Sim!Open
  /\ "open" \in Sim!Open /\ "watching" \in Sim!Open /\ "ready" \in Sim!Open
  /\ Linked = Sim!Open \cup {"closing"} /\ "trying" \notin Linked /\ "closed" \notin Linked
BY DEF Sim!Open, Linked

(* A client is at another place, and it is still there.                    *)
LEMMA ClientMoves ==
  ASSUME ProcTyped, NEW c \in Clients, NEW k \in Kinds, k # "closed",
         client[c].at # "closed", client' = [client EXCEPT ![c].at = k]
  PROVE  /\ client' \in [Clients -> ClientSet] /\ Left' = Left
         /\ client'[c].at = k
         /\ \A d \in Clients : d # c => client'[d] = client[d]
<1>1. client \in [Clients -> ClientSet] BY DEF ProcTyped
<1>2. client'[c] = [client[c] EXCEPT !.at = k] /\ client'[c].at = k BY <1>1 DEF ClientSet
<1>3. \A d \in Clients : d # c => client'[d] = client[d] BY <1>1
<1>4. client' \in [Clients -> ClientSet]
  <2>1. client'[c] \in ClientSet BY <1>1, <1>2 DEF ClientSet
  <2>2. \A d \in Clients : client'[d] \in ClientSet BY <1>1, <1>3, <2>1
  <2>3. client' = [d \in Clients |-> client'[d]] BY <1>1
  <2> QED BY <2>2, <2>3
<1>5. Left' = Left BY <1>2, <1>3 DEF Left
<1> QED BY <1>2, <1>3, <1>4, <1>5

(* What kill does to the clients of cl.                                    *)
LEMMA KilledIs ==
  ASSUME NEW cl \in [Clients -> ClientSet]
  PROVE  /\ Sim!Killed(cl) \in [Clients -> ClientSet]
         /\ \A c \in Clients : cl[c].at \in Sim!Open => Sim!Killed(cl)[c].at = "closing"
         /\ \A c \in Clients : cl[c].at \notin Sim!Open => Sim!Killed(cl)[c] = cl[c]
<1>1. \A c \in Clients : cl[c].at \in Sim!Open =>
         /\ Sim!Killed(cl)[c] = [cl[c] EXCEPT !.at = "closing"]
         /\ Sim!Killed(cl)[c].at = "closing" /\ Sim!Killed(cl)[c] \in ClientSet
  BY DEF Sim!Killed, ClientSet, Kinds
<1>2. \A c \in Clients : cl[c].at \notin Sim!Open => Sim!Killed(cl)[c] = cl[c]
  BY DEF Sim!Killed
<1>3. \A c \in Clients : Sim!Killed(cl)[c] \in ClientSet BY <1>1, <1>2
<1>4. Sim!Killed(cl) \in [Clients -> ClientSet] BY <1>3 DEF Sim!Killed
<1> QED BY <1>1, <1>2, <1>4

LEMMA KillToIs ==
  ASSUME NEW cl \in [Clients -> ClientSet], shuttingDown \in BOOLEAN, Sim!KillTo(cl)
  PROVE  /\ client' \in [Clients -> ClientSet] /\ shuttingDown' \in BOOLEAN
         /\ \A c \in Clients :
              \/ client'[c] = cl[c]
              \/ cl[c].at \in Sim!Open /\ client'[c].at = "closing"
         /\ Left' = {c \in Clients : cl[c].at # "closed"}
<1>1. client' = Sim!Killed(cl) \/ client' = cl BY DEF Sim!KillTo
<1>2. client' \in [Clients -> ClientSet] /\ shuttingDown' \in BOOLEAN
  BY <1>1, KilledIs DEF Sim!KillTo
<1>3. \A c \in Clients :
        \/ client'[c] = cl[c]
        \/ cl[c].at \in Sim!Open /\ client'[c].at = "closing"
  BY <1>1, KilledIs
<1>4. Left' = {c \in Clients : cl[c].at # "closed"} BY <1>3, KindsAre DEF Left
<1> QED BY <1>2, <1>3, <1>4

LEMMA Connects ==
  ASSUME Sim!SimAssumption, ProcTyped, NEW q \in Ports \cup {NoPort}, NEW n,
         Sim!ConnectDebuggerClient(q, n)
  PROVE  /\ port' = q /\ retries' = n /\ connected' = connected
         /\ connecting' \in BOOLEAN /\ client' \in [Clients -> ClientSet]
         /\ connected \/ connecting =>
              UNCHANGED <<connecting, client>> /\ Left' = Left
         /\ ~connected /\ ~connecting =>
              /\ connecting' = TRUE
              /\ Cardinality(Left') = Cardinality(Left) + 1
              /\ \E c \in Clients :
                   /\ client'[c].at = "trying" /\ client[c].at = "closed"
                   /\ \A d \in Clients : d # c => client'[d] = client[d]
<1>1. port' = q /\ retries' = n /\ connected' = connected BY DEF Sim!ConnectDebuggerClient
<1>2. CASE connected \/ connecting
  <2>1. UNCHANGED <<connecting, client>>
    BY <1>2 DEF Sim!ConnectDebuggerClient, Sim!Engaged
  <2>2. Left' = Left BY <2>1 DEF Left
  <2> QED BY <1>1, <1>2, <2>1, <2>2 DEF ProcTyped
<1>3. CASE ~connected /\ ~connecting
  <2>1. PICK c \in Sim!Away : client' = [client EXCEPT ![c] = [at |-> "trying", port |-> q]]
    BY <1>3 DEF Sim!ConnectDebuggerClient, Sim!Engaged
  <2>2. connecting' = TRUE BY <1>3 DEF Sim!ConnectDebuggerClient, Sim!Engaged
  <2>3. c \in Clients /\ client[c].at = "closed" /\ client \in [Clients -> ClientSet]
    BY <2>1 DEF Sim!Away, ProcTyped
  <2>4. /\ client'[c] = [at |-> "trying", port |-> q] /\ client'[c].at = "trying"
        /\ \A d \in Clients : d # c => client'[d] = client[d]
    BY <2>1, <2>3
  <2>5. Left' = Left \cup {c} /\ c \notin Left BY <2>3, <2>4 DEF Left
  <2>6. Cardinality(Left') = Cardinality(Left) + 1 BY <2>3, <2>5, LeftMore
  <2>7. client' \in [Clients -> ClientSet]
    <3>1. [at |-> "trying", port |-> q] \in ClientSet BY DEF ClientSet, Kinds
    <3> QED BY <2>1, <2>3, <3>1
  <2> QED BY <1>1, <1>3, <2>2, <2>3, <2>4, <2>6, <2>7
<1> QED BY <1>2, <1>3 DEF ProcTyped

(* A process is started, and an attempt begins if none is under way.       *)
LEMMA RemoteRuns ==
  ASSUME ProcIs, Sim!RemoteRun, waiting' \subseteq Calls, spinning' \in BOOLEAN
  PROVE  ProcIs'
<1>0. Sim!SimAssumption /\ ProcTyped /\ Cardinality(Left) \in Nat /\ retries \in Nat
      /\ Cardinality(Clients) \in Nat
  BY LeftFinite DEF ProcIs, ProcTyped
<1>1. /\ Sim!Pending < Sim!Cardinality(Clients)
      /\ process' = "up" /\ late' = FALSE /\ UNCHANGED <<shuttingDown, remote>>
      /\ orderly' = (orderly /\ Sim!Pending = 0)
  BY DEF Sim!RemoteRun, Sim!RunBound
<1>2. PICK q \in Sim!FoundPort : dbgport' = q /\ Sim!ConnectDebuggerClient(q, retries)
  BY DEF Sim!RemoteRun
<1>3. q \in Ports \cup {NoPort} BY <1>0, <1>2 DEF Sim!FoundPort, ProcTyped
<1>4. Cardinality(Left) + retries < Cardinality(Clients) BY <1>1, PendingIs, SameSets
<1>5. retries' = retries /\ connected' = connected /\ port' = q
      /\ connecting' \in BOOLEAN /\ client' \in [Clients -> ClientSet]
  BY <1>0, <1>2, <1>3, Connects
<1>6. ProcTyped' BY <1>0, <1>1, <1>2, <1>3, <1>5 DEF ProcTyped
<1>7. Cardinality(Left') = Cardinality(Left) \/ Cardinality(Left') = Cardinality(Left) + 1
  BY <1>0, <1>2, <1>3, Connects
<1>8. Cardinality(Left') + retries' <= Cardinality(Clients) BY <1>0, <1>4, <1>5, <1>7
<1>9. ASSUME orderly' PROVE Channel'
  <2>1. orderly /\ Cardinality(Left) + retries = 0 BY <1>1, <1>9, PendingIs
  <2>2. Channel /\ Cardinality(Left) = 0 /\ retries = 0 BY <1>0, <2>1 DEF ProcIs
  <2>3. \A c \in Clients : client[c].at = "closed" BY <1>0, <2>2, LeftNone DEF Left
  <2>4. ~connected /\ ~connecting /\ remote = NoClient
    BY <2>2, <2>3, KindsAre DEF Channel
  <2>5. PICK c \in Clients : client'[c].at = "trying"
                             /\ \A d \in Clients : d # c => client'[d] = client[d]
    BY <1>0, <1>2, <1>3, <2>4, Connects
  <2>6. Cardinality(Left') = 1
    <3>1. Cardinality(Left') = Cardinality(Left) + 1 BY <1>0, <1>2, <1>3, <2>4, Connects
    <3> QED BY <2>2, <3>1
  <2>7. \A d \in Clients : client'[d].at \notin Sim!Open BY <2>3, <2>5, KindsAre
  <2>8. ~connected' /\ remote' = NoClient /\ retries' = 0 BY <1>1, <1>5, <2>2, <2>4
  <2> QED BY <2>5, <2>6, <2>7, <2>8 DEF Channel, Sim!Open, Left
<1> QED BY <1>0, <1>6, <1>8, <1>9 DEF ProcIs, Sim!SimAssumption

(* Nothing of the connection changes.                                      *)
LEMMA SameChannel ==
  ASSUME ProcIs, ProcTyped', UNCHANGED <<connected, remote, retries, client, orderly>>,
         connecting' => connecting
  PROVE  ProcIs'
<1>1. Left' = Left BY DEF Left
<1>2. Channel => Channel' BY <1>1 DEF Channel, Linked, Sim!Open
<1> QED BY <1>1, <1>2 DEF ProcIs, Sim!SimAssumption

(* Clients that are killed stay there until they have closed.              *)
LEMMA KilledChannel ==
  ASSUME ProcIs, Sim!KillTo(client),
         UNCHANGED <<process, dbgport, port, connecting, connected, late, remote, retries,
                     waiting, orderly>>,
         spinning' \in BOOLEAN
  PROVE  ProcIs'
<1>0. Sim!SimAssumption /\ ProcTyped /\ client \in [Clients -> ClientSet]
      /\ shuttingDown \in BOOLEAN
  BY DEF ProcIs, ProcTyped
<1>1. client' \in [Clients -> ClientSet] /\ shuttingDown' \in BOOLEAN /\ Left' = Left
  BY <1>0, KillToIs DEF Left
<1>2. \A c \in Clients : \/ client'[c] = client[c]
                         \/ client[c].at \in Sim!Open /\ client'[c].at = "closing"
  BY <1>0, KillToIs
<1>3. ProcTyped' BY <1>0, <1>1 DEF ProcTyped
<1>4. ASSUME Channel PROVE Channel'
  <2>1. \A c \in Clients : client'[c].at \in Sim!Open => connected
    BY <1>2, <1>4, KindsAre DEF Channel
  <2>2. \A c \in Clients : client[c].at \in Linked => client'[c].at \in Linked
    BY <1>2, KindsAre
  <2>3. \A c \in Clients : client[c].at \in {"trying", "closing"} =>
                             client'[c].at \in {"trying", "closing"}
    BY <1>2, KindsAre
  <2>4. connected => \E c \in Clients : client'[c].at \in Linked BY <1>4, <2>2 DEF Channel
  <2>5. connecting => \E c \in Clients : client'[c].at \in {"trying", "closing"}
    BY <1>4, <2>3 DEF Channel
  <2>6. remote # NoClient => connected /\ remote \in Clients /\ client'[remote].at \in Linked
    BY <1>4, <2>2 DEF Channel
  <2>7. Cardinality(Left') + retries' <= 1 BY <1>1, <1>4 DEF Channel
  <2> QED BY <1>1, <1>4, <2>1, <2>4, <2>5, <2>6, <2>7 DEF Channel, Linked, Sim!Open
<1> QED BY <1>0, <1>1, <1>3, <1>4 DEF ProcIs, Sim!SimAssumption

(* A client connects, fails, drops or gets an answer.                      *)
LEMMA MovedChannel ==
  ASSUME ProcIs, NEW c \in Clients, NEW k \in Kinds, k # "closed", client[c].at # "closed",
         client' = [client EXCEPT ![c].at = k], ProcTyped', UNCHANGED <<retries, orderly>>,
         Channel =>
           /\ k \in Sim!Open => connected'
           /\ k \notin Sim!Open => UNCHANGED connected
           /\ connected => connected' /\ k \in Linked
           /\ connecting' => connecting /\ k \in {"trying", "closing"}
           /\ remote' = remote \/ (remote' = c /\ k \in Linked /\ connected')
  PROVE  ProcIs'
<1>0. Sim!SimAssumption /\ ProcTyped BY DEF ProcIs
<1>1. /\ Left' = Left /\ client'[c].at = k
      /\ \A d \in Clients : d # c => client'[d] = client[d]
  BY <1>0, ClientMoves
<1>2. c \in Left BY DEF Left
<1>3. ASSUME Channel PROVE Channel'
  <2>1. \A d \in Clients : client'[d].at \in Sim!Open => connected'
    BY <1>1, <1>3 DEF Channel
  <2>2. connected' => \E d \in Clients : client'[d].at \in Linked
    <3>1. k \in Sim!Open => k \in Linked BY DEF Linked
    <3> QED BY <1>1, <1>3, <3>1
  <2>3. connecting' => \E d \in Clients : client'[d].at \in {"trying", "closing"}
    BY <1>1, <1>3
  <2>4. remote' # NoClient =>
          connected' /\ remote' \in Clients /\ client'[remote'].at \in Linked
    BY <1>1, <1>3 DEF Channel
  <2>5. Cardinality(Left') + retries' <= 1 BY <1>1, <1>3 DEF Channel
  <2> QED BY <1>1, <2>1, <2>2, <2>3, <2>4, <2>5 DEF Channel, Linked, Sim!Open
<1> QED BY <1>0, <1>1, <1>3 DEF ProcIs, Sim!SimAssumption

(* A closed socket becomes a timer, or nothing is left of the attempt.     *)
LEMMA ClosedChannel ==
  ASSUME ProcIs, NEW c \in Clients, Sim!ClientClosed(c)
  PROVE  ProcIs'
<1> DEFINE cl == [client EXCEPT ![c] = [at |-> "closed", port |-> NoPort]]
<1>0. Sim!SimAssumption /\ ProcTyped /\ client \in [Clients -> ClientSet]
      /\ shuttingDown \in BOOLEAN /\ Cardinality(Left) \in Nat /\ retries \in Nat
      /\ Cardinality(Clients) \in Nat
  BY LeftFinite DEF ProcIs, ProcTyped
<1>1. /\ client[c].at = "closing" /\ connecting' = FALSE
      /\ UNCHANGED <<process, dbgport, port, late, waiting, spinning, orderly>>
  BY DEF Sim!ClientClosed
<1>2. cl \in [Clients -> ClientSet] /\ cl[c].at = "closed"
      /\ \A d \in Clients : d # c => cl[d] = client[d]
  <2>1. [at |-> "closed", port |-> NoPort] \in ClientSet BY DEF ClientSet, Kinds
  <2> QED BY <1>0, <2>1
<1> HIDE DEF cl
<1>3. \/ /\ ~connected /\ UNCHANGED <<remote, connected>>
         /\ \/ retries' = retries /\ Sim!KillTo(cl)
            \/ retries' = retries + 1 /\ client' = cl /\ shuttingDown' = shuttingDown
      \/ /\ remote' = NoClient /\ connected' = FALSE /\ client' = cl
         /\ UNCHANGED <<retries, shuttingDown>>
  BY DEF Sim!ClientClosed, Sim!KeepTrying, cl
<1>4. /\ client' \in [Clients -> ClientSet] /\ shuttingDown' \in BOOLEAN
      /\ \A d \in Clients : \/ client'[d] = cl[d]
                            \/ cl[d].at \in Sim!Open /\ client'[d].at = "closing"
      /\ Left' = {d \in Clients : cl[d].at # "closed"}
  <2>1. CASE client' = cl /\ shuttingDown' = shuttingDown BY <1>0, <1>2, <2>1 DEF Left
  <2>2. CASE Sim!KillTo(cl) BY <1>0, <1>2, <2>2, KillToIs
  <2> QED BY <1>3, <2>1, <2>2
<1>5. c \in Left /\ Left' = Left \ {c} BY <1>1, <1>2, <1>4 DEF Left
<1>6. Cardinality(Left') = Cardinality(Left) - 1 BY <1>0, <1>5, LeftLess
<1>7. retries' = retries \/ retries' = retries + 1 BY <1>3
<1>8. retries' \in Nat /\ connected' \in BOOLEAN /\ remote' \in Clients \cup {NoClient}
  <2>1. retries' \in Nat BY <1>0, <1>7
  <2>2. connected' = connected \/ connected' = FALSE BY <1>3
  <2>3. remote' = remote \/ remote' = NoClient BY <1>3
  <2> QED BY <1>0, <2>1, <2>2, <2>3 DEF ProcTyped
<1>9. ProcTyped' BY <1>0, <1>1, <1>4, <1>8 DEF ProcTyped
<1>10. Cardinality(Left') + retries' <= Cardinality(Clients)
  BY <1>0, <1>6, <1>7 DEF ProcIs
<1>11. ASSUME Channel PROVE Channel'
  <2>1. Cardinality(Left) <= 1 BY <1>0, <1>11 DEF Channel
  <2>2. \A d \in Clients : d # c => client[d].at = "closed"
    <3>1. \A d \in Left : d = c BY <1>0, <1>5, <2>1, LeftOne
    <3> QED BY <3>1 DEF Left
  <2>3. \A d \in Clients : client'[d].at = "closed" BY <1>2, <1>4, <2>2, KindsAre
  <2>4. ~connected' /\ remote' = NoClient BY <1>3, <1>11 DEF Channel
  <2>5. Cardinality(Left') + retries' <= 1 BY <1>0, <1>6, <1>7, <1>11 DEF Channel
  <2> QED BY <1>1, <2>3, <2>4, <2>5, KindsAre DEF Channel, Linked, Sim!Open
<1> QED BY <1>0, <1>1, <1>9, <1>10, <1>11 DEF ProcIs, Sim!SimAssumption

(* A timer becomes an attempt, unless there is one.                        *)
LEMMA TimerChannel ==
  ASSUME ProcIs, Sim!RetryTimer
  PROVE  ProcIs'
<1>0. Sim!SimAssumption /\ ProcTyped /\ Cardinality(Left) \in Nat /\ retries \in Nat
      /\ Cardinality(Clients) \in Nat
  BY LeftFinite DEF ProcIs, ProcTyped
<1>1. retries > 0 /\ UNCHANGED <<process, dbgport, shuttingDown, late, remote, waiting,
                                 spinning, orderly>>
  BY DEF Sim!RetryTimer
<1>2. PICK q : /\ q \in (IF Sim!Engaged THEN {port} ELSE Sim!FoundPort)
               /\ Sim!ConnectDebuggerClient(q, retries - 1)
  BY DEF Sim!RetryTimer
<1>3. q \in Ports \cup {NoPort} BY <1>0, <1>2 DEF Sim!FoundPort, ProcTyped
<1>4. retries' = retries - 1 /\ connected' = connected /\ port' = q
      /\ connecting' \in BOOLEAN /\ client' \in [Clients -> ClientSet]
  BY <1>0, <1>2, <1>3, Connects
<1>5. retries' \in Nat BY <1>0, <1>1, <1>4
<1>6. ProcTyped' BY <1>0, <1>1, <1>3, <1>4, <1>5 DEF ProcTyped
<1>7. Cardinality(Left') = Cardinality(Left) \/ Cardinality(Left') = Cardinality(Left) + 1
  BY <1>0, <1>2, <1>3, Connects
<1>8. Cardinality(Left') + retries' <= Cardinality(Clients)
  <2>1. Cardinality(Left) + retries <= Cardinality(Clients) BY DEF ProcIs
  <2> QED BY <1>0, <1>4, <1>7, <2>1
<1>9. ASSUME Channel PROVE Channel'
  <2>1. Cardinality(Left) = 0 /\ retries = 1
    <3>1. Cardinality(Left) + retries <= 1 BY <1>9 DEF Channel
    <3> QED BY <1>0, <1>1, <3>1
  <2>2. \A c \in Clients : client[c].at = "closed" BY <1>0, <2>1, LeftNone DEF Left
  <2>3. ~connected /\ ~connecting /\ remote = NoClient
    BY <1>9, <2>2, KindsAre DEF Channel
  <2>4. PICK c \in Clients : client'[c].at = "trying"
                             /\ \A d \in Clients : d # c => client'[d] = client[d]
    BY <1>0, <1>2, <1>3, <2>3, Connects
  <2>5. Cardinality(Left') = Cardinality(Left) + 1 BY <1>0, <1>2, <1>3, <2>3, Connects
  <2>6. \A d \in Clients : client'[d].at \notin Sim!Open BY <2>2, <2>4, KindsAre
  <2>7. ~connected' /\ remote' = NoClient BY <1>1, <1>4, <2>3
  <2>8. Cardinality(Left') + retries' <= 1 BY <1>4, <2>1, <2>5
  <2> QED BY <2>4, <2>6, <2>7, <2>8 DEF Channel, Sim!Open
<1> QED BY <1>0, <1>1, <1>6, <1>8, <1>9 DEF ProcIs, Sim!SimAssumption

LEMMA ProcStep == ASSUME ProcIs, [Sim!Next]_(Sim!vars) PROVE ProcIs'
<1> USE DEF Sim!conn
<1>0. ProcTyped BY DEF ProcIs
<1>1. ASSUME NEW k \in Calls, Sim!Run(k) PROVE ProcIs'
  <2>1. waiting' \subseteq Calls /\ spinning' \in BOOLEAN
    BY <1>0, <1>1 DEF Sim!Run, ProcTyped
  <2>2. CASE Sim!RemoteRun BY <2>1, <2>2, RemoteRuns
  <2>3. CASE UNCHANGED <<process, dbgport, shuttingDown, late, remote, orderly, port,
                         connecting, connected, retries, client>>
    <3>1. ProcTyped' BY <1>0, <2>1, <2>3 DEF ProcTyped
    <3> QED BY <2>3, <3>1, SameChannel
  <2> QED BY <1>1, <2>2, <2>3 DEF Sim!Run
<1>2. CASE Sim!Kill
  <2>1. spinning' \in BOOLEAN BY <1>0, <1>2 DEF Sim!Kill, ProcTyped
  <2> QED BY <1>2, <2>1, KilledChannel DEF Sim!Kill
<1>3. CASE Sim!ToggleOn
  <2>1. waiting' \subseteq Calls /\ spinning' \in BOOLEAN
    BY <1>0, <1>3 DEF Sim!ToggleOn, ProcTyped, Sim!IsRunning
  <2>2. CASE Sim!RemoteRun BY <2>1, <2>2, RemoteRuns
  <2>3. CASE UNCHANGED <<process, dbgport, shuttingDown, late, remote, orderly, port,
                         connecting, connected, retries, client>>
    <3>1. ProcTyped' BY <1>0, <2>1, <2>3 DEF ProcTyped
    <3> QED BY <2>3, <3>1, SameChannel
  <2> QED BY <1>3, <2>2, <2>3 DEF Sim!ToggleOn
<1>4. CASE Sim!ToggleOff
  <2>1. spinning' \in BOOLEAN BY <1>4 DEF Sim!ToggleOff, Sim!IsRunning
  <2> QED BY <1>4, <2>1, KilledChannel DEF Sim!ToggleOff
<1>5. CASE Sim!ProcessListens \/ Sim!ProcessEnds \/ Sim!ProcessDone \/ Sim!TimePasses
  <2>1. ProcTyped'
    BY <1>0, <1>5 DEF Sim!ProcessListens, Sim!ProcessEnds, Sim!ProcessDone, Sim!TimePasses,
                      ProcTyped
  <2> QED BY <1>5, <2>1, SameChannel
          DEF Sim!ProcessListens, Sim!ProcessEnds, Sim!ProcessDone, Sim!TimePasses
<1>6. ASSUME NEW c \in Clients, Sim!ClientConnected(c) PROVE ProcIs'
  <2>1. "open" \in Kinds BY DEF Kinds, Sim!Open
  <2>2. client' \in [Clients -> ClientSet]
    BY <1>0, <1>6, <2>1, ClientMoves DEF Sim!ClientConnected
  <2>3. ProcTyped' BY <1>0, <1>6, <2>2 DEF Sim!ClientConnected, ProcTyped
  <2> QED BY <1>6, <2>1, <2>3, KindsAre, MovedChannel DEF Sim!ClientConnected
<1>7. ASSUME NEW c \in Clients, Sim!ClientFails(c) PROVE ProcIs'
  <2>1. "closing" \in Kinds BY DEF Kinds
  <2>2. client' \in [Clients -> ClientSet]
    BY <1>0, <1>7, <2>1, ClientMoves DEF Sim!ClientFails
  <2>3. ProcTyped' BY <1>0, <1>7, <2>2 DEF Sim!ClientFails, ProcTyped
  <2> QED BY <1>7, <2>1, <2>3, KindsAre, MovedChannel DEF Sim!ClientFails
<1>8. ASSUME NEW c \in Clients, Sim!ClientDrops(c) PROVE ProcIs'
  <2>1. "closing" \in Kinds BY DEF Kinds
  <2>2. client[c].at # "closed" BY <1>8, KindsAre DEF Sim!ClientDrops
  <2>3. client' \in [Clients -> ClientSet]
    BY <1>0, <1>8, <2>1, <2>2, ClientMoves DEF Sim!ClientDrops
  <2>4. ProcTyped' BY <1>0, <1>8, <2>3 DEF Sim!ClientDrops, ProcTyped
  <2> QED BY <1>8, <2>1, <2>2, <2>4, KindsAre, MovedChannel DEF Sim!ClientDrops
<1>9. ASSUME NEW c \in Clients, Sim!ClientReady(c) \/ Sim!Ready(c) PROVE ProcIs'
  <2>1. PICK k \in {"watching", "ready"} :
          /\ client' = [client EXCEPT ![c].at = k] /\ client[c].at \in Sim!Open
          /\ remote' = remote \/ remote' = c
          /\ UNCHANGED <<process, dbgport, port, shuttingDown, connecting, connected, late,
                         retries, orderly>>
          /\ waiting' \in {waiting, {}} /\ spinning' \in {spinning, FALSE}
    BY <1>9, KindsAre DEF Sim!ClientReady, Sim!Ready, Sim!Uncalled
  <2>2. k \in Kinds /\ k \in Sim!Open /\ k \in Linked /\ k # "closed" /\ client[c].at # "closed"
    BY <2>1, KindsAre DEF Kinds
  <2>3. client' \in [Clients -> ClientSet] BY <1>0, <2>1, <2>2, ClientMoves
  <2>4. ProcTyped'
    <3>1. remote' \in Clients \cup {NoClient} BY <1>0, <2>1 DEF ProcTyped
    <3>2. waiting' \subseteq Calls
      <4>1. waiting' = waiting \/ waiting' = {} BY <2>1
      <4> QED BY <1>0, <4>1 DEF ProcTyped
    <3>3. spinning' \in BOOLEAN
      <4>1. spinning' = spinning \/ spinning' = FALSE BY <2>1
      <4> QED BY <1>0, <4>1 DEF ProcTyped
    <3>4. UNCHANGED <<process, dbgport, port, shuttingDown, connecting, connected, late,
                      retries, orderly>>
      BY <2>1
    <3> QED BY <1>0, <2>3, <3>1, <3>2, <3>3, <3>4 DEF ProcTyped
  <2>5. Channel => connected BY <2>1 DEF Channel
  <2>6. Channel => ~connecting
    <3> SUFFICES ASSUME Channel, connecting PROVE FALSE
      OBVIOUS
    <3>1. PICK d \in Clients : client[d].at \in {"trying", "closing"} BY DEF Channel
    <3>2. Cardinality(Left) <= 1
      <4>1. Cardinality(Left) \in Nat /\ retries \in Nat BY <1>0, LeftFinite DEF ProcIs, ProcTyped
      <4> QED BY <4>1 DEF Channel
    <3>3. c \in Left /\ d \in Left BY <2>2, <3>1 DEF Left
    <3>4. c = d BY <3>2, <3>3, LeftOne DEF ProcIs
    <3> QED BY <2>1, <3>1, <3>4, KindsAre
  <2> QED BY <2>1, <2>2, <2>4, <2>5, <2>6, MovedChannel
<1>10. ASSUME NEW c \in Clients, Sim!ClientClosed(c) PROVE ProcIs'
  BY <1>10, ClosedChannel
<1>11. CASE Sim!RetryTimer BY <1>11, TimerChannel
<1>12. CASE UNCHANGED Sim!vars
  <2>1. ProcTyped' BY <1>0, <1>12 DEF Sim!vars, ProcTyped
  <2> QED BY <1>12, <2>1, SameChannel DEF Sim!vars
<1> QED BY <1>1, <1>2, <1>3, <1>4, <1>5, <1>6, <1>7, <1>8, <1>9, <1>10, <1>11, <1>12
       DEF Sim!Next

LEMMA ProcOne == ASSUME ProcIs PROVE Sim!OneChannel
<1> SUFFICES ASSUME orderly
             PROVE  /\ Sim!Pending <= 1
                    /\ connected => \E c \in Clients : client[c].at \in Linked
                    /\ connecting /\ Sim!IsRunning =>
                         \E c \in Clients : client[c].at \in {"trying", "closing"}
                    /\ Sim!IsReady => remote \notin Sim!Away
  BY DEF Sim!OneChannel, Linked
<1>1. Channel BY DEF ProcIs
<1>2. Sim!IsReady => remote \notin Sim!Away
  BY <1>1, KindsAre DEF Channel, Sim!IsReady, Sim!Away
<1> QED BY <1>1, <1>2, PendingIs DEF Channel

-----------------------------------------------------------------------------
(* The queries over the messages of the workers.  Letters go to a worker;  *)
(* letters, replies and pieces come back.                                  *)
Letter == [msg : {"query", "readStringFully", "log"}, count : Nat, query : Queries \cup {Messages!None}]
Reply == [msg : {"query", "readStringFully"}, count : Nat, query : Queries \cup {Messages!None}, ok : BOOLEAN]
Piece == [msg : {"data"}, service : Services, query : Queries]
Mail == Letter \cup Reply \cup Piece

(* The request a worker answers, and where a query is that waits for it.   *)
Name(w) == IF w = "util" THEN "query" ELSE "readStringFully"
Phase(w) == IF w = "util" THEN "query" ELSE "reading"

(* The queries whose request (or answer) is in a channel; what is in it    *)
(* finds its callback; no query is in it twice.                            *)
Asks(s, w) == {q \in Queries : \E i \in DOMAIN s : s[i].msg = Name(w) /\ s[i].query = q}
Finds(s, w, cb) == \A i \in DOMAIN s : s[i].msg = Name(w) =>
                     Messages!Slug(s[i]) \in DOMAIN cb /\ cb[Messages!Slug(s[i])] = s[i].query
Single(s, w) == \A i, j \in DOMAIN s :
                  s[i].msg = Name(w) /\ s[j].msg = Name(w) /\ s[i].query = s[j].query => i = j

(* The pieces of a query, and that its answer comes after them.            *)
PiecesOf(s, q) == {i \in DOMAIN s : s[i].msg = "data" /\ s[i].query = q}
PiecesFirst(s) == \A i, j \in DOMAIN s :
    s[i].msg = "readStringFully" /\ s[j].msg = "data" /\ s[i].query = s[j].query => j < i

(* Callbacks are kept under the counters that were given out, one for a    *)
(* query.                                                                  *)
Given(cb, w, n) == \A s \in DOMAIN cb :
    /\ s[1] = Name(w) /\ s[2] \in Nat /\ s[2] <= n /\ cb[s] \in Queries
    /\ \A t \in DOMAIN cb : cb[s] = cb[t] => s = t
HeldBy(cb) == {cb[s] : s \in DOMAIN cb}

LEMMA NoMail ==
  ASSUME NEW w, NEW cb, NEW q
  PROVE  /\ Asks(<<>>, w) = {} /\ Finds(<<>>, w, cb) /\ Single(<<>>, w)
         /\ PiecesOf(<<>>, q) = {} /\ PiecesFirst(<<>>)
BY DEF Asks, Finds, Single, PiecesOf, PiecesFirst

(* What a channel is after its first message was taken.                    *)
LEMMA TakenFields ==
  ASSUME NEW S, NEW s \in Seq(S), s # <<>>
  PROVE  /\ Head(s) \in S /\ Head(s) = s[1] /\ 1 \in DOMAIN s /\ Tail(s) \in Seq(S)
         /\ \A i \in DOMAIN Tail(s) : i \in Nat /\ i + 1 \in DOMAIN s /\ Tail(s)[i] = s[i + 1]
         /\ \A i \in DOMAIN s : i \in Nat /\ (i # 1 => i - 1 \in DOMAIN Tail(s))
OBVIOUS

LEMMA TakenAsks ==
  ASSUME NEW S, NEW s \in Seq(S), s # <<>>, NEW w, Single(s, w)
  PROVE  /\ Single(Tail(s), w)
         /\ \A q \in Queries : q \in Asks(Tail(s), w) <=>
              q \in Asks(s, w) /\ ~(Head(s).msg = Name(w) /\ Head(s).query = q)
<1> DEFINE t == Tail(s)
<1>1. Single(t, w)
  <2> SUFFICES ASSUME NEW i \in DOMAIN t, NEW j \in DOMAIN t, t[i].msg = Name(w), t[j].msg = Name(w),
                      t[i].query = t[j].query
               PROVE  i = j
    BY DEF Single
  <2>1. i + 1 = j + 1 BY TakenFields DEF Single
  <2> QED BY <2>1, TakenFields
<1>2. ASSUME NEW q \in Asks(t, w) PROVE q \in Asks(s, w) /\ ~(Head(s).msg = Name(w) /\ Head(s).query = q)
  <2>1. PICK i \in DOMAIN t : t[i].msg = Name(w) /\ t[i].query = q BY DEF Asks
  <2>2. i + 1 \in DOMAIN s /\ s[i + 1].msg = Name(w) /\ s[i + 1].query = q BY <2>1, TakenFields
  <2>3. q \in Asks(s, w) BY <2>2 DEF Asks
  <2>4. i \in Nat /\ i + 1 # 1
    <3>1. i \in Nat /\ i # 0 OBVIOUS
    <3> QED BY <3>1
  <2>5. ~(Head(s).msg = Name(w) /\ Head(s).query = q) BY <2>2, <2>4, TakenFields DEF Single
  <2> QED BY <2>3, <2>5
<1>3. ASSUME NEW q \in Asks(s, w), ~(Head(s).msg = Name(w) /\ Head(s).query = q) PROVE q \in Asks(t, w)
  <2>1. PICK i \in DOMAIN s : s[i].msg = Name(w) /\ s[i].query = q BY DEF Asks
  <2>2. i # 1 BY <1>3, <2>1, TakenFields
  <2>3. i - 1 \in DOMAIN t /\ (i - 1) + 1 = i BY <2>2, TakenFields
  <2>4. t[i - 1] = s[i] BY <2>3, TakenFields
  <2> QED BY <2>1, <2>3, <2>4 DEF Asks
<1>4. \A q \in Queries : q \in Asks(t, w) => q \in Asks(s, w) /\ ~(Head(s).msg = Name(w) /\ Head(s).query = q)
  BY <1>2
<1> QED BY <1>1, <1>3, <1>4

LEMMA TakenFinds ==
  ASSUME NEW S, NEW s \in Seq(S), s # <<>>, NEW w, NEW cb, Finds(s, w, cb)
  PROVE  Finds(Tail(s), w, cb)
BY TakenFields DEF Finds

LEMMA TakenFirst ==
  ASSUME NEW S, NEW s \in Seq(S), s # <<>>, PiecesFirst(s)
  PROVE  PiecesFirst(Tail(s))
<1> DEFINE t == Tail(s)
<1> SUFFICES ASSUME NEW i \in DOMAIN t, NEW j \in DOMAIN t, t[i].msg = "readStringFully",
                    t[j].msg = "data", t[i].query = t[j].query
             PROVE  j < i
  BY DEF PiecesFirst
<1>1. j + 1 < i + 1 BY TakenFields DEF PiecesFirst
<1> QED BY <1>1, TakenFields

LEMMA AnswerLast ==
  ASSUME NEW S, NEW s \in Seq(S), s # <<>>, PiecesFirst(s), Head(s).msg = "readStringFully"
  PROVE  PiecesOf(s, Head(s).query) = {}
<1> SUFFICES ASSUME NEW j \in PiecesOf(s, Head(s).query) PROVE FALSE
  OBVIOUS
<1>1. j < 1 BY TakenFields DEF PiecesOf, PiecesFirst
<1>2. j \in Nat /\ j # 0 BY DEF PiecesOf
<1> QED BY <1>1, <1>2

(* What it is after a message was posted.                                  *)
LEMMA PostedFields ==
  ASSUME NEW S, NEW s \in Seq(S), NEW m \in S
  PROVE  /\ Append(s, m) \in Seq(S) /\ s \o <<m>> = Append(s, m)
         /\ DOMAIN Append(s, m) = DOMAIN s \cup {Len(s) + 1}
         /\ Append(s, m)[Len(s) + 1] = m
         /\ \A i \in DOMAIN s : Append(s, m)[i] = s[i] /\ i \in Nat /\ i < Len(s) + 1
         /\ Len(s) + 1 \notin DOMAIN s
OBVIOUS

LEMMA PostedHead ==
  ASSUME NEW S, NEW s \in Seq(S), NEW m \in S, s # <<>>
  PROVE  Append(s, m) # <<>> /\ Head(Append(s, m)) = Head(s)
OBVIOUS

LEMMA PostedTwo ==
  ASSUME NEW S, NEW s \in Seq(S), NEW m \in S, NEW n \in S
  PROVE  s \o <<m, n>> = Append(Append(s, m), n)
OBVIOUS

LEMMA PostedAsks ==
  ASSUME NEW S, NEW s \in Seq(S), NEW m \in S, NEW w
  PROVE  /\ m.msg = Name(w) => Asks(Append(s, m), w) = Asks(s, w) \cup ({m.query} \cap Queries)
         /\ m.msg # Name(w) => Asks(Append(s, m), w) = Asks(s, w)
BY PostedFields DEF Asks

LEMMA PostedSingle ==
  ASSUME NEW S, NEW s \in Seq(S), NEW m \in S, NEW w, Single(s, w),
         m.msg = Name(w) => m.query \in Queries \ Asks(s, w)
  PROVE  Single(Append(s, m), w)
BY PostedFields DEF Asks, Single

LEMMA PostedFinds ==
  ASSUME NEW S, NEW s \in Seq(S), NEW m \in S, NEW w, NEW cb, Finds(s, w, cb),
         m.msg = Name(w) => Messages!Slug(m) \in DOMAIN cb /\ cb[Messages!Slug(m)] = m.query
  PROVE  Finds(Append(s, m), w, cb)
BY PostedFields DEF Finds

LEMMA PostedFirst ==
  ASSUME NEW S, NEW s \in Seq(S), NEW m \in S, PiecesFirst(s),
         m.msg = "data" => m.query \in Queries \ Asks(s, "io")
  PROVE  PiecesFirst(Append(s, m))
<1> DEFINE t == Append(s, m)
<1> SUFFICES ASSUME NEW i \in DOMAIN t, NEW j \in DOMAIN t, t[i].msg = "readStringFully",
                    t[j].msg = "data", t[i].query = t[j].query
             PROVE  j < i
  BY DEF PiecesFirst
<1>1. CASE i \in DOMAIN s /\ j \in DOMAIN s BY <1>1, PostedFields DEF PiecesFirst
<1>2. CASE i = Len(s) + 1 /\ j \in DOMAIN s BY <1>2, PostedFields
<1>3. CASE i = Len(s) + 1 /\ j = Len(s) + 1 BY <1>3, PostedFields
<1>4. CASE i \in DOMAIN s /\ j = Len(s) + 1
  BY <1>4, PostedFields DEF Asks, Name
<1> QED BY <1>1, <1>2, <1>3, <1>4, PostedFields

(* The pieces of a query in a channel, one less or one more.               *)
LEMMA PiecesFinite ==
  ASSUME NEW S, NEW s \in Seq(S), NEW q
  PROVE  /\ IsFiniteSet(PiecesOf(s, q)) /\ Cardinality(PiecesOf(s, q)) \in Nat
         /\ PiecesOf(s, q) \subseteq DOMAIN s
<1>1. PiecesOf(s, q) \subseteq 1..Len(s) /\ DOMAIN s = 1..Len(s) BY DEF PiecesOf
<1>2. IsFiniteSet(1..Len(s)) BY FS_Interval
<1> QED BY <1>1, <1>2, FS_Subset, FS_CardinalityType

LEMMA TakenPieces ==
  ASSUME NEW S, NEW s \in Seq(S), s # <<>>, NEW q
  PROVE  Cardinality(PiecesOf(s, q)) =
           Cardinality(PiecesOf(Tail(s), q)) + (IF Head(s).msg = "data" /\ Head(s).query = q THEN 1 ELSE 0)
<1> DEFINE P == PiecesOf(Tail(s), q)
           R == PiecesOf(s, q) \ {1}
           f == [i \in P |-> i + 1]
<1>1. \A i \in P : i + 1 \in R
  <2> SUFFICES ASSUME NEW i \in P PROVE i + 1 \in R
    OBVIOUS
  <2>1. i \in DOMAIN Tail(s) /\ i \in Nat /\ i # 0 BY DEF PiecesOf
  <2> QED BY <2>1, TakenFields DEF PiecesOf
<1>2. \A j \in R : j - 1 \in P /\ (j - 1) + 1 = j
  <2> SUFFICES ASSUME NEW j \in R PROVE j - 1 \in P /\ (j - 1) + 1 = j
    OBVIOUS
  <2>1. j \in DOMAIN s /\ j # 1 /\ s[j].msg = "data" /\ s[j].query = q BY DEF PiecesOf
  <2>2. j \in Nat /\ j - 1 \in DOMAIN Tail(s) /\ (j - 1) + 1 = j BY <2>1, TakenFields
  <2>3. Tail(s)[j - 1] = s[j] BY <2>2, TakenFields
  <2> QED BY <2>1, <2>2, <2>3 DEF PiecesOf
<1>3. f \in Bijection(P, R)
  <2>1. f \in [P -> R] BY <1>1
  <2>2. \A i, j \in P : f[i] = f[j] => i = j BY TakenFields DEF PiecesOf
  <2>3. \A j \in R : \E i \in P : f[i] = j BY <1>2
  <2> HIDE DEF f, P, R
  <2> QED BY <2>1, <2>2, <2>3 DEF Bijection, Injection, Surjection, IsInjective
<1>4. IsFiniteSet(P) BY PiecesFinite, TakenFields
<1>5. Cardinality(R) = Cardinality(P) BY <1>3, <1>4, FS_Bijection DEF ExistsBijection
<1>6. /\ 1 \in PiecesOf(s, q) <=> Head(s).msg = "data" /\ Head(s).query = q
      /\ IsFiniteSet(PiecesOf(s, q)) /\ Cardinality(PiecesOf(s, q)) \in Nat
  <2>1. Head(s) = s[1] /\ 1 \in DOMAIN s BY TakenFields
  <2>2. 1 \in PiecesOf(s, q) <=> Head(s).msg = "data" /\ Head(s).query = q BY <2>1 DEF PiecesOf
  <2> QED BY <2>2, PiecesFinite
<1>7. Cardinality(R) = IF 1 \in PiecesOf(s, q) THEN Cardinality(PiecesOf(s, q)) - 1
                                               ELSE Cardinality(PiecesOf(s, q))
  BY <1>6, FS_RemoveElement
<1> QED BY <1>5, <1>6, <1>7

LEMMA PostedPieces ==
  ASSUME NEW S, NEW s \in Seq(S), NEW m \in S, NEW q
  PROVE  Cardinality(PiecesOf(Append(s, m), q)) =
           Cardinality(PiecesOf(s, q)) + (IF m.msg = "data" /\ m.query = q THEN 1 ELSE 0)
<1>1. CASE m.msg = "data" /\ m.query = q
  <2>1. PiecesOf(Append(s, m), q) = PiecesOf(s, q) \cup {Len(s) + 1} BY <1>1, PostedFields DEF PiecesOf
  <2>2. Len(s) + 1 \notin PiecesOf(s, q) BY DEF PiecesOf
  <2> QED BY <1>1, <2>1, <2>2, PiecesFinite, FS_AddElement
<1>2. CASE ~(m.msg = "data" /\ m.query = q)
  <2>1. PiecesOf(Append(s, m), q) = PiecesOf(s, q) BY <1>2, PostedFields DEF PiecesOf
  <2> QED BY <1>2, <2>1, PiecesFinite
<1> QED BY <1>1, <1>2

(* One more callback, or one less.                                         *)
LEMMA CallbackKept ==
  ASSUME NEW cb, NEW w, NEW n \in Nat, Given(cb, w, n), NEW q \in Queries \ HeldBy(cb), NEW r,
         r.msg = Name(w), r.count = n + 1
  PROVE  /\ Given(Messages!With(cb, r, q), w, n + 1)
         /\ HeldBy(Messages!With(cb, r, q)) = HeldBy(cb) \cup {q}
         /\ Messages!Slug(r) \in DOMAIN Messages!With(cb, r, q)
         /\ Messages!With(cb, r, q)[Messages!Slug(r)] = q
         /\ \A s, v : Finds(s, v, cb) => Finds(s, v, Messages!With(cb, r, q))
<1> DEFINE k == Messages!Slug(r)
           d == Messages!With(cb, r, q)
<1>1. k[1] = Name(w) /\ k[2] = n + 1 BY DEF Messages!Slug
<1>2. k \notin DOMAIN cb
  <2> SUFFICES ASSUME k \in DOMAIN cb PROVE FALSE
    OBVIOUS
  <2> QED BY <1>1 DEF Given
<1>3. /\ DOMAIN d = DOMAIN cb \cup {k} /\ d[k] = q
      /\ \A s \in DOMAIN cb : d[s] = cb[s] /\ s # k
  BY <1>2 DEF Messages!With
<1>4. HeldBy(d) = HeldBy(cb) \cup {q} BY <1>3 DEF HeldBy
<1>5. Given(d, w, n + 1)
  <2> SUFFICES ASSUME NEW s \in DOMAIN d
               PROVE  /\ s[1] = Name(w) /\ s[2] \in Nat /\ s[2] <= n + 1 /\ d[s] \in Queries
                      /\ \A t \in DOMAIN d : d[s] = d[t] => s = t
    BY DEF Given
  <2>1. s[1] = Name(w) /\ s[2] \in Nat /\ s[2] <= n + 1 BY <1>1, <1>3 DEF Given
  <2>2. d[s] \in Queries BY <1>3 DEF Given
  <2>3. ASSUME NEW t \in DOMAIN d, d[s] = d[t] PROVE s = t BY <1>3, <2>3 DEF Given, HeldBy
  <2> QED BY <2>1, <2>2, <2>3
<1>6. \A s, v : Finds(s, v, cb) => Finds(s, v, d) BY <1>3 DEF Finds
<1> QED BY <1>3, <1>4, <1>5, <1>6
LEMMA CallbackHeld ==
  ASSUME NEW cb, NEW w, NEW n \in Nat, Given(cb, w, n), NEW q \in Queries \ HeldBy(cb), NEW r,
         r.msg = Name(w), r.count = n + 1
  PROVE  HeldBy(Messages!With(cb, r, q)) = HeldBy(cb) \cup {q}
BY CallbackKept

LEMMA CallbackGone ==
  ASSUME NEW cb, NEW w, NEW n \in Nat, Given(cb, w, n), NEW m, Messages!Slug(m) \in DOMAIN cb
  PROVE  /\ Given(Messages!Without(cb, m), w, n)
         /\ HeldBy(Messages!Without(cb, m)) = HeldBy(cb) \ {cb[Messages!Slug(m)]}
         /\ m.msg = Name(w)
         /\ cb[Messages!Slug(m)] \in Queries /\ cb[Messages!Slug(m)] \in HeldBy(cb)
         /\ \A s : Finds(s, w, cb) /\ cb[Messages!Slug(m)] \notin Asks(s, w)
                     => Finds(s, w, Messages!Without(cb, m))
<1> DEFINE k == Messages!Slug(m)
           d == Messages!Without(cb, m)
<1>1. DOMAIN d = DOMAIN cb \ {k} /\ \A s \in DOMAIN d : d[s] = cb[s] BY DEF Messages!Without
<1>2. m.msg = Name(w) /\ cb[k] \in Queries /\ cb[k] \in HeldBy(cb) BY DEF Messages!Slug, Given, HeldBy
<1>3. Given(d, w, n) BY <1>1 DEF Given
<1>4. HeldBy(d) = HeldBy(cb) \ {cb[k]} BY <1>1 DEF HeldBy, Given
<1>5. ASSUME NEW s, Finds(s, w, cb), cb[k] \notin Asks(s, w) PROVE Finds(s, w, d)
  <2> SUFFICES ASSUME NEW i \in DOMAIN s, s[i].msg = Name(w)
               PROVE  Messages!Slug(s[i]) \in DOMAIN d /\ d[Messages!Slug(s[i])] = s[i].query
    BY DEF Finds
  <2>1. Messages!Slug(s[i]) \in DOMAIN cb /\ cb[Messages!Slug(s[i])] = s[i].query BY <1>5 DEF Finds
  <2>2. s[i].query # cb[k] BY <1>2, <1>5 DEF Asks
  <2> QED BY <1>1, <2>1, <2>2
<1> QED BY <1>1, <1>2, <1>3, <1>4, <1>5

(* Whoever has a request under way has a callback.                         *)
LEMMA AskedHeld ==
  ASSUME NEW s, NEW w, NEW cb, Finds(s, w, cb), NEW q \in Asks(s, w)
  PROVE  q \in HeldBy(cb)
BY DEF Asks, Finds, HeldBy

LEMMA HeadAsks ==
  ASSUME NEW S, NEW s \in Seq(S), s # <<>>, NEW w, NEW cb, NEW n, Given(cb, w, n), Finds(s, w, cb),
         Head(s).msg = Name(w)
  PROVE  /\ Head(s).query \in Asks(s, w) /\ Messages!Slug(Head(s)) \in DOMAIN cb
         /\ cb[Messages!Slug(Head(s))] = Head(s).query
<1>1. Messages!Slug(s[1]) \in DOMAIN cb /\ cb[Messages!Slug(s[1])] = s[1].query BY TakenFields DEF Finds
<1>2. s[1].query \in Queries BY <1>1 DEF Given
<1> QED BY <1>1, <1>2, TakenFields DEF Asks

(* A worker, its two channels, the callbacks kept for it and its counter.  *)
Queued(w, s, m, cb, n) ==
  /\ Finds(s, w, cb) /\ Finds(m, w, cb) /\ Single(s, w) /\ Single(m, w)
  /\ Asks(s, w) \cap Asks(m, w) = {}
  /\ Given(cb, w, n)

LEMMA QueuedNames == /\ "log" # Name("util") /\ "log" # Name("io") /\ "data" # Name("util") /\ "data" # Name("io")
                     /\ Name("util") = "query" /\ Name("io") = "readStringFully"
                     /\ Phase("util") = "query" /\ Phase("io") = "reading"
BY DEF Name, Phase

LEMMA QueuedAsked ==
  ASSUME NEW w, NEW s \in Seq(Letter), NEW m \in Seq(Mail), NEW cb, NEW n \in Nat, Queued(w, s, m, cb, n),
         NEW q \in Queries \ HeldBy(cb), NEW r \in Letter, r.msg = Name(w), r.count = n + 1, r.query = q
  PROVE  Queued(w, Append(s, r), m, Messages!With(cb, r, q), n + 1)
<1> DEFINE d == Messages!With(cb, r, q)
<1>1. /\ Given(d, w, n + 1) /\ Messages!Slug(r) \in DOMAIN d /\ d[Messages!Slug(r)] = q
      /\ Finds(s, w, d) /\ Finds(m, w, d)
  BY CallbackKept DEF Queued
<1>2. q \notin Asks(s, w) /\ q \notin Asks(m, w) BY AskedHeld DEF Queued
<1>3. Finds(Append(s, r), w, d) BY <1>1, PostedFinds
<1>4. Single(Append(s, r), w) BY <1>2, PostedSingle DEF Queued
<1>5. Asks(Append(s, r), w) = Asks(s, w) \cup {q} BY PostedAsks
<1> QED BY <1>1, <1>2, <1>3, <1>4, <1>5 DEF Queued

LEMMA QueuedAnswer ==
  ASSUME NEW w, NEW s \in Seq(Letter), s # <<>>, Head(s).msg = Name(w), NEW m \in Seq(Mail), NEW cb,
         NEW n, Queued(w, s, m, cb, n),
         NEW a \in Mail, a.msg = Name(w), a.count = Head(s).count, a.query = Head(s).query
  PROVE  /\ Queued(w, Tail(s), Append(m, a), cb, n)
         /\ Head(s).query \in Asks(s, w)
         /\ Asks(Append(m, a), w) = Asks(m, w) \cup {Head(s).query}
<1> DEFINE q == Head(s).query
<1>1. q \in Asks(s, w) /\ Messages!Slug(Head(s)) \in DOMAIN cb /\ cb[Messages!Slug(Head(s))] = q
  BY HeadAsks DEF Queued
<1>2. Messages!Slug(a) = Messages!Slug(Head(s)) BY DEF Messages!Slug
<1>3. q \in Queries /\ q \notin Asks(m, w) BY <1>1 DEF Queued, Asks
<1>4. Single(Tail(s), w) /\ Finds(Tail(s), w, cb) BY TakenAsks, TakenFinds DEF Queued
<1>5. Finds(Append(m, a), w, cb) BY <1>1, <1>2, PostedFinds DEF Queued
<1>6. Single(Append(m, a), w) BY <1>3, PostedSingle DEF Queued
<1>7. Asks(Append(m, a), w) = Asks(m, w) \cup {q} BY <1>3, PostedAsks
<1>8. Asks(Tail(s), w) \cap (Asks(m, w) \cup {q}) = {}
  <2>1. \A p \in Asks(Tail(s), w) : p \in Queries BY DEF Asks
  <2>2. \A p \in Asks(Tail(s), w) : p \in Asks(s, w) /\ p # q BY <2>1, TakenAsks DEF Queued
  <2> QED BY <2>2 DEF Queued
<1> QED BY <1>1, <1>4, <1>5, <1>6, <1>7, <1>8 DEF Queued
LEMMA QueuedReply ==
  ASSUME NEW w, NEW s \in Seq(Letter), s # <<>>, Head(s).msg = Name(w), NEW m \in Seq(Mail), NEW cb,
         NEW n, Queued(w, s, m, cb, n),
         NEW a \in Mail, a.msg = Name(w), a.count = Head(s).count, a.query = Head(s).query
  PROVE  Queued(w, Tail(s), Append(m, a), cb, n)
BY QueuedAnswer
LEMMA AnswerAsks ==
  ASSUME NEW w, NEW s \in Seq(Letter), s # <<>>, Head(s).msg = Name(w), NEW m \in Seq(Mail), NEW cb,
         NEW n, Queued(w, s, m, cb, n),
         NEW a \in Mail, a.msg = Name(w), a.count = Head(s).count, a.query = Head(s).query
  PROVE  Asks(Append(m, a), w) = Asks(m, w) \cup {Head(s).query}
BY QueuedAnswer

LEMMA QueuedServed ==
  ASSUME NEW w, NEW s \in Seq(Letter), s # <<>>, NEW m, NEW cb, NEW n, Queued(w, s, m, cb, n)
  PROVE  Queued(w, Tail(s), m, cb, n) /\ \A p \in Asks(Tail(s), w) : p \in Asks(s, w)
<1>1. \A p \in Asks(Tail(s), w) : p \in Queries BY DEF Asks
<1>2. \A p \in Asks(Tail(s), w) : p \in Asks(s, w) BY <1>1, TakenAsks DEF Queued
<1>3. Single(Tail(s), w) /\ Finds(Tail(s), w, cb) BY TakenAsks, TakenFinds DEF Queued
<1> QED BY <1>2, <1>3 DEF Queued

LEMMA QueuedTaken ==
  ASSUME NEW w, NEW s, NEW m \in Seq(Mail), m # <<>>, NEW cb, NEW n, Queued(w, s, m, cb, n)
  PROVE  Queued(w, s, Tail(m), cb, n) /\ \A p \in Asks(Tail(m), w) : p \in Asks(m, w)
<1>1. \A p \in Asks(Tail(m), w) : p \in Queries BY DEF Asks
<1>2. \A p \in Asks(Tail(m), w) : p \in Asks(m, w) BY <1>1, TakenAsks DEF Queued
<1>3. Single(Tail(m), w) /\ Finds(Tail(m), w, cb) BY TakenAsks, TakenFinds DEF Queued
<1> QED BY <1>2, <1>3 DEF Queued

LEMMA QueuedPosted ==
  ASSUME NEW w, NEW s, NEW m \in Seq(Mail), NEW a \in Mail, a.msg # Name(w), NEW cb, NEW n,
         Queued(w, s, m, cb, n)
  PROVE  Queued(w, s, Append(m, a), cb, n) /\ Asks(Append(m, a), w) = Asks(m, w)
BY PostedAsks, PostedSingle, PostedFinds DEF Queued

LEMMA QueuedSent ==
  ASSUME NEW w, NEW s \in Seq(Letter), NEW m, NEW a \in Letter, a.msg # Name(w), NEW cb, NEW n,
         Queued(w, s, m, cb, n)
  PROVE  Queued(w, Append(s, a), m, cb, n) /\ Asks(Append(s, a), w) = Asks(s, w)
BY PostedAsks, PostedSingle, PostedFinds DEF Queued

LEMMA QueuedBack ==
  ASSUME NEW w, NEW s, NEW m \in Seq(Mail), m # <<>>, NEW cb, NEW n \in Nat, Queued(w, s, m, cb, n),
         Messages!Slug(Head(m)) \in DOMAIN cb
  PROVE  /\ Queued(w, s, Tail(m), Messages!Without(cb, Head(m)), n)
         /\ HeldBy(Messages!Without(cb, Head(m))) = HeldBy(cb) \ {Head(m).query}
         /\ Head(m).msg = Name(w) /\ cb[Messages!Slug(Head(m))] = Head(m).query
         /\ Head(m).query \in Asks(m, w) /\ Head(m).query \in HeldBy(cb) /\ Head(m).query \in Queries
         /\ \A p \in Asks(Tail(m), w) : p \in Asks(m, w)
<1> DEFINE q == Head(m).query
           d == Messages!Without(cb, Head(m))
<1>1. Given(cb, w, n) /\ Finds(s, w, cb) /\ Finds(m, w, cb) BY DEF Queued
<1>2. Head(m).msg = Name(w) BY <1>1, CallbackGone
<1>3. q \in Asks(m, w) /\ cb[Messages!Slug(Head(m))] = q BY <1>1, <1>2, HeadAsks
<1>4. /\ Given(d, w, n) /\ HeldBy(d) = HeldBy(cb) \ {q} /\ q \in Queries /\ q \in HeldBy(cb)
      /\ \A t : Finds(t, w, cb) /\ q \notin Asks(t, w) => Finds(t, w, d)
  BY <1>1, <1>3, CallbackGone
<1>5. Queued(w, s, Tail(m), cb, n) /\ \A p \in Asks(Tail(m), w) : p \in Asks(m, w) BY QueuedTaken
<1>6. q \notin Asks(Tail(m), w) BY <1>2, <1>4, TakenAsks DEF Queued
<1>7. q \notin Asks(s, w) BY <1>3 DEF Queued
<1>8. Finds(s, w, d) /\ Finds(Tail(m), w, d) BY <1>4, <1>5, <1>6, <1>7 DEF Queued
<1>9. Queued(w, s, Tail(m), d, n) BY <1>4, <1>5, <1>8 DEF Queued
<1> QED BY <1>2, <1>3, <1>4, <1>5, <1>9
LEMMA QueuedHeld ==
  ASSUME NEW w, NEW s, NEW m \in Seq(Mail), m # <<>>, NEW cb, NEW n \in Nat, Queued(w, s, m, cb, n),
         Messages!Slug(Head(m)) \in DOMAIN cb
  PROVE  HeldBy(Messages!Without(cb, Head(m))) = HeldBy(cb) \ {Head(m).query}
BY QueuedBack

-----------------------------------------------------------------------------
(* The inductive invariant.  Got(s, q): the pieces of q in a result.       *)
Got(s, q) == {i \in DOMAIN s : s[i] = q}
Stages == {"new", "query", "reading", "done", "rejected"}

MTyped ==
  /\ service \in [Queries -> Services] /\ at \in [Queries -> Stages]
  /\ fd \in [Queries -> Queries \cup {Messages!None}] /\ idx \in [Queries -> Nat]
  /\ result \in [Queries -> Seq(Queries)]
  /\ count \in [Messages!Workers -> Nat] /\ DOMAIN emitCb = Messages!Workers
  /\ free \in [Services -> Seq(Queries \cup {Messages!None})]
  /\ toWorker \in [Messages!Workers -> Seq(Letter)] /\ toMain \in [Messages!Workers -> Seq(Mail)]
  /\ reading \in Queries \cup {Messages!None}
  /\ answer \in [Queries -> Nat] /\ sent \in [Queries -> Nat]
  /\ shared \subseteq Queries /\ closed \in BOOLEAN

Calling(w) == \A q \in Queries : q \in HeldBy(emitCb[w]) <=> at[q] = Phase(w)
Queue(w) == Queued(w, toWorker[w], toMain[w], emitCb[w], count[w]) /\ Calling(w)

Reads ==
  /\ reading # Messages!None =>
       /\ ~closed /\ toWorker["io"] # <<>> /\ sent[reading] <= answer[reading]
       /\ Head(toWorker["io"]).query = reading /\ Head(toWorker["io"]).msg = "readStringFully"
  /\ \A q \in Asks(toWorker["io"], "io") : q # reading => sent[q] = 0
  /\ \A q \in Asks(toMain["io"], "io") : sent[q] = answer[q] /\ q \notin fails
  /\ PiecesFirst(toMain["io"])
  /\ \A i \in DOMAIN toMain["io"] : toMain["io"][i].msg = "data" =>
       LET q == toMain["io"][i].query IN
       q \in Queries /\ at[q] = "reading" /\ toMain["io"][i].service = service[q]
  /\ \A i \in DOMAIN toMain["util"] : toMain["util"][i].msg # "data"

Whole(q) ==
  /\ at[q] \in {"new", "query", "rejected"} => sent[q] = 0 /\ result[q] = <<>>
  /\ at[q] = "reading" /\ ~closed =>
       Cardinality(PiecesOf(toMain["io"], q)) + Cardinality(Got(result[q], q)) = sent[q]
  /\ at[q] = "done" => Cardinality(Got(result[q], q)) = answer[q] /\ q \notin fails
  /\ q \notin shared => Got(result[q], q) = DOMAIN result[q]

Listed ==
  /\ \A q \in Queries : /\ fd[q] \in {Messages!None, q}
                        /\ at[q] = "reading" => /\ idx[q] \in DOMAIN free[service[q]]
                                                /\ free[service[q]][idx[q]] = q
  /\ \A s \in Services : \A i \in DOMAIN free[s] : free[s][i] # Messages!None =>
       service[free[s][i]] = s /\ at[free[s][i]] = "reading" /\ idx[free[s][i]] = i
  /\ \A p, q \in Queries : p # q /\ service[p] = service[q] /\ at[p] = "reading" /\ at[q] = "reading"
                             => p \in shared

MIs == MTyped /\ Queue("util") /\ Queue("io") /\ Reads /\ (\A q \in Queries : Whole(q)) /\ Listed

LEMMA GotFinite ==
  ASSUME NEW s \in Seq(Queries), NEW q
  PROVE  /\ IsFiniteSet(Got(s, q)) /\ Cardinality(Got(s, q)) \in Nat
         /\ Got(s, q) \subseteq DOMAIN s
<1>1. Got(s, q) \subseteq 1..Len(s) /\ DOMAIN s = 1..Len(s) BY DEF Got
<1>2. IsFiniteSet(1..Len(s)) BY FS_Interval
<1> QED BY <1>1, <1>2, FS_Subset, FS_CardinalityType

(* A piece is added to what a query got.                                   *)
LEMMA GotMore ==
  ASSUME NEW s \in Seq(Queries), NEW q \in Queries, NEW p \in Queries
  PROVE  /\ Append(s, p) \in Seq(Queries)
         /\ p = q => /\ Cardinality(Got(Append(s, p), q)) = Cardinality(Got(s, q)) + 1
                     /\ Got(s, q) = DOMAIN s => Got(Append(s, p), q) = DOMAIN Append(s, p)
         /\ p # q => Got(Append(s, p), q) = Got(s, q)
<1>1. CASE p = q
  <2>1. Got(Append(s, p), q) = Got(s, q) \cup {Len(s) + 1} /\ Len(s) + 1 \notin Got(s, q)
    BY <1>1, PostedFields DEF Got
  <2>2. Cardinality(Got(Append(s, p), q)) = Cardinality(Got(s, q)) + 1 BY <2>1, GotFinite, FS_AddElement
  <2> QED BY <1>1, <2>1, <2>2, PostedFields
<1>2. CASE p # q
  <2>1. Got(Append(s, p), q) = Got(s, q) BY <1>2, PostedFields DEF Got
  <2> QED BY <1>2, <2>1
<1> QED BY <1>1, <1>2

LEMMA MNames == Messages!Workers = {"util", "io"} /\ Messages!NoCount = 0
BY DEF Messages!Workers, Messages!NoCount

LEMMA MInit == ASSUME Messages!MessagesAssumption, Messages!Init PROVE MIs
<1>1. MTyped
  <2>1. \A n \in 0..MaxPieces : n \in Nat BY DEF Messages!MessagesAssumption
  <2>2. answer \in [Queries -> Nat] BY <2>1 DEF Messages!Init
  <2>3. closed \in BOOLEAN BY DEF Messages!Init
  <2> QED BY <2>2, <2>3, MNames DEF Messages!Init, MTyped, Stages
<1>2. ASSUME NEW w \in Messages!Workers PROVE Queue(w)
  <2>1. emitCb[w] = <<>> /\ toWorker[w] = <<>> /\ toMain[w] = <<>> /\ DOMAIN emitCb[w] = {}
    BY <1>2 DEF Messages!Init
  <2>2. Given(emitCb[w], w, count[w]) /\ HeldBy(emitCb[w]) = {} BY <2>1 DEF Given, HeldBy
  <2>3. Calling(w) BY <2>2 DEF Calling, Messages!Init, Phase
  <2> QED BY <2>1, <2>2, <2>3, NoMail DEF Queue, Queued
<1>3. Reads
  <2>1. toWorker["io"] = <<>> /\ toMain["io"] = <<>> /\ toMain["util"] = <<>> /\ reading = Messages!None
    BY MNames DEF Messages!Init
  <2>2. \A w : Asks(<<>>, w) = {} BY NoMail
  <2>3. PiecesFirst(<<>>) /\ DOMAIN <<>> = {} BY NoMail
  <2> QED BY ONLY <2>1, <2>2, <2>3 DEF Reads
<1>4. ASSUME NEW q \in Queries PROVE Whole(q) BY <1>4 DEF Whole, Messages!Init, Got
<1>5. Listed BY DEF Listed, Messages!Init
<1> QED BY <1>1, <1>2, <1>3, <1>4, <1>5, MNames DEF MIs

(* What does not move keeps what holds of it.                              *)
LEMMA QueueSame ==
  ASSUME NEW w, Queue(w), UNCHANGED <<toWorker[w], toMain[w], emitCb[w], count[w]>>,
         \A q \in Queries : at'[q] = Phase(w) <=> at[q] = Phase(w)
  PROVE  Queue(w)'
BY DEF Queue, Calling

LEMMA ReadsSame ==
  ASSUME Reads, UNCHANGED <<toWorker["io"], toMain["io"], toMain["util"], reading, sent, answer, fails,
                            service, closed>>,
         \A q \in Queries : at[q] = "reading" => at'[q] = "reading"
  PROVE  Reads'
BY DEF Reads

LEMMA ListedSame ==
  ASSUME Listed, UNCHANGED <<fd, idx, free, service, shared>>,
         \A q \in Queries : at'[q] = "reading" <=> at[q] = "reading",
         MTyped
  PROVE  Listed'
BY DEF Listed, MTyped

LEMMA WholeSame ==
  ASSUME NEW q, Whole(q), UNCHANGED <<at[q], sent[q], result[q], answer, fails, closed, shared, toMain["io"]>>
  PROVE  Whole(q)'
BY DEF Whole

-----------------------------------------------------------------------------
(* The steps.                                                              *)
LEMMA MQuery ==
  ASSUME MIs, Messages!MessagesAssumption, NEW q \in Queries, Messages!queryService(q) PROVE MIs'
<1> PICK r : r = Messages!Request("util", "query", q)
  OBVIOUS
<1>0. MTyped BY DEF MIs
<1>1. /\ at[q] = "new" /\ at' = [at EXCEPT ![q] = "query"] /\ count' = [count EXCEPT !["util"] = @ + 1]
      /\ toWorker' = [toWorker EXCEPT !["util"] = Append(@, r)]
      /\ emitCb' = [emitCb EXCEPT !["util"] = Messages!With(@, r, q)]
      /\ UNCHANGED <<service, fd, idx, result, free, toMain, reading, answer, fails, sent, shared, lost, closed>>
  BY DEF Messages!queryService, Messages!To, Messages!Emit, Messages!server, Messages!ghosts
<1>2. r \in Letter /\ r.msg = Name("util") /\ r.count = count["util"] + 1 /\ r.query = q
  <2>1. r = [msg |-> "query", count |-> count["util"] + 1, query |-> q]
    BY DEF Messages!Request, Messages!Message
  <2>2. count["util"] + 1 \in Nat BY <1>0, MNames DEF MTyped
  <2> QED BY <2>1, <2>2, QueuedNames DEF Letter
<1>3. /\ toWorker'["util"] = Append(toWorker["util"], r) /\ toWorker'["io"] = toWorker["io"]
      /\ emitCb'["util"] = Messages!With(emitCb["util"], r, q) /\ emitCb'["io"] = emitCb["io"]
      /\ count'["util"] = count["util"] + 1 /\ count'["io"] = count["io"]
      /\ DOMAIN emitCb' = Messages!Workers
      /\ toWorker' \in [Messages!Workers -> Seq(Letter)] /\ count' \in [Messages!Workers -> Nat]
      /\ toWorker["util"] \in Seq(Letter) /\ toMain["util"] \in Seq(Mail) /\ count["util"] \in Nat
  <2>1. /\ toWorker \in [Messages!Workers -> Seq(Letter)] /\ toMain \in [Messages!Workers -> Seq(Mail)]
        /\ count \in [Messages!Workers -> Nat] /\ DOMAIN emitCb = Messages!Workers
    BY <1>0 DEF MTyped
  <2>2. "util" \in Messages!Workers /\ "io" \in Messages!Workers BY MNames
  <2>3. Append(toWorker["util"], r) \in Seq(Letter) /\ count["util"] + 1 \in Nat
    BY ONLY <1>2, <2>1, <2>2
  <2> QED BY ONLY <1>1, <2>1, <2>2, <2>3
<1>4. /\ at'[q] = "query" /\ \A p \in Queries : p # q => at'[p] = at[p]
      /\ at' \in [Queries -> Stages]
  BY <1>0, <1>1 DEF MTyped, Stages
<1>5. MTyped' BY <1>0, <1>1, <1>3, <1>4 DEF MTyped
<1>6. Queue("util")'
  <2>1. q \notin HeldBy(emitCb["util"]) BY <1>1, QueuedNames DEF MIs, Queue, Calling
  <2>2. Queued("util", toWorker["util"], toMain["util"], emitCb["util"], count["util"]) BY DEF MIs, Queue
  <2>3. Queued("util", toWorker["util"], toMain["util"], emitCb["util"], count["util"])'
    BY ONLY <1>1, <1>2, <1>3, <2>1, <2>2, q \in Queries, QueuedAsked
  <2>4. HeldBy(emitCb["util"])' = HeldBy(emitCb["util"]) \cup {q}
    <3>1. Given(emitCb["util"], "util", count["util"]) BY <2>2 DEF Queued
    <3>2. count["util"] \in Nat /\ q \in Queries \ HeldBy(emitCb["util"]) BY <1>3, <2>1
    <3>3. HeldBy(Messages!With(emitCb["util"], r, q)) = HeldBy(emitCb["util"]) \cup {q}
      BY ONLY SMTT(30), <1>2, <3>1, <3>2, CallbackHeld
    <3> QED BY ONLY Zenon, <1>3, <3>3
  <2>5. Calling("util")' BY <1>4, <2>4, QueuedNames DEF MIs, Queue, Calling
  <2> QED BY <2>3, <2>5 DEF Queue
<1>7. \A p \in Queries : at'[p] = "reading" <=> at[p] = "reading" BY <1>1, <1>4
<1>8. Queue("io")' BY <1>1, <1>3, <1>7, QueueSame, QueuedNames DEF MIs
<1>9. Reads' BY <1>1, <1>3, <1>7, ReadsSame DEF MIs
<1>10. ASSUME NEW p \in Queries PROVE Whole(p)'
  BY <1>1, <1>4, <1>10 DEF Whole, MIs
<1>11. Listed' BY <1>0, <1>1, <1>7, ListedSame DEF MIs
<1> QED BY <1>5, <1>6, <1>8, <1>9, <1>10, <1>11 DEF MIs

LEMMA MUtilQuery ==
  ASSUME MIs, Messages!MessagesAssumption, Messages!UtilQuery PROVE MIs'
<1> DEFINE s == toWorker["util"]
           m == toMain["util"]
<1>0. MTyped BY DEF MIs
<1>1. PICK success \in BOOLEAN :
        /\ s # <<>> /\ Head(s).msg = "query" /\ toWorker' = [toWorker EXCEPT !["util"] = Tail(@)]
        /\ toMain' = [toMain EXCEPT !["util"] = @ \o <<Messages!Log, Messages!Answer(Head(s), success)>>]
        /\ UNCHANGED <<service, at, fd, idx, result, count, emitCb, free, reading, answer, fails, sent,
                       shared, lost, closed>>
  BY DEF Messages!UtilQuery, Messages!Serves, Messages!Posts, Messages!queryVars, Messages!proxyVars,
         Messages!server, Messages!ghosts
<1> PICK a : a = Messages!Answer(Head(s), success)
  OBVIOUS
<1>2. s \in Seq(Letter) /\ m \in Seq(Mail) /\ Head(s) \in Letter /\ Tail(s) \in Seq(Letter)
  BY <1>0, <1>1, MNames, TakenFields DEF MTyped
<1>3. a.msg = Name("util") /\ a.count = Head(s).count /\ a.query = Head(s).query
  BY <1>1, QueuedNames DEF Messages!Answer
<1>4. a \in Mail
  <2>1. a \in Reply BY <1>1, <1>2 DEF Messages!Answer, Letter, Reply
  <2> QED BY <2>1 DEF Mail
<1>5. Messages!Log \in Mail /\ Messages!Log.msg = "log"
  BY MNames DEF Messages!Log, Messages!Message, Mail, Letter
<1>6. m \o <<Messages!Log, a>> = Append(Append(m, Messages!Log), a) /\ Append(m, Messages!Log) \in Seq(Mail)
      /\ Append(Append(m, Messages!Log), a) \in Seq(Mail)
  BY <1>2, <1>4, <1>5, PostedTwo, PostedFields
<1>7. /\ toWorker'["util"] = Tail(s) /\ toMain'["util"] = Append(Append(m, Messages!Log), a)
      /\ toWorker'["io"] = toWorker["io"] /\ toMain'["io"] = toMain["io"]
      /\ toWorker' \in [Messages!Workers -> Seq(Letter)] /\ toMain' \in [Messages!Workers -> Seq(Mail)]
  BY <1>0, <1>1, <1>2, <1>6, MNames DEF MTyped
<1>8. MTyped' BY <1>0, <1>1, <1>7 DEF MTyped
<1>9. Queue("util")'
  <2>1. Queued("util", s, m, emitCb["util"], count["util"]) BY DEF MIs, Queue
  <2>2. Queued("util", s, Append(m, Messages!Log), emitCb["util"], count["util"])
    BY <1>2, <1>5, <2>1, QueuedPosted, QueuedNames
  <2>3. Queued("util", Tail(s), Append(Append(m, Messages!Log), a), emitCb["util"], count["util"])
    BY <1>1, <1>2, <1>3, <1>4, <1>6, <2>2, QueuedAnswer, QueuedNames
  <2>4. Calling("util")' BY <1>1 DEF MIs, Queue, Calling
  <2> QED BY <1>1, <1>7, <2>3, <2>4 DEF Queue
<1>10. Queue("io")' BY <1>1, <1>7, QueueSame DEF MIs
<1>11. Reads'
  <2>1. \A i \in DOMAIN Append(Append(m, Messages!Log), a) : Append(Append(m, Messages!Log), a)[i].msg # "data"
    <3>1. \A i \in DOMAIN Append(m, Messages!Log) : Append(m, Messages!Log)[i].msg # "data"
      BY <1>2, <1>5, PostedFields DEF MIs, Reads
    <3>2. a.msg # "data" BY <1>3, QueuedNames
    <3> QED BY <1>4, <1>6, <3>1, <3>2, PostedFields
  <2> QED BY <1>1, <1>7, <2>1 DEF MIs, Reads
<1>12. ASSUME NEW p \in Queries PROVE Whole(p)'
  BY <1>1, <1>7, <1>12, WholeSame DEF MIs
<1>13. Listed' BY <1>0, <1>1, ListedSame DEF MIs
<1> QED BY <1>8, <1>9, <1>10, <1>11, <1>12, <1>13 DEF MIs

LEMMA MLogAnswered ==
  ASSUME MIs, NEW w \in Messages!Workers, Messages!LogAnswered(w) PROVE MIs'
<1> DEFINE s == toWorker[w]
<1>0. MTyped BY DEF MIs
<1>1. /\ w = "io" => reading = Messages!None
      /\ s # <<>> /\ toWorker' = [toWorker EXCEPT ![w] = Tail(@)]
      /\ UNCHANGED <<service, at, fd, idx, result, count, emitCb, free, toMain, reading, answer, fails, sent,
                     shared, lost, closed>>
  BY DEF Messages!LogAnswered, Messages!Serves, Messages!queryVars, Messages!proxyVars,
         Messages!server, Messages!ghosts
<1>2. /\ s \in Seq(Letter) /\ Tail(s) \in Seq(Letter) /\ toWorker'[w] = Tail(s)
      /\ \A v \in Messages!Workers : v # w => toWorker'[v] = toWorker[v]
      /\ toWorker' \in [Messages!Workers -> Seq(Letter)]
  BY <1>0, <1>1, TakenFields DEF MTyped
<1>3. MTyped' BY <1>0, <1>1, <1>2 DEF MTyped
<1>4. Queued(w, s, toMain[w], emitCb[w], count[w]) BY MNames DEF MIs, Queue
<1>5. Queued(w, Tail(s), toMain[w], emitCb[w], count[w]) /\ \A p \in Asks(Tail(s), w) : p \in Asks(s, w)
  BY <1>1, <1>2, <1>4, QueuedServed
<1>6. ASSUME NEW v \in Messages!Workers PROVE Queue(v)'
  <2>1. Queue(v) BY MNames DEF MIs
  <2>2. CASE v = w
    <3>1. Calling(v)' BY <1>1, <2>1 DEF Queue, Calling
    <3> QED BY <1>1, <1>2, <1>5, <2>2, <3>1 DEF Queue
  <2>3. CASE v # w BY <1>1, <1>2, <2>1, <2>3, QueueSame
  <2> QED BY <2>2, <2>3
<1>7. Reads'
  <2>1. CASE w = "util" BY <1>1, <1>2, <2>1, ReadsSame, MNames DEF MIs
  <2>2. CASE w = "io" BY <1>1, <1>2, <1>5, <2>2 DEF MIs, Reads
  <2> QED BY <2>1, <2>2, MNames
<1>8. ASSUME NEW p \in Queries PROVE Whole(p)' BY <1>1, <1>8, WholeSame DEF MIs
<1>9. Listed' BY <1>0, <1>1, ListedSame DEF MIs
<1> QED BY <1>3, <1>6, <1>7, <1>8, <1>9, MNames DEF MIs

LEMMA MIoReads ==
  ASSUME MIs, Messages!MessagesAssumption, Messages!IoReads PROVE MIs'
<1> DEFINE s == toWorker["io"]
           q == Head(s).query
<1>0. MTyped BY DEF MIs
<1>1. /\ reading = Messages!None /\ ~closed /\ s # <<>> /\ Head(s).msg = "readStringFully" /\ reading' = q
      /\ UNCHANGED <<service, at, fd, idx, result, count, emitCb, free, toWorker, toMain, answer, fails, sent,
                     shared, lost, closed>>
  BY DEF Messages!IoReads, Messages!queryVars, Messages!proxyVars, Messages!channels,
         Messages!server, Messages!ghosts
<1>2. q \in Asks(s, "io")
  <2>1. s \in Seq(Letter) BY <1>0, MNames DEF MTyped
  <2> QED BY <1>1, <2>1, HeadAsks, QueuedNames DEF MIs, Queue, Queued
<1>3. q \in Queries /\ q # Messages!None BY <1>2 DEF Asks, Messages!MessagesAssumption
<1>4. sent[q] = 0 /\ answer[q] \in Nat BY <1>0, <1>1, <1>2, <1>3 DEF MIs, Reads, MTyped
<1>5. MTyped' BY <1>0, <1>1, <1>3 DEF MTyped
<1>6. Reads'
  <2>1. sent[q] <= answer[q] BY <1>4
  <2>2. \A p \in Asks(s, "io") : sent[p] = 0
    BY <1>1 DEF MIs, Reads, Asks, Messages!MessagesAssumption
  <2>3. Reads BY DEF MIs
  <2> QED BY ONLY <1>1, <2>1, <2>2, <2>3 DEF Reads
<1>7. Queue("util")' /\ Queue("io")' BY <1>1, QueueSame DEF MIs
<1>8. ASSUME NEW p \in Queries PROVE Whole(p)' BY <1>1, <1>8, WholeSame DEF MIs
<1>9. Listed' BY <1>0, <1>1, ListedSame DEF MIs
<1> QED BY <1>5, <1>6, <1>7, <1>8, <1>9 DEF MIs

(* Who is read is asked for at the io worker, and listens.                 *)
LEMMA ReaderIs ==
  ASSUME MIs, reading # Messages!None
  PROVE  /\ reading \in Queries /\ reading \in Asks(toWorker["io"], "io") /\ at[reading] = "reading"
         /\ reading \notin Asks(toMain["io"], "io")
<1>0. MTyped BY DEF MIs
<1>1. toWorker["io"] \in Seq(Letter) BY <1>0, MNames DEF MTyped
<1>2. reading \in Asks(toWorker["io"], "io")
  BY <1>1, HeadAsks, QueuedNames DEF MIs, Reads, Queue, Queued
<1>3. reading \in HeldBy(emitCb["io"]) BY <1>2, AskedHeld DEF MIs, Queue, Queued
<1>4. reading \in Queries BY <1>2 DEF Asks
<1> QED BY <1>2, <1>3, <1>4, QueuedNames DEF MIs, Queue, Queued, Calling

LEMMA MData ==
  ASSUME MIs, Messages!onData PROVE MIs'
<1> DEFINE m == toMain["io"]
<1>0. MTyped BY DEF MIs
<1>1. /\ reading # Messages!None /\ sent[reading] < answer[reading]
      /\ sent' = [sent EXCEPT ![reading] = @ + 1]
      /\ toMain' = [toMain EXCEPT !["io"] = @ \o <<[msg |-> "data", service |-> service[reading], query |-> reading]>>]
      /\ UNCHANGED <<service, at, fd, idx, result, count, emitCb, free, toWorker, reading, answer, fails,
                     shared, lost, closed>>
  BY DEF Messages!onData, Messages!Posts, Messages!queryVars, Messages!proxyVars, Messages!ghosts
<1> PICK a : a = [msg |-> "data", service |-> service[reading], query |-> reading]
  OBVIOUS
<1>2. reading \in Queries /\ at[reading] = "reading" /\ reading \notin Asks(m, "io") BY <1>1, ReaderIs
<1>3. a \in Mail /\ a.msg = "data" /\ a.query = reading /\ a.service = service[reading]
  <2>1. a \in Piece BY <1>0, <1>2 DEF Piece, MTyped
  <2> QED BY <2>1 DEF Mail
<1>4. m \in Seq(Mail) /\ m \o <<a>> = Append(m, a) /\ Append(m, a) \in Seq(Mail)
  BY <1>0, <1>3, MNames, PostedFields DEF MTyped
<1>5. /\ toMain'["io"] = Append(m, a) /\ toMain'["util"] = toMain["util"]
      /\ toMain' \in [Messages!Workers -> Seq(Mail)]
  BY <1>0, <1>1, <1>4, MNames DEF MTyped
<1>6. /\ sent'[reading] = sent[reading] + 1 /\ sent[reading] \in Nat /\ answer[reading] \in Nat
      /\ sent' \in [Queries -> Nat] /\ \A p \in Queries : p # reading => sent'[p] = sent[p]
  BY <1>0, <1>1, <1>2 DEF MTyped
<1>7. MTyped' BY <1>0, <1>1, <1>5, <1>6 DEF MTyped
<1>8. Queued("io", toWorker["io"], Append(m, a), emitCb["io"], count["io"]) /\ Asks(Append(m, a), "io") = Asks(m, "io")
  BY <1>3, <1>4, QueuedPosted, QueuedNames DEF MIs, Queue
<1>9. Queue("io")'
  <2>1. Calling("io")' BY <1>1 DEF MIs, Queue, Calling
  <2> QED BY <1>1, <1>5, <1>8, <2>1 DEF Queue
<1>10. Queue("util")' BY <1>1, <1>5, QueueSame DEF MIs
<1>11. Reads'
  <2>1. PiecesFirst(Append(m, a)) BY <1>2, <1>3, <1>4, PostedFirst DEF MIs, Reads
  <2>2. \A i \in DOMAIN Append(m, a) : Append(m, a)[i].msg = "data" =>
           LET q == Append(m, a)[i].query IN
           q \in Queries /\ at[q] = "reading" /\ Append(m, a)[i].service = service[q]
    BY <1>2, <1>3, <1>4, PostedFields DEF MIs, Reads
  <2>3. sent'[reading] <= answer[reading] BY <1>1, <1>6
  <2>4. \A q \in Asks(toWorker["io"], "io") : q # reading => sent'[q] = 0
    BY <1>6 DEF MIs, Reads, Asks
  <2>5. \A q \in Asks(m, "io") : sent'[q] = answer[q] /\ q \notin fails
    BY <1>2, <1>6 DEF MIs, Reads, Asks
  <2>6. /\ ~closed' /\ toWorker'["io"] = toWorker["io"] /\ toWorker["io"] # <<>> /\ reading' = reading
        /\ Head(toWorker["io"]).query = reading /\ Head(toWorker["io"]).msg = "readStringFully"
    BY <1>1 DEF MIs, Reads
  <2>7. \A i \in DOMAIN toMain'["util"] : toMain'["util"][i].msg # "data" BY <1>5 DEF MIs, Reads
  <2>8. UNCHANGED <<service, at, answer, fails>> BY <1>1
  <2> QED BY ONLY <1>5, <1>8, <2>1, <2>2, <2>3, <2>4, <2>5, <2>6, <2>7, <2>8 DEF Reads
<1>12. ASSUME NEW p \in Queries PROVE Whole(p)'
  <2>0. Whole(p) BY DEF MIs
  <2>1. CASE p = reading
    <3>1. Cardinality(PiecesOf(Append(m, a), p)) = Cardinality(PiecesOf(m, p)) + 1
      BY <1>3, <1>4, <2>1, PostedPieces
    <3>2. /\ Cardinality(PiecesOf(m, p)) \in Nat /\ result[p] \in Seq(Queries)
          /\ Cardinality(Got(result[p], p)) \in Nat
      <4>1. result[p] \in Seq(Queries) BY <1>0 DEF MTyped
      <4>2. Cardinality(Got(result[p], p)) \in Nat BY <4>1, GotFinite
      <4> QED BY <1>4, <4>1, <4>2, PiecesFinite
    <3>3. at[p] = "reading" /\ ~closed =>
            Cardinality(PiecesOf(Append(m, a), p)) + Cardinality(Got(result[p], p)) = sent'[p]
      BY <1>6, <2>0, <2>1, <3>1, <3>2 DEF Whole
    <3> QED BY <1>1, <1>2, <1>5, <2>0, <2>1, <3>3 DEF Whole
  <2>2. CASE p # reading
    <3>1. Cardinality(PiecesOf(Append(m, a), p)) = Cardinality(PiecesOf(m, p))
      <4>1. Cardinality(PiecesOf(Append(m, a), p)) = Cardinality(PiecesOf(m, p)) + 0
        BY <1>3, <1>4, <2>2, PostedPieces
      <4> QED BY <1>4, <4>1, PiecesFinite
    <3> QED BY <1>1, <1>5, <1>6, <2>0, <2>2, <3>1 DEF Whole
  <2> QED BY <2>1, <2>2
<1>13. Listed' BY <1>0, <1>1, ListedSame DEF MIs
<1> QED BY <1>7, <1>9, <1>10, <1>11, <1>12, <1>13 DEF MIs

LEMMA MReadEnds ==
  ASSUME MIs, Messages!MessagesAssumption, Messages!ReadEnds PROVE MIs'
<1> DEFINE s == toWorker["io"]
           m == toMain["io"]
<1>0. MTyped BY DEF MIs
<1>1. /\ reading # Messages!None /\ sent[reading] = answer[reading] /\ reading' = Messages!None
      /\ s # <<>> /\ Head(s).msg = "readStringFully" /\ toWorker' = [toWorker EXCEPT !["io"] = Tail(@)]
      /\ UNCHANGED <<service, at, fd, idx, result, count, emitCb, free, answer, fails, sent, shared, closed>>
  BY DEF Messages!ReadEnds, Messages!Serves, Messages!queryVars, Messages!proxyVars, Messages!server
<1>2. /\ s \in Seq(Letter) /\ m \in Seq(Mail) /\ Head(s) \in Letter /\ Tail(s) \in Seq(Letter)
      /\ toWorker'["io"] = Tail(s) /\ toWorker'["util"] = toWorker["util"]
      /\ toWorker' \in [Messages!Workers -> Seq(Letter)]
  BY <1>0, <1>1, MNames, TakenFields DEF MTyped
<1> s \in Seq(Letter) /\ m \in Seq(Mail)
  BY <1>2
<1>3. Queued("io", s, m, emitCb["io"], count["io"]) BY DEF MIs, Queue
<1>4. /\ reading \in Queries /\ at[reading] = "reading" /\ Head(s).query = reading
      /\ reading \in Asks(s, "io")
  BY <1>1, ReaderIs DEF MIs, Reads
<1>5. \A p \in Asks(Tail(s), "io") : p \in Asks(s, "io") /\ p # reading
  <2>1. \A p \in Asks(Tail(s), "io") : p \in Queries BY DEF Asks
  <2> QED BY <1>1, <1>2, <1>3, <1>4, <2>1, TakenAsks, QueuedNames DEF Queued
<1>6. Calling("io")' BY <1>1 DEF MIs, Queue, Calling
<1>7. Listed' BY <1>0, <1>1, ListedSame DEF MIs
<1>8. \A p \in Asks(Tail(s), "io") : sent[p] = 0 BY <1>5 DEF MIs, Reads
<1>9. CASE reading \in fails
  <2>1. toMain' = toMain BY <1>9 DEF Messages!ReadEnds
  <2>2. MTyped' BY <1>0, <1>1, <1>2, <2>1 DEF MTyped
  <2>3. Queue("io")'
    <3>1. Queued("io", Tail(s), m, emitCb["io"], count["io"])
      BY <1>1, <1>3, QueuedServed
    <3>2. UNCHANGED <<emitCb, count>> /\ toWorker'["io"] = Tail(s) BY <1>1, <1>2
    <3> QED BY ONLY <1>6, <2>1, <3>1, <3>2 DEF Queue
  <2>4. Queue("util")' BY <1>1, <1>2, <2>1, QueueSame DEF MIs
  <2>5. Reads' BY <1>1, <1>2, <1>8, <2>1 DEF MIs, Reads
  <2>6. ASSUME NEW p \in Queries PROVE Whole(p)' BY <1>1, <2>1, <2>6, WholeSame DEF MIs
  <2> QED BY <1>7, <2>2, <2>3, <2>4, <2>5, <2>6 DEF MIs
<1>10. CASE reading \notin fails
  <2> PICK a : a = Messages!Answer(Head(s), TRUE)
    OBVIOUS
  <2>1. toMain' = [toMain EXCEPT !["io"] = @ \o <<a>>]
    BY <1>10 DEF Messages!ReadEnds, Messages!Posts
  <2>2. a.msg = Name("io") /\ a.count = Head(s).count /\ a.query = Head(s).query
    BY <1>1, QueuedNames DEF Messages!Answer
  <2>3. a \in Mail
    <3>1. a \in Reply BY <1>1, <1>2 DEF Messages!Answer, Letter, Reply
    <3> QED BY <3>1 DEF Mail
  <2>4. m \o <<a>> = Append(m, a) /\ Append(m, a) \in Seq(Mail)
    BY ONLY m \in Seq(Mail), <2>3, PostedFields
  <2>5. /\ toMain'["io"] = Append(m, a) /\ toMain'["util"] = toMain["util"]
        /\ toMain' \in [Messages!Workers -> Seq(Mail)]
    BY <1>0, <2>1, <2>4, MNames DEF MTyped
  <2>6. MTyped' BY <1>0, <1>1, <1>2, <2>5 DEF MTyped
  <2>7. /\ Queued("io", Tail(s), Append(m, a), emitCb["io"], count["io"])
        /\ Asks(Append(m, a), "io") = Asks(m, "io") \cup {reading}
    <3>1. Head(s).msg = Name("io") /\ s # <<>> BY <1>1, QueuedNames
    <3>2. Head(s).query = reading BY <1>4
    <3>3. s \in Seq(Letter) /\ m \in Seq(Mail) BY <1>2
    <3>4. Queued("io", s, m, emitCb["io"], count["io"]) BY <1>3
    <3>5. Queued("io", Tail(s), Append(m, a), emitCb["io"], count["io"])
      BY ONLY <2>2, <2>3, <3>1, <3>3, <3>4, QueuedReply
    <3>6. Asks(Append(m, a), "io") = Asks(m, "io") \cup {Head(s).query}
      BY ONLY Zenon, <2>2, <2>3, <3>1, <3>3, <3>4, AnswerAsks
    <3> QED BY <3>2, <3>5, <3>6
  <2>8. Queue("io")' BY <1>1, <1>2, <1>6, <2>5, <2>7 DEF Queue
  <2>9. Queue("util")' BY <1>1, <1>2, <2>5, QueueSame DEF MIs
  <2>10. a.msg # "data" BY <2>2, QueuedNames
  <2>11. Reads'
    <3>1. PiecesFirst(Append(m, a)) BY <1>2, <2>3, <2>10, PostedFirst DEF MIs, Reads
    <3>2. \A i \in DOMAIN Append(m, a) : Append(m, a)[i].msg = "data" =>
             LET q == Append(m, a)[i].query IN
             q \in Queries /\ at[q] = "reading" /\ Append(m, a)[i].service = service[q]
      <4>1. \A i \in DOMAIN Append(m, a) : i \in DOMAIN m \/ Append(m, a)[i] = a
        BY ONLY m \in Seq(Mail), <2>3, PostedFields
      <4>2. \A i \in DOMAIN m : Append(m, a)[i] = m[i] BY ONLY m \in Seq(Mail), <2>3, PostedFields
      <4>3. Reads BY DEF MIs
      <4> QED BY ONLY <2>10, <4>1, <4>2, <4>3 DEF Reads
    <3>3. \A q \in Asks(Append(m, a), "io") : sent[q] = answer[q] /\ q \notin fails
      BY <1>1, <1>10, <2>7 DEF MIs, Reads
    <3>4. \A i \in DOMAIN toMain'["util"] : toMain'["util"][i].msg # "data" BY <2>5 DEF MIs, Reads
    <3>5. UNCHANGED <<service, at, answer, fails, sent>> /\ reading' = Messages!None BY <1>1
    <3> QED BY ONLY <1>2, <1>8, <2>5, <3>1, <3>2, <3>3, <3>4, <3>5 DEF Reads
  <2>12. ASSUME NEW p \in Queries PROVE Whole(p)'
    <3>1. Cardinality(PiecesOf(Append(m, a), p)) = Cardinality(PiecesOf(m, p))
      <4>1. Cardinality(PiecesOf(Append(m, a), p)) = Cardinality(PiecesOf(m, p)) + 0
        BY <2>3, <2>10, PostedPieces
      <4>2. Cardinality(PiecesOf(m, p)) \in Nat BY PiecesFinite
      <4> QED BY ONLY <4>1, <4>2
    <3> QED BY <1>1, <2>5, <3>1 DEF Whole, MIs
  <2> QED BY <1>7, <2>6, <2>8, <2>9, <2>11, <2>12 DEF MIs
<1> QED BY <1>9, <1>10

(* Whoever listens for a service reads it.                                 *)
LEMMA ListeningIs ==
  ASSUME MIs, Messages!MessagesAssumption, NEW s \in Services
  PROVE  Messages!Listening(s) = {q \in Queries : at[q] = "reading" /\ service[q] = s}
<1>0. MTyped /\ Listed BY DEF MIs
<1>1. ASSUME NEW q \in Messages!Listening(s) PROVE q \in Queries /\ at[q] = "reading" /\ service[q] = s
  <2>1. PICK i \in DOMAIN free[s] : free[s][i] = q /\ q # Messages!None
    BY <1>1 DEF Messages!Listening
  <2>2. free[s] \in Seq(Queries \cup {Messages!None}) BY <1>0 DEF MTyped
  <2>3. q \in Queries BY <2>1, <2>2
  <2> QED BY <1>0, <2>1, <2>3 DEF Listed
<1>2. ASSUME NEW q \in Queries, at[q] = "reading", service[q] = s PROVE q \in Messages!Listening(s)
  BY <1>0, <1>2 DEF Listed, Messages!Listening, Messages!MessagesAssumption
<1> QED BY <1>1, <1>2

LEMMA MClose ==
  ASSUME MIs, Messages!Close PROVE MIs'
<1>0. MTyped BY DEF MIs
<1>1. /\ reading' = Messages!None
      /\ toWorker' = [w \in Messages!Workers |-> <<>>] /\ toMain' = [w \in Messages!Workers |-> <<>>]
      /\ UNCHANGED <<service, at, fd, idx, result, count, emitCb, free, answer, fails, sent, shared, lost>>
  BY DEF Messages!Close, Messages!queryVars, Messages!proxyVars, Messages!server, Messages!ghosts
<1>2. closed' /\ closed' \in BOOLEAN BY DEF Messages!Close
<1>3. MTyped' BY <1>0, <1>1, <1>2 DEF MTyped
<1>4. ASSUME NEW w \in Messages!Workers PROVE Queue(w)'
  <2>1. Queue(w) BY MNames DEF MIs
  <2>2. Calling(w)' BY <1>1, <2>1 DEF Queue, Calling
  <2>3. toWorker'[w] = <<>> /\ toMain'[w] = <<>> /\ emitCb'[w] = emitCb[w] /\ count'[w] = count[w] BY <1>1
  <2> QED BY <2>1, <2>2, <2>3, NoMail DEF Queue, Queued
<1>5. Reads'
  <2>1. toWorker'["io"] = <<>> /\ toMain'["io"] = <<>> /\ toMain'["util"] = <<>> BY <1>1, MNames
  <2>2. \A w : Asks(<<>>, w) = {} BY NoMail
  <2>3. PiecesFirst(<<>>) /\ DOMAIN <<>> = {} BY NoMail
  <2>4. reading' = Messages!None BY <1>1
  <2> QED BY ONLY <2>1, <2>2, <2>3, <2>4 DEF Reads
<1>6. ASSUME NEW p \in Queries PROVE Whole(p)' BY <1>1, <1>2 DEF Whole, MIs
<1>7. Listed' BY <1>0, <1>1, ListedSame DEF MIs
<1> QED BY <1>3, <1>4, <1>5, <1>6, <1>7, MNames DEF MIs

LEMMA NonePieces ==
  ASSUME MIs, NEW q \in Queries, at[q] # "reading"
  PROVE  PiecesOf(toMain["io"], q) = {} /\ Cardinality(PiecesOf(toMain["io"], q)) = 0
<1>1. PiecesOf(toMain["io"], q) = {} BY DEF MIs, Reads, PiecesOf
<1> QED BY <1>1, FS_EmptySet

(* The utility worker's answer: the query is rejected, or asks the io      *)
(* worker and listens.                                                     *)
LEMMA MQueried ==
  ASSUME MIs, Messages!MessagesAssumption, Messages!Queried PROVE MIs'
<1> DEFINE u == toMain["util"]
           m == Head(u)
           q == m.query
           s == service[q]
<1>0. MTyped BY DEF MIs
<1>1. /\ u # <<>> /\ Messages!Slug(m) \in DOMAIN emitCb["util"] /\ ~closed
      /\ toMain' = [toMain EXCEPT !["util"] = Tail(@)]
      /\ UNCHANGED <<service, result, reading, answer, fails, sent, lost, closed>>
  BY DEF Messages!Queried, Messages!Awaited, Messages!Takes, Messages!server
<1>2. u \in Seq(Mail) /\ count["util"] \in Nat /\ count["io"] \in Nat BY <1>0, MNames DEF MTyped
<1>3. Queued("util", toWorker["util"], u, emitCb["util"], count["util"]) BY DEF MIs, Queue
<1>d. PICK d : d = Messages!Without(emitCb["util"], m)
  OBVIOUS
<1> d = Messages!Without(emitCb["util"], m)
  BY <1>d
<1>4. /\ Queued("util", toWorker["util"], Tail(u), d, count["util"])
      /\ HeldBy(d) = HeldBy(emitCb["util"]) \ {q}
      /\ emitCb["util"][Messages!Slug(m)] = q /\ q \in HeldBy(emitCb["util"]) /\ q \in Queries
  <2>1. /\ Queued("util", toWorker["util"], Tail(u), Messages!Without(emitCb["util"], m), count["util"])
        /\ HeldBy(Messages!Without(emitCb["util"], m)) = HeldBy(emitCb["util"]) \ {q}
        /\ emitCb["util"][Messages!Slug(m)] = q /\ q \in HeldBy(emitCb["util"]) /\ q \in Queries
    <3>1. u # <<>> /\ Messages!Slug(Head(u)) \in DOMAIN emitCb["util"] BY <1>1
    <3> HIDE DEF u, m, q
    <3>2. Queued("util", toWorker["util"], Tail(u), Messages!Without(emitCb["util"], Head(u)), count["util"])
      BY ONLY <1>2, <1>3, <3>1, QueuedBack
    <3>3. HeldBy(Messages!Without(emitCb["util"], Head(u))) = HeldBy(emitCb["util"]) \ {Head(u).query}
      <4>1. u \in Seq(Mail) /\ count["util"] \in Nat BY <1>2
      <4> QED BY ONLY Zenon, <1>3, <3>1, <4>1, QueuedHeld
    <3>4. emitCb["util"][Messages!Slug(Head(u))] = Head(u).query
      <4>1. Given(emitCb["util"], "util", count["util"]) /\ Finds(u, "util", emitCb["util"])
        BY ONLY <1>3 DEF Queued
      <4>2. Head(u).msg = Name("util") BY ONLY <1>2, <3>1, <4>1, CallbackGone
      <4> QED BY ONLY <1>2, <3>1, <4>1, <4>2, HeadAsks
    <3>5. Head(u).query \in HeldBy(emitCb["util"]) /\ Head(u).query \in Queries
      BY ONLY <1>2, <1>3, <3>1, QueuedBack
    <3> QED BY ONLY <3>2, <3>3, <3>4, <3>5 DEF m, q
  <2> QED BY ONLY <1>d, <2>1
<1>5. at[q] = "query" BY <1>4, QueuedNames DEF MIs, Queue, Calling
<1>6. /\ toMain'["util"] = Tail(u) /\ toMain'["io"] = toMain["io"]
      /\ toMain' \in [Messages!Workers -> Seq(Mail)] /\ Tail(u) \in Seq(Mail)
  <2>1. Tail(u) \in Seq(Mail) BY <1>1, <1>2, TakenFields
  <2> QED BY <1>0, <1>1, <2>1, MNames DEF MTyped
<1>7. \A i \in DOMAIN toMain'["util"] : toMain'["util"][i].msg # "data"
  <2>1. \A i \in DOMAIN Tail(u) : i + 1 \in DOMAIN u /\ Tail(u)[i] = u[i + 1]
    BY <1>1, <1>2, TakenFields
  <2> QED BY <1>6, <2>1 DEF MIs, Reads
<1>8. sent[q] = 0 /\ result[q] = <<>> BY <1>4, <1>5 DEF MIs, Whole
<1>9. CASE ~m.ok
  <2>1. /\ at' = [at EXCEPT ![q] = "rejected"] /\ emitCb' = [emitCb EXCEPT !["util"] = d]
        /\ UNCHANGED <<fd, idx, free, count, toWorker, shared>>
    BY <1>4, <1>9 DEF Messages!Queried, Messages!To
  <2>2. /\ at'[q] = "rejected" /\ \A p \in Queries : p # q => at'[p] = at[p]
        /\ at' \in [Queries -> Stages]
    BY <1>0, <1>4, <2>1 DEF MTyped, Stages
  <2>3. emitCb'["util"] = d /\ emitCb'["io"] = emitCb["io"] /\ DOMAIN emitCb' = Messages!Workers
    BY <1>0, <2>1, MNames DEF MTyped
  <2>4. MTyped' BY <1>0, <1>1, <1>6, <2>1, <2>2, <2>3 DEF MTyped
  <2>5. Queue("util")'
    <3>1. Calling("util")' BY <1>4, <2>2, <2>3, QueuedNames DEF MIs, Queue, Calling
    <3> QED BY <1>4, <1>6, <2>1, <2>3, <3>1 DEF Queue
  <2>6. \A p \in Queries : at'[p] = "reading" <=> at[p] = "reading" BY <1>5, <2>2
  <2>7. Queue("io")' BY <1>6, <2>1, <2>3, <2>6, QueueSame, QueuedNames DEF MIs
  <2>8. Reads' BY <1>1, <1>6, <1>7, <2>1, <2>6 DEF MIs, Reads
  <2>9. ASSUME NEW p \in Queries PROVE Whole(p)' BY <1>1, <1>6, <1>8, <2>1, <2>2 DEF MIs, Whole
  <2>10. Listed' BY <1>0, <1>1, <2>1, <2>6, ListedSame DEF MIs
  <2> QED BY <2>4, <2>5, <2>7, <2>8, <2>9, <2>10 DEF MIs
<1>10. CASE m.ok
  <2> PICK r : r = Messages!Request("io", "readStringFully", q)
    OBVIOUS
  <2>1. /\ at' = [at EXCEPT ![q] = "reading"] /\ fd' = [fd EXCEPT ![q] = q]
        /\ free' = [free EXCEPT ![s] = Append(@, q)] /\ idx' = [idx EXCEPT ![q] = Len(free[s]) + 1]
        /\ emitCb' = [emitCb EXCEPT !["util"] = d, !["io"] = Messages!With(@, r, q)]
        /\ count' = [count EXCEPT !["io"] = @ + 1] /\ toWorker' = [toWorker EXCEPT !["io"] = Append(@, r)]
        /\ shared' = IF Messages!Listening(s) = {} THEN shared
                     ELSE shared \cup Messages!Listening(s) \cup {q}
    BY <1>4, <1>10 DEF Messages!Queried, Messages!To, Messages!Emit
  <2>2. r \in Letter /\ r.msg = Name("io") /\ r.count = count["io"] + 1 /\ r.query = q
    BY <1>2, <1>4, QueuedNames DEF Messages!Request, Messages!Message, Letter
  <2>3. /\ at'[q] = "reading" /\ \A p \in Queries : p # q => at'[p] = at[p]
        /\ at' \in [Queries -> Stages]
    BY <1>0, <1>4, <2>1 DEF MTyped, Stages
  <2>4. /\ emitCb'["util"] = d /\ emitCb'["io"] = Messages!With(emitCb["io"], r, q)
        /\ DOMAIN emitCb' = Messages!Workers
        /\ count'["util"] = count["util"] /\ count'["io"] = count["io"] + 1
        /\ count' \in [Messages!Workers -> Nat]
    <3>1. count \in [Messages!Workers -> Nat] /\ DOMAIN emitCb = Messages!Workers BY <1>0 DEF MTyped
    <3>2. "util" \in Messages!Workers /\ "io" \in Messages!Workers /\ count["io"] + 1 \in Nat BY <3>1, MNames
    <3> QED BY ONLY <2>1, <3>1, <3>2
  <2>5. /\ toWorker'["util"] = toWorker["util"] /\ toWorker'["io"] = Append(toWorker["io"], r)
        /\ toWorker["io"] \in Seq(Letter) /\ toMain["io"] \in Seq(Mail)
        /\ toWorker' \in [Messages!Workers -> Seq(Letter)]
    <3>1. toWorker \in [Messages!Workers -> Seq(Letter)] /\ toMain \in [Messages!Workers -> Seq(Mail)]
      BY <1>0 DEF MTyped
    <3>2. "util" \in Messages!Workers /\ "io" \in Messages!Workers BY MNames
    <3>3. Append(toWorker["io"], r) \in Seq(Letter) BY ONLY <2>2, <3>1, <3>2
    <3> QED BY ONLY <2>1, <3>1, <3>2, <3>3
  <2>6. s \in Services /\ free[s] \in Seq(Queries \cup {Messages!None})
        /\ Len(free[s]) + 1 \in Nat
    <3>1. service \in [Queries -> Services] /\ free \in [Services -> Seq(Queries \cup {Messages!None})]
      BY <1>0 DEF MTyped
    <3>2. s \in Services BY <1>4, <3>1
    <3>3. free[s] \in Seq(Queries \cup {Messages!None}) BY ONLY <3>1, <3>2
    <3> QED BY ONLY <3>2, <3>3
  <2>7. free' \in [Services -> Seq(Queries \cup {Messages!None})] /\ free'[s] = Append(free[s], q)
        /\ \A t \in Services : t # s => free'[t] = free[t]
    <3>1. Append(free[s], q) \in Seq(Queries \cup {Messages!None})
      <4>1. q \in Queries \cup {Messages!None} BY <1>4
      <4> QED BY <2>6, <4>1
    <3>2. free \in [Services -> Seq(Queries \cup {Messages!None})] BY <1>0 DEF MTyped
    <3>3. free' = [free EXCEPT ![s] = Append(free[s], q)] BY <2>1
    <3> QED BY ONLY <2>6, <3>1, <3>2, <3>3
  <2>8. Messages!Listening(s) = {p \in Queries : at[p] = "reading" /\ service[p] = s}
    BY <2>6, ListeningIs
  <2>9. shared \subseteq shared' /\ shared' \subseteq Queries
        /\ \A p \in Queries : at[p] = "reading" /\ service[p] = s => p \in shared' /\ q \in shared'
    BY <1>0, <1>4, <2>1, <2>8 DEF MTyped
  <2>10. /\ fd' \in [Queries -> Queries \cup {Messages!None}] /\ fd'[q] = q
         /\ \A p \in Queries : p # q => fd'[p] = fd[p]
         /\ idx' \in [Queries -> Nat] /\ idx'[q] = Len(free[s]) + 1
         /\ \A p \in Queries : p # q => idx'[p] = idx[p]
    BY <1>0, <1>4, <2>1, <2>6 DEF MTyped
  <2>11. MTyped' BY <1>0, <1>1, <1>6, <2>3, <2>4, <2>5, <2>7, <2>9, <2>10 DEF MTyped
  <2>12. Queue("util")'
    <3>1. Calling("util")' BY <1>4, <2>3, <2>4, QueuedNames DEF MIs, Queue, Calling
    <3> QED BY <1>4, <1>6, <2>4, <2>5, <3>1 DEF Queue
  <2>13. Queued("io", toWorker["io"], toMain["io"], emitCb["io"], count["io"]) BY DEF MIs, Queue
  <2>14. q \notin HeldBy(emitCb["io"]) BY <1>4, <1>5, QueuedNames DEF MIs, Queue, Calling
  <2>15. Queue("io")'
    <3>1. Queued("io", toWorker["io"], toMain["io"], emitCb["io"], count["io"])'
      <4>1. toMain'["io"] = toMain["io"] /\ count["io"] \in Nat BY <1>2, <1>6
      <4>2. q \in Queries \ HeldBy(emitCb["io"]) BY <1>4, <2>14
      <4>3. Queued("io", Append(toWorker["io"], r), toMain["io"], Messages!With(emitCb["io"], r, q), count["io"] + 1)
        BY ONLY <2>2, <2>5, <2>13, <4>1, <4>2, QueuedAsked
      <4> QED BY ONLY <2>4, <2>5, <4>1, <4>3
    <3>2. HeldBy(emitCb["io"])' = HeldBy(emitCb["io"]) \cup {q}
      <4>1. Given(emitCb["io"], "io", count["io"]) BY <2>13 DEF Queued
      <4>2. count["io"] \in Nat /\ q \in Queries \ HeldBy(emitCb["io"]) BY <1>2, <1>4, <2>14
      <4>3. HeldBy(Messages!With(emitCb["io"], r, q)) = HeldBy(emitCb["io"]) \cup {q}
        BY ONLY SMTT(30), <2>2, <4>1, <4>2, CallbackHeld
      <4> QED BY ONLY Zenon, <2>4, <4>3
    <3>3. Calling("io")' BY <2>3, <3>2, QueuedNames DEF MIs, Queue, Calling
    <3> QED BY <3>1, <3>3 DEF Queue
  <2>16. \A p \in Queries : at[p] = "reading" => at'[p] = "reading" BY <2>3
  <2>17. Reads'
    <3>1. Asks(toWorker'["io"], "io") = Asks(toWorker["io"], "io") \cup {q}
      BY <1>4, <2>2, <2>5, PostedAsks
    <3>2. \A p \in Asks(toWorker'["io"], "io") : p # reading => sent[p] = 0 BY <1>8, <3>1 DEF MIs, Reads
    <3>3. toWorker["io"] # <<>> => /\ toWorker'["io"] # <<>>
                                  /\ Head(toWorker'["io"]) = Head(toWorker["io"])
      BY ONLY <2>2, <2>5
    <3>4. Reads BY DEF MIs
    <3> QED BY ONLY <1>1, <1>6, <1>7, <2>16, <3>2, <3>3, <3>4 DEF Reads
  <2>18. ASSUME NEW p \in Queries PROVE Whole(p)'
    <3>0. Whole(p) BY DEF MIs
    <3>1. CASE p = q
      <4>1. Got(<<>>, q) = {} /\ DOMAIN <<>> = {} BY DEF Got
      <4>2. Cardinality(PiecesOf(toMain["io"], q)) = 0 /\ Cardinality(Got(<<>>, q)) = 0
        BY <1>4, <1>5, <4>1, NonePieces, FS_EmptySet
      <4>3. Cardinality(PiecesOf(toMain["io"], q)) + Cardinality(Got(<<>>, q)) = 0 BY ONLY <4>2
      <4>4. toMain'["io"] = toMain["io"] /\ result'[q] = <<>> /\ sent'[q] = 0 BY <1>1, <1>6, <1>8
      <4> QED BY ONLY <2>3, <3>1, <4>1, <4>3, <4>4 DEF Whole
    <3>2. CASE p # q BY <1>1, <1>6, <2>3, <2>9, <3>0, <3>2 DEF Whole
    <3> QED BY <3>1, <3>2
  <2>19. Listed'
    <3>0. Listed BY DEF MIs
    <3>1. /\ DOMAIN free'[s] = DOMAIN free[s] \cup {Len(free[s]) + 1} /\ free'[s][Len(free[s]) + 1] = q
          /\ \A i \in DOMAIN free[s] : free'[s][i] = free[s][i]
      <4>1. q \in Queries \cup {Messages!None} BY <1>4
      <4>2. free[s] \in Seq(Queries \cup {Messages!None}) /\ free'[s] = Append(free[s], q) BY <2>6, <2>7
      <4> HIDE DEF s, q
      <4>3. /\ DOMAIN Append(free[s], q) = DOMAIN free[s] \cup {Len(free[s]) + 1}
            /\ Append(free[s], q)[Len(free[s]) + 1] = q
            /\ \A i \in DOMAIN free[s] : Append(free[s], q)[i] = free[s][i]
        BY ONLY <4>1, <4>2, PostedFields
      <4> QED BY ONLY <4>2, <4>3
    <3>2. \A t \in Services : \A i \in DOMAIN free[t] : i \in DOMAIN free'[t] /\ free'[t][i] = free[t][i]
      BY <2>7, <3>1
    <3>3. ASSUME NEW p \in Queries
          PROVE  /\ fd'[p] \in {Messages!None, p}
                 /\ at'[p] = "reading" => /\ idx'[p] \in DOMAIN free'[service[p]]
                                          /\ free'[service[p]][idx'[p]] = p
      <4>1. CASE p = q BY <2>10, <3>1, <4>1
      <4>2. CASE p # q
        <5>1. service[p] \in Services BY <1>0 DEF MTyped
        <5> QED BY <2>3, <2>10, <3>0, <3>2, <4>2, <5>1 DEF Listed
      <4> QED BY <4>1, <4>2
    <3>4. ASSUME NEW t \in Services, NEW i \in DOMAIN free'[t], free'[t][i] # Messages!None
          PROVE  /\ service[free'[t][i]] = t /\ at'[free'[t][i]] = "reading" /\ idx'[free'[t][i]] = i
      <4>1. CASE i \in DOMAIN free[t]
        <5>1. free'[t][i] = free[t][i] /\ free[t][i] \in Queries
          BY <1>0, <3>2, <3>4, <4>1 DEF MTyped
        <5>2. free[t][i] # q BY <1>5, <3>0, <3>4, <4>1, <5>1 DEF Listed
        <5> QED BY <2>3, <2>10, <3>0, <3>4, <4>1, <5>1, <5>2 DEF Listed
      <4>2. CASE i \notin DOMAIN free[t]
        <5>1. t = s /\ i = Len(free[s]) + 1 BY <2>7, <3>1, <3>4, <4>2
        <5> QED BY <2>3, <2>10, <3>1, <5>1
      <4> QED BY <4>1, <4>2
    <3>5. ASSUME NEW p \in Queries, NEW o \in Queries, p # o, service[p] = service[o],
                 at'[p] = "reading", at'[o] = "reading"
          PROVE  p \in shared'
      <4>1. CASE p # q /\ o # q BY <2>3, <2>9, <3>0, <3>5, <4>1 DEF Listed
      <4>2. CASE p = q BY <2>3, <2>9, <3>5, <4>2
      <4>3. CASE o = q BY <2>3, <2>9, <3>5, <4>3
      <4> QED BY <4>1, <4>2, <4>3
    <3>6. service' = service BY <1>1
    <3> QED BY ONLY <3>3, <3>4, <3>5, <3>6 DEF Listed
  <2> QED BY <2>11, <2>12, <2>15, <2>17, <2>18, <2>19 DEF MIs
<1> QED BY <1>9, <1>10

(* The io worker's answer: all the pieces were before it, and the query    *)
(* listens no more.                                                        *)
LEMMA MRead ==
  ASSUME MIs, Messages!MessagesAssumption, Messages!Read PROVE MIs'
<1> DEFINE u == toMain["io"]
           q == Head(u).query
           s == service[q]
<1>0. MTyped /\ Reads /\ Listed BY DEF MIs
<1>1. /\ u # <<>> /\ Messages!Slug(Head(u)) \in DOMAIN emitCb["io"] /\ ~closed
      /\ toMain' = [toMain EXCEPT !["io"] = Tail(@)]
      /\ emitCb' = [emitCb EXCEPT !["io"] = Messages!Without(@, Head(u))]
      /\ UNCHANGED <<service, fd, idx, result, count, toWorker, reading, answer, fails, sent, shared, lost, closed>>
  BY DEF Messages!Read, Messages!Awaited, Messages!Takes, Messages!server, Messages!ghosts
<1>2. u \in Seq(Mail) /\ count["io"] \in Nat BY <1>0, MNames DEF MTyped
<1>3. /\ Queued("io", toWorker["io"], u, emitCb["io"], count["io"])
      /\ u # <<>> /\ Messages!Slug(Head(u)) \in DOMAIN emitCb["io"]
  BY <1>1 DEF MIs, Queue
<1>4. /\ Queued("io", toWorker["io"], Tail(u), Messages!Without(emitCb["io"], Head(u)), count["io"])
      /\ HeldBy(Messages!Without(emitCb["io"], Head(u))) = HeldBy(emitCb["io"]) \ {q}
      /\ q \in HeldBy(emitCb["io"]) /\ q \in Queries /\ q \in Asks(u, "io")
      /\ Head(u).msg = Name("io")
      /\ \A p \in Asks(Tail(u), "io") : p \in Asks(u, "io")
  <2> HIDE DEF u
  <2>1. Queued("io", toWorker["io"], Tail(u), Messages!Without(emitCb["io"], Head(u)), count["io"])
    BY ONLY <1>2, <1>3, QueuedBack
  <2>2. HeldBy(Messages!Without(emitCb["io"], Head(u))) = HeldBy(emitCb["io"]) \ {Head(u).query}
    <3>1. Given(emitCb["io"], "io", count["io"]) /\ Finds(u, "io", emitCb["io"])
      BY ONLY <1>3 DEF Queued
    <3>2. Head(u).msg = Name("io") BY ONLY <1>2, <1>3, <3>1, CallbackGone
    <3>3. emitCb["io"][Messages!Slug(Head(u))] = Head(u).query
      BY ONLY <1>2, <1>3, <3>1, <3>2, HeadAsks
    <3> QED BY ONLY <1>2, <1>3, <3>1, <3>3, CallbackGone
  <2>3. Head(u).query \in HeldBy(emitCb["io"]) /\ Head(u).query \in Queries
    BY ONLY <1>2, <1>3, QueuedBack
  <2>4. Head(u).query \in Asks(u, "io") /\ Head(u).msg = Name("io") BY ONLY <1>2, <1>3, QueuedBack
  <2>5. \A p \in Asks(Tail(u), "io") : p \in Asks(u, "io") BY ONLY <1>2, <1>3, QueuedBack
  <2> QED BY ONLY <2>1, <2>2, <2>3, <2>4, <2>5 DEF q
<1>5. emitCb["io"][Messages!Slug(Head(u))] = q
  <2>1. Given(emitCb["io"], "io", count["io"]) /\ Finds(u, "io", emitCb["io"])
    BY ONLY <1>3 DEF Queued
  <2> QED BY ONLY <1>2, <1>3, <1>4, <2>1, HeadAsks
<1>6. at[q] = "reading" BY <1>4, QueuedNames DEF MIs, Queue, Calling
<1>7. at' = [at EXCEPT ![q] = "done"] /\ free' = [free EXCEPT ![s][idx[q]] = Messages!None]
  BY <1>5 DEF Messages!Read, Messages!To, Messages!freeListener
<1>8. /\ toMain'["io"] = Tail(u) /\ toMain'["util"] = toMain["util"]
      /\ toMain' \in [Messages!Workers -> Seq(Mail)] /\ Tail(u) \in Seq(Mail)
  <2>1. Tail(u) \in Seq(Mail) BY <1>1, <1>2, TakenFields
  <2> QED BY <1>0, <1>1, <2>1, MNames DEF MTyped
<1>9. /\ emitCb'["util"] = emitCb["util"] /\ DOMAIN emitCb' = Messages!Workers
      /\ emitCb'["io"] = Messages!Without(emitCb["io"], Head(u))
  BY <1>0, <1>1, MNames DEF MTyped
<1>10. at'[q] = "done" /\ (\A p \in Queries : p # q => at'[p] = at[p]) /\ at' \in [Queries -> Stages]
  BY <1>0, <1>4, <1>7 DEF MTyped, Stages
<1>11. /\ s \in Services /\ free[s] \in Seq(Queries \cup {Messages!None})
       /\ idx[q] \in DOMAIN free[s] /\ free[s][idx[q]] = q
  <2>1. service \in [Queries -> Services] /\ free \in [Services -> Seq(Queries \cup {Messages!None})]
    BY <1>0 DEF MTyped
  <2>2. s \in Services BY <1>4, <2>1
  <2>3. free[s] \in Seq(Queries \cup {Messages!None}) BY ONLY <2>1, <2>2
  <2>4. idx[q] \in DOMAIN free[s] /\ free[s][idx[q]] = q BY <1>0, <1>4, <1>6 DEF Listed
  <2> QED BY <2>2, <2>3, <2>4
<1>12. /\ free'[s] = [free[s] EXCEPT ![idx[q]] = Messages!None]
       /\ free' \in [Services -> Seq(Queries \cup {Messages!None})]
       /\ \A t \in Services : t # s => free'[t] = free[t]
  <2>1. [free[s] EXCEPT ![idx[q]] = Messages!None] \in Seq(Queries \cup {Messages!None})
    BY ONLY <1>11
  <2> QED BY <1>0, <1>7, <1>11, <2>1 DEF MTyped
<1>13. MTyped' BY <1>0, <1>1, <1>8, <1>9, <1>10, <1>12 DEF MTyped
<1>14. Queue("io")'
  <2>1. Calling("io")' BY <1>4, <1>9, <1>10, QueuedNames DEF MIs, Queue, Calling
  <2> QED BY <1>1, <1>4, <1>8, <1>9, <2>1 DEF Queue
<1>15. \A p \in Queries : at'[p] = "query" <=> at[p] = "query" BY <1>6, <1>10
<1>16. Queue("util")' BY <1>1, <1>8, <1>9, <1>15, QueueSame, QueuedNames DEF MIs
<1>17. PiecesOf(u, q) = {} BY <1>0, <1>1, <1>2, <1>4, AnswerLast, QueuedNames DEF Reads
<1>18. Reads'
  <2>1. PiecesFirst(Tail(u)) BY <1>0, <1>1, <1>2, TakenFirst DEF Reads
  <2>2. ASSUME NEW i \in DOMAIN Tail(u), Tail(u)[i].msg = "data"
        PROVE  /\ Tail(u)[i].query \in Queries /\ at'[Tail(u)[i].query] = "reading"
               /\ Tail(u)[i].service = service[Tail(u)[i].query]
    <3>1. i + 1 \in DOMAIN u /\ Tail(u)[i] = u[i + 1] BY <1>1, <1>2, TakenFields
    <3>2. Tail(u)[i].query # q BY <1>17, <2>2, <3>1 DEF PiecesOf
    <3> QED BY <1>0, <1>10, <2>2, <3>1, <3>2 DEF Reads
  <2>3. \A p \in Asks(Tail(u), "io") : sent[p] = answer[p] /\ p \notin fails BY <1>0, <1>4 DEF Reads
  <2>4. UNCHANGED <<reading, closed, toWorker, sent, answer, fails, service>> BY <1>1
  <2> QED BY ONLY <1>0, <1>8, <2>1, <2>2, <2>3, <2>4 DEF Reads
<1>19. Head(u).msg # "data" BY <1>4, QueuedNames
<1>20. ASSUME NEW p \in Queries PROVE Whole(p)'
  <2>0. Whole(p) BY DEF MIs
  <2>1. CASE p = q
    <3>1. sent[q] = answer[q] /\ q \notin fails BY <1>0, <1>4 DEF Reads
    <3>2. Cardinality(PiecesOf(u, q)) = 0 BY <1>17, FS_EmptySet
    <3>3. result[q] \in Seq(Queries) BY <1>0, <1>4 DEF MTyped
    <3>4. Cardinality(Got(result[q], q)) \in Nat BY <3>3, GotFinite
    <3>5. 0 + Cardinality(Got(result[q], q)) = sent[q] BY <1>1, <1>6, <2>0, <2>1, <3>2 DEF Whole
    <3>6. Cardinality(Got(result[q], q)) = answer[q] BY ONLY <3>1, <3>4, <3>5
    <3> QED BY <1>1, <1>10, <2>0, <2>1, <3>1, <3>6 DEF Whole
  <2>2. CASE p # q
    <3>1. Cardinality(PiecesOf(u, p)) = Cardinality(PiecesOf(Tail(u), p)) + 0
      BY <1>1, <1>2, <1>19, TakenPieces
    <3>2. Cardinality(PiecesOf(Tail(u), p)) \in Nat BY <1>8, PiecesFinite
    <3>3. Cardinality(PiecesOf(u, p)) = Cardinality(PiecesOf(Tail(u), p)) BY ONLY <3>1, <3>2
    <3> QED BY <1>1, <1>8, <1>10, <2>0, <2>2, <3>3 DEF Whole
  <2> QED BY <2>1, <2>2
<1>21. Listed'
  <2>1. /\ DOMAIN free'[s] = DOMAIN free[s] /\ free'[s][idx[q]] = Messages!None
        /\ \A i \in DOMAIN free[s] : i # idx[q] => free'[s][i] = free[s][i]
    BY <1>11, <1>12
  <2>2. ASSUME NEW p \in Queries, at'[p] = "reading"
        PROVE  idx[p] \in DOMAIN free'[service[p]] /\ free'[service[p]][idx[p]] = p
    <3>1. p # q /\ at[p] = "reading" BY <1>10, <2>2
    <3>2. idx[p] \in DOMAIN free[service[p]] /\ free[service[p]][idx[p]] = p /\ service[p] \in Services
      BY <1>0, <3>1 DEF MTyped, Listed
    <3>3. CASE service[p] = s
      <4>1. idx[p] # idx[q] BY <1>11, <3>1, <3>2, <3>3
      <4> QED BY <2>1, <3>2, <3>3, <4>1
    <3>4. CASE service[p] # s BY <1>12, <3>2, <3>4
    <3> QED BY <3>3, <3>4
  <2>3. ASSUME NEW t \in Services, NEW i \in DOMAIN free'[t], free'[t][i] # Messages!None
        PROVE  /\ service[free'[t][i]] = t /\ at'[free'[t][i]] = "reading" /\ idx[free'[t][i]] = i
    <3>1. i \in DOMAIN free[t] /\ free'[t][i] = free[t][i] BY <1>12, <2>1, <2>3
    <3>2. free[t][i] \in Queries
      <4>1. free[t] \in Seq(Queries \cup {Messages!None}) BY <1>0 DEF MTyped
      <4> QED BY <2>3, <3>1, <4>1
    <3>3. service[free[t][i]] = t /\ at[free[t][i]] = "reading" /\ idx[free[t][i]] = i
      BY <1>0, <2>3, <3>1 DEF Listed
    <3>4. free[t][i] # q BY <2>1, <2>3, <3>1, <3>3
    <3> QED BY <1>10, <3>1, <3>2, <3>3, <3>4
  <2>4. \A p \in Queries : at'[p] = "reading" => at[p] = "reading" BY <1>6, <1>10
  <2>5. UNCHANGED <<fd, idx, service, shared>> BY <1>1
  <2> QED BY ONLY <1>0, <2>2, <2>3, <2>4, <2>5 DEF Listed
<1> QED BY <1>13, <1>14, <1>16, <1>18, <1>20, <1>21 DEF MIs

(* A piece goes to whoever listens for the service, the reader among them. *)
LEMMA MPiece ==
  ASSUME MIs, Messages!MessagesAssumption, Messages!Heard("io"), Head(toMain["io"]).msg = "data"
  PROVE  MIs'
<1> DEFINE u == toMain["io"]
           q == Head(u).query
<1>0. MTyped /\ Reads /\ Listed BY DEF MIs
<1>1. /\ u # <<>> /\ ~closed /\ toMain' = [toMain EXCEPT !["io"] = Tail(@)]
      /\ result' = [p \in Queries |->
            IF p \in Messages!Listening(Head(u).service) THEN Append(result[p], q) ELSE result[p]]
      /\ UNCHANGED <<toWorker, service, at, fd, idx, count, emitCb, free, reading, answer, fails, sent, shared,
                     lost, closed>>
  BY DEF Messages!Heard, Messages!Takes, Messages!proxyVars, Messages!server, Messages!ghosts
<1>2. u \in Seq(Mail) BY <1>0, MNames DEF MTyped
<1>3. q \in Queries /\ at[q] = "reading" /\ Head(u).service = service[q]
  <2>1. Head(u) = u[1] /\ 1 \in DOMAIN u BY <1>1, <1>2, TakenFields
  <2> QED BY <1>0, <2>1 DEF Reads
<1>4. Messages!Listening(service[q]) = {p \in Queries : at[p] = "reading" /\ service[p] = service[q]}
  BY <1>0, <1>3, ListeningIs DEF MTyped
<1>5. /\ toMain'["io"] = Tail(u) /\ toMain'["util"] = toMain["util"]
      /\ toMain' \in [Messages!Workers -> Seq(Mail)] /\ Tail(u) \in Seq(Mail)
  <2>1. Tail(u) \in Seq(Mail) BY <1>1, <1>2, TakenFields
  <2> QED BY <1>0, <1>1, <2>1, MNames DEF MTyped
<1>6. \A p \in Queries : result[p] \in Seq(Queries) /\ Append(result[p], q) \in Seq(Queries)
  BY <1>0, <1>3 DEF MTyped
<1>7. result' \in [Queries -> Seq(Queries)] BY <1>1, <1>6
<1>8. MTyped' BY <1>0, <1>1, <1>5, <1>7 DEF MTyped
<1>9. /\ Queued("io", toWorker["io"], Tail(u), emitCb["io"], count["io"])
      /\ \A p \in Asks(Tail(u), "io") : p \in Asks(u, "io")
  BY <1>1, <1>2, QueuedTaken DEF MIs, Queue
<1>10. Queue("io")'
  <2>1. Calling("io")' BY <1>1 DEF MIs, Queue, Calling
  <2> QED BY <1>1, <1>5, <1>9, <2>1 DEF Queue
<1>11. Queue("util")' BY <1>1, <1>5, QueueSame DEF MIs
<1>12. Reads'
  <2>1. PiecesFirst(Tail(u)) BY <1>0, <1>1, <1>2, TakenFirst DEF Reads
  <2>2. \A i \in DOMAIN Tail(u) : i + 1 \in DOMAIN u /\ Tail(u)[i] = u[i + 1]
    BY <1>1, <1>2, TakenFields
  <2>3. \A p \in Asks(Tail(u), "io") : sent[p] = answer[p] /\ p \notin fails BY <1>0, <1>9 DEF Reads
  <2>4. UNCHANGED <<reading, closed, toWorker, sent, answer, fails, service, at>> BY <1>1
  <2> QED BY ONLY <1>0, <1>5, <2>1, <2>2, <2>3, <2>4 DEF Reads
<1>13. ASSUME NEW p \in Queries PROVE Whole(p)'
  <2>0. Whole(p) /\ result[p] \in Seq(Queries) BY <1>6 DEF MIs
  <2>1. Cardinality(PiecesOf(Tail(u), p)) \in Nat /\ Cardinality(PiecesOf(u, p)) \in Nat
        /\ Cardinality(Got(result[p], p)) \in Nat /\ sent[p] \in Nat
    BY <1>0, <1>2, <1>5, <2>0, PiecesFinite, GotFinite DEF MTyped
  <2>2. CASE p = q
    <3>1. Cardinality(PiecesOf(u, p)) = Cardinality(PiecesOf(Tail(u), p)) + 1
      BY <1>1, <1>2, <2>2, TakenPieces
    <3>2. result'[p] = Append(result[p], q) BY <1>1, <1>3, <1>4, <2>2
    <3>3. /\ Cardinality(Got(result'[p], p)) = Cardinality(Got(result[p], p)) + 1
          /\ Got(result[p], p) = DOMAIN result[p] => Got(result'[p], p) = DOMAIN result'[p]
      BY <1>3, <2>0, <2>2, <3>2, GotMore
    <3>4. Cardinality(PiecesOf(u, p)) + Cardinality(Got(result[p], p)) = sent[p]
      BY <1>1, <1>3, <2>0, <2>2 DEF Whole
    <3>5. Cardinality(PiecesOf(Tail(u), p)) + Cardinality(Got(result'[p], p)) = sent[p]
      BY ONLY <2>1, <3>1, <3>3, <3>4
    <3>6. at'[p] = "reading" /\ sent' = sent /\ shared' = shared /\ toMain'["io"] = Tail(u)
      BY <1>1, <1>3, <1>5, <2>2
    <3> QED BY ONLY <2>0, <3>3, <3>5, <3>6 DEF Whole
  <2>3. CASE p # q
    <3>1. Cardinality(PiecesOf(u, p)) = Cardinality(PiecesOf(Tail(u), p)) + 0
      BY <1>1, <1>2, <2>3, TakenPieces
    <3>2. Cardinality(PiecesOf(u, p)) = Cardinality(PiecesOf(Tail(u), p)) BY ONLY <2>1, <3>1
    <3>3. CASE p \in Messages!Listening(service[q])
      <4>1. at[p] = "reading" /\ p \in shared BY <1>0, <1>3, <1>4, <2>3, <3>3 DEF Listed
      <4>2. Got(result'[p], p) = Got(result[p], p) BY <1>1, <1>3, <2>0, <2>3, <3>3, GotMore
      <4>3. at'[p] = "reading" /\ p \in shared' /\ UNCHANGED <<sent, closed>> /\ toMain'["io"] = Tail(u)
        BY <1>1, <1>5, <4>1
      <4> QED BY ONLY <2>0, <3>2, <4>1, <4>2, <4>3 DEF Whole
    <3>4. CASE p \notin Messages!Listening(service[q])
      <4>1. result'[p] = result[p] BY <1>1, <1>3, <3>4
      <4>2. UNCHANGED <<at, sent, closed, shared, answer, fails>> /\ toMain'["io"] = Tail(u) BY <1>1, <1>5
      <4> QED BY ONLY <2>0, <3>2, <4>1, <4>2 DEF Whole
    <3> QED BY <3>3, <3>4
  <2> QED BY <2>2, <2>3
<1>14. Listed' BY <1>0, <1>1, ListedSame
<1> QED BY <1>8, <1>10, <1>11, <1>12, <1>13, <1>14 DEF MIs

(* A log is written and answered; anything else that nobody awaits would   *)
(* be dropped.                                                             *)
LEMMA MOther ==
  ASSUME MIs, NEW w \in Messages!Workers, Messages!Heard(w), Head(toMain[w]).msg # "data"
  PROVE  MIs'
<1> DEFINE u == toMain[w]
<1>0. MTyped /\ Reads /\ Listed BY DEF MIs
<1>1. /\ u # <<>> /\ ~closed /\ toMain' = [toMain EXCEPT ![w] = Tail(@)]
      /\ \/ Head(u).msg = "log" /\ toWorker' = [toWorker EXCEPT ![w] = Append(@, Head(u))]
         \/ toWorker' = toWorker
      /\ UNCHANGED <<result, service, at, fd, idx, count, emitCb, free, reading, answer, fails, sent, shared,
                     lost, closed>>
  BY DEF Messages!Heard, Messages!Takes, Messages!proxyVars, Messages!server, Messages!ghosts
<1>2. u \in Seq(Mail) /\ toWorker[w] \in Seq(Letter) BY <1>0, MNames DEF MTyped
<1>3. /\ toMain'[w] = Tail(u) /\ (\A v \in Messages!Workers : v # w => toMain'[v] = toMain[v])
      /\ toMain' \in [Messages!Workers -> Seq(Mail)] /\ Tail(u) \in Seq(Mail)
  <2>1. Tail(u) \in Seq(Mail) BY <1>1, <1>2, TakenFields
  <2> QED BY <1>0, <1>1, <2>1, MNames DEF MTyped
<1>4. Queue(w) BY MNames DEF MIs
<1>5. /\ Queued(w, toWorker[w], Tail(u), emitCb[w], count[w])
      /\ \A p \in Asks(Tail(u), w) : p \in Asks(u, w)
  BY <1>1, <1>2, <1>4, QueuedTaken DEF Queue
<1>6. /\ Queued(w, toWorker'[w], Tail(u), emitCb[w], count[w])
      /\ Asks(toWorker'[w], w) = Asks(toWorker[w], w)
      /\ toWorker[w] # <<>> => toWorker'[w] # <<>> /\ Head(toWorker'[w]) = Head(toWorker[w])
      /\ \A v \in Messages!Workers : v # w => toWorker'[v] = toWorker[v]
      /\ toWorker' \in [Messages!Workers -> Seq(Letter)]
  <2>1. CASE toWorker' = toWorker BY <1>0, <1>5, <2>1 DEF MTyped
  <2>2. CASE Head(u).msg = "log" /\ toWorker' = [toWorker EXCEPT ![w] = Append(@, Head(u))]
    <3>1. Head(u) \in Letter
      <4>1. Head(u) \in Mail BY <1>1, <1>2, TakenFields
      <4>2. Head(u) \notin Reply /\ Head(u) \notin Piece BY <2>2 DEF Reply, Piece
      <4> QED BY <4>1, <4>2 DEF Mail
    <3>2. Head(u).msg # Name(w) BY <2>2 DEF Name
    <3>3. /\ toWorker'[w] = Append(toWorker[w], Head(u))
          /\ (\A v \in Messages!Workers : v # w => toWorker'[v] = toWorker[v])
          /\ toWorker' \in [Messages!Workers -> Seq(Letter)]
      <4>1. Append(toWorker[w], Head(u)) \in Seq(Letter) BY ONLY <1>2, <3>1
      <4> QED BY <1>0, <2>2, <4>1 DEF MTyped
    <3>4. /\ Queued(w, toWorker'[w], Tail(u), emitCb[w], count[w])
          /\ Asks(toWorker'[w], w) = Asks(toWorker[w], w)
      BY ONLY <1>2, <1>5, <3>1, <3>2, <3>3, QueuedSent
    <3>5. toWorker[w] # <<>> => toWorker'[w] # <<>> /\ Head(toWorker'[w]) = Head(toWorker[w])
      <4>1. toWorker[w] # <<>> => /\ Append(toWorker[w], Head(u)) # <<>>
                                  /\ Head(Append(toWorker[w], Head(u))) = Head(toWorker[w])
        BY ONLY <1>2, <3>1, PostedHead
      <4> QED BY ONLY <3>3, <4>1
    <3> QED BY <3>3, <3>4, <3>5
  <2> QED BY <1>1, <2>1, <2>2
<1>7. MTyped' BY <1>0, <1>1, <1>3, <1>6 DEF MTyped
<1>8. ASSUME NEW v \in Messages!Workers PROVE Queue(v)'
  <2>1. CASE v = w
    <3>1. Calling(w)' BY <1>1, <1>4 DEF Queue, Calling
    <3> QED BY <1>1, <1>3, <1>6, <2>1, <3>1 DEF Queue
  <2>2. CASE v # w
    <3>1. Queue(v) BY MNames DEF MIs
    <3> QED BY <1>1, <1>3, <1>6, <2>2, <3>1, QueueSame
  <2> QED BY <2>1, <2>2
<1>9. \A i \in DOMAIN Tail(u) : i + 1 \in DOMAIN u /\ Tail(u)[i] = u[i + 1]
  BY <1>1, <1>2, TakenFields
<1>10. UNCHANGED <<service, at, reading, answer, fails, sent, closed>> BY <1>1
<1>11. Reads'
  <2>1. CASE w = "io"
    <3>1. PiecesFirst(Tail(u)) BY <1>0, <1>1, <1>2, <2>1, TakenFirst DEF Reads
    <3>2. toMain'["util"] = toMain["util"] BY <1>3, <2>1, MNames
    <3>3. ASSUME NEW i \in DOMAIN Tail(u), Tail(u)[i].msg = "data"
          PROVE  /\ Tail(u)[i].query \in Queries /\ at[Tail(u)[i].query] = "reading"
                 /\ Tail(u)[i].service = service[Tail(u)[i].query]
      BY <1>0, <1>9, <2>1, <3>3 DEF Reads
    <3>4. \A p \in Asks(Tail(u), "io") : sent[p] = answer[p] /\ p \notin fails BY <1>0, <1>5, <2>1 DEF Reads
    <3>5. /\ toMain'["io"] = Tail(u) /\ Asks(toWorker'["io"], "io") = Asks(toWorker["io"], "io")
          /\ toWorker["io"] # <<>> => /\ toWorker'["io"] # <<>>
                                      /\ Head(toWorker'["io"]) = Head(toWorker["io"])
      BY ONLY <1>3, <1>6, <2>1
    <3> QED BY ONLY <1>0, <1>10, <3>1, <3>2, <3>3, <3>4, <3>5 DEF Reads
  <2>2. CASE w = "util"
    <3>1. toMain'["io"] = toMain["io"] /\ toWorker'["io"] = toWorker["io"] BY <1>3, <1>6, <2>2, MNames
    <3>2. \A i \in DOMAIN toMain'["util"] : toMain'["util"][i].msg # "data"
      <4>1. toMain'["util"] = Tail(toMain["util"]) BY <1>3, <2>2
      <4>2. \A i \in DOMAIN Tail(toMain["util"]) :
              i + 1 \in DOMAIN toMain["util"] /\ Tail(toMain["util"])[i] = toMain["util"][i + 1]
        BY <1>9, <2>2
      <4>3. \A i \in DOMAIN toMain["util"] : toMain["util"][i].msg # "data" BY <1>0 DEF Reads
      <4> QED BY ONLY <4>1, <4>2, <4>3
    <3> QED BY ONLY <1>0, <1>10, <3>1, <3>2 DEF Reads
  <2> QED BY <2>1, <2>2, MNames
<1>12. ASSUME NEW p \in Queries PROVE Whole(p)'
  <2>0. Whole(p) BY DEF MIs
  <2>1. Cardinality(PiecesOf(toMain'["io"], p)) = Cardinality(PiecesOf(toMain["io"], p))
    <3>1. CASE w = "io"
      <4>1. Cardinality(PiecesOf(u, p)) = Cardinality(PiecesOf(Tail(u), p)) + 0
        BY <1>1, <1>2, TakenPieces
      <4>2. Cardinality(PiecesOf(Tail(u), p)) \in Nat BY <1>3, PiecesFinite
      <4>3. toMain'["io"] = Tail(u) /\ toMain["io"] = u BY <1>3, <3>1
      <4> QED BY ONLY <4>1, <4>2, <4>3
    <3>2. CASE w = "util" BY <1>3, <3>2, MNames
    <3> QED BY <3>1, <3>2, MNames
  <2>2. UNCHANGED <<result, shared>> BY <1>1
  <2> QED BY ONLY <1>10, <2>0, <2>1, <2>2 DEF Whole
<1>13. Listed' BY <1>0, <1>1, ListedSame
<1> QED BY <1>7, <1>8, <1>11, <1>12, <1>13, MNames DEF MIs

LEMMA MStep == ASSUME Messages!MessagesAssumption, MIs, [Messages!Next]_Messages!messageVars PROVE MIs'
<1>1. ASSUME NEW w \in Messages!Workers, Messages!Heard(w) PROVE MIs'
  <2>1. CASE Head(toMain[w]).msg # "data" BY <1>1, <2>1, MOther
  <2>2. CASE w = "io" /\ Head(toMain[w]).msg = "data" BY <1>1, <2>2, MPiece
  <2>3. w = "util" => Head(toMain[w]).msg # "data"
    <3>1. toMain[w] \in Seq(Mail) /\ toMain[w] # <<>> BY <1>1 DEF MIs, MTyped, Messages!Heard
    <3>2. Head(toMain[w]) = toMain[w][1] /\ 1 \in DOMAIN toMain[w] BY <3>1, TakenFields
    <3> QED BY <3>2 DEF MIs, Reads
  <2> QED BY <2>1, <2>2, <2>3, MNames
<1>2. CASE UNCHANGED Messages!messageVars
  <2>1. UNCHANGED <<service, at, fd, idx, result, count, emitCb, free, toWorker, toMain, reading, answer,
                    fails, sent, shared, lost, closed>>
    BY <1>2 DEF Messages!messageVars, Messages!queryVars, Messages!proxyVars, Messages!channels,
                Messages!server, Messages!ghosts
  <2>2. MTyped' BY <2>1 DEF MIs, MTyped
  <2>3. Queue("util")' /\ Queue("io")' BY <2>1, QueueSame DEF MIs
  <2>4. Reads' BY <2>1, ReadsSame DEF MIs
  <2>5. \A q \in Queries : Whole(q)' BY <2>1, WholeSame DEF MIs
  <2>6. Listed' BY <2>1, ListedSame DEF MIs
  <2> QED BY <2>2, <2>3, <2>4, <2>5, <2>6 DEF MIs
<1>3. CASE Messages!Handles
  BY <1>1, <1>3, MUtilQuery, MIoReads, MData, MReadEnds, MQueried, MRead, MLogAnswered
     DEF Messages!Handles
<1> QED BY <1>2, <1>3, MQuery, MClose DEF Messages!Next

LEMMA MAnswers == ASSUME Messages!MessagesAssumption, MIs PROVE Messages!AnswersMatch
<1>0. MTyped BY DEF MIs
<1>1. \A S : Messages!Cardinality(S) = Cardinality(S) BY DEF Cardinality, Messages!Cardinality
<1> SUFFICES ASSUME NEW q \in Queries
             PROVE  /\ fd[q] \in {Messages!None, q}
                    /\ at[q] = "done" => /\ Messages!Cardinality(Messages!Own(q)) = answer[q]
                                         /\ q \notin fails
                    /\ Messages!Own(q) = DOMAIN result[q] \/ q \in shared
                    /\ q \in Messages!Listening(service[q]) <=> at[q] = "reading"
                    /\ at[q] \in {"query", "reading"} <=> Messages!Kept(q)
  BY DEF Messages!AnswersMatch
<1>2. fd[q] \in {Messages!None, q} BY DEF MIs, Listed
<1>3. Messages!Own(q) = Got(result[q], q) BY DEF Messages!Own, Got
<1>4. Whole(q) BY DEF MIs
<1>5. q \in Messages!Listening(service[q]) <=> at[q] = "reading" BY <1>0, ListeningIs DEF MTyped
<1>6. Messages!Kept(q) <=> q \in HeldBy(emitCb["util"]) \/ q \in HeldBy(emitCb["io"])
  BY MNames DEF Messages!Kept, HeldBy
<1>7. at[q] \in {"query", "reading"} <=> Messages!Kept(q)
  BY <1>6, QueuedNames DEF MIs, Queue, Calling
<1> QED BY <1>1, <1>2, <1>3, <1>4, <1>5, <1>7 DEF Whole

-----------------------------------------------------------------------------
(* The three together, as MCLifecycle runs them.                           *)
PartsInv == IInv /\ ProcIs /\ MIs

LEMMA PartsKept == PartsSpec => []PartsInv
<1> USE PartsAssumption
<1>1. PartsInit => PartsInv BY InitHolds, ProcInit, MInit DEF PartsInit, PartsInv
<1>2. ASSUME PartsInv, [PartsNext]_<<part, vars, simVars, messageVars>> PROVE PartsInv'
  <2>1. IInv'
    <3>1. [Next]_vars BY <1>2 DEF PartsNext
    <3> QED BY <1>2, <3>1, Kept DEF PartsInv
  <2>2. ProcIs'
    <3>1. simVars' = simVars => UNCHANGED Sim!vars BY DEF simVars, Sim!vars, Sim!conn
    <3>2. [Sim!Next]_(Sim!vars) BY <1>2, <3>1 DEF PartsNext
    <3> QED BY <1>2, <3>2, ProcStep DEF PartsInv
  <2>3. MIs'
    <3>1. messageVars' = messageVars => UNCHANGED Messages!messageVars
      BY DEF messageVars, Messages!messageVars, Messages!queryVars, Messages!proxyVars,
             Messages!channels, Messages!server, Messages!ghosts
    <3>2. [Messages!Next]_(Messages!messageVars) BY <1>2, <3>1 DEF PartsNext
    <3> QED BY <1>2, <3>2, MStep DEF PartsInv
  <2> QED BY <2>1, <2>2, <2>3 DEF PartsInv
<1> QED BY <1>1, <1>2, PTL DEF PartsSpec

(* The types of the life cycle and of the simulator process: among them    *)
(* that there are never more attempts to connect under way than client     *)
(* objects, in any order of the events (adb.js,                            *)
(* remote-simulator-client.js:47-330).                                     *)
THEOREM PartsTyped == PartsSpec => []TypesOK
<1>1. PartsInv => TypesOK BY ProcParts DEF PartsInv, IInv, ProcIs, TypesOK
<1> QED BY <1>1, PartsKept, PTL

(* As long as every run of the simulator began with nothing left of the    *)
(* one before, there is at most one client, _clientConnecting and          *)
(* _clientConnected say where it is, and isReady answers for a client that *)
(* has not closed (remote-simulator-client.js:74-163).  A query of adb is  *)
(* given the connection that was made for it and the whole of what the io  *)
(* worker reads from it, and pieces of others only of those that asked for *)
(* the same service meanwhile (adb.js:88-105,                              *)
(* evented-chrome-worker.js:40-130, io-utils.js:49-66).                    *)
THEOREM ChannelsOne == PartsSpec => []OneChannel
<1>1. PartsInv => OneChannel
  BY PartsAssumption, ProcOne, MAnswers DEF PartsInv, OneChannel
<1> QED BY <1>1, PartsKept, PTL

=============================================================================
