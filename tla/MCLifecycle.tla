------------------------------ MODULE MCLifecycle ------------------------------
(***************************************************************************)
(* What the add-on starts and stops, in one run: adb with its workers, the *)
(* queries over their messages, and the simulator process.  They share no  *)
(* state, so a behaviour is one of one of them: `part` names it, the       *)
(* others stay as they begin.                                              *)
(***************************************************************************)
EXTENDS AdbLifecycle

CONSTANTS Clients, Ports, Calls, NoClient, NoPort, Queries, Services, MaxPieces

VARIABLES
    part,
    process, dbgport, port, shuttingDown, connecting, connected, late, remote, retries, client,
    waiting, spinning, orderly,
    service, at, fd, idx, result, count, emitCb, free, toWorker, toMain, reading, answer,
    fails, sent, shared, lost, closed

simVars == <<process, dbgport, port, shuttingDown, connecting, connected, late, remote, retries,
             client, waiting, spinning, orderly>>
messageVars == <<service, at, fd, idx, result, count, emitCb, free, toWorker, toMain, reading,
                 answer, fails, sent, shared, lost, closed>>
Sim == INSTANCE SimProcess
Messages == INSTANCE WorkerMessages
ASSUME PartsAssumption == Sim!SimAssumption /\ Messages!MessagesAssumption

PartsInit ==
    /\ part \in {"adb", "sim", "messages"} /\ Init /\ Sim!Init /\ Messages!Init
    /\ part # "adb" => platform = "linux"
    /\ part # "messages" =>
         service = [q \in Queries |-> CHOOSE s \in Services : TRUE]
         /\ answer = [q \in Queries |-> 0] /\ fails = {}
PartsNext ==
    \/ part = "adb" /\ Next /\ UNCHANGED <<part, simVars, messageVars>>
    \/ part = "sim" /\ Sim!Next /\ UNCHANGED <<part, vars, messageVars>>
    \/ part = "messages" /\ Messages!Next /\ UNCHANGED <<part, vars, simVars>>
PartsSpec ==
    /\ PartsInit /\ [][PartsNext]_<<part, vars, simVars, messageVars>>
    /\ Fairness /\ Sim!Fairness /\ Messages!Fairness

(* The two type invariants, and the properties of the simulator process    *)
(* and of the queries (SimProcess and WorkerMessages state them in words):  *)
(* one client at most, an answer is its query's own, a run or a toggle     *)
(* that waits is answered, a query settles (ToggleSettles, QuerySettles).  *)
TypesOK == TypeOK /\ Sim!TypeOK
OneChannel == (part = "sim" => Sim!OneChannel) /\ (part = "messages" => Messages!AnswersMatch)
Waits(q) == IF part = "messages" THEN Messages!Waits(q) ELSE spinning
Settled(q) == IF part = "messages" THEN Messages!Settled(q) ELSE ~spinning \/ Sim!Lost \/ ~orderly
RunSettles == Sim!RunAnswered /\ \A q \in Queries : Waits(q) ~> Settled(q)

=============================================================================
