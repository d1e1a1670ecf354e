---------------------------- MODULE WorkerMessages ----------------------------
(***************************************************************************)
(* Queries of adb over the messages of its workers (queryService of        *)
(* adb.js, evented-chrome-worker.js): the utility worker connects to the   *)
(* server, the io worker reads the answer and posts it piece by piece.     *)
(* A request carries a counter by which its answer finds the callback; any *)
(* other message goes to the listeners of its name, of which the first     *)
(* kind answers and the second does not.  The counter runs per worker, the *)
(* pieces carry no counter: their name is that of the service.             *)
(*                                                                         *)
(* Left out: how a worker begins and registers, and what close does before *)
(* it terminates them (AdbLifecycle).                                      *)
(***************************************************************************)
EXTENDS Naturals, Sequences, SequencesExt, FiniteSetsExt

CONSTANTS Queries, Services, MaxPieces    \* bound: pieces of an answer

Workers == {"util", "io"}
None == "none"
MessagesAssumption == None \notin Queries /\ MaxPieces \in Nat

VARIABLES
  service,           \* service[q]: what query q asks for
  at,                \* at[q]: "new", "query", "reading", "done", "rejected"
  fd,                \* fd[q]: the connection the callback of q was given, named by its query
  idx,               \* idx[q]: its listener for pieces
  result,            \* result[q]: the pieces, named by the query whose they are
  count,             \* _count of the two proxies of the main thread
  emitCb,            \* msgToEmitCb: the query behind a slug
  free,              \* msgToCallbacksFree of the io proxy, by service: queries, or None
  toWorker, toMain,  \* messages on their way
  reading,           \* the query whose connection the io worker reads
  answer, fails,     \* what the server answers to q: pieces, and then the end or a failure
  sent,              \* sent[q]: pieces that were read
  shared,            \* queries that listened at a time with another of the same service
  lost,              \* queries whose read failed
  closed

queryVars == <<service, at, fd, idx, result>>
proxyVars == <<count, emitCb, free>>
channels == <<toWorker, toMain>>
server == <<answer, fails, sent>>
ghosts == <<shared, lost>>
messageVars == <<queryVars, proxyVars, channels, reading, server, ghosts, closed>>

To(q, s) == at' = [at EXCEPT ![q] = s]
NoCount == 0     \* the field is not there; counters begin at 1 here
Message(m, n, q) == [msg |-> m, count |-> n, query |-> q]
Log == Message("log", NoCount, None)
SlugNoCount(m) == <<m.msg, NoCount>>     \* mutant
Slug(m) == <<m.msg, m.count>>

-----------------------------------------------------------------------------
(* emit: the callback is kept under the slug of the request.               *)
With(callbacks, m, q) == [s \in DOMAIN callbacks \cup {Slug(m)} |-> IF s = Slug(m) THEN q ELSE callbacks[s]]
Without(callbacks, m) == [s \in DOMAIN callbacks \ {Slug(m)} |-> callbacks[s]]
Request(w, m, q) == Message(m, count[w] + 1, q)
Emit(w, r) ==
  /\ count' = [count EXCEPT ![w] = @ + 1]
  /\ toWorker' = [toWorker EXCEPT ![w] = Append(@, r)]

queryService(q) ==
  /\ at[q] = "new" /\ ~closed /\ To(q, "query")
  /\ LET r == Request("util", "query", q) IN
     Emit("util", r) /\ emitCb' = [emitCb EXCEPT !["util"] = With(@, r, q)]
  /\ UNCHANGED <<service, fd, idx, result, free, toMain, reading, server, ghosts, closed>>

(* The workers.  What they log is answered, and the answer is for nobody.   *)
Posts(w, ms) == toMain' = [toMain EXCEPT ![w] = @ \o ms]
Serves(w, m) ==
  /\ ~closed /\ toWorker[w] # <<>> /\ Head(toWorker[w]).msg = m
  /\ toWorker' = [toWorker EXCEPT ![w] = Tail(@)]

Answer(r, success) == [msg |-> r.msg, count |-> r.count, query |-> r.query, ok |-> success]
UtilQuery ==
  /\ Serves("util", "query")
  /\ LET r == Head(toWorker["util"]) IN
     \E success \in BOOLEAN : Posts("util", <<Log, Answer(r, success)>>)
  /\ UNCHANGED <<queryVars, proxyVars, reading, server, ghosts, closed>>

LogAnswered(w) ==
  /\ (w = "io" => reading = None) /\ Serves(w, "log")
  /\ UNCHANGED <<queryVars, proxyVars, toMain, reading, server, ghosts, closed>>

(* readStringFully blocks the io worker until the connection ends; a read  *)
(* that fails throws in the handler, which then answers nothing.           *)
IoReads ==
  /\ reading = None /\ ~closed /\ toWorker["io"] # <<>> /\ Head(toWorker["io"]).msg = "readStringFully"
  /\ reading' = Head(toWorker["io"]).query
  /\ UNCHANGED <<queryVars, proxyVars, channels, server, ghosts, closed>>

onData ==
  /\ reading # None /\ ~closed /\ sent[reading] < answer[reading]
  /\ sent' = [sent EXCEPT ![reading] = @ + 1]
  /\ Posts("io", <<[msg |-> "data", service |-> service[reading], query |-> reading]>>)
  /\ UNCHANGED <<queryVars, proxyVars, toWorker, reading, answer, fails, ghosts, closed>>

ReadEnds ==
  /\ reading # None /\ sent[reading] = answer[reading] /\ Serves("io", "readStringFully") /\ reading' = None
  /\ IF reading \in fails
     THEN lost' = lost \cup {reading} /\ UNCHANGED toMain
     ELSE Posts("io", <<Answer(Head(toWorker["io"]), TRUE)>>) /\ UNCHANGED lost
  /\ UNCHANGED <<queryVars, proxyVars, server, shared, closed>>

-----------------------------------------------------------------------------
(* onmessage of the main thread: a message whose slug is awaited is an     *)
(* answer, and its callback is forgotten.                                  *)
Takes(w) == ~closed /\ toMain[w] # <<>> /\ toMain' = [toMain EXCEPT ![w] = Tail(@)]
Awaited(w, m) == m.msg # "data" /\ Slug(m) \in DOMAIN emitCb[w]

(* listenAndForget gives the position as the id, also to those whose       *)
(* listener was freed.                                                     *)
Listening(s) == {free[s][i] : i \in DOMAIN free[s]} \ {None}
Queried ==
  /\ toMain["util"] # <<>> /\ LET m == Head(toMain["util"]) IN
     /\ Awaited("util", m) /\ Takes("util")
     /\ LET q == emitCb["util"][Slug(m)]  s == service[q]
            r == Request("io", "readStringFully", m.query) IN
        IF ~m.ok
        THEN /\ To(q, "rejected") /\ emitCb' = [emitCb EXCEPT !["util"] = Without(@, m)]
             /\ UNCHANGED <<fd, idx, free, count, toWorker, shared>>
        ELSE /\ To(q, "reading") /\ fd' = [fd EXCEPT ![q] = m.query]
             /\ free' = [free EXCEPT ![s] = Append(@, q)] /\ idx' = [idx EXCEPT ![q] = Len(free[s]) + 1]
             /\ emitCb' = [emitCb EXCEPT !["util"] = Without(@, m), !["io"] = With(@, r, q)]
             /\ Emit("io", r)
             /\ shared' = IF Listening(s) = {} THEN shared ELSE shared \cup Listening(s) \cup {q}
  /\ UNCHANGED <<service, result, reading, server, lost, closed>>

freeFirst(s, i) == free' = [free EXCEPT ![s][1] = None]     \* mutant
freeListener(s, i) == free' = [free EXCEPT ![s][i] = None]
Read ==
  /\ toMain["io"] # <<>> /\ LET m == Head(toMain["io"]) IN
     /\ Awaited("io", m) /\ Takes("io")
     /\ emitCb' = [emitCb EXCEPT !["io"] = Without(@, m)]
     /\ LET q == emitCb["io"][Slug(m)] IN To(q, "done") /\ freeListener(service[q], idx[q])
  /\ UNCHANGED <<service, fd, idx, result, count, toWorker, reading, server, ghosts, closed>>

(* Anything else: a log is written and answered, a piece is added to the   *)
(* result of whoever listens.                                              *)
Heard(w) ==
  /\ toMain[w] # <<>> /\ LET m == Head(toMain[w]) IN
     /\ ~Awaited(w, m) /\ Takes(w)
     /\ IF m.msg = "data"
        THEN /\ result' = [q \in Queries |->
                  IF q \in Listening(m.service) THEN Append(result[q], m.query) ELSE result[q]]
             /\ UNCHANGED toWorker
        ELSE /\ toWorker' = IF m.msg = "log" THEN [toWorker EXCEPT ![w] = Append(@, m)] ELSE toWorker
             /\ UNCHANGED result
  /\ UNCHANGED <<service, at, fd, idx, proxyVars, reading, server, ghosts, closed>>

(* terminate: what is on its way is lost, and what waits, waits for ever.  *)
Close ==
  /\ ~closed /\ closed' = TRUE /\ reading' = None
  /\ toWorker' = [w \in Workers |-> <<>>] /\ toMain' = [w \in Workers |-> <<>>]
  /\ UNCHANGED <<queryVars, proxyVars, server, ghosts>>

-----------------------------------------------------------------------------
Init ==
  /\ service \in [Queries -> Services] /\ at = [q \in Queries |-> "new"]
  /\ fd = [q \in Queries |-> None] /\ idx = [q \in Queries |-> 0] /\ result = [q \in Queries |-> <<>>]
  /\ count = [w \in Workers |-> NoCount] /\ emitCb = [w \in Workers |-> <<>>]
  /\ free = [s \in Services |-> <<>>]
  /\ toWorker = [w \in Workers |-> <<>>] /\ toMain = [w \in Workers |-> <<>>] /\ reading = None
  /\ answer \in [Queries -> 0..MaxPieces] /\ fails \in SUBSET Queries /\ sent = [q \in Queries |-> 0]
  /\ shared = {} /\ lost = {} /\ closed = FALSE

Handles == UtilQuery \/ IoReads \/ onData \/ ReadEnds \/ Queried \/ Read
           \/ \E w \in Workers : LogAnswered(w) \/ Heard(w)
Next == (\E q \in Queries : queryService(q)) \/ Handles \/ Close

(* A worker, and the main thread, handle what is in their queue; adb       *)
(* answers and ends the connection.                                        *)
Fairness == WF_messageVars(Handles)
Spec == Init /\ [][Next]_messageVars /\ Fairness

-----------------------------------------------------------------------------
Own(q) == {i \in DOMAIN result[q] : result[q][i] = q}
Kept(q) == \E w \in Workers : \E s \in DOMAIN emitCb[w] : emitCb[w][s] = q

(* A query is given the connection that was made for it, and the whole of  *)
(* what is read from it; of others it is given what they read while it     *)
(* listens, if they asked for the same service. Whoever listens is reading *)
(* or its read failed, and a query under way has a callback.               *)
AnswersMatch ==
  \A q \in Queries :
    /\ fd[q] \in {None, q}
    /\ at[q] = "done" => Cardinality(Own(q)) = answer[q] /\ q \notin fails
    /\ Own(q) = DOMAIN result[q] \/ q \in shared
    /\ q \in Listening(service[q]) <=> at[q] = "reading"
    /\ at[q] \in {"query", "reading"} <=> Kept(q)

(* A query is over, one way or the other, unless its read fails or adb is   *)
(* closed.                                                                 *)
Waits(q) == at[q] = "query"
Settled(q) == at[q] \in {"done", "rejected"} \/ q \in lost \/ closed
QuerySettles == \A q \in Queries : Waits(q) ~> Settled(q)

=============================================================================
