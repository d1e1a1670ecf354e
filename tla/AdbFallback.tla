------------------------------ MODULE AdbFallback ------------------------------
(***************************************************************************)
(* Which adb the add-on uses. Each time the dashboard is opened            *)
(* adb-running-checker.js asks port 5037 for its version: an adb that is   *)
(* there already is used through sockets (adb-fallback.js), else the       *)
(* library is started (adb.js). The conversations over such sockets are    *)
(* the check, the tracking of devices, a command and a push; of each there *)
(* is one at a time, but of the checks, which wait for none before them,   *)
(* two: a bound. The handlers take what one data event brings for one      *)
(* answer; but TCP may bring a part of an answer, or two at once: odd      *)
(* marks the open conversations to which that has happened. Nothing is     *)
(* left of a check that has ended.                                         *)
(*                                                                         *)
(* Left out: the bytes of a file, a file that cannot be read, kill (nobody *)
(* calls it), the inside of the library (AdbLifecycle).                    *)
(***************************************************************************)
EXTENDS Naturals, Sequences

CONSTANTS Devices, MaxLists       \* bound: lists the tracker is sent

VARIABLES
  page,              \* the dashboard: "closed", "open", and "gone" after unload
  ADB,               \* "null", "own" for adb.js, "fallback"
  own,               \* adb.js: "off", "runs", "no port", "ended"
  hasty,             \* unload came while a check was under way
  ready,             \* ready of adb-fallback.js
  server,            \* who listens at 5037: "none", "own", "other"
  state,             \* state[j]: of conversation j
  sockets,           \* the conversations with an open socket
  asked,             \* those whose request the server has not answered
  incoming,          \* incoming[j]: answers on their way
  odd,
  table, notified,   \* devices of trackDevices, and what was said of each
  lists, listed,     \* lists sent, and the last
  stored             \* the server has the whole file

talkVars == <<state, sockets, asked, incoming, odd>>
trackVars == <<table, notified, lists, listed>>
choiceVars == <<page, ADB, own, hasty, ready, server>>
fallbackVars == <<choiceVars, talkVars, trackVars, stored>>

Checks == {"check", "recheck"}
Jobs == Checks \cup {"track", "command", "push"}
To(j, s) == state' = [state EXCEPT ![j] = s]
Closed(j) == sockets' = sockets \ {j}

-----------------------------------------------------------------------------
(* _connect and the handler of onopen, which sends the first request; or   *)
(* onerror.                                                                *)
FirstState(j) == CASE j \in Checks -> "wait-version" [] j = "track" -> "waitForFirst"
                   [] j = "command" -> "wait" [] j = "push" -> "wait-transport"
Connects(j) ==
  /\ state[j] = "connecting" /\ server # "none"
  /\ To(j, FirstState(j)) /\ sockets' = sockets \cup {j} /\ asked' = asked \cup {j}
  /\ incoming' = [incoming EXCEPT ![j] = <<>>] /\ odd' = odd \ {j}
  /\ UNCHANGED <<choiceVars, trackVars, stored>>

(* check: the promise decides which module is ADB, and starts it, whatever *)
(* has become of the page since.                                           *)
Decided(c, isAdbRunning) ==
  /\ ADB' = IF isAdbRunning THEN "fallback" ELSE "own"
  /\ IF isAdbRunning
     THEN /\ ready' = TRUE /\ UNCHANGED <<own, server>>
          /\ state' = [state EXCEPT ![c] = "off", !["track"] = IF ready THEN @ ELSE "connecting"]
     ELSE /\ To(c, "off") /\ UNCHANGED ready
          /\ IF own # "off" THEN UNCHANGED <<own, server>>
             ELSE IF server = "none" THEN own' = "runs" /\ server' = "own"
             ELSE own' = "no port" /\ UNCHANGED server
  /\ UNCHANGED <<page, hasty>>

Refused(j) ==
  /\ state[j] = "connecting" /\ server = "none"
  /\ IF j \in Checks THEN Decided(j, FALSE)
     ELSE To(j, IF j = "track" THEN "stopped" ELSE "rejected") /\ UNCHANGED choiceVars
  /\ UNCHANGED <<sockets, asked, incoming, odd, trackVars, stored>>

-----------------------------------------------------------------------------
(* Messages: FAIL and a text, or OKAY, with a text or without. The library *)
(* has its services version and track-devices disabled, which makes them   *)
(* unknown to it.                                                          *)
(* A piece of a message is a kind and, if it is a list, the list.          *)
Piece(kind) == <<kind, <<>>>>
Okay == Piece("OKAY")
Fail == <<Piece("FAIL"), Piece("text")>>
OwnVersion == Fail
Lists == UNION {[ds -> {"there", "gone"}] : ds \in SUBSET Devices}
Answers(j) ==
  CASE j \in Checks -> IF server = "own" THEN {OwnVersion}
                       ELSE {<<Okay, Piece("001f")>>, <<Okay, Piece("text")>>}
    [] j = "track" -> IF server = "own" THEN {Fail} ELSE {<<Okay, <<"list", l>>>> : l \in Lists}
    [] j = "command" -> {<<Okay, Okay>>, Fail}
    [] j = "push" -> {<<Okay>>, Fail}

Sends(j, a) == incoming' = [incoming EXCEPT ![j] = Append(@, a)]

ServerAnswers(j) ==
  /\ j \in asked /\ asked' = asked \ {j}
  /\ \E a \in Answers(j) :
       /\ Sends(j, a)
       /\ stored' = IF j = "push" THEN state[j] = "wait-done" /\ a[1] = Okay ELSE stored
       /\ listed' = IF j = "track" /\ a[1] = Okay THEN a[2][2] ELSE listed
  /\ UNCHANGED <<choiceVars, state, sockets, odd, table, notified, lists>>

ServerLists ==
  /\ server = "other" /\ "track" \in sockets \ asked /\ lists < MaxLists
  /\ lists' = lists + 1
  /\ \E l \in Lists : listed' = l /\ Sends("track", <<<<"list", l>>>>)
  /\ UNCHANGED <<choiceVars, state, sockets, asked, odd, table, notified, stored>>

-----------------------------------------------------------------------------
(* checkResponse looks at the first piece of what came, _unpackPacket at  *)
(* the piece after the status, and throws when there is none; the unpack   *)
(* of the check takes that for an empty text.                              *)
checkResponse(data) == data[1][1] = "OKAY"
Whole(data) == Len(data) > 1

Versioned(data) == Whole(data) /\ data[2][1] = "001f"
CheckData(c, data) ==
  /\ Decided(c, Versioned(data)) /\ Closed(c)
  /\ UNCHANGED <<asked, trackVars, stored>>

(* trackDevices: an empty list says every device has gone; else the        *)
(* devices whose state is another are notified, of those never seen only   *)
(* the ones that are there.                                                *)
NewState(l, d) == IF DOMAIN l = {} THEN "gone" ELSE IF d \in DOMAIN l THEN l[d] ELSE table[d]
Known == {d \in Devices : table[d] # "unseen"}
Takes(l) ==
  /\ table' = [d \in Devices |-> IF DOMAIN l = {} /\ d \notin Known THEN "unseen" ELSE NewState(l, d)]
  /\ notified' = [d \in Devices |-> IF table'[d] # table[d] /\ (d \in Known \/ table'[d] = "there")
                                    THEN table'[d] ELSE notified[d]]

TrackData(data) ==
  /\ IF state["track"] = "waitForFirst" /\ ~checkResponse(data)
     THEN Closed("track") /\ To("track", "stopped") /\ UNCHANGED <<table, notified>>
     ELSE IF state["track"] = "waitForFirst" /\ ~Whole(data)
     THEN UNCHANGED <<sockets, state, table, notified>>
     ELSE /\ Takes(IF state["track"] = "waitForFirst" THEN data[2][2] ELSE data[1][2])
          /\ To("track", "tracking") /\ UNCHANGED sockets
  /\ UNCHANGED <<choiceVars, asked, lists, listed, stored>>

(* runCommand: the socket of a failed command is closed before the text is *)
(* unpacked, that of the others stays open.                                *)
CommandData(data) ==
  /\ IF checkResponse(data) THEN UNCHANGED sockets ELSE Closed("command")
  /\ IF Whole(data) /\ state["command"] = "wait"
     THEN To("command", IF checkResponse(data) THEN "resolved" ELSE "rejected")
     ELSE UNCHANGED state
  /\ UNCHANGED <<choiceVars, asked, trackVars, stored>>

(* runFSM of push: transport, sync, then the file and DONE, each after the *)
(* answer to the one before.                                               *)
PushNext == [s \in {"wait-transport", "wait-sync"} |->
               IF s = "wait-transport" THEN "wait-sync" ELSE "wait-done"]
PushData(data) ==
  /\ IF ~checkResponse(data)
     THEN Closed("push") /\ To("push", "rejected") /\ UNCHANGED asked
     ELSE IF state["push"] = "wait-done"
     THEN Closed("push") /\ To("push", "resolved") /\ UNCHANGED asked
     ELSE To("push", PushNext[state["push"]]) /\ asked' = asked \cup {"push"} /\ UNCHANGED sockets
  /\ UNCHANGED <<choiceVars, trackVars, stored>>

Handles(j, data) ==
  CASE j \in Checks -> CheckData(j, data) [] j = "track" -> TrackData(data)
    [] j = "command" -> CommandData(data) [] j = "push" -> PushData(data)

(* ondata: an answer, or the status alone with the text to follow, or two  *)
(* lists at once.                                                          *)
Data(j) ==
  /\ j \in sockets /\ incoming[j] # <<>>
  /\ LET a == Head(incoming[j])  rest == Tail(incoming[j]) IN
     \/ /\ Handles(j, a)
        /\ incoming' = [incoming EXCEPT ![j] = rest] /\ odd' = odd \cap sockets'
     \/ /\ Len(a) > 1 /\ Handles(j, <<a[1]>>)
        /\ incoming' = [incoming EXCEPT ![j] = <<<<a[2]>>>> \o rest] /\ odd' = (odd \cup {j}) \cap sockets'
     \/ /\ rest # <<>> /\ Handles(j, a \o Head(rest))
        /\ incoming' = [incoming EXCEPT ![j] = Tail(rest)] /\ odd' = (odd \cup {j}) \cap sockets'

-----------------------------------------------------------------------------
(* The sockets end with the adb that served them, and what was on its way  *)
(* in them: onclose of the tracker says so, the others only log.           *)
Ended(j) == CASE j \in Checks -> "off" [] j = "track" -> "stopped" [] OTHER -> state[j]
SocketsEnd ==
  /\ sockets' = {} /\ asked' = {} /\ incoming' = [j \in Jobs |-> <<>>]
  /\ state' = [j \in Jobs |-> IF j \in sockets THEN Ended(j) ELSE state[j]] /\ odd' = {}

(* The other adb starts and ends.                                          *)
OtherStarts ==
  /\ server = "none" /\ server' = "other"
  /\ UNCHANGED <<page, ADB, own, hasty, ready, talkVars, trackVars, stored>>

OtherEnds ==
  /\ server = "other" /\ server' = "none" /\ SocketsEnd
  /\ UNCHANGED <<page, ADB, own, hasty, ready, trackVars, stored>>

(* The page is opened, and closed again; what it asks of ADB.              *)
UnderWay(c) == state[c] = "connecting" \/ c \in sockets
Attach(c) ==
  /\ page = "closed" /\ page' = "open"
  /\ c = "recheck" => UnderWay("check")
  /\ ~UnderWay(c) /\ To(c, "connecting")
  /\ UNCHANGED <<ADB, own, hasty, ready, server, sockets, asked, incoming, odd, trackVars, stored>>

Detach ==
  /\ page = "open" /\ page' = "closed"
  /\ UNCHANGED <<ADB, own, hasty, ready, server, talkVars, trackVars, stored>>

Asks(j) ==
  /\ j \in {"command", "push"} /\ ADB = "fallback" /\ ready /\ page = "open"
  /\ state[j] \in {"off", "resolved", "rejected"} /\ To(j, "connecting")
  /\ sockets' = sockets \ {j} /\ odd' = odd \ {j}
  /\ stored' = IF j = "push" THEN FALSE ELSE stored
  /\ UNCHANGED <<choiceVars, asked, incoming, trackVars>>

(* unload with a reason: the module that is ADB is closed if it ran        *)
(* anything, which the fallback never has. A check that is under way is    *)
(* not waited for.                                                         *)
DidRunInitially == ADB = "own" /\ own \in {"runs", "no port"}
Unload ==
  /\ page # "gone" /\ page' = "gone"
  /\ hasty' = \E c \in Checks : UnderWay(c)
  /\ own' = IF DidRunInitially THEN "ended" ELSE own
  /\ IF DidRunInitially /\ own = "runs" THEN server' = "none" /\ SocketsEnd
     ELSE UNCHANGED <<server, talkVars>>
  /\ UNCHANGED <<ADB, ready, trackVars, stored>>

-----------------------------------------------------------------------------
Init ==
  /\ page = "closed" /\ ADB = "null" /\ own = "off" /\ hasty = FALSE /\ ready = FALSE
  /\ server = "none"
  /\ state = [j \in Jobs |-> "off"] /\ sockets = {} /\ asked = {} /\ odd = {}
  /\ incoming = [j \in Jobs |-> <<>>]
  /\ table = [d \in Devices |-> "unseen"] /\ notified = [d \in Devices |-> "unseen"]
  /\ lists = 0 /\ listed = <<>> /\ stored = FALSE

Next ==
  \/ (\E c \in Checks : Attach(c)) \/ Detach \/ Unload \/ OtherStarts \/ OtherEnds \/ ServerLists
  \/ \E j \in Jobs : Connects(j) \/ Refused(j) \/ ServerAnswers(j) \/ Data(j) \/ Asks(j)

Spec == Init /\ [][Next]_fallbackVars

-----------------------------------------------------------------------------
(* The choice holds: the library that was started is the adb that is used, *)
(* and is not taken for another's when the dashboard is opened again, nor  *)
(* is one started where another runs (a status that comes alone is taken   *)
(* for no version); it is closed by unload, as what found its port taken   *)
(* is. But one that found its port taken by an adb started since the check *)
(* is forgotten when the next check finds that adb, and a check that       *)
(* unload did not wait for may start a library that nobody closes.         *)
ChoiceKept ==
  /\ own = "runs" => ADB = "own" /\ server = "own"
  /\ page = "gone" /\ ~hasty => own # "runs"
  /\ page = "gone" /\ ~hasty /\ own = "no port" => ADB = "fallback"

(* Where every event brought one answer: who waits has a request or an     *)
(* answer on its way, unless the server has ended and closed the socket;   *)
(* what the tracker took is what it was sent, and it has said so; and a    *)
(* push that succeeded has stored the file.                                *)
Waits(j) == state[j] \in {"wait-version", "waitForFirst", "wait", "wait-transport", "wait-sync", "wait-done"}
TalkAgrees ==
  /\ \A j \in Jobs \ odd : Waits(j) /\ j \in sockets => j \in asked \/ incoming[j] # <<>>
  /\ state["track"] = "tracking" /\ "track" \notin odd /\ incoming["track"] = <<>> =>
       \A d \in Devices :
         /\ d \in DOMAIN listed => table[d] = listed[d]
         /\ DOMAIN listed = {} => table[d] # "there"
         /\ table[d] = "there" <=> notified[d] = "there"
  /\ state["push"] = "resolved" => stored

=============================================================================
