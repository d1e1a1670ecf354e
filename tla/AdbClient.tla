------------------------------- MODULE AdbClient -------------------------------
(***************************************************************************)
(* Programs that use a server of adb (adb_client.cpp): a client asks the   *)
(* server for its version, ends one of another version and starts its own  *)
(* (launch_server), and then asks for a service and reads the answer.      *)
(* There is one port; whose server has it may change between any two       *)
(* requests, for other clients do the same, and a server may end.  The     *)
(* server of this library answers no version, which is taken for an old one. *)
(*                                                                         *)
(* A server is named by a number, in the order they begin.  Left out: what *)
(* the services do (AdbServer), and for how long a client sleeps.          *)
(***************************************************************************)
EXTENDS Naturals, FiniteSets

CONSTANTS
  Clients,
  Remote,          \* those that name the host of the server
  MaxServers       \* bound

AdbClientAssumption == Remote \subseteq Clients /\ MaxServers \in Nat

Servers == 1..MaxServers
NoServer == 0

(* What is asked for, how, and which replies are read: adb_connect leaves  *)
(* the socket to its caller, adb_command reads a second status, adb_query  *)
(* an answer.                                                              *)
Calls == {"start-server", "host", "device", "command", "query"}

VARIABLES
  port, begun,       \* the server that has the port; how many began
  kind,              \* kind[s]: "library", "other" or "same", its version
  dying,             \* the server at the port has said OKAY to host:kill
  call, pc,          \* call[c], and where client c is
  fd,                \* the server its socket is connected to
  open,              \* its sockets that are open
  checked,           \* the server whose version it has found right, or that it launched
  seen,              \* the server whose version it was told
  killed             \* pairs of a client and the server it killed

clientVars == <<call, pc, fd, open, checked, seen>>
serverVars == <<port, begun, kind, dying>>
adbClientVars == <<clientVars, serverVars, killed>>

To(c, s) == pc' = [pc EXCEPT ![c] = s]
Closes(c) == open' = [open EXCEPT ![c] = @ - 1]
Fails(c) == To(c, "failed") /\ Closes(c)

-----------------------------------------------------------------------------
(* _adb_connect: a socket, and a first request on it; -2 without a server. *)
Connect(c, s) == To(c, s) /\ fd' = [fd EXCEPT ![c] = port] /\ open' = [open EXCEPT ![c] = @ + 1]

(* adb_status, of a server that lives and is not about to end; else        *)
(* "protocol fault".                                                       *)
Answers(c) == port = fd[c] /\ ~dying
Gone(c) == port # fd[c]

Version(c) ==
  /\ pc[c] = "idle"
  /\ IF port # NoServer THEN Connect(c, "version")
     ELSE To(c, IF c \in Remote THEN "failed" ELSE "launch") /\ UNCHANGED <<fd, open>>
  /\ UNCHANGED <<serverVars, call, checked, seen, killed>>

NotLibrary(s) == kind[s] # "other"      \* mutant
RightVersion(s) == kind[s] = "same"
OutOfDate(s) == ~RightVersion(s)
VersionRead(c) ==
  /\ pc[c] = "version" /\ Closes(c)
  /\ \/ /\ Answers(c) /\ seen' = [seen EXCEPT ![c] = port]
        /\ IF OutOfDate(port) THEN To(c, "kill") /\ UNCHANGED checked
           ELSE To(c, "ask") /\ checked' = [checked EXCEPT ![c] = port]
     \/ Gone(c) /\ To(c, "failed") /\ UNCHANGED <<seen, checked>>
  /\ UNCHANGED <<serverVars, call, fd, killed>>

(* host:kill, and its answer; the server ends, and nobody sees when.       *)
Kill(c) ==
  /\ pc[c] = "kill"
  /\ IF port # NoServer THEN Connect(c, "killing") ELSE To(c, "launch") /\ UNCHANGED <<fd, open>>
  /\ UNCHANGED <<serverVars, call, checked, seen, killed>>

KillRead(c) ==
  /\ pc[c] = "killing" /\ To(c, "launch") /\ Closes(c)
  /\ \/ Answers(c) /\ dying' = TRUE /\ killed' = killed \cup {<<c, port>>}
     \/ Gone(c) /\ UNCHANGED <<dying, killed>>
  /\ UNCHANGED <<port, begun, kind, call, fd, checked, seen>>

(* launch_server: the child says OK when it has the port, and ends if      *)
(* another has it; a pipe or a fork may fail.                              *)
Begins(k) ==
  /\ port = NoServer /\ begun < MaxServers
  /\ begun' = begun + 1 /\ port' = begun + 1 /\ kind' = [kind EXCEPT ![begun + 1] = k] /\ dying' = FALSE

launch_server(c) ==
  /\ pc[c] = "launch"
  /\ \/ Begins("same") /\ To(c, "ask") /\ checked' = [checked EXCEPT ![c] = begun + 1]
     \/ To(c, "failed") /\ UNCHANGED <<port, begun, kind, dying, checked>>
  /\ UNCHANGED <<call, fd, open, seen, killed>>

(* The request: what is not for the server is preceded by the choice of a  *)
(* device (switch_socket_transport).                                       *)
Ask(c) ==
  /\ pc[c] = "ask"
  /\ IF call[c] = "start-server" THEN To(c, "done") /\ UNCHANGED <<fd, open>>
     ELSE IF port = NoServer THEN To(c, "failed") /\ UNCHANGED <<fd, open>>
     ELSE Connect(c, IF call[c] = "device" THEN "switch" ELSE "status")
  /\ UNCHANGED <<serverVars, call, checked, seen, killed>>

AfterStatus == [host |-> "done", device |-> "done", command |-> "second", query |-> "answer"]
StatusRead(c) ==
  /\ pc[c] \in {"switch", "status", "second"}
  /\ \/ /\ Answers(c) /\ UNCHANGED open
        /\ To(c, CASE pc[c] = "switch" -> "status" [] pc[c] = "status" -> AfterStatus[call[c]]
                   [] OTHER -> "done")
     \/ Answers(c) /\ Fails(c)
     \/ Gone(c) /\ Fails(c)
  /\ UNCHANGED <<serverVars, call, fd, checked, seen, killed>>

AnswerRead(c) ==
  /\ pc[c] = "answer" /\ Closes(c)
  /\ (Answers(c) /\ To(c, "done")) \/ (Gone(c) /\ To(c, "failed"))
  /\ UNCHANGED <<serverVars, call, fd, checked, seen, killed>>

(* Servers that no client of ours begins, and the end of one.              *)
OtherBegins == (\E k \in {"library", "other"} : Begins(k)) /\ UNCHANGED <<clientVars, killed>>
ServerEnds ==
  /\ port # NoServer /\ port' = NoServer /\ dying' = FALSE
  /\ UNCHANGED <<clientVars, begun, kind, killed>>

-----------------------------------------------------------------------------
Init ==
  /\ port = NoServer /\ begun = 0 /\ kind = [s \in Servers |-> "none"] /\ dying = FALSE
  /\ call \in [Clients -> Calls] /\ pc = [c \in Clients |-> "idle"]
  /\ fd = [c \in Clients |-> NoServer] /\ open = [c \in Clients |-> 0]
  /\ checked = [c \in Clients |-> NoServer] /\ seen = [c \in Clients |-> NoServer] /\ killed = {}

Goes(c) == VersionRead(c) \/ Kill(c) \/ KillRead(c) \/ launch_server(c) \/ Ask(c) \/ StatusRead(c)
           \/ AnswerRead(c)
Next == OtherBegins \/ ServerEnds \/ \E c \in Clients : Version(c) \/ Goes(c)

(* A client goes on, a server answers, one that was killed ends.           *)
Fairness ==
  /\ \A c \in Clients : WF_adbClientVars(Goes(c))
  /\ WF_adbClientVars(dying /\ ServerEnds)
Spec == Init /\ [][Next]_adbClientVars /\ Fairness

-----------------------------------------------------------------------------
Ended(c) == pc[c] \in {"done", "failed"}
Left(c) == IF pc[c] = "done" /\ call[c] \in {"host", "device", "command"} THEN 1 ELSE 0

(* A client is served by a server of its own version, unless that one was  *)
(* replaced since it was asked; and it kills a server of its own version   *)
(* only when that one had replaced the one it was told of.  It leaves the  *)
(* socket it returns open, and the one of adb_command, and no other.       *)
ServedRight ==
  \A c \in Clients :
    /\ pc[c] = "done" /\ fd[c] = checked[c] => fd[c] = NoServer \/ kind[fd[c]] = "same"
    /\ \A s \in Servers : <<c, s>> \in killed => kind[s] # "same" \/ seen[c] < s
    /\ open[c] =< 1 /\ (Ended(c) => open[c] = Left(c))

(* A client ends.                                                          *)
Began(c) == pc[c] # "idle"
ClientEnds == \A c \in Clients : Began(c) ~> Ended(c)

=============================================================================
