------------------------------ MODULE FileSync ------------------------------
(***************************************************************************)
(* Files over the service "sync:": the commands of file_sync_client.cpp    *)
(* and pushFile of adb-file-transfer.js on the host, file_sync_service.c   *)
(* on the device.  One session is one connection: a command, the service   *)
(* that serves it, and the two directions of the stream between them,      *)
(* which are lost together when the device goes.  The sessions share the   *)
(* files of the device.                                                    *)
(*                                                                         *)
(* A chunk of a file is its writer and its number.  A path names a file    *)
(* object, for an unlinked one stays with those who have it open; a        *)
(* session creates at most one object of a path, so the object is named    *)
(* after it (Old: the one that was there).                                 *)
(***************************************************************************)
EXTENDS Naturals, Sequences, FiniteSets, SequencesExt

CONSTANTS
    Sessions,
    Paths,
    Plans,       \* what the sessions are asked to do: a command and its files each
    Size,        \* chunks of a file (of the host or of the device)
    Capacity,    \* messages one direction of a stream holds
    Sticky,      \* paths whose directory forbids unlink and create, but not to write the file
    Old, NoFile

Op == {"push", "pushdir", "sync", "pull", "pulldir", "js", "none"}

(* A command and its files, each once (FileLists makes the list).           *)
Job == {job \in [op : Op, files : Seq(Paths)] :
          /\ \A k, l \in DOMAIN job.files : job.files[k] = job.files[l] => k = l
          /\ job.op \in {"push", "pull", "js"} => Len(job.files) = 1
          /\ job.op = "none" => job.files = <<>>}

(* Assumed of the constants (an instance checks it). *)
SyncAssumption ==
    /\ \A plan \in Plans, i \in Sessions : plan[i] \in Job
    /\ IsFiniteSet(Paths)
    /\ Size \in Nat \ {0} /\ Capacity \in Nat \ {0} /\ Sticky \subseteq Paths
    /\ Old \notin Sessions /\ NoFile \notin Sessions \cup {Old}

VARIABLES
    fs,        \* per path of the device: the file object, or NoFile
    content,   \* per path and object: its chunks
    touched,   \* per path: the sessions whose SEND has been taken
    srv,       \* per session: the service
    cli,       \* per session: the command
    copy,      \* per session and path: the local file of a pull
    up, down,  \* the stream
    quiet,     \* per session: paths that failed without the command being told
    unread     \* sessions whose service has closed its end

vars == <<fs, content, touched, srv, cli, copy, up, down, quiet, unread>>

Objects == Sessions \cup {Old}
Exists(p) == fs[p] # NoFile
Gone(i) == cli[i].end = "closed"
Local(i) == [k \in 1..Size |-> <<i, k>>]
Idle == [at |-> "command", path |-> NoFile, fd |-> NoFile, pos |-> 0, left |-> <<>>]
Client(job) == [at |-> "new", op |-> job.op, ask |-> job.files, asked |-> 0, todo |-> job.files,
                files |-> Range(job.files), same |-> {}, n |-> 0, end |-> "open"]

Init ==
    /\ \E plan \in Plans :
          /\ cli = [i \in Sessions |-> Client(plan[i])]
          /\ fs \in [Paths -> {NoFile, Old}]
          /\ \A p \in Paths : Exists(p) => \E i \in Sessions : p \in Range(plan[i].files)
    /\ content = [p \in Paths |-> [o \in Objects |-> IF o = Old THEN Local(Old) ELSE <<>>]]
    /\ touched = [p \in Paths |-> {}]
    /\ srv = [i \in Sessions |-> Idle]
    /\ copy = [i \in Sessions |-> [p \in Paths |-> <<>>]]
    /\ up = [i \in Sessions |-> <<>>] /\ down = [i \in Sessions |-> <<>>]
    /\ quiet = [i \in Sessions |-> {}]
    /\ unread = {}

-----------------------------------------------------------------------------
(* The service.                                                            *)

deviceVars == <<fs, content, touched>>
hostVars == <<cli, copy, quiet>>

(* A message: what it is, its file, and the chunks it carries. *)
Msg(id, p, k) == [id |-> id, path |-> p, k |-> k]
Takes(i, id) ==
    /\ srv[i].at # "ended" /\ up[i] # <<>> /\ Head(up[i]).id = id
    /\ up' = [up EXCEPT ![i] = Tail(@)]
CanReply(i) == Gone(i) \/ Len(down[i]) < Capacity

(* writex to the stream, then state s; when the other end has closed the    *)
(* write fails and the service ends.                                        *)
Ended == [Idle EXCEPT !.at = "ended"]
Closed(i) == unread \cup {i}
Reply(i, m, s) ==
    /\ CanReply(i)
    /\ IF Gone(i)
       THEN srv' = [srv EXCEPT ![i] = Ended] /\ unread' = Closed(i) /\ down' = down
       ELSE /\ srv' = [srv EXCEPT ![i] = s]
            /\ down' = [down EXCEPT ![i] = Append(@, m)]
            /\ unread' = unread
Becomes(i, s) == srv' = [srv EXCEPT ![i] = s] /\ UNCHANGED <<down, unread>>

(* fail_errno *)
FailsNot(i, p, s) == Becomes(i, s)    \* mutant
FailErrno(i, p, s) == Reply(i, Msg("FAIL", p, <<>>), s)

UnlinkedNot(p) == fs                  \* mutant
Unlinked(p) == IF p \in Sticky THEN fs ELSE [fs EXCEPT ![p] = NoFile]
ContentOf(p) == content[p][fs[p]]
Status(p) == IF Exists(p) THEN ContentOf(p) ELSE <<>>

(* do_stat *)
ServeStat(i) ==
    /\ srv[i].at = "command" /\ Takes(i, "STAT")
    /\ LET p == Head(up[i]).path IN Reply(i, Msg("STAT", p, Status(p)), Idle)
    /\ UNCHANGED <<deviceVars, hostVars>>

(* do_list: an entry for every file that is there when its turn comes. *)
ServeList(i) ==
    /\ srv[i].at = "command" /\ Takes(i, "LIST")
    /\ Becomes(i, [Idle EXCEPT !.at = "list", !.left = SetToSeq(Paths)])
    /\ UNCHANGED <<deviceVars, hostVars>>
ServeEntry(i) ==
    /\ srv[i].at = "list" /\ up' = up
    /\ LET s == srv[i] IN
       IF s.left = <<>>
       THEN Reply(i, Msg("DONE", NoFile, <<>>), Idle)
       ELSE LET p == Head(s.left)
                t == [s EXCEPT !.left = Tail(@)]
            IN  IF Exists(p) THEN Reply(i, Msg("DENT", p, <<>>), t) ELSE Becomes(i, t)
    /\ UNCHANGED <<deviceVars, hostVars>>

(* do_send: the path is unlinked, then handle_send_file creates it, opens   *)
(* what another has created meanwhile (without truncating it), or fails.    *)
ServeSend(i) ==
    /\ srv[i].at = "command" /\ Takes(i, "SEND")
    /\ LET p == Head(up[i]).path IN
       /\ fs' = Unlinked(p)
       /\ touched' = [touched EXCEPT ![p] = @ \cup {i}]
       /\ Becomes(i, [Idle EXCEPT !.at = "open", !.path = p])
    /\ content' = content /\ UNCHANGED hostVars

Sending(i, o) == [srv[i] EXCEPT !.at = "data", !.fd = o, !.pos = 0]
ServeOpen(i) ==
    /\ srv[i].at = "open" /\ up' = up
    /\ LET p == srv[i].path IN
       \/ /\ IF Exists(p) THEN fs' = fs ELSE p \notin Sticky /\ fs' = [fs EXCEPT ![p] = i]
          /\ Becomes(i, Sending(i, fs'[p]))
       \/ /\ FailErrno(i, p, Sending(i, NoFile))
          /\ fs' = fs
    /\ UNCHANGED <<content, touched, hostVars>>

(* A chunk: written over what is there at this place; or the write fails,   *)
(* the file is unlinked, and what still comes is read and dropped.          *)
Overlay(c, pos, k) == IF pos <= Len(c) THEN [c EXCEPT ![pos] = k] ELSE Append(c, k)
ServeData(i) ==
    /\ srv[i].at = "data" /\ Takes(i, "DATA")
    /\ LET s == srv[i] m == Head(up[i]) IN
       \/ /\ s.fd # NoFile
          /\ content' = [content EXCEPT ![s.path][s.fd] = Overlay(@, s.pos + 1, m.k[1])]
          /\ Becomes(i, [s EXCEPT !.pos = @ + 1]) /\ fs' = fs
       \/ /\ s.fd # NoFile
          /\ fs' = Unlinked(s.path)
          /\ FailErrno(i, s.path, [s EXCEPT !.fd = NoFile])
          /\ content' = content
       \/ /\ s.fd = NoFile /\ Becomes(i, s) /\ UNCHANGED <<fs, content>>
    /\ UNCHANGED <<touched, hostVars>>

(* The end of the file: OKAY if it was written, else the failure has been   *)
(* told.                                                                    *)
ServeDone(i) ==
    /\ srv[i].at = "data" /\ Takes(i, "DONE")
    /\ IF srv[i].fd # NoFile THEN Reply(i, Msg("OKAY", srv[i].path, <<>>), Idle) ELSE Becomes(i, Idle)
    /\ UNCHANGED <<deviceVars, hostVars>>

(* do_recv: the file is opened and sent; opening or reading may fail. *)
ServeRecv(i) ==
    /\ srv[i].at = "command" /\ Takes(i, "RECV")
    /\ LET p == Head(up[i]).path IN
       \/ Exists(p) /\ Becomes(i, [Idle EXCEPT !.at = "read", !.path = p, !.fd = fs[p]])
       \/ FailErrno(i, p, Idle)
    /\ UNCHANGED <<deviceVars, hostVars>>
ServeRead(i) ==
    /\ srv[i].at = "read" /\ up' = up
    /\ LET s == srv[i] c == content[s.path][s.fd] IN
       \/ /\ s.pos < Len(c)
          /\ Reply(i, Msg("DATA", s.path, <<c[s.pos + 1]>>), [s EXCEPT !.pos = @ + 1])
       \/ s.pos >= Len(c) /\ Reply(i, Msg("DONE", s.path, <<>>), Idle)
       \/ FailErrno(i, s.path, Idle)
    /\ UNCHANGED <<deviceVars, hostVars>>

(* ID_QUIT, and the end of the stream: in the middle of a file what has     *)
(* been written of it is unlinked.                                          *)
ServeQuit(i) ==
    /\ srv[i].at = "command" /\ Takes(i, "QUIT")
    /\ srv' = [srv EXCEPT ![i] = Ended] /\ unread' = Closed(i)
    /\ down' = down
    /\ UNCHANGED <<deviceVars, hostVars>>
ServeEof(i) ==
    /\ srv[i].at \in {"command", "data"} /\ up[i] = <<>> /\ Gone(i)
    /\ fs' = IF srv[i].at = "data" THEN Unlinked(srv[i].path) ELSE fs
    /\ srv' = [srv EXCEPT ![i] = Ended] /\ unread' = Closed(i)
    /\ UNCHANGED <<content, touched, hostVars, up, down>>

Serve(i) ==
    \/ ServeStat(i) \/ ServeList(i) \/ ServeEntry(i) \/ ServeSend(i) \/ ServeOpen(i)
    \/ ServeData(i) \/ ServeDone(i) \/ ServeRecv(i) \/ ServeRead(i) \/ ServeQuit(i) \/ ServeEof(i)

-----------------------------------------------------------------------------
(* The commands.  A failed one leaves the stream to the exit of its        *)
(* process; what is left of its requests is read by the service first.     *)

End(i, at) == [cli[i] EXCEPT !.at = at, !.end = "closed"]
Fails(i) == cli' = [cli EXCEPT ![i] = End(i, "failed")]

(* writex to the stream, then c; it fails when the service has ended. *)
Put(i, m, c) ==
    /\ IF i \in unread THEN Fails(i) /\ up' = up
       ELSE /\ Len(up[i]) < Capacity
            /\ up' = [up EXCEPT ![i] = Append(@, m)]
            /\ cli' = [cli EXCEPT ![i] = c]
    /\ UNCHANGED <<down, quiet, copy>>

(* readx of an answer: m is the message, or the read fails. *)
Gets(i) == down[i] # <<>> /\ down' = [down EXCEPT ![i] = Tail(@)] /\ up' = up
Eof(i) ==
    /\ cli[i].at \in {"answer", "entries", "status", "receive"}
    /\ down[i] = <<>> /\ i \in unread
    /\ Fails(i)
    /\ UNCHANGED <<up, down, quiet, copy>>

(* do_sync_push, do_sync_sync, do_sync_pull, pushFile of the add-on: what   *)
(* each does first.                                                         *)
FirstStep(op, files) ==
    CASE op \in {"push", "pull"} -> "ask"
      [] op = "sync" -> IF files = <<>> THEN "next" ELSE "ask"
      [] op = "pushdir" -> "next"
      [] op = "pulldir" -> "list"
      [] op = "js" -> "wait-transport"
Start(i) ==
    /\ cli[i].at = "new" /\ cli[i].op # "none"
    /\ cli' = [cli EXCEPT ![i].at = FirstStep(cli[i].op, cli[i].ask),
                          ![i].todo = IF cli[i].op = "pulldir" THEN <<>> ELSE @]
    /\ UNCHANGED <<up, down, quiet, copy>>

(* sync_readmode, or sync_start_readtime for all files and only then        *)
(* sync_finish_readtime.                                                    *)
Ask(i) ==
    /\ cli[i].at = "ask"
    /\ LET c == cli[i] IN
       Put(i, Msg("STAT", Head(c.ask), <<>>),
           [c EXCEPT !.ask = Tail(@), !.asked = @ + 1,
                     !.at = IF Tail(c.ask) = <<>> THEN "answer" ELSE "ask"])

(* A pull needs the file to exist; sync flags a file whose size is that of  *)
(* the local one, if its time is too, and does not send it.                 *)
Same(m) == Len(m.k) = Size
Answer(i) ==
    /\ cli[i].at = "answer" /\ Gets(i)
    /\ LET c == cli[i]
           m == Head(down[i])
           d == [c EXCEPT !.asked = @ - 1, !.at = IF c.asked = 1 THEN "next" ELSE "answer"]
       IN  IF c.op = "pull" /\ m.k = <<>> THEN Fails(i)
           ELSE \/ cli' = [cli EXCEPT ![i] = d]
                \/ c.op = "sync" /\ Same(m) /\ cli' = [cli EXCEPT ![i] = [d EXCEPT !.same = @ \cup {m.path}]]
    /\ UNCHANGED <<quiet, copy>>

(* remote_build_list: the files of a directory. *)
List(i) == cli[i].at = "list" /\ Put(i, Msg("LIST", NoFile, <<>>), [cli[i] EXCEPT !.at = "entries"])
Entry(i) ==
    /\ cli[i].at = "entries" /\ Gets(i)
    /\ LET c == cli[i] m == Head(down[i]) IN
       cli' = [cli EXCEPT ![i] =
           IF m.id = "DENT" THEN [c EXCEPT !.todo = Append(@, m.path), !.files = @ \cup {m.path}]
                            ELSE [c EXCEPT !.at = "next"]]
    /\ UNCHANGED <<quiet, copy>>

(* sync_quit, whose outcome nobody looks at. *)
Quit(i) ==
    /\ IF i \in unread THEN up' = up
       ELSE Len(up[i]) < Capacity /\ up' = [up EXCEPT ![i] = Append(@, Msg("QUIT", NoFile, <<>>))]
    /\ cli' = [cli EXCEPT ![i] = End(i, "ok")]
    /\ UNCHANGED <<down, quiet, copy>>

(* The next file: its SEND or RECV; after the last one QUIT. *)
Pulls(c) == c.op \in {"pull", "pulldir"}
NextFile(i) ==
    /\ cli[i].at = "next"
    /\ LET c == cli[i] IN
       IF c.todo = <<>> THEN Quit(i)
       ELSE IF Head(c.todo) \in c.same
            THEN cli' = [cli EXCEPT ![i].todo = Tail(@)] /\ UNCHANGED <<up, down, quiet, copy>>
       ELSE IF Pulls(c) THEN Put(i, Msg("RECV", Head(c.todo), <<>>), [c EXCEPT !.at = "receive", !.n = 0])
       ELSE Put(i, Msg("SEND", Head(c.todo), <<>>), [c EXCEPT !.at = "data", !.n = 0])

(* write_data_file, whose result sync_send ignores: the local file cannot   *)
(* be opened or read, or the stream fails, and DONE is written all the same.*)
PutData(i) ==
    /\ cli[i].at = "data"
    /\ LET c == cli[i] IN
       \/ /\ c.n < Size
          /\ IF i \in unread THEN cli' = [cli EXCEPT ![i].n = Size] /\ UNCHANGED <<up, down, quiet, copy>>
             ELSE Put(i, Msg("DATA", Head(c.todo), <<Local(i)[c.n + 1]>>), [c EXCEPT !.n = @ + 1])
       \/ /\ c.n < Size
          /\ cli' = [cli EXCEPT ![i].n = Size]
          /\ quiet' = [quiet EXCEPT ![i] = @ \cup {Head(c.todo)}]
          /\ UNCHANGED <<up, down, copy>>
       \/ c.n = Size /\ Put(i, Msg("DONE", Head(c.todo), <<>>), [c EXCEPT !.at = "status"])

GetStatus(i) ==
    /\ cli[i].at = "status" /\ Gets(i)
    /\ IF Head(down[i]).id = "OKAY"
       THEN cli' = [cli EXCEPT ![i].at = "next", ![i].todo = Tail(@)]
       ELSE Fails(i)
    /\ UNCHANGED <<quiet, copy>>

(* sync_recv: the local file is made anew at the first answer; a failure    *)
(* told by the service removes it, and counts as a success.                 *)
Receive(i) ==
    /\ cli[i].at = "receive" /\ Gets(i)
    /\ LET c == cli[i]
           m == Head(down[i])
           p == Head(c.todo)
           over == [c EXCEPT !.at = "next", !.todo = Tail(@)]
       IN  \/ /\ m.id = "DATA"
              /\ copy' = [copy EXCEPT ![i][p] = IF c.n = 0 THEN m.k ELSE @ \o m.k]
              /\ cli' = [cli EXCEPT ![i].n = 1] /\ quiet' = quiet
           \/ /\ m.id = "DONE"
              /\ copy' = [copy EXCEPT ![i][p] = IF c.n = 0 THEN <<>> ELSE @]
              /\ cli' = [cli EXCEPT ![i] = over] /\ quiet' = quiet
           \/ /\ m.id = "FAIL"
              /\ copy' = [copy EXCEPT ![i][p] = <<>>]
              /\ cli' = [cli EXCEPT ![i] = over]
              /\ quiet' = [quiet EXCEPT ![i] = @ \cup {p}]
           \/ /\ m.id = "DATA" \/ (m.id = "DONE" /\ c.n = 0)    \* the local file cannot be created, written
              /\ Fails(i) /\ UNCHANGED <<copy, quiet>>

-----------------------------------------------------------------------------
(* pushFile of the add-on: the answers of the server to host:transport-any *)
(* and sync:, then the whole file at once, which the socket keeps for it.  *)
JsAnswer(i) ==
    /\ cli[i].at \in {"wait-transport", "wait-sync"} /\ i \notin unread
    /\ \/ /\ cli[i].at = "wait-transport" /\ cli' = [cli EXCEPT ![i].at = "wait-sync"] /\ up' = up
       \/ /\ cli[i].at = "wait-sync"
          /\ LET p == Head(cli[i].todo)
                 file(n) == <<Msg("SEND", p, <<>>)>> \o [k \in 1..n |-> Msg("DATA", p, <<Local(i)[k]>>)]
             IN  \/ /\ up' = [up EXCEPT ![i] = Append(file(Size), Msg("DONE", p, <<>>))]
                    /\ cli' = [cli EXCEPT ![i].at = "wait-done"]
                 \/ /\ up' = [up EXCEPT ![i] = file(Size - 1)]   \* the file has shrunk since it was
                    /\ cli' = [cli EXCEPT ![i].at = "threw"]     \* stat'ed: the slice throws
       \/ Fails(i) /\ up' = up                                   \* FAIL, or onerror
    /\ UNCHANGED <<down, quiet, copy>>
JsDone(i) ==
    /\ cli[i].at = "wait-done" /\ Gets(i)
    /\ cli' = [cli EXCEPT ![i] = End(i, IF Head(down[i]).id = "OKAY" THEN "ok" ELSE "failed")]
    /\ UNCHANGED <<quiet, copy>>

(* onclose only logs: the promise stays open. *)
JsClosed(i) ==
    /\ cli[i].at \in {"wait-transport", "wait-sync", "wait-done", "threw"} /\ down[i] = <<>> /\ i \in unread
    /\ cli' = [cli EXCEPT ![i] = End(i, "hung")]
    /\ UNCHANGED <<up, down, quiet, copy>>

(* The device or the transport goes: both ends see the stream closed. *)
Break(i) ==
    /\ cli[i].at # "new" /\ ~Gone(i) /\ srv[i].at # "ended"
    /\ up' = [up EXCEPT ![i] = <<>>] /\ down' = [down EXCEPT ![i] = <<>>]
    /\ unread' = unread \cup {i}
    /\ cli' = [cli EXCEPT ![i].end = "closed"]
    /\ UNCHANGED <<deviceVars, srv, copy, quiet>>

Command(i) ==
    /\ \/ Start(i) \/ Ask(i) \/ Answer(i) \/ List(i) \/ Entry(i) \/ NextFile(i) \/ PutData(i)
       \/ GetStatus(i) \/ Receive(i) \/ Eof(i) \/ JsAnswer(i) \/ JsDone(i) \/ JsClosed(i)
    /\ UNCHANGED <<deviceVars, srv, unread>>

Next == \E i \in Sessions : Serve(i) \/ Command(i) \/ Break(i)

(* The service and the command run; an answer the browser waits for comes.  *)
Fairness == \A i \in Sessions : WF_vars(Serve(i)) /\ WF_vars(Command(i))

Spec == Init /\ [][Next]_vars /\ Fairness

-----------------------------------------------------------------------------
Ends == {"ok", "failed", "hung"}
TypeOK ==
    /\ fs \in [Paths -> Objects \cup {NoFile}]
    /\ touched \in [Paths -> SUBSET Sessions]
    /\ \A i \in Sessions :
          /\ Len(down[i]) =< Capacity
          /\ cli[i].at \in Ends \cup {"new", "ask", "answer", "list", "entries", "next", "data",
                              "status", "receive", "wait-transport", "wait-sync", "wait-done", "threw"}
          /\ srv[i].at \in {"command", "list", "open", "data", "read", "ended"}
    /\ quiet \in [Sessions -> SUBSET Paths] /\ unread \subseteq Sessions

(* A push is whole or nothing.  Of a path that one session alone has sent,  *)
(* and that can be unlinked: once the service is through with it the file   *)
(* is whole or is not there, and a command that reported success has left   *)
(* the whole file, but for a local file it could not read.                  *)
Pushing(i) == ~Pulls(cli[i])
PushedWhole ==
    \A i \in Sessions, p \in Paths \ Sticky :
        touched[p] = {i} /\ p \notin quiet[i] =>
            /\ srv[i].path # p => ~Exists(p) \/ ContentOf(p) = Local(i)
            /\ cli[i].at = "ok" => Exists(p) /\ ContentOf(p) = Local(i)

(* A pull that reported success has every file as it was, but for those     *)
(* whose failure sync_recv takes for a success, if no session wrote to it.  *)
PulledWhole ==
    \A i \in Sessions, p \in Paths :
        cli[i].at = "ok" /\ Pulls(cli[i]) /\ p \in cli[i].files \ quiet[i] /\ touched[p] = {} =>
            copy[i][p] = Status(p)

FilesWhole == PushedWhole /\ PulledWhole

(* Every command ends, and so does the promise of a push unless the         *)
(* connection is closed before the answer or the file shrank; with          *)
(* Capacity below the number of files sync and the service wait for each    *)
(* other.                                                                   *)
Begun(i) == cli[i].at # "new"
Over(i) == cli[i].at \in Ends \cup {"threw"}
CommandEnds == \A i \in Sessions : Begun(i) ~> Over(i)

=============================================================================
