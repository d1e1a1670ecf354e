---------------------------- MODULE AdbStreamPipes ----------------------------
(***************************************************************************)
(* AdbStream implements StreamPipe, for every MaxId, MaxUnits, MaxPayload  *)
(* and MaxLinks: whatever is lost below, a program at one end of a stream  *)
(* gets what the program at the other end wrote, in order and without      *)
(* gaps, and at most MAX_PAYLOAD units are ever between them. And NoOrphan *)
(* of AdbStream: neither end of a stream is left open behind the other.    *)
(***************************************************************************)
EXTENDS AdbStreamProofs

-----------------------------------------------------------------------------
(* The invariant. The n-th unit a program writes is the number n: a run of *)
(* units counts on from what came before it.                               *)
Counts(q, n) == \A k \in 1..Len(q) : q[k] = n + k

(* What x has read is what y has written and these data.                   *)
Holds(data, x, y) ==
  Counts(data, Len(got[y])) /\ Len(got[y]) + Len(data) = taken[x]

(* All that x has read is written at y when x may read or is told so; else *)
(* what is missing is held by y, or is in the WRTE under way.              *)
Flow(x, y) ==
  /\ rd[x] \/ Ready(x, y) => taken[x] = Len(got[y])
  /\ pkts[y] # <<>> => Holds(pkts[y], x, y)
  /\ \A k \in 1..Len(wire[x[1]]) :
       Is(wire[x[1]][k], "WRTE", x[2], y[2]) => Holds(wire[x[1]][k].data, x, y)

Ordered == \A s \in Sock : Counts(got[s], 0)
Unused == \A s \in Sock : rid[s] = 0 => taken[s] = 0 /\ got[s] = <<>>
Flows == \A x, y \in Sock : Mates(x, y) => Flow(x, y)

PInv == CInv /\ Ordered /\ Unused /\ Flows

-----------------------------------------------------------------------------
(* Runs of units.                                                          *)

LEMMA CountsIs ==
  ASSUME NEW q \in Seq(Unit), NEW n, Counts(q, n)
  PROVE  q = [k \in 1..Len(q) |-> n + k] /\ Len(q) \in Nat
<1>1. Len(q) \in Nat /\ q \in [1..Len(q) -> Unit] BY LenProperties
<1>2. q = [k \in 1..Len(q) |-> q[k]] BY <1>1
<1>3. \A k \in 1..Len(q) : q[k] = n + k BY DEF Counts
<1>4. [k \in 1..Len(q) |-> q[k]] = [k \in 1..Len(q) |-> n + k] BY ONLY <1>3
<1> QED BY <1>1, <1>2, <1>4

(* What is written of a packet, and what is left of it.                    *)
LEMMA Parts ==
  ASSUME NEW q \in Seq(Unit), NEW n \in Nat, NEW k \in Nat, k <= Len(q), Counts(q, n)
  PROVE  /\ SubSeq(q, 1, k) \in Seq(Unit) /\ Len(SubSeq(q, 1, k)) = k
         /\ Counts(SubSeq(q, 1, k), n)
         /\ Rest(q, k) \in Seq(Unit) /\ Len(Rest(q, k)) = Len(q) - k
         /\ Counts(Rest(q, k), n + k)
<1> DEFINE w == SubSeq(q, 1, k)
           r == Rest(q, k)
<1>1. Len(q) \in Nat /\ \A i \in 1..Len(q) : q[i] \in Unit BY LenProperties, ElementOfSeq
<1>2. /\ w \in Seq(Unit) /\ Len(w) = IF 1 <= k THEN k - 1 + 1 ELSE 0
      /\ \A i \in 1..k - 1 + 1 : w[i] = q[1 + i - 1]
  BY <1>1, SubSeqProperties
<1>3. /\ r \in Seq(Unit) /\ Len(r) = IF k + 1 <= Len(q) THEN Len(q) - (k + 1) + 1 ELSE 0
      /\ \A i \in 1..Len(q) - (k + 1) + 1 : r[i] = q[k + 1 + i - 1]
  <2>1. \A i \in k + 1..Len(q) : q[i] \in Unit BY <1>1
  <2> QED BY <1>1, <2>1, SubSeqProperties DEF Rest
<1>4. Len(w) = k /\ Len(r) = Len(q) - k BY <1>1, <1>2, <1>3
<1> HIDE DEF w, r
<1>5. Counts(w, n)
  <2>1. \A i \in 1..k : w[i] = q[i] BY <1>2
  <2>2. \A i \in 1..k : q[i] = n + i BY <1>1 DEF Counts
  <2> QED BY <1>4, <2>1, <2>2 DEF Counts
<1>6. Counts(r, n + k)
  <2>1. \A i \in 1..Len(q) - k : r[i] = q[k + i] BY <1>1, <1>3
  <2>2. \A i \in 1..Len(q) - k : q[k + i] = n + (k + i) BY <1>1 DEF Counts
  <2>3. \A i \in 1..Len(q) - k : r[i] = (n + k) + i BY <1>1, <2>1, <2>2
  <2> QED BY <1>4, <2>3 DEF Counts
<1> QED BY <1>2, <1>3, <1>4, <1>5, <1>6 DEF w, r

LEMMA Again == \A l, k, n \in Nat : (l + k) + (n - k) = l + n
OBVIOUS

LEMMA Joint ==
  ASSUME NEW p \in Seq(Unit), NEW q \in Seq(Unit), Counts(p, 0), Counts(q, Len(p))
  PROVE  p \o q \in Seq(Unit) /\ Counts(p \o q, 0) /\ Len(p \o q) = Len(p) + Len(q)
<1> DEFINE r == p \o q
<1>1. /\ Len(p) \in Nat /\ Len(q) \in Nat /\ Len(r) = Len(p) + Len(q) /\ r \in Seq(Unit)
      /\ \A i \in 1..Len(p) + Len(q) : r[i] = IF i <= Len(p) THEN p[i] ELSE q[i - Len(p)]
  BY ConcatProperties, LenProperties
<1> HIDE DEF r
<1>2. ASSUME NEW i \in 1..Len(r) PROVE r[i] = 0 + i
  <2>1. CASE i <= Len(p)
    <3>1. i \in 1..Len(p) BY <1>1, <2>1
    <3> QED BY <1>1, <2>1, <3>1 DEF Counts
  <2>2. CASE ~(i <= Len(p))
    <3>1. i - Len(p) \in 1..Len(q) BY <1>1, <2>2
    <3>2. q[i - Len(p)] = Len(p) + (i - Len(p)) BY <3>1 DEF Counts
    <3> QED BY <1>1, <2>2, <3>2
  <2> QED BY <2>1, <2>2
<1> QED BY <1>1, <1>2 DEF Counts, r

-----------------------------------------------------------------------------
(* Steps that move no data.                                                *)

(* The OKAYs and WRTEs on the wires after the step were there before it.   *)
OldMsgs ==
  \A f \in End : \A k \in 1..Len(wire'[f]) :
    wire'[f][k].cmd \in {"OKAY", "WRTE"} =>
      \E l \in 1..Len(wire[f]) : wire'[f][k] = wire[f][l]

Still(x, y) ==
  /\ taken'[x] = taken[x] /\ got'[y] = got[y]
  /\ rd'[x] => rd[x] \/ Ready(x, y)
  /\ pkts'[y] # <<>> => pkts'[y] = pkts[y]
  /\ In(wire'[y[1]], "OKAY", y[2], x[2]) => Ready(x, y)
  /\ \A k \in 1..Len(wire'[x[1]]) :
       Is(wire'[x[1]][k], "WRTE", x[2], y[2]) =>
         \E l \in 1..Len(wire[x[1]]) : wire'[x[1]][k] = wire[x[1]][l]

LEMMA StillFlow ==
  ASSUME NEW x \in Sock, NEW y \in Sock, Flow(x, y), Still(x, y)
  PROVE  Flow(x, y)'
<1>1. rd'[x] \/ Ready(x, y)' => taken'[x] = Len(got'[y]) BY DEF Flow, Still, Ready
<1>2. pkts'[y] # <<>> => Holds(pkts[y], x, y)' BY DEF Flow, Still, Holds
<1>3. ASSUME NEW k \in 1..Len(wire'[x[1]]), Is(wire'[x[1]][k], "WRTE", x[2], y[2])
      PROVE  Holds(wire[x[1]][k].data, x, y)'
  <2>1. PICK l \in 1..Len(wire[x[1]]) : wire'[x[1]][k] = wire[x[1]][l] BY <1>3 DEF Still
  <2>2. Holds(wire[x[1]][l].data, x, y) BY <1>3, <2>1 DEF Flow
  <2> QED BY <2>1, <2>2 DEF Holds, Still
<1> QED BY <1>1, <1>2, <1>3 DEF Flow

LEMMA OldStill ==
  ASSUME OldMsgs, NEW x \in Sock, NEW y \in Sock,
         taken'[x] = taken[x], got'[y] = got[y],
         rd'[x] => rd[x] \/ Ready(x, y),
         pkts'[y] # <<>> => pkts'[y] = pkts[y]
  PROVE  Still(x, y)
<1>1. x[1] \in End /\ y[1] \in End BY SockIs
<1>2. ASSUME In(wire'[y[1]], "OKAY", y[2], x[2]) PROVE Ready(x, y)
  <2>1. PICK k \in 1..Len(wire'[y[1]]) : Is(wire'[y[1]][k], "OKAY", y[2], x[2]) BY <1>2 DEF In
  <2>2. wire'[y[1]][k].cmd = "OKAY" BY <2>1 DEF Is
  <2>3. PICK l \in 1..Len(wire[y[1]]) : wire'[y[1]][k] = wire[y[1]][l]
    BY <1>1, <2>2 DEF OldMsgs
  <2> QED BY <2>1, <2>3 DEF In, Ready
<1>3. \A k \in 1..Len(wire'[x[1]]) :
        Is(wire'[x[1]][k], "WRTE", x[2], y[2]) =>
          \E l \in 1..Len(wire[x[1]]) : wire'[x[1]][k] = wire[x[1]][l]
  BY <1>1 DEF OldMsgs, Is
<1> QED BY <1>2, <1>3 DEF Still

LEMMA SentOld ==
  ASSUME TypeOK, NEW e \in End, NEW ms \in Seq(Message),
         \A k \in 1..Len(ms) : ms[k].cmd \notin {"OKAY", "WRTE"},
         Send(e, ms) \/ (Reply(e, ms) /\ wire[Far(e)] # <<>>)
  PROVE  OldMsgs
<1> SUFFICES ASSUME NEW f \in End, NEW k \in 1..Len(wire'[f]),
                    wire'[f][k].cmd \in {"OKAY", "WRTE"}
             PROVE  \E l \in 1..Len(wire[f]) : wire'[f][k] = wire[f][l]
  BY DEF OldMsgs
<1>1. wire[f] \in Seq(Message) /\ (f = e \/ f = Far(e)) BY DEF TypeOK, End, Far
<1>2. CASE f = e
  <2>1. wire'[f] = Sent(e, ms) BY <1>2, SendWire, ReplyWire
  <2>2. \/ k \in 1..Len(wire[f]) /\ wire'[f][k] = wire[f][k]
        \/ k - Len(wire[f]) \in 1..Len(ms) /\ wire'[f][k] = ms[k - Len(wire[f])]
    BY <1>2, <2>1, SentElems
  <2> QED BY <2>2
<1>3. CASE f = Far(e)
  <2>1. wire'[f] = wire[f] \/ (wire'[f] = Tail(wire[f]) /\ wire[f] # <<>>)
    BY <1>3, SendWire, ReplyWire
  <2>2. CASE wire'[f] = wire[f] BY <2>2
  <2>3. CASE wire'[f] = Tail(wire[f]) /\ wire[f] # <<>>
    <3>1. k + 1 \in 1..Len(wire[f]) /\ Tail(wire[f])[k] = wire[f][k + 1]
      BY <1>1, <2>3, TailElems
    <3> QED BY <2>3, <3>1
  <2> QED BY <2>1, <2>2, <2>3
<1> QED BY <1>1, <1>2, <1>3

LEMMA PlainOld ==
  ASSUME TypeOK, NEW e \in End, NEW ms, Plain(ms),
         Send(e, ms) \/ (Reply(e, ms) /\ wire[Far(e)] # <<>>)
  PROVE  OldMsgs
BY SentOld DEF Plain

LEMMA SameOld == ASSUME UNCHANGED wire PROVE OldMsgs
BY DEF OldMsgs

(* Where an OKAY or a WRTE is sent.                                        *)
LEMMA OldSteps ==
  ASSUME CInv, Next
  PROVE  \/ OldMsgs
         \/ \E e \in End : OpenAccepted(e) \/ WrteWritten(e)
         \/ \E s \in Sock : DrainAll(s) \/ ReadSome(s) \/ ReadEof(s)
<1>0. TypeOK BY DEF CInv
<1>1. ASSUME LinkUp PROVE OldMsgs
  <2>1. \A f \in End : wire'[f] = <<>> \/ wire'[f] = <<Msg("CNXN", 0, 0, <<>>)>>
    BY <1>0, <1>1 DEF LinkUp, TypeOK
  <2>2. \A f \in End : \A k \in 1..Len(wire'[f]) : wire'[f][k].cmd = "CNXN"
    BY <2>1 DEF Msg
  <2> QED BY <2>2 DEF OldMsgs
<1>2. ASSUME LinkLost PROVE OldMsgs
  <2> SUFFICES ASSUME NEW f \in End, NEW k \in 1..Len(wire'[f]),
                      wire'[f][k].cmd \in {"OKAY", "WRTE"}
               PROVE  \E l \in 1..Len(wire[f]) : wire'[f][k] = wire[f][l]
    BY DEF OldMsgs
  <2>1. PICK n \in 0..Len(wire[f]) :
          wire'[f] = SubSeq(wire[f], 1, n) \o <<Msg("SYNC", 0, 0, <<>>)>>
    BY <1>0, <1>2, LostFrom
  <2>2. n \in Nat /\ Len(wire'[f]) = n + 1 /\ wire'[f][n + 1].cmd = "SYNC"
    BY <1>0, <2>1, LostIs
  <2>3. \A i \in 1..n : i \in 1..Len(wire[f]) /\ wire'[f][i] = wire[f][i]
    BY <1>0, <2>1, LostIs
  <2>4. k \in 1..n
    <3>1. k # n + 1 BY <2>2
    <3> QED BY <2>2, <3>1
  <2> QED BY <2>3, <2>4
<1>3. ASSUME NEW e \in End, HandleSync(e) \/ HandleOkay(e) \/ Ignore(e) \/ WrteQueued(e)
      PROVE  OldMsgs
  <2>1. Plain(<<>>) BY PlainMsgs
  <2>2. Reply(e, <<>>) /\ wire[Far(e)] # <<>>
    BY <1>3 DEF HandleSync, HandleOkay, Ignore, WrteQueued, Arrives
  <2> QED BY <1>0, <2>1, <2>2, PlainOld
<1>4. ASSUME NEW e \in End, HandleCnxn(e) PROVE OldMsgs
  <2>1. PICK ms : ms = IF e = "device" THEN <<Msg("CNXN", 0, 0, <<>>)>> ELSE <<>> OBVIOUS
  <2>2. Plain(ms) BY <2>1, PlainMsgs
  <2>3. Reply(e, ms) /\ wire[Far(e)] # <<>> BY <1>4, <2>1 DEF HandleCnxn, Arrives
  <2> QED BY <1>0, <2>2, <2>3, PlainOld
<1>5. ASSUME NEW e \in End, OpenRefused(e) PROVE OldMsgs
  <2>1. PICK ms : ms = SendClose(Head(wire[Far(e)]).arg0) OBVIOUS
  <2>2. Reply(e, ms) /\ wire[Far(e)] # <<>> BY <1>5, <2>1 DEF OpenRefused, Arrives
  <2>3. Plain(ms) BY <1>0, <2>1, <2>2, ArrivesType, PlainMsgs
  <2> QED BY <1>0, <2>2, <2>3, PlainOld
<1>6. ASSUME NEW e \in End, HandleClse(e) \/ WrteFailed(e) PROVE OldMsgs
  <2>1. PICK ms : ms = CloseMsgs(FoundSock(e)) OBVIOUS
  <2>2. Plain(ms) BY <1>6, <2>1, FoundCloses, PlainMsgs
  <2>3. Reply(e, ms) /\ wire[Far(e)] # <<>>
    BY <1>6, <2>1 DEF HandleClse, WrteFailed, FoundSock, Arrives
  <2> QED BY <1>0, <2>2, <2>3, PlainOld
<1>7. ASSUME NEW e \in End, CloseAllSockets(e) PROVE OldMsgs
  BY <1>7, SameOld DEF CloseAllSockets
<1>8. ASSUME NEW early \in BOOLEAN, ClientOpen(early) PROVE OldMsgs
  <2>1. PICK ms : ms = <<Msg("OPEN", nextId["host"], 0, <<>>)>> OBVIOUS
  <2>2. Send("host", ms) /\ "host" \in End BY <1>8, <2>1, ClientIs DEF End
  <2>3. nextId["host"] \in Id BY <1>8, ClientIs
  <2>4. ms \in Seq(Message) BY <2>1, <2>3, IdTypes, OpenMsg
  <2>5. \A k \in 1..Len(ms) : ms[k].cmd \notin {"OKAY", "WRTE"} BY <2>1 DEF Msg
  <2> QED BY <1>0, <2>2, <2>4, <2>5, SentOld
<1>9. ASSUME NEW s \in Sock, DrainSome(s) \/ DrainLast(s) PROVE OldMsgs
  BY <1>9, SameOld DEF DrainSome, DrainLast
<1>10. ASSUME NEW s \in Sock, DrainFailed(s) PROVE OldMsgs
  <2>1. s[1] \in End /\ Plain(CloseMsgs(s)) BY SockIs, PlainMsgs
  <2>2. Send(s[1], CloseMsgs(s)) BY <1>10 DEF DrainFailed
  <2> QED BY <1>0, <2>1, <2>2, PlainOld
<1>11. ASSUME NEW s \in Sock, ClientWrite(s) \/ \E how \in {"eof", "gone"} : ClientShut(s, how)
       PROVE  OldMsgs
  BY <1>11, SameOld DEF ClientWrite, ClientShut
<1> QED
  BY <1>1, <1>2, <1>3, <1>4, <1>5, <1>6, <1>7, <1>8, <1>9, <1>10, <1>11
  DEF Next, Handle, Event

(* Steps that neither take data from a program nor hand it any.            *)
Quiet ==
  /\ OldMsgs /\ UNCHANGED <<rid, taken, got>>
  /\ \A t \in Sock : rd'[t] => rd[t]
  /\ \A t \in Sock : pkts'[t] # <<>> => pkts'[t] = pkts[t]

LEMMA ClosingQuiet ==
  ASSUME CInv, NEW S, Closing(S)
  PROVE  /\ UNCHANGED rid
         /\ \A t \in Sock : rd'[t] => rd[t]
         /\ \A t \in Sock : pkts'[t] # <<>> => pkts'[t] = pkts[t]
<1> SUFFICES ASSUME NEW t \in Sock
             PROVE  UNCHANGED rid /\ (rd'[t] => rd[t]) /\ (pkts'[t] # <<>> => pkts'[t] = pkts[t])
  BY DEF Closing, CloseSockets
<1>1. CASE t \notin S BY <1>1, ClosingIs DEF CInv
<1>2. CASE t \in S BY <1>2, ClosingIs DEF CInv
<1> QED BY <1>1, <1>2

LEMMA QuietSteps ==
  ASSUME CInv, Next
  PROVE  \/ Quiet
         \/ \E e \in End : HandleOkay(e) \/ OpenAccepted(e) \/ WrteWritten(e) \/ WrteQueued(e)
         \/ \E s \in Sock : \/ DrainSome(s) \/ DrainAll(s) \/ DrainLast(s)
                            \/ ReadSome(s) \/ ReadEof(s)
<1>1. ASSUME NEW e \in End,
             \/ HandleSync(e) \/ HandleCnxn(e) \/ CloseAllSockets(e)
             \/ HandleClse(e) \/ WrteFailed(e),
             OldMsgs
      PROVE  Quiet
  <2>1. UNCHANGED <<taken, got>>
    BY <1>1 DEF HandleSync, HandleCnxn, CloseAllSockets, HandleClse, WrteFailed
  <2>2. \E S : Closing(S) BY <1>1, SyncCloses, CnxnCloses, SweepCloses, FoundCloses
  <2> QED BY <1>1, <2>1, <2>2, ClosingQuiet DEF Quiet
<1>2. ASSUME NEW s \in Sock, DrainFailed(s), OldMsgs PROVE Quiet
  BY <1>2, EventCloses, ClosingQuiet DEF DrainFailed, Quiet
<1>3. ASSUME UNCHANGED sockVars, UNCHANGED <<taken, got>>, OldMsgs PROVE Quiet
  BY <1>3 DEF sockVars, Quiet
<1>4. ASSUME NEW e \in End, OpenRefused(e) \/ Ignore(e), OldMsgs PROVE Quiet
  BY <1>3, <1>4 DEF OpenRefused, Ignore
<1>5. ASSUME LinkUp \/ LinkLost, OldMsgs PROVE Quiet BY <1>3, <1>5 DEF LinkUp, LinkLost
<1>6. ASSUME NEW early \in BOOLEAN, ClientOpen(early), OldMsgs PROVE Quiet
  BY <1>6 DEF ClientOpen, Quiet
<1>7. ASSUME NEW s \in Sock, ClientWrite(s) \/ \E how \in {"eof", "gone"} : ClientShut(s, how),
             OldMsgs
      PROVE  Quiet
  BY <1>3, <1>7 DEF ClientWrite, ClientShut
<1>8. CASE OldMsgs
  BY <1>1, <1>2, <1>4, <1>5, <1>6, <1>7, <1>8 DEF Next, Handle, Event
<1> QED BY <1>8, OldSteps

(* Units are counted for connected sockets only.                           *)
LEMMA UnusedNext ==
  ASSUME PInv, Next,
         \A t \in Sock : taken'[t] # taken[t] \/ got'[t] # got[t] => rid[t] # 0
  PROVE  Unused'
<1>1. \A s \in Sock : rid[s] # 0 => rid'[s] = rid[s] BY RidKept DEF PInv
<1>2. \A s \in Sock : rid[s] = 0 => taken[s] = 0 /\ got[s] = <<>> BY DEF PInv, Unused
<1>3. \A s \in Sock : rid'[s] = 0 => rid[s] = 0 BY <1>1
<1>4. \A s \in Sock : rid[s] = 0 => taken'[s] = taken[s] /\ got'[s] = got[s] OBVIOUS
<1> QED BY <1>2, <1>3, <1>4 DEF Unused

LEMMA QuietPipes ==
  ASSUME PInv, Next, Quiet
  PROVE  Ordered' /\ Unused' /\ Flows'
<1>1. Ordered' BY DEF PInv, Ordered, Quiet
<1>2. Unused' BY UnusedNext DEF Quiet
<1>3. ASSUME NEW x \in Sock, NEW y \in Sock, Mates(x, y) PROVE Flow(x, y)'
  <2>1. Flow(x, y) BY <1>3 DEF PInv, Flows
  <2>2. Still(x, y) BY OldStill DEF Quiet
  <2> QED BY <2>1, <2>2, StillFlow
<1>4. \A x, y \in Sock : Mates(x, y)' <=> Mates(x, y) BY DEF Quiet, Mates
<1> QED BY <1>1, <1>2, <1>3, <1>4 DEF Flows

(* An OKAY lets its socket read on: all it read was written.               *)
LEMMA OkayPipes ==
  ASSUME PInv, Next, NEW e \in End, HandleOkay(e)
  PROVE  Ordered' /\ Unused' /\ Flows'
<1>0. CInv /\ TypeOK BY DEF PInv, CInv
<1>1. PICK m : m = Head(wire[Far(e)]) OBVIOUS
<1>2. PICK s : s = <<e, m.arg1>> OBVIOUS
<1>3. UNCHANGED <<taken, got, pkts>> BY DEF HandleOkay
<1>4. Ordered' BY <1>3 DEF PInv, Ordered
<1>5. Unused' BY <1>3, UnusedNext
<1>6. s \in Sock /\ list[s] = "local" /\ Arrives(e, "OKAY") /\ Reply(e, <<>>)
  BY <1>0, <1>1, <1>2, OkayIs
<1>7. \A t \in Sock : rd'[t] <=> t = s \/ rd[t] BY <1>0, <1>1, <1>2, OkayIs
<1>8. OldMsgs
  <2>1. Plain(<<>>) BY <1>0, PlainMsgs
  <2> QED BY <1>0, <1>6, <2>1, PlainOld DEF Arrives
<1>9. ASSUME NEW x \in Sock, NEW y \in Sock, Mates(x, y) PROVE Flow(x, y)'
  <2>1. x = s => Ready(x, y)
    <3> SUFFICES ASSUME x = s PROVE Ready(x, y) OBVIOUS
    <3>1. PICK w : w = <<Far(e), m.arg0>> OBVIOUS
    <3>2. /\ m.arg0 \in Id /\ m.arg1 \in Id /\ rid[w] = m.arg1 /\ w \in Sock
          /\ Is(m, "OKAY", m.arg0, m.arg1) /\ (Mates(w, s) \/ rid[s] = 0)
      BY <1>0, <1>1, <1>2, <1>6, <3>1, ArrivesFrom
    <3>3. Mates(s, w)
      <4>1. CASE e = "host" BY <1>2, <3>1, <3>2, <4>1 DEF Mates, Far
      <4>2. CASE e = "device"
        <5>1. s[1] = "device" /\ Mates(x, y) /\ x = s BY <1>2, <1>9, <4>2
        <5>2. y[2] # 0 /\ rid[s] = y[2] BY <5>1, SockIs DEF Mates
        <5>3. Mates(w, s) BY <3>2, <5>2
        <5> QED BY <1>0, <1>6, <3>2, <5>3, MatesAre
      <4> QED BY <4>1, <4>2 DEF End
    <3>4. y = w BY <1>0, <1>6, <1>9, <3>2, <3>3, MatesOne
    <3>5. y[1] = Far(e) /\ y[2] = m.arg0 /\ x[2] = m.arg1 BY <1>2, <3>1, <3>4
    <3>6. wire[Far(e)] \in Seq(Message) /\ wire[Far(e)] # <<>>
      BY <1>0, <1>6, EndFacts DEF TypeOK, Arrives
    <3>7. m = wire[Far(e)][1] /\ 1 \in 1..Len(wire[Far(e)]) BY <1>1, <3>6, TailElems
    <3> QED BY <3>2, <3>5, <3>7 DEF Ready, In
  <2>2. Flow(x, y) BY <1>9 DEF PInv, Flows
  <2>3. rd'[x] => rd[x] \/ Ready(x, y) BY <1>7, <2>1
  <2>4. Still(x, y) BY <1>3, <1>8, <2>3, OldStill
  <2> QED BY <2>2, <2>4, StillFlow
<1>10. \A x, y \in Sock : Mates(x, y)' <=> Mates(x, y) BY <1>0, OkayMates
<1> QED BY <1>4, <1>5, <1>9, <1>10 DEF Flows

-----------------------------------------------------------------------------
(* Steps that move data from x to y: the other directions see nothing.     *)

LEMMA MovedFlows ==
  ASSUME PInv, UNCHANGED rid, NEW x \in Sock, NEW y \in Sock, Flow(x, y)',
         \A v, w \in Sock : Mates(v, w) /\ ~(v = x /\ w = y) => Still(v, w)
  PROVE  Flows'
<1> SUFFICES ASSUME NEW v \in Sock, NEW w \in Sock, Mates(v, w) PROVE Flow(v, w)'
  BY DEF Flows, Mates
<1>1. Flow(v, w) BY DEF PInv, Flows
<1> QED BY <1>1, StillFlow

LEMMA OtherStill ==
  ASSUME CInv, NEW e \in End, NEW ms, NEW x \in Sock, NEW y \in Sock, Moves(e, ms, x, y),
         NEW v \in Sock, NEW w \in Sock, Mates(v, w), ~(v = x /\ w = y),
         taken'[v] = taken[v], got'[w] = got[w], rd'[v] => rd[v],
         pkts'[w] # <<>> => pkts'[w] = pkts[w]
  PROVE  Still(v, w)
<1>1. In(wire'[w[1]], "OKAY", w[2], v[2]) <=> Ready(v, w) BY OtherWires
<1>2. ASSUME NEW k \in 1..Len(wire'[v[1]]), Is(wire'[v[1]][k], "WRTE", v[2], w[2])
      PROVE  \E l \in 1..Len(wire[v[1]]) : wire'[v[1]][k] = wire[v[1]][l]
  <2>1. /\ v[1] \in End /\ w[1] = Far(v[1]) /\ v[2] \in Id /\ w[2] \in Id
        /\ v = <<v[1], v[2]>> /\ w = <<w[1], w[2]>>
    BY MatesAre
  <2>2. \/ \E l \in 1..Len(wire[v[1]]) : wire'[v[1]][k] = wire[v[1]][l]
        \/ v[1] = e /\ \E l \in 1..Len(ms) : wire'[v[1]][k] = ms[l]
    BY <2>1, ActsFrom DEF Moves, CInv
  <2>3. ASSUME v[1] = e, NEW l \in 1..Len(ms), wire'[v[1]][k] = ms[l] PROVE FALSE
    <3>1. In(ms, "WRTE", v[2], w[2]) BY <1>2, <2>3 DEF In
    <3>2. x = <<e, v[2]>> /\ y = <<Far(e), w[2]>> BY <2>1, <3>1 DEF Moves
    <3> QED BY <2>1, <2>3, <3>2
  <2> QED BY <2>2, <2>3
<1> QED BY <1>1, <1>2 DEF Still

(* Units that count on from those written are written.                     *)
LEMMA WroteIs ==
  ASSUME PInv, NEW y \in Sock, NEW q \in Seq(Unit), Counts(q, Len(got[y])),
         got' = [got EXCEPT ![y] = @ \o q]
  PROVE  /\ got'[y] = got[y] \o q /\ got'[y] \in Seq(Unit)
         /\ Len(got[y]) \in Nat /\ Len(q) \in Nat
         /\ Len(got'[y]) = Len(got[y]) + Len(q)
         /\ \A t \in Sock : t # y => got'[t] = got[t]
         /\ Ordered'
<1>1. got \in [Sock -> Seq(Unit)] BY DEF PInv, CInv, TypeOK
<1>2. got'[y] = got[y] \o q /\ \A t \in Sock : t # y => got'[t] = got[t] BY <1>1
<1>3. Counts(got[y], 0) BY DEF PInv, Ordered
<1>4. /\ got[y] \o q \in Seq(Unit) /\ Counts(got[y] \o q, 0)
      /\ Len(got[y] \o q) = Len(got[y]) + Len(q)
  BY <1>1, <1>3, Joint
<1>5. ASSUME NEW t \in Sock PROVE Counts(got'[t], 0)
  <2>1. CASE t = y BY <1>2, <1>4, <2>1
  <2>2. CASE t # y
    <3>1. Counts(got[t], 0) BY DEF PInv, Ordered
    <3> QED BY <1>2, <2>2, <3>1
  <2> QED BY <2>1, <2>2
<1>6. Len(got[y]) \in Nat /\ Len(q) \in Nat BY <1>1, LenProperties
<1> QED BY <1>2, <1>4, <1>5, <1>6 DEF Ordered

(* The data at the head of a wire that found its socket.                   *)
LEMMA DataHolds ==
  ASSUME PInv, NEW e \in End, Arrives(e, "WRTE"), NEW m, m = Head(wire[Far(e)]),
         Found(e, m.arg1), NEW y, y = <<e, m.arg1>>, NEW x, x = <<Far(e), m.arg0>>
  PROVE  /\ x \in Sock /\ y \in Sock /\ Mates(x, y) /\ x[1] = Far(e) /\ y[1] = e
         /\ x[2] = m.arg0 /\ y[2] = m.arg1 /\ m.arg0 \in Id /\ m.arg1 \in Id
         /\ Is(m, "WRTE", x[2], y[2]) /\ wire[Far(e)] # <<>>
         /\ m.data \in Seq(Unit) /\ Holds(m.data, x, y) /\ Data(x, y)
         /\ ~rd[x] /\ pkts[y] = <<>> /\ ~Ready(x, y) /\ rid[y] # 0
<1>0. CInv /\ TypeOK BY DEF PInv, CInv
<1>1. /\ m.arg0 \in Id /\ m.arg1 \in Id /\ y \in Sock /\ x \in Sock
      /\ Is(m, "WRTE", m.arg0, m.arg1)
  BY <1>0, ArrivesFrom
<1>2. Mates(x, y) /\ rid[y] = m.arg0 BY <1>0, DataFinds
<1>3. x[1] = Far(e) /\ y[1] = e /\ x[2] = m.arg0 /\ y[2] = m.arg1 OBVIOUS
<1>4. wire[Far(e)] # <<>> /\ wire[Far(e)] \in Seq(Message)
  BY <1>0, EndFacts DEF Arrives, TypeOK
<1>5. m = wire[Far(e)][1] /\ 1 \in 1..Len(wire[Far(e)]) BY <1>4, TailElems
<1>6. m.data \in Seq(Unit) BY <1>0, <1>4, ArrivesType
<1>7. Flow(x, y) BY <1>1, <1>2 DEF PInv, Flows
<1>8. Holds(m.data, x, y) BY <1>1, <1>3, <1>5, <1>7 DEF Flow
<1>9. Data(x, y) BY <1>1, <1>3, <1>5 DEF Data, In
<1>10. AtMostOne(x, y) BY <1>0, <1>1, <1>2 DEF CInv, Credit
<1>11. rid[y] # 0 BY <1>1, <1>2, SockIs
<1> QED BY <1>1, <1>2, <1>3, <1>4, <1>6, <1>8, <1>9, <1>10, <1>11 DEF AtMostOne

(* WRTE, all written.                                                      *)
LEMMA WrittenPipes ==
  ASSUME PInv, Next, NEW e \in End, WrteWritten(e)
  PROVE  Ordered' /\ Unused' /\ Flows'
<1>0. CInv /\ TypeOK BY DEF PInv, CInv
<1>1. PICK m : m = Head(wire[Far(e)]) OBVIOUS
<1>2. PICK y : y = <<e, m.arg1>> OBVIOUS
<1>3. PICK x : x = <<Far(e), m.arg0>> OBVIOUS
<1>4. PICK ms : ms = <<Msg("OKAY", m.arg1, m.arg0, <<>>)>> OBVIOUS
<1>5. /\ Arrives(e, "WRTE") /\ Found(e, m.arg1) /\ Reply(e, ms) /\ UNCHANGED sockVars
      /\ UNCHANGED link
  BY <1>0, <1>1, <1>2, <1>4, WrittenIs
<1>6. /\ x \in Sock /\ y \in Sock /\ Mates(x, y) /\ x[1] = Far(e) /\ y[1] = e
      /\ x[2] = m.arg0 /\ y[2] = m.arg1 /\ m.arg0 \in Id /\ m.arg1 \in Id
      /\ Is(m, "WRTE", x[2], y[2]) /\ wire[Far(e)] # <<>>
      /\ m.data \in Seq(Unit) /\ Holds(m.data, x, y) /\ Data(x, y)
      /\ ~rd[x] /\ pkts[y] = <<>> /\ ~Ready(x, y) /\ rid[y] # 0
  BY <1>1, <1>2, <1>3, <1>5, DataHolds
<1>7. got' = [got EXCEPT ![y] = @ \o m.data] /\ UNCHANGED taken
  BY <1>1, <1>2 DEF WrteWritten
<1>8. Counts(m.data, Len(got[y])) /\ Len(got[y]) + Len(m.data) = taken[x] BY <1>6 DEF Holds
<1>9. /\ Len(got'[y]) = taken[x] /\ Ordered' /\ \A t \in Sock : t # y => got'[t] = got[t]
  BY <1>6, <1>7, <1>8, WroteIs
<1>10. Unused' BY <1>6, <1>7, <1>9, UnusedNext
<1>11. UNCHANGED <<rid, rd, pkts>> BY <1>5 DEF sockVars
<1>12. ms \in Seq(Message) BY <1>4, <1>6, IdTypes, OkayMsg
<1>13. Acts(e, ms) BY <1>1, <1>5, <1>6, <1>12 DEF Acts, Greets, Arrives
<1>14. Moves(e, ms, x, y) BY <1>1, <1>2, <1>3, <1>4, <1>6, <1>13, OneMsg DEF Moves, Is
<1>15. ~In(wire'[x[1]], "WRTE", x[2], y[2])
  <2>1. AtMostOne(x, y) BY <1>0, <1>6 DEF CInv, Credit
  <2> QED BY <1>0, <1>1, <1>5, <1>6, <2>1, ActsTaken DEF AtMostOne
<1>16. Flow(x, y)' BY <1>6, <1>7, <1>9, <1>11, <1>15 DEF Flow, In
<1>17. ASSUME NEW v \in Sock, NEW w \in Sock, Mates(v, w), ~(v = x /\ w = y) PROVE Still(v, w)
  <2>1. w # y
    <3>1. Mates(y, x) BY <1>0, <1>6, MatesAre
    <3>2. Mates(w, v) BY <1>0, <1>17, MatesAre
    <3> QED BY <1>0, <1>6, <1>17, <3>1, <3>2, MatesOne
  <2> QED BY <1>0, <1>6, <1>7, <1>9, <1>11, <1>14, <1>17, <2>1, OtherStill
<1>18. Flows' BY <1>6, <1>11, <1>16, <1>17, MovedFlows
<1> QED BY <1>9, <1>10, <1>18

(* WRTE, not all written: what is left counts on from what is written.     *)
LEMMA QueuedPipes ==
  ASSUME PInv, Next, NEW e \in End, WrteQueued(e)
  PROVE  Ordered' /\ Unused' /\ Flows'
<1>0. CInv /\ TypeOK BY DEF PInv, CInv
<1>1. PICK m : m = Head(wire[Far(e)]) OBVIOUS
<1>2. PICK y : y = <<e, m.arg1>> OBVIOUS
<1>3. PICK x : x = <<Far(e), m.arg0>> OBVIOUS
<1>4. /\ Arrives(e, "WRTE") /\ Found(e, m.arg1) /\ Reply(e, <<>>) /\ UNCHANGED <<rid, rd, link>>
      /\ \A t \in Sock : t # y => pkts'[t] = pkts[t]
  BY <1>0, <1>1, <1>2, QueuedIs
<1>5. /\ x \in Sock /\ y \in Sock /\ Mates(x, y) /\ x[1] = Far(e) /\ y[1] = e
      /\ x[2] = m.arg0 /\ y[2] = m.arg1 /\ m.arg0 \in Id /\ m.arg1 \in Id
      /\ Is(m, "WRTE", x[2], y[2]) /\ wire[Far(e)] # <<>>
      /\ m.data \in Seq(Unit) /\ Holds(m.data, x, y) /\ Data(x, y)
      /\ ~rd[x] /\ pkts[y] = <<>> /\ ~Ready(x, y) /\ rid[y] # 0
  BY <1>1, <1>2, <1>3, <1>4, DataHolds
<1>6. PICK k \in 0..Len(m.data) - 1 :
        /\ got' = [got EXCEPT ![y] = @ \o SubSeq(m.data, 1, k)]
        /\ pkts' = [pkts EXCEPT ![y] = @ \o Rest(m.data, k)]
  BY <1>1, <1>2 DEF WrteQueued
<1>7. Len(m.data) \in Nat /\ k \in Nat /\ k <= Len(m.data) BY <1>5, <1>6, LenProperties
<1>8. Len(got[y]) \in Nat
  <2>1. got[y] \in Seq(Unit) BY <1>0, <1>5 DEF TypeOK
  <2> QED BY <2>1, LenProperties
<1>9. PICK q : q = SubSeq(m.data, 1, k) OBVIOUS
<1>10. PICK r : r = Rest(m.data, k) OBVIOUS
<1>11. Counts(m.data, Len(got[y])) /\ Len(got[y]) + Len(m.data) = taken[x] BY <1>5 DEF Holds
<1>12. /\ q \in Seq(Unit) /\ Len(q) = k /\ Counts(q, Len(got[y]))
       /\ r \in Seq(Unit) /\ Len(r) = Len(m.data) - k /\ Counts(r, Len(got[y]) + k)
  BY <1>5, <1>7, <1>8, <1>9, <1>10, <1>11, Parts
<1>13. got' = [got EXCEPT ![y] = @ \o q] /\ UNCHANGED taken BY <1>6, <1>9 DEF WrteQueued
<1>14. /\ Len(got'[y]) = Len(got[y]) + k /\ Ordered' /\ \A t \in Sock : t # y => got'[t] = got[t]
  BY <1>5, <1>12, <1>13, WroteIs
<1>15. Unused' BY <1>5, <1>13, <1>14, UnusedNext
<1>16. pkts'[y] = r
  <2>1. pkts'[y] = <<>> \o r BY <1>0, <1>5, <1>6, <1>10 DEF TypeOK
  <2> QED BY <1>12, <2>1, ConcatEmptySeq
<1>17. Acts(e, <<>>) BY <1>1, <1>4, <1>5, NoMsgs DEF Acts, Greets, Arrives
<1>18. Moves(e, <<>>, x, y) BY <1>1, <1>2, <1>3, <1>5, <1>17, NoneSent DEF Moves, Is
<1>19. ~In(wire'[x[1]], "WRTE", x[2], y[2])
  <2>1. AtMostOne(x, y) BY <1>0, <1>5 DEF CInv, Credit
  <2> QED BY <1>0, <1>1, <1>4, <1>5, <2>1, ActsTaken DEF AtMostOne
<1>20. ~In(wire'[y[1]], "OKAY", y[2], x[2])
  <2>1. ~In(wire[e], "OKAY", y[2], x[2]) BY <1>5 DEF Ready
  <2> QED BY <1>0, <1>5, <1>17, <2>1, ActsIn, NoneSent
<1>21. Flow(x, y)'
  <2>1. ~rd'[x] /\ ~Ready(x, y)' BY <1>4, <1>5, <1>20 DEF Ready
  <2>2. Holds(pkts[y], x, y)'
    <3>1. Len(got'[y]) + Len(r) = taken'[x]
      <4>1. (Len(got[y]) + k) + (Len(m.data) - k) = Len(got[y]) + Len(m.data)
        BY <1>7, <1>8, Again
      <4> QED BY <1>11, <1>12, <1>13, <1>14, <4>1
    <3> QED BY <1>12, <1>14, <1>16, <3>1 DEF Holds
  <2> QED BY <1>19, <2>1, <2>2 DEF Flow, In
<1>22. ASSUME NEW v \in Sock, NEW w \in Sock, Mates(v, w), ~(v = x /\ w = y) PROVE Still(v, w)
  <2>1. w # y
    <3>1. Mates(y, x) BY <1>0, <1>5, MatesAre
    <3>2. Mates(w, v) BY <1>0, <1>22, MatesAre
    <3> QED BY <1>0, <1>5, <1>22, <3>1, <3>2, MatesOne
  <2> QED BY <1>0, <1>4, <1>5, <1>13, <1>14, <1>18, <1>22, <2>1, OtherStill
<1>23. Flows' BY <1>4, <1>5, <1>21, <1>22, MovedFlows
<1> QED BY <1>14, <1>15, <1>23

(* The data that a socket holds.                                           *)
LEMMA QueueHolds ==
  ASSUME PInv, NEW y \in Sock, pkts[y] # <<>>, NEW x, x = <<Far(y[1]), rid[y]>>
  PROVE  /\ x \in Sock /\ Mates(x, y) /\ x[1] = Far(y[1]) /\ x[2] = rid[y] /\ rid[y] \in Id
         /\ rid[y] # 0 /\ pkts[y] \in Seq(Unit) /\ Holds(pkts[y], x, y)
         /\ ~rd[x] /\ ~Data(x, y) /\ ~Ready(x, y)
<1>0. CInv /\ TypeOK BY DEF PInv, CInv
<1>1. rid[y] # 0 BY <1>0 DEF CInv, Sockets
<1>2. rid[y] \in Id BY <1>0, <1>1 DEF TypeOK, Id
<1>3. y[1] \in End /\ y[2] \in Id /\ Far(y[1]) \in End BY SockIs, EndFacts
<1>4. x \in Sock /\ x[1] = Far(y[1]) /\ x[2] = rid[y] BY <1>2, <1>3, SockIs
<1>5. rid[x] = y[2] BY <1>0 DEF CInv, Pairs
<1>6. Mates(x, y)
  <2>1. CASE y[1] = "device" BY <1>4, <2>1 DEF Mates, Far
  <2>2. CASE y[1] = "host" BY <1>4, <1>5, <2>2 DEF Mates, Far
  <2> QED BY <1>3, <2>1, <2>2 DEF End
<1>7. Flow(x, y) BY <1>4, <1>6 DEF PInv, Flows
<1>8. AtMostOne(x, y) BY <1>0, <1>4, <1>6 DEF CInv, Credit
<1> QED BY <1>0, <1>1, <1>2, <1>4, <1>6, <1>7, <1>8 DEF Flow, AtMostOne, TypeOK

(* Part of a queue is written: as above.                                   *)
LEMMA SomePipes ==
  ASSUME PInv, Next, NEW y \in Sock, DrainSome(y)
  PROVE  Ordered' /\ Unused' /\ Flows'
<1>0. CInv /\ TypeOK BY DEF PInv, CInv
<1>1. PICK x : x = <<Far(y[1]), rid[y]>> OBVIOUS
<1>2. wr[y] /\ UNCHANGED <<taken, rid, rd, wire>> BY DEF DrainSome
<1>3. pkts[y] # <<>> BY <1>0, <1>2 DEF CInv, Sockets
<1>4. /\ x \in Sock /\ Mates(x, y) /\ rid[y] # 0 /\ pkts[y] \in Seq(Unit)
      /\ Holds(pkts[y], x, y) /\ ~rd[x] /\ ~Data(x, y) /\ ~Ready(x, y)
  BY <1>1, <1>3, QueueHolds
<1>5. PICK k \in 1..Len(pkts[y]) - 1 :
        /\ got' = [got EXCEPT ![y] = @ \o SubSeq(pkts[y], 1, k)]
        /\ pkts' = [pkts EXCEPT ![y] = Rest(@, k)]
  BY DEF DrainSome
<1>6. Len(pkts[y]) \in Nat /\ k \in Nat /\ k <= Len(pkts[y]) BY <1>4, <1>5, LenProperties
<1>7. Len(got[y]) \in Nat
  <2>1. got[y] \in Seq(Unit) BY <1>0 DEF TypeOK
  <2> QED BY <2>1, LenProperties
<1>8. PICK q : q = SubSeq(pkts[y], 1, k) OBVIOUS
<1>9. PICK r : r = Rest(pkts[y], k) OBVIOUS
<1>10. Counts(pkts[y], Len(got[y])) /\ Len(got[y]) + Len(pkts[y]) = taken[x] BY <1>4 DEF Holds
<1>11. /\ q \in Seq(Unit) /\ Len(q) = k /\ Counts(q, Len(got[y]))
       /\ r \in Seq(Unit) /\ Len(r) = Len(pkts[y]) - k /\ Counts(r, Len(got[y]) + k)
  BY <1>4, <1>6, <1>7, <1>8, <1>9, <1>10, Parts
<1>12. got' = [got EXCEPT ![y] = @ \o q] BY <1>5, <1>8
<1>13. /\ Len(got'[y]) = Len(got[y]) + k /\ Ordered' /\ \A t \in Sock : t # y => got'[t] = got[t]
  BY <1>11, <1>12, WroteIs
<1>14. Unused' BY <1>2, <1>4, <1>13, UnusedNext
<1>15. pkts'[y] = r /\ \A t \in Sock : t # y => pkts'[t] = pkts[t]
  BY <1>0, <1>5, <1>9 DEF TypeOK
<1>16. Flow(x, y)'
  <2>1. ~rd'[x] /\ ~Ready(x, y)' /\ ~In(wire'[x[1]], "WRTE", x[2], y[2])
    BY <1>2, <1>4 DEF Ready, Data
  <2>2. Holds(pkts[y], x, y)'
    <3>1. Len(got'[y]) + Len(r) = taken'[x]
      <4>1. (Len(got[y]) + k) + (Len(pkts[y]) - k) = Len(got[y]) + Len(pkts[y])
        BY <1>6, <1>7, Again
      <4> QED BY <1>2, <1>10, <1>11, <1>13, <4>1
    <3> QED BY <1>11, <1>13, <1>15, <3>1 DEF Holds
  <2> QED BY <2>1, <2>2 DEF Flow, In
<1>17. ASSUME NEW v \in Sock, NEW w \in Sock, Mates(v, w), ~(v = x /\ w = y) PROVE Still(v, w)
  <2>1. w # y
    <3>1. Mates(y, x) BY <1>0, <1>4, MatesAre
    <3>2. Mates(w, v) BY <1>0, <1>17, MatesAre
    <3> QED BY <1>0, <1>4, <1>17, <3>1, <3>2, MatesOne
  <2>2. OldMsgs BY <1>2, SameOld
  <2> QED BY <1>2, <1>13, <1>15, <2>1, <2>2, OldStill
<1>18. Flows' BY <1>2, <1>4, <1>16, <1>17, MovedFlows
<1> QED BY <1>13, <1>14, <1>18

(* All of a queue is written, and the peer is ready again.                 *)
LEMMA AllPipes ==
  ASSUME PInv, Next, NEW y \in Sock, DrainAll(y)
  PROVE  Ordered' /\ Unused' /\ Flows'
<1>0. CInv /\ TypeOK BY DEF PInv, CInv
<1>1. PICK e \in End : e = y[1] BY SockIs
<1>2. PICK x : x = <<Far(e), rid[y]>> OBVIOUS
<1>3. PICK ms : ms = <<Msg("OKAY", y[2], rid[y], <<>>)>> OBVIOUS
<1>4. /\ pkts[y] # <<>> /\ Send(e, ms) /\ UNCHANGED <<rid, rd, link>>
      /\ \A t \in Sock : pkts'[t] = IF t = y THEN <<>> ELSE pkts[t]
  BY <1>0, <1>1, <1>3, AllIs
<1>5. /\ x \in Sock /\ Mates(x, y) /\ x[1] = Far(e) /\ x[2] = rid[y] /\ rid[y] \in Id
      /\ rid[y] # 0 /\ pkts[y] \in Seq(Unit) /\ Holds(pkts[y], x, y)
      /\ ~rd[x] /\ ~Data(x, y) /\ ~Ready(x, y)
  BY <1>1, <1>2, <1>4, QueueHolds
<1>6. y[2] \in Id /\ y = <<e, y[2]>> /\ Far(e) \in End /\ Far(e) # e BY <1>1, SockIs, EndFacts
<1>7. got' = [got EXCEPT ![y] = @ \o pkts[y]] /\ UNCHANGED taken BY DEF DrainAll
<1>8. Counts(pkts[y], Len(got[y])) /\ Len(got[y]) + Len(pkts[y]) = taken[x] BY <1>5 DEF Holds
<1>9. /\ Len(got'[y]) = taken[x] /\ Ordered' /\ \A t \in Sock : t # y => got'[t] = got[t]
  BY <1>5, <1>7, <1>8, WroteIs
<1>10. Unused' BY <1>5, <1>7, <1>9, UnusedNext
<1>11. ms \in Seq(Message) BY <1>3, <1>5, <1>6, IdTypes, OkayMsg
<1>12. Acts(e, ms) BY <1>4, <1>11 DEF Acts
<1>13. Moves(e, ms, x, y) BY <1>0, <1>2, <1>3, <1>4, <1>6, <1>12, SendOnly, OneMsg DEF Moves
<1>14. wire'[x[1]] = wire[x[1]] BY <1>0, <1>4, <1>5, SendWire
<1>15. Flow(x, y)' BY <1>4, <1>5, <1>7, <1>9, <1>14 DEF Flow, In, Data
<1>16. ASSUME NEW v \in Sock, NEW w \in Sock, Mates(v, w), ~(v = x /\ w = y) PROVE Still(v, w)
  <2>1. w # y
    <3>1. Mates(y, x) BY <1>0, <1>5, MatesAre
    <3>2. Mates(w, v) BY <1>0, <1>16, MatesAre
    <3> QED BY <1>0, <1>5, <1>16, <3>1, <3>2, MatesOne
  <2> QED BY <1>0, <1>4, <1>5, <1>7, <1>9, <1>13, <1>16, <2>1, OtherStill
<1>17. Flows' BY <1>4, <1>5, <1>15, <1>16, MovedFlows
<1> QED BY <1>9, <1>10, <1>17

(* Or the socket was closing: nobody is told.                              *)
LEMMA LastPipes ==
  ASSUME PInv, Next, NEW y \in Sock, DrainLast(y)
  PROVE  Ordered' /\ Unused' /\ Flows'
<1>0. CInv /\ TypeOK BY DEF PInv, CInv
<1>1. PICK x : x = <<Far(y[1]), rid[y]>> OBVIOUS
<1>2. wr[y] /\ UNCHANGED <<taken, wire>> /\ list[y] = "closing" BY DEF DrainLast
<1>3. pkts[y] # <<>> BY <1>0, <1>2 DEF CInv, Sockets
<1>4. /\ x \in Sock /\ Mates(x, y) /\ rid[y] # 0 /\ pkts[y] \in Seq(Unit)
      /\ Holds(pkts[y], x, y) /\ ~rd[x] /\ ~Data(x, y) /\ ~Ready(x, y)
  BY <1>1, <1>3, QueueHolds
<1>5. Closing({y}) BY <1>0, EventCloses
<1>6. pkts'[y] = <<>> BY <1>0, <1>2, <1>5, ClosingIs DEF Dies
<1>7. /\ UNCHANGED rid /\ \A t \in Sock : rd'[t] => rd[t]
      /\ \A t \in Sock : pkts'[t] # <<>> => pkts'[t] = pkts[t]
  BY <1>0, <1>5, ClosingQuiet
<1>8. got' = [got EXCEPT ![y] = @ \o pkts[y]] BY DEF DrainLast
<1>9. Counts(pkts[y], Len(got[y])) /\ Len(got[y]) + Len(pkts[y]) = taken[x] BY <1>4 DEF Holds
<1>10. Ordered' /\ \A t \in Sock : t # y => got'[t] = got[t]
  BY <1>4, <1>8, <1>9, WroteIs
<1>11. Unused' BY <1>2, <1>4, <1>10, UnusedNext
<1>12. Flow(x, y)'
  <2>1. ~rd'[x] /\ ~Ready(x, y)' /\ ~In(wire'[x[1]], "WRTE", x[2], y[2])
    BY <1>2, <1>4, <1>7 DEF Ready, Data
  <2> QED BY <1>6, <2>1 DEF Flow, In
<1>13. ASSUME NEW v \in Sock, NEW w \in Sock, Mates(v, w), ~(v = x /\ w = y) PROVE Still(v, w)
  <2>1. w # y
    <3>1. Mates(y, x) BY <1>0, <1>4, MatesAre
    <3>2. Mates(w, v) BY <1>0, <1>13, MatesAre
    <3> QED BY <1>0, <1>4, <1>13, <3>1, <3>2, MatesOne
  <2>2. OldMsgs BY <1>2, SameOld
  <2> QED BY <1>2, <1>7, <1>10, <2>1, <2>2, OldStill
<1>14. Flows' BY <1>4, <1>7, <1>12, <1>13, MovedFlows
<1> QED BY <1>10, <1>11, <1>14

(* A reader reads on from where it was: what it sends counts on.           *)
LEMMA ReadMsgIs ==
  ASSUME PInv, NEW x \in Sock, rd[x], NEW y, y = <<Far(x[1]), rid[x]>>
  PROVE  /\ y \in Sock /\ Mates(x, y) /\ y[1] = Far(x[1]) /\ y[2] = rid[x] /\ rid[x] # 0
         /\ rid[x] \in Id /\ taken[x] = Len(got[y])
         /\ ~Data(x, y) /\ pkts[y] = <<>> /\ ~Ready(x, y)
         /\ Available(x) \in Nat /\ taken[x] \in Nat /\ taken[x] + Available(x) <= MaxUnits
         /\ Available(x) <= MaxPayload
         /\ Len(ReadMsg(x).data) = Available(x) /\ Counts(ReadMsg(x).data, taken[x])
<1>0. CInv /\ TypeOK BY DEF PInv, CInv
<1>1. rid[x] \in Id BY <1>0, ReadIs
<1>2. x[1] \in End /\ x[2] \in Id /\ x = <<x[1], x[2]>> /\ Far(x[1]) \in End BY SockIs, EndFacts
<1>3. y \in Sock /\ y[1] = Far(x[1]) /\ y[2] = rid[x] /\ rid[x] # 0 BY <1>1, <1>2, SockIs
<1>4. Mates(x, y)
  <2>1. CASE x[1] = "device" BY <1>3, <2>1 DEF Mates, Far
  <2>2. CASE x[1] = "host"
    <3>1. x = Host(x[2]) /\ y = Device(rid[x]) BY <1>2, <2>2 DEF Host, Device, Far
    <3>2. rid[y] = x[2] BY <1>0, <1>2, <1>3, <3>1 DEF CInv, Pairs
    <3> QED BY <1>3, <2>2, <3>2 DEF Mates, Far
  <2> QED BY <1>2, <2>1, <2>2 DEF End
<1>5. Flow(x, y) /\ AtMostOne(x, y) BY <1>0, <1>3, <1>4 DEF PInv, Flows, CInv, Credit
<1>6. Available(x) \in Nat /\ taken[x] + Available(x) <= wrote[x] BY <1>0, ReadDataType
<1>7. taken[x] \in Nat /\ wrote[x] \in Nat /\ wrote[x] <= MaxUnits /\ MaxUnits \in Nat
  BY <1>0, StreamAssumption DEF TypeOK
<1>8. taken[x] + Available(x) <= MaxUnits BY <1>6, <1>7
<1>9. Available(x) <= MaxPayload BY <1>7, StreamAssumption DEF Available
<1>10. PICK n \in Nat : n = Available(x) BY <1>6
<1>11. PICK a \in Nat : a = taken[x] BY <1>7
<1>12. ReadMsg(x).data = [k \in 1..n |-> a + k] BY <1>10, <1>11 DEF ReadMsg, Msg
<1>13. Len([k \in 1..n |-> a + k]) = n BY <1>10, <1>11
<1>14. Counts(ReadMsg(x).data, a) BY <1>12, <1>13 DEF Counts
<1> QED
  BY <1>1, <1>3, <1>4, <1>5, <1>6, <1>7, <1>8, <1>9, <1>10, <1>11, <1>12, <1>13, <1>14
  DEF Flow, AtMostOne

LEMMA ReadPipes ==
  ASSUME PInv, Next, NEW x \in Sock, rd[x], ~rd'[x], UNCHANGED <<rid, link, got>>,
         taken' = [taken EXCEPT ![x] = @ + Available(x)],
         \A t \in Sock : rd'[t] => rd[t],
         \A t \in Sock : pkts'[t] # <<>> => pkts'[t] = pkts[t],
         NEW ms \in Seq(Message), Send(x[1], ms),
         \A k \in 1..Len(ms) : ms[k].cmd # "OKAY",
         \A k \in 1..Len(ms) : ms[k].cmd = "WRTE" => ms[k] = ReadMsg(x)
  PROVE  Ordered' /\ Unused' /\ Flows'
<1>0. CInv /\ TypeOK BY DEF PInv, CInv
<1>1. PICK e \in End : e = x[1] BY SockIs
<1>2. PICK y : y = <<Far(e), rid[x]>> OBVIOUS
<1>3. /\ y \in Sock /\ Mates(x, y) /\ y[1] = Far(e) /\ y[2] = rid[x] /\ rid[x] # 0
      /\ rid[x] \in Id /\ taken[x] = Len(got[y])
      /\ ~Data(x, y) /\ pkts[y] = <<>> /\ ~Ready(x, y)
      /\ Available(x) \in Nat /\ taken[x] \in Nat
      /\ Len(ReadMsg(x).data) = Available(x) /\ Counts(ReadMsg(x).data, taken[x])
  BY <1>1, <1>2, ReadMsgIs
<1>4. x[2] \in Id /\ x = <<e, x[2]>> /\ Far(e) \in End /\ Far(e) # e BY <1>1, SockIs, EndFacts
<1>5. taken'[x] = taken[x] + Available(x) /\ \A t \in Sock : t # x => taken'[t] = taken[t]
  BY <1>0 DEF TypeOK
<1>6. Ordered' BY DEF PInv, Ordered
<1>7. Unused' BY <1>3, <1>5, UnusedNext
<1>8. ReadMsg(x).arg0 = x[2] /\ ReadMsg(x).arg1 = rid[x] BY DEF ReadMsg, Msg
<1>9. Acts(e, ms) BY <1>1 DEF Acts
<1>10. Moves(e, ms, x, y)
  <2>1. \A a, b \in Id : ~In(ms, "OKAY", a, b) BY DEF In, Is
  <2>2. \A a, b \in Id : In(ms, "WRTE", a, b) => a = x[2] /\ b = rid[x] BY <1>8 DEF In, Is
  <2> QED BY <1>0, <1>1, <1>2, <1>4, <1>9, <2>1, <2>2, SendOnly DEF Moves
<1>11. wire'[Far(e)] = wire[Far(e)] BY <1>0, <1>1, SendWire
<1>12. ASSUME NEW k \in 1..Len(wire'[e]), Is(wire'[e][k], "WRTE", x[2], y[2])
       PROVE  Holds(wire[e][k].data, x, y)'
  <2>1. \/ \E l \in 1..Len(wire[e]) : wire'[e][k] = wire[e][l]
        \/ \E l \in 1..Len(ms) : wire'[e][k] = ms[l]
    BY <1>0, <1>9, ActsFrom
  <2>2. ~\E l \in 1..Len(wire[e]) : wire'[e][k] = wire[e][l]
    BY <1>1, <1>3, <1>12 DEF Data, In
  <2>3. wire'[e][k] = ReadMsg(x) BY <1>12, <2>1, <2>2 DEF Is
  <2>4. Len(got'[y]) + Len(ReadMsg(x).data) = taken'[x] /\ Counts(ReadMsg(x).data, Len(got'[y]))
    BY <1>3, <1>5
  <2> QED BY <2>3, <2>4 DEF Holds
<1>13. pkts'[y] = <<>> BY <1>3
<1>14. ~Ready(x, y)' BY <1>3, <1>11 DEF Ready
<1>15. Flow(x, y)' BY <1>1, <1>12, <1>13, <1>14 DEF Flow
<1>16. ASSUME NEW v \in Sock, NEW w \in Sock, Mates(v, w), ~(v = x /\ w = y) PROVE Still(v, w)
  <2>1. v # x BY <1>0, <1>3, <1>16, MatesOne
  <2> QED BY <1>0, <1>3, <1>5, <1>10, <1>16, <2>1, OtherStill
<1>17. Flows' BY <1>3, <1>15, <1>16, MovedFlows
<1> QED BY <1>6, <1>7, <1>17

LEMMA ReadSomePipes ==
  ASSUME PInv, Next, NEW x \in Sock, ReadSome(x)
  PROVE  Ordered' /\ Unused' /\ Flows'
<1>0. CInv BY DEF PInv
<1>1. PICK ms : ms = <<ReadMsg(x)>> OBVIOUS
<1>2. /\ rd[x] /\ Send(x[1], ms) /\ UNCHANGED <<rid, pkts, link>> /\ ReadData(x) = ms
  BY <1>0, <1>1, ReadSomeIs
<1>3. \A t \in Sock : rd'[t] <=> t # x /\ rd[t] BY <1>0, ReadSomeIs
<1>4. ms \in Seq(Message) BY <1>0, <1>2, ReadMsgType
<1>5. ReadMsg(x).cmd = "WRTE" BY DEF ReadMsg, Msg
<1>6. /\ \A k \in 1..Len(ms) : ms[k].cmd # "OKAY"
      /\ \A k \in 1..Len(ms) : ms[k].cmd = "WRTE" => ms[k] = ReadMsg(x)
  BY <1>1, <1>5
<1>7. taken' = [taken EXCEPT ![x] = @ + Available(x)] /\ UNCHANGED got BY DEF ReadSome
<1> QED BY <1>2, <1>3, <1>4, <1>6, <1>7, ReadPipes

LEMMA ReadEofPipes ==
  ASSUME PInv, Next, NEW x \in Sock, ReadEof(x)
  PROVE  Ordered' /\ Unused' /\ Flows'
<1>0. CInv /\ TypeOK BY DEF PInv, CInv
<1>1. PICK qs : qs = ReadData(x) OBVIOUS
<1>2. PICK cs : cs = CloseMsgs(x) OBVIOUS
<1>3. PICK ms : ms = qs \o cs OBVIOUS
<1>4. rd[x] /\ Send(x[1], ms) /\ UNCHANGED <<link, got>>
  BY <1>1, <1>2, <1>3 DEF ReadEof, linkVars
<1>5. taken' = [taken EXCEPT ![x] = @ + Available(x)] BY DEF ReadEof
<1>6. Closing({x}) BY <1>0, EventCloses
<1>7. /\ UNCHANGED rid /\ \A t \in Sock : rd'[t] => rd[t]
      /\ \A t \in Sock : pkts'[t] # <<>> => pkts'[t] = pkts[t]
  BY <1>0, <1>6, ClosingQuiet
<1>8. ~rd'[x] BY <1>0, <1>6, ClosingIs
<1>9. /\ qs \in Seq(Message) /\ cs \in Seq(Message) /\ ms \in Seq(Message)
      /\ qs = <<>> \/ qs = <<ReadMsg(x)>>
  BY <1>0, <1>1, <1>2, <1>3, <1>4, ReadMsgType
<1>10. \A k \in 1..Len(ms) : ms[k].cmd \in {"WRTE", "CLSE"}
  BY <1>0, <1>1, <1>2, <1>3, <1>4, ReadMsgType
<1>11. \A k \in 1..Len(cs) : cs[k].cmd # "WRTE" BY <1>0, <1>2, PlainMsgs DEF Plain
<1>12. ASSUME NEW k \in 1..Len(ms), ms[k].cmd = "WRTE" PROVE ms[k] = ReadMsg(x)
  <2>1. /\ Len(qs) \in Nat /\ Len(cs) \in Nat /\ Len(ms) = Len(qs) + Len(cs)
        /\ ms[k] = IF k <= Len(qs) THEN qs[k] ELSE cs[k - Len(qs)]
    BY <1>3, <1>9, ConcatProperties, LenProperties
  <2>2. k <= Len(qs)
    <3> SUFFICES ASSUME ~(k <= Len(qs)) PROVE FALSE OBVIOUS
    <3>1. k - Len(qs) \in 1..Len(cs) BY <2>1
    <3> QED BY <1>11, <1>12, <2>1, <3>1
  <2>3. qs = <<ReadMsg(x)>> /\ k = 1
    <3>1. qs # <<>> BY <2>1, <2>2
    <3>2. qs = <<ReadMsg(x)>> BY <1>9, <3>1
    <3> QED BY <2>1, <2>2, <3>2
  <2> QED BY <2>1, <2>2, <2>3
<1> QED BY <1>4, <1>5, <1>7, <1>8, <1>9, <1>10, <1>12, ReadPipes

(* OPEN: nothing of the new pair has been read or written.                 *)
LEMMA AcceptedPipes ==
  ASSUME PInv, Next, NEW e \in End, OpenAccepted(e)
  PROVE  Ordered' /\ Unused' /\ Flows'
<1>0. CInv /\ TypeOK BY DEF PInv, CInv
<1>1. PICK m : m = Head(wire[Far(e)]) OBVIOUS
<1>2. PICK n \in Id : n = nextId["device"] BY <1>0, <1>1, AcceptedIs
<1>3. PICK d : d = Device(n) OBVIOUS
<1>4. PICK h : h = Host(m.arg0) OBVIOUS
<1>5. PICK ms : ms = <<Msg("OKAY", n, m.arg0, <<>>)>> OBVIOUS
<1>6. /\ e = "device" /\ Far(e) = "host" /\ Arrives(e, "OPEN") /\ m.cmd = "OPEN"
      /\ m.arg0 \in Id /\ d \in Sock /\ rid[d] = 0 /\ UNCHANGED <<pkts, link>>
  BY <1>0, <1>1, <1>2, <1>3, AcceptedIs
<1>7. \A j \in Id : rid[Device(j)] # m.arg0 BY <1>0, <1>1, AcceptedIs
<1>8. Reply(e, ms) BY <1>0, <1>1, <1>2, <1>5, AcceptedIs
<1>9. \A t \in Sock : rid'[t] = IF t = d THEN m.arg0 ELSE rid[t]
  BY <1>0, <1>1, <1>2, <1>3, AcceptedSocks
<1>10. \A t \in Sock : rd'[t] <=> t = d \/ rd[t]
  BY <1>0, <1>1, <1>2, <1>3, AcceptedSocks
<1>11. /\ d = <<"device", n>> /\ d[1] = "device" /\ d[2] = n /\ h \in Sock
       /\ h = <<"host", m.arg0>> /\ h[1] = "host" /\ h[2] = m.arg0 /\ h # d
  BY <1>3, <1>4, <1>6, SockIs DEF Host, Device
<1>12. UNCHANGED <<taken, got>> BY DEF OpenAccepted
<1>13. Ordered' BY <1>12 DEF PInv, Ordered
<1>14. Unused' BY <1>12, UnusedNext
<1>15. ms \in Seq(Message) BY <1>5, <1>6, IdTypes, OkayMsg
<1>16. Acts(e, ms) BY <1>1, <1>6, <1>8, <1>15 DEF Acts, Greets, Arrives
<1>17. Moves(e, ms, h, d) BY <1>1, <1>5, <1>6, <1>11, <1>16, OneMsg DEF Moves, Is
<1>18. rid[h] = 0
  <2> SUFFICES ASSUME rid[h] # 0 PROVE FALSE OBVIOUS
  <2>1. rid[h] \in Id BY <1>0, <1>11 DEF TypeOK, Id
  <2>2. rid[Device(rid[h])] = m.arg0 BY <1>0, <1>4, <1>6 DEF CInv, Pairs
  <2> QED BY <1>7, <2>1, <2>2
<1>19. pkts'[h] = <<>> /\ pkts'[d] = <<>> BY <1>0, <1>6, <1>11, <1>18 DEF CInv, Sockets
<1>20. /\ taken'[h] = 0 /\ taken'[d] = 0 /\ got'[h] = <<>> /\ got'[d] = <<>>
  BY <1>6, <1>11, <1>12, <1>18 DEF PInv, Unused
<1>21. ASSUME NEW f \in End, NEW k \in 1..Len(wire'[f]), wire'[f][k].cmd = "WRTE",
              wire'[f][k].arg0 \in Id, wire'[f][k].arg1 \in Id, rid[<<f, wire'[f][k].arg0>>] = 0
       PROVE  FALSE
  <2>1. \/ \E l \in 1..Len(wire[f]) : wire'[f][k] = wire[f][l]
        \/ \E l \in 1..Len(ms) : wire'[f][k] = ms[l]
    BY <1>0, <1>16, ActsFrom
  <2>2. ~\E l \in 1..Len(ms) : wire'[f][k] = ms[l] BY <1>5, <1>21 DEF Msg
  <2>3. PICK l \in 1..Len(wire[f]) : wire'[f][k] = wire[f][l] BY <2>1, <2>2
  <2>4. Routed(f, wire[f][l]) BY <1>0 DEF CInv, Wires
  <2>5. rid[<<f, wire'[f][k].arg0>>] = wire'[f][k].arg1 BY <1>21, <2>3, <2>4 DEF Routed
  <2> QED BY <1>21, <2>5, SockIs
<1>22. ASSUME NEW x \in {h, d}, NEW y \in {h, d} PROVE Flow(x, y)'
  <2>1. x \in Sock /\ y \in Sock /\ rid[x] = 0 BY <1>6, <1>11, <1>18
  <2>2. x[1] \in End /\ x[2] \in Id /\ y[2] \in Id /\ x = <<x[1], x[2]>> BY <2>1, SockIs
  <2>3. taken'[x] = Len(got'[y]) BY <1>20
  <2>4. pkts'[y] = <<>> BY <1>19
  <2>5. \A k \in 1..Len(wire'[x[1]]) : ~Is(wire'[x[1]][k], "WRTE", x[2], y[2])
    BY <1>21, <2>1, <2>2 DEF Is
  <2> QED BY <2>3, <2>4, <2>5 DEF Flow
<1> SUFFICES ASSUME NEW v \in Sock, NEW w \in Sock, Mates(v, w)' PROVE Flow(v, w)'
  BY <1>13, <1>14 DEF Flows
<1>23. CASE v = d
  <2>1. w[1] = "host" /\ w[2] = m.arg0 BY <1>9, <1>11, <1>23 DEF Mates
  <2>2. w = h BY <1>11, <2>1, SockIs
  <2> QED BY <1>22, <1>23, <2>2
<1>24. CASE w = d
  <2>1. v[1] = "host" /\ v[2] = m.arg0 BY <1>9, <1>11, <1>24 DEF Mates
  <2>2. v = h BY <1>11, <2>1, SockIs
  <2> QED BY <1>22, <1>24, <2>2
<1>25. CASE v # d /\ w # d
  <2>1. Mates(v, w) BY <1>9, <1>25 DEF Mates
  <2>2. Flow(v, w) BY <2>1 DEF PInv, Flows
  <2>3. (rd'[v] => rd[v]) /\ pkts'[w] = pkts[w] BY <1>6, <1>10, <1>25
  <2>4. e \in End /\ h \in Sock /\ d \in Sock BY <1>6, <1>11
  <2>5. Still(v, w) BY <1>0, <1>12, <1>17, <1>25, <2>1, <2>3, <2>4, OtherStill
  <2> QED BY <2>2, <2>5, StillFlow
<1> QED BY <1>23, <1>24, <1>25

LEMMA PInvInit == ASSUME Init PROVE PInv
<1>1. CInv BY InitHolds
<1>2. Ordered BY DEF Init, Ordered, Counts
<1>3. Unused BY DEF Init, Unused
<1>4. \A x, y \in Sock : ~Mates(x, y) BY SockIs DEF Init, Mates
<1> QED BY <1>1, <1>2, <1>3, <1>4 DEF PInv, Flows

LEMMA PInvNext == ASSUME PInv, Next PROVE PInv'
<1>1. CInv' BY CInvNext DEF PInv
<1>2. CInv BY DEF PInv
<1>3. Ordered' /\ Unused' /\ Flows'
  <2>1. CASE Quiet BY <2>1, QuietPipes
  <2>2. ASSUME NEW e \in End,
               HandleOkay(e) \/ OpenAccepted(e) \/ WrteWritten(e) \/ WrteQueued(e)
        PROVE  Ordered' /\ Unused' /\ Flows'
    BY <2>2, OkayPipes, AcceptedPipes, WrittenPipes, QueuedPipes
  <2>3. ASSUME NEW s \in Sock, \/ DrainSome(s) \/ DrainAll(s) \/ DrainLast(s)
                               \/ ReadSome(s) \/ ReadEof(s)
        PROVE  Ordered' /\ Unused' /\ Flows'
    BY <2>3, SomePipes, AllPipes, LastPipes, ReadSomePipes, ReadEofPipes
  <2> QED BY <1>2, <2>1, <2>2, <2>3, QuietSteps
<1> QED BY <1>1, <1>3 DEF PInv

LEMMA PInvStutters == ASSUME PInv, UNCHANGED vars PROVE PInv'
<1>1. CInv' BY Stutters DEF PInv
<1>2. UNCHANGED <<rid, pkts, rd, wire, taken, got>> BY DEF vars, sockVars
<1>3. Ordered' /\ Unused' BY <1>2 DEF PInv, Ordered, Unused
<1>4. ASSUME NEW x \in Sock, NEW y \in Sock, Mates(x, y)' PROVE Flow(x, y)'
  <2>1. Flow(x, y) BY <1>2, <1>4 DEF PInv, Flows, Mates, vars, linkVars, sockVars
  <2> QED BY <1>2, <2>1 DEF Flow, Holds, Ready
<1> QED BY <1>1, <1>3, <1>4 DEF PInv, Flows

(* What is read is counted from the first unit on, and nothing is written  *)
(* that was not read at the other end.                                     *)
LEMMA PipeInvariant == Spec => []PInv
<1>1. PInv /\ [Next]_vars => PInv' BY PInvNext, PInvStutters
<1> QED BY PInvInit, <1>1, PTL DEF Spec

-----------------------------------------------------------------------------
(* Steps of the pipes, by what the mapping makes of a step of the sockets. *)

LEMMA PipeStateIs ==
  ASSUME NEW s \in Sock
  PROVE  /\ list[s] = "none" => PipeState(s) = "idle"
         /\ list[s] = "local" /\ ~peer[s] => PipeState(s) = "opening"
         /\ list[s] = "local" /\ peer[s] => PipeState(s) = "open"
         /\ list[s] # "none" /\ list[s] # "local" => PipeState(s) = "closed"
<1>1. list[s] = "none" => PipeState(s) = "idle" BY Zenon DEF PipeState
<1>2. "local" # "none" OBVIOUS
<1>3. list[s] = "local" => PipeState(s) = IF peer[s] THEN "open" ELSE "opening"
  BY <1>2, Zenon DEF PipeState
<1>4. list[s] # "none" /\ list[s] # "local" => PipeState(s) = "closed" BY Zenon DEF PipeState
<1> QED BY <1>1, <1>3, <1>4

LEMMA PipeStateNext ==
  ASSUME NEW s \in Sock
  PROVE  /\ list'[s] = "none" => PipeState(s)' = "idle"
         /\ list'[s] = "local" /\ ~peer'[s] => PipeState(s)' = "opening"
         /\ list'[s] = "local" /\ peer'[s] => PipeState(s)' = "open"
         /\ list'[s] # "none" /\ list'[s] # "local" => PipeState(s)' = "closed"
<1>1. list'[s] = "none" => PipeState(s)' = "idle" BY Zenon DEF PipeState
<1>2. "local" # "none" OBVIOUS
<1>3. list'[s] = "local" => PipeState(s)' = IF peer'[s] THEN "open" ELSE "opening"
  BY <1>2, Zenon DEF PipeState
<1>4. list'[s] # "none" /\ list'[s] # "local" => PipeState(s)' = "closed" BY Zenon DEF PipeState
<1> QED BY <1>1, <1>3, <1>4

LEMMA PipeStateSame ==
  ASSUME NEW s \in Sock, list'[s] = list[s], peer'[s] = peer[s]
  PROVE  PipeState(s)' = PipeState(s)
BY Zenon DEF PipeState

LEMMA Opens ==
  ASSUME NEW s \in Sock, NEW fin \in BOOLEAN, PipeState(s) = "idle",
         \A t \in Sock : PipeState(t)' = IF t = s THEN (IF fin THEN "closed" ELSE "opening")
                                                  ELSE PipeState(t),
         UNCHANGED <<rid, taken, got>>
  PROVE  Pipe!Next
<1>1. Pipe!Open(s, fin) BY DEF Pipe!Open, Pipe!Finish
<1> QED BY <1>1 DEF Pipe!Next

LEMMA Connects ==
  ASSUME NEW s \in Sock, NEW t \in Sock, PipeState(s) \in {"idle", "opening"}, rid[s] = 0,
         t[1] = Far(s[1]), PipeState(t) # "idle",
         rid' = [rid EXCEPT ![s] = t[2]],
         \A v \in Sock : PipeState(v)' = IF v = s THEN "open" ELSE PipeState(v),
         UNCHANGED <<taken, got>>
  PROVE  Pipe!Next
<1>1. Pipe!Connect(s, t) BY DEF Pipe!Connect, Pipe!Finish
<1> QED BY <1>1 DEF Pipe!Next

LEMMA ClosesOn ==
  ASSUME NEW S \in SUBSET Sock, \A s \in S : PipeState(s) # "idle",
         \A t \in Sock : PipeState(t)' = IF t \in S THEN "closed" ELSE PipeState(t),
         UNCHANGED <<rid, taken, got>>
  PROVE  Pipe!Next
<1>1. Pipe!Close(S) BY DEF Pipe!Close
<1> QED BY <1>1 DEF Pipe!Next

LEMMA Unseen ==
  ASSUME \A t \in Sock : PipeState(t)' = PipeState(t), UNCHANGED <<rid, taken, got>>
  PROVE  UNCHANGED Pipe!vars
BY DEF Pipe!vars

(* What is sent fits the window, and what is delivered was sent.           *)
LEMMA SendsOn ==
  ASSUME PInv, NEW s \in Sock, NEW n \in Nat, NEW fin \in BOOLEAN, PipeState(s) = "open",
         NEW m, m = <<Far(s[1]), rid[s]>>,
         taken[s] + n <= MaxUnits, taken[s] = Len(got[m]), n <= MaxPayload,
         taken' = [taken EXCEPT ![s] = @ + n],
         \A t \in Sock : PipeState(t)' = IF t = s /\ fin THEN "closed" ELSE PipeState(t),
         UNCHANGED <<rid, got>>
  PROVE  Pipe!Next
<1>1. taken[s] \in Nat /\ MaxPayload \in Nat /\ MaxUnits \in Nat
  BY StreamAssumption DEF PInv, CInv, TypeOK
<1>2. taken[s] + n <= Len(got[m]) + MaxPayload /\ n \in 0..MaxUnits BY <1>1
<1>3. Pipe!Mate(s) = m BY DEF Pipe!Mate
<1>4. Pipe!Finish(s, fin, "open") BY DEF Pipe!Finish
<1>5. Pipe!Send(s, n, fin) BY <1>2, <1>3, <1>4 DEF Pipe!Send
<1> QED BY <1>2, <1>5 DEF Pipe!Next

LEMMA Delivers ==
  ASSUME PInv, NEW s \in Sock, NEW q \in Seq(Unit), NEW fin \in BOOLEAN, rid[s] # 0,
         NEW m \in Sock, m = <<Far(s[1]), rid[s]>>,
         Counts(q, Len(got[s])), Len(got[s]) + Len(q) <= taken[m],
         got' = [got EXCEPT ![s] = @ \o q],
         \A t \in Sock : PipeState(t)' = IF t = s /\ fin THEN "closed" ELSE PipeState(t),
         UNCHANGED <<rid, taken>>
  PROVE  Pipe!Next
<1>1. PICK n \in Nat : n = Len(q) BY LenProperties
<1>2. q = [k \in 1..n |-> Len(got[s]) + k] BY <1>1, CountsIs
<1>3. n \in 0..MaxUnits
  <2>1. got[s] \in Seq(Unit) /\ taken[m] \in 0..MaxUnits BY DEF PInv, CInv, TypeOK
  <2>2. Len(got[s]) \in Nat BY <2>1, LenProperties
  <2> QED BY <1>1, <2>1, <2>2, StreamAssumption
<1>4. Pipe!Mate(s) = m BY DEF Pipe!Mate
<1>5. Pipe!Finish(s, fin, PipeState(s)) BY DEF Pipe!Finish
<1>6. got' = [got EXCEPT ![s] = @ \o [k \in 1..n |-> Len(@) + k]] BY <1>2
<1>7. Pipe!Deliver(s, n, fin) BY <1>1, <1>4, <1>5, <1>6 DEF Pipe!Deliver
<1> QED BY <1>3, <1>7 DEF Pipe!Next

-----------------------------------------------------------------------------
(* What each handler is to the pipes.                                      *)

Seen == Pipe!Next \/ UNCHANGED Pipe!vars

LEMMA ClosingSeen ==
  ASSUME CInv, NEW S, Closing(S), UNCHANGED <<taken, got>>
  PROVE  Seen
<1>1. S \in SUBSET Sock /\ UNCHANGED rid BY DEF Closing, CloseSockets
<1>2. ASSUME NEW s \in S PROVE PipeState(s) # "idle" /\ PipeState(s)' = "closed"
  <2>1. s \in Sock /\ list[s] \in {"local", "closing"} BY DEF Closing
  <2>2. list'[s] # "none" /\ list'[s] # "local" BY <2>1, ClosingIs DEF CInv
  <2>3. PipeState(s)' = "closed" BY <2>1, <2>2, PipeStateNext
  <2>4. PipeState(s) = "opening" \/ PipeState(s) = "open" \/ PipeState(s) = "closed"
    BY <2>1, PipeStateIs
  <2> QED BY <2>3, <2>4
<1>3. ASSUME NEW t \in Sock, t \notin S PROVE PipeState(t)' = PipeState(t)
  <2>1. list'[t] = list[t] /\ peer'[t] = peer[t] BY <1>3, ClosingIs DEF CInv
  <2> QED BY <2>1, PipeStateSame
<1>4. Pipe!Next BY <1>1, <1>2, <1>3, ClosesOn
<1> QED BY <1>4 DEF Seen

LEMMA SameSeen == ASSUME UNCHANGED <<list, peer, rid, taken, got>> PROVE Seen
<1>1. \A t \in Sock : PipeState(t)' = PipeState(t) BY PipeStateSame
<1> QED BY <1>1, Unseen DEF Seen

LEMMA ClientSeen ==
  ASSUME CInv, NEW early \in BOOLEAN, ClientOpen(early)
  PROVE  Seen
<1>1. PICK h \in Sock :
        /\ list[h] = "none" /\ ~peer[h]
        /\ \A t \in Sock : list'[t] = IF t = h THEN (IF early THEN "freed" ELSE "local")
                                               ELSE list[t]
        /\ UNCHANGED <<peer, rid>>
  BY ClientIs
<1>2. PipeState(h) = "idle" BY <1>1, PipeStateIs
<1>3. PipeState(h)' = IF early THEN "closed" ELSE "opening"
  <2>1. CASE early
    <3>1. list'[h] # "none" /\ list'[h] # "local" BY <1>1, <2>1
    <3> QED BY <2>1, <3>1, PipeStateNext
  <2>2. CASE ~early
    <3>1. list'[h] = "local" /\ ~peer'[h] BY <1>1, <2>2
    <3> QED BY <2>2, <3>1, PipeStateNext
  <2> QED BY <2>1, <2>2
<1>4. \A t \in Sock : t # h => PipeState(t)' = PipeState(t) BY <1>1, PipeStateSame
<1>5. UNCHANGED <<rid, taken, got>> BY <1>1 DEF ClientOpen
<1>6. Pipe!Next BY <1>2, <1>3, <1>4, <1>5, Opens
<1> QED BY <1>6 DEF Seen

(* OPEN connects the socket of the device: the host socket is there.       *)
LEMMA AcceptedSeen ==
  ASSUME CInv, NEW e \in End, OpenAccepted(e)
  PROVE  Seen
<1>1. PICK m : m = Head(wire[Far(e)]) OBVIOUS
<1>2. PICK d : d = Device(nextId["device"]) OBVIOUS
<1>3. PICK h : h = Host(m.arg0) OBVIOUS
<1>4. /\ e = "device" /\ Far(e) = "host" /\ m.arg0 \in Id /\ m.arg0 < nextId["host"]
      /\ nextId["device"] \in Id /\ d \in Sock /\ list[d] = "none" /\ rid[d] = 0
  BY <1>1, <1>2, AcceptedIs
<1>5. \A t \in Sock : list'[t] = IF t = d THEN "local" ELSE list[t]
  BY <1>1, <1>2, AcceptedSocks
<1>6. \A t \in Sock : peer'[t] <=> t = d \/ peer[t] BY <1>1, <1>2, AcceptedSocks
<1>7. h \in Sock /\ h[1] = "host" /\ h[2] = m.arg0 /\ d[1] = "device"
  BY <1>2, <1>3, <1>4, SockIs DEF Host, Device
<1>8. PipeState(h) # "idle"
  <2>1. nextId["host"] \in Nat /\ m.arg0 \in Nat
    <3>1. nextId["host"] \in 1..MaxId + 1 BY DEF CInv, TypeOK, End
    <3> QED BY <1>4, <3>1 DEF Id
  <2>2. ~(h[2] >= nextId[h[1]]) BY <1>4, <1>7, <2>1
  <2>3. list[h] # "none" BY <1>7, <2>2 DEF CInv, Ids
  <2>4. PipeState(h) = "opening" \/ PipeState(h) = "open" \/ PipeState(h) = "closed"
    BY <1>7, <2>3, PipeStateIs
  <2> QED BY <2>4
<1>9. PipeState(d) = "idle" BY <1>4, PipeStateIs
<1>10. PipeState(d)' = "open" BY <1>4, <1>5, <1>6, PipeStateNext
<1>11. ASSUME NEW t \in Sock, t # d PROVE PipeState(t)' = PipeState(t)
  <2>1. peer'[t] = peer[t]
    <3>1. peer' = [peer EXCEPT ![NewSocket(e)] = TRUE] BY DEF OpenAccepted
    <3>2. NewSocket(e) = d BY <1>2, <1>4 DEF NewSocket, Device
    <3> QED BY <1>11, <3>1, <3>2 DEF CInv, TypeOK
  <2> QED BY <1>5, <1>11, <2>1, PipeStateSame
<1>12. rid' = [rid EXCEPT ![d] = h[2]] /\ UNCHANGED <<taken, got>>
  BY <1>1, <1>2, <1>4, <1>7 DEF OpenAccepted, NewSocket, Device
<1>13. h[1] = Far(d[1]) BY <1>7 DEF Far
<1>14. Pipe!Next BY <1>4, <1>7, <1>8, <1>9, <1>10, <1>11, <1>12, <1>13, Connects
<1> QED BY <1>14 DEF Seen

(* OKAY connects the socket of the host, the first time.                   *)
LEMMA OkaySeen ==
  ASSUME CInv, NEW e \in End, HandleOkay(e)
  PROVE  Seen
<1>1. PICK m : m = Head(wire[Far(e)]) OBVIOUS
<1>2. PICK s : s = <<e, m.arg1>> OBVIOUS
<1>3. PICK t : t = <<Far(e), m.arg0>> OBVIOUS
<1>4. s \in Sock /\ list[s] = "local" /\ Arrives(e, "OKAY") BY <1>1, <1>2, OkayIs
<1>5. peer' = [peer EXCEPT ![s] = TRUE]
      /\ rid' = [rid EXCEPT ![s] = IF peer[s] THEN @ ELSE m.arg0]
      /\ UNCHANGED <<list, taken, got>>
  BY <1>1, <1>2 DEF HandleOkay
<1>6. /\ m.arg0 \in Id /\ m.arg1 \in Id /\ t \in Sock /\ rid[t] = m.arg1
      /\ t[1] = Far(e) /\ t[2] = m.arg0 /\ s[1] = e
  BY <1>1, <1>2, <1>3, <1>4, ArrivesFrom, SockIs
<1>7. peer \in [Sock -> BOOLEAN] /\ rid \in [Sock -> 0..MaxId] BY DEF CInv, TypeOK
<1>8. ASSUME NEW v \in Sock, v # s PROVE PipeState(v)' = PipeState(v)
  <2>1. list'[v] = list[v] /\ peer'[v] = peer[v] BY <1>5, <1>7, <1>8
  <2> QED BY <2>1, PipeStateSame
<1>9. CASE peer[s]
  <2>1. peer' = peer /\ rid' = rid BY <1>4, <1>5, <1>7, <1>9
  <2> QED BY <1>5, <2>1, SameSeen
<1>10. CASE ~peer[s]
  <2>1. PipeState(s) = "opening" /\ rid[s] = 0
    BY <1>4, <1>10, PipeStateIs DEF CInv, Sockets
  <2>2. list'[s] = "local" /\ peer'[s] BY <1>4, <1>5, <1>7
  <2>3. PipeState(s)' = "open" BY <1>4, <2>2, PipeStateNext
  <2>4. PipeState(t) # "idle"
    <3>1. rid[t] # 0 BY <1>6, SockIs
    <3>2. list[t] # "none" BY <1>6, <3>1 DEF CInv, Ids
    <3>3. PipeState(t) = "opening" \/ PipeState(t) = "open" \/ PipeState(t) = "closed"
      BY <1>6, <3>2, PipeStateIs
    <3> QED BY <3>3
  <2>5. rid' = [rid EXCEPT ![s] = t[2]] BY <1>5, <1>6, <1>10
  <2>6. Pipe!Next BY <1>4, <1>5, <1>6, <1>8, <2>1, <2>3, <2>4, <2>5, Connects
  <2> QED BY <2>6 DEF Seen
<1> QED BY <1>9, <1>10

(* Data: what is written to a descriptor is a part of what was read.       *)
LEMMA WrittenSeen ==
  ASSUME PInv, NEW e \in End, WrteWritten(e)
  PROVE  Seen
<1>0. CInv BY DEF PInv
<1>1. PICK m : m = Head(wire[Far(e)]) OBVIOUS
<1>2. PICK y : y = <<e, m.arg1>> OBVIOUS
<1>3. PICK x : x = <<Far(e), m.arg0>> OBVIOUS
<1>4. /\ Arrives(e, "WRTE") /\ Found(e, m.arg1) /\ rid[y] = m.arg0 /\ UNCHANGED sockVars
  BY <1>0, <1>1, <1>2, WrittenIs
<1>5. /\ x \in Sock /\ y \in Sock /\ y[1] = e /\ rid[y] # 0
      /\ m.data \in Seq(Unit) /\ Holds(m.data, x, y)
  BY <1>1, <1>2, <1>3, <1>4, DataHolds
<1>6. got' = [got EXCEPT ![y] = @ \o m.data] /\ UNCHANGED taken
  BY <1>1, <1>2 DEF WrteWritten
<1>7. Counts(m.data, Len(got[y])) /\ Len(got[y]) + Len(m.data) = taken[x] BY <1>5 DEF Holds
<1>8. taken[x] \in Nat BY <1>0, <1>5 DEF CInv, TypeOK
<1>9. Len(got[y]) + Len(m.data) <= taken[x]
  <2>1. taken[x] <= taken[x] BY <1>8
  <2> QED BY <1>7, <2>1
<1>10. UNCHANGED <<list, peer, rid>> BY <1>4 DEF sockVars
<1>11. \A t \in Sock : PipeState(t)' = PipeState(t) BY <1>10, PipeStateSame
<1>12. x = <<Far(y[1]), rid[y]>> BY <1>3, <1>4, <1>5
<1>13. \A t \in Sock : PipeState(t)' = IF t = y /\ FALSE THEN "closed" ELSE PipeState(t)
  BY <1>11
<1>14. Pipe!Next BY <1>5, <1>6, <1>7, <1>9, <1>10, <1>12, <1>13, Delivers
<1> QED BY <1>14 DEF Seen

LEMMA QueuedSeen ==
  ASSUME PInv, NEW e \in End, WrteQueued(e)
  PROVE  Seen
<1>0. CInv BY DEF PInv
<1>1. PICK m : m = Head(wire[Far(e)]) OBVIOUS
<1>2. PICK y : y = <<e, m.arg1>> OBVIOUS
<1>3. PICK x : x = <<Far(e), m.arg0>> OBVIOUS
<1>4. /\ Arrives(e, "WRTE") /\ Found(e, m.arg1) /\ rid[y] = m.arg0
      /\ UNCHANGED <<list, peer, rid>>
  BY <1>0, <1>1, <1>2, QueuedIs
<1>5. /\ x \in Sock /\ y \in Sock /\ y[1] = e /\ rid[y] # 0
      /\ m.data \in Seq(Unit) /\ Holds(m.data, x, y)
  BY <1>1, <1>2, <1>3, <1>4, DataHolds
<1>6. PICK k \in 0..Len(m.data) - 1 : got' = [got EXCEPT ![y] = @ \o SubSeq(m.data, 1, k)]
  BY <1>1, <1>2 DEF WrteQueued
<1>7. Len(m.data) \in Nat /\ k \in Nat /\ k <= Len(m.data) BY <1>5, <1>6, LenProperties
<1>8. Len(got[y]) \in Nat
  <2>1. got[y] \in Seq(Unit) BY <1>0, <1>5 DEF CInv, TypeOK
  <2> QED BY <2>1, LenProperties
<1>9. PICK q : q = SubSeq(m.data, 1, k) OBVIOUS
<1>10. Counts(m.data, Len(got[y])) /\ Len(got[y]) + Len(m.data) = taken[x] BY <1>5 DEF Holds
<1>11. q \in Seq(Unit) /\ Len(q) = k /\ Counts(q, Len(got[y]))
  BY <1>5, <1>7, <1>8, <1>9, <1>10, Parts
<1>12. Len(got[y]) + Len(q) <= taken[x]
  <2>1. Len(got[y]) + k <= Len(got[y]) + Len(m.data) BY <1>7, <1>8
  <2> QED BY <1>10, <1>11, <2>1
<1>13. got' = [got EXCEPT ![y] = @ \o q] /\ UNCHANGED taken BY <1>6, <1>9 DEF WrteQueued
<1>14. \A t \in Sock : PipeState(t)' = PipeState(t) BY <1>4, PipeStateSame
<1>15. x = <<Far(y[1]), rid[y]>> BY <1>3, <1>4, <1>5
<1>16. \A t \in Sock : PipeState(t)' = IF t = y /\ FALSE THEN "closed" ELSE PipeState(t)
  BY <1>14
<1>17. Pipe!Next BY <1>4, <1>5, <1>11, <1>12, <1>13, <1>15, <1>16, Delivers
<1> QED BY <1>17 DEF Seen

LEMMA SomeSeen ==
  ASSUME PInv, NEW y \in Sock, DrainSome(y)
  PROVE  Seen
<1>0. CInv BY DEF PInv
<1>1. PICK x : x = <<Far(y[1]), rid[y]>> OBVIOUS
<1>2. wr[y] /\ UNCHANGED <<list, peer, rid, taken>> BY DEF DrainSome
<1>3. pkts[y] # <<>> BY <1>0, <1>2 DEF CInv, Sockets
<1>4. x \in Sock /\ rid[y] # 0 /\ pkts[y] \in Seq(Unit) /\ Holds(pkts[y], x, y)
  BY <1>1, <1>3, QueueHolds
<1>5. PICK k \in 1..Len(pkts[y]) - 1 : got' = [got EXCEPT ![y] = @ \o SubSeq(pkts[y], 1, k)]
  BY DEF DrainSome
<1>6. Len(pkts[y]) \in Nat /\ k \in Nat /\ k <= Len(pkts[y]) BY <1>4, <1>5, LenProperties
<1>7. Len(got[y]) \in Nat
  <2>1. got[y] \in Seq(Unit) BY <1>0 DEF CInv, TypeOK
  <2> QED BY <2>1, LenProperties
<1>8. PICK q : q = SubSeq(pkts[y], 1, k) OBVIOUS
<1>9. Counts(pkts[y], Len(got[y])) /\ Len(got[y]) + Len(pkts[y]) = taken[x] BY <1>4 DEF Holds
<1>10. q \in Seq(Unit) /\ Len(q) = k /\ Counts(q, Len(got[y]))
  BY <1>4, <1>6, <1>7, <1>8, <1>9, Parts
<1>11. Len(got[y]) + Len(q) <= taken[x]
  <2>1. Len(got[y]) + k <= Len(got[y]) + Len(pkts[y]) BY <1>6, <1>7
  <2> QED BY <1>9, <1>10, <2>1
<1>12. got' = [got EXCEPT ![y] = @ \o q] BY <1>5, <1>8
<1>13. \A t \in Sock : PipeState(t)' = PipeState(t) BY <1>2, PipeStateSame
<1>14. \A t \in Sock : PipeState(t)' = IF t = y /\ FALSE THEN "closed" ELSE PipeState(t)
  BY <1>13
<1>15. Pipe!Next BY <1>1, <1>2, <1>4, <1>10, <1>11, <1>12, <1>14, Delivers
<1> QED BY <1>15 DEF Seen

LEMMA AllSeen ==
  ASSUME PInv, NEW y \in Sock, wr[y], got' = [got EXCEPT ![y] = @ \o pkts[y]],
         \A t \in Sock : PipeState(t)' = PipeState(t), UNCHANGED <<rid, taken>>
  PROVE  Seen
<1>0. CInv BY DEF PInv
<1>1. PICK x : x = <<Far(y[1]), rid[y]>> OBVIOUS
<1>2. pkts[y] # <<>> BY <1>0 DEF CInv, Sockets
<1>3. x \in Sock /\ rid[y] # 0 /\ pkts[y] \in Seq(Unit) /\ Holds(pkts[y], x, y)
  BY <1>1, <1>2, QueueHolds
<1>4. Counts(pkts[y], Len(got[y])) /\ Len(got[y]) + Len(pkts[y]) = taken[x] BY <1>3 DEF Holds
<1>5. taken[x] \in Nat BY <1>0, <1>3 DEF CInv, TypeOK
<1>6. Len(got[y]) + Len(pkts[y]) <= taken[x]
  <2>1. taken[x] <= taken[x] BY <1>5
  <2> QED BY <1>4, <2>1
<1>7. \A t \in Sock : PipeState(t)' = IF t = y /\ FALSE THEN "closed" ELSE PipeState(t)
  OBVIOUS
<1>8. Pipe!Next BY <1>1, <1>3, <1>4, <1>6, <1>7, Delivers
<1> QED BY <1>8 DEF Seen

LEMMA DrainedSeen == ASSUME PInv, NEW y \in Sock, DrainAll(y) PROVE Seen
<1>1. /\ wr[y] /\ got' = [got EXCEPT ![y] = @ \o pkts[y]]
      /\ UNCHANGED <<list, peer, rid, taken>>
  BY DEF DrainAll
<1>2. \A t \in Sock : PipeState(t)' = PipeState(t) BY <1>1, PipeStateSame
<1> QED BY <1>1, <1>2, AllSeen

(* A closing socket is closed to its users before it is destroyed.         *)
LEMMA LastSeen == ASSUME PInv, NEW y \in Sock, DrainLast(y) PROVE Seen
<1>0. CInv BY DEF PInv
<1>1. /\ wr[y] /\ got' = [got EXCEPT ![y] = @ \o pkts[y]] /\ list[y] = "closing"
      /\ UNCHANGED taken
  BY DEF DrainLast
<1>2. Closing({y}) /\ UNCHANGED rid BY <1>0, EventCloses DEF Closing, CloseSockets
<1>3. ASSUME NEW t \in Sock PROVE PipeState(t)' = PipeState(t)
  <2>1. CASE t # y
    <3>1. list'[t] = list[t] /\ peer'[t] = peer[t] BY <1>0, <1>2, <2>1, ClosingIs DEF CInv
    <3> QED BY <3>1, PipeStateSame
  <2>2. CASE t = y
    <3>1. list'[y] # "none" /\ list'[y] # "local" BY <1>0, <1>2, ClosingIs DEF CInv
    <3>2. PipeState(y)' = "closed" BY <3>1, PipeStateNext
    <3>3. PipeState(y) = "closed" BY <1>1, PipeStateIs
    <3> QED BY <2>2, <3>2, <3>3
  <2> QED BY <2>1, <2>2
<1> QED BY <1>1, <1>2, <1>3, AllSeen

(* What is read is read while nothing of it is on its way.                 *)
LEMMA ReadSomeSeen == ASSUME PInv, NEW x \in Sock, ReadSome(x) PROVE Seen
<1>0. CInv BY DEF PInv
<1>1. PICK y : y = <<Far(x[1]), rid[x]>> OBVIOUS
<1>2. /\ rd[x] /\ taken' = [taken EXCEPT ![x] = @ + Available(x)]
      /\ UNCHANGED <<list, peer, rid, got>>
  BY DEF ReadSome
<1>3. /\ taken[x] = Len(got[y]) /\ Available(x) \in Nat
      /\ taken[x] + Available(x) <= MaxUnits /\ Available(x) <= MaxPayload
  BY <1>1, <1>2, ReadMsgIs
<1>4. PipeState(x) = "open" BY <1>0, <1>2, PipeStateIs DEF CInv, Sockets
<1>5. \A t \in Sock : PipeState(t)' = PipeState(t) BY <1>2, PipeStateSame
<1>6. \A t \in Sock : PipeState(t)' = IF t = x /\ FALSE THEN "closed" ELSE PipeState(t)
  BY <1>5
<1>7. Pipe!Next BY <1>1, <1>2, <1>3, <1>4, <1>6, SendsOn
<1> QED BY <1>7 DEF Seen

LEMMA ReadEofSeen == ASSUME PInv, NEW x \in Sock, ReadEof(x) PROVE Seen
<1>0. CInv BY DEF PInv
<1>1. PICK y : y = <<Far(x[1]), rid[x]>> OBVIOUS
<1>2. rd[x] /\ taken' = [taken EXCEPT ![x] = @ + Available(x)] /\ UNCHANGED got
  BY DEF ReadEof
<1>3. /\ taken[x] = Len(got[y]) /\ Available(x) \in Nat
      /\ taken[x] + Available(x) <= MaxUnits /\ Available(x) <= MaxPayload
  BY <1>1, <1>2, ReadMsgIs
<1>4. PipeState(x) = "open" BY <1>0, <1>2, PipeStateIs DEF CInv, Sockets
<1>5. Closing({x}) /\ UNCHANGED rid BY <1>0, EventCloses DEF Closing, CloseSockets
<1>6. ASSUME NEW t \in Sock
      PROVE  PipeState(t)' = IF t = x /\ TRUE THEN "closed" ELSE PipeState(t)
  <2>1. CASE t # x
    <3>1. list'[t] = list[t] /\ peer'[t] = peer[t] BY <1>0, <1>5, <2>1, ClosingIs DEF CInv
    <3> QED BY <2>1, <3>1, PipeStateSame
  <2>2. CASE t = x
    <3>1. list'[x] # "none" /\ list'[x] # "local" BY <1>0, <1>5, ClosingIs DEF CInv
    <3>2. PipeState(x)' = "closed" BY <3>1, PipeStateNext
    <3> QED BY <2>2, <3>2
  <2> QED BY <2>1, <2>2
<1>7. Pipe!Next BY <1>1, <1>2, <1>3, <1>4, <1>5, <1>6, SendsOn
<1> QED BY <1>7 DEF Seen

LEMMA NextSeen == ASSUME PInv, Next PROVE Seen
<1>0. CInv BY DEF PInv
<1>1. ASSUME NEW e \in End,
             \/ HandleSync(e) \/ HandleCnxn(e) \/ CloseAllSockets(e)
             \/ HandleClse(e) \/ WrteFailed(e)
      PROVE  Seen
  <2>1. UNCHANGED <<taken, got>>
    BY <1>1 DEF HandleSync, HandleCnxn, CloseAllSockets, HandleClse, WrteFailed
  <2>2. \E S : Closing(S) BY <1>0, <1>1, SyncCloses, CnxnCloses, SweepCloses, FoundCloses
  <2> QED BY <1>0, <2>1, <2>2, ClosingSeen
<1>2. ASSUME NEW s \in Sock, DrainFailed(s) PROVE Seen
  <2>1. Closing({s}) BY <1>0, <1>2, EventCloses
  <2>2. UNCHANGED <<taken, got>> BY <1>2 DEF DrainFailed
  <2> QED BY <1>0, <2>1, <2>2, ClosingSeen
<1>3. ASSUME UNCHANGED sockVars, UNCHANGED <<taken, got>> PROVE Seen
  BY <1>3, SameSeen DEF sockVars
<1>4. ASSUME NEW e \in End, OpenRefused(e) \/ Ignore(e) PROVE Seen
  BY <1>3, <1>4 DEF OpenRefused, Ignore
<1>5. ASSUME LinkUp \/ LinkLost PROVE Seen BY <1>3, <1>5 DEF LinkUp, LinkLost
<1>6. ASSUME NEW s \in Sock, ClientWrite(s) \/ \E how \in {"eof", "gone"} : ClientShut(s, how)
      PROVE  Seen
  BY <1>3, <1>6 DEF ClientWrite, ClientShut
<1>7. ASSUME NEW e \in End, Handle(e) PROVE Seen
  BY <1>0, <1>1, <1>4, <1>7, AcceptedSeen, OkaySeen, WrittenSeen, QueuedSeen DEF Handle
<1>8. ASSUME NEW s \in Sock, Event(s) PROVE Seen
  BY <1>2, <1>8, SomeSeen, DrainedSeen, LastSeen, ReadSomeSeen, ReadEofSeen DEF Event
<1>9. ASSUME NEW early \in BOOLEAN, ClientOpen(early) PROVE Seen BY <1>0, <1>9, ClientSeen
<1> QED BY <1>1, <1>5, <1>6, <1>7, <1>8, <1>9 DEF Next

(* The multiplexer implements its abstract specification (property         *)
(* PipeSpec of AdbStream): whatever becomes of messages, credits, sockets  *)
(* and transports, each direction of a stream is an ordered pipe without   *)
(* gaps that holds at most MAX_PAYLOAD units, a socket is connected once,  *)
(* to a socket of the other end, and one that was closed sends nothing.    *)
THEOREM PipesImplemented == Spec => PipeSpec
<1>1. ASSUME Init PROVE Pipe!Init
  <2>1. \A s \in Sock : PipeState(s) = "idle" BY <1>1, PipeStateIs DEF Init
  <2> QED BY <1>1, <2>1 DEF Init, Pipe!Init
<1>2. ASSUME PInv, [Next]_vars PROVE [Pipe!Next]_Pipe!vars
  <2>1. CASE Next BY <1>2, <2>1, NextSeen DEF Seen
  <2>2. CASE UNCHANGED vars
    <3>1. UNCHANGED <<list, peer, rid, taken, got>> BY <2>2 DEF vars, sockVars
    <3> QED BY <3>1, SameSeen DEF Seen
  <2> QED BY <1>2, <2>1, <2>2
<1> QED BY PipeInvariant, <1>1, <1>2, PTL DEF Spec, PipeSpec, Pipe!Spec

-----------------------------------------------------------------------------
(* The ends of a stream. A socket that is open has a mate that is open, or *)
(* is told of its end, unless it was the client's request that failed.     *)

Ending(e, i) == In(wire[e], "CLSE", 0, i)
Hello(e) == In(wire[e], "CNXN", 0, 0)

(* A client that has no stream yet waits for its answer.                   *)
Waiting == \A s \in Sock : list[s] = "local" /\ ~peer[s] => notify[s]

(* CNXN comes once and before anything is open: it closes nothing.         *)
Greeting ==
  /\ \A e \in End :
       /\ Once(wire[e], "CNXN", 0, 0)
       /\ \A k \in 1..Len(wire[e]) :
            wire[e][k].cmd = "CNXN" => Is(wire[e][k], "CNXN", 0, 0)
  /\ Hello("host") => ~online["host"] /\ ~online["device"] /\ ~Hello("device")
  /\ Hello("device") => ~online["host"]

(* A host socket that the device tells to close has no service there, nor  *)
(* will it have one.                                                       *)
Gone(i) ==
  /\ i < nextId["host"] /\ ~In(wire["host"], "OPEN", i, 0)
  /\ \A j \in Id : rid[Device(j)] = i => list[Device(j)] # "local"
Ended == \A i \in Id : Ending("device", i) => Gone(i)

(* An OPEN is of a client that still waits, or that was failed.            *)
Asked ==
  link = "up" =>
    \A i \in Id : In(wire["host"], "OPEN", i, 0) =>
      list[Host(i)] = "local" \/ told[Host(i)] = "fail"

Orphans ==
  link = "up" =>
    \A x, y \in Sock : Mates(x, y) /\ list[x] = "local" =>
      list[y] = "local" \/ told[y] = "fail" \/ Ending(y[1], x[2])

OInv == CInv /\ Waiting /\ Greeting /\ Ended /\ Asked /\ Orphans

LEMMA OInvInit == ASSUME Init PROVE OInv
<1>1. CInv BY InitHolds
<1>2. \A e \in End : wire[e] = <<>> BY DEF Init
<1>3. wire["host"] = <<>> /\ wire["device"] = <<>> BY <1>2 DEF End
<1>4. \A cmd, a, b : ~In(<<>>, cmd, a, b) /\ Once(<<>>, cmd, a, b) BY NoneIn
<1>5. Waiting BY DEF Init, Waiting
<1>6. Greeting BY <1>2, <1>3, <1>4 DEF Greeting, Hello
<1>7. Ended /\ Asked BY <1>3, <1>4 DEF Ended, Ending, Asked
<1>8. Orphans BY DEF Init, Orphans
<1> QED BY <1>1, <1>5, <1>6, <1>7, <1>8 DEF OInv

LEMMA OInvStutters == ASSUME OInv, UNCHANGED vars PROVE OInv'
<1>1. CInv' BY Stutters DEF OInv
<1>2. UNCHANGED <<online, nextId, list, peer, rid, notify, wire, link, told>>
  BY DEF vars, sockVars, linkVars
<1>3. Waiting' /\ Greeting' BY <1>2 DEF OInv, Waiting, Greeting, Hello
<1>4. Ended' /\ Asked' BY <1>2 DEF OInv, Ended, Ending, Gone, Asked
<1>5. Orphans' BY <1>2 DEF OInv, Orphans, Mates, Ending
<1> QED BY <1>1, <1>3, <1>4, <1>5 DEF OInv

LEMMA WaitingNext == ASSUME OInv, Next PROVE Waiting'
<1>0. CInv /\ TypeOK /\ \A s \in Sock : list[s] = "local" /\ ~peer[s] => notify[s]
  BY DEF OInv, CInv, Waiting
<1>1. CASE UNCHANGED sockVars BY <1>0, <1>1 DEF sockVars, Waiting
<1>2. ASSUME NEW S, Closing(S) PROVE Waiting'
  <2> SUFFICES ASSUME NEW s \in Sock, list'[s] = "local", ~peer'[s] PROVE notify'[s]
    BY DEF Waiting
  <2>1. s \notin S
    <3> SUFFICES ASSUME s \in S PROVE FALSE OBVIOUS
    <3>1. list'[s] # "local" BY <1>0, <1>2, ClosingIs
    <3> QED BY <3>1
  <2>2. UNCHANGED <<list[s], peer[s], notify[s]>> BY <1>0, <1>2, <2>1, ClosingIs
  <2> QED BY <1>0, <2>2
<1>3. ASSUME NEW e \in End, HandleOkay(e) PROVE Waiting'
  <2>1. PICK s : s = <<e, Head(wire[Far(e)]).arg1>> OBVIOUS
  <2>2. s \in Sock /\ UNCHANGED list /\ \A t \in Sock : peer'[t] <=> t = s \/ peer[t]
    BY <1>0, <1>3, <2>1, OkayIs
  <2>3. \A t \in Sock : t # s => notify'[t] = notify[t]
    BY <1>0, <1>3, <2>1 DEF HandleOkay, TypeOK
  <2> QED BY <1>0, <2>2, <2>3 DEF Waiting
<1>4. ASSUME NEW e \in End, OpenAccepted(e) PROVE Waiting'
  <2>1. PICK d : d = Device(nextId["device"]) OBVIOUS
  <2>2. \A t \in Sock : list'[t] = IF t = d THEN "local" ELSE list[t]
    BY <1>0, <1>4, <2>1, AcceptedSocks
  <2>3. \A t \in Sock : peer'[t] <=> t = d \/ peer[t] BY <1>0, <1>4, <2>1, AcceptedSocks
  <2>4. UNCHANGED notify BY <1>4 DEF OpenAccepted
  <2> QED BY <1>0, <2>2, <2>3, <2>4 DEF Waiting
<1>5. ASSUME NEW early \in BOOLEAN, ClientOpen(early) PROVE Waiting'
  <2>1. PICK h : h = Host(nextId["host"]) OBVIOUS
  <2>2. /\ h \in Sock /\ UNCHANGED peer
        /\ \A t \in Sock : list'[t] = IF t = h THEN (IF early THEN "freed" ELSE "local")
                                               ELSE list[t]
    BY <1>0, <1>5, <2>1, ClientIs
  <2>3. notify' = [notify EXCEPT ![h] = ~early]
    BY <1>5, <2>1 DEF ClientOpen, NewSocket, Host
  <2>4. \A t \in Sock : notify'[t] = IF t = h THEN ~early ELSE notify[t]
    BY <1>0, <2>2, <2>3 DEF TypeOK
  <2> QED BY <1>0, <2>2, <2>4 DEF Waiting
<1>6. ASSUME NEW e \in End, WrteQueued(e) PROVE Waiting'
  BY <1>0, <1>6 DEF WrteQueued, Waiting
<1>7. ASSUME NEW s \in Sock, DrainSome(s) \/ DrainAll(s) \/ ReadSome(s) PROVE Waiting'
  BY <1>0, <1>7 DEF DrainSome, DrainAll, ReadSome, Waiting
<1> QED BY <1>0, <1>1, <1>2, <1>3, <1>4, <1>5, <1>6, <1>7, Steps

-----------------------------------------------------------------------------
(* Which steps greet: only CNXN brings an end online.                      *)

Silent(e, ms) ==
  /\ Acts(e, ms) /\ \A k \in 1..Len(ms) : ms[k].cmd # "CNXN"
  /\ \A f \in End : online'[f] => online[f]

LEMMA SilentGreeting ==
  ASSUME OInv, NEW e \in End, NEW ms, Silent(e, ms)
  PROVE  Greeting'
<1>0. TypeOK /\ Greeting BY DEF OInv, CInv
<1>1. ~In(ms, "CNXN", 0, 0) /\ Once(ms, "CNXN", 0, 0) BY DEF Silent, In, Once, Is
<1>2. ASSUME NEW f \in End
      PROVE  (Hello(f)' => Hello(f)) /\ Once(wire'[f], "CNXN", 0, 0)
  <2>1. Once(wire[f], "CNXN", 0, 0) BY <1>0 DEF Greeting
  <2> QED BY <1>0, <1>1, <2>1, ActsIn DEF Silent, Hello
<1>3. ASSUME NEW f \in End, NEW k \in 1..Len(wire'[f]), wire'[f][k].cmd = "CNXN"
      PROVE  Is(wire'[f][k], "CNXN", 0, 0)
  <2>1. \/ \E l \in 1..Len(wire[f]) : wire'[f][k] = wire[f][l]
        \/ \E l \in 1..Len(ms) : wire'[f][k] = ms[l]
    BY <1>0, ActsFrom DEF Silent
  <2>2. PICK l \in 1..Len(wire[f]) : wire'[f][k] = wire[f][l] BY <1>3, <2>1 DEF Silent
  <2> QED BY <1>0, <1>3, <2>2 DEF Greeting
<1>4. "host" \in End /\ "device" \in End BY DEF End
<1>5. \A f \in End : online'[f] => online[f] BY DEF Silent
<1> QED BY <1>0, <1>2, <1>3, <1>4, <1>5 DEF Greeting

LEMMA PlainSilent ==
  ASSUME NEW e \in End, NEW ms \in Seq(Message), UNCHANGED link,
         \A k \in 1..Len(ms) : ms[k].cmd # "CNXN",
         Send(e, ms) \/ (Reply(e, ms) /\ wire[Far(e)] # <<>> /\ ~Arrives(e, "OKAY")),
         \A f \in End : online'[f] => online[f]
  PROVE  Silent(e, ms)
BY DEF Silent, Acts, Greets

LEMMA OkayActs == ASSUME CInv, NEW e \in End, HandleOkay(e) \/ Ignore(e) PROVE Acts(e, <<>>)
<1>1. <<>> \in Seq(Message) BY NoMsgs
<1>2. Reply(e, <<>>) /\ wire[Far(e)] # <<>> /\ UNCHANGED link
  BY DEF HandleOkay, Ignore, Arrives, linkVars
<1>3. Greets(e)
  <2>1. CASE HandleOkay(e)
    <3>1. PICK s : s = <<e, Head(wire[Far(e)]).arg1>> OBVIOUS
    <3>2. s \in Sock /\ \A t \in Sock : peer'[t] <=> t = s \/ peer[t]
      BY <2>1, <3>1, OkayIs
    <3> QED BY <3>1, <3>2 DEF Greets
  <2>2. CASE Ignore(e) BY <2>2, IgnoredClosed DEF Greets, Ignore, sockVars
  <2> QED BY <2>1, <2>2
<1> QED BY <1>1, <1>2, <1>3 DEF Acts

LEMMA SilentSteps ==
  ASSUME CInv, Next
  PROVE  \/ LinkUp \/ LinkLost
         \/ \E e \in End : HandleCnxn(e)
         \/ \E e \in End, ms \in Seq(Message) : Silent(e, ms)
<1>0. TypeOK BY DEF CInv
<1> DEFINE Done == \E e \in End, ms \in Seq(Message) : Silent(e, ms)
<1> USE DEF linkVars
<1>1. <<>> \in Seq(Message) /\ "host" \in End BY NoMsgs DEF End
<1>2. UNCHANGED <<wire, link, online>> => Done
  <2>1. UNCHANGED <<wire, link, online>> => Silent("host", <<>>) BY <1>1 DEF Silent, Acts
  <2> QED BY <1>1, <2>1
<1>3. ASSUME NEW e \in End, HandleSync(e) \/ WrteQueued(e) PROVE Done
  <2>1. /\ Reply(e, <<>>) /\ wire[Far(e)] # <<>> /\ UNCHANGED link /\ ~Arrives(e, "OKAY")
    BY <1>3 DEF HandleSync, WrteQueued, Arrives
  <2>2. \A f \in End : online'[f] => online[f]
    BY <1>0, <1>3 DEF HandleSync, WrteQueued, TypeOK
  <2>3. \A k \in 1..Len(<<>>) : <<>>[k].cmd # "CNXN" OBVIOUS
  <2>4. Silent(e, <<>>) BY <1>1, <2>1, <2>2, <2>3, PlainSilent
  <2> QED BY <1>1, <2>4
<1>4. ASSUME NEW e \in End, HandleOkay(e) \/ Ignore(e) PROVE Done
  <2>1. UNCHANGED online BY <1>4 DEF HandleOkay, Ignore
  <2>2. Silent(e, <<>>) BY <1>4, <2>1, OkayActs DEF Silent
  <2> QED BY <1>1, <2>2
<1>5. ASSUME NEW e \in End, OpenRefused(e) PROVE Done
  <2>1. PICK ms : ms = SendClose(Head(wire[Far(e)]).arg0) OBVIOUS
  <2>2. Head(wire[Far(e)]).arg0 \in 0..MaxId BY <1>0, <1>5, ArrivesType DEF OpenRefused, Arrives
  <2>3. ms \in Seq(Message) BY <2>1, <2>2, PlainMsgs DEF Plain
  <2>4. \A k \in 1..Len(ms) : ms[k].cmd # "CNXN" BY <2>1 DEF SendClose, Msg
  <2>5. Reply(e, ms) /\ wire[Far(e)] # <<>> /\ ~Arrives(e, "OKAY") /\ UNCHANGED <<link, online>>
    BY <1>5, <2>1 DEF OpenRefused, Arrives
  <2>6. Silent(e, ms) BY <2>3, <2>4, <2>5, PlainSilent
  <2> QED BY <2>3, <2>6
<1>6. ASSUME NEW s \in Sock PROVE \A k \in 1..Len(CloseMsgs(s)) : CloseMsgs(s)[k].cmd # "CNXN"
  BY DEF CloseMsgs, Msg
<1>7. ASSUME NEW e \in End, HandleClse(e) \/ WrteFailed(e) PROVE Done
  <2>1. PICK ms : ms = CloseMsgs(FoundSock(e)) OBVIOUS
  <2>2. ms \in Seq(Message) BY <1>7, <2>1, FoundCloses, PlainMsgs DEF Plain
  <2>3. \A k \in 1..Len(ms) : ms[k].cmd # "CNXN" BY <1>6, <1>7, <2>1, FoundCloses
  <2>4. Reply(e, ms) /\ wire[Far(e)] # <<>> /\ ~Arrives(e, "OKAY") /\ UNCHANGED <<link, online>>
    BY <1>7, <2>1 DEF HandleClse, WrteFailed, FoundSock, Arrives
  <2>5. Silent(e, ms) BY <2>2, <2>3, <2>4, PlainSilent
  <2> QED BY <2>2, <2>5
<1>8. ASSUME NEW e \in End, NEW a \in Id, NEW b \in Id, UNCHANGED <<link, online>>,
             NEW ms, ms = <<Msg("OKAY", a, b, <<>>)>>,
             \/ Send(e, ms)
             \/ Reply(e, ms) /\ wire[Far(e)] # <<>> /\ ~Arrives(e, "OKAY")
      PROVE  Done
  <2>1. ms \in Seq(Message) BY <1>8, IdTypes, OkayMsg
  <2>2. \A k \in 1..Len(ms) : ms[k].cmd # "CNXN" BY <1>8 DEF Msg
  <2>3. Silent(e, ms) BY <1>8, <2>1, <2>2, PlainSilent
  <2> QED BY <2>1, <2>3
<1>9. ASSUME NEW e \in End, WrteWritten(e) PROVE Done
  <2>1. PICK m : m = Head(wire[Far(e)]) OBVIOUS
  <2>2. PICK s : s = <<e, m.arg1>> OBVIOUS
  <2>3. /\ m.arg0 \in Id /\ m.arg1 \in Id /\ UNCHANGED <<link, online>>
        /\ Reply(e, <<Msg("OKAY", m.arg1, m.arg0, <<>>)>>) /\ Arrives(e, "WRTE")
    BY <1>9, <2>1, <2>2, WrittenIs
  <2> QED BY <1>8, <2>3 DEF Arrives
<1>10. ASSUME NEW e \in End, OpenAccepted(e) PROVE Done
  <2>1. PICK m : m = Head(wire[Far(e)]) OBVIOUS
  <2>2. PICK n \in Id : n = nextId["device"] BY <1>10, <2>1, AcceptedIs
  <2>3. m.arg0 \in Id /\ UNCHANGED <<link, online>> /\ Arrives(e, "OPEN")
    BY <1>10, <2>1, AcceptedIs
  <2>4. Reply(e, <<Msg("OKAY", n, m.arg0, <<>>)>>) BY <1>10, <2>1, <2>2, AcceptedIs
  <2> QED BY <1>8, <2>3, <2>4 DEF Arrives
<1>11. ASSUME NEW s \in Sock, DrainAll(s) PROVE Done
  <2>1. Send(s[1], <<Msg("OKAY", s[2], rid[s], <<>>)>>) /\ rid[s] \in Id
    BY <1>11, AllIs
  <2>2. UNCHANGED <<link, online>> BY <1>11 DEF DrainAll
  <2> QED BY <1>8, <2>1, <2>2, SockIs
<1>12. ASSUME NEW early \in BOOLEAN, ClientOpen(early) PROVE Done
  <2>1. PICK n \in Id : n = nextId["host"] BY <1>12, ClientIs
  <2>2. PICK ms : ms = <<Msg("OPEN", n, 0, <<>>)>> OBVIOUS
  <2>3. Send("host", ms) /\ UNCHANGED <<link, online>> BY <1>12, <2>1, <2>2, ClientIs
  <2>4. ms \in Seq(Message) BY <2>2, IdTypes, OpenMsg
  <2>5. \A k \in 1..Len(ms) : ms[k].cmd # "CNXN" BY <2>2 DEF Msg
  <2>6. Silent("host", ms) BY <1>1, <2>3, <2>4, <2>5, PlainSilent
  <2> QED BY <1>1, <2>4, <2>6
<1>13. ASSUME NEW s \in Sock, DrainFailed(s) PROVE Done
  <2>1. PICK ms : ms = CloseMsgs(s) OBVIOUS
  <2>2. s[1] \in End /\ ms \in Seq(Message) BY <2>1, SockIs, PlainMsgs DEF Plain
  <2>3. Send(s[1], ms) /\ UNCHANGED <<link, online>> BY <1>13, <2>1 DEF DrainFailed
  <2>4. Silent(s[1], ms) BY <1>6, <2>1, <2>2, <2>3, PlainSilent
  <2> QED BY <2>2, <2>4
<1>14. ASSUME NEW s \in Sock, ReadSome(s) \/ ReadEof(s) PROVE Done
  <2>1. PICK qs : qs = ReadData(s) OBVIOUS
  <2>2. PICK cs : cs = CloseMsgs(s) OBVIOUS
  <2>3. PICK ms : ms = qs \o cs OBVIOUS
  <2>4. rd[s] /\ UNCHANGED <<link, online>> /\ s[1] \in End
    BY <1>14, SockIs DEF ReadSome, ReadEof
  <2>5. /\ qs \in Seq(Message) /\ ms \in Seq(Message)
        /\ qs = <<>> \/ qs = <<ReadMsg(s)>>
        /\ \A k \in 1..Len(ms) : ms[k].cmd \in {"WRTE", "CLSE"}
    BY <2>1, <2>2, <2>3, <2>4, ReadMsgType
  <2>6. \A k \in 1..Len(qs) : qs[k].cmd # "CNXN"
    <3>1. ReadMsg(s).cmd = "WRTE" BY DEF ReadMsg, Msg
    <3>2. CASE qs = <<>> BY <3>2
    <3>3. CASE qs = <<ReadMsg(s)>> BY <3>1, <3>3
    <3> QED BY <2>5, <3>2, <3>3
  <2>7. qs \in Seq(Message) /\ ms \in Seq(Message) BY <2>5
  <2>8. \A k \in 1..Len(ms) : ms[k].cmd # "CNXN" BY <2>5
  <2>9. CASE ReadSome(s)
    <3>1. Send(s[1], qs) BY <2>1, <2>9 DEF ReadSome
    <3>2. Silent(s[1], qs) BY <2>4, <2>6, <2>7, <3>1, PlainSilent
    <3> QED BY <2>4, <2>7, <3>2
  <2>10. CASE ReadEof(s)
    <3>1. Send(s[1], ms) BY <2>1, <2>2, <2>3, <2>10 DEF ReadEof
    <3>2. Silent(s[1], ms) BY <2>4, <2>7, <2>8, <3>1, PlainSilent
    <3> QED BY <2>4, <2>7, <3>2
  <2> QED BY <1>14, <2>9, <2>10
<1>15. ASSUME NEW e \in End, CloseAllSockets(e) PROVE Done
  BY <1>2, <1>15 DEF CloseAllSockets
<1>16. ASSUME NEW s \in Sock, DrainSome(s) \/ DrainLast(s) PROVE Done
  BY <1>2, <1>16 DEF DrainSome, DrainLast
<1>17. ASSUME NEW s \in Sock, ClientWrite(s) \/ \E how \in {"eof", "gone"} : ClientShut(s, how)
       PROVE  Done
  BY <1>2, <1>17 DEF ClientWrite, ClientShut
<1> HIDE DEF Done
<1>18. LinkUp \/ LinkLost \/ (\E e \in End : HandleCnxn(e)) \/ Done
  BY <1>3, <1>4, <1>5, <1>7, <1>9, <1>10, <1>11, <1>12, <1>13, <1>14, <1>15, <1>16, <1>17
  DEF Next, Handle, Event
<1> QED BY <1>18 DEF Done

LEMMA CnxnIs ==
  ASSUME OInv, NEW e \in End, HandleCnxn(e)
  PROVE  /\ Hello(Far(e)) /\ Is(Head(wire[Far(e)]), "CNXN", 0, 0) /\ wire[Far(e)] # <<>>
         /\ ~online[e] /\ Lost(e) = {}
<1>0. TypeOK /\ Greeting BY DEF OInv, CInv
<1>1. wire[Far(e)] \in Seq(Message) /\ wire[Far(e)] # <<>> /\ Head(wire[Far(e)]).cmd = "CNXN"
  BY <1>0, EndFacts DEF TypeOK, HandleCnxn, Arrives
<1>2. Head(wire[Far(e)]) = wire[Far(e)][1] /\ 1 \in 1..Len(wire[Far(e)]) BY <1>1, TailElems
<1>3. Is(Head(wire[Far(e)]), "CNXN", 0, 0) BY <1>0, <1>1, <1>2, EndFacts DEF Greeting
<1>4. Hello(Far(e)) BY <1>2, <1>3 DEF Hello, In
<1>5. ~online[e] BY <1>0, <1>4 DEF Greeting, End, Far
<1> QED BY <1>1, <1>3, <1>4, <1>5 DEF Lost

LEMMA GreetingNext == ASSUME OInv, Next PROVE Greeting'
<1>0. CInv /\ TypeOK /\ Greeting BY DEF OInv, CInv
<1>1. "host" \in End /\ "device" \in End /\ Far("host") = "device" /\ Far("device") = "host"
  BY DEF End, Far
<1>2. CASE LinkUp
  <2>1. wire'["host"] = <<Msg("CNXN", 0, 0, <<>>)>> /\ wire'["device"] = <<>>
    BY <1>0, <1>1, <1>2 DEF LinkUp, TypeOK
  <2>2. ~online'["host"] /\ ~online'["device"] BY <1>1, <1>2 DEF LinkUp
  <2>3. ~Hello("device")' /\ Once(wire'["device"], "CNXN", 0, 0) BY <2>1, NoneIn DEF Hello
  <2>4. Once(wire'["host"], "CNXN", 0, 0) BY <2>1, OneIn
  <2>5. \A k \in 1..Len(wire'["host"]) : Is(wire'["host"][k], "CNXN", 0, 0)
    BY <2>1 DEF Is, Msg
  <2>6. \A k \in 1..Len(wire'["device"]) : Is(wire'["device"][k], "CNXN", 0, 0) BY <2>1
  <2>7. \A e \in End : e = "host" \/ e = "device" BY DEF End
  <2> QED BY <2>2, <2>3, <2>4, <2>5, <2>6, <2>7 DEF Greeting
<1>3. CASE LinkLost
  <2>1. ASSUME NEW f \in End
        PROVE  /\ Hello(f)' => Hello(f)
               /\ Once(wire'[f], "CNXN", 0, 0)
               /\ \A k \in 1..Len(wire'[f]) :
                    wire'[f][k].cmd = "CNXN" => Is(wire'[f][k], "CNXN", 0, 0)
    <3>1. PICK n \in 0..Len(wire[f]) :
            wire'[f] = SubSeq(wire[f], 1, n) \o <<Msg("SYNC", 0, 0, <<>>)>>
      BY <1>0, <1>3, LostFrom
    <3>2. /\ n \in Nat /\ Len(wire'[f]) = n + 1 /\ wire'[f][n + 1].cmd = "SYNC"
          /\ \A k \in 1..n : k \in 1..Len(wire[f]) /\ wire'[f][k] = wire[f][k]
      BY <1>0, <3>1, LostIs
    <3>3. /\ In(wire'[f], "CNXN", 0, 0) => In(wire[f], "CNXN", 0, 0)
          /\ Once(wire[f], "CNXN", 0, 0) => Once(wire'[f], "CNXN", 0, 0)
      BY <1>0, <3>1, LostIs
    <3>4. ASSUME NEW k \in 1..Len(wire'[f]), wire'[f][k].cmd = "CNXN"
          PROVE  Is(wire'[f][k], "CNXN", 0, 0)
      <4>1. k # n + 1 BY <3>2, <3>4
      <4>2. k \in 1..n BY <3>2, <4>1
      <4>3. wire'[f][k] = wire[f][k] /\ k \in 1..Len(wire[f]) BY <3>2, <4>2
      <4> QED BY <1>0, <3>4, <4>3 DEF Greeting
    <3> QED BY <1>0, <3>3, <3>4 DEF Greeting, Hello
  <2>2. UNCHANGED online BY <1>3 DEF LinkLost
  <2> QED BY <1>0, <1>1, <2>1, <2>2 DEF Greeting
<1>4. ASSUME NEW e \in End, HandleCnxn(e) PROVE Greeting'
  <2>1. PICK ms : ms = IF e = "device" THEN <<Msg("CNXN", 0, 0, <<>>)>> ELSE <<>> OBVIOUS
  <2>2. ms \in Seq(Message) BY <1>0, <2>1, PlainMsgs DEF Plain
  <2>3. Reply(e, ms) /\ wire[Far(e)] # <<>> /\ UNCHANGED link /\ ~Arrives(e, "OKAY")
    BY <1>4, <2>1 DEF HandleCnxn, Arrives
  <2>4. Acts(e, ms) BY <2>2, <2>3 DEF Acts, Greets
  <2>5. Hello(Far(e)) /\ Is(Head(wire[Far(e)]), "CNXN", 0, 0) BY <1>4, CnxnIs
  <2>6. ~Hello(e)
    BY <1>0, <1>1, <2>5 DEF Greeting, End
  <2>7. ~Hello(Far(e))'
    <3>1. Once(wire[Far(e)], "CNXN", 0, 0) BY <1>0, EndFacts DEF Greeting
    <3> QED BY <1>0, <2>3, <2>5, <3>1, ActsTaken DEF Hello
  <2>8. Once(ms, "CNXN", 0, 0) /\ \A k \in 1..Len(ms) : Is(ms[k], "CNXN", 0, 0)
    <3>1. CASE e = "device" BY <2>1, <3>1, OneIn DEF Is, Msg
    <3>2. CASE e # "device"
      <4>1. ms = <<>> BY <2>1, <3>2
      <4> QED BY <4>1, NoneIn
    <3> QED BY <3>1, <3>2
  <2>9. ASSUME NEW f \in End PROVE Once(wire'[f], "CNXN", 0, 0)
    <3>1. Once(wire[f], "CNXN", 0, 0) BY <1>0 DEF Greeting
    <3> QED BY <1>0, <2>4, <2>6, <2>8, <3>1, ActsIn DEF Hello
  <2>10. ASSUME NEW f \in End, NEW k \in 1..Len(wire'[f]), wire'[f][k].cmd = "CNXN"
         PROVE  Is(wire'[f][k], "CNXN", 0, 0)
    <3>1. \/ \E l \in 1..Len(wire[f]) : wire'[f][k] = wire[f][l]
          \/ \E l \in 1..Len(ms) : wire'[f][k] = ms[l]
      BY <1>0, <2>4, ActsFrom
    <3> QED BY <1>0, <2>8, <2>10, <3>1 DEF Greeting
  <2>11. \A f \in End : online'[f] <=> f = e \/ online[f]
    BY <1>0, <1>4 DEF HandleCnxn, TypeOK
  <2>12. CASE e = "device"
    <3>1. ~Hello("host")' /\ ~online["host"] BY <1>0, <1>1, <2>5, <2>7, <2>12 DEF Greeting
    <3>2. ~online'["host"] BY <1>1, <2>11, <2>12, <3>1
    <3> QED BY <2>9, <2>10, <3>1, <3>2 DEF Greeting
  <2>13. CASE e = "host"
    <3>1. ~Hello("device")' BY <1>1, <2>7, <2>13
    <3>2. ~In(ms, "CNXN", 0, 0) BY <2>1, <2>13, NoneIn
    <3>3. ~Hello("host")' BY <1>0, <1>1, <2>4, <2>6, <2>13, <3>2, ActsIn DEF Hello
    <3> QED BY <2>9, <2>10, <3>1, <3>3 DEF Greeting
  <2> QED BY <2>12, <2>13 DEF End
<1> QED BY <1>0, <1>2, <1>3, <1>4, SilentSteps, SilentGreeting

-----------------------------------------------------------------------------
(* What is gone stays gone: no OPEN of an earlier id is ever sent again.   *)

LEMMA OpensOld ==
  ASSUME CInv, Next, NEW i \in Id, In(wire'["host"], "OPEN", i, 0)
  PROVE  \/ In(wire["host"], "OPEN", i, 0)
         \/ i = nextId["host"] /\ \E early \in BOOLEAN : ClientOpen(early)
<1>0. TypeOK /\ "host" \in End BY DEF CInv, End
<1>1. ASSUME LinkUp PROVE In(wire["host"], "OPEN", i, 0)
  <2>1. wire'["host"] = <<Msg("CNXN", 0, 0, <<>>)>> BY <1>0, <1>1 DEF LinkUp, TypeOK
  <2> QED BY <2>1, OneMsg
<1>2. ASSUME LinkLost PROVE In(wire["host"], "OPEN", i, 0)
  <2>1. PICK n \in 0..Len(wire["host"]) :
          wire'["host"] = SubSeq(wire["host"], 1, n) \o <<Msg("SYNC", 0, 0, <<>>)>>
    BY <1>0, <1>2, LostFrom
  <2> QED BY <1>0, <2>1, LostIs
<1>3. ASSUME NEW early \in BOOLEAN, ClientOpen(early)
      PROVE  In(wire["host"], "OPEN", i, 0) \/ i = nextId["host"]
  <2>1. PICK n \in Id : n = nextId["host"] BY <1>3, ClientIs
  <2>2. PICK ms : ms = <<Msg("OPEN", n, 0, <<>>)>> OBVIOUS
  <2>3. Send("host", ms) /\ UNCHANGED link BY <1>3, <2>1, <2>2, ClientIs
  <2>4. ms \in Seq(Message) BY <2>2, IdTypes, OpenMsg
  <2>5. Acts("host", ms) BY <2>3, <2>4 DEF Acts
  <2>6. In(ms, "OPEN", i, 0) => i = n BY <2>2, OneMsg
  <2> QED BY <1>0, <2>1, <2>5, <2>6, ActsIn
<1>4. ASSUME NEW e \in End, OpenAccepted(e) PROVE In(wire["host"], "OPEN", i, 0)
  <2>1. PICK o : o = Head(wire[Far(e)]) OBVIOUS
  <2>2. PICK ms : ms = <<Msg("OKAY", nextId["device"], o.arg0, <<>>)>> OBVIOUS
  <2>3. Reply(e, ms) /\ Far(e) = "host" /\ wire["host"] # <<>>
    BY <1>4, <2>1, <2>2, AcceptedIs DEF Arrives
  <2>4. wire'["host"] = Tail(wire["host"]) /\ wire["host"] \in Seq(Message)
    BY <1>0, <2>3, ReplyWire DEF TypeOK
  <2> QED BY <2>3, <2>4, TailIn
<1>5. ASSUME NEW e \in End, NEW ms \in Seq(Message), Acts(e, ms), Sends(e, ms)
      PROVE  In(wire["host"], "OPEN", i, 0)
  <2>1. ~In(ms, "OPEN", i, 0) BY <1>5 DEF Sends, In, Is
  <2> QED BY <1>0, <1>5, <2>1, ActsIn
<1> QED BY <1>1, <1>2, <1>3, <1>4, <1>5, WireSteps

(* No socket is connected to a host socket whose OPEN is under way.        *)
LEMMA OpenFree ==
  ASSUME CInv, NEW i \in Id, In(wire["host"], "OPEN", i, 0)
  PROVE  /\ i < nextId["host"] /\ \A j \in Id : rid[Device(j)] # i
         /\ rid[Host(i)] = 0 /\ ~peer[Host(i)]
<1>1. PICK k \in 1..Len(wire["host"]) : Is(wire["host"][k], "OPEN", i, 0) BY DEF In
<1>2. Opening("host", wire["host"][k]) BY DEF CInv, Wires, End
<1>3. i < nextId["host"] /\ \A j \in Id : rid[Device(j)] # i BY <1>1, <1>2 DEF Opening, Is
<1>4. rid[Host(i)] = 0
  <2> SUFFICES ASSUME rid[Host(i)] # 0 PROVE FALSE OBVIOUS
  <2>1. rid[Device(rid[Host(i)])] = i BY DEF CInv, Pairs
  <2>2. rid[Host(i)] \in Id BY SockIs DEF CInv, TypeOK, Id
  <2> QED BY <1>3, <2>1, <2>2
<1>5. ~peer[Host(i)] BY <1>4, SockIs DEF CInv, Sockets
<1> QED BY <1>3, <1>4, <1>5

LEMMA IdsGrow ==
  ASSUME CInv, Next, NEW i \in Id, NEW e \in End, i < nextId[e]
  PROVE  i < nextId'[e]
<1>1. TypeOK /\ TypeOK' BY NextType DEF CInv
<1>2. nextId[e] \in Nat /\ nextId'[e] \in Nat /\ i \in Nat BY <1>1 DEF TypeOK, Id
<1>3. nextId[e] <= nextId'[e] BY RidKept
<1> QED BY <1>2, <1>3

LEMMA GoneStays == ASSUME CInv, Next, NEW i \in Id, Gone(i) PROVE Gone(i)'
<1>0. TypeOK /\ Ids BY DEF CInv
<1>1. i < nextId["host"] /\ ~In(wire["host"], "OPEN", i, 0) BY DEF Gone
<1>2. i < nextId'["host"] BY <1>1, IdsGrow DEF End
<1>3. ~In(wire'["host"], "OPEN", i, 0)
  <2>1. i # nextId["host"]
    <3>1. nextId["host"] \in Nat /\ i \in Nat BY <1>0 DEF TypeOK, End, Id
    <3> QED BY <1>1, <3>1
  <2> QED BY <1>1, <2>1, OpensOld
<1>4. ASSUME NEW j \in Id, rid'[Device(j)] = i PROVE list'[Device(j)] # "local"
  <2>1. CASE \E e \in End : OpenAccepted(e)
    <3>1. PICK e \in End : OpenAccepted(e) BY <2>1
    <3>2. PICK m : m = Head(wire[Far(e)]) OBVIOUS
    <3>3. PICK d : d = Device(nextId["device"]) OBVIOUS
    <3>4. /\ Far(e) = "host" /\ wire["host"] # <<>> /\ m.cmd = "OPEN" /\ m.arg1 = 0
      BY <3>1, <3>2, <3>3, AcceptedIs DEF Arrives
    <3>5. m.arg0 # i
      <4>1. wire["host"] \in Seq(Message) BY <1>0 DEF TypeOK, End
      <4>2. m = wire["host"][1] /\ 1 \in 1..Len(wire["host"]) BY <3>2, <3>4, <4>1, TailElems
      <4>3. Is(m, "OPEN", m.arg0, 0) BY <3>4 DEF Is
      <4> QED BY <1>1, <4>2, <4>3 DEF In
    <3>6. Device(j) \in Sock BY SockIs
    <3>7. \A t \in Sock : list'[t] = IF t = d THEN "local" ELSE list[t]
      BY <3>1, <3>2, <3>3, AcceptedSocks
    <3>8. \A t \in Sock : rid'[t] = IF t = d THEN m.arg0 ELSE rid[t]
      BY <3>1, <3>2, <3>3, AcceptedSocks
    <3>9. Device(j) # d BY <1>4, <3>5, <3>6, <3>8
    <3> QED BY <1>4, <3>6, <3>7, <3>8, <3>9 DEF Gone
  <2>2. CASE \A e \in End : ~OpenAccepted(e)
    <3>1. rid[Device(j)] = i BY <1>4, <2>2, DeviceRids
    <3>2. list[Device(j)] # "local" BY <3>1 DEF Gone
    <3>3. list'[Device(j)] = "local" => list[Device(j)] = "local"
      <4>1. Device(j) \in Sock BY SockIs
      <4>2. ASSUME NEW S, Closing(S) PROVE list'[Device(j)] # "local" \/ UNCHANGED list[Device(j)]
        BY <1>0, <4>1, <4>2, ClosingIs
      <4>3. ASSUME NEW early \in BOOLEAN, ClientOpen(early) PROVE UNCHANGED list[Device(j)]
        <5>1. PICK h : h = Host(nextId["host"]) OBVIOUS
        <5>2. \A t \in Sock : t # h => list'[t] = list[t] BY <4>3, <5>1, ClientIs
        <5>3. Device(j) # h BY <5>1 DEF Device, Host
        <5> QED BY <4>1, <5>2, <5>3
      <4>4. ASSUME NEW e \in End, HandleOkay(e) \/ WrteQueued(e) PROVE UNCHANGED list
        BY <4>4 DEF HandleOkay, WrteQueued
      <4>5. ASSUME NEW s \in Sock, DrainSome(s) \/ DrainAll(s) \/ ReadSome(s) PROVE UNCHANGED list
        BY <4>5 DEF DrainSome, DrainAll, ReadSome
      <4>6. CASE UNCHANGED sockVars BY <4>6 DEF sockVars
      <4> QED BY <2>2, <4>2, <4>3, <4>4, <4>5, <4>6, Steps
    <3> QED BY <3>2, <3>3
  <2> QED BY <2>1, <2>2
<1> QED BY <1>2, <1>3, <1>4 DEF Gone

-----------------------------------------------------------------------------
(* A step of e that sends ms and closes S: the far end, or else the client *)
(* that still waits, is told of each socket, and no CLSE for a socket that *)
(* is still open is consumed.                                              *)

Heard(e) ==
  \A i \in Id : Ending(Far(e), i) /\ list'[<<e, i>>] = "local" => Ending(Far(e), i)'

Shown(s) ==
  IF peer[s] THEN In(wire'[s[1]], "CLSE", 0, rid[s]) ELSE told'[s] = "fail"

Ends(e, ms, S) ==
  /\ Acts(e, ms) /\ Heard(e)
  /\ \A i \in Id : ~In(ms, "OPEN", i, 0)
  /\ \A i \in Id : e = "device" /\ In(ms, "CLSE", 0, i) => Gone(i)'
  /\ \A s \in Sock : list'[s] = "local" <=> list[s] = "local" /\ s \notin S
  /\ \A i \in Id : rid'[Device(i)] = rid[Device(i)]
  /\ \A s \in Sock : told[s] = "fail" /\ list[s] # "local" => told'[s] = "fail"
  /\ link = "up" => \A s \in Sock : s \in S /\ list[s] = "local" => Shown(s)

LEMMA MateRid ==
  ASSUME CInv, NEW x \in Sock, NEW y \in Sock, Mates(x, y), rid[y] # 0
  PROVE  rid[y] = x[2]
<1>0. Pairs /\ TypeOK BY DEF CInv
<1>1. x[2] \in Id /\ y[2] \in Id /\ x = <<x[1], x[2]>> /\ y = <<y[1], y[2]>> BY SockIs
<1>2. CASE y[1] = "device" BY <1>2 DEF Mates
<1>3. CASE y[1] = "host"
  <2>1. rid[x] = y[2] /\ x = Device(x[2]) /\ y = Host(y[2])
    BY <1>1, <1>3 DEF Mates, Host, Device
  <2>2. rid[Device(rid[y])] = y[2] BY <1>0, <1>1, <2>1 DEF Pairs
  <2>3. rid[y] \in Id BY <1>0 DEF TypeOK, Id
  <2>4. y[2] # 0 BY <1>1, SockIs
  <2> QED BY <1>0, <1>1, <2>1, <2>2, <2>3, <2>4 DEF Pairs
<1> QED BY <1>2, <1>3 DEF Mates

(* Such a step keeps the ends of the streams together.                     *)
LEMMA EndedKept ==
  ASSUME OInv, Next, NEW e \in End, NEW ms, Acts(e, ms),
         \A i \in Id : e = "device" /\ In(ms, "CLSE", 0, i) => Gone(i)'
  PROVE  Ended'
<1>0. CInv /\ TypeOK /\ Ended BY DEF OInv, CInv
<1> SUFFICES ASSUME NEW i \in Id, Ending("device", i)' PROVE Gone(i)'
  BY DEF Ended
<1>1. Ending("device", i) \/ (e = "device" /\ In(ms, "CLSE", 0, i))
  <2>1. "device" \in End /\ In(wire'["device"], "CLSE", 0, i) BY DEF End, Ending
  <2> QED BY <1>0, <2>1, ActsIn DEF Ending
<1>2. CASE Ending("device", i)
  <2>1. Gone(i) BY <1>0, <1>2 DEF Ended
  <2> QED BY <1>0, <2>1, GoneStays
<1> QED BY <1>1, <1>2

LEMMA AskedKept ==
  ASSUME OInv, Next, NEW e \in End, NEW ms, NEW S, Ends(e, ms, S)
  PROVE  Asked'
<1>0. CInv /\ TypeOK /\ Asked BY DEF OInv, CInv
<1>1. Acts(e, ms) /\ UNCHANGED link BY DEF Ends, Acts
<1> SUFFICES ASSUME link' = "up", NEW i \in Id, In(wire'["host"], "OPEN", i, 0)
             PROVE  list'[Host(i)] = "local" \/ told'[Host(i)] = "fail"
  BY DEF Asked
<1>2. link = "up" BY <1>1
<1>3. In(wire["host"], "OPEN", i, 0)
  <2>1. ~In(ms, "OPEN", i, 0) BY DEF Ends
  <2> QED BY <1>0, <1>1, <2>1, ActsIn DEF End
<1>4. list[Host(i)] = "local" \/ told[Host(i)] = "fail" BY <1>0, <1>2, <1>3 DEF Asked
<1>5. Host(i) \in Sock /\ ~peer[Host(i)] BY <1>0, <1>3, OpenFree, SockIs
<1>6. list'[Host(i)] = "local" <=> list[Host(i)] = "local" /\ Host(i) \notin S BY <1>5 DEF Ends
<1>7. told[Host(i)] = "fail" /\ list[Host(i)] # "local" => told'[Host(i)] = "fail"
  BY <1>5 DEF Ends
<1>8. Host(i) \in S /\ list[Host(i)] = "local" => told'[Host(i)] = "fail"
  BY <1>2, <1>5 DEF Ends, Shown
<1> QED BY <1>4, <1>6, <1>7, <1>8

LEMMA OrphansKept ==
  ASSUME OInv, Next, NEW e \in End, NEW ms, NEW S, Ends(e, ms, S)
  PROVE  Orphans'
<1>0. CInv /\ TypeOK /\ Orphans BY DEF OInv, CInv
<1>1. Acts(e, ms) /\ UNCHANGED link BY DEF Ends, Acts
<1> SUFFICES ASSUME link' = "up", NEW x \in Sock, NEW y \in Sock, Mates(x, y)', list'[x] = "local"
             PROVE  list'[y] = "local" \/ told'[y] = "fail" \/ Ending(y[1], x[2])'
  BY DEF Orphans
<1>2. link = "up" BY <1>1
<1>3. Mates(x, y)
  <2>1. \A s \in Sock : s[1] = "device" => rid'[s] = rid[s]
    <3> SUFFICES ASSUME NEW s \in Sock, s[1] = "device" PROVE rid'[s] = rid[s] OBVIOUS
    <3>1. s = Device(s[2]) /\ s[2] \in Id BY SockIs DEF Device
    <3> QED BY <3>1 DEF Ends
  <2> QED BY <2>1 DEF Mates
<1>4. list[x] = "local" BY DEF Ends
<1>5. list[y] = "local" \/ told[y] = "fail" \/ Ending(y[1], x[2])
  BY <1>0, <1>2, <1>3, <1>4 DEF Orphans
<1>6. /\ y[1] \in End /\ y[1] = Far(x[1]) /\ x[1] \in End
      /\ x[2] \in Id /\ x = <<x[1], x[2]>>
  BY <1>0, <1>3, MatesAre, EndFacts
<1>7. CASE list[y] = "local" /\ y \in S
  <2>1. Shown(y) BY <1>2, <1>7 DEF Ends
  <2>2. CASE peer[y]
    <3>1. rid[y] # 0 BY <1>0, <2>2 DEF CInv, Sockets
    <3>2. rid[y] = x[2] BY <1>0, <1>3, <3>1, MateRid
    <3> QED BY <2>1, <2>2, <3>2 DEF Shown, Ending
  <2>3. CASE ~peer[y] BY <2>1, <2>3 DEF Shown
  <2> QED BY <2>2, <2>3
<1>8. CASE list[y] = "local" /\ y \notin S BY <1>8 DEF Ends
<1>9. CASE told[y] = "fail" /\ list[y] # "local" BY <1>9 DEF Ends
<1>10. CASE Ending(y[1], x[2])
  <2>1. CASE e = x[1]
    <3>1. Far(e) = y[1] /\ list'[<<e, x[2]>>] = "local" BY <1>6, <2>1
    <3>2. Heard(e) BY DEF Ends
    <3> QED BY <1>6, <1>10, <3>1, <3>2 DEF Heard
  <2>2. CASE e = y[1]
    <3>1. e # Far(e) BY EndFacts
    <3> QED BY <1>0, <1>1, <1>10, <2>2, <3>1, ActsIn DEF Ending
  <2>3. e = x[1] \/ e = y[1] BY <1>6 DEF End, Far
  <2> QED BY <2>1, <2>2, <2>3
<1> QED BY <1>5, <1>7, <1>8, <1>9, <1>10

-----------------------------------------------------------------------------
(* Which steps are such steps: all but those that open a stream or a link. *)

LEMMA HeardSend ==
  ASSUME TypeOK, NEW e \in End, NEW ms, Send(e, ms) \/ UNCHANGED wire
  PROVE  Heard(e)
<1>1. wire'[Far(e)] = wire[Far(e)] BY SendWire
<1> QED BY <1>1 DEF Heard, Ending

LEMMA HeardActs ==
  ASSUME TypeOK, NEW e \in End, NEW ms, Acts(e, ms),
         \A i \in Id : Is(Head(wire[Far(e)]), "CLSE", 0, i) => list'[<<e, i>>] # "local"
  PROVE  Heard(e)
<1> SUFFICES ASSUME NEW i \in Id, Ending(Far(e), i), list'[<<e, i>>] = "local"
             PROVE  Ending(Far(e), i)'
  BY DEF Heard
<1>1. ~Is(Head(wire[Far(e)]), "CLSE", 0, i) OBVIOUS
<1>2. Far(e) \in End BY EndFacts
<1> QED BY <1>1, <1>2, ActsIn DEF Ending

LEMMA QuietEnds ==
  ASSUME NEW e \in End, NEW ms, Acts(e, ms), Heard(e),
         \A k \in 1..Len(ms) : ms[k].cmd \notin {"OPEN", "CLSE"},
         \A s \in Sock : list'[s] = "local" <=> list[s] = "local",
         \A i \in Id : rid'[Device(i)] = rid[Device(i)],
         \A s \in Sock : told[s] = "fail" /\ list[s] # "local" => told'[s] = "fail"
  PROVE  Ends(e, ms, {})
<1>1. \A i \in Id : ~In(ms, "OPEN", i, 0) /\ ~In(ms, "CLSE", 0, i) BY DEF In, Is
<1> QED BY <1>1 DEF Ends

LEMMA GoneNow ==
  ASSUME CInv, Next, NEW i \in Id, NEW s \in Sock, s[1] = "device", rid[s] = i,
         list'[s] # "local", UNCHANGED rid
  PROVE  Gone(i)'
<1>0. TypeOK /\ Ids /\ Pairs BY DEF CInv
<1>1. i < nextId["host"] BY <1>0 DEF Ids, Far
<1>2. s = Device(s[2]) /\ s[2] \in Id /\ i # 0 BY SockIs DEF Device
<1>3. ~In(wire["host"], "OPEN", i, 0) BY <1>2, OpenFree
<1>4. i # nextId["host"]
  <2>1. nextId["host"] \in Nat /\ i \in Nat BY <1>0 DEF TypeOK, End, Id
  <2> QED BY <1>1, <2>1
<1>5. ~In(wire'["host"], "OPEN", i, 0) BY <1>3, <1>4, OpensOld
<1>6. i < nextId'["host"] BY <1>1, IdsGrow DEF End
<1>7. ASSUME NEW j \in Id, rid'[Device(j)] = i PROVE list'[Device(j)] # "local"
  <2>1. j = s[2] BY <1>0, <1>2, <1>7 DEF Pairs
  <2> QED BY <1>2, <2>1
<1> QED BY <1>5, <1>6, <1>7 DEF Gone

LEMMA ClosedEnds ==
  ASSUME OInv, Next, NEW e \in End, NEW s \in Sock, s[1] = e, Closing({s}), Tell({s}),
         NEW ms, Acts(e, ms), Reply(e, ms) \/ Send(e, ms), Heard(e),
         \A k \in 1..Len(ms) : ms[k].cmd # "OPEN",
         \A i \in Id : In(ms, "CLSE", 0, i) <=> peer[s] /\ rid[s] = i
  PROVE  Ends(e, ms, {s})
<1>0. CInv /\ TypeOK /\ Sockets /\ Waiting BY DEF OInv, CInv
<1>1. \A t \in Sock : list'[t] = "local" <=> list[t] = "local" /\ t \notin {s}
  BY <1>0, ClosingIs
<1>2. UNCHANGED rid /\ list'[s] # "local" BY <1>0, ClosingIs
<1>3. \A t \in Sock : told'[t] = IF t = s /\ notify[t] THEN "fail" ELSE told[t] BY DEF Tell
<1>4. \A i \in Id : ~In(ms, "OPEN", i, 0) BY DEF In, Is
<1>5. ASSUME NEW i \in Id, e = "device", In(ms, "CLSE", 0, i) PROVE Gone(i)'
  <2>1. rid[s] = i BY <1>5
  <2> QED BY <1>0, <1>2, <1>5, <2>1, GoneNow
<1>6. ASSUME link = "up", list[s] = "local" PROVE Shown(s)
  <2>1. CASE peer[s]
    <3>1. rid[s] \in Id BY <1>0, <2>1 DEF Sockets, TypeOK, Id
    <3>2. In(ms, "CLSE", 0, rid[s]) BY <2>1, <3>1
    <3>3. ms \in Seq(Message) BY DEF Acts
    <3>4. In(wire'[e], "CLSE", 0, rid[s]) BY <1>0, <1>6, <3>2, <3>3, ActsNew
    <3> QED BY <2>1, <3>4 DEF Shown
  <2>2. CASE ~peer[s]
    <3>1. notify[s] BY <1>0, <1>6, <2>2 DEF Waiting
    <3> QED BY <1>3, <2>2, <3>1 DEF Shown
  <2> QED BY <2>1, <2>2
<1>7. \A t \in Sock : t \in {s} <=> t = s OBVIOUS
<1>8. \A i \in Id : rid'[Device(i)] = rid[Device(i)] BY <1>2
<1>9. \A t \in Sock : told[t] = "fail" /\ list[t] # "local" => told'[t] = "fail" BY <1>3
<1> QED BY <1>1, <1>4, <1>5, <1>6, <1>7, <1>8, <1>9 DEF Ends

LEMMA CloseIn ==
  ASSUME NEW s \in Sock
  PROVE  /\ \A i \in Id : In(CloseMsgs(s), "CLSE", 0, i) <=> peer[s] /\ rid[s] = i
         /\ \A k \in 1..Len(CloseMsgs(s)) : CloseMsgs(s)[k].cmd # "OPEN"
<1>1. CASE peer[s]
  <2>1. CloseMsgs(s) = <<Msg("CLSE", 0, rid[s], <<>>)>> BY <1>1 DEF CloseMsgs
  <2>2. \A i \in Id : In(CloseMsgs(s), "CLSE", 0, i) <=> rid[s] = i BY <2>1, OneMsg
  <2>3. \A k \in 1..Len(CloseMsgs(s)) : CloseMsgs(s)[k].cmd # "OPEN" BY <2>1 DEF Msg
  <2> QED BY <1>1, <2>2, <2>3
<1>2. CASE ~peer[s]
  <2>1. CloseMsgs(s) = <<>> BY <1>2 DEF CloseMsgs
  <2> QED BY <1>2, <2>1, NoneIn
<1> QED BY <1>1, <1>2

LEMMA SentEnds ==
  ASSUME OInv, NEW e \in End, NEW ms \in Seq(Message), Send(e, ms) \/ UNCHANGED wire,
         \A k \in 1..Len(ms) : ms[k].cmd \notin {"OPEN", "CLSE"},
         \A s \in Sock : list'[s] = "local" <=> list[s] = "local",
         UNCHANGED <<link, rid, told>>
  PROVE  Ends(e, ms, {})
<1>1. TypeOK BY DEF OInv, CInv
<1>2. Acts(e, ms) BY DEF Acts
<1>3. Heard(e) BY <1>1, HeardSend
<1>4. \A i \in Id : rid'[Device(i)] = rid[Device(i)] OBVIOUS
<1> QED BY <1>2, <1>3, <1>4, QuietEnds

LEMMA RepliedEnds ==
  ASSUME OInv, NEW e \in End, NEW ms \in Seq(Message), Reply(e, ms), wire[Far(e)] # <<>>,
         ~Arrives(e, "OKAY"), ~Arrives(e, "CLSE"), UNCHANGED <<link, list, rid, told>>,
         \A k \in 1..Len(ms) : ms[k].cmd \notin {"OPEN", "CLSE"}
  PROVE  Ends(e, ms, {})
<1>1. TypeOK BY DEF OInv, CInv
<1>2. Acts(e, ms) BY DEF Acts, Greets
<1>3. \A i \in Id : ~Is(Head(wire[Far(e)]), "CLSE", 0, i) BY DEF Is, Arrives
<1>4. Heard(e) BY <1>1, <1>2, <1>3, HeardActs
<1>5. \A i \in Id : rid'[Device(i)] = rid[Device(i)] OBVIOUS
<1> QED BY <1>2, <1>4, <1>5, QuietEnds

(* A CLSE that is dropped is of no socket that is open.                    *)
LEMMA IgnoredEnds == ASSUME OInv, NEW e \in End, Ignore(e) PROVE Ends(e, <<>>, {})
<1>0. CInv /\ TypeOK /\ Session BY DEF OInv, CInv
<1>1. Acts(e, <<>>) BY <1>0, OkayActs
<1>2. UNCHANGED <<list, rid, told>> BY DEF Ignore, sockVars
<1>3. ASSUME NEW i \in Id, Is(Head(wire[Far(e)]), "CLSE", 0, i) PROVE list'[<<e, i>>] # "local"
  <2>1. PICK m : m = Head(wire[Far(e)]) OBVIOUS
  <2>2. m.cmd = "CLSE" /\ m.arg1 = i /\ <<e, i>> \in Sock BY <1>3, <2>1, SockIs DEF Is
  <2>3. wire[Far(e)] # <<>> /\ (~online[e] \/ ~Found(e, i)) BY <2>1, <2>2 DEF Ignore
  <2>4. CASE ~online[e]
    <3>1. ~sweep[e] BY <1>0, <2>3 DEF Session
    <3>2. <<e, i>>[1] = e BY SockIs
    <3> QED BY <1>0, <1>2, <2>2, <2>4, <3>1, <3>2 DEF Session
  <2>5. CASE ~Found(e, i) BY <1>2, <2>5 DEF Found
  <2> QED BY <2>3, <2>4, <2>5
<1>4. Heard(e) BY <1>0, <1>1, <1>3, HeardActs
<1>5. \A i \in Id : rid'[Device(i)] = rid[Device(i)] BY <1>2
<1> QED BY <1>1, <1>2, <1>4, <1>5, QuietEnds

LEMMA OkayEnds == ASSUME OInv, NEW e \in End, HandleOkay(e) PROVE Ends(e, <<>>, {})
<1>0. CInv /\ TypeOK BY DEF OInv, CInv
<1>1. Acts(e, <<>>) BY <1>0, OkayActs
<1>2. PICK m : m = Head(wire[Far(e)]) OBVIOUS
<1>3. PICK s : s = <<e, m.arg1>> OBVIOUS
<1>4. /\ s \in Sock /\ list[s] = "local" /\ Arrives(e, "OKAY") /\ UNCHANGED list
      /\ \A t \in Sock : rid'[t] = IF t = s THEN m.arg0 ELSE rid[t]
      /\ e = "device" => UNCHANGED rid
  BY <1>0, <1>2, <1>3, OkayIs
<1>5. \A t \in Sock : t # s => told'[t] = told[t] BY <1>0, <1>2, <1>3 DEF HandleOkay, TypeOK
<1>6. \A t \in Sock : told[t] = "fail" /\ list[t] # "local" => told'[t] = "fail"
  BY <1>4, <1>5
<1>7. \A i \in Id : rid'[Device(i)] = rid[Device(i)]
  <2>1. CASE e = "device" BY <1>4, <2>1
  <2>2. CASE e = "host"
    <3>1. \A i \in Id : Device(i) \in Sock /\ Device(i) # s BY <1>3, <2>2, SockIs DEF Device
    <3> QED BY <1>4, <3>1
  <2> QED BY <2>1, <2>2 DEF End
<1>8. \A i \in Id : ~Is(Head(wire[Far(e)]), "CLSE", 0, i) BY <1>4 DEF Is, Arrives
<1>9. Heard(e) BY <1>0, <1>1, <1>8, HeardActs
<1> QED BY <1>1, <1>4, <1>6, <1>7, <1>9, QuietEnds

(* A service that did not start has no socket for the id it was asked by.  *)
LEMMA RefusedEnds ==
  ASSUME OInv, Next, NEW e \in End, OpenRefused(e)
  PROVE  \E ms \in Seq(Message) : Ends(e, ms, {})
<1>0. CInv /\ TypeOK /\ OpensOnce BY DEF OInv, CInv
<1>1. PICK m : m = Head(wire[Far(e)]) OBVIOUS
<1>2. PICK ms : ms = <<Msg("CLSE", 0, m.arg0, <<>>)>> OBVIOUS
<1>3. /\ Arrives(e, "OPEN") /\ Reply(e, ms) /\ UNCHANGED <<nextId, list, rid, told, link>>
  BY <1>1, <1>2 DEF OpenRefused, SendClose, sockVars, linkVars
<1>4. wire[Far(e)] \in Seq(Message) /\ wire[Far(e)] # <<>> /\ m.cmd = "OPEN"
  BY <1>0, <1>1, <1>3, EndFacts DEF TypeOK, Arrives
<1>5. m = wire[Far(e)][1] /\ 1 \in 1..Len(wire[Far(e)]) BY <1>1, <1>4, TailElems
<1>6. Opening(Far(e), m) BY <1>0, <1>5, EndFacts DEF CInv, Wires
<1>7. /\ Far(e) = "host" /\ m.arg0 \in Id /\ m.arg0 < nextId["host"] /\ m.arg1 = 0
      /\ \A j \in Id : rid[Device(j)] # m.arg0
  BY <1>4, <1>6 DEF Opening
<1>8. ms \in Seq(Message)
  <2>1. ms = SendClose(m.arg0) /\ m.arg0 \in 0..MaxId BY <1>2, <1>7, IdTypes DEF SendClose
  <2> QED BY <1>0, <2>1, PlainMsgs DEF Plain
<1>9. Acts(e, ms) BY <1>3, <1>4, <1>8, <1>1 DEF Acts, Greets, Arrives
<1>10. \A i \in Id : ~Is(Head(wire[Far(e)]), "CLSE", 0, i) BY <1>1, <1>4 DEF Is
<1>11. Heard(e) BY <1>0, <1>9, <1>10, HeardActs
<1>12. \A i \in Id : ~In(ms, "OPEN", i, 0) /\ (In(ms, "CLSE", 0, i) => i = m.arg0)
  BY <1>2, OneMsg
<1>13. Gone(m.arg0)'
  <2>1. Is(Head(wire[Far(e)]), "OPEN", m.arg0, 0) BY <1>1, <1>4, <1>7 DEF Is
  <2>2. Once(wire[Far(e)], "OPEN", m.arg0, 0) BY <1>0, <1>7 DEF OpensOnce
  <2>3. ~In(wire'["host"], "OPEN", m.arg0, 0)
    BY <1>0, <1>3, <1>4, <1>7, <2>1, <2>2, ActsTaken
  <2> QED BY <1>3, <1>7, <2>3 DEF Gone
<1>14. \A i \in Id : e = "device" /\ In(ms, "CLSE", 0, i) => Gone(i)' BY <1>12, <1>13
<1>15. \A i \in Id : rid'[Device(i)] = rid[Device(i)] BY <1>3
<1>16. Ends(e, ms, {}) BY <1>3, <1>9, <1>11, <1>12, <1>14, <1>15 DEF Ends
<1> QED BY <1>8, <1>16

LEMMA FoundEnds ==
  ASSUME OInv, Next, NEW e \in End, HandleClse(e) \/ WrteFailed(e)
  PROVE  \E ms \in Seq(Message) : \E S : Ends(e, ms, S)
<1>0. CInv /\ TypeOK BY DEF OInv, CInv
<1>1. PICK s : s = FoundSock(e) OBVIOUS
<1>2. s \in Sock /\ s[1] = e /\ Closing({s})
  <2>1. FoundSock(e) \in Sock /\ Closing({FoundSock(e)}) BY <1>0, FoundCloses
  <2>2. FoundSock(e)[1] = e BY DEF FoundSock
  <2> QED BY <1>1, <2>1, <2>2
<1>3. PICK ms : ms = CloseMsgs(s) OBVIOUS
<1>4. ms \in Seq(Message) BY <1>0, <1>2, <1>3, PlainMsgs DEF Plain
<1>5. /\ Tell({s}) /\ Reply(e, ms) /\ wire[Far(e)] # <<>> /\ ~Arrives(e, "OKAY")
      /\ UNCHANGED link
  BY <1>1, <1>3 DEF HandleClse, WrteFailed, FoundSock, Arrives, linkVars
<1>6. Acts(e, ms) BY <1>4, <1>5 DEF Acts, Greets
<1>7. ASSUME NEW i \in Id, Is(Head(wire[Far(e)]), "CLSE", 0, i) PROVE list'[<<e, i>>] # "local"
  <2>1. s = <<e, i>> BY <1>1, <1>7 DEF FoundSock, Is
  <2> QED BY <1>0, <1>2, <2>1, ClosingIs
<1>8. Heard(e) BY <1>0, <1>6, <1>7, HeardActs
<1>9. /\ \A i \in Id : In(ms, "CLSE", 0, i) <=> peer[s] /\ rid[s] = i
      /\ \A k \in 1..Len(ms) : ms[k].cmd # "OPEN"
  BY <1>2, <1>3, CloseIn
<1>10. Ends(e, ms, {s}) BY <1>2, <1>5, <1>6, <1>8, <1>9, ClosedEnds
<1> QED BY <1>4, <1>10

LEMMA FailedEnds ==
  ASSUME OInv, Next, NEW s \in Sock, DrainFailed(s)
  PROVE  \E ms \in Seq(Message) : \E S : Ends(s[1], ms, S)
<1>0. CInv /\ TypeOK BY DEF OInv, CInv
<1>1. PICK ms : ms = CloseMsgs(s) OBVIOUS
<1>2. PICK e \in End : e = s[1] BY SockIs
<1>3. Closing({s}) BY <1>0, EventCloses
<1>4. ms \in Seq(Message) BY <1>0, <1>1, PlainMsgs DEF Plain
<1>5. Tell({s}) /\ Send(e, ms) /\ UNCHANGED link BY <1>1, <1>2 DEF DrainFailed, linkVars
<1>6. Acts(e, ms) BY <1>4, <1>5 DEF Acts
<1>7. Heard(e) BY <1>0, <1>5, HeardSend
<1>8. /\ \A i \in Id : In(ms, "CLSE", 0, i) <=> peer[s] /\ rid[s] = i
      /\ \A k \in 1..Len(ms) : ms[k].cmd # "OPEN"
  BY <1>1, CloseIn
<1>9. Ends(e, ms, {s}) BY <1>2, <1>3, <1>5, <1>6, <1>7, <1>8, ClosedEnds
<1> QED BY <1>2, <1>4, <1>9

(* End of input: the data that was read goes before the CLSE.              *)
LEMMA ReadEnds ==
  ASSUME OInv, Next, NEW s \in Sock, ReadSome(s) \/ ReadEof(s)
  PROVE  \E ms \in Seq(Message) : \E S : Ends(s[1], ms, S)
<1>0. CInv /\ TypeOK BY DEF OInv, CInv
<1>1. PICK qs : qs = ReadData(s) OBVIOUS
<1>2. PICK cs : cs = CloseMsgs(s) OBVIOUS
<1>3. PICK ms : ms = qs \o cs OBVIOUS
<1>4. PICK e \in End : e = s[1] BY SockIs
<1>5. rd[s] /\ UNCHANGED link BY DEF ReadSome, ReadEof, linkVars
<1>6. qs \in Seq(Message) /\ cs \in Seq(Message) /\ ms \in Seq(Message)
  BY <1>0, <1>1, <1>2, <1>3, <1>5, ReadMsgType
<1>7. \A k \in 1..Len(qs) : qs[k].cmd = "WRTE"
  <2>1. qs = <<>> \/ qs = <<ReadMsg(s)>> BY <1>0, <1>1, <1>5, ReadMsgType
  <2>2. ReadMsg(s).cmd = "WRTE" BY DEF ReadMsg, Msg
  <2>3. CASE qs = <<>> BY <2>3
  <2>4. CASE qs = <<ReadMsg(s)>> BY <2>2, <2>4
  <2> QED BY <2>1, <2>3, <2>4
<1>8. CASE ReadSome(s)
  <2>1. Send(e, qs) /\ UNCHANGED <<list, rid, told>> BY <1>1, <1>4, <1>8 DEF ReadSome
  <2>2. \A k \in 1..Len(qs) : qs[k].cmd \notin {"OPEN", "CLSE"} BY <1>7
  <2>3. Ends(e, qs, {}) BY <1>5, <1>6, <2>1, <2>2, SentEnds
  <2> QED BY <1>4, <1>6, <2>3
<1>9. CASE ReadEof(s)
  <2>1. Closing({s}) BY <1>0, <1>9, EventCloses
  <2>2. Tell({s}) /\ Send(e, ms) BY <1>1, <1>2, <1>3, <1>4, <1>9 DEF ReadEof
  <2>3. Acts(e, ms) BY <1>5, <1>6, <2>2 DEF Acts
  <2>4. Heard(e) BY <1>0, <2>2, HeardSend
  <2>5. \A k \in 1..Len(ms) : ms[k].cmd # "OPEN"
    <3>1. \A k \in 1..Len(ms) : ms[k].cmd \in {"WRTE", "CLSE"}
      BY <1>0, <1>1, <1>2, <1>3, <1>5, ReadMsgType
    <3> QED BY <3>1
  <2>6. \A i \in Id : In(ms, "CLSE", 0, i) <=> peer[s] /\ rid[s] = i
    <3>1. \A i \in Id : In(cs, "CLSE", 0, i) <=> peer[s] /\ rid[s] = i BY <1>2, CloseIn
    <3>2. \A i \in Id : ~In(qs, "CLSE", 0, i) BY <1>7 DEF In, Is
    <3>3. \A i \in Id : In(ms, "CLSE", 0, i) <=> In(qs, "CLSE", 0, i) \/ In(cs, "CLSE", 0, i)
      BY <1>3, <1>6, ConcatIn
    <3> QED BY <3>1, <3>2, <3>3
  <2>7. Ends(e, ms, {s}) BY <1>4, <2>1, <2>2, <2>3, <2>4, <2>5, <2>6, ClosedEnds
  <2> QED BY <1>4, <1>6, <2>7
<1> QED BY <1>8, <1>9

(* The transport is lost: the far end is not told, it sees it itself.      *)
LEMMA LostEnds ==
  ASSUME OInv, NEW e \in End, HandleSync(e) \/ CloseAllSockets(e)
  PROVE  \E S : Ends(e, <<>>, S)
<1>0. CInv /\ TypeOK /\ Session BY DEF OInv, CInv
<1>1. PICK S : /\ Closing(S) /\ link = "down"
               /\ \A s \in Sock : told[s] = "fail" /\ list[s] # "local" => told'[s] = "fail"
  <2>1. CASE HandleSync(e)
    <3>1. Closing(Attached(e)) BY <1>0, <2>1, SyncCloses
    <3>2. wire[Far(e)] \in Seq(Message) /\ wire[Far(e)] # <<>> /\ Head(wire[Far(e)]).cmd = "SYNC"
      BY <1>0, <2>1, EndFacts DEF TypeOK, HandleSync, Arrives
    <3>3. Head(wire[Far(e)]) = wire[Far(e)][1] /\ 1 \in 1..Len(wire[Far(e)]) BY <3>2, TailElems
    <3>4. link = "down" BY <1>0, <3>2, <3>3, EndFacts DEF Session
    <3>5. \A s \in Sock : told[s] = "fail" => told'[s] = "fail" BY <2>1 DEF HandleSync, Tell
    <3> QED BY <3>1, <3>4, <3>5
  <2>2. CASE CloseAllSockets(e)
    <3>1. Closing(Swept(e)) BY <1>0, <2>2, SweepCloses
    <3>2. link = "down" BY <1>0, <2>2 DEF Session, CloseAllSockets
    <3>3. UNCHANGED told BY <2>2 DEF CloseAllSockets
    <3> QED BY <3>1, <3>2, <3>3
  <2> QED BY <2>1, <2>2
<1>2. Acts(e, <<>>) /\ Heard(e)
  <2>1. CASE HandleSync(e)
    <3>1. /\ Reply(e, <<>>) /\ wire[Far(e)] # <<>> /\ UNCHANGED link
          /\ ~Arrives(e, "OKAY") /\ ~Arrives(e, "CLSE")
      BY <2>1 DEF HandleSync, Arrives
    <3>2. Acts(e, <<>>) BY <3>1, NoMsgs DEF Acts, Greets
    <3>3. \A i \in Id : ~Is(Head(wire[Far(e)]), "CLSE", 0, i) BY <3>1 DEF Is, Arrives
    <3> QED BY <1>0, <3>2, <3>3, HeardActs
  <2>2. CASE CloseAllSockets(e)
    <3>1. UNCHANGED <<wire, link>> BY <2>2 DEF CloseAllSockets
    <3> QED BY <1>0, <3>1, NoMsgs, HeardSend DEF Acts
  <2> QED BY <2>1, <2>2
<1>3. \A s \in Sock : list'[s] = "local" <=> list[s] = "local" /\ s \notin S
  BY <1>0, <1>1, ClosingIs
<1>4. \A i \in Id : rid'[Device(i)] = rid[Device(i)] BY <1>1 DEF Closing, CloseSockets
<1>5. \A i \in Id : ~In(<<>>, "OPEN", i, 0) /\ ~In(<<>>, "CLSE", 0, i) BY NoneIn
<1>6. Ends(e, <<>>, S) BY <1>1, <1>2, <1>3, <1>4, <1>5 DEF Ends
<1> QED BY <1>6

LEMMA CnxnEnds ==
  ASSUME OInv, NEW e \in End, HandleCnxn(e)
  PROVE  \E ms \in Seq(Message) : Ends(e, ms, {})
<1>0. CInv /\ TypeOK BY DEF OInv, CInv
<1>1. PICK ms : ms = IF e = "device" THEN <<Msg("CNXN", 0, 0, <<>>)>> ELSE <<>> OBVIOUS
<1>2. ms \in Seq(Message) BY <1>0, <1>1, PlainMsgs DEF Plain
<1>3. /\ Reply(e, ms) /\ wire[Far(e)] # <<>> /\ UNCHANGED link
      /\ ~Arrives(e, "OKAY") /\ ~Arrives(e, "CLSE")
  BY <1>1 DEF HandleCnxn, Arrives, linkVars
<1>4. Acts(e, ms) BY <1>2, <1>3 DEF Acts, Greets
<1>5. \A k \in 1..Len(ms) : ms[k].cmd \notin {"OPEN", "CLSE"}
  <2>1. CASE e = "device" BY <1>1, <2>1 DEF Msg
  <2>2. CASE e # "device" BY <1>1, <2>2
  <2> QED BY <2>1, <2>2
<1>6. Closing({}) /\ Tell({})
  <2>1. Lost(e) = {} BY CnxnIs
  <2>2. Closing(Lost(e)) BY <1>0, CnxnCloses
  <2>3. Tell(Lost(e)) BY DEF HandleCnxn, Lost
  <2> QED BY <2>1, <2>2, <2>3
<1>7. \A s \in Sock : list'[s] = "local" <=> list[s] = "local" BY <1>0, <1>6, ClosingIs
<1>8. \A s \in Sock : told[s] = "fail" /\ list[s] # "local" => told'[s] = "fail"
  BY <1>6 DEF Tell
<1>9. \A i \in Id : ~Is(Head(wire[Far(e)]), "CLSE", 0, i) BY <1>3 DEF Is, Arrives
<1>10. Heard(e) BY <1>0, <1>4, <1>9, HeardActs
<1>11. \A i \in Id : rid'[Device(i)] = rid[Device(i)] BY <1>6 DEF Closing, CloseSockets
<1>12. Ends(e, ms, {}) BY <1>4, <1>5, <1>7, <1>8, <1>10, <1>11, QuietEnds
<1> QED BY <1>2, <1>12

LEMMA EndsSteps ==
  ASSUME OInv, Next
  PROVE  \/ LinkUp \/ LinkLost
         \/ \E early \in BOOLEAN : ClientOpen(early)
         \/ \E e \in End : OpenAccepted(e)
         \/ \E e \in End, ms \in Seq(Message) : \E S : Ends(e, ms, S)
<1>0. CInv /\ TypeOK BY DEF OInv, CInv
<1> DEFINE Done == \E e \in End, ms \in Seq(Message) : \E S : Ends(e, ms, S)
<1>1. <<>> \in Seq(Message) /\ "host" \in End BY NoMsgs DEF End
<1>2. ASSUME NEW e \in End, \/ HandleSync(e) \/ HandleCnxn(e) \/ OpenRefused(e)
                            \/ HandleOkay(e) \/ HandleClse(e) \/ Ignore(e)
                            \/ WrteFailed(e) \/ CloseAllSockets(e)
      PROVE  Done
  <2>1. CASE HandleSync(e) \/ CloseAllSockets(e) BY <1>1, <2>1, LostEnds
  <2>2. CASE HandleCnxn(e) BY <2>2, CnxnEnds
  <2>3. CASE OpenRefused(e) BY <2>3, RefusedEnds
  <2>4. CASE HandleOkay(e) BY <1>1, <2>4, OkayEnds
  <2>5. CASE Ignore(e) BY <1>1, <2>5, IgnoredEnds
  <2>6. CASE HandleClse(e) \/ WrteFailed(e) BY <2>6, FoundEnds
  <2> QED BY <1>2, <2>1, <2>2, <2>3, <2>4, <2>5, <2>6
<1>3. ASSUME NEW e \in End, WrteWritten(e) PROVE Done
  <2>1. PICK m : m = Head(wire[Far(e)]) OBVIOUS
  <2>2. PICK s : s = <<e, m.arg1>> OBVIOUS
  <2>3. PICK ms : ms = <<Msg("OKAY", m.arg1, m.arg0, <<>>)>> OBVIOUS
  <2>4. /\ m.arg0 \in Id /\ m.arg1 \in Id /\ Reply(e, ms) /\ Arrives(e, "WRTE")
        /\ UNCHANGED <<sockVars, link>>
    BY <1>0, <1>3, <2>1, <2>2, <2>3, WrittenIs
  <2>5. ms \in Seq(Message) BY <2>3, <2>4, IdTypes, OkayMsg
  <2>6. \A k \in 1..Len(ms) : ms[k].cmd \notin {"OPEN", "CLSE"} BY <2>3 DEF Msg
  <2>7. UNCHANGED <<list, rid, told>> BY <1>3 DEF WrteWritten, sockVars
  <2>8. wire[Far(e)] # <<>> /\ ~Arrives(e, "OKAY") /\ ~Arrives(e, "CLSE") BY <2>4 DEF Arrives
  <2>9. Ends(e, ms, {}) BY <2>4, <2>5, <2>6, <2>7, <2>8, RepliedEnds
  <2> QED BY <2>5, <2>9
<1>4. ASSUME NEW e \in End, WrteQueued(e) PROVE Done
  <2>1. /\ Reply(e, <<>>) /\ wire[Far(e)] # <<>> /\ UNCHANGED <<link, list, rid, told>>
        /\ ~Arrives(e, "OKAY") /\ ~Arrives(e, "CLSE")
    BY <1>4 DEF WrteQueued, Arrives, linkVars
  <2>2. \A k \in 1..Len(<<>>) : <<>>[k].cmd \notin {"OPEN", "CLSE"} OBVIOUS
  <2>3. Ends(e, <<>>, {}) BY <1>1, <2>1, <2>2, RepliedEnds
  <2> QED BY <1>1, <2>3
<1>5. ASSUME UNCHANGED <<wire, link, rid, told>>,
             \A s \in Sock : list'[s] = "local" <=> list[s] = "local"
      PROVE  Done
  <2>1. \A k \in 1..Len(<<>>) : <<>>[k].cmd \notin {"OPEN", "CLSE"} OBVIOUS
  <2>2. Ends("host", <<>>, {}) BY <1>1, <1>5, <2>1, SentEnds
  <2> QED BY <1>1, <2>2
<1>6. ASSUME NEW s \in Sock, DrainAll(s) PROVE Done
  <2>1. PICK e \in End : e = s[1] BY SockIs
  <2>2. PICK ms : ms = <<Msg("OKAY", s[2], rid[s], <<>>)>> OBVIOUS
  <2>3. Send(e, ms) /\ rid[s] \in Id BY <1>0, <1>6, <2>1, <2>2, AllIs
  <2>4. ms \in Seq(Message) BY <2>2, <2>3, SockIs, IdTypes, OkayMsg
  <2>5. \A k \in 1..Len(ms) : ms[k].cmd \notin {"OPEN", "CLSE"} BY <2>2 DEF Msg
  <2>6. UNCHANGED <<link, list, rid, told>> BY <1>6 DEF DrainAll, linkVars
  <2>7. Ends(e, ms, {}) BY <2>3, <2>4, <2>5, <2>6, SentEnds
  <2> QED BY <2>4, <2>7
<1>7. ASSUME NEW s \in Sock, DrainLast(s) PROVE Done
  <2>1. Closing({s}) BY <1>0, <1>7, EventCloses
  <2>2. list[s] = "closing" /\ UNCHANGED <<wire, link, told>> BY <1>7 DEF DrainLast, linkVars
  <2>3. \A t \in Sock : list'[t] = "local" <=> list[t] = "local" BY <1>0, <2>1, <2>2, ClosingIs
  <2>4. UNCHANGED rid BY <2>1 DEF Closing, CloseSockets
  <2> QED BY <1>5, <2>2, <2>3, <2>4
<1>8. ASSUME NEW s \in Sock, \/ DrainSome(s) \/ ClientWrite(s)
                             \/ \E how \in {"eof", "gone"} : ClientShut(s, how)
      PROVE  Done
  <2>1. UNCHANGED <<wire, link, rid, told, list>>
    BY <1>8 DEF DrainSome, ClientWrite, ClientShut, sockVars, linkVars
  <2> QED BY <1>5, <2>1
<1>9. ASSUME NEW s \in Sock, DrainFailed(s) \/ ReadSome(s) \/ ReadEof(s) PROVE Done
  <2>1. s[1] \in End BY SockIs
  <2>2. \E ms \in Seq(Message) : \E S : Ends(s[1], ms, S) BY <1>9, FailedEnds, ReadEnds
  <2> QED BY <2>1, <2>2
<1> HIDE DEF Done
<1>10. \/ LinkUp \/ LinkLost \/ Done
       \/ \E early \in BOOLEAN : ClientOpen(early)
       \/ \E e \in End : OpenAccepted(e)
  BY <1>2, <1>3, <1>4, <1>6, <1>7, <1>8, <1>9 DEF Next, Handle, Event
<1> QED BY <1>10 DEF Done

-----------------------------------------------------------------------------
(* The steps that open a link or a stream.                                 *)

LEMMA LinkEnds == ASSUME OInv, Next, LinkUp \/ LinkLost PROVE Ended' /\ Asked' /\ Orphans'
<1>0. CInv /\ TypeOK /\ Session /\ Ended BY DEF OInv, CInv
<1>1. "host" \in End /\ "device" \in End BY DEF End
<1>2. CASE LinkUp
  <2>1. wire'["host"] = <<Msg("CNXN", 0, 0, <<>>)>> /\ wire'["device"] = <<>>
    BY <1>0, <1>1, <1>2 DEF LinkUp, TypeOK
  <2>2. Ended' BY <2>1, NoneIn DEF Ended, Ending
  <2>3. Asked' BY <2>1, OneMsg DEF Asked
  <2>4. \A s \in Sock : list'[s] # "local"
    <3> SUFFICES ASSUME NEW s \in Sock PROVE list'[s] # "local" OBVIOUS
    <3>1. s[1] \in End BY SockIs
    <3>2. ~online[s[1]] /\ ~sweep[s[1]] /\ UNCHANGED list BY <1>2, <3>1 DEF LinkUp, sockVars
    <3> QED BY <1>0, <3>1, <3>2 DEF Session
  <2>5. Orphans' BY <2>4 DEF Orphans
  <2> QED BY <2>2, <2>3, <2>5
<1>3. CASE LinkLost
  <2>1. link' = "down" BY <1>3 DEF LinkLost
  <2>2. Asked' /\ Orphans' BY <2>1 DEF Asked, Orphans
  <2>3. ASSUME NEW i \in Id, Ending("device", i)' PROVE Gone(i)'
    <3>1. PICK n \in 0..Len(wire["device"]) :
            wire'["device"] = SubSeq(wire["device"], 1, n) \o <<Msg("SYNC", 0, 0, <<>>)>>
      BY <1>0, <1>1, <1>3, LostFrom
    <3>2. In(wire'["device"], "CLSE", 0, i) BY <2>3 DEF Ending
    <3>3. In(wire["device"], "CLSE", 0, i) BY <1>0, <1>1, <3>1, <3>2, LostIs
    <3>4. Gone(i) BY <1>0, <3>3 DEF Ended, Ending
    <3> QED BY <1>0, <3>4, GoneStays
  <2>4. Ended' BY <2>3 DEF Ended
  <2> QED BY <2>2, <2>4
<1> QED BY <1>2, <1>3

LEMMA ClientEnds ==
  ASSUME OInv, Next, NEW early \in BOOLEAN, ClientOpen(early)
  PROVE  Ended' /\ Asked' /\ Orphans'
<1>0. CInv /\ TypeOK /\ Asked /\ Orphans BY DEF OInv, CInv
<1>1. PICK n \in Id : n = nextId["host"] BY <1>0, ClientIs
<1>2. PICK h : h = Host(nextId["host"]) OBVIOUS
<1>3. PICK ms : ms = <<Msg("OPEN", n, 0, <<>>)>> OBVIOUS
<1>4. "host" \in End /\ Send("host", ms) /\ UNCHANGED <<link, rid>>
  BY <1>0, <1>1, <1>3, ClientIs DEF End
<1>5. /\ h \in Sock /\ list[h] = "none"
      /\ \A t \in Sock : list'[t] = IF t = h THEN (IF early THEN "freed" ELSE "local")
                                             ELSE list[t]
  BY <1>0, <1>2, ClientIs
<1>6. \A t \in Sock : told'[t] = IF t = h THEN (IF early THEN "fail" ELSE "none") ELSE told[t]
  BY <1>0, <1>2 DEF ClientOpen, NewSocket, Host, TypeOK
<1>7. ms \in Seq(Message) BY <1>3, IdTypes, OpenMsg
<1>8. Acts("host", ms) BY <1>4, <1>7 DEF Acts
<1>9. Ended' BY <1>4, <1>8, EndedKept
<1>10. ASSUME link' = "up", NEW i \in Id, In(wire'["host"], "OPEN", i, 0)
       PROVE  list'[Host(i)] = "local" \/ told'[Host(i)] = "fail"
  <2>1. Host(i) \in Sock BY SockIs
  <2>2. CASE Host(i) = h BY <1>5, <1>6, <2>1, <2>2
  <2>3. CASE Host(i) # h
    <3>1. i # n BY <1>1, <1>2, <2>3
    <3>2. In(wire["host"], "OPEN", i, 0) BY <1>0, <1>1, <1>10, <3>1, OpensOld
    <3>3. link = "up" BY <1>4, <1>10
    <3>4. list[Host(i)] = "local" \/ told[Host(i)] = "fail" BY <1>0, <3>2, <3>3 DEF Asked
    <3> QED BY <1>5, <1>6, <2>1, <2>3, <3>4
  <2> QED BY <2>2, <2>3
<1>11. Asked' BY <1>10 DEF Asked
<1>12. ASSUME link' = "up", NEW x \in Sock, NEW y \in Sock, Mates(x, y)', list'[x] = "local"
       PROVE  list'[y] = "local" \/ told'[y] = "fail" \/ Ending(y[1], x[2])'
  <2>1. Mates(x, y) BY <1>4, <1>12 DEF Mates
  <2>2. list[x] # "none" /\ list[y] # "none" BY <1>0, <2>1, MatesAre
  <2>3. x # h /\ y # h BY <1>5, <2>2
  <2>4. list[x] = "local" /\ link = "up" BY <1>4, <1>5, <1>12, <2>3
  <2>5. list[y] = "local" \/ told[y] = "fail" \/ Ending(y[1], x[2])
    BY <1>0, <2>1, <2>4 DEF Orphans
  <2>6. Ending(y[1], x[2]) => Ending(y[1], x[2])'
    <3>1. y[1] \in End /\ x[2] \in Id BY SockIs
    <3>2. CASE y[1] = "host"
      <4>1. wire'["host"] = Sent("host", ms) BY <1>0, <1>4, SendWire
      <4> QED BY <1>0, <1>4, <1>7, <3>2, <4>1, SentIn DEF Ending
    <3>3. CASE y[1] = "device"
      <4>1. wire'["device"] = wire["device"] BY <1>0, <1>4, SendWire DEF Far
      <4> QED BY <3>3, <4>1 DEF Ending
    <3> QED BY <3>1, <3>2, <3>3 DEF End
  <2> QED BY <1>5, <1>6, <2>3, <2>5, <2>6
<1>13. Orphans' BY <1>12 DEF Orphans
<1> QED BY <1>9, <1>11, <1>13

LEMMA AcceptedEnds ==
  ASSUME OInv, Next, NEW e \in End, OpenAccepted(e)
  PROVE  Ended' /\ Asked' /\ Orphans'
<1>0. CInv /\ TypeOK /\ Asked /\ Orphans BY DEF OInv, CInv
<1>1. PICK m : m = Head(wire[Far(e)]) OBVIOUS
<1>2. PICK d : d = Device(nextId["device"]) OBVIOUS
<1>3. PICK n \in Id : n = nextId["device"] BY <1>0, <1>1, <1>2, AcceptedIs
<1>4. PICK ms : ms = <<Msg("OKAY", n, m.arg0, <<>>)>> OBVIOUS
<1>5. /\ e = "device" /\ Far(e) = "host" /\ Arrives(e, "OPEN") /\ m.cmd = "OPEN"
      /\ m.arg0 \in Id /\ m.arg1 = 0 /\ d \in Sock /\ Reply(e, ms) /\ UNCHANGED link
  BY <1>0, <1>1, <1>2, <1>3, <1>4, AcceptedIs
<1>6. /\ \A t \in Sock : list'[t] = IF t = d THEN "local" ELSE list[t]
      /\ \A t \in Sock : rid'[t] = IF t = d THEN m.arg0 ELSE rid[t]
  BY <1>0, <1>1, <1>2, AcceptedSocks
<1>7. UNCHANGED told BY DEF OpenAccepted
<1>8. ms \in Seq(Message) BY <1>3, <1>4, <1>5, IdTypes, OkayMsg
<1>9. Acts(e, ms) BY <1>5, <1>8 DEF Acts, Greets, Arrives
<1>10. \A i \in Id : ~In(ms, "CLSE", 0, i) /\ ~In(ms, "OPEN", i, 0) BY <1>4, OneMsg
<1>11. Ended' BY <1>9, <1>10, EndedKept
<1>12. ASSUME link' = "up", NEW i \in Id, In(wire'["host"], "OPEN", i, 0)
       PROVE  list'[Host(i)] = "local" \/ told'[Host(i)] = "fail"
  <2>1. In(wire["host"], "OPEN", i, 0) BY <1>0, <1>5, <1>9, <1>10, <1>12, ActsIn DEF End
  <2>2. list[Host(i)] = "local" \/ told[Host(i)] = "fail" BY <1>0, <1>5, <1>12, <2>1 DEF Asked
  <2>3. Host(i) \in Sock /\ Host(i) # d BY <1>2, SockIs DEF Host, Device
  <2> QED BY <1>6, <1>7, <2>2, <2>3
<1>13. Asked' BY <1>12 DEF Asked
<1>14. list[Host(m.arg0)] = "local" \/ told[Host(m.arg0)] = "fail" \/ link # "up"
  <2>1. wire["host"] \in Seq(Message) /\ wire["host"] # <<>> /\ m = Head(wire["host"])
    BY <1>0, <1>1, <1>5 DEF TypeOK, Arrives, End
  <2>2. m = wire["host"][1] /\ 1 \in 1..Len(wire["host"]) BY <2>1, TailElems
  <2>3. Is(m, "OPEN", m.arg0, 0) BY <1>5 DEF Is
  <2>4. In(wire["host"], "OPEN", m.arg0, 0) BY <2>2, <2>3 DEF In
  <2> QED BY <1>0, <1>5, <2>4 DEF Asked
<1>15. ASSUME link' = "up", NEW x \in Sock, NEW y \in Sock, Mates(x, y)', list'[x] = "local"
       PROVE  list'[y] = "local" \/ told'[y] = "fail" \/ Ending(y[1], x[2])'
  <2>0. link = "up" /\ d[1] = "device" BY <1>2, <1>5, <1>15 DEF Device
  <2>1. CASE y = d BY <1>6, <2>1
  <2>2. CASE x = d
    <3>1. y[1] = "host" /\ y[2] = m.arg0 BY <1>5, <1>6, <1>15, <2>0, <2>2 DEF Mates
    <3>2. y = Host(m.arg0) /\ y # d BY <2>0, <3>1, SockIs DEF Host
    <3> QED BY <1>6, <1>7, <1>14, <2>0, <3>2
  <2>3. CASE x # d /\ y # d
    <3>1. Mates(x, y) BY <1>6, <1>15, <2>3 DEF Mates
    <3>2. list[x] = "local" BY <1>6, <1>15, <2>3
    <3>3. list[y] = "local" \/ told[y] = "fail" \/ Ending(y[1], x[2])
      BY <1>0, <2>0, <3>1, <3>2 DEF Orphans
    <3>4. Ending(y[1], x[2]) => Ending(y[1], x[2])'
      <4>1. y[1] \in End BY SockIs
      <4>2. ~Is(Head(wire[Far(e)]), "CLSE", 0, x[2]) BY <1>1, <1>5 DEF Is
      <4>3. y[1] = Far(e) => ~Is(Head(wire[y[1]]), "CLSE", 0, x[2]) BY <4>2
      <4> QED BY <1>0, <1>9, <4>1, <4>3, ActsIn DEF Ending
    <3> QED BY <1>6, <1>7, <2>3, <3>3, <3>4
  <2> QED BY <2>1, <2>2, <2>3
<1>16. Orphans' BY <1>15 DEF Orphans
<1> QED BY <1>11, <1>13, <1>16

LEMMA OInvNext == ASSUME OInv, Next PROVE OInv'
<1>1. CInv' BY CInvNext DEF OInv
<1>2. ASSUME NEW e \in End, NEW ms \in Seq(Message), NEW S, Ends(e, ms, S)
      PROVE  Ended' /\ Asked' /\ Orphans'
  <2>1. Acts(e, ms) /\ \A i \in Id : e = "device" /\ In(ms, "CLSE", 0, i) => Gone(i)'
    BY <1>2 DEF Ends
  <2>2. Ended' BY <2>1, EndedKept
  <2> QED BY <1>2, <2>2, AskedKept, OrphansKept
<1>3. Ended' /\ Asked' /\ Orphans'
  BY <1>2, EndsSteps, LinkEnds, ClientEnds, AcceptedEnds
<1> QED BY <1>1, <1>3, WaitingNext, GreetingNext DEF OInv

LEMMA OrphanInvariant == Spec => []OInv
<1>1. OInv /\ [Next]_vars => OInv' BY OInvNext, OInvStutters
<1> QED BY OInvInit, <1>1, PTL DEF Spec

(* No stream is left half open (NoOrphan): while the cable holds, an open  *)
(* socket has its far socket open, or a CLSE for it is on its way, or its  *)
(* far socket was the host's and the client was failed before the OKAY.    *)
THEOREM NoneOrphaned == Spec => []NoOrphan
<1>1. ASSUME OInv PROVE NoOrphan
  <2>0. CInv /\ TypeOK /\ Orphans BY <1>1 DEF OInv, CInv
  <2> SUFFICES ASSUME NEW s \in Sock, link = "up", list[s] = "local", peer[s], NEW o, o = Opposite(s)
               PROVE  \/ list[o] = "local"
                      \/ told[o] = "fail"
                      \/ \E k \in DOMAIN wire[o[1]] : /\ wire[o[1]][k].cmd = "CLSE"
                                                      /\ wire[o[1]][k].arg1 = s[2]
    BY DEF NoOrphan
  <2>1. rid[s] \in Id BY <2>0 DEF CInv, Sockets, TypeOK, Id
  <2>2. s[1] \in End /\ s[2] \in Id /\ s = <<s[1], s[2]>> BY SockIs
  <2>3. o \in Sock /\ o[1] = Far(s[1]) /\ o[1] \in End /\ o[2] = rid[s] /\ o = <<o[1], o[2]>>
    BY <2>1, <2>2, SockIs, EndFacts DEF Opposite
  <2>4. Mates(s, o)
    <3>1. CASE s[1] = "host"
      <4>1. s = Host(s[2]) /\ o = Device(rid[s])
        BY <2>2, <2>3, <3>1 DEF Host, Device, Far
      <4>2. rid[s] # 0 BY <2>1, SockIs
      <4>3. rid[o] = s[2] BY <2>0, <2>2, <4>1, <4>2 DEF CInv, Pairs
      <4> QED BY <2>3, <3>1, <4>3 DEF Mates, Far
    <3>2. CASE s[1] = "device" BY <2>3, <3>2 DEF Mates, Far
    <3> QED BY <2>2, <3>1, <3>2 DEF End
  <2>5. list[o] = "local" \/ told[o] = "fail" \/ Ending(o[1], s[2])
    BY <2>0, <2>3, <2>4 DEF Orphans
  <2>6. ASSUME Ending(o[1], s[2])
        PROVE  \E k \in DOMAIN wire[o[1]] : /\ wire[o[1]][k].cmd = "CLSE"
                                            /\ wire[o[1]][k].arg1 = s[2]
    <3>1. DOMAIN wire[o[1]] = 1..Len(wire[o[1]]) BY <2>0, <2>3 DEF TypeOK
    <3> QED BY <2>6, <3>1 DEF Ending, In, Is
  <2> QED BY <2>5, <2>6
<1> QED BY <1>1, OrphanInvariant, PTL
=============================================================================
