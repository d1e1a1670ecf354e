--------------------------- MODULE AdbStreamProofs ---------------------------
(***************************************************************************)
(* Theorems about AdbStream for every MaxId, MaxUnits, MaxPayload and      *)
(* MaxLinks: the types, then its flow control and its routing.             *)
(***************************************************************************)
EXTENDS AdbStream, TLAPS, SequenceTheorems, FiniteSetTheorems

USE StreamAssumption DEF StreamAssumption

-----------------------------------------------------------------------------
(* Helpers: the ends, and what the queues and messages are made of.        *)

LEMMA EndFacts ==
  ASSUME NEW e \in End
  PROVE  Far(e) \in End /\ Far(e) # e /\ Far(Far(e)) = e
BY DEF End, Far

LEMMA ZeroId == 0 \in 0..MaxId
OBVIOUS

LEMMA NoMsgs == <<>> \in Seq(Message) /\ <<>> \in Seq(Unit)
OBVIOUS

LEMMA PlainMsg ==
  ASSUME NEW cmd \in {"CNXN", "OPEN", "OKAY", "CLSE", "WRTE", "SYNC"},
         NEW a \in 0..MaxId, NEW b \in 0..MaxId
  PROVE  <<Msg(cmd, a, b, <<>>)>> \in Seq(Message)
BY NoMsgs DEF Msg, Message

LEMMA SubSeqType ==
  ASSUME NEW S, NEW q \in Seq(S), NEW m \in Nat, NEW n \in Nat,
         m >= 1, n <= Len(q)
  PROVE  SubSeq(q, m, n) \in Seq(S)
BY SubSeqProperties, Z3

LEMMA RestType ==
  ASSUME NEW q \in Seq(Unit), NEW k \in Nat, k <= Len(q)
  PROVE  SubSeq(q, 1, k) \in Seq(Unit) /\ Rest(q, k) \in Seq(Unit)
<1>1. Len(q) \in Nat  BY LenProperties
<1>2. SubSeq(q, 1, k) \in Seq(Unit)  BY SubSeqType
<1>3. SubSeq(q, k + 1, Len(q)) \in Seq(Unit)  BY <1>1, SubSeqType
<1> QED  BY <1>2, <1>3 DEF Rest

LEMMA SentType ==
  ASSUME TypeOK, NEW e \in End, NEW ms \in Seq(Message)
  PROVE  Sent(e, ms) \in Seq(Message)
BY ConcatProperties DEF TypeOK, Sent

LEMMA SendType ==
  ASSUME TypeOK, NEW e \in End, NEW ms \in Seq(Message), Send(e, ms)
  PROVE  wire' \in [End -> Seq(Message)]
BY SentType DEF TypeOK, Send

LEMMA ReplyType ==
  ASSUME TypeOK, NEW e \in End, NEW ms \in Seq(Message), Reply(e, ms),
         wire[Far(e)] # <<>>
  PROVE  wire' \in [End -> Seq(Message)]
<1>1. Tail(wire[Far(e)]) \in Seq(Message)
  BY EndFacts, HeadTailProperties DEF TypeOK
<1> QED  BY <1>1, SentType, EndFacts DEF TypeOK, Reply

(* The message at the head of a wire.                                      *)
LEMMA ArrivesType ==
  ASSUME TypeOK, NEW e \in End, wire[Far(e)] # <<>>
  PROVE  /\ Head(wire[Far(e)]) \in Message
         /\ Head(wire[Far(e)]).arg0 \in 0..MaxId
         /\ Head(wire[Far(e)]).arg1 \in 0..MaxId
         /\ Head(wire[Far(e)]).data \in Seq(Unit)
<1>1. Head(wire[Far(e)]) \in Message
  BY EndFacts, HeadTailProperties DEF TypeOK
<1> QED  BY <1>1 DEF Message

LEMMA CloseMsgsType ==
  ASSUME TypeOK, NEW s \in Sock
  PROVE  CloseMsgs(s) \in Seq(Message)
BY ZeroId, PlainMsg, NoMsgs DEF TypeOK, CloseMsgs

(* The sockets' part of TypeOK, which every close preserves.               *)
SocketsOK ==
  /\ nextId \in [End -> 1..MaxId + 1]
  /\ list \in [Sock -> {"none", "local", "closing", "freed"}]
  /\ peer \in [Sock -> BOOLEAN]
  /\ rid \in [Sock -> 0..MaxId]
  /\ pkts \in [Sock -> Seq(Unit)]
  /\ rd \in [Sock -> BOOLEAN]
  /\ wr \in [Sock -> BOOLEAN]
  /\ notify \in [Sock -> BOOLEAN]

LEMMA CloseType ==
  ASSUME TypeOK, NEW S, CloseSockets(S)
  PROVE  SocketsOK'
BY NoMsgs DEF TypeOK, CloseSockets, SocketsOK

LEMMA TellType ==
  ASSUME TypeOK, NEW S, Tell(S)
  PROVE  told' \in [Sock -> {"none", "okay", "fail"}]
BY DEF TypeOK, Tell

LEMMA ReadDataType ==
  ASSUME TypeOK, NEW s \in Sock
  PROVE  /\ ReadData(s) \in Seq(Message)
         /\ Available(s) \in Nat
         /\ taken[s] + Available(s) <= wrote[s]
<1> DEFINE n == Available(s)
           data == [k \in 1..n |-> taken[s] + k]
<1>1. n \in Nat /\ taken[s] + n <= wrote[s]
  BY DEF TypeOK, Available
<1>2. data \in [1..n -> Unit]
  BY <1>1 DEF TypeOK, Unit
<1>3. data \in Seq(Unit)
  BY <1>1, <1>2, SeqDef
<1>4. <<Msg("WRTE", s[2], rid[s], data)>> \in Seq(Message)
  BY <1>3 DEF TypeOK, Sock, Id, Msg, Message
<1> QED  BY <1>1, <1>4, NoMsgs DEF ReadData

LEMMA InitType == Init => TypeOK
BY NoMsgs DEF Init, TypeOK

LEMMA NextType == TypeOK /\ [Next]_vars => TypeOK'
<1> SUFFICES ASSUME TypeOK, [Next]_vars PROVE TypeOK'
  OBVIOUS
<1>1. ASSUME LinkUp PROVE TypeOK'
  <2>1. <<Msg("CNXN", 0, 0, <<>>)>> \in Seq(Message)
    BY ZeroId, PlainMsg
  <2>2. wire' \in [End -> Seq(Message)]
    BY <1>1, <2>1 DEF LinkUp, TypeOK
  <2>3. links' \in 0..MaxLinks
    BY <1>1 DEF LinkUp, TypeOK
  <2> QED  BY <1>1, <2>2, <2>3 DEF LinkUp, TypeOK, sockVars, clientVars
<1>2. ASSUME LinkLost PROVE TypeOK'
  <2>1. <<Msg("SYNC", 0, 0, <<>>)>> \in Seq(Message)
    BY ZeroId, PlainMsg
  <2>2. ASSUME NEW e \in End, NEW n \in 0..Len(wire[e])
        PROVE  SubSeq(wire[e], 1, n) \o <<Msg("SYNC", 0, 0, <<>>)>>
                 \in Seq(Message)
    BY <2>1, <2>2, SubSeqType, ConcatProperties DEF TypeOK
  <2>3. wire' \in [End -> Seq(Message)]
    BY <1>2, <2>2 DEF LinkLost, End
  <2> QED  BY <1>2, <2>3 DEF LinkLost, TypeOK, sockVars, clientVars
<1>3. ASSUME NEW e \in End, HandleSync(e) PROVE TypeOK'
  <2>1. SocketsOK' /\ told' \in [Sock -> {"none", "okay", "fail"}]
    BY <1>3, CloseType, TellType DEF HandleSync
  <2>2. wire' \in [End -> Seq(Message)]
    BY <1>3, NoMsgs, ReplyType DEF HandleSync, Arrives
  <2> QED  BY <1>3, <2>1, <2>2 DEF HandleSync, TypeOK, SocketsOK, clientVars
<1>4. ASSUME NEW e \in End, CloseAllSockets(e) PROVE TypeOK'
  <2>1. SocketsOK'  BY <1>4, CloseType DEF CloseAllSockets
  <2> QED
    BY <1>4, <2>1 DEF CloseAllSockets, TypeOK, SocketsOK, clientVars
<1>5. ASSUME NEW e \in End, HandleCnxn(e) PROVE TypeOK'
  <2>1. SocketsOK' /\ told' \in [Sock -> {"none", "okay", "fail"}]
    BY <1>5, CloseType, TellType DEF HandleCnxn
  <2>2. wire' \in [End -> Seq(Message)]
    BY <1>5, NoMsgs, ZeroId, PlainMsg, ReplyType DEF HandleCnxn, Arrives
  <2> QED  BY <1>5, <2>1, <2>2 DEF HandleCnxn, TypeOK, SocketsOK, clientVars
<1>6. ASSUME NEW early \in BOOLEAN, ClientOpen(early) PROVE TypeOK'
  <2> DEFINE i == nextId["host"]
  <2>1. i \in Id /\ NewSocket("host") \in Sock /\ "host" \in End
    BY <1>6 DEF ClientOpen, Sock, End, NewSocket
  <2>3. i \in 0..MaxId /\ i + 1 \in 1..MaxId + 1
    BY <2>1 DEF Id
  <2>2. wire' \in [End -> Seq(Message)]
    BY <1>6, <2>1, <2>3, ZeroId, PlainMsg, SendType DEF ClientOpen, NewSocket
  <2> QED  BY <1>6, <2>1, <2>2, <2>3 DEF ClientOpen, TypeOK, linkVars
<1>7. ASSUME NEW e \in End, OpenAccepted(e) PROVE TypeOK'
  <2> DEFINE m == Head(wire[Far(e)])
             s == NewSocket(e)
  <2>1. nextId[e] \in Id /\ s \in Sock /\ m.arg0 \in 0..MaxId
    BY <1>7, ArrivesType DEF OpenAccepted, Arrives, Sock, NewSocket
  <2>4. nextId[e] \in 0..MaxId /\ nextId[e] + 1 \in 1..MaxId + 1
    BY <2>1 DEF Id
  <2>2. SendReady(s[2], m.arg0) \in Seq(Message)
    BY <2>1, <2>4, PlainMsg DEF SendReady, NewSocket
  <2>3. wire' \in [End -> Seq(Message)]
    BY <1>7, <2>2, ReplyType DEF OpenAccepted, Arrives
  <2> QED
    BY <1>7, <2>1, <2>3, <2>4 DEF OpenAccepted, TypeOK, linkVars, clientVars
<1>8. ASSUME NEW e \in End, OpenRefused(e) PROVE TypeOK'
  <2>1. SendClose(Head(wire[Far(e)]).arg0) \in Seq(Message)
    BY <1>8, ArrivesType, ZeroId, PlainMsg DEF OpenRefused, Arrives, SendClose
  <2>2. wire' \in [End -> Seq(Message)]
    BY <1>8, <2>1, ReplyType DEF OpenRefused, Arrives
  <2> QED
    BY <1>8, <2>2
    DEF OpenRefused, TypeOK, sockVars, linkVars, clientVars
<1>9. ASSUME NEW e \in End, HandleOkay(e) PROVE TypeOK'
  <2>1. <<e, Head(wire[Far(e)]).arg1>> \in Sock
    BY <1>9 DEF HandleOkay, Found, Sock
  <2>2. wire' \in [End -> Seq(Message)]
    BY <1>9, NoMsgs, ReplyType DEF HandleOkay, Arrives
  <2>3. Head(wire[Far(e)]).arg0 \in 0..MaxId
    BY <1>9, ArrivesType DEF HandleOkay, Arrives
  <2> QED
    BY <1>9, <2>1, <2>2, <2>3 DEF HandleOkay, TypeOK, linkVars, clientVars
<1>10. ASSUME NEW e \in End, HandleClse(e) PROVE TypeOK'
  <2> DEFINE s == <<e, Head(wire[Far(e)]).arg1>>
  <2>1. s \in Sock
    BY <1>10 DEF HandleClse, Found, Sock
  <2>2. SocketsOK' /\ told' \in [Sock -> {"none", "okay", "fail"}]
    BY <1>10, CloseType, TellType DEF HandleClse
  <2>3. wire' \in [End -> Seq(Message)]
    BY <1>10, <2>1, CloseMsgsType, ReplyType DEF HandleClse, Arrives
  <2> QED
    BY <1>10, <2>2, <2>3
    DEF HandleClse, TypeOK, SocketsOK, linkVars, clientVars
<1>11. ASSUME NEW e \in End, Ignore(e) PROVE TypeOK'
  <2>1. wire' \in [End -> Seq(Message)]
    BY <1>11, NoMsgs, ReplyType DEF Ignore
  <2> QED
    BY <1>11, <2>1 DEF Ignore, TypeOK, sockVars, linkVars, clientVars
<1>12. ASSUME NEW e \in End, WrteWritten(e) PROVE TypeOK'
  <2> DEFINE m == Head(wire[Far(e)])
             s == <<e, m.arg1>>
  <2>1. /\ s \in Sock /\ s[2] \in 0..MaxId
        /\ m.arg0 \in 0..MaxId /\ m.data \in Seq(Unit)
    BY <1>12, ArrivesType DEF WrteWritten, Arrives, Found, Sock, Id
  <2>2. SendReady(s[2], m.arg0) \in Seq(Message)
    BY <2>1, PlainMsg DEF SendReady
  <2>3. wire' \in [End -> Seq(Message)]
    BY <1>12, <2>2, ReplyType DEF WrteWritten, Arrives
  <2>4. got' \in [Sock -> Seq(Unit)]
    BY <1>12, <2>1, ConcatProperties DEF WrteWritten, TypeOK
  <2> QED
    BY <1>12, <2>3, <2>4
    DEF WrteWritten, TypeOK, sockVars, linkVars, clientVars
<1>13. ASSUME NEW e \in End, WrteQueued(e) PROVE TypeOK'
  <2> DEFINE m == Head(wire[Far(e)])
             s == <<e, m.arg1>>
  <2>1. s \in Sock /\ m.data \in Seq(Unit)
    BY <1>13, ArrivesType DEF WrteQueued, Arrives, Found, Sock, Id
  <2>2. wire' \in [End -> Seq(Message)]
    BY <1>13, NoMsgs, ReplyType DEF WrteQueued, Arrives
  <2>3. PICK k \in 0..Len(m.data) - 1 :
          /\ got' = [got EXCEPT ![s] = @ \o SubSeq(m.data, 1, k)]
          /\ pkts' = [pkts EXCEPT
                        ![s] = @ \o Rest(m.data, k)]
    BY <1>13 DEF WrteQueued
  <2>4. /\ SubSeq(m.data, 1, k) \in Seq(Unit)
        /\ Rest(m.data, k) \in Seq(Unit)
    <3>1. Len(m.data) \in Nat  BY <2>1, LenProperties
    <3>2. k \in Nat /\ k <= Len(m.data)  BY <3>1
    <3> QED  BY <2>1, <3>2, RestType
  <2>5. got' \in [Sock -> Seq(Unit)] /\ pkts' \in [Sock -> Seq(Unit)]
    BY <2>1, <2>3, <2>4, ConcatProperties DEF TypeOK
  <2> QED
    BY <1>13, <2>1, <2>2, <2>5 DEF WrteQueued, TypeOK, linkVars, clientVars
<1>14. ASSUME NEW e \in End, WrteFailed(e) PROVE TypeOK'
  <2> DEFINE s == <<e, Head(wire[Far(e)]).arg1>>
  <2>1. s \in Sock
    BY <1>14 DEF WrteFailed, Found, Sock
  <2>2. SocketsOK' /\ told' \in [Sock -> {"none", "okay", "fail"}]
    BY <1>14, CloseType, TellType DEF WrteFailed
  <2>3. wire' \in [End -> Seq(Message)]
    BY <1>14, <2>1, CloseMsgsType, ReplyType DEF WrteFailed, Arrives
  <2> QED
    BY <1>14, <2>2, <2>3
    DEF WrteFailed, TypeOK, SocketsOK, linkVars, clientVars
<1>15. ASSUME NEW s \in Sock, DrainSome(s) PROVE TypeOK'
  <2>1. PICK k \in 1..Len(pkts[s]) - 1 :
          /\ got' = [got EXCEPT ![s] = @ \o SubSeq(pkts[s], 1, k)]
          /\ pkts' = [pkts EXCEPT ![s] = Rest(@, k)]
    BY <1>15 DEF DrainSome
  <2>2. pkts[s] \in Seq(Unit) /\ Len(pkts[s]) \in Nat
    BY LenProperties DEF TypeOK
  <2>3. k \in Nat /\ k <= Len(pkts[s])  BY <2>2
  <2>4. /\ SubSeq(pkts[s], 1, k) \in Seq(Unit)
        /\ Rest(pkts[s], k) \in Seq(Unit)
    BY <2>2, <2>3, RestType
  <2>5. got' \in [Sock -> Seq(Unit)] /\ pkts' \in [Sock -> Seq(Unit)]
    BY <2>1, <2>4, ConcatProperties DEF TypeOK
  <2> QED  BY <1>15, <2>5 DEF DrainSome, TypeOK, linkVars, clientVars
<1>16. ASSUME NEW s \in Sock, DrainAll(s) PROVE TypeOK'
  <2>1. s[1] \in End /\ s[2] \in 0..MaxId  BY DEF Sock, Id
  <2>2. RemoteReady(s) \in Seq(Message)
    BY <2>1, PlainMsg DEF TypeOK, RemoteReady
  <2>3. wire' \in [End -> Seq(Message)]
    BY <1>16, <2>1, <2>2, SendType DEF DrainAll
  <2>4. got' \in [Sock -> Seq(Unit)] /\ pkts' \in [Sock -> Seq(Unit)]
    BY <1>16, NoMsgs, ConcatProperties DEF TypeOK, DrainAll
  <2> QED  BY <1>16, <2>3, <2>4 DEF DrainAll, TypeOK, linkVars, clientVars
<1>17. ASSUME NEW s \in Sock, DrainLast(s) PROVE TypeOK'
  <2>1. SocketsOK'  BY <1>17, CloseType DEF DrainLast
  <2>2. got' \in [Sock -> Seq(Unit)]
    BY <1>17, ConcatProperties DEF TypeOK, DrainLast
  <2> QED
    BY <1>17, <2>1, <2>2 DEF DrainLast, TypeOK, SocketsOK, linkVars, clientVars
<1>18. ASSUME NEW s \in Sock, DrainFailed(s) PROVE TypeOK'
  <2>1. SocketsOK' /\ told' \in [Sock -> {"none", "okay", "fail"}]
    BY <1>18, CloseType, TellType DEF DrainFailed
  <2>2. wire' \in [End -> Seq(Message)]
    BY <1>18, CloseMsgsType, SendType DEF DrainFailed, Sock
  <2> QED
    BY <1>18, <2>1, <2>2
    DEF DrainFailed, TypeOK, SocketsOK, linkVars, clientVars
<1>19. ASSUME NEW s \in Sock, ReadSome(s) PROVE TypeOK'
  <2>1. wire' \in [End -> Seq(Message)]
    <3>1. s[1] \in End /\ Send(s[1], ReadData(s)) BY <1>19 DEF ReadSome, Sock
    <3> QED BY <3>1, ReadDataType, SendType
  <2>2. taken[s] + Available(s) \in 0..wrote[s]
    <3>1. taken[s] \in Nat /\ wrote[s] \in Nat BY StreamAssumption DEF TypeOK
    <3> QED BY <3>1, ReadDataType
  <2>3. taken' \in [Sock -> 0..MaxUnits]
        /\ \A x \in Sock : taken'[x] <= wrote[x]
    BY <1>19, <2>2 DEF ReadSome, TypeOK
  <2>4. rd' \in [Sock -> BOOLEAN]
    BY <1>19 DEF ReadSome, ReadsOn, TypeOK
  <2> QED
    BY <1>19, <2>1, <2>3, <2>4 DEF ReadSome, TypeOK, linkVars, clientVars
<1>20. ASSUME NEW s \in Sock, ReadEof(s) PROVE TypeOK'
  <2>1. SocketsOK' /\ told' \in [Sock -> {"none", "okay", "fail"}]
    BY <1>20, CloseType, TellType DEF ReadEof
  <2>2. wire' \in [End -> Seq(Message)]
    <3>1. ReadData(s) \o CloseMsgs(s) \in Seq(Message)
      BY ReadDataType, CloseMsgsType, ConcatProperties
    <3>2. s[1] \in End /\ Send(s[1], ReadData(s) \o CloseMsgs(s))
      BY <1>20 DEF ReadEof, Sock
    <3> QED BY <3>1, <3>2, SendType
  <2>3. taken[s] + Available(s) \in 0..wrote[s]
    <3>1. taken[s] \in Nat /\ wrote[s] \in Nat BY StreamAssumption DEF TypeOK
    <3> QED BY <3>1, ReadDataType
  <2>4. taken' \in [Sock -> 0..MaxUnits]
        /\ \A x \in Sock : taken'[x] <= wrote[x]
    BY <1>20, <2>3 DEF ReadEof, TypeOK
  <2> QED
    BY <1>20, <2>1, <2>2, <2>4
    DEF ReadEof, TypeOK, SocketsOK, linkVars, clientVars
<1>21. ASSUME NEW s \in Sock, ClientWrite(s) PROVE TypeOK'
  BY <1>21 DEF ClientWrite, TypeOK, sockVars, linkVars
<1>22. ASSUME NEW s \in Sock, NEW how \in {"eof", "gone"}, ClientShut(s, how)
       PROVE  TypeOK'
  BY <1>22 DEF ClientShut, TypeOK, sockVars, linkVars
<1>23. ASSUME UNCHANGED vars PROVE TypeOK'
  BY <1>23 DEF vars, sockVars, linkVars, clientVars, TypeOK
<1> QED
  BY <1>1, <1>2, <1>3, <1>4, <1>5, <1>6, <1>7, <1>8, <1>9, <1>10, <1>11,
     <1>12, <1>13, <1>14, <1>15, <1>16, <1>17, <1>18, <1>19, <1>20, <1>21,
     <1>22, <1>23
  DEF Next, Handle, Event

(* Every variable keeps its type whatever the ends, the clients and the    *)
(* cable do: in particular ids stay within those the ends have given out,  *)
(* and no socket is read past what its client wrote.                       *)
THEOREM TypeCorrect == Spec => []TypeOK
BY InitType, NextType, PTL DEF Spec

HIDE StreamAssumption DEF StreamAssumption

-----------------------------------------------------------------------------
(* Messages on a wire q, and what becomes of them.                         *)

Is(m, cmd, a, b) == m.cmd = cmd /\ m.arg0 = a /\ m.arg1 = b
In(q, cmd, a, b) == \E k \in 1..Len(q) : Is(q[k], cmd, a, b)
Once(q, cmd, a, b) ==
  \A k, l \in 1..Len(q) : Is(q[k], cmd, a, b) /\ Is(q[l], cmd, a, b) => k = l

LEMMA TailIn ==
  ASSUME NEW q \in Seq(Message), q # <<>>, NEW cmd, NEW a, NEW b
  PROVE  /\ In(Tail(q), cmd, a, b) => In(q, cmd, a, b)
         /\ In(q, cmd, a, b) /\ ~Is(Head(q), cmd, a, b) => In(Tail(q), cmd, a, b)
         /\ Once(q, cmd, a, b) => Once(Tail(q), cmd, a, b)
         /\ Once(q, cmd, a, b) /\ Is(Head(q), cmd, a, b) => ~In(Tail(q), cmd, a, b)
<1>1. /\ Len(q) \in Nat \ {0} /\ Head(q) = q[1] /\ Len(Tail(q)) = Len(q) - 1
      /\ \A k \in 1..Len(q) - 1 : Tail(q)[k] = q[k + 1]
  BY EmptySeq, HeadTailProperties
<1>2. \A k \in 1..Len(q) - 1 : k + 1 \in 1..Len(q) /\ k + 1 # 1 BY <1>1
<1>3. \A k \in 1..Len(q) : k # 1 => k - 1 \in 1..Len(q) - 1 /\ (k - 1) + 1 = k BY <1>1
<1>4. In(Tail(q), cmd, a, b) => In(q, cmd, a, b) BY <1>1, <1>2 DEF In
<1>5. In(q, cmd, a, b) /\ ~Is(Head(q), cmd, a, b) => In(Tail(q), cmd, a, b)
  BY <1>1, <1>3 DEF In
<1>6. Once(q, cmd, a, b) => Once(Tail(q), cmd, a, b) BY <1>1, <1>2 DEF Once
<1>7. Once(q, cmd, a, b) /\ Is(Head(q), cmd, a, b) => ~In(Tail(q), cmd, a, b)
  BY <1>1, <1>2 DEF Once, In
<1> QED BY <1>4, <1>5, <1>6, <1>7

LEMMA ConcatIn ==
  ASSUME NEW q \in Seq(Message), NEW ms \in Seq(Message), NEW cmd, NEW a, NEW b
  PROVE  /\ In(q \o ms, cmd, a, b) <=> In(q, cmd, a, b) \/ In(ms, cmd, a, b)
         /\ Once(q, cmd, a, b) /\ Once(ms, cmd, a, b)
              /\ ~(In(q, cmd, a, b) /\ In(ms, cmd, a, b)) => Once(q \o ms, cmd, a, b)
<1> DEFINE p == q \o ms
<1>1. /\ Len(q) \in Nat /\ Len(ms) \in Nat /\ Len(p) = Len(q) + Len(ms)
      /\ \A k \in 1..Len(q) + Len(ms) : p[k] = IF k <= Len(q) THEN q[k] ELSE ms[k - Len(q)]
  BY ConcatProperties, LenProperties
<1> HIDE DEF p
<1>2. \A k \in 1..Len(q) : k \in 1..Len(p) /\ p[k] = q[k] BY <1>1
<1>3. \A k \in 1..Len(ms) : Len(q) + k \in 1..Len(p) /\ p[Len(q) + k] = ms[k] BY <1>1
<1>4. \A k \in 1..Len(p) : \/ k \in 1..Len(q) /\ p[k] = q[k]
                           \/ k - Len(q) \in 1..Len(ms) /\ p[k] = ms[k - Len(q)]
  BY <1>1
<1>5. In(p, cmd, a, b) <=> In(q, cmd, a, b) \/ In(ms, cmd, a, b)
  BY <1>2, <1>3, <1>4 DEF In
<1>6. ASSUME Once(q, cmd, a, b), Once(ms, cmd, a, b), ~(In(q, cmd, a, b) /\ In(ms, cmd, a, b))
      PROVE  Once(p, cmd, a, b)
  <2> SUFFICES ASSUME NEW k \in 1..Len(p), NEW l \in 1..Len(p),
                      Is(p[k], cmd, a, b), Is(p[l], cmd, a, b)
               PROVE  k = l
    BY DEF Once
  <2>1. CASE k \in 1..Len(q) /\ p[k] = q[k] /\ l \in 1..Len(q) /\ p[l] = q[l]
    BY <1>6, <2>1 DEF Once
  <2>2. CASE /\ k - Len(q) \in 1..Len(ms) /\ p[k] = ms[k - Len(q)]
             /\ l - Len(q) \in 1..Len(ms) /\ p[l] = ms[l - Len(q)]
    <3>1. k - Len(q) = l - Len(q) BY <1>6, <2>2 DEF Once
    <3> QED BY <1>1, <3>1
  <2>3. CASE \/ k \in 1..Len(q) /\ p[k] = q[k] /\ l - Len(q) \in 1..Len(ms) /\ p[l] = ms[l - Len(q)]
             \/ l \in 1..Len(q) /\ p[l] = q[l] /\ k - Len(q) \in 1..Len(ms) /\ p[k] = ms[k - Len(q)]
    BY <1>6, <2>3 DEF In
  <2> QED BY <1>4, <2>1, <2>2, <2>3
<1> QED BY <1>5, <1>6 DEF p

LEMMA NoneIn ==
  ASSUME NEW cmd, NEW a, NEW b
  PROVE  ~In(<<>>, cmd, a, b) /\ Once(<<>>, cmd, a, b)
BY DEF In, Once

LEMMA OneIn ==
  ASSUME NEW m, NEW cmd, NEW a, NEW b
  PROVE  (In(<<m>>, cmd, a, b) <=> Is(m, cmd, a, b)) /\ Once(<<m>>, cmd, a, b)
BY DEF In, Once

(* What LinkLost leaves.                                                   *)
LEMMA PrefixIn ==
  ASSUME NEW q \in Seq(Message), NEW n \in 0..Len(q), NEW cmd, NEW a, NEW b
  PROVE  /\ In(SubSeq(q, 1, n), cmd, a, b) => In(q, cmd, a, b)
         /\ Once(q, cmd, a, b) => Once(SubSeq(q, 1, n), cmd, a, b)
         /\ SubSeq(q, 1, n) \in Seq(Message)
         /\ Len(SubSeq(q, 1, n)) = n
         /\ \A k \in 1..n : SubSeq(q, 1, n)[k] = q[k]
<1>1. Len(q) \in Nat /\ n \in Nat /\ n <= Len(q) BY LenProperties
<1>2. \A k \in 1..n : q[k] \in Message BY <1>1, ElementOfSeq
<1> DEFINE p == SubSeq(q, 1, n)
<1>3. p \in Seq(Message) /\ Len(p) = n /\ \A k \in 1..n : p[k] = q[k]
  <2>1. /\ p \in Seq(Message) /\ Len(p) = IF 1 <= n THEN n - 1 + 1 ELSE 0
        /\ \A k \in 1..n - 1 + 1 : p[k] = q[1 + k - 1]
    BY <1>1, <1>2, SubSeqProperties
  <2>2. \A k \in 1..n : 1 + k - 1 = k /\ k \in 1..n - 1 + 1 BY <1>1
  <2> QED BY <1>1, <2>1, <2>2
<1> HIDE DEF p
<1>4. In(p, cmd, a, b) => In(q, cmd, a, b) BY <1>1, <1>3 DEF In
<1>5. Once(q, cmd, a, b) => Once(p, cmd, a, b) BY <1>1, <1>3 DEF Once
<1> QED BY <1>3, <1>4, <1>5 DEF p

-----------------------------------------------------------------------------
(* The wires after a handler: what it was sent is gone, what it sends is   *)
(* behind what was sent before, if the cable holds.                        *)

LEMMA SentIn ==
  ASSUME TypeOK, NEW e \in End, NEW ms \in Seq(Message), NEW cmd, NEW a, NEW b
  PROVE  /\ In(Sent(e, ms), cmd, a, b)
              <=> In(wire[e], cmd, a, b) \/ (link = "up" /\ In(ms, cmd, a, b))
         /\ Once(wire[e], cmd, a, b)
              /\ (link = "up" => Once(ms, cmd, a, b)
                                  /\ ~(In(wire[e], cmd, a, b) /\ In(ms, cmd, a, b)))
              => Once(Sent(e, ms), cmd, a, b)
<1>1. wire[e] \in Seq(Message) BY DEF TypeOK
<1> QED BY <1>1, ConcatIn DEF Sent

LEMMA SentElems ==
  ASSUME TypeOK, NEW e \in End, NEW ms \in Seq(Message), NEW k \in 1..Len(Sent(e, ms))
  PROVE  \/ k \in 1..Len(wire[e]) /\ Sent(e, ms)[k] = wire[e][k]
         \/ /\ link = "up" /\ k - Len(wire[e]) \in 1..Len(ms) /\ k > Len(wire[e])
            /\ Sent(e, ms)[k] = ms[k - Len(wire[e])]
<1>1. wire[e] \in Seq(Message) BY DEF TypeOK
<1> DEFINE q == wire[e]
<1>2. /\ Len(q) \in Nat /\ Len(ms) \in Nat /\ Len(q \o ms) = Len(q) + Len(ms)
      /\ \A i \in 1..Len(q) + Len(ms) : (q \o ms)[i] = IF i <= Len(q) THEN q[i] ELSE ms[i - Len(q)]
  BY <1>1, ConcatProperties, LenProperties
<1>3. CASE link = "up"
  <2>1. Sent(e, ms) = q \o ms BY <1>3 DEF Sent
  <2> QED BY <1>2, <1>3, <2>1
<1>4. CASE link # "up"
  <2>1. Sent(e, ms) = q BY <1>4 DEF Sent
  <2> QED BY <2>1
<1> QED BY <1>3, <1>4

LEMMA SendWire ==
  ASSUME TypeOK, NEW e \in End, NEW ms, Send(e, ms)
  PROVE  wire'[e] = Sent(e, ms) /\ wire'[Far(e)] = wire[Far(e)]
BY EndFacts DEF Send, TypeOK

LEMMA ReplyWire ==
  ASSUME TypeOK, NEW e \in End, NEW ms, Reply(e, ms)
  PROVE  wire'[e] = Sent(e, ms) /\ wire'[Far(e)] = Tail(wire[Far(e)])
BY EndFacts DEF Reply, TypeOK

LEMMA TailElems ==
  ASSUME NEW q \in Seq(Message), q # <<>>
  PROVE  /\ Len(q) \in Nat \ {0} /\ Head(q) = q[1] /\ Len(Tail(q)) = Len(q) - 1
         /\ \A k \in 1..Len(Tail(q)) : k + 1 \in 1..Len(q) /\ Tail(q)[k] = q[k + 1]
         /\ \A k \in 2..Len(q) : k - 1 \in 1..Len(Tail(q)) /\ Tail(q)[k - 1] = q[k]
<1>1. /\ Len(q) \in Nat \ {0} /\ Head(q) = q[1] /\ Len(Tail(q)) = Len(q) - 1
      /\ \A k \in 1..Len(q) - 1 : Tail(q)[k] = q[k + 1]
  BY EmptySeq, HeadTailProperties
<1>2. \A k \in 1..Len(Tail(q)) : k + 1 \in 1..Len(q) /\ Tail(q)[k] = q[k + 1] BY <1>1
<1>3. \A k \in 2..Len(q) : k - 1 \in 1..Len(Tail(q)) /\ Tail(q)[k - 1] = q[k]
  <2> TAKE k \in 2..Len(q)
  <2>1. k - 1 \in 1..Len(q) - 1 /\ (k - 1) + 1 = k BY <1>1
  <2>2. Tail(q)[k - 1] = q[(k - 1) + 1] BY <1>1, <2>1
  <2> QED BY <1>1, <2>1, <2>2
<1> QED BY <1>1, <1>2, <1>3

(* A wire keeps what it had, in order, or loses some, and gets something   *)
(* from news: the common part of what handlers do to the wires.            *)
From(q, p, news) ==
  \A k \in 1..Len(p) : (\E l \in 1..Len(q) : p[k] = q[l]) \/ p[k] \in news

LEMMA SentFrom ==
  ASSUME TypeOK, NEW e \in End, NEW ms \in Seq(Message), NEW news,
         \A k \in 1..Len(ms) : ms[k] \in news
  PROVE  From(wire[e], Sent(e, ms), news)
BY SentElems DEF From

LEMMA TailFrom ==
  ASSUME NEW q \in Seq(Message), q # <<>>, NEW news
  PROVE  From(q, Tail(q), news)
BY TailElems DEF From

LEMMA SameFrom == ASSUME NEW q, NEW news PROVE From(q, q, news)
BY DEF From

-----------------------------------------------------------------------------
(* The invariant.                                                          *)

Host(i) == <<"host", i>>
Device(j) == <<"device", j>>

(* Ids are given in order, and a socket is connected only to one there is  *)
(* or was.                                                                 *)
Ids ==
  \A s \in Sock :
    /\ s[2] >= nextId[s[1]] <=> list[s] = "none"
    /\ list[s] = "none" => rid[s] = 0
    /\ rid[s] < nextId[Far(s[1])]

(* A socket reads, or holds data, only once it is connected; only a host   *)
(* socket is ever open without a peer.                                     *)
Sockets ==
  \A s \in Sock :
    /\ peer[s] => list[s] = "local" /\ rid[s] # 0
    /\ rd[s] => peer[s]
    /\ wr[s] <=> pkts[s] # <<>>
    /\ wr[s] => list[s] \in {"local", "closing"} /\ rid[s] # 0
    /\ list[s] = "local" /\ ~peer[s] => s[1] = "host" /\ rid[s] = 0

(* A connection ends with SYNC(0,0) and the sweep, after which no socket   *)
(* of it is open.                                                          *)
Session ==
  \A e \in End :
    /\ ~online[e] /\ ~sweep[e] => \A s \in Sock : s[1] = e => list[s] # "local"
    /\ sweep[e] => ~online[e] /\ link = "down" /\ wire[Far(e)] = <<>>
    /\ \A k \in 1..Len(wire[e]) :
         wire[e][k].cmd = "SYNC" => link = "down" /\ k = Len(wire[e])

(* OKAY and WRTE come from the socket they say, and go to the one it is    *)
(* connected to; OPEN comes from a host socket nobody is connected to yet. *)
Routed(e, m) ==
  m.cmd \in {"OKAY", "WRTE"} =>
    m.arg0 \in Id /\ m.arg1 \in Id /\ rid[<<e, m.arg0>>] = m.arg1
Opening(e, m) ==
  m.cmd = "OPEN" =>
    /\ e = "host" /\ m.arg0 \in Id /\ m.arg0 < nextId["host"] /\ m.arg1 = 0
    /\ \A j \in Id : rid[Device(j)] # m.arg0
Wires ==
  \A e \in End : \A k \in 1..Len(wire[e]) :
    Routed(e, wire[e][k]) /\ Opening(e, wire[e][k])
OpensOnce == \A i \in Id : Once(wire["host"], "OPEN", i, 0)

(* The device socket knows its mate first; no two know the same.           *)
Pairs ==
  /\ \A i \in Id : rid[Host(i)] # 0 => rid[Device(rid[Host(i)])] = i
  /\ \A j, l \in Id : rid[Device(j)] = rid[Device(l)] /\ rid[Device(j)] # 0 => j = l
  /\ \A s \in Sock : pkts[s] # <<>> => rid[<<Far(s[1]), rid[s]>>] = s[2]

(* The OKAY that opens a stream reaches the host before any of its data.   *)
Early(i) ==
  list[Host(i)] = "local" /\ ~peer[Host(i)] =>
    \A k \in 1..Len(wire["device"]) :
      wire["device"][k].cmd = "WRTE" /\ wire["device"][k].arg1 = i =>
        \E l \in 1..k - 1 : wire["device"][l].cmd = "OKAY" /\ wire["device"][l].arg1 = i
AllEarly == \A i \in Id : Early(i)

(* The two ends of a stream, by the id the device socket was opened with.  *)
Mates(x, y) ==
  \/ x[1] = "host" /\ y[1] = "device" /\ rid[y] = x[2]
  \/ x[1] = "device" /\ y[1] = "host" /\ rid[x] = y[2]

(* The permission for x to send to y: with x (rd[x]), with its WRTE, with  *)
(* the data y holds or with the OKAY of y; once at most, and while the     *)
(* cable holds and both are open, once at least.                           *)
Data(x, y) == In(wire[x[1]], "WRTE", x[2], y[2])
Ready(x, y) == In(wire[y[1]], "OKAY", y[2], x[2])

AtMostOne(x, y) ==
  /\ Once(wire[x[1]], "WRTE", x[2], y[2])
  /\ Once(wire[y[1]], "OKAY", y[2], x[2])
  /\ rd[x] => ~Data(x, y) /\ pkts[y] = <<>> /\ ~Ready(x, y)
  /\ Data(x, y) => pkts[y] = <<>> /\ ~Ready(x, y)
  /\ pkts[y] # <<>> => ~Ready(x, y)

AtLeastOne(x, y) ==
  link = "up" /\ list[x] = "local" /\ list[y] = "local"
    => rd[x] \/ Data(x, y) \/ pkts[y] # <<>> \/ Ready(x, y)

Credit == \A x, y \in Sock : Mates(x, y) => AtMostOne(x, y) /\ AtLeastOne(x, y)

CInv ==
  TypeOK /\ Ids /\ Sockets /\ Session /\ Wires /\ OpensOnce /\ Pairs /\ AllEarly /\ Credit

LEMMA SockIs ==
  /\ \A s \in Sock : s[1] \in End /\ s[2] \in Id /\ s = <<s[1], s[2]>>
  /\ \A e \in End, i \in Id : <<e, i>> \in Sock /\ <<e, i>>[1] = e /\ <<e, i>>[2] = i
  /\ \A i \in Id : Host(i) \in Sock /\ Device(i) \in Sock
  /\ \A i \in Id : i \in Nat /\ i # 0 /\ i \in 0..MaxId
BY DEF Sock, End, Id, Host, Device

LEMMA InitHolds == ASSUME Init PROVE CInv
<1> USE SockIs, NoneIn
<1>1. TypeOK BY InitType
<1>2. \A e \in End : wire[e] = <<>> /\ Len(wire[e]) = 0 BY DEF Init
<1>3. Ids BY EndFacts DEF Init, Ids, Id
<1>4. Sockets /\ Session BY <1>2 DEF Init, Sockets, Session
<1>5. Wires /\ OpensOnce BY <1>2 DEF Wires, OpensOnce, End
<1>6. Pairs /\ AllEarly BY <1>2 DEF Init, Pairs, AllEarly, Early
<1>7. Credit
  <2>1. \A x, y \in Sock : ~Mates(x, y) BY DEF Init, Mates
  <2> QED BY <2>1 DEF Credit
<1> QED BY <1>1, <1>3, <1>4, <1>5, <1>6, <1>7 DEF CInv

(* Who sent an OKAY or a WRTE that finds its socket open.                  *)
LEMMA ArrivesFrom ==
  ASSUME CInv, NEW e \in End, NEW cmd \in {"OKAY", "WRTE"}, Arrives(e, cmd)
  PROVE  LET m == Head(wire[Far(e)]) IN
         /\ m \in Message /\ m.cmd = cmd /\ Is(m, cmd, m.arg0, m.arg1)
         /\ m.arg0 \in Id /\ m.arg1 \in Id
         /\ rid[<<Far(e), m.arg0>>] = m.arg1
         /\ rid[<<e, m.arg1>>] # 0 => rid[<<e, m.arg1>>] = m.arg0
         /\ <<e, m.arg1>> \in Sock /\ <<Far(e), m.arg0>> \in Sock
         /\ Mates(<<Far(e), m.arg0>>, <<e, m.arg1>>) \/ rid[<<e, m.arg1>>] = 0
<1> DEFINE q == wire[Far(e)]
           m == Head(q)
<1>1. q \in Seq(Message) /\ q # <<>> BY EndFacts DEF CInv, TypeOK, Arrives
<1>2. m \in Message /\ m = q[1] /\ 1 \in 1..Len(q) BY <1>1, TailElems, HeadTailProperties
<1>3. m.cmd = cmd BY DEF Arrives
<1>4. Routed(Far(e), m) BY <1>2, EndFacts DEF CInv, Wires
<1>5. /\ m.arg0 \in Id /\ m.arg1 \in Id /\ rid[<<Far(e), m.arg0>>] = m.arg1
  BY <1>3, <1>4 DEF Routed
<1>6. rid[<<e, m.arg1>>] # 0 => rid[<<e, m.arg1>>] = m.arg0
  <2>1. rid[<<e, m.arg1>>] \in 0..MaxId BY <1>5, SockIs DEF CInv, TypeOK
  <2>2. CASE e = "device"
    <3>1. Far(e) = "host" BY <2>2 DEF Far
    <3> QED BY <1>5, <2>2, <3>1, SockIs DEF CInv, Pairs, Host, Device
  <2>3. CASE e = "host"
    <3>1. Far(e) = "device" BY <2>3 DEF Far
    <3>2. rid[Host(m.arg1)] # 0 => rid[Device(rid[Host(m.arg1)])] = m.arg1
      BY <1>5 DEF CInv, Pairs
    <3>3. rid[Device(m.arg0)] = m.arg1 BY <1>5, <3>1 DEF Device
    <3>4. rid[Host(m.arg1)] # 0 => rid[Host(m.arg1)] \in Id BY <2>1, <2>3 DEF Host, Id
    <3> QED BY <1>5, <2>3, <3>2, <3>3, <3>4, SockIs DEF CInv, Pairs, Host
  <2> QED BY <2>2, <2>3 DEF End
<1>7. Mates(<<Far(e), m.arg0>>, <<e, m.arg1>>) \/ rid[<<e, m.arg1>>] = 0
  <2>1. CASE e = "device" BY <1>5, <1>6, <2>1 DEF Mates, Far
  <2>2. CASE e = "host" BY <1>5, <1>6, <2>2 DEF Mates, Far
  <2> QED BY <2>1, <2>2 DEF End
<1>8. <<e, m.arg1>> \in Sock /\ <<Far(e), m.arg0>> \in Sock BY <1>5, SockIs, EndFacts
<1> QED BY <1>2, <1>3, <1>5, <1>6, <1>7, <1>8 DEF Is

-----------------------------------------------------------------------------
(* The handlers that close sockets: all of them close sockets there are.   *)

Closing(S) ==
  /\ CloseSockets(S)
  /\ S \subseteq Sock /\ \A s \in S : list[s] \in {"local", "closing"}

LEMMA AttachedOpen ==
  ASSUME CInv, NEW e \in End, NEW S \in {Attached(e), {}}, CloseSockets(S)
  PROVE  Closing(S)
BY DEF CInv, Sockets, Attached, Closing

LEMMA SyncCloses == ASSUME CInv, NEW e \in End, HandleSync(e) PROVE Closing(Attached(e))
BY AttachedOpen DEF HandleSync

Lost(e) == IF online[e] THEN Attached(e) ELSE {}
LEMMA CnxnCloses == ASSUME CInv, NEW e \in End, HandleCnxn(e) PROVE Closing(Lost(e))
BY AttachedOpen DEF HandleCnxn, Lost

(* What the input thread closes is everything.                             *)
Swept(e) == {s \in Sock : s[1] = e /\ list[s] = "local"}
LEMMA SweepCloses == ASSUME CInv, NEW e \in End, CloseAllSockets(e) PROVE Closing(Swept(e))
<1> DEFINE S == {s \in Sock : s[1] = e /\ list[s] = "local" /\ (e = "host" \/ peer[s])}
<1>1. S = Swept(e) BY DEF CInv, Sockets, Swept
<1>2. CloseSockets(S) BY DEF CloseAllSockets
<1> QED BY <1>1, <1>2 DEF Closing, Swept

LEMMA OneCloses ==
  ASSUME CInv, NEW s \in Sock, CloseSockets({s}), list[s] \in {"local", "closing"}
  PROVE  Closing({s})
BY DEF Closing

FoundSock(e) == <<e, Head(wire[Far(e)]).arg1>>
LEMMA FoundCloses ==
  ASSUME CInv, NEW e \in End, HandleClse(e) \/ WrteFailed(e)
  PROVE  FoundSock(e) \in Sock /\ Closing({FoundSock(e)})
<1>1. FoundSock(e) \in Sock /\ list[FoundSock(e)] = "local" /\ CloseSockets({FoundSock(e)})
  BY SockIs DEF HandleClse, WrteFailed, Found, FoundSock
<1> QED BY <1>1, OneCloses

LEMMA EventCloses ==
  ASSUME CInv, NEW s \in Sock, DrainLast(s) \/ DrainFailed(s) \/ ReadEof(s)
  PROVE  Closing({s})
BY OneCloses DEF DrainLast, DrainFailed, ReadEof, CInv, Sockets

(* What they change.                                                       *)
LEMMA ClosingIs ==
  ASSUME TypeOK, NEW S, Closing(S), NEW s \in Sock
  PROVE  /\ s \notin S => UNCHANGED <<list[s], pkts[s], wr[s], peer[s], rd[s], notify[s]>>
         /\ s \in S => /\ list'[s] = IF Dies(s) THEN "freed" ELSE "closing"
                       /\ pkts'[s] = IF Dies(s) THEN <<>> ELSE pkts[s]
                       /\ wr'[s] = (wr[s] /\ ~Dies(s))
                       /\ ~peer'[s] /\ ~rd'[s] /\ ~notify'[s]
         /\ UNCHANGED <<nextId, rid>>
<1> USE DEF Closing, CloseSockets, TypeOK
<1>1. list'[s] = IF s \notin S THEN list[s] ELSE IF Dies(s) THEN "freed" ELSE "closing"
  OBVIOUS
<1>2. pkts'[s] = IF s \in S /\ Dies(s) THEN <<>> ELSE pkts[s] OBVIOUS
<1>3. /\ wr'[s] = (wr[s] /\ ~(s \in S /\ Dies(s)))
      /\ peer'[s] = (peer[s] /\ s \notin S)
      /\ rd'[s] = (rd[s] /\ s \notin S)
      /\ notify'[s] = (notify[s] /\ s \notin S)
  OBVIOUS
<1>4. /\ wr[s] \in BOOLEAN /\ peer[s] \in BOOLEAN /\ rd[s] \in BOOLEAN /\ notify[s] \in BOOLEAN
  OBVIOUS
<1>5. UNCHANGED <<nextId, rid>> OBVIOUS
<1>6. CASE s \notin S BY ONLY <1>1, <1>2, <1>3, <1>4, <1>5, <1>6
<1>7. CASE s \in S BY ONLY <1>1, <1>2, <1>3, <1>4, <1>5, <1>7
<1> QED BY ONLY <1>6, <1>7

LEMMA ClosingIds == ASSUME CInv, NEW S, Closing(S) PROVE Ids'
<1>1. UNCHANGED <<nextId, rid>> BY DEF Closing, CloseSockets
<1>2. \A s \in Sock : list'[s] = "none" <=> list[s] = "none"
  BY ClosingIs DEF CInv, Closing
<1> QED BY <1>1, <1>2 DEF CInv, Ids

LEMMA ClosingSockets == ASSUME CInv, NEW S, Closing(S) PROVE Sockets'
<1>0. UNCHANGED rid BY DEF Closing, CloseSockets
<1> SUFFICES ASSUME NEW s \in Sock
             PROVE  /\ peer'[s] => list'[s] = "local" /\ rid'[s] # 0
                    /\ rd'[s] => peer'[s]
                    /\ wr'[s] <=> pkts'[s] # <<>>
                    /\ wr'[s] => list'[s] \in {"local", "closing"} /\ rid'[s] # 0
                    /\ list'[s] = "local" /\ ~peer'[s] => s[1] = "host" /\ rid'[s] = 0
  BY DEF Sockets
<1>1. CASE s \notin S
  <2>1. UNCHANGED <<list[s], pkts[s], wr[s], peer[s], rd[s]>> BY <1>1, ClosingIs DEF CInv
  <2> QED BY <1>0, <2>1 DEF CInv, Sockets
<1>2. CASE s \in S
  <2>0. TypeOK BY DEF CInv
  <2>1. /\ list'[s] = IF Dies(s) THEN "freed" ELSE "closing"
        /\ pkts'[s] = IF Dies(s) THEN <<>> ELSE pkts[s]
    BY <1>2, <2>0, ClosingIs
  <2>2. (wr'[s] <=> wr[s] /\ ~Dies(s)) /\ ~peer'[s] /\ ~rd'[s]
    BY <1>2, <2>0, ClosingIs
  <2>3. (wr[s] <=> pkts[s] # <<>>) /\ (wr[s] => rid[s] # 0) BY DEF CInv, Sockets
  <2>4. pkts[s] = <<>> => Dies(s) BY DEF Dies
  <2> QED BY <1>0, <2>1, <2>2, <2>3, <2>4
<1> QED BY <1>1, <1>2

-----------------------------------------------------------------------------
(* What the other handlers do to their sockets.                            *)

LEMMA OkayIs ==
  ASSUME CInv, NEW e \in End, HandleOkay(e), NEW m, m = Head(wire[Far(e)]),
         NEW s, s = <<e, m.arg1>>
  PROVE  /\ s \in Sock /\ list[s] = "local" /\ Arrives(e, "OKAY") /\ Reply(e, <<>>)
         /\ \A t \in Sock : rid'[t] = IF t = s THEN m.arg0 ELSE rid[t]
         /\ \A t \in Sock : peer'[t] <=> t = s \/ peer[t]
         /\ \A t \in Sock : rd'[t] <=> t = s \/ rd[t]
         /\ UNCHANGED <<nextId, list, pkts, wr, online, link, links, sweep>>
         /\ e = "device" => UNCHANGED rid
<1>1. /\ s \in Sock /\ list[s] = "local" /\ Arrives(e, "OKAY") /\ Reply(e, <<>>)
      /\ online[e] /\ UNCHANGED <<nextId, list, pkts, wr, online, link, links, sweep>>
  BY SockIs DEF HandleOkay, Found, linkVars
<1>2. rid[s] # 0 => rid[s] = m.arg0 BY <1>1, ArrivesFrom
<1>3. peer[s] => rid[s] # 0 BY <1>1 DEF CInv, Sockets
<1>4. rid' = [rid EXCEPT ![s] = IF peer[s] THEN @ ELSE m.arg0] BY DEF HandleOkay
<1>5. \A t \in Sock : rid'[t] = IF t = s THEN m.arg0 ELSE rid[t]
  BY <1>1, <1>2, <1>3, <1>4 DEF CInv, TypeOK
<1>6. /\ \A t \in Sock : peer'[t] <=> t = s \/ peer[t]
      /\ \A t \in Sock : rd'[t] <=> t = s \/ rd[t]
  BY <1>1 DEF CInv, TypeOK, HandleOkay
<1>7. e = "device" => UNCHANGED rid
  BY <1>1, <1>4 DEF CInv, Sockets, TypeOK
<1> QED BY <1>1, <1>5, <1>6, <1>7

LEMMA AcceptedIs ==
  ASSUME CInv, NEW e \in End, OpenAccepted(e), NEW m, m = Head(wire[Far(e)]),
         NEW d, d = Device(nextId["device"])
  PROVE  /\ e = "device" /\ Far(e) = "host" /\ Arrives(e, "OPEN") /\ online[e]
         /\ m.cmd = "OPEN" /\ m.arg0 \in Id /\ m.arg0 < nextId["host"] /\ m.arg1 = 0
         /\ \A j \in Id : rid[Device(j)] # m.arg0
         /\ nextId["device"] \in Id /\ d \in Sock /\ list[d] = "none" /\ rid[d] = 0
         /\ \A f \in End : nextId'[f] = IF f = "device" THEN nextId[f] + 1 ELSE nextId[f]
         /\ Reply(e, <<Msg("OKAY", nextId["device"], m.arg0, <<>>)>>)
         /\ UNCHANGED <<pkts, wr, online, link, links, sweep>>
<1> DEFINE q == wire[Far(e)]
<1>1. q \in Seq(Message) /\ q # <<>> /\ m.cmd = "OPEN"
  BY EndFacts DEF CInv, TypeOK, OpenAccepted, Arrives
<1>2. m = q[1] /\ 1 \in 1..Len(q) BY <1>1, TailElems
<1>3. Opening(Far(e), m) BY <1>2, EndFacts DEF CInv, Wires
<1>4. Far(e) = "host" /\ e = "device" BY <1>1, <1>3 DEF Opening, Far, End
<1>5. /\ m.arg0 \in Id /\ m.arg0 < nextId["host"] /\ m.arg1 = 0
      /\ \A j \in Id : rid[Device(j)] # m.arg0
  BY <1>1, <1>3 DEF Opening
<1>6. nextId["device"] \in Id /\ online[e] /\ Arrives(e, "OPEN")
      /\ UNCHANGED <<pkts, wr, online, link, links, sweep>>
  BY <1>4 DEF OpenAccepted, linkVars
<1>7. d \in Sock /\ NewSocket(e) = d BY <1>4, <1>6, SockIs DEF NewSocket, Device
<1>8. list[d] = "none" /\ rid[d] = 0
  <2>1. d[1] = "device" /\ d[2] = nextId["device"] BY DEF Device
  <2>2. nextId["device"] \in Nat BY <1>6, SockIs
  <2> QED BY <1>7, <2>1, <2>2 DEF CInv, Ids
<1>9. \A f \in End : nextId'[f] = IF f = "device" THEN nextId[f] + 1 ELSE nextId[f]
  BY <1>4 DEF OpenAccepted, CInv, TypeOK
<1>10. Reply(e, <<Msg("OKAY", nextId["device"], m.arg0, <<>>)>>)
  BY <1>7 DEF OpenAccepted, SendReady, Device
<1> QED BY <1>1, <1>4, <1>5, <1>6, <1>7, <1>8, <1>9, <1>10

LEMMA AcceptedSocks ==
  ASSUME CInv, NEW e \in End, OpenAccepted(e), NEW m, m = Head(wire[Far(e)]),
         NEW d, d = Device(nextId["device"])
  PROVE  /\ \A t \in Sock : list'[t] = IF t = d THEN "local" ELSE list[t]
         /\ \A t \in Sock : rid'[t] = IF t = d THEN m.arg0 ELSE rid[t]
         /\ \A t \in Sock : peer'[t] <=> t = d \/ peer[t]
         /\ \A t \in Sock : rd'[t] <=> t = d \/ rd[t]
<1>1. d \in Sock /\ NewSocket(e) = d BY AcceptedIs DEF NewSocket, Device
<1> QED BY <1>1 DEF OpenAccepted, CInv, TypeOK

LEMMA ClientIs ==
  ASSUME CInv, NEW early \in BOOLEAN, ClientOpen(early)
  PROVE  LET h == Host(nextId["host"]) IN
         /\ online["host"] /\ nextId["host"] \in Id
         /\ h \in Sock /\ list[h] = "none" /\ rid[h] = 0 /\ ~peer[h] /\ ~rd[h] /\ pkts[h] = <<>>
         /\ \A f \in End : nextId'[f] = IF f = "host" THEN nextId[f] + 1 ELSE nextId[f]
         /\ \A t \in Sock : list'[t] = IF t = h THEN (IF early THEN "freed" ELSE "local")
                                                ELSE list[t]
         /\ Send("host", <<Msg("OPEN", nextId["host"], 0, <<>>)>>)
         /\ UNCHANGED <<peer, rid, pkts, rd, wr, online, link, links, sweep>>
<1> DEFINE h == Host(nextId["host"])
<1>1. /\ online["host"] /\ nextId["host"] \in Id
      /\ UNCHANGED <<peer, rid, pkts, rd, wr, online, link, links, sweep>>
  BY DEF ClientOpen, linkVars
<1>2. h \in Sock /\ NewSocket("host") = h /\ "host" \in End
  BY <1>1, SockIs DEF NewSocket, Host, End
<1>3. list[h] = "none" /\ rid[h] = 0
  <2>1. h[1] = "host" /\ h[2] = nextId["host"] BY DEF Host
  <2>2. nextId["host"] \in Nat BY <1>1, SockIs
  <2> QED BY <1>2, <2>1, <2>2 DEF CInv, Ids
<1>4. ~peer[h] /\ ~rd[h] /\ pkts[h] = <<>> BY <1>2, <1>3 DEF CInv, Sockets
<1>5. \A f \in End : nextId'[f] = IF f = "host" THEN nextId[f] + 1 ELSE nextId[f]
  BY <1>2 DEF ClientOpen, CInv, TypeOK
<1>6. \A t \in Sock : list'[t] = IF t = h THEN (IF early THEN "freed" ELSE "local")
                                          ELSE list[t]
  BY <1>2 DEF ClientOpen, CInv, TypeOK
<1>7. Send("host", <<Msg("OPEN", nextId["host"], 0, <<>>)>>)
  BY <1>2 DEF ClientOpen, Host
<1> QED BY <1>1, <1>2, <1>3, <1>4, <1>5, <1>6, <1>7

(* Data finds a socket that is open connected.                             *)
LEMMA DataFinds ==
  ASSUME CInv, NEW e \in End, Arrives(e, "WRTE"), NEW m, m = Head(wire[Far(e)]),
         Found(e, m.arg1)
  PROVE  LET s == <<e, m.arg1>> IN
         /\ s \in Sock /\ list[s] = "local" /\ peer[s] /\ rid[s] = m.arg0
         /\ Mates(<<Far(e), m.arg0>>, s)
<1> DEFINE s == <<e, m.arg1>>
<1>1. s \in Sock /\ list[s] = "local" /\ m.arg1 \in Id BY SockIs DEF Found
<1>2. peer[s]
  <2> SUFFICES ASSUME ~peer[s] PROVE FALSE OBVIOUS
  <2>1. s[1] = "host" BY <1>1 DEF CInv, Sockets
  <2>2. e = "host" /\ s = Host(m.arg1) /\ Far(e) = "device" BY <2>1 DEF Host, Far
  <2>3. wire["device"] \in Seq(Message) /\ wire["device"] # <<>> /\ m.cmd = "WRTE"
    BY <2>2 DEF CInv, TypeOK, Arrives, End
  <2>4. m = wire["device"][1] /\ 1 \in 1..Len(wire["device"]) BY <2>2, <2>3, TailElems
  <2>5. Early(m.arg1) BY <1>1 DEF CInv, AllEarly
  <2>6. \E l \in 1..1 - 1 : wire["device"][l].cmd = "OKAY"
    BY <1>1, <2>2, <2>3, <2>4, <2>5 DEF Early
  <2> QED BY <2>6
<1>3. rid[s] # 0 BY <1>1, <1>2 DEF CInv, Sockets
<1> QED BY <1>1, <1>2, <1>3, ArrivesFrom

(* What is written of the data that a socket holds, or has come.           *)
LEMMA QueuedIs ==
  ASSUME CInv, NEW e \in End, WrteQueued(e), NEW m, m = Head(wire[Far(e)])
  PROVE  LET s == <<e, m.arg1>> IN
         /\ Arrives(e, "WRTE") /\ Found(e, m.arg1) /\ Reply(e, <<>>)
         /\ s \in Sock /\ list[s] = "local" /\ peer[s] /\ rid[s] = m.arg0
         /\ \A t \in Sock : t # s => pkts'[t] = pkts[t]
         /\ \A t \in Sock : wr'[t] <=> t = s \/ wr[t]
         /\ pkts'[s] # <<>>
         /\ UNCHANGED <<nextId, list, peer, rid, rd, online, link, links, sweep>>
<1> DEFINE s == <<e, m.arg1>>
<1>1. /\ Arrives(e, "WRTE") /\ Found(e, m.arg1) /\ Reply(e, <<>>)
      /\ UNCHANGED <<nextId, list, peer, rid, rd, online, link, links, sweep>>
  BY DEF WrteQueued, linkVars
<1>2. s \in Sock /\ list[s] = "local" /\ peer[s] /\ rid[s] = m.arg0
  BY <1>1, DataFinds
<1>3. m.data \in Seq(Unit) BY <1>1, ArrivesType DEF CInv, Arrives
<1>4. PICK k \in 0..Len(m.data) - 1 : pkts' = [pkts EXCEPT ![s] = @ \o Rest(m.data, k)]
  BY DEF WrteQueued
<1>5. Len(m.data) \in Nat /\ k \in Nat /\ k + 1 <= Len(m.data) BY <1>3, <1>4, LenProperties
<1>6. Rest(m.data, k) \in Seq(Unit) /\ Rest(m.data, k) # <<>>
  <2>1. \A i \in k + 1..Len(m.data) : m.data[i] \in Unit BY <1>3, <1>5, ElementOfSeq
  <2>2. Len(Rest(m.data, k)) = Len(m.data) - (k + 1) + 1
    BY <1>5, <2>1, SubSeqProperties DEF Rest
  <2>3. Len(Rest(m.data, k)) # 0 BY <1>5, <2>2
  <2> QED BY <1>3, <1>5, <2>3, RestType, EmptySeq
<1>7. pkts[s] \in Seq(Unit) BY <1>2 DEF CInv, TypeOK
<1>8. pkts[s] \o Rest(m.data, k) # <<>>  BY <1>6, <1>7, ConcatEqualIffEmpty
<1>9. \A t \in Sock : pkts'[t] = IF t = s THEN pkts[s] \o Rest(m.data, k) ELSE pkts[t]
  BY <1>2, <1>4 DEF CInv, TypeOK
<1>10. \A t \in Sock : wr'[t] <=> t = s \/ wr[t]
  BY <1>2 DEF CInv, TypeOK, WrteQueued
<1> QED BY <1>1, <1>2, <1>8, <1>9, <1>10

LEMMA SomeIs ==
  ASSUME CInv, NEW s \in Sock, DrainSome(s)
  PROVE  /\ \A t \in Sock : pkts'[t] # <<>> <=> pkts[t] # <<>>
         /\ UNCHANGED <<nextId, list, peer, rid, rd, wr, wire, online, link, links, sweep>>
<1>1. UNCHANGED <<nextId, list, peer, rid, rd, wr, wire, online, link, links, sweep>>
  BY DEF DrainSome, linkVars
<1>2. PICK k \in 1..Len(pkts[s]) - 1 : pkts' = [pkts EXCEPT ![s] = Rest(@, k)]
  BY DEF DrainSome
<1>3. pkts[s] \in Seq(Unit) BY DEF CInv, TypeOK
<1>4. Len(pkts[s]) \in Nat /\ k \in Nat /\ k + 1 <= Len(pkts[s]) BY <1>2, <1>3, LenProperties
<1>5. Rest(pkts[s], k) # <<>> /\ pkts[s] # <<>>
  <2>1. \A i \in k + 1..Len(pkts[s]) : pkts[s][i] \in Unit BY <1>3, <1>4, ElementOfSeq
  <2>2. Len(Rest(pkts[s], k)) = Len(pkts[s]) - (k + 1) + 1
    BY <1>4, <2>1, SubSeqProperties DEF Rest
  <2>3. Len(Rest(pkts[s], k)) # 0 BY <1>4, <2>2
  <2> QED BY <1>4, <2>3, EmptySeq
<1>6. \A t \in Sock : pkts'[t] = IF t = s THEN Rest(pkts[s], k) ELSE pkts[t]
  BY <1>2 DEF CInv, TypeOK
<1> QED BY <1>1, <1>5, <1>6

LEMMA AllIs ==
  ASSUME CInv, NEW s \in Sock, DrainAll(s)
  PROVE  /\ wr[s] /\ pkts[s] # <<>> /\ list[s] = "local" /\ peer[s] /\ rid[s] \in Id
         /\ \A t \in Sock : pkts'[t] = IF t = s THEN <<>> ELSE pkts[t]
         /\ \A t \in Sock : wr'[t] <=> t # s /\ wr[t]
         /\ Send(s[1], <<Msg("OKAY", s[2], rid[s], <<>>)>>)
         /\ UNCHANGED <<nextId, list, peer, rid, rd, online, link, links, sweep>>
<1>1. /\ wr[s] /\ list[s] = "local" /\ Send(s[1], <<Msg("OKAY", s[2], rid[s], <<>>)>>)
      /\ UNCHANGED <<nextId, list, peer, rid, rd, online, link, links, sweep>>
  BY DEF DrainAll, linkVars, RemoteReady
<1>2. pkts[s] # <<>> /\ peer[s] /\ rid[s] # 0 BY <1>1 DEF CInv, Sockets
<1>3. rid[s] \in Id BY <1>2 DEF CInv, TypeOK, Id
<1>4. /\ \A t \in Sock : pkts'[t] = IF t = s THEN <<>> ELSE pkts[t]
      /\ \A t \in Sock : wr'[t] <=> t # s /\ wr[t]
  BY DEF CInv, TypeOK, DrainAll
<1> QED BY <1>1, <1>2, <1>3, <1>4

LEMMA ReadIs ==
  ASSUME CInv, NEW s \in Sock, rd[s]
  PROVE  list[s] = "local" /\ peer[s] /\ rid[s] \in Id
BY DEF CInv, Sockets, TypeOK, Id

(* One WRTE with all that is read.                                         *)
ReadMsg(s) ==
  Msg("WRTE", s[2], rid[s], [k \in 1..Available(s) |-> taken[s] + k])

LEMMA ReadSomeIs ==
  ASSUME CInv, NEW s \in Sock, ReadSome(s)
  PROVE  /\ rd[s] /\ list[s] = "local" /\ peer[s] /\ rid[s] \in Id
         /\ \A t \in Sock : rd'[t] <=> t # s /\ rd[t]
         /\ ReadData(s) = <<ReadMsg(s)>> /\ Send(s[1], <<ReadMsg(s)>>)
         /\ UNCHANGED <<nextId, list, peer, rid, pkts, wr, online, link, links, sweep>>
<1>1. rd[s] /\ UNCHANGED <<nextId, list, peer, rid, pkts, wr, online, link, links, sweep>>
  BY DEF ReadSome, linkVars
<1>2. list[s] = "local" /\ peer[s] /\ rid[s] \in Id BY <1>1, ReadIs
<1>3. ReadData(s) = <<ReadMsg(s)>> BY <1>2 DEF ReadData, ReadMsg, ReadSome
<1>4. Send(s[1], <<ReadMsg(s)>>) BY <1>3 DEF ReadSome
<1>5. \A t \in Sock : rd'[t] <=> t # s /\ rd[t]
  BY <1>2 DEF ReadSome, ReadsOn, CInv, TypeOK
<1> QED BY <1>1, <1>2, <1>3, <1>4, <1>5

(* Every step, by what it does to the sockets.                             *)
LEMMA Steps ==
  ASSUME CInv, Next
  PROVE  \/ UNCHANGED sockVars
         \/ \E S : Closing(S)
         \/ \E e \in End : HandleOkay(e) \/ OpenAccepted(e) \/ WrteQueued(e)
         \/ \E early \in BOOLEAN : ClientOpen(early)
         \/ \E s \in Sock : DrainSome(s) \/ DrainAll(s) \/ ReadSome(s)
<1>1. ASSUME NEW e \in End,
             HandleSync(e) \/ HandleCnxn(e) \/ CloseAllSockets(e) \/ HandleClse(e) \/ WrteFailed(e)
      PROVE  \E S : Closing(S)
  BY <1>1, SyncCloses, CnxnCloses, SweepCloses, FoundCloses
<1>2. ASSUME NEW s \in Sock, DrainLast(s) \/ DrainFailed(s) \/ ReadEof(s)
      PROVE  \E S : Closing(S)
  BY <1>2, EventCloses
<1>3. ASSUME NEW e \in End, OpenRefused(e) \/ Ignore(e) \/ WrteWritten(e) PROVE UNCHANGED sockVars
  BY <1>3 DEF OpenRefused, Ignore, WrteWritten
<1>4. ASSUME NEW s \in Sock, ClientWrite(s) \/ \E how \in {"eof", "gone"} : ClientShut(s, how)
      PROVE  UNCHANGED sockVars
  BY <1>4 DEF ClientWrite, ClientShut
<1>5. ASSUME LinkUp \/ LinkLost PROVE UNCHANGED sockVars BY <1>5 DEF LinkUp, LinkLost
<1> QED BY <1>1, <1>2, <1>3, <1>4, <1>5 DEF Next, Handle, Event

LEMMA IdsNext == ASSUME CInv, Next PROVE Ids'
<1>0. TypeOK /\ Ids BY DEF CInv
<1>1. CASE UNCHANGED sockVars BY <1>0, <1>1 DEF sockVars, Ids
<1>2. ASSUME NEW S, Closing(S) PROVE Ids' BY <1>2, ClosingIds
<1>3. ASSUME NEW e \in End, HandleOkay(e) PROVE Ids'
  <2>1. PICK m : m = Head(wire[Far(e)]) OBVIOUS
  <2>2. /\ <<e, m.arg1>> \in Sock /\ list[<<e, m.arg1>>] = "local" /\ UNCHANGED <<nextId, list>>
        /\ \A t \in Sock : rid'[t] = IF t = <<e, m.arg1>> THEN m.arg0 ELSE rid[t]
        /\ Arrives(e, "OKAY")
    BY <1>3, <2>1, OkayIs
  <2>3. /\ m.arg0 \in Id /\ <<Far(e), m.arg0>> \in Sock /\ rid[<<Far(e), m.arg0>>] = m.arg1
        /\ m.arg1 \in Id
    BY <2>1, <2>2, ArrivesFrom
  <2>4. rid[<<Far(e), m.arg0>>] # 0 BY <2>3, SockIs
  <2>5. ~(m.arg0 >= nextId[Far(e)]) BY <1>0, <2>3, <2>4 DEF Ids
  <2>6. m.arg0 < nextId[Far(e)]
    <3>1. nextId[Far(e)] \in Nat BY <1>0, EndFacts DEF TypeOK
    <3>2. m.arg0 \in Nat BY <2>3 DEF Id
    <3> QED BY <2>5, <3>1, <3>2
  <2>7. <<e, m.arg1>>[1] = e OBVIOUS
  <2> QED BY <1>0, <2>2, <2>6, <2>7 DEF Ids
<1>4. ASSUME NEW e \in End, OpenAccepted(e) PROVE Ids'
  <2>1. PICK m : m = Head(wire[Far(e)]) OBVIOUS
  <2>2. PICK n \in Id : n = nextId["device"] BY <1>4, <2>1, AcceptedIs
  <2>3. /\ \A t \in Sock : list'[t] = IF t = Device(n) THEN "local" ELSE list[t]
        /\ \A t \in Sock : rid'[t] = IF t = Device(n) THEN m.arg0 ELSE rid[t]
        /\ \A f \in End : nextId'[f] = IF f = "device" THEN nextId[f] + 1 ELSE nextId[f]
        /\ m.arg0 \in Id /\ m.arg0 < nextId["host"]
    <3>1. \A t \in Sock : list'[t] = IF t = Device(n) THEN "local" ELSE list[t]
      BY <1>4, <2>1, <2>2, AcceptedSocks
    <3>2. \A t \in Sock : rid'[t] = IF t = Device(n) THEN m.arg0 ELSE rid[t]
      BY <1>4, <2>1, <2>2, AcceptedSocks
    <3>3. \A f \in End : nextId'[f] = IF f = "device" THEN nextId[f] + 1 ELSE nextId[f]
      BY <1>4, <2>1, AcceptedIs
    <3>4. m.arg0 \in Id /\ m.arg0 < nextId["host"] BY <1>4, <2>1, AcceptedIs
    <3> QED BY <3>1, <3>2, <3>3, <3>4
  <2> SUFFICES ASSUME NEW s \in Sock
               PROVE  /\ s[2] >= nextId'[s[1]] <=> list'[s] = "none"
                      /\ list'[s] = "none" => rid'[s] = 0
                      /\ rid'[s] < nextId'[Far(s[1])]
    BY DEF Ids
  <2>4. /\ s[2] \in Nat /\ s[1] \in End /\ nextId[s[1]] \in Nat /\ nextId[Far(s[1])] \in Nat
        /\ Far(s[1]) \in End /\ rid[s] \in Nat /\ n \in Nat /\ m.arg0 \in Nat
    <3>1. s[1] \in End /\ Far(s[1]) \in End /\ s[2] \in Nat BY SockIs, EndFacts
    <3>2. n \in Nat /\ m.arg0 \in Nat BY <2>3, SockIs
    <3>3. nextId[s[1]] \in Nat /\ nextId[Far(s[1])] \in Nat BY <1>0, <3>1 DEF TypeOK
    <3>4. rid[s] \in Nat BY <1>0 DEF TypeOK
    <3> QED BY <3>1, <3>2, <3>3, <3>4
  <2>5. s[1] = "device" /\ s[2] = n <=> s = Device(n) BY SockIs DEF Device
  <2>6. s = Device(n) => Far(s[1]) = "host" BY DEF Device, Far
  <2>7. /\ s[2] >= nextId[s[1]] <=> list[s] = "none"
        /\ list[s] = "none" => rid[s] = 0
        /\ rid[s] < nextId[Far(s[1])]
    BY <1>0 DEF Ids
  <2>8. /\ nextId'[s[1]] = IF s[1] = "device" THEN n + 1 ELSE nextId[s[1]]
        /\ nextId'[Far(s[1])] >= nextId[Far(s[1])]
    BY <2>2, <2>3, <2>4
  <2>9. s[1] = "device" => nextId[s[1]] = n BY <2>2
  <2> QED BY <2>3, <2>4, <2>5, <2>6, <2>7, <2>8, <2>9
<1>5. ASSUME NEW early \in BOOLEAN, ClientOpen(early) PROVE Ids'
  <2>1. PICK n \in Id : n = nextId["host"] BY <1>5, ClientIs
  <2>2. /\ \A t \in Sock : t # Host(n) => list'[t] = list[t]
        /\ list'[Host(n)] # "none" /\ UNCHANGED rid /\ Host(n) \in Sock
        /\ \A f \in End : nextId'[f] = IF f = "host" THEN nextId[f] + 1 ELSE nextId[f]
    BY <1>5, <2>1, ClientIs
  <2> SUFFICES ASSUME NEW s \in Sock
               PROVE  /\ s[2] >= nextId'[s[1]] <=> list'[s] = "none"
                      /\ list'[s] = "none" => rid'[s] = 0
                      /\ rid'[s] < nextId'[Far(s[1])]
    BY DEF Ids
  <2>4. /\ s[2] \in Nat /\ s[1] \in End /\ nextId[s[1]] \in Nat /\ nextId[Far(s[1])] \in Nat
        /\ Far(s[1]) \in End /\ rid[s] \in Nat /\ n \in Nat
    <3>1. s[1] \in End /\ Far(s[1]) \in End /\ s[2] \in Nat /\ n \in Nat BY SockIs, EndFacts
    <3> QED BY <1>0, <3>1 DEF TypeOK
  <2>5. s[1] = "host" /\ s[2] = n <=> s = Host(n) BY SockIs DEF Host
  <2>7. /\ s[2] >= nextId[s[1]] <=> list[s] = "none"
        /\ list[s] = "none" => rid[s] = 0
        /\ rid[s] < nextId[Far(s[1])]
    BY <1>0 DEF Ids
  <2>8. /\ nextId'[s[1]] = IF s[1] = "host" THEN n + 1 ELSE nextId[s[1]]
        /\ nextId'[Far(s[1])] >= nextId[Far(s[1])]
    BY <2>1, <2>2, <2>4
  <2>9. s[1] = "host" => nextId[s[1]] = n BY <2>1
  <2> QED BY <2>2, <2>4, <2>5, <2>7, <2>8, <2>9
<1>6. ASSUME NEW e \in End, WrteQueued(e) PROVE Ids'
  BY <1>0, <1>6, QueuedIs DEF Ids
<1>7. ASSUME NEW s \in Sock, DrainSome(s) \/ DrainAll(s) \/ ReadSome(s) PROVE Ids'
  BY <1>0, <1>7, SomeIs, AllIs, ReadSomeIs DEF Ids
<1> QED BY <1>1, <1>2, <1>3, <1>4, <1>5, <1>6, <1>7, Steps

LEMMA SocketsNext == ASSUME CInv, Next PROVE Sockets'
<1>0. TypeOK /\ Sockets BY DEF CInv
<1>1. CASE UNCHANGED sockVars BY <1>0, <1>1 DEF sockVars, Sockets
<1>2. ASSUME NEW S, Closing(S) PROVE Sockets' BY <1>2, ClosingSockets
<1>3. ASSUME NEW e \in End, HandleOkay(e) PROVE Sockets'
  <2>1. PICK m : m = Head(wire[Far(e)]) OBVIOUS
  <2>2. Arrives(e, "OKAY") BY <1>3, <2>1, OkayIs
  <2>3. m.arg0 # 0
    <3>1. m.arg0 \in Id BY <2>1, <2>2, ArrivesFrom
    <3> QED BY <3>1 DEF Id
  <2>4. PICK s \in Sock : s = <<e, m.arg1>> BY <1>3, <2>1, OkayIs
  <2>5. list[s] = "local" /\ UNCHANGED <<list, pkts, wr>> BY <1>3, <2>1, <2>4, OkayIs
  <2>6. \A t \in Sock : rid'[t] = IF t = s THEN m.arg0 ELSE rid[t] BY <1>3, <2>1, <2>4, OkayIs
  <2>7. \A t \in Sock : peer'[t] <=> t = s \/ peer[t] BY <1>3, <2>1, <2>4, OkayIs
  <2>8. \A t \in Sock : rd'[t] <=> t = s \/ rd[t] BY <1>3, <2>1, <2>4, OkayIs
  <2> QED BY <1>0, <2>3, <2>5, <2>6, <2>7, <2>8 DEF Sockets
<1>4. ASSUME NEW e \in End, OpenAccepted(e) PROVE Sockets'
  <2>1. PICK m : m = Head(wire[Far(e)]) OBVIOUS
  <2>2. PICK d : d = Device(nextId["device"]) OBVIOUS
  <2>3. /\ list[d] = "none" /\ m.arg0 \in Id /\ d \in Sock /\ UNCHANGED <<pkts, wr>>
        /\ \A t \in Sock : list'[t] = IF t = d THEN "local" ELSE list[t]
        /\ \A t \in Sock : rid'[t] = IF t = d THEN m.arg0 ELSE rid[t]
        /\ \A t \in Sock : peer'[t] <=> t = d \/ peer[t]
        /\ \A t \in Sock : rd'[t] <=> t = d \/ rd[t]
    <3>1. list[d] = "none" /\ m.arg0 \in Id /\ d \in Sock /\ UNCHANGED <<pkts, wr>>
      BY <1>4, <2>1, <2>2, AcceptedIs
    <3>2. \A t \in Sock : list'[t] = IF t = d THEN "local" ELSE list[t]
      BY <1>4, <2>1, <2>2, AcceptedSocks
    <3>3. \A t \in Sock : rid'[t] = IF t = d THEN m.arg0 ELSE rid[t]
      BY <1>4, <2>1, <2>2, AcceptedSocks
    <3>4. \A t \in Sock : peer'[t] <=> t = d \/ peer[t] BY <1>4, <2>1, <2>2, AcceptedSocks
    <3>5. \A t \in Sock : rd'[t] <=> t = d \/ rd[t] BY <1>4, <2>1, <2>2, AcceptedSocks
    <3> QED BY <3>1, <3>2, <3>3, <3>4, <3>5
  <2>4. m.arg0 # 0 BY <2>3, SockIs
  <2> QED BY <1>0, <2>3, <2>4 DEF Sockets
<1>5. ASSUME NEW early \in BOOLEAN, ClientOpen(early) PROVE Sockets'
  <2>1. PICK h : h = Host(nextId["host"]) OBVIOUS
  <2>2. /\ h \in Sock /\ list[h] = "none" /\ rid[h] = 0 /\ ~peer[h] /\ ~rd[h] /\ pkts[h] = <<>>
        /\ \A t \in Sock : list'[t] = IF t = h THEN (IF early THEN "freed" ELSE "local")
                                               ELSE list[t]
        /\ UNCHANGED <<peer, rid, pkts, rd, wr>>
    BY <1>5, <2>1, ClientIs
  <2>3. h[1] = "host" BY <2>1 DEF Host
  <2> QED BY <1>0, <2>2, <2>3 DEF Sockets
<1>6. ASSUME NEW e \in End, WrteQueued(e) PROVE Sockets'
  <2>1. PICK m : m = Head(wire[Far(e)]) OBVIOUS
  <2>2. PICK s \in Sock : s = <<e, m.arg1>> BY <1>6, <2>1, QueuedIs
  <2>3. /\ list[s] = "local" /\ peer[s] /\ pkts'[s] # <<>>
        /\ UNCHANGED <<list, peer, rid, rd>>
    BY <1>6, <2>1, <2>2, QueuedIs
  <2>4. /\ \A t \in Sock : t # s => pkts'[t] = pkts[t]
        /\ \A t \in Sock : wr'[t] <=> t = s \/ wr[t]
    BY <1>6, <2>1, <2>2, QueuedIs
  <2> QED BY <1>0, <2>3, <2>4 DEF Sockets
<1>7. ASSUME NEW s \in Sock, DrainSome(s) PROVE Sockets'
  BY <1>0, <1>7, SomeIs DEF Sockets
<1>8. ASSUME NEW s \in Sock, DrainAll(s) PROVE Sockets'
  <2>1. \A t \in Sock : pkts'[t] = IF t = s THEN <<>> ELSE pkts[t] BY <1>8, AllIs
  <2>2. \A t \in Sock : wr'[t] <=> t # s /\ wr[t] BY <1>8, AllIs
  <2>3. UNCHANGED <<list, peer, rid, rd>> BY <1>8, AllIs
  <2> QED BY <1>0, <2>1, <2>2, <2>3 DEF Sockets
<1>9. ASSUME NEW s \in Sock, ReadSome(s) PROVE Sockets'
  <2>1. \A t \in Sock : rd'[t] <=> t # s /\ rd[t] BY <1>9, ReadSomeIs
  <2>2. UNCHANGED <<list, peer, rid, pkts, wr>> BY <1>9, ReadSomeIs
  <2> QED BY <1>0, <2>1, <2>2 DEF Sockets
<1> QED BY <1>1, <1>2, <1>3, <1>4, <1>5, <1>6, <1>7, <1>8, <1>9, Steps

-----------------------------------------------------------------------------
(* The session.                                                            *)

SyncLast(e) ==
  \A k \in 1..Len(wire[e]) : wire[e][k].cmd = "SYNC" => link = "down" /\ k = Len(wire[e])

LEMMA SentLast ==
  ASSUME CInv, NEW e \in End, NEW ms \in Seq(Message), \A k \in 1..Len(ms) : ms[k].cmd # "SYNC",
         UNCHANGED link, wire'[e] = Sent(e, ms)
  PROVE  SyncLast(e)'
<1>1. TypeOK /\ SyncLast(e) BY DEF CInv, Session, SyncLast
<1> SUFFICES ASSUME NEW k \in 1..Len(Sent(e, ms)), Sent(e, ms)[k].cmd = "SYNC"
             PROVE  link = "down" /\ k = Len(Sent(e, ms))
  BY DEF SyncLast
<1>2. k \in 1..Len(wire[e]) /\ Sent(e, ms)[k] = wire[e][k] BY <1>1, SentElems
<1>3. link = "down" /\ k = Len(wire[e]) BY <1>1, <1>2 DEF SyncLast
<1> QED BY <1>3 DEF Sent

LEMMA TailLast ==
  ASSUME CInv, NEW e \in End, wire[e] # <<>>, wire'[e] = Tail(wire[e]), UNCHANGED link
  PROVE  SyncLast(e)'
<1>1. SyncLast(e) /\ wire[e] \in Seq(Message) BY DEF CInv, Session, SyncLast, TypeOK
<1> QED BY <1>1, TailElems DEF SyncLast

(* Handlers that leave the connection as it is.                            *)
LEMMA SessionKeeps ==
  ASSUME CInv, UNCHANGED <<online, link, sweep>>, NEW e \in End, NEW ms \in Seq(Message),
         \A k \in 1..Len(ms) : ms[k].cmd # "SYNC",
         \/ Reply(e, ms) /\ wire[Far(e)] # <<>>
         \/ Send(e, ms)
         \/ UNCHANGED wire,
         \A s \in Sock : list'[s] = "local" => list[s] = "local" \/ online[s[1]]
  PROVE  Session'
<1>0. TypeOK /\ Session BY DEF CInv
<1>1. \A f \in End : f = e \/ f = Far(e) BY DEF End, Far
<1>2. \A f \in End : ~online[f] /\ ~sweep[f] => \A s \in Sock : s[1] = f => list'[s] # "local"
  BY <1>0 DEF Session
<1>3. ASSUME NEW f \in End, sweep[f] PROVE wire'[Far(f)] = <<>>
  <2>1. link = "down" /\ wire[Far(f)] = <<>> BY <1>0, <1>3 DEF Session
  <2>2. Sent(e, ms) = wire[e] BY <2>1 DEF Sent
  <2>3. CASE Reply(e, ms) /\ wire[Far(e)] # <<>>
    <3>1. f = Far(e) BY <1>1, <2>1, <2>3
    <3> QED BY <1>0, <2>1, <2>2, <2>3, <3>1, ReplyWire, EndFacts
  <2>4. CASE Send(e, ms)
    <3>1. wire'[e] = wire[e] /\ wire'[Far(e)] = wire[Far(e)] BY <1>0, <2>2, <2>4, SendWire
    <3> QED BY <1>1, <2>1, <3>1, EndFacts
  <2> QED BY <2>1, <2>3, <2>4
<1>4. ASSUME NEW f \in End PROVE SyncLast(f)'
  <2>1. CASE Reply(e, ms) /\ wire[Far(e)] # <<>>
    BY <1>0, <1>1, <2>1, ReplyWire, SentLast, TailLast, EndFacts
  <2>2. CASE UNCHANGED wire BY <1>0, <2>2 DEF Session, SyncLast
  <2>3. CASE Send(e, ms)
    <3>1. CASE f = e BY <1>0, <2>3, <3>1, SendWire, SentLast
    <3>2. CASE f = Far(e) BY <1>0, <2>3, <3>2, SendWire DEF Session, SyncLast
    <3> QED BY <1>1, <3>1, <3>2
  <2> QED BY <2>1, <2>2, <2>3
<1> QED BY <1>0, <1>2, <1>3, <1>4 DEF Session, SyncLast

LEMMA NoSyncs ==
  /\ \A k \in 1..Len(<<>>) : <<>>[k].cmd # "SYNC"
  /\ \A cmd, a, b, d : cmd # "SYNC" =>
       \A k \in 1..Len(<<Msg(cmd, a, b, d)>>) : <<Msg(cmd, a, b, d)>>[k].cmd # "SYNC"
BY DEF Msg

LEMMA ClosesOnly ==
  ASSUME CInv, NEW S, Closing(S)
  PROVE  \A s \in Sock : list'[s] = "local" => list[s] = "local"
BY ClosingIs DEF CInv

(* The messages of each handler: of what type, and never SYNC.             *)
Plain(ms) == ms \in Seq(Message) /\ \A k \in 1..Len(ms) : ms[k].cmd \notin {"OKAY", "WRTE", "SYNC", "OPEN"}

LEMMA PlainMsgs ==
  ASSUME CInv
  PROVE  /\ Plain(<<>>) /\ Plain(<<Msg("CNXN", 0, 0, <<>>)>>)
         /\ \A s \in Sock : Plain(CloseMsgs(s))
         /\ \A a \in 0..MaxId : Plain(SendClose(a))
<1>1. Plain(<<>>) BY NoMsgs DEF Plain
<1>2. ASSUME NEW a \in 0..MaxId, NEW cmd \in {"CNXN", "CLSE"} PROVE Plain(<<Msg(cmd, 0, a, <<>>)>>)
  <2>1. <<Msg(cmd, 0, a, <<>>)>> \in Seq(Message) BY PlainMsg, ZeroId
  <2>2. Msg(cmd, 0, a, <<>>).cmd = cmd BY DEF Msg
  <2> QED BY <2>1, <2>2 DEF Plain
<1>3. \A s \in Sock : rid[s] \in 0..MaxId BY DEF CInv, TypeOK
<1> QED BY <1>1, <1>2, <1>3, ZeroId DEF CloseMsgs, SendClose

LEMMA ReadMsgType ==
  ASSUME CInv, NEW s \in Sock, rd[s]
  PROVE  /\ ReadData(s) \in Seq(Message) /\ CloseMsgs(s) \in Seq(Message)
         /\ ReadData(s) \o CloseMsgs(s) \in Seq(Message)
         /\ ReadData(s) = <<>> \/ ReadData(s) = <<ReadMsg(s)>>
         /\ CloseMsgs(s) = <<Msg("CLSE", 0, rid[s], <<>>)>>
         /\ \A k \in 1..Len(ReadData(s) \o CloseMsgs(s)) :
              (ReadData(s) \o CloseMsgs(s))[k].cmd \in {"WRTE", "CLSE"}
<1>1. ReadData(s) \in Seq(Message) /\ CloseMsgs(s) \in Seq(Message)
  BY ReadDataType, CloseMsgsType DEF CInv
<1>2. ReadData(s) \o CloseMsgs(s) \in Seq(Message) BY <1>1, ConcatProperties
<1>3. peer[s] BY ReadIs
<1>4. ReadData(s) = <<>> \/ ReadData(s) = <<ReadMsg(s)>> BY DEF ReadData, ReadMsg
<1>5. CloseMsgs(s) = <<Msg("CLSE", 0, rid[s], <<>>)>> BY <1>3 DEF CloseMsgs
<1>6. ReadMsg(s).cmd = "WRTE" BY DEF ReadMsg, Msg
<1>7. \A k \in 1..Len(ReadData(s)) : ReadData(s)[k].cmd = "WRTE"
  <2>1. CASE ReadData(s) = <<>> BY <2>1
  <2>2. CASE ReadData(s) = <<ReadMsg(s)>> BY <1>6, <2>2
  <2> QED BY <1>4, <2>1, <2>2
<1>8. \A k \in 1..Len(CloseMsgs(s)) : CloseMsgs(s)[k].cmd = "CLSE" BY <1>5 DEF Msg
<1>9. ASSUME NEW k \in 1..Len(ReadData(s) \o CloseMsgs(s))
      PROVE  (ReadData(s) \o CloseMsgs(s))[k].cmd \in {"WRTE", "CLSE"}
  <2>1. /\ Len(ReadData(s)) \in Nat /\ Len(CloseMsgs(s)) \in Nat
        /\ Len(ReadData(s) \o CloseMsgs(s)) = Len(ReadData(s)) + Len(CloseMsgs(s))
        /\ (ReadData(s) \o CloseMsgs(s))[k]
             = IF k <= Len(ReadData(s)) THEN ReadData(s)[k]
                                        ELSE CloseMsgs(s)[k - Len(ReadData(s))]
    BY <1>1, ConcatProperties, LenProperties
  <2>2. CASE k <= Len(ReadData(s)) BY <1>7, <2>1, <2>2
  <2>3. CASE k > Len(ReadData(s))
    <3>1. k - Len(ReadData(s)) \in 1..Len(CloseMsgs(s)) BY <2>1, <2>3
    <3> QED BY <1>8, <2>1, <2>3, <3>1
  <2> QED BY <2>1, <2>2, <2>3
<1> QED BY <1>1, <1>2, <1>4, <1>5, <1>9

LEMMA OkayMsg ==
  ASSUME NEW a \in 0..MaxId, NEW b \in 0..MaxId
  PROVE  /\ <<Msg("OKAY", a, b, <<>>)>> \in Seq(Message)
         /\ Msg("OKAY", a, b, <<>>).cmd = "OKAY"
         /\ Msg("OKAY", a, b, <<>>).arg0 = a /\ Msg("OKAY", a, b, <<>>).arg1 = b
BY PlainMsg DEF Msg

LEMMA OpenMsg ==
  ASSUME NEW a \in 0..MaxId
  PROVE  /\ <<Msg("OPEN", a, 0, <<>>)>> \in Seq(Message)
         /\ Msg("OPEN", a, 0, <<>>).cmd = "OPEN"
         /\ Msg("OPEN", a, 0, <<>>).arg0 = a /\ Msg("OPEN", a, 0, <<>>).arg1 = 0
BY PlainMsg, ZeroId DEF Msg

LEMMA IdTypes == \A i \in Id : i \in 0..MaxId
BY DEF Id

(* What the answer to data is made of.                                     *)
LEMMA WrittenIs ==
  ASSUME CInv, NEW e \in End, WrteWritten(e), NEW m, m = Head(wire[Far(e)]),
         NEW s, s = <<e, m.arg1>>
  PROVE  /\ Arrives(e, "WRTE") /\ Found(e, m.arg1) /\ online[e] /\ pkts[s] = <<>>
         /\ s \in Sock /\ list[s] = "local" /\ peer[s] /\ rid[s] = m.arg0 /\ s[2] = m.arg1
         /\ m.arg0 \in Id /\ m.arg1 \in Id
         /\ Reply(e, <<Msg("OKAY", m.arg1, m.arg0, <<>>)>>)
         /\ UNCHANGED <<sockVars, online, link, links, sweep>>
<1>1. /\ Arrives(e, "WRTE") /\ Found(e, m.arg1) /\ online[e] /\ pkts[s] = <<>>
      /\ UNCHANGED <<sockVars, online, link, links, sweep>>
  BY DEF WrteWritten, linkVars
<1>2. s \in Sock /\ list[s] = "local" /\ peer[s] /\ rid[s] = m.arg0 BY <1>1, DataFinds
<1>3. m.arg0 \in Id /\ m.arg1 \in Id BY <1>1, ArrivesFrom
<1>4. Reply(e, <<Msg("OKAY", m.arg1, m.arg0, <<>>)>>) BY DEF WrteWritten, SendReady
<1> QED BY <1>1, <1>2, <1>3, <1>4

LEMMA SessionNext == ASSUME CInv, Next PROVE Session'
<1>0. TypeOK /\ Session /\ \A e \in End : SyncLast(e) BY DEF CInv, Session, SyncLast
<1> USE DEF linkVars
<1>1. ASSUME LinkUp PROVE Session'
  <2>1. /\ \A e \in End : wire[e] = <<>> /\ ~online[e] /\ ~sweep[e]
        /\ UNCHANGED <<list, online, sweep>>
        /\ wire' = [wire EXCEPT !["host"] = <<Msg("CNXN", 0, 0, <<>>)>>]
    BY <1>1 DEF LinkUp, sockVars
  <2>2. \A e \in End : wire'[e] = <<>> \/ wire'[e] = <<Msg("CNXN", 0, 0, <<>>)>>
    BY <1>0, <2>1 DEF TypeOK
  <2>3. \A e \in End : \A k \in 1..Len(wire'[e]) : wire'[e][k].cmd # "SYNC"
    <3> TAKE e \in End
    <3>1. CASE wire'[e] = <<>> BY <3>1
    <3>2. CASE wire'[e] = <<Msg("CNXN", 0, 0, <<>>)>> BY <3>2 DEF Msg
    <3> QED BY <2>2, <3>1, <3>2
  <2> QED BY <1>0, <2>1, <2>3 DEF Session
<1>2. ASSUME LinkLost PROVE Session'
  <2>1. link = "up" /\ link' = "down" /\ UNCHANGED <<list, online, sweep>>
    BY <1>2 DEF LinkLost, sockVars
  <2>2. PICK h \in 0..Len(wire["host"]), d \in 0..Len(wire["device"]) :
          wire' = [e \in End |-> SubSeq(wire[e], 1, IF e = "host" THEN h ELSE d)
                                   \o <<Msg("SYNC", 0, 0, <<>>)>>]
    BY <1>2 DEF LinkLost
  <2>3. \A e \in End : ~sweep[e] BY <1>0, <2>1 DEF Session
  <2>4. ASSUME NEW e \in End, NEW n \in 0..Len(wire[e]),
               wire'[e] = SubSeq(wire[e], 1, n) \o <<Msg("SYNC", 0, 0, <<>>)>>
        PROVE  \A k \in 1..Len(wire'[e]) : wire'[e][k].cmd = "SYNC" => k = Len(wire'[e])
    <3> DEFINE p == SubSeq(wire[e], 1, n)
               r == <<Msg("SYNC", 0, 0, <<>>)>>
    <3>1. wire[e] \in Seq(Message) /\ r \in Seq(Message)
      BY <1>0, PlainMsg, ZeroId DEF TypeOK
    <3>2. p \in Seq(Message) /\ Len(p) = n /\ \A k \in 1..n : p[k] = wire[e][k]
      BY <3>1, <2>4, PrefixIn
    <3>3. /\ Len(r) = 1 /\ Len(p \o r) = n + 1 /\ n \in Nat /\ Len(wire[e]) \in Nat
          /\ \A k \in 1..n + 1 : (p \o r)[k] = IF k <= n THEN p[k] ELSE r[k - n]
      BY <3>1, <3>2, ConcatProperties, LenProperties
    <3>4. \A k \in 1..Len(wire[e]) : wire[e][k].cmd # "SYNC" BY <1>0, <2>1 DEF SyncLast
    <3>5. wire'[e] = p \o r BY <2>4
    <3> HIDE DEF p, r
    <3>6. \A k \in 1..n : k \in 1..Len(wire[e]) BY <2>4, <3>3
    <3> QED BY <3>2, <3>3, <3>4, <3>5, <3>6
  <2>5. \A e \in End : \A k \in 1..Len(wire'[e]) : wire'[e][k].cmd = "SYNC" => k = Len(wire'[e])
    <3>1. wire'["host"] = SubSeq(wire["host"], 1, h) \o <<Msg("SYNC", 0, 0, <<>>)>>
      BY <2>2 DEF End
    <3>2. wire'["device"] = SubSeq(wire["device"], 1, d) \o <<Msg("SYNC", 0, 0, <<>>)>>
      BY <2>2 DEF End
    <3>3. "host" \in End /\ "device" \in End /\ \A e \in End : e = "host" \/ e = "device"
      BY DEF End
    <3> QED BY <2>2, <2>4, <3>1, <3>2, <3>3
  <2> QED BY <1>0, <2>1, <2>3, <2>5 DEF Session
<1>3. ASSUME NEW e \in End, HandleSync(e) PROVE Session'
  <2>1. /\ wire[Far(e)] # <<>> /\ Head(wire[Far(e)]).cmd = "SYNC" /\ Reply(e, <<>>)
        /\ online' = [online EXCEPT ![e] = FALSE] /\ sweep' = [sweep EXCEPT ![e] = TRUE]
        /\ UNCHANGED link
    BY <1>3 DEF HandleSync, Arrives
  <2>2. Far(e) \in End /\ wire[Far(e)] \in Seq(Message) BY <1>0, EndFacts DEF TypeOK
  <2>3. link = "down" /\ Len(wire[Far(e)]) = 1
    <3>1. Head(wire[Far(e)]) = wire[Far(e)][1] /\ 1 \in 1..Len(wire[Far(e)])
      BY <2>1, <2>2, TailElems
    <3> QED BY <1>0, <2>1, <2>2, <3>1 DEF SyncLast
  <2>4. wire'[e] = wire[e] /\ wire'[Far(e)] = <<>>
    <3>1. Tail(wire[Far(e)]) \in Seq(Message) /\ Len(Tail(wire[Far(e)])) = 0
      BY <2>1, <2>2, <2>3, HeadTailProperties
    <3>2. Tail(wire[Far(e)]) = <<>> BY <3>1, EmptySeq
    <3> QED BY <1>0, <2>1, <2>3, <3>2, ReplyWire DEF Sent
  <2>5. \A s \in Sock : list'[s] = "local" => list[s] = "local"
    BY <1>3, SyncCloses, ClosesOnly
  <2>6. \A f \in End : f = e \/ f = Far(e) BY DEF End, Far
  <2>7. \A f \in End : SyncLast(f)' BY <1>0, <2>1, <2>4, <2>6 DEF SyncLast
  <2>8. \A f \in End : /\ online'[f] <=> f # e /\ online[f]
                       /\ sweep'[f] <=> f = e \/ sweep[f]
    BY <1>0, <2>1 DEF TypeOK
  <2>9. \A f \in End : sweep'[f] => wire'[Far(f)] = <<>> /\ link' = "down" /\ ~online'[f]
    BY <1>0, <2>1, <2>3, <2>4, <2>6, <2>8, EndFacts DEF Session
  <2> QED BY <1>0, <2>5, <2>7, <2>8, <2>9 DEF Session, SyncLast
<1>4. ASSUME NEW e \in End, CloseAllSockets(e) PROVE Session'
  <2>1. UNCHANGED <<online, link, wire>> BY <1>4 DEF CloseAllSockets
  <2>2. \A f \in End : sweep'[f] <=> f # e /\ sweep[f]
    BY <1>0, <1>4 DEF CloseAllSockets, TypeOK
  <2>3. \A s \in Sock : s[1] = e => list'[s] # "local"
    <3>1. Closing(Swept(e)) BY <1>4, SweepCloses
    <3> QED BY <1>0, <3>1, ClosingIs DEF Swept
  <2>4. \A s \in Sock : list'[s] = "local" => list[s] = "local"
    BY <1>4, SweepCloses, ClosesOnly
  <2> QED BY <1>0, <2>1, <2>2, <2>3, <2>4 DEF Session
<1>5. ASSUME NEW e \in End, HandleCnxn(e) PROVE Session'
  <2>1. PICK ms : ms = IF e = "device" THEN <<Msg("CNXN", 0, 0, <<>>)>> ELSE <<>> OBVIOUS
  <2>2. Plain(ms) BY <2>1, PlainMsgs
  <2>3. /\ Reply(e, ms) /\ wire[Far(e)] # <<>> /\ UNCHANGED <<link, sweep>>
        /\ \A f \in End : online'[f] <=> f = e \/ online[f]
    BY <1>0, <1>5, <2>1 DEF HandleCnxn, Arrives, TypeOK
  <2>4. Far(e) \in End BY EndFacts
  <2>5. ~sweep[e] BY <1>0, <2>3 DEF Session
  <2>6. \A f \in End : f = e \/ f = Far(e) BY DEF End, Far
  <2>7. wire'[e] = Sent(e, ms) /\ wire'[Far(e)] = Tail(wire[Far(e)])
    BY <1>0, <2>3, ReplyWire
  <2>8. \A f \in End : SyncLast(f)'
    BY <2>2, <2>3, <2>4, <2>6, <2>7, SentLast, TailLast DEF Plain
  <2>9. \A f \in End : sweep'[f] => wire'[Far(f)] = <<>> /\ link' = "down" /\ ~online'[f]
    <3> SUFFICES ASSUME sweep[Far(e)]
                 PROVE  wire'[e] = <<>> /\ link = "down" /\ ~online'[Far(e)]
      BY <2>3, <2>5, <2>6, EndFacts
    <3>1. link = "down" /\ wire[e] = <<>> /\ ~online[Far(e)]
      BY <1>0, <2>4, EndFacts DEF Session
    <3> QED BY <2>3, <2>4, <2>7, <3>1, EndFacts DEF Sent
  <2>10. \A s \in Sock : list'[s] = "local" => list[s] = "local"
    BY <1>5, CnxnCloses, ClosesOnly
  <2> QED BY <1>0, <2>3, <2>8, <2>9, <2>10 DEF Session, SyncLast
<1>6. ASSUME NEW early \in BOOLEAN, ClientOpen(early) PROVE Session'
  <2>1. /\ online["host"] /\ UNCHANGED <<online, link, sweep>> /\ nextId["host"] \in Id
        /\ Send("host", <<Msg("OPEN", nextId["host"], 0, <<>>)>>)
    BY <1>6, ClientIs
  <2>2. \A t \in Sock : t # Host(nextId["host"]) => list'[t] = list[t] BY <1>6, ClientIs
  <2>3. \A t \in Sock : t = Host(nextId["host"]) => t[1] = "host" BY DEF Host
  <2>4. <<Msg("OPEN", nextId["host"], 0, <<>>)>> \in Seq(Message)
    BY <2>1, IdTypes, OpenMsg
  <2>5. PICK ms : ms = <<Msg("OPEN", nextId["host"], 0, <<>>)>> OBVIOUS
  <2>6. ms \in Seq(Message) /\ \A k \in 1..Len(ms) : ms[k].cmd # "SYNC"
    BY <2>4, <2>5, NoSyncs
  <2>7. \A t \in Sock : list'[t] = "local" => list[t] = "local" \/ online[t[1]]
    BY <2>1, <2>2, <2>3
  <2>8. Send("host", ms) /\ "host" \in End BY <2>1, <2>5 DEF End
  <2> QED BY <2>1, <2>6, <2>7, <2>8, SessionKeeps
<1>7. ASSUME NEW e \in End, OpenAccepted(e) PROVE Session'
  <2>1. PICK m : m = Head(wire[Far(e)]) OBVIOUS
  <2>2. PICK d : d = Device(nextId["device"]) OBVIOUS
  <2>3. PICK n \in Id : n = nextId["device"] BY <1>7, <2>1, <2>2, AcceptedIs
  <2>4. /\ e = "device" /\ Arrives(e, "OPEN") /\ online[e] /\ m.arg0 \in Id
        /\ UNCHANGED <<online, link, sweep>>
    BY <1>7, <2>1, <2>2, AcceptedIs
  <2>5. Reply(e, <<Msg("OKAY", n, m.arg0, <<>>)>>) BY <1>7, <2>1, <2>2, <2>3, AcceptedIs
  <2>6. \A t \in Sock : t # d => list'[t] = list[t] BY <1>7, <2>1, <2>2, AcceptedSocks
  <2>7. \A t \in Sock : t = d => t[1] = e BY <2>2, <2>4 DEF Device
  <2>8. <<Msg("OKAY", n, m.arg0, <<>>)>> \in Seq(Message) BY <2>4, IdTypes, OkayMsg
  <2>9. PICK ms : ms = <<Msg("OKAY", n, m.arg0, <<>>)>> OBVIOUS
  <2>10. ms \in Seq(Message) /\ \A k \in 1..Len(ms) : ms[k].cmd # "SYNC"
    BY <2>8, <2>9, NoSyncs
  <2>11. \A t \in Sock : list'[t] = "local" => list[t] = "local" \/ online[t[1]]
    BY <2>4, <2>6, <2>7
  <2>12. Reply(e, ms) /\ wire[Far(e)] # <<>> BY <2>4, <2>5, <2>9 DEF Arrives
  <2> QED BY <2>4, <2>10, <2>11, <2>12, SessionKeeps
<1>8. ASSUME NEW e \in End, OpenRefused(e) PROVE Session'
  <2>1. PICK ms : ms = SendClose(Head(wire[Far(e)]).arg0) OBVIOUS
  <2>2. Reply(e, ms) /\ wire[Far(e)] # <<>> /\ UNCHANGED <<list, online, link, sweep>>
    BY <1>8, <2>1 DEF OpenRefused, Arrives, sockVars
  <2>3. Plain(ms) BY <1>0, <2>1, <2>2, ArrivesType, PlainMsgs
  <2> QED BY <2>2, <2>3, SessionKeeps DEF Plain
<1>9. ASSUME NEW e \in End, HandleOkay(e) PROVE Session'
  <2>1. PICK m : m = Head(wire[Far(e)]) OBVIOUS
  <2>2. PICK s : s = <<e, m.arg1>> OBVIOUS
  <2>3. Arrives(e, "OKAY") /\ Reply(e, <<>>) /\ UNCHANGED <<list, online, link, sweep>>
    BY <1>9, <2>1, <2>2, OkayIs
  <2> QED BY <2>3, NoMsgs, NoSyncs, SessionKeeps DEF Arrives
<1>10. ASSUME NEW e \in End, HandleClse(e) \/ WrteFailed(e) PROVE Session'
  <2>1. PICK ms : ms = CloseMsgs(FoundSock(e)) OBVIOUS
  <2>2. Reply(e, ms) /\ wire[Far(e)] # <<>> /\ UNCHANGED <<online, link, sweep>>
    BY <1>10, <2>1 DEF HandleClse, WrteFailed, Arrives, FoundSock
  <2>3. Plain(ms) BY <1>10, <2>1, FoundCloses, PlainMsgs
  <2>4. \A t \in Sock : list'[t] = "local" => list[t] = "local"
    BY <1>10, FoundCloses, ClosesOnly
  <2> QED BY <2>2, <2>3, <2>4, SessionKeeps DEF Plain
<1>11. ASSUME NEW e \in End, Ignore(e) PROVE Session'
  BY <1>11, NoMsgs, NoSyncs, SessionKeeps DEF Ignore, sockVars
<1>12. ASSUME NEW e \in End, WrteWritten(e) PROVE Session'
  <2>1. PICK m : m = Head(wire[Far(e)]) OBVIOUS
  <2>2. PICK s : s = <<e, m.arg1>> OBVIOUS
  <2>3. /\ Arrives(e, "WRTE") /\ Reply(e, <<Msg("OKAY", m.arg1, m.arg0, <<>>)>>)
        /\ m.arg0 \in Id /\ m.arg1 \in Id /\ UNCHANGED <<sockVars, online, link, sweep>>
    BY <1>12, <2>1, <2>2, WrittenIs
  <2>4. <<Msg("OKAY", m.arg1, m.arg0, <<>>)>> \in Seq(Message) BY <2>3, IdTypes, OkayMsg
  <2>5. UNCHANGED list BY <2>3 DEF sockVars
  <2> QED BY <2>3, <2>4, <2>5, NoSyncs, SessionKeeps DEF Arrives
<1>13. ASSUME NEW e \in End, WrteQueued(e) PROVE Session'
  <2>1. PICK m : m = Head(wire[Far(e)]) OBVIOUS
  <2>2. Arrives(e, "WRTE") /\ Reply(e, <<>>) /\ UNCHANGED <<list, online, link, sweep>>
    BY <1>13, <2>1, QueuedIs
  <2> QED BY <2>2, NoMsgs, NoSyncs, SessionKeeps DEF Arrives
<1>14. ASSUME NEW s \in Sock, DrainSome(s) PROVE Session'
  BY <1>14, NoMsgs, NoSyncs, SomeIs, SessionKeeps DEF End
<1>15. ASSUME NEW s \in Sock, DrainLast(s) PROVE Session'
  <2>1. \A t \in Sock : list'[t] = "local" => list[t] = "local"
    BY <1>15, EventCloses, ClosesOnly
  <2> QED BY <1>15, <2>1, NoMsgs, NoSyncs, SessionKeeps DEF DrainLast, End
<1>16. ASSUME NEW s \in Sock, DrainAll(s) PROVE Session'
  <2>1. /\ Send(s[1], <<Msg("OKAY", s[2], rid[s], <<>>)>>) /\ rid[s] \in Id
        /\ UNCHANGED <<list, online, link, sweep>>
    BY <1>16, AllIs
  <2>2. s[1] \in End /\ s[2] \in Id BY SockIs
  <2>3. <<Msg("OKAY", s[2], rid[s], <<>>)>> \in Seq(Message) BY <2>1, <2>2, IdTypes, OkayMsg
  <2>4. PICK ms \in Seq(Message) : ms = <<Msg("OKAY", s[2], rid[s], <<>>)>> BY <2>3
  <2>5. \A k \in 1..Len(ms) : ms[k].cmd # "SYNC" BY <2>4, NoSyncs
  <2>6. Send(s[1], ms) BY <2>1, <2>4
  <2> QED BY <2>1, <2>2, <2>5, <2>6, SessionKeeps
<1>17. ASSUME NEW s \in Sock, DrainFailed(s) PROVE Session'
  <2>1. \A t \in Sock : list'[t] = "local" => list[t] = "local"
    BY <1>17, EventCloses, ClosesOnly
  <2>2. s[1] \in End /\ Plain(CloseMsgs(s)) BY SockIs, PlainMsgs
  <2>3. Send(s[1], CloseMsgs(s)) /\ UNCHANGED <<online, link, sweep>> BY <1>17 DEF DrainFailed
  <2> QED BY <2>1, <2>2, <2>3, SessionKeeps DEF Plain
<1>18. ASSUME NEW s \in Sock, ReadSome(s) PROVE Session'
  <2>1. /\ Send(s[1], <<ReadMsg(s)>>) /\ rd[s] /\ UNCHANGED <<list, online, link, sweep>>
        /\ ReadData(s) = <<ReadMsg(s)>>
    BY <1>18, ReadSomeIs
  <2>2. s[1] \in End /\ <<ReadMsg(s)>> \in Seq(Message) BY <2>1, SockIs, ReadMsgType
  <2>3. PICK ms \in Seq(Message) : ms = <<ReadMsg(s)>> BY <2>2
  <2>4. \A k \in 1..Len(ms) : ms[k].cmd # "SYNC" BY <2>3, NoSyncs DEF ReadMsg
  <2>5. Send(s[1], ms) BY <2>1, <2>3
  <2> QED BY <2>1, <2>2, <2>4, <2>5, SessionKeeps
<1>19. ASSUME NEW s \in Sock, ReadEof(s) PROVE Session'
  <2>1. \A t \in Sock : list'[t] = "local" => list[t] = "local"
    BY <1>19, EventCloses, ClosesOnly
  <2>2. PICK ms : ms = ReadData(s) \o CloseMsgs(s) OBVIOUS
  <2>3. rd[s] /\ Send(s[1], ms) /\ UNCHANGED <<online, link, sweep>>
    BY <1>19, <2>2 DEF ReadEof
  <2>4. s[1] \in End BY SockIs
  <2>5. ms \in Seq(Message) /\ \A k \in 1..Len(ms) : ms[k].cmd # "SYNC"
    BY <2>2, <2>3, ReadMsgType
  <2> QED BY <2>1, <2>3, <2>4, <2>5, SessionKeeps
<1>20. ASSUME NEW s \in Sock, ClientWrite(s) \/ \E how \in {"eof", "gone"} : ClientShut(s, how)
       PROVE  Session'
  BY <1>0, <1>20 DEF ClientWrite, ClientShut, sockVars, Session
<1> QED
  BY <1>1, <1>2, <1>3, <1>4, <1>5, <1>6, <1>7, <1>8, <1>9, <1>10, <1>11, <1>12, <1>13, <1>14,
     <1>15, <1>16, <1>17, <1>18, <1>19, <1>20
  DEF Next, Handle, Event

-----------------------------------------------------------------------------
(* The wires: what each handler sends, by the ids it names.                *)

LEMMA RidKept ==
  ASSUME CInv, Next
  PROVE  /\ \A s \in Sock : rid[s] # 0 => rid'[s] = rid[s]
         /\ \A e \in End : nextId[e] <= nextId'[e]
<1>0. TypeOK /\ Ids BY DEF CInv
<1>1. CASE UNCHANGED <<rid, nextId>> BY <1>0, <1>1 DEF TypeOK
<1>2. ASSUME NEW e \in End, HandleOkay(e)
      PROVE  UNCHANGED nextId /\ \A s \in Sock : rid[s] # 0 => rid'[s] = rid[s]
  <2>1. PICK m : m = Head(wire[Far(e)]) OBVIOUS
  <2>2. PICK s : s = <<e, m.arg1>> OBVIOUS
  <2>3. Arrives(e, "OKAY") /\ UNCHANGED nextId BY <1>2, <2>1, <2>2, OkayIs
  <2>4. \A t \in Sock : rid'[t] = IF t = s THEN m.arg0 ELSE rid[t] BY <1>2, <2>1, <2>2, OkayIs
  <2>5. rid[s] # 0 => rid[s] = m.arg0 BY <2>1, <2>2, <2>3, ArrivesFrom
  <2> QED BY <2>3, <2>4, <2>5
<1>3. ASSUME NEW e \in End, OpenAccepted(e)
      PROVE  /\ \A s \in Sock : rid[s] # 0 => rid'[s] = rid[s]
             /\ \A f \in End : nextId[f] <= nextId'[f]
  <2>1. PICK m : m = Head(wire[Far(e)]) OBVIOUS
  <2>2. PICK d : d = Device(nextId["device"]) OBVIOUS
  <2>3. rid[d] = 0 BY <1>3, <2>1, <2>2, AcceptedIs
  <2>4. \A t \in Sock : rid'[t] = IF t = d THEN m.arg0 ELSE rid[t]
    BY <1>3, <2>1, <2>2, AcceptedSocks
  <2>5. \A f \in End : nextId'[f] = IF f = "device" THEN nextId[f] + 1 ELSE nextId[f]
    BY <1>3, <2>1, <2>2, AcceptedIs
  <2>6. \A f \in End : nextId[f] \in Nat BY <1>0 DEF TypeOK
  <2> QED BY <2>3, <2>4, <2>5, <2>6
<1>4. ASSUME NEW early \in BOOLEAN, ClientOpen(early)
      PROVE  UNCHANGED rid /\ \A f \in End : nextId[f] <= nextId'[f]
  <2>1. /\ UNCHANGED rid
        /\ \A f \in End : nextId'[f] = IF f = "host" THEN nextId[f] + 1 ELSE nextId[f]
    BY <1>4, ClientIs
  <2>2. \A f \in End : nextId[f] \in Nat BY <1>0 DEF TypeOK
  <2> QED BY <2>1, <2>2
<1>5. CASE UNCHANGED sockVars BY <1>1, <1>5 DEF sockVars
<1>6. ASSUME NEW S, Closing(S) PROVE UNCHANGED <<rid, nextId>> BY <1>6 DEF Closing, CloseSockets
<1>7. ASSUME NEW e \in End, WrteQueued(e) PROVE UNCHANGED <<rid, nextId>> BY <1>7 DEF WrteQueued
<1>8. ASSUME NEW s \in Sock, DrainSome(s) \/ DrainAll(s) \/ ReadSome(s)
      PROVE  UNCHANGED <<rid, nextId>>
  BY <1>8 DEF DrainSome, DrainAll, ReadSome
<1>9. \A e \in End : nextId[e] \in Nat BY <1>0 DEF TypeOK
<1>10. UNCHANGED nextId => \A e \in End : nextId[e] <= nextId'[e] BY <1>9
<1> QED BY <1>1, <1>2, <1>3, <1>4, <1>5, <1>6, <1>7, <1>8, <1>10, Steps

(* An OKAY connects the socket it finds, if it finds one.                  *)
Greets(e) ==
  Arrives(e, "OKAY") =>
    LET s == <<e, Head(wire[Far(e)]).arg1>> IN peer'[s] \/ list'[s] # "local"

Acts(e, ms) ==
  /\ UNCHANGED link /\ ms \in Seq(Message)
  /\ \/ Reply(e, ms) /\ wire[Far(e)] # <<>> /\ Greets(e)
     \/ Send(e, ms)
     \/ UNCHANGED wire

Sends(e, ms) ==
  \A k \in 1..Len(ms) :
    /\ ms[k].cmd # "OPEN"
    /\ ms[k].cmd \in {"OKAY", "WRTE"} =>
         ms[k].arg0 \in Id /\ ms[k].arg1 \in Id /\ rid[<<e, ms[k].arg0>>] = ms[k].arg1
    /\ ms[k].cmd = "WRTE" => list[<<e, ms[k].arg0>>] = "local"

LEMMA PlainSends == ASSUME NEW e, NEW ms, Plain(ms) PROVE Sends(e, ms) /\ ms \in Seq(Message)
BY DEF Plain, Sends

LEMMA OkaySends ==
  ASSUME CInv, NEW e \in End, NEW a \in Id, NEW b \in Id, rid[<<e, a>>] = b
  PROVE  /\ Sends(e, <<Msg("OKAY", a, b, <<>>)>>)
         /\ <<Msg("OKAY", a, b, <<>>)>> \in Seq(Message)
<1>1. a \in 0..MaxId /\ b \in 0..MaxId BY IdTypes
<1> QED BY <1>1, OkayMsg DEF Sends

LEMMA ReadSends ==
  ASSUME CInv, NEW s \in Sock, rd[s]
  PROVE  /\ Sends(s[1], ReadData(s)) /\ Sends(s[1], ReadData(s) \o CloseMsgs(s))
         /\ ReadData(s) \in Seq(Message) /\ ReadData(s) \o CloseMsgs(s) \in Seq(Message)
<1> DEFINE ms == ReadData(s)
           cs == CloseMsgs(s)
<1>1. /\ ms \in Seq(Message) /\ cs \in Seq(Message) /\ ms \o cs \in Seq(Message)
      /\ ms = <<>> \/ ms = <<ReadMsg(s)>>
  BY ReadMsgType
<1>2. ReadMsg(s).cmd = "WRTE" /\ ReadMsg(s).arg0 = s[2] /\ ReadMsg(s).arg1 = rid[s]
  BY DEF ReadMsg, Msg
<1>3. s[2] \in Id /\ rid[s] \in Id /\ s = <<s[1], s[2]>> /\ list[s] = "local"
  BY SockIs, ReadIs
<1>4. Sends(s[1], ms)
  <2>1. CASE ms = <<>> BY <2>1 DEF Sends
  <2>2. CASE ms = <<ReadMsg(s)>> BY <1>2, <1>3, <2>2 DEF Sends
  <2> QED BY <1>1, <2>1, <2>2
<1>5. Sends(s[1], cs) BY PlainMsgs, PlainSends
<1>6. Sends(s[1], ms \o cs)
  <2>1. /\ Len(ms) \in Nat /\ Len(cs) \in Nat /\ Len(ms \o cs) = Len(ms) + Len(cs)
        /\ \A k \in 1..Len(ms) + Len(cs) :
             (ms \o cs)[k] = IF k <= Len(ms) THEN ms[k] ELSE cs[k - Len(ms)]
    BY <1>1, ConcatProperties, LenProperties
  <2>2. ASSUME NEW k \in 1..Len(ms \o cs)
        PROVE  \/ \E l \in 1..Len(ms) : (ms \o cs)[k] = ms[l]
               \/ \E l \in 1..Len(cs) : (ms \o cs)[k] = cs[l]
    <3>1. CASE k <= Len(ms) BY <2>1, <3>1
    <3>2. CASE k > Len(ms)
      <4>1. k - Len(ms) \in 1..Len(cs) BY <2>1, <3>2
      <4> QED BY <2>1, <3>2, <4>1
    <3> QED BY <2>1, <3>1, <3>2
  <2> QED BY <1>4, <1>5, <2>2 DEF Sends
<1> QED BY <1>1, <1>4, <1>6

(* What is dropped was for no open socket.                                 *)
LEMMA IgnoredClosed ==
  ASSUME CInv, NEW e \in End, Ignore(e), Arrives(e, "OKAY") \/ Arrives(e, "WRTE")
  PROVE  list[<<e, Head(wire[Far(e)]).arg1>>] # "local"
<1>1. PICK m : m = Head(wire[Far(e)]) OBVIOUS
<1>2. <<e, m.arg1>> \in Sock /\ m.arg1 \in Id /\ wire[Far(e)] # <<>> /\ m.cmd # "OPEN"
  BY <1>1, ArrivesFrom DEF Arrives
<1>3. CASE ~online[e]
  <2>1. ~sweep[e] BY <1>2, <1>3 DEF CInv, Session
  <2> QED BY <1>1, <1>2, <1>3, <2>1 DEF CInv, Session
<1>4. CASE online[e] BY <1>1, <1>2, <1>4 DEF Ignore, Found
<1> QED BY <1>3, <1>4

LEMMA WireSteps ==
  ASSUME CInv, Next
  PROVE  \/ LinkUp
         \/ LinkLost
         \/ \E early \in BOOLEAN : ClientOpen(early)
         \/ \E e \in End : OpenAccepted(e)
         \/ \E e \in End, ms \in Seq(Message) : Acts(e, ms) /\ Sends(e, ms)
<1>0. TypeOK BY DEF CInv
<1> DEFINE Done == \E e \in End, ms \in Seq(Message) : Acts(e, ms) /\ Sends(e, ms)
<1> USE DEF linkVars
<1>1. Sends("host", <<>>) /\ <<>> \in Seq(Message) /\ "host" \in End
  BY NoMsgs DEF Sends, End
<1>2. UNCHANGED <<wire, link>> => Done
  <2>1. UNCHANGED <<wire, link>> => Acts("host", <<>>) BY <1>1 DEF Acts
  <2> QED BY <1>1, <2>1
<1>3. ASSUME NEW e \in End, HandleSync(e) \/ HandleOkay(e) \/ Ignore(e) \/ WrteQueued(e) PROVE Done
  <2>0. Sends(e, <<>>) BY DEF Sends
  <2>1. CASE HandleSync(e) \/ WrteQueued(e)
    <3>1. /\ Reply(e, <<>>) /\ wire[Far(e)] # <<>> /\ UNCHANGED link /\ ~Arrives(e, "OKAY")
      BY <2>1 DEF HandleSync, WrteQueued, Arrives
    <3>2. Acts(e, <<>>) BY <1>1, <3>1 DEF Acts, Greets
    <3> QED BY <1>1, <2>0, <3>2
  <2>2. CASE HandleOkay(e)
    <3>1. PICK m : m = Head(wire[Far(e)]) OBVIOUS
    <3>2. PICK s : s = <<e, m.arg1>> OBVIOUS
    <3>3. s \in Sock /\ \A t \in Sock : peer'[t] <=> t = s \/ peer[t]
      BY <2>2, <3>1, <3>2, OkayIs
    <3>4. Greets(e) BY <3>1, <3>2, <3>3 DEF Greets
    <3>5. Reply(e, <<>>) /\ wire[Far(e)] # <<>> /\ UNCHANGED link
      BY <2>2 DEF HandleOkay, Arrives
    <3>6. Acts(e, <<>>) BY <1>1, <3>4, <3>5 DEF Acts
    <3> QED BY <1>1, <2>0, <3>6
  <2>3. CASE Ignore(e)
    <3>1. Greets(e) BY <2>3, IgnoredClosed DEF Greets, Ignore, sockVars
    <3>2. Reply(e, <<>>) /\ wire[Far(e)] # <<>> /\ UNCHANGED link BY <2>3 DEF Ignore
    <3>3. Acts(e, <<>>) BY <1>1, <3>1, <3>2 DEF Acts
    <3> QED BY <1>1, <2>0, <3>3
  <2> QED BY <1>3, <2>1, <2>2, <2>3
<1>4. ASSUME NEW e \in End, HandleCnxn(e) PROVE Done
  <2>1. PICK ms : ms = IF e = "device" THEN <<Msg("CNXN", 0, 0, <<>>)>> ELSE <<>> OBVIOUS
  <2>2. Sends(e, ms) /\ ms \in Seq(Message) BY <2>1, PlainMsgs, PlainSends
  <2>3. Acts(e, ms) BY <1>4, <2>1, <2>2 DEF HandleCnxn, Arrives, Acts, Greets
  <2> QED BY <2>2, <2>3
<1>5. ASSUME NEW e \in End, OpenRefused(e) PROVE Done
  <2>1. PICK ms : ms = SendClose(Head(wire[Far(e)]).arg0) OBVIOUS
  <2>2. Head(wire[Far(e)]).arg0 \in 0..MaxId BY <1>0, <1>5, ArrivesType DEF OpenRefused, Arrives
  <2>3. Sends(e, ms) /\ ms \in Seq(Message) BY <2>1, <2>2, PlainMsgs, PlainSends
  <2>4. Acts(e, ms) BY <1>5, <2>1, <2>3 DEF OpenRefused, Arrives, Acts, Greets
  <2> QED BY <2>3, <2>4
<1>6. ASSUME NEW e \in End, HandleClse(e) \/ WrteFailed(e) PROVE Done
  <2>1. PICK ms : ms = CloseMsgs(FoundSock(e)) OBVIOUS
  <2>2. Sends(e, ms) /\ ms \in Seq(Message) BY <1>6, <2>1, FoundCloses, PlainMsgs, PlainSends
  <2>3. Acts(e, ms) BY <1>6, <2>1, <2>2 DEF HandleClse, WrteFailed, Arrives, FoundSock, Acts, Greets
  <2> QED BY <2>2, <2>3
<1>7. ASSUME NEW e \in End, WrteWritten(e) PROVE Done
  <2>1. PICK m : m = Head(wire[Far(e)]) OBVIOUS
  <2>2. PICK s : s = <<e, m.arg1>> OBVIOUS
  <2>3. PICK ms : ms = <<Msg("OKAY", m.arg1, m.arg0, <<>>)>> OBVIOUS
  <2>4. m.arg0 \in Id /\ m.arg1 \in Id /\ rid[<<e, m.arg1>>] = m.arg0 /\ UNCHANGED link
    BY <1>7, <2>1, <2>2, WrittenIs
  <2>5. Reply(e, ms) /\ wire[Far(e)] # <<>> /\ ~Arrives(e, "OKAY")
    BY <1>7, <2>1, <2>2, <2>3, WrittenIs DEF Arrives
  <2>6. Sends(e, ms) /\ ms \in Seq(Message) BY <2>3, <2>4, OkaySends
  <2> QED BY <2>4, <2>5, <2>6 DEF Acts, Greets
<1>8. ASSUME NEW s \in Sock, DrainAll(s) PROVE Done
  <2>1. PICK ms : ms = <<Msg("OKAY", s[2], rid[s], <<>>)>> OBVIOUS
  <2>2. Send(s[1], ms) /\ rid[s] \in Id /\ UNCHANGED link BY <1>8, <2>1, AllIs
  <2>3. s[1] \in End /\ s[2] \in Id /\ s = <<s[1], s[2]>> BY SockIs
  <2>4. Sends(s[1], ms) /\ ms \in Seq(Message) BY <2>1, <2>2, <2>3, OkaySends
  <2> QED BY <2>2, <2>3, <2>4 DEF Acts
<1>9. ASSUME NEW s \in Sock, DrainFailed(s) PROVE Done
  <2>1. PICK ms : ms = CloseMsgs(s) OBVIOUS
  <2>2. s[1] \in End /\ Sends(s[1], ms) /\ ms \in Seq(Message) BY <2>1, SockIs, PlainMsgs, PlainSends
  <2>3. Acts(s[1], ms) BY <1>9, <2>1, <2>2 DEF DrainFailed, Acts
  <2> QED BY <2>2, <2>3
<1>10. ASSUME NEW s \in Sock, ReadSome(s) PROVE Done
  <2>1. PICK ms : ms = ReadData(s) OBVIOUS
  <2>2. rd[s] /\ Send(s[1], ms) /\ UNCHANGED link BY <1>10, <2>1 DEF ReadSome
  <2>3. s[1] \in End /\ Sends(s[1], ms) /\ ms \in Seq(Message) BY <2>1, <2>2, SockIs, ReadSends
  <2> QED BY <2>2, <2>3 DEF Acts
<1>11. ASSUME NEW s \in Sock, ReadEof(s) PROVE Done
  <2>1. PICK ms : ms = ReadData(s) \o CloseMsgs(s) OBVIOUS
  <2>2. rd[s] /\ Send(s[1], ms) /\ UNCHANGED link BY <1>11, <2>1 DEF ReadEof
  <2>3. s[1] \in End /\ Sends(s[1], ms) /\ ms \in Seq(Message) BY <2>1, <2>2, SockIs, ReadSends
  <2> QED BY <2>2, <2>3 DEF Acts
<1>12. ASSUME NEW e \in End, CloseAllSockets(e) PROVE Done
  BY <1>2, <1>12 DEF CloseAllSockets
<1>13. ASSUME NEW s \in Sock, DrainSome(s) \/ DrainLast(s) PROVE Done
  BY <1>2, <1>13 DEF DrainSome, DrainLast
<1>14. ASSUME NEW s \in Sock, ClientWrite(s) \/ \E how \in {"eof", "gone"} : ClientShut(s, how)
       PROVE  Done
  BY <1>2, <1>14 DEF ClientWrite, ClientShut
<1> HIDE DEF Done
<1>15. LinkUp \/ LinkLost \/ Done \/ (\E early \in BOOLEAN : ClientOpen(early))
         \/ (\E e \in End : OpenAccepted(e))
  BY <1>3, <1>4, <1>5, <1>6, <1>7, <1>8, <1>9, <1>10, <1>11, <1>12, <1>13, <1>14
  DEF Next, Handle, Event
<1> QED BY <1>15 DEF Done

(* Every message after the step was there, or is one of those sent.        *)
LEMMA ActsFrom ==
  ASSUME TypeOK, NEW e \in End, NEW ms, Acts(e, ms), NEW f \in End, NEW k \in 1..Len(wire'[f])
  PROVE  \/ \E l \in 1..Len(wire[f]) : wire'[f][k] = wire[f][l]
         \/ f = e /\ link = "up" /\ \E l \in 1..Len(ms) : wire'[f][k] = ms[l]
<1>1. f = e \/ f = Far(e) BY DEF End, Far
<1>2. ms \in Seq(Message) /\ wire[f] \in Seq(Message) BY DEF Acts, TypeOK
<1>3. CASE UNCHANGED wire BY <1>3
<1>4. CASE Send(e, ms)
  <2>1. CASE f = e BY <1>2, <1>4, <2>1, SendWire, SentElems
  <2>2. CASE f = Far(e) BY <1>4, <2>2, SendWire
  <2> QED BY <1>1, <2>1, <2>2
<1>5. CASE Reply(e, ms) /\ wire[Far(e)] # <<>>
  <2>1. CASE f = e
    <3>1. wire'[f] = Sent(e, ms) BY <1>5, <2>1, ReplyWire
    <3> QED BY <1>2, <2>1, <3>1, SentElems
  <2>2. CASE f = Far(e)
    <3>1. wire'[f] = Tail(wire[f]) /\ wire[f] # <<>> BY <1>5, <2>2, ReplyWire
    <3> QED BY <1>2, <3>1, TailElems
  <2> QED BY <1>1, <2>1, <2>2
<1> QED BY <1>3, <1>4, <1>5 DEF Acts

LEMMA LostFrom ==
  ASSUME TypeOK, LinkLost
  PROVE  \A f \in End : \E n \in 0..Len(wire[f]) :
           wire'[f] = SubSeq(wire[f], 1, n) \o <<Msg("SYNC", 0, 0, <<>>)>>
<1>1. PICK h \in 0..Len(wire["host"]), d \in 0..Len(wire["device"]) :
        wire' = [e \in End |-> SubSeq(wire[e], 1, IF e = "host" THEN h ELSE d)
                                 \o <<Msg("SYNC", 0, 0, <<>>)>>]
  BY DEF LinkLost
<1>2. wire'["host"] = SubSeq(wire["host"], 1, h) \o <<Msg("SYNC", 0, 0, <<>>)>>
  BY <1>1 DEF End
<1>3. wire'["device"] = SubSeq(wire["device"], 1, d) \o <<Msg("SYNC", 0, 0, <<>>)>>
  BY <1>1 DEF End
<1>4. \A f \in End : f = "host" \/ f = "device" BY DEF End
<1> QED BY ONLY <1>2, <1>3, <1>4

LEMMA LostIs ==
  ASSUME TypeOK, NEW f \in End, NEW n \in 0..Len(wire[f]),
         wire'[f] = SubSeq(wire[f], 1, n) \o <<Msg("SYNC", 0, 0, <<>>)>>
  PROVE  /\ n \in Nat /\ n <= Len(wire[f]) /\ Len(wire'[f]) = n + 1
         /\ \A k \in 1..n : k \in 1..Len(wire[f]) /\ wire'[f][k] = wire[f][k]
         /\ wire'[f][n + 1].cmd = "SYNC"
         /\ \A cmd, a, b : cmd # "SYNC" =>
              /\ In(wire'[f], cmd, a, b) => In(wire[f], cmd, a, b)
              /\ Once(wire[f], cmd, a, b) => Once(wire'[f], cmd, a, b)
<1> DEFINE p == SubSeq(wire[f], 1, n)
           r == <<Msg("SYNC", 0, 0, <<>>)>>
<1>1. wire[f] \in Seq(Message) /\ r \in Seq(Message)
  BY PlainMsg, ZeroId DEF TypeOK
<1>2. p \in Seq(Message) /\ Len(p) = n /\ \A k \in 1..n : p[k] = wire[f][k]
  BY <1>1, PrefixIn
<1>3. /\ Len(r) = 1 /\ Len(p \o r) = n + 1 /\ n \in Nat /\ Len(wire[f]) \in Nat
      /\ n <= Len(wire[f])
      /\ \A k \in 1..n + 1 : (p \o r)[k] = IF k <= n THEN p[k] ELSE r[k - n]
  BY <1>1, <1>2, ConcatProperties, LenProperties
<1>4. \A k \in 1..n : k \in 1..Len(wire[f]) /\ (p \o r)[k] = wire[f][k] BY <1>2, <1>3
<1>5. (p \o r)[n + 1].cmd = "SYNC"
  <2>1. (p \o r)[n + 1] = r[1] BY <1>3
  <2> QED BY <2>1 DEF Msg
<1>6. ASSUME NEW cmd, NEW a, NEW b, cmd # "SYNC"
      PROVE  /\ In(p \o r, cmd, a, b) => In(wire[f], cmd, a, b)
             /\ Once(wire[f], cmd, a, b) => Once(p \o r, cmd, a, b)
  <2>1. ~In(r, cmd, a, b) /\ Once(r, cmd, a, b) BY <1>6, OneIn DEF Is, Msg
  <2>2. /\ In(p, cmd, a, b) => In(wire[f], cmd, a, b)
        /\ Once(wire[f], cmd, a, b) => Once(p, cmd, a, b)
    BY <1>1, PrefixIn
  <2> HIDE DEF p, r
  <2>3. /\ In(p \o r, cmd, a, b) <=> In(p, cmd, a, b) \/ In(r, cmd, a, b)
        /\ Once(p, cmd, a, b) /\ Once(r, cmd, a, b) /\ ~(In(p, cmd, a, b) /\ In(r, cmd, a, b))
             => Once(p \o r, cmd, a, b)
    BY <1>1, <1>2, ConcatIn
  <2> QED BY ONLY <2>1, <2>2, <2>3
<1>7. wire'[f] = p \o r OBVIOUS
<1> HIDE DEF p, r
<1>8. \A cmd, a, b : cmd # "SYNC" =>
        /\ In(wire'[f], cmd, a, b) => In(wire[f], cmd, a, b)
        /\ Once(wire[f], cmd, a, b) => Once(wire'[f], cmd, a, b)
  BY <1>6, <1>7
<1> QED BY <1>3, <1>4, <1>5, <1>7, <1>8

(* Only the start of a service connects a device socket.                   *)
LEMMA DeviceRids ==
  ASSUME CInv, Next, \A e \in End : ~OpenAccepted(e)
  PROVE  \A j \in Id : rid'[Device(j)] = rid[Device(j)]
<1>1. CASE UNCHANGED rid BY <1>1
<1>2. ASSUME NEW e \in End, HandleOkay(e) PROVE \A j \in Id : rid'[Device(j)] = rid[Device(j)]
  <2>1. PICK m : m = Head(wire[Far(e)]) OBVIOUS
  <2>2. PICK s : s = <<e, m.arg1>> OBVIOUS
  <2>3. \A t \in Sock : rid'[t] = IF t = s THEN m.arg0 ELSE rid[t] BY <1>2, <2>1, <2>2, OkayIs
  <2>4. e = "device" => UNCHANGED rid BY <1>2, <2>1, <2>2, OkayIs
  <2>5. e = "host" => \A j \in Id : Device(j) # s BY <2>2 DEF Device
  <2>6. \A j \in Id : Device(j) \in Sock BY SockIs
  <2> QED BY <2>3, <2>4, <2>5, <2>6 DEF End
<1>3. CASE UNCHANGED sockVars BY <1>1, <1>3 DEF sockVars
<1>4. ASSUME NEW S, Closing(S) PROVE UNCHANGED rid BY <1>4 DEF Closing, CloseSockets
<1>5. ASSUME NEW early \in BOOLEAN, ClientOpen(early) PROVE UNCHANGED rid BY <1>5, ClientIs
<1>6. ASSUME NEW e \in End, WrteQueued(e) PROVE UNCHANGED rid BY <1>6 DEF WrteQueued
<1>7. ASSUME NEW s \in Sock, DrainSome(s) \/ DrainAll(s) \/ ReadSome(s) PROVE UNCHANGED rid
  BY <1>7 DEF DrainSome, DrainAll, ReadSome
<1> QED BY <1>1, <1>2, <1>3, <1>4, <1>5, <1>6, <1>7, Steps

LEMMA OldRouted ==
  ASSUME CInv, Next, NEW e \in End, NEW k \in 1..Len(wire[e]), NEW m, m = wire[e][k]
  PROVE  m.cmd \in {"OKAY", "WRTE"} =>
           m.arg0 \in Id /\ m.arg1 \in Id /\ rid'[<<e, m.arg0>>] = m.arg1
<1> SUFFICES ASSUME m.cmd \in {"OKAY", "WRTE"}
             PROVE  m.arg0 \in Id /\ m.arg1 \in Id /\ rid'[<<e, m.arg0>>] = m.arg1
  OBVIOUS
<1>1. Routed(e, m) BY DEF CInv, Wires
<1>2. m.arg0 \in Id /\ m.arg1 \in Id /\ rid[<<e, m.arg0>>] = m.arg1 BY <1>1 DEF Routed
<1>3. <<e, m.arg0>> \in Sock /\ m.arg1 # 0 BY <1>2, SockIs
<1> QED BY <1>2, <1>3, RidKept

LEMMA OldOpening ==
  ASSUME CInv, Next, NEW e \in End, NEW k \in 1..Len(wire[e]), NEW m, m = wire[e][k],
         \A j \in Id : rid'[Device(j)] = rid[Device(j)] \/ rid'[Device(j)] # m.arg0
  PROVE  m.cmd = "OPEN" =>
           /\ e = "host" /\ m.arg0 \in Id /\ m.arg0 < nextId'["host"] /\ m.arg1 = 0
           /\ \A j \in Id : rid'[Device(j)] # m.arg0
<1> SUFFICES ASSUME m.cmd = "OPEN"
             PROVE  /\ e = "host" /\ m.arg0 \in Id /\ m.arg0 < nextId'["host"] /\ m.arg1 = 0
                    /\ \A j \in Id : rid'[Device(j)] # m.arg0
  OBVIOUS
<1>1. Opening(e, m) BY DEF CInv, Wires
<1>2. /\ e = "host" /\ m.arg0 \in Id /\ m.arg0 < nextId["host"] /\ m.arg1 = 0
      /\ \A j \in Id : rid[Device(j)] # m.arg0
  BY <1>1 DEF Opening
<1>3. nextId["host"] <= nextId'["host"] BY <1>2, RidKept
<1>4. m.arg0 \in Nat /\ nextId["host"] \in Nat /\ nextId'["host"] \in Nat
  <2>1. TypeOK' /\ TypeOK BY NextType DEF CInv
  <2>2. nextId["host"] \in 1..MaxId + 1 /\ nextId'["host"] \in 1..MaxId + 1
    BY <2>1 DEF TypeOK, End
  <2>3. m.arg0 \in Nat BY <1>2 DEF Id
  <2> QED BY <2>2, <2>3
<1>5. m.arg0 < nextId'["host"] BY <1>2, <1>3, <1>4
<1> QED BY <1>2, <1>5

LEMMA WiresNext == ASSUME CInv, Next PROVE Wires'
<1>0. TypeOK /\ Wires BY DEF CInv
<1> SUFFICES ASSUME NEW f \in End, NEW k \in 1..Len(wire'[f]), NEW m, m = wire'[f][k]
             PROVE  /\ m.cmd \in {"OKAY", "WRTE"} =>
                         m.arg0 \in Id /\ m.arg1 \in Id /\ rid'[<<f, m.arg0>>] = m.arg1
                    /\ m.cmd = "OPEN" =>
                         /\ f = "host" /\ m.arg0 \in Id /\ m.arg0 < nextId'["host"]
                         /\ m.arg1 = 0 /\ \A j \in Id : rid'[Device(j)] # m.arg0
  BY DEF Wires, Routed, Opening
<1> DEFINE Good ==
      /\ m.cmd \in {"OKAY", "WRTE"} =>
           m.arg0 \in Id /\ m.arg1 \in Id /\ rid'[<<f, m.arg0>>] = m.arg1
      /\ m.cmd = "OPEN" =>
           /\ f = "host" /\ m.arg0 \in Id /\ m.arg0 < nextId'["host"]
           /\ m.arg1 = 0 /\ \A j \in Id : rid'[Device(j)] # m.arg0
<1>1. ASSUME NEW l \in 1..Len(wire[f]), m = wire[f][l], \A e \in End : ~OpenAccepted(e) PROVE Good
  <2>1. \A j \in Id : rid'[Device(j)] = rid[Device(j)] BY <1>1, DeviceRids
  <2>2. m.cmd \in {"OKAY", "WRTE"} =>
          m.arg0 \in Id /\ m.arg1 \in Id /\ rid'[<<f, m.arg0>>] = m.arg1
    BY <1>1, OldRouted
  <2>3. m.cmd = "OPEN" =>
          /\ f = "host" /\ m.arg0 \in Id /\ m.arg0 < nextId'["host"]
          /\ m.arg1 = 0 /\ \A j \in Id : rid'[Device(j)] # m.arg0
    BY <1>1, <2>1, OldOpening
  <2> QED BY <2>2, <2>3
<1>2. ASSUME LinkUp PROVE Good
  <2>1. wire'[f] = <<>> \/ wire'[f] = <<Msg("CNXN", 0, 0, <<>>)>>
    BY <1>0, <1>2 DEF LinkUp, TypeOK
  <2>2. m.cmd = "CNXN"
    <3>1. CASE wire'[f] = <<>> BY <3>1
    <3>2. CASE wire'[f] = <<Msg("CNXN", 0, 0, <<>>)>> BY <3>2 DEF Msg
    <3> QED BY <2>1, <3>1, <3>2
  <2> QED BY <2>2
<1>3. ASSUME LinkLost PROVE Good
  <2>1. PICK n \in 0..Len(wire[f]) :
          wire'[f] = SubSeq(wire[f], 1, n) \o <<Msg("SYNC", 0, 0, <<>>)>>
    BY <1>0, <1>3, LostFrom
  <2>2. /\ n \in Nat /\ Len(wire'[f]) = n + 1
        /\ \A i \in 1..n : i \in 1..Len(wire[f]) /\ wire'[f][i] = wire[f][i]
        /\ wire'[f][n + 1].cmd = "SYNC"
    BY <1>0, <2>1, LostIs
  <2>3. CASE k = n + 1
    <3>1. m.cmd = "SYNC" BY <2>2, <2>3
    <3> QED BY <3>1
  <2>4. CASE k \in 1..n
    <3>1. \A e \in End : ~OpenAccepted(e)
      <4>1. link' # link BY <1>3 DEF LinkLost
      <4> QED BY <4>1 DEF OpenAccepted, linkVars
    <3> QED BY <1>1, <2>2, <2>4, <3>1
  <2>5. k = n + 1 \/ k \in 1..n BY <2>2
  <2> QED BY <2>3, <2>4, <2>5
<1>4. ASSUME NEW early \in BOOLEAN, ClientOpen(early) PROVE Good
  <2>1. PICK n \in Id : n = nextId["host"] BY <1>4, ClientIs
  <2>2. PICK ms : ms = <<Msg("OPEN", n, 0, <<>>)>> OBVIOUS
  <2>3. /\ Send("host", ms) /\ UNCHANGED <<rid, link>> /\ nextId'["host"] = n + 1
    BY <1>4, <2>1, <2>2, ClientIs DEF End
  <2>4. ms \in Seq(Message) BY <2>2, IdTypes, OpenMsg
  <2>5. Acts("host", ms) /\ "host" \in End BY <2>3, <2>4 DEF Acts, End
  <2>6. \A e \in End : ~OpenAccepted(e)
    <3>1. \A e \in End : OpenAccepted(e) => nextId'["host"] = nextId["host"]
      BY AcceptedIs DEF End
    <3> QED BY <2>1, <2>3, <3>1, SockIs
  <2>7. ASSUME NEW l \in 1..Len(ms), m = ms[l], f = "host" PROVE Good
    <3>1. m.cmd = "OPEN" /\ m.arg0 = n /\ m.arg1 = 0 BY <2>2, <2>7 DEF Msg
    <3>2. \A j \in Id : rid[Device(j)] < n
      <4>1. \A j \in Id : Device(j) \in Sock /\ Far(Device(j)[1]) = "host" BY SockIs DEF Device, Far
      <4> QED BY <2>1, <4>1 DEF CInv, Ids
    <3>3. \A j \in Id : rid[Device(j)] # n
      <4>1. n \in Nat /\ \A j \in Id : rid[Device(j)] \in Nat
        BY <1>0, SockIs DEF TypeOK
      <4> QED BY <3>2, <4>1
    <3>4. n < nextId'["host"] BY <2>3, SockIs
    <3> QED BY <2>3, <2>7, <3>1, <3>3, <3>4
  <2> HIDE DEF Good
  <2> QED BY <1>0, <1>1, <2>5, <2>6, <2>7, ActsFrom
<1>5. ASSUME NEW e \in End, OpenAccepted(e) PROVE Good
  <2>1. PICK o : o = Head(wire[Far(e)]) OBVIOUS
  <2>2. PICK n \in Id : n = nextId["device"] BY <1>5, <2>1, AcceptedIs
  <2>3. PICK d : d = Device(n) OBVIOUS
  <2>4. PICK ms : ms = <<Msg("OKAY", n, o.arg0, <<>>)>> OBVIOUS
  <2>5. /\ e = "device" /\ Far(e) = "host" /\ Arrives(e, "OPEN") /\ o.arg0 \in Id
        /\ o.cmd = "OPEN" /\ o.arg1 = 0 /\ UNCHANGED link /\ d \in Sock
    BY <1>5, <2>1, <2>2, <2>3, AcceptedIs
  <2>6. Reply(e, ms) BY <1>5, <2>1, <2>2, <2>4, AcceptedIs
  <2>7. \A t \in Sock : rid'[t] = IF t = d THEN o.arg0 ELSE rid[t]
    BY <1>5, <2>1, <2>2, <2>3, AcceptedSocks
  <2>8. ms \in Seq(Message) BY <2>4, <2>5, IdTypes, OkayMsg
  <2>9. \A j \in Id : rid'[Device(j)] = rid[Device(j)] \/ rid'[Device(j)] = o.arg0
    BY <2>7, SockIs
  <2>10. CASE f = "device"
    <3>1. wire'[f] = Sent(f, ms) BY <1>0, <2>5, <2>6, <2>10, ReplyWire
    <3>2. CASE \E l \in 1..Len(wire[f]) : m = wire[f][l]
      <4>1. PICK l \in 1..Len(wire[f]) : m = wire[f][l] BY <3>2
      <4>2. Opening(f, m) BY <1>0, <4>1 DEF Wires
      <4>3. m.cmd # "OPEN" BY <2>10, <4>2 DEF Opening
      <4> QED BY <4>1, <4>3, OldRouted
    <3>3. CASE \E l \in 1..Len(ms) : m = ms[l]
      <4>1. m.cmd = "OKAY" /\ m.arg0 = n /\ m.arg1 = o.arg0 BY <2>4, <3>3 DEF Msg
      <4>2. rid'[<<f, n>>] = o.arg0 BY <2>3, <2>5, <2>7, <2>10 DEF Device
      <4> QED BY <2>5, <4>1, <4>2
    <3>4. \/ \E l \in 1..Len(wire[f]) : Sent(f, ms)[k] = wire[f][l]
          \/ \E l \in 1..Len(ms) : Sent(f, ms)[k] = ms[l]
      <4>1. k \in 1..Len(Sent(f, ms)) BY <3>1
      <4> QED BY <1>0, <2>8, <4>1, SentElems
    <3>5. m = Sent(f, ms)[k] BY <3>1
    <3> QED BY ONLY <3>2, <3>3, <3>4, <3>5
  <2>11. CASE f = "host"
    <3>1. wire'[f] = Tail(wire[f]) /\ wire[f] \in Seq(Message) /\ wire[f] # <<>>
      BY <1>0, <2>5, <2>6, <2>11, ReplyWire DEF Arrives, TypeOK
    <3>2. k + 1 \in 1..Len(wire[f]) /\ m = wire[f][k + 1] /\ o = wire[f][1] /\ 1 \in 1..Len(wire[f])
      BY <2>1, <2>5, <2>11, <3>1, TailElems
    <3>3. k + 1 # 1 OBVIOUS
    <3>4. m.cmd = "OPEN" => m.arg0 # o.arg0
      <4> SUFFICES ASSUME m.cmd = "OPEN", m.arg0 = o.arg0 PROVE FALSE
        OBVIOUS
      <4>1. Opening(f, m) BY <1>0, <3>2 DEF Wires
      <4>2. m.arg1 = 0 BY <4>1 DEF Opening
      <4>3. Is(m, "OPEN", o.arg0, 0) /\ Is(o, "OPEN", o.arg0, 0) BY <2>5, <4>2 DEF Is
      <4>4. Once(wire[f], "OPEN", o.arg0, 0) BY <2>5, <2>11 DEF CInv, OpensOnce
      <4> QED BY <3>2, <3>3, <4>3, <4>4 DEF Once
    <3>5. m.cmd \in {"OKAY", "WRTE"} =>
            m.arg0 \in Id /\ m.arg1 \in Id /\ rid'[<<f, m.arg0>>] = m.arg1
      BY <3>2, OldRouted
    <3>6. CASE m.cmd = "OPEN"
      <4>1. \A j \in Id : rid'[Device(j)] = rid[Device(j)] \/ rid'[Device(j)] # m.arg0
        BY <2>9, <3>4, <3>6
      <4>2. /\ f = "host" /\ m.arg0 \in Id /\ m.arg0 < nextId'["host"]
            /\ m.arg1 = 0 /\ \A j \in Id : rid'[Device(j)] # m.arg0
        BY <3>2, <3>6, <4>1, OldOpening
      <4> QED BY <3>5, <4>2
    <3> QED BY <3>5, <3>6
  <2> QED BY <2>10, <2>11 DEF End
<1>6. ASSUME NEW e \in End, NEW ms \in Seq(Message), Acts(e, ms), Sends(e, ms),
             \A g \in End : ~OpenAccepted(g)
      PROVE  Good
  <2>1. ASSUME NEW l \in 1..Len(ms), m = ms[l], f = e PROVE Good
    <3>1. /\ m.cmd # "OPEN"
          /\ m.cmd \in {"OKAY", "WRTE"} =>
               m.arg0 \in Id /\ m.arg1 \in Id /\ rid[<<e, m.arg0>>] = m.arg1
      BY <1>6, <2>1 DEF Sends
    <3>2. m.cmd \in {"OKAY", "WRTE"} => rid'[<<e, m.arg0>>] = m.arg1
      BY <3>1, SockIs, RidKept
    <3> QED BY <2>1, <3>1, <3>2
  <2> HIDE DEF Good
  <2> QED BY <1>0, <1>1, <1>6, <2>1, ActsFrom
<1>7. Good
  <2> HIDE DEF Good
  <2> QED BY <1>2, <1>3, <1>4, <1>5, <1>6, WireSteps
<1> QED BY <1>7

(* One kind of message on a wire, before a handler and after it.           *)
LEMMA ActsIn ==
  ASSUME TypeOK, NEW e \in End, NEW ms, Acts(e, ms), NEW f \in End, NEW cmd, NEW a, NEW b
  PROVE  /\ In(wire'[f], cmd, a, b)
              => In(wire[f], cmd, a, b) \/ (f = e /\ link = "up" /\ In(ms, cmd, a, b))
         /\ Once(wire[f], cmd, a, b)
              /\ (f = e /\ link = "up" => Once(ms, cmd, a, b)
                                          /\ ~(In(wire[f], cmd, a, b) /\ In(ms, cmd, a, b)))
              => Once(wire'[f], cmd, a, b)
         /\ In(wire[f], cmd, a, b)
              => \/ In(wire'[f], cmd, a, b)
                 \/ Reply(e, ms) /\ f = Far(e) /\ Is(Head(wire[f]), cmd, a, b)
<1>1. f = e \/ f = Far(e) BY DEF End, Far
<1>2. ms \in Seq(Message) /\ wire[f] \in Seq(Message) BY DEF Acts, TypeOK
<1>3. CASE UNCHANGED wire BY <1>3
<1>4. CASE wire'[f] = wire[f] BY <1>4
<1>5. CASE f = e /\ wire'[f] = Sent(e, ms)
  <2>1. /\ In(Sent(e, ms), cmd, a, b)
             <=> In(wire[e], cmd, a, b) \/ (link = "up" /\ In(ms, cmd, a, b))
        /\ Once(wire[e], cmd, a, b)
             /\ (link = "up" => Once(ms, cmd, a, b)
                                 /\ ~(In(wire[e], cmd, a, b) /\ In(ms, cmd, a, b)))
             => Once(Sent(e, ms), cmd, a, b)
    BY <1>2, SentIn
  <2> QED BY <1>5, <2>1
<1>6. CASE Reply(e, ms) /\ f = Far(e) /\ wire[f] # <<>> /\ wire'[f] = Tail(wire[f])
  BY <1>2, <1>6, TailIn
<1>7. CASE Send(e, ms) BY <1>1, <1>4, <1>5, <1>7, SendWire
<1>8. CASE Reply(e, ms) /\ wire[Far(e)] # <<>> BY <1>1, <1>5, <1>6, <1>8, ReplyWire
<1> QED BY <1>3, <1>7, <1>8 DEF Acts

(* What is sent is there, what is handled is not.                          *)
LEMMA ActsNew ==
  ASSUME TypeOK, NEW e \in End, NEW ms \in Seq(Message), Reply(e, ms) \/ Send(e, ms),
         link = "up", NEW cmd, NEW a, NEW b, In(ms, cmd, a, b)
  PROVE  In(wire'[e], cmd, a, b)
BY SentIn, ReplyWire, SendWire

LEMMA ActsTaken ==
  ASSUME TypeOK, NEW e \in End, NEW ms, Reply(e, ms), wire[Far(e)] # <<>>,
         NEW cmd, NEW a, NEW b,
         Once(wire[Far(e)], cmd, a, b), Is(Head(wire[Far(e)]), cmd, a, b)
  PROVE  In(wire[Far(e)], cmd, a, b) /\ ~In(wire'[Far(e)], cmd, a, b)
<1>1. wire[Far(e)] \in Seq(Message) BY EndFacts DEF TypeOK
<1>2. Head(wire[Far(e)]) = wire[Far(e)][1] /\ 1 \in 1..Len(wire[Far(e)]) BY <1>1, TailElems
<1>3. In(wire[Far(e)], cmd, a, b) BY <1>2 DEF In
<1>4. ~In(Tail(wire[Far(e)]), cmd, a, b) BY <1>1, TailIn
<1> QED BY <1>3, <1>4, ReplyWire

LEMMA OpensOnceNext == ASSUME CInv, Next PROVE OpensOnce'
<1>0. TypeOK /\ OpensOnce /\ "host" \in End BY DEF CInv, End
<1> SUFFICES ASSUME NEW i \in Id PROVE Once(wire'["host"], "OPEN", i, 0)
  BY DEF OpensOnce
<1>1. Once(wire["host"], "OPEN", i, 0) BY <1>0 DEF OpensOnce
<1>2. ASSUME LinkUp PROVE Once(wire'["host"], "OPEN", i, 0)
  <2>1. wire'["host"] = <<Msg("CNXN", 0, 0, <<>>)>> BY <1>0, <1>2 DEF LinkUp, TypeOK
  <2> QED BY <2>1, OneIn
<1>3. ASSUME LinkLost PROVE Once(wire'["host"], "OPEN", i, 0)
  <2>1. PICK n \in 0..Len(wire["host"]) :
          wire'["host"] = SubSeq(wire["host"], 1, n) \o <<Msg("SYNC", 0, 0, <<>>)>>
    BY <1>0, <1>3, LostFrom
  <2> QED BY <1>0, <1>1, <2>1, LostIs
<1>4. ASSUME NEW early \in BOOLEAN, ClientOpen(early) PROVE Once(wire'["host"], "OPEN", i, 0)
  <2>1. PICK n \in Id : n = nextId["host"] BY <1>4, ClientIs
  <2>2. PICK ms : ms = <<Msg("OPEN", n, 0, <<>>)>> OBVIOUS
  <2>3. Send("host", ms) /\ UNCHANGED link BY <1>4, <2>1, <2>2, ClientIs
  <2>4. ms \in Seq(Message) BY <2>2, IdTypes, OpenMsg
  <2>5. Acts("host", ms) BY <2>3, <2>4 DEF Acts
  <2>6. Once(ms, "OPEN", i, 0) /\ (In(ms, "OPEN", i, 0) => i = n)
    BY <2>2, OneIn DEF Is, Msg
  <2>7. ~In(wire["host"], "OPEN", n, 0)
    <3> SUFFICES ASSUME NEW k \in 1..Len(wire["host"]), Is(wire["host"][k], "OPEN", n, 0)
                 PROVE  FALSE
      BY DEF In
    <3>1. Opening("host", wire["host"][k]) BY <1>0 DEF CInv, Wires
    <3>2. n < nextId["host"] BY <3>1 DEF Opening, Is
    <3>3. n \in Nat BY SockIs
    <3> QED BY ONLY <2>1, <3>2, <3>3
  <2> QED BY <1>0, <1>1, <2>5, <2>6, <2>7, ActsIn
<1>5. ASSUME NEW e \in End, OpenAccepted(e) PROVE Once(wire'["host"], "OPEN", i, 0)
  <2>1. PICK o : o = Head(wire[Far(e)]) OBVIOUS
  <2>2. PICK ms : ms = <<Msg("OKAY", nextId["device"], o.arg0, <<>>)>> OBVIOUS
  <2>3. Reply(e, ms) /\ Far(e) = "host" /\ wire["host"] # <<>>
    BY <1>5, <2>1, <2>2, AcceptedIs DEF Arrives
  <2>4. wire'["host"] = Tail(wire["host"]) /\ wire["host"] \in Seq(Message)
    BY <1>0, <2>3, ReplyWire DEF TypeOK
  <2> QED BY <1>1, <2>3, <2>4, TailIn
<1>6. ASSUME NEW e \in End, NEW ms \in Seq(Message), Acts(e, ms), Sends(e, ms)
      PROVE  Once(wire'["host"], "OPEN", i, 0)
  <2>1. ~In(ms, "OPEN", i, 0) /\ Once(ms, "OPEN", i, 0) BY <1>6 DEF Sends, In, Once, Is
  <2> QED BY <1>0, <1>1, <1>6, <2>1, ActsIn
<1> QED BY <1>2, <1>3, <1>4, <1>5, <1>6, WireSteps

-----------------------------------------------------------------------------
(* The pairs.                                                              *)

LEMMA PairsNext == ASSUME CInv, Next PROVE Pairs'
<1>0. TypeOK /\ Ids /\ Sockets /\ Pairs BY DEF CInv
<1>1. \A i \in Id : Host(i) \in Sock /\ Device(i) \in Sock /\ i # 0 BY SockIs
<1>2. \A i \in Id : rid'[Host(i)] # 0 => rid'[Device(rid'[Host(i)])] = i
  <2> SUFFICES ASSUME NEW i \in Id, rid'[Host(i)] # 0
               PROVE  rid'[Device(rid'[Host(i)])] = i
    OBVIOUS
  <2>1. CASE rid[Host(i)] # 0
    <3>1. rid'[Host(i)] = rid[Host(i)] BY <1>1, <2>1, RidKept
    <3>2. rid[Device(rid[Host(i)])] = i BY <1>0, <2>1 DEF Pairs
    <3>3. rid[Host(i)] \in Id BY <1>0, <1>1, <2>1 DEF TypeOK, Id
    <3>4. rid'[Device(rid[Host(i)])] = i BY <1>1, <3>2, <3>3, RidKept
    <3> QED BY <3>1, <3>4
  <2>2. CASE rid[Host(i)] = 0
    <3>1. PICK e \in End : HandleOkay(e) \/ OpenAccepted(e)
      <4>1. rid' # rid BY <2>2
      <4>2. ~UNCHANGED sockVars BY <4>1 DEF sockVars
      <4>3. \A S : ~Closing(S) BY <4>1 DEF Closing, CloseSockets
      <4>4. \A early \in BOOLEAN : ~ClientOpen(early) BY <4>1 DEF ClientOpen
      <4>5. \A e \in End : ~WrteQueued(e) BY <4>1 DEF WrteQueued
      <4>6. \A s \in Sock : ~DrainSome(s) /\ ~DrainAll(s) /\ ~ReadSome(s)
        BY <4>1 DEF DrainSome, DrainAll, ReadSome
      <4> QED BY <4>2, <4>3, <4>4, <4>5, <4>6, Steps
    <3>2. ~OpenAccepted(e)
      <4> SUFFICES ASSUME OpenAccepted(e) PROVE FALSE OBVIOUS
      <4>1. PICK m : m = Head(wire[Far(e)]) OBVIOUS
      <4>2. PICK d : d = Device(nextId["device"]) OBVIOUS
      <4>3. \A t \in Sock : rid'[t] = IF t = d THEN m.arg0 ELSE rid[t]
        BY <4>1, <4>2, AcceptedSocks
      <4>4. Host(i) # d BY <4>2 DEF Host, Device
      <4> QED BY <1>1, <2>2, <4>3, <4>4
    <3>3. HandleOkay(e) BY <3>1, <3>2
    <3>4. PICK m : m = Head(wire[Far(e)]) OBVIOUS
    <3>5. PICK s : s = <<e, m.arg1>> OBVIOUS
    <3>6. Arrives(e, "OKAY") BY <3>3, <3>4, <3>5, OkayIs
    <3>7. \A t \in Sock : rid'[t] = IF t = s THEN m.arg0 ELSE rid[t] BY <3>3, <3>4, <3>5, OkayIs
    <3>8. Host(i) = s BY <1>1, <2>2, <3>7
    <3>9. e = "host" /\ m.arg1 = i BY <3>5, <3>8 DEF Host
    <3>10. m.arg0 \in Id /\ rid[<<Far(e), m.arg0>>] = i BY <3>4, <3>6, <3>9, ArrivesFrom
    <3>11. rid[Device(m.arg0)] = i BY <3>9, <3>10 DEF Far, Device
    <3>12. rid'[Device(m.arg0)] = i BY <1>1, <3>10, <3>11, RidKept
    <3> QED BY <1>1, <3>7, <3>8, <3>12
  <2> QED BY <2>1, <2>2
<1>3. \A j, l \in Id : rid'[Device(j)] = rid'[Device(l)] /\ rid'[Device(j)] # 0 => j = l
  <2>0. \A j, l \in Id : rid[Device(j)] = rid[Device(l)] /\ rid[Device(j)] # 0 => j = l
    BY <1>0 DEF Pairs
  <2>1. CASE \A e \in End : ~OpenAccepted(e)
    <3>1. \A j \in Id : rid'[Device(j)] = rid[Device(j)] BY <2>1, DeviceRids
    <3> QED BY <2>0, <3>1
  <2>2. ASSUME NEW e \in End, OpenAccepted(e)
        PROVE  \A j, l \in Id : rid'[Device(j)] = rid'[Device(l)] /\ rid'[Device(j)] # 0 => j = l
    <3>1. PICK m : m = Head(wire[Far(e)]) OBVIOUS
    <3>2. PICK n \in Id : n = nextId["device"] BY <2>2, <3>1, AcceptedIs
    <3>3. \A j \in Id : rid'[Device(j)] = IF j = n THEN m.arg0 ELSE rid[Device(j)]
      <4>1. \A t \in Sock : rid'[t] = IF t = Device(n) THEN m.arg0 ELSE rid[t]
        BY <2>2, <3>1, <3>2, AcceptedSocks
      <4>2. \A j \in Id : Device(j) = Device(n) <=> j = n BY DEF Device
      <4> QED BY <1>1, <4>1, <4>2
    <3>4. \A j \in Id : rid[Device(j)] # m.arg0 BY <2>2, <3>1, AcceptedIs
    <3> QED BY <2>0, <3>3, <3>4
  <2> QED BY <2>1, <2>2
<1>4. \A s \in Sock : pkts'[s] # <<>> => rid'[<<Far(s[1]), rid'[s]>>] = s[2]
  <2>0. ASSUME NEW s \in Sock, rid[s] # 0, rid[<<Far(s[1]), rid[s]>>] = s[2]
        PROVE  rid'[<<Far(s[1]), rid'[s]>>] = s[2]
    <3>1. rid'[s] = rid[s] BY <2>0, RidKept
    <3>2. rid[s] \in Id /\ s[1] \in End /\ s[2] \in Id BY <1>0, <2>0, SockIs DEF TypeOK, Id
    <3>3. <<Far(s[1]), rid[s]>> \in Sock /\ s[2] # 0 BY <3>2, EndFacts, SockIs
    <3> QED BY <2>0, <3>1, <3>3, RidKept
  <2>1. ASSUME NEW s \in Sock, pkts[s] # <<>> PROVE rid'[<<Far(s[1]), rid'[s]>>] = s[2]
    BY <1>0, <2>0, <2>1 DEF Pairs, Sockets
  <2>2. CASE UNCHANGED sockVars BY <2>1, <2>2 DEF sockVars
  <2>3. ASSUME NEW S, Closing(S), NEW s \in Sock, pkts'[s] # <<>> PROVE pkts[s] # <<>>
    BY <1>0, <2>3, ClosingIs
  <2>4. ASSUME NEW e \in End, HandleOkay(e) PROVE UNCHANGED pkts BY <2>4 DEF HandleOkay
  <2>5. ASSUME NEW e \in End, OpenAccepted(e) PROVE UNCHANGED pkts BY <2>5 DEF OpenAccepted
  <2>6. ASSUME NEW early \in BOOLEAN, ClientOpen(early) PROVE UNCHANGED pkts BY <2>6 DEF ClientOpen
  <2>7. ASSUME NEW s \in Sock, DrainSome(s) \/ DrainAll(s) \/ ReadSome(s),
               NEW t \in Sock, pkts'[t] # <<>>
        PROVE  pkts[t] # <<>>
    BY <2>7, SomeIs, AllIs, ReadSomeIs
  <2>8. ASSUME NEW e \in End, WrteQueued(e), NEW t \in Sock, pkts'[t] # <<>>
        PROVE  rid'[<<Far(t[1]), rid'[t]>>] = t[2]
    <3>1. PICK m : m = Head(wire[Far(e)]) OBVIOUS
    <3>2. PICK s : s = <<e, m.arg1>> OBVIOUS
    <3>3. /\ Arrives(e, "WRTE") /\ s \in Sock /\ rid[s] = m.arg0
          /\ \A u \in Sock : u # s => pkts'[u] = pkts[u]
      BY <2>8, <3>1, <3>2, QueuedIs
    <3>4. rid[<<Far(e), m.arg0>>] = m.arg1 /\ m.arg0 \in Id BY <3>1, <3>3, ArrivesFrom
    <3>5. CASE t = s
      <4>1. rid[t] # 0 /\ rid[<<Far(t[1]), rid[t]>>] = t[2]
        BY <1>1, <3>2, <3>3, <3>4, <3>5
      <4> QED BY <2>0, <4>1
    <3>6. CASE t # s BY <2>1, <2>8, <3>3, <3>6
    <3> QED BY <3>5, <3>6
  <2> QED BY <2>1, <2>2, <2>3, <2>4, <2>5, <2>6, <2>7, <2>8, Steps
<1> QED BY <1>2, <1>3, <1>4 DEF Pairs

-----------------------------------------------------------------------------
(* A host socket hears of its mate before it hears from it.                *)

(* Who has no peer had none, or is new.                                    *)
LEMMA Lonely ==
  ASSUME CInv, Next, NEW s \in Sock, list'[s] = "local", ~peer'[s]
  PROVE  \/ list[s] = "local" /\ ~peer[s]
         \/ s = Host(nextId["host"]) /\ \E early \in BOOLEAN : ClientOpen(early)
<1>0. TypeOK BY DEF CInv
<1>1. CASE UNCHANGED sockVars BY <1>1 DEF sockVars
<1>2. ASSUME NEW S, Closing(S) PROVE list[s] = "local" /\ ~peer[s] BY <1>0, <1>2, ClosingIs
<1>3. ASSUME NEW e \in End, HandleOkay(e) PROVE list[s] = "local" /\ ~peer[s]
  <2>1. PICK m : m = Head(wire[Far(e)]) OBVIOUS
  <2>2. PICK t : t = <<e, m.arg1>> OBVIOUS
  <2>3. (peer'[s] <=> s = t \/ peer[s]) /\ UNCHANGED list BY <1>3, <2>1, <2>2, OkayIs
  <2> QED BY <2>3
<1>4. ASSUME NEW e \in End, OpenAccepted(e) PROVE list[s] = "local" /\ ~peer[s]
  <2>1. PICK m : m = Head(wire[Far(e)]) OBVIOUS
  <2>2. PICK d : d = Device(nextId["device"]) OBVIOUS
  <2>3. list'[s] = IF s = d THEN "local" ELSE list[s] BY <1>4, <2>1, <2>2, AcceptedSocks
  <2>4. peer'[s] <=> s = d \/ peer[s] BY <1>4, <2>1, <2>2, AcceptedSocks
  <2> QED BY <2>3, <2>4
<1>5. ASSUME NEW early \in BOOLEAN, ClientOpen(early)
      PROVE  (list[s] = "local" /\ ~peer[s]) \/ s = Host(nextId["host"])
  BY <1>5, ClientIs
<1>6. ASSUME NEW e \in End, WrteQueued(e) PROVE list[s] = "local" /\ ~peer[s]
  BY <1>6 DEF WrteQueued
<1>7. ASSUME NEW t \in Sock, DrainSome(t) \/ DrainAll(t) \/ ReadSome(t)
      PROVE  list[s] = "local" /\ ~peer[s]
  BY <1>7 DEF DrainSome, DrainAll, ReadSome
<1> QED BY <1>1, <1>2, <1>3, <1>4, <1>5, <1>6, <1>7, Steps

(* Sent keeps what was there where it was.                                 *)
LEMMA SentKeeps ==
  ASSUME TypeOK, NEW e \in End, NEW ms \in Seq(Message), NEW k \in 1..Len(wire[e])
  PROVE  k \in 1..Len(Sent(e, ms)) /\ Sent(e, ms)[k] = wire[e][k]
<1>1. wire[e] \in Seq(Message) BY DEF TypeOK
<1>2. /\ Len(wire[e]) \in Nat /\ Len(ms) \in Nat
      /\ Len(wire[e] \o ms) = Len(wire[e]) + Len(ms)
      /\ \A i \in 1..Len(wire[e]) + Len(ms) :
           (wire[e] \o ms)[i] = IF i <= Len(wire[e]) THEN wire[e][i] ELSE ms[i - Len(wire[e])]
  BY <1>1, ConcatProperties, LenProperties
<1>3. CASE link = "up"
  <2>1. Sent(e, ms) = wire[e] \o ms BY <1>3 DEF Sent
  <2> QED BY <1>2, <2>1
<1>4. CASE link # "up" BY <1>4 DEF Sent
<1> QED BY <1>3, <1>4

(* A device socket that may read while its mate has no peer: the OKAY it   *)
(* sent first is still under way.                                          *)
LEMMA OkayUnderWay ==
  ASSUME CInv, NEW i \in Id, list[Host(i)] = "local", ~peer[Host(i)], link = "up",
         NEW j \in Id, list[Device(j)] = "local", rid[Device(j)] = i
  PROVE  \E l \in 1..Len(wire["device"]) :
           wire["device"][l].cmd = "OKAY" /\ wire["device"][l].arg1 = i
<1> DEFINE x == Host(i)
           y == Device(j)
<1>1. /\ x \in Sock /\ y \in Sock /\ x[1] = "host" /\ x[2] = i /\ y[1] = "device" /\ y[2] = j
      /\ j # 0 /\ x = <<"host", i>> /\ Far("device") = "host"
  BY SockIs DEF Host, Device, Far
<1>2. Mates(x, y) BY <1>1 DEF Mates
<1>3. rd[x] \/ Data(x, y) \/ pkts[y] # <<>> \/ Ready(x, y)
  BY <1>1, <1>2 DEF CInv, Credit, AtLeastOne
<1>4. ~rd[x] /\ rid[x] = 0 BY <1>1 DEF CInv, Sockets
<1>5. ~Data(x, y)
  <2> SUFFICES ASSUME NEW k \in 1..Len(wire["host"]), Is(wire["host"][k], "WRTE", i, j)
               PROVE  FALSE
    BY <1>1 DEF Data, In
  <2>1. Routed("host", wire["host"][k]) BY DEF CInv, Wires, End
  <2>2. rid[<<"host", i>>] = j BY <2>1 DEF Routed, Is
  <2> QED BY <1>1, <1>4, <2>2
<1>6. pkts[y] = <<>>
  <2>1. pkts[y] # <<>> => rid[<<Far(y[1]), rid[y]>>] = y[2] BY <1>1 DEF CInv, Pairs
  <2>2. <<Far(y[1]), rid[y]>> = x BY <1>1
  <2> QED BY <1>1, <1>4, <2>1, <2>2
<1>7. In(wire["device"], "OKAY", j, i) BY <1>1, <1>3, <1>4, <1>5, <1>6 DEF Ready
<1> QED BY <1>7 DEF In, Is

LEMMA EarlyNext == ASSUME CInv, Next PROVE AllEarly'
<1>0. TypeOK /\ "device" \in End /\ "host" \in End /\ Far("host") = "device"
  BY DEF CInv, End, Far
<1> SUFFICES ASSUME NEW i \in Id, list'[Host(i)] = "local", ~peer'[Host(i)],
                    NEW k \in 1..Len(wire'["device"]),
                    wire'["device"][k].cmd = "WRTE", wire'["device"][k].arg1 = i
             PROVE  \E l \in 1..k - 1 : wire'["device"][l].cmd = "OKAY"
                                          /\ wire'["device"][l].arg1 = i
  BY DEF AllEarly, Early
<1> DEFINE q == wire["device"]
           Goal == \E l \in 1..k - 1 : wire'["device"][l].cmd = "OKAY"
                                         /\ wire'["device"][l].arg1 = i
<1>1. Host(i) \in Sock /\ i # 0 BY SockIs
<1>2. q \in Seq(Message) /\ Len(q) \in Nat BY <1>0, LenProperties DEF TypeOK
<1>3. ASSUME NEW early \in BOOLEAN, ClientOpen(early), i = nextId["host"] PROVE FALSE
  <2>1. PICK ms : ms = <<Msg("OPEN", nextId["host"], 0, <<>>)>> OBVIOUS
  <2>2. Send("host", ms) BY <1>3, <2>1, ClientIs
  <2>3. wire'["device"] = q BY <1>0, <2>2, SendWire
  <2>4. Routed("device", q[k]) BY <1>0, <2>3 DEF CInv, Wires
  <2>5. q[k].arg0 \in Id /\ rid[<<"device", q[k].arg0>>] = i BY <2>3, <2>4 DEF Routed
  <2>6. <<"device", q[k].arg0>> \in Sock /\ <<"device", q[k].arg0>>[1] = "device"
    BY <2>5, SockIs DEF Device
  <2>7. i < nextId["host"] BY <2>5, <2>6 DEF CInv, Ids, Far
  <2> QED BY <1>3, <2>7, SockIs
<1>4. list[Host(i)] = "local" /\ ~peer[Host(i)]
  <2>1. Host(i) = Host(nextId["host"]) => i = nextId["host"] BY DEF Host
  <2> QED BY <1>1, <1>3, <2>1, Lonely
<1>5. \A n \in 1..Len(q) : q[n].cmd = "WRTE" /\ q[n].arg1 = i =>
        \E l \in 1..n - 1 : q[l].cmd = "OKAY" /\ q[l].arg1 = i
  BY <1>4 DEF CInv, AllEarly, Early
<1>6. CASE wire'["device"] = q BY <1>5, <1>6
<1>7. ASSUME NEW ms \in Seq(Message), wire'["device"] = Sent("device", ms),
             link = "up" => \A n \in 1..Len(ms) : ms[n].cmd = "WRTE" /\ ms[n].arg1 = i =>
               \E l \in 1..Len(q) : q[l].cmd = "OKAY" /\ q[l].arg1 = i
      PROVE  Goal
  <2>1. CASE k \in 1..Len(q) /\ wire'["device"][k] = q[k]
    <3>1. PICK l \in 1..k - 1 : q[l].cmd = "OKAY" /\ q[l].arg1 = i BY <1>5, <2>1
    <3>2. l \in 1..Len(q) BY <1>2, <2>1
    <3>3. wire'["device"][l] = q[l] BY <1>0, <1>7, <3>2, SentKeeps
    <3> QED BY <3>1, <3>3
  <2>2. CASE /\ link = "up" /\ k > Len(q) /\ k - Len(q) \in 1..Len(ms)
             /\ wire'["device"][k] = ms[k - Len(q)]
    <3>1. PICK l \in 1..Len(q) : q[l].cmd = "OKAY" /\ q[l].arg1 = i BY <1>7, <2>2
    <3>2. wire'["device"][l] = q[l] BY <1>0, <1>7, SentKeeps
    <3>3. l \in 1..k - 1 BY <1>2, <2>2
    <3> QED BY <3>1, <3>2, <3>3
  <2>3. \/ k \in 1..Len(q) /\ wire'["device"][k] = q[k]
        \/ /\ link = "up" /\ k > Len(q) /\ k - Len(q) \in 1..Len(ms)
           /\ wire'["device"][k] = ms[k - Len(q)]
    <3>1. k \in 1..Len(Sent("device", ms)) BY <1>7
    <3>2. wire'["device"] = Sent("device", ms) BY <1>7
    <3> QED BY <1>0, <1>7, <3>1, <3>2, SentElems
  <2> QED BY ONLY <2>1, <2>2, <2>3
<1>8. ASSUME LinkUp PROVE Goal
  <2>1. wire'["device"] = <<>> BY <1>0, <1>8 DEF LinkUp, TypeOK
  <2> QED BY <2>1
<1>9. ASSUME LinkLost PROVE Goal
  <2>1. PICK n \in 0..Len(q) :
          wire'["device"] = SubSeq(q, 1, n) \o <<Msg("SYNC", 0, 0, <<>>)>>
    BY <1>0, <1>9, LostFrom
  <2>2. /\ n \in Nat /\ Len(wire'["device"]) = n + 1
        /\ \A l \in 1..n : l \in 1..Len(q) /\ wire'["device"][l] = q[l]
        /\ wire'["device"][n + 1].cmd = "SYNC"
    BY <1>0, <2>1, LostIs
  <2>3. k # n + 1 BY <2>2
  <2>4. k \in 1..n BY <2>2, <2>3
  <2>5. PICK l \in 1..k - 1 : q[l].cmd = "OKAY" /\ q[l].arg1 = i BY <1>5, <2>2, <2>4
  <2>6. l \in 1..n BY <2>2, <2>4
  <2> QED BY <2>2, <2>5, <2>6
<1>10. ASSUME NEW early \in BOOLEAN, ClientOpen(early) PROVE Goal
  <2>1. PICK ms : ms = <<Msg("OPEN", nextId["host"], 0, <<>>)>> OBVIOUS
  <2>2. Send("host", ms) BY <1>10, <2>1, ClientIs
  <2>3. wire'["device"] = q BY <1>0, <2>2, SendWire
  <2> QED BY <1>6, <2>3
<1>11. ASSUME NEW e \in End, OpenAccepted(e) PROVE Goal
  <2>1. PICK o : o = Head(wire[Far(e)]) OBVIOUS
  <2>2. PICK n \in Id : n = nextId["device"] BY <1>11, <2>1, AcceptedIs
  <2>3. PICK ms : ms = <<Msg("OKAY", n, o.arg0, <<>>)>> OBVIOUS
  <2>4. Reply(e, ms) /\ e = "device" /\ o.arg0 \in Id BY <1>11, <2>1, <2>2, <2>3, AcceptedIs
  <2>5. ms \in Seq(Message) BY <2>3, <2>4, IdTypes, OkayMsg
  <2>6. wire'["device"] = Sent("device", ms) BY <1>0, <2>4, ReplyWire
  <2>7. \A l \in 1..Len(ms) : ms[l].cmd # "WRTE" BY <2>3 DEF Msg
  <2> HIDE DEF Goal
  <2> QED BY <1>7, <2>5, <2>6, <2>7
<1>12. ASSUME NEW e \in End, NEW ms \in Seq(Message), Acts(e, ms), Sends(e, ms) PROVE Goal
  <2>1. CASE e = "device" /\ (Reply(e, ms) \/ Send(e, ms))
    <3>1. wire'["device"] = Sent("device", ms) BY <1>0, <2>1, ReplyWire, SendWire
    <3>2. ASSUME link = "up", NEW n \in 1..Len(ms), ms[n].cmd = "WRTE", ms[n].arg1 = i
          PROVE  \E l \in 1..Len(q) : q[l].cmd = "OKAY" /\ q[l].arg1 = i
      <4>1. /\ ms[n].arg0 \in Id /\ rid[Device(ms[n].arg0)] = i
            /\ list[Device(ms[n].arg0)] = "local"
        BY <1>12, <2>1, <3>2 DEF Sends, Device
      <4> QED BY <1>4, <3>2, <4>1, OkayUnderWay
    <3> HIDE DEF Goal
    <3> QED BY <1>7, <3>1, <3>2
  <2>2. CASE e = "host" /\ Send(e, ms)
    <3>1. wire'["device"] = q BY <1>0, <2>2, SendWire
    <3> QED BY <1>6, <3>1
  <2>3. CASE e = "host" /\ Reply(e, ms) /\ q # <<>> /\ Greets(e)
    <3>1. wire'["device"] = Tail(q) BY <1>0, <2>3, ReplyWire
    <3>2. /\ Head(q) = q[1] /\ Len(Tail(q)) = Len(q) - 1
          /\ \A n \in 1..Len(Tail(q)) : n + 1 \in 1..Len(q) /\ Tail(q)[n] = q[n + 1]
          /\ \A n \in 2..Len(q) : n - 1 \in 1..Len(Tail(q)) /\ Tail(q)[n - 1] = q[n]
      BY <1>2, <2>3, TailElems
    <3>3. k + 1 \in 1..Len(q) /\ q[k + 1] = wire'["device"][k] BY <3>1, <3>2
    <3>4. PICK l \in 1..(k + 1) - 1 : q[l].cmd = "OKAY" /\ q[l].arg1 = i
      BY <1>5, <3>3
    <3>5. l # 1
      <4> SUFFICES ASSUME l = 1 PROVE FALSE OBVIOUS
      <4>1. Head(q).cmd = "OKAY" /\ Head(q).arg1 = i BY <3>2, <3>4
      <4>2. Arrives("host", "OKAY") BY <1>0, <2>3, <4>1 DEF Arrives
      <4>3. <<"host", Head(wire[Far("host")]).arg1>> = Host(i) BY <1>0, <4>1 DEF Host
      <4> QED BY <1>4, <2>3, <4>2, <4>3 DEF Greets
    <3>6. l \in 2..Len(q) /\ l - 1 \in 1..k - 1 BY <1>2, <3>3, <3>4, <3>5
    <3>7. wire'["device"][l - 1] = q[l] BY <3>1, <3>2, <3>6
    <3> QED BY <3>4, <3>6, <3>7
  <2>4. CASE UNCHANGED wire BY <1>6, <2>4
  <2>5. e = "device" \/ e = "host" BY DEF End
  <2>6. /\ ~UNCHANGED wire => Reply(e, ms) \/ Send(e, ms)
        /\ e = "host" /\ Reply(e, ms) /\ ~UNCHANGED wire /\ ~Send(e, ms) => q # <<>> /\ Greets(e)
    BY <1>0, <1>12 DEF Acts
  <2> HIDE DEF Goal
  <2> QED BY <2>1, <2>2, <2>3, <2>4, <2>5, <2>6
<1>13. Goal
  <2> HIDE DEF Goal
  <2> QED BY <1>8, <1>9, <1>10, <1>11, <1>12, WireSteps
<1> QED BY <1>13

-----------------------------------------------------------------------------
(* The credits. Mates are two sockets of a stream, one of each end.        *)

LEMMA MatesAre ==
  ASSUME CInv, NEW x \in Sock, NEW y \in Sock, Mates(x, y)
  PROVE  /\ x[1] \in End /\ y[1] = Far(x[1]) /\ x[1] = Far(y[1]) /\ x[1] # y[1]
         /\ x[2] \in Id /\ y[2] \in Id /\ x = <<x[1], x[2]>> /\ y = <<y[1], y[2]>>
         /\ list[x] # "none" /\ list[y] # "none" /\ Mates(y, x)
<1>1. /\ x[1] \in End /\ x[2] \in Id /\ y[1] \in End /\ y[2] \in Id
      /\ x = <<x[1], x[2]>> /\ y = <<y[1], y[2]>>
  BY SockIs
<1>2. y[1] = Far(x[1]) /\ x[1] = Far(y[1]) /\ x[1] # y[1] BY DEF Mates, Far
<1>3. ASSUME NEW h \in Sock, NEW d \in Sock, h[1] = "host", d[1] = "device", rid[d] = h[2]
      PROVE  list[h] # "none" /\ list[d] # "none"
  <2>1. h[2] \in Id /\ h[2] # 0 BY SockIs
  <2>2. list[d] # "none" BY <1>3, <2>1 DEF CInv, Ids
  <2>3. h[2] < nextId["host"] BY <1>3 DEF CInv, Ids, Far
  <2>4. h[2] \in Nat /\ nextId["host"] \in Nat
    <3>1. h[2] \in Nat BY <2>1 DEF Id
    <3>2. nextId["host"] \in 1..MaxId + 1 BY DEF CInv, TypeOK, End
    <3> QED BY <3>1, <3>2
  <2>5. ~(h[2] >= nextId["host"]) BY <2>3, <2>4
  <2>6. list[h] # "none" BY <1>3, <2>5 DEF CInv, Ids
  <2> QED BY <2>2, <2>6
<1>4. list[x] # "none" /\ list[y] # "none" BY <1>3 DEF Mates
<1>5. Mates(y, x) BY DEF Mates
<1> QED BY <1>1, <1>2, <1>4, <1>5

LEMMA MatesOne ==
  ASSUME CInv, NEW x \in Sock, NEW y \in Sock, NEW w \in Sock, Mates(x, y), Mates(x, w)
  PROVE  y = w
<1>1. /\ y = <<y[1], y[2]>> /\ w = <<w[1], w[2]>> /\ y[2] \in Id /\ w[2] \in Id /\ x[2] # 0
  BY SockIs
<1>2. CASE x[1] = "device"
  <2>1. y[1] = "host" /\ w[1] = "host" /\ rid[x] = y[2] /\ rid[x] = w[2] BY <1>2 DEF Mates
  <2> QED BY <1>1, <2>1
<1>3. CASE x[1] = "host"
  <2>1. y[1] = "device" /\ w[1] = "device" /\ rid[y] = x[2] /\ rid[w] = x[2] BY <1>3 DEF Mates
  <2>2. y = Device(y[2]) /\ w = Device(w[2]) BY <1>1, <2>1 DEF Device
  <2>3. y[2] = w[2] BY <1>1, <2>1, <2>2 DEF CInv, Pairs
  <2> QED BY <1>1, <2>1, <2>3
<1> QED BY <1>2, <1>3 DEF Mates

(* Steps that give and take nothing: what they drop was for a socket that  *)
(* is not open.                                                            *)
CalmSocks ==
  /\ UNCHANGED rid
  /\ \A t \in Sock : rd'[t] => rd[t]
  /\ \A t \in Sock : pkts'[t] # <<>> => pkts[t] # <<>>
  /\ \A t \in Sock : list'[t] = "local" /\ list[t] # "none" =>
       list[t] = "local" /\ (rd[t] => rd'[t]) /\ (pkts[t] # <<>> => pkts'[t] # <<>>)

CalmWires ==
  /\ \A f \in End, cmd \in {"OKAY", "WRTE"}, a, b \in Id :
       In(wire'[f], cmd, a, b) => In(wire[f], cmd, a, b)
  /\ \A f \in End, cmd \in {"OKAY", "WRTE"}, a, b \in Id :
       Once(wire[f], cmd, a, b) => Once(wire'[f], cmd, a, b)
  /\ \A f \in End, cmd \in {"OKAY", "WRTE"}, a, b \in Id :
       link' = "up" /\ In(wire[f], cmd, a, b)
         => In(wire'[f], cmd, a, b) \/ list'[<<Far(f), b>>] # "local"
  /\ link' = "up" => link = "up" \/ \A t \in Sock : list'[t] # "local"

LEMMA CalmCredit == ASSUME CInv, CalmSocks, CalmWires PROVE Credit'
<1> SUFFICES ASSUME NEW x \in Sock, NEW y \in Sock, Mates(x, y)
             PROVE  AtMostOne(x, y)' /\ AtLeastOne(x, y)'
  BY DEF Credit, Mates, CalmSocks
<1>1. AtMostOne(x, y) /\ AtLeastOne(x, y) BY DEF CInv, Credit
<1>2. /\ x[1] \in End /\ y[1] \in End /\ x[2] \in Id /\ y[2] \in Id
      /\ x = <<Far(y[1]), x[2]>> /\ y = <<Far(x[1]), y[2]>>
      /\ list[x] # "none" /\ list[y] # "none"
  BY MatesAre, SockIs
<1>3. /\ In(wire'[x[1]], "WRTE", x[2], y[2]) => Data(x, y)
      /\ In(wire'[y[1]], "OKAY", y[2], x[2]) => Ready(x, y)
  BY <1>2 DEF CalmWires, Data, Ready
<1>4. /\ Once(wire'[x[1]], "WRTE", x[2], y[2])
      /\ Once(wire'[y[1]], "OKAY", y[2], x[2])
  BY <1>1, <1>2 DEF CalmWires, AtMostOne
<1>5. (rd'[x] => rd[x]) /\ (pkts'[y] # <<>> => pkts[y] # <<>>) BY DEF CalmSocks
<1>6. AtMostOne(x, y)' BY <1>1, <1>3, <1>4, <1>5 DEF AtMostOne, Data, Ready
<1>7. ASSUME link' = "up", list'[x] = "local", list'[y] = "local"
      PROVE  rd'[x] \/ In(wire'[x[1]], "WRTE", x[2], y[2]) \/ pkts'[y] # <<>>
               \/ In(wire'[y[1]], "OKAY", y[2], x[2])
  <2>1. link = "up" BY <1>7 DEF CalmWires
  <2>2. /\ list[x] = "local" /\ list[y] = "local"
        /\ rd[x] => rd'[x]
        /\ pkts[y] # <<>> => pkts'[y] # <<>>
    BY <1>2, <1>7 DEF CalmSocks
  <2>3. Data(x, y) => In(wire'[x[1]], "WRTE", x[2], y[2])
    BY <1>2, <1>7 DEF CalmWires, Data
  <2>4. Ready(x, y) => In(wire'[y[1]], "OKAY", y[2], x[2])
    BY <1>2, <1>7 DEF CalmWires, Ready
  <2> QED BY <1>1, <2>1, <2>2, <2>3, <2>4 DEF AtLeastOne
<1>8. AtLeastOne(x, y)' BY <1>7 DEF AtLeastOne, Data, Ready
<1> QED BY <1>6, <1>8

LEMMA SameSocks == ASSUME CInv, UNCHANGED sockVars PROVE CalmSocks
BY DEF sockVars, CalmSocks

LEMMA ClosingSocks == ASSUME CInv, NEW S, Closing(S) PROVE CalmSocks
<1>1. TypeOK BY DEF CInv
<1>2. UNCHANGED rid BY DEF Closing, CloseSockets
<1>3. ASSUME NEW t \in Sock
      PROVE  /\ rd'[t] => rd[t]
             /\ pkts'[t] # <<>> => pkts[t] # <<>>
             /\ list'[t] = "local" => list[t] = "local" /\ (rd[t] => rd'[t])
                                       /\ (pkts[t] # <<>> => pkts'[t] # <<>>)
  <2>1. CASE t \notin S BY <1>1, <2>1, ClosingIs
  <2>2. CASE t \in S BY <1>1, <2>2, ClosingIs
  <2> QED BY <2>1, <2>2
<1> QED BY <1>2, <1>3 DEF CalmSocks

LEMMA SameWires == ASSUME CInv, UNCHANGED <<wire, link>> PROVE CalmWires
BY DEF CalmWires

LEMMA PlainIn ==
  ASSUME NEW ms, Plain(ms), NEW cmd \in {"OKAY", "WRTE"}, NEW a, NEW b
  PROVE  ~In(ms, cmd, a, b) /\ Once(ms, cmd, a, b)
BY DEF Plain, In, Once, Is

LEMMA PlainWires ==
  ASSUME CInv, NEW e \in End, NEW ms, Plain(ms), UNCHANGED link,
         \/ Send(e, ms)
         \/ /\ Reply(e, ms) /\ wire[Far(e)] # <<>>
            /\ Head(wire[Far(e)]).cmd \in {"OKAY", "WRTE"}
                 => list'[<<e, Head(wire[Far(e)]).arg1>>] # "local"
  PROVE  CalmWires
<1>0. TypeOK BY DEF CInv
<1>1. Acts(e, ms) BY DEF Acts, Plain, Greets, Arrives
<1>2. ASSUME NEW f \in End, NEW cmd \in {"OKAY", "WRTE"}, NEW a \in Id, NEW b \in Id
      PROVE  /\ In(wire'[f], cmd, a, b) => In(wire[f], cmd, a, b)
             /\ Once(wire[f], cmd, a, b) => Once(wire'[f], cmd, a, b)
             /\ In(wire[f], cmd, a, b)
                  => In(wire'[f], cmd, a, b) \/ list'[<<Far(f), b>>] # "local"
  <2>1. ~In(ms, cmd, a, b) /\ Once(ms, cmd, a, b) BY PlainIn
  <2>2. /\ In(wire'[f], cmd, a, b)
             => In(wire[f], cmd, a, b) \/ (f = e /\ link = "up" /\ In(ms, cmd, a, b))
        /\ Once(wire[f], cmd, a, b)
             /\ (f = e /\ link = "up" => Once(ms, cmd, a, b)
                                         /\ ~(In(wire[f], cmd, a, b) /\ In(ms, cmd, a, b)))
             => Once(wire'[f], cmd, a, b)
        /\ In(wire[f], cmd, a, b)
             => \/ In(wire'[f], cmd, a, b)
                \/ Reply(e, ms) /\ f = Far(e) /\ Is(Head(wire[f]), cmd, a, b)
    BY <1>0, <1>1, ActsIn
  <2>3. CASE Send(e, ms)
    <3>1. In(wire[f], cmd, a, b) => In(wire'[f], cmd, a, b)
      <4>1. f = e \/ f = Far(e) BY DEF End, Far
      <4>2. ms \in Seq(Message) BY DEF Plain
      <4> QED BY <1>0, <2>3, <4>1, <4>2, SendWire, SentIn
    <3> QED BY <2>1, <2>2, <3>1
  <2>4. CASE /\ Reply(e, ms) /\ wire[Far(e)] # <<>>
             /\ Head(wire[Far(e)]).cmd \in {"OKAY", "WRTE"}
                  => list'[<<e, Head(wire[Far(e)]).arg1>>] # "local"
    <3>1. f = Far(e) /\ Is(Head(wire[f]), cmd, a, b) => list'[<<Far(f), b>>] # "local"
      BY <2>4, EndFacts DEF Is
    <3> QED BY <2>1, <2>2, <3>1
  <2> QED BY <2>3, <2>4
<1> QED BY <1>2 DEF CalmWires

LEMMA CalmSteps ==
  ASSUME CInv, Next
  PROVE  \/ CalmSocks /\ CalmWires
         \/ \E e \in End : HandleOkay(e) \/ OpenAccepted(e) \/ WrteWritten(e) \/ WrteQueued(e)
         \/ \E s \in Sock : DrainAll(s) \/ ReadSome(s) \/ ReadEof(s)
<1>0. TypeOK /\ Session /\ Sockets BY DEF CInv
<1> DEFINE Calm == CalmSocks /\ CalmWires
<1> USE DEF linkVars
<1>1. ASSUME LinkUp PROVE Calm
  <2>1. /\ \A e \in End : wire[e] = <<>> /\ ~online[e] /\ ~sweep[e]
        /\ wire' = [wire EXCEPT !["host"] = <<Msg("CNXN", 0, 0, <<>>)>>] /\ UNCHANGED sockVars
    BY <1>1 DEF LinkUp
  <2>2. \A t \in Sock : list'[t] # "local"
    <3>1. \A t \in Sock : t[1] \in End BY SockIs
    <3> QED BY <1>0, <2>1, <3>1 DEF Session, sockVars
  <2>3. \A f \in End : wire'[f] = <<>> \/ wire'[f] = <<Msg("CNXN", 0, 0, <<>>)>>
    BY <1>0, <2>1 DEF TypeOK
  <2>4. ASSUME NEW f \in End, NEW cmd \in {"OKAY", "WRTE"}, NEW a, NEW b
        PROVE  ~In(wire'[f], cmd, a, b) /\ Once(wire'[f], cmd, a, b) /\ ~In(wire[f], cmd, a, b)
    <3>1. ~In(wire[f], cmd, a, b) BY <2>1, NoneIn
    <3>2. CASE wire'[f] = <<>> BY <3>1, <3>2, NoneIn
    <3>3. CASE wire'[f] = <<Msg("CNXN", 0, 0, <<>>)>>
      BY <3>1, <3>3, OneIn DEF Is, Msg
    <3> QED BY <2>3, <3>2, <3>3
  <2>5. CalmWires BY <2>2, <2>4 DEF CalmWires
  <2> QED BY <2>1, <2>5, SameSocks
<1>2. ASSUME LinkLost PROVE Calm
  <2>1. link' # "up" /\ UNCHANGED sockVars BY <1>2 DEF LinkLost
  <2>2. ASSUME NEW f \in End, NEW cmd \in {"OKAY", "WRTE"}, NEW a, NEW b
        PROVE  /\ In(wire'[f], cmd, a, b) => In(wire[f], cmd, a, b)
               /\ Once(wire[f], cmd, a, b) => Once(wire'[f], cmd, a, b)
    <3>1. PICK n \in 0..Len(wire[f]) :
            wire'[f] = SubSeq(wire[f], 1, n) \o <<Msg("SYNC", 0, 0, <<>>)>>
      BY <1>0, <1>2, LostFrom
    <3> QED BY <1>0, <3>1, LostIs
  <2>3. CalmWires BY <2>1, <2>2 DEF CalmWires
  <2> QED BY <2>1, <2>3, SameSocks
<1>3. ASSUME NEW e \in End, HandleSync(e) PROVE Calm
  <2>1. CalmSocks BY <1>3, SyncCloses, ClosingSocks
  <2>2. CalmWires
    <3>1. Plain(<<>>) BY PlainMsgs
    <3>2. Reply(e, <<>>) /\ wire[Far(e)] # <<>> /\ UNCHANGED link
          /\ Head(wire[Far(e)]).cmd = "SYNC"
      BY <1>3 DEF HandleSync, Arrives
    <3> QED BY <3>1, <3>2, PlainWires
  <2> QED BY <2>1, <2>2
<1>4. ASSUME NEW e \in End, CloseAllSockets(e) PROVE Calm
  <2>1. CalmSocks BY <1>4, SweepCloses, ClosingSocks
  <2> QED BY <1>4, <2>1, SameWires DEF CloseAllSockets
<1>5. ASSUME NEW e \in End, HandleCnxn(e) PROVE Calm
  <2>1. CalmSocks BY <1>5, CnxnCloses, ClosingSocks
  <2>2. PICK ms : ms = IF e = "device" THEN <<Msg("CNXN", 0, 0, <<>>)>> ELSE <<>> OBVIOUS
  <2>3. Plain(ms) BY <2>2, PlainMsgs
  <2>4. Reply(e, ms) /\ wire[Far(e)] # <<>> /\ UNCHANGED link /\ Head(wire[Far(e)]).cmd = "CNXN"
    BY <1>5, <2>2 DEF HandleCnxn, Arrives
  <2> QED BY <2>1, <2>3, <2>4, PlainWires
<1>6. ASSUME NEW early \in BOOLEAN, ClientOpen(early) PROVE Calm
  <2>1. PICK h : h = Host(nextId["host"]) OBVIOUS
  <2>2. /\ h \in Sock /\ list[h] = "none" /\ UNCHANGED <<rid, pkts, rd, link>>
        /\ \A t \in Sock : list'[t] = IF t = h THEN (IF early THEN "freed" ELSE "local")
                                               ELSE list[t]
    BY <1>6, <2>1, ClientIs
  <2>3. CalmSocks BY <2>2 DEF CalmSocks
  <2>4. nextId["host"] \in Id BY <1>6, ClientIs
  <2>5. PICK ms : ms = <<Msg("OPEN", nextId["host"], 0, <<>>)>> OBVIOUS
  <2>6. Send("host", ms) /\ "host" \in End BY <1>6, <2>5, ClientIs DEF End
  <2>7. ms \in Seq(Message) BY <2>4, <2>5, IdTypes, OpenMsg
  <2>8. Acts("host", ms) BY <2>2, <2>6, <2>7 DEF Acts
  <2>9. ASSUME NEW f \in End, NEW cmd \in {"OKAY", "WRTE"}, NEW a \in Id, NEW b \in Id
        PROVE  /\ In(wire'[f], cmd, a, b) <=> In(wire[f], cmd, a, b)
               /\ Once(wire[f], cmd, a, b) => Once(wire'[f], cmd, a, b)
    <3>1. ~In(ms, cmd, a, b) /\ Once(ms, cmd, a, b) BY <2>5, OneIn DEF Is, Msg
    <3>2. f = "host" => wire'[f] = Sent("host", ms) BY <1>0, <2>6, SendWire
    <3>3. f = "device" => wire'[f] = wire[f] BY <1>0, <2>6, SendWire DEF Far
    <3>4. CASE f = "host" BY <1>0, <2>6, <2>7, <3>1, <3>2, <3>4, SentIn
    <3>5. CASE f = "device" BY <3>3, <3>5
    <3> QED BY <3>4, <3>5 DEF End
  <2>10. CalmWires BY <2>2, <2>9 DEF CalmWires
  <2> QED BY <2>3, <2>10
<1>7. ASSUME NEW e \in End, OpenRefused(e) PROVE Calm
  <2>1. PICK ms : ms = SendClose(Head(wire[Far(e)]).arg0) OBVIOUS
  <2>2. /\ Reply(e, ms) /\ wire[Far(e)] # <<>> /\ UNCHANGED link /\ UNCHANGED sockVars
        /\ Head(wire[Far(e)]).cmd = "OPEN"
    BY <1>7, <2>1 DEF OpenRefused, Arrives
  <2>3. Plain(ms) BY <1>0, <2>1, <2>2, ArrivesType, PlainMsgs
  <2>4. CalmWires BY <2>2, <2>3, PlainWires
  <2> QED BY <2>2, <2>4, SameSocks
<1>8. ASSUME NEW e \in End, HandleClse(e) \/ WrteFailed(e) PROVE Calm
  <2>1. CalmSocks BY <1>8, FoundCloses, ClosingSocks
  <2>2. PICK s : s = FoundSock(e) OBVIOUS
  <2>3. PICK ms : ms = CloseMsgs(s) OBVIOUS
  <2>4. s \in Sock /\ Closing({s}) BY <1>8, <2>2, FoundCloses
  <2>5. list'[s] # "local" BY <1>0, <2>4, ClosingIs
  <2>6. s = <<e, Head(wire[Far(e)]).arg1>> BY <2>2 DEF FoundSock
  <2>7. Reply(e, ms) /\ wire[Far(e)] # <<>> /\ UNCHANGED link
    BY <1>8, <2>3, <2>6 DEF HandleClse, WrteFailed, Arrives
  <2>8. Plain(ms) BY <2>3, <2>4, PlainMsgs
  <2>9. CalmWires BY <2>5, <2>6, <2>7, <2>8, PlainWires
  <2> QED BY <2>1, <2>9
<1>9. ASSUME NEW e \in End, Ignore(e) PROVE Calm
  <2>1. Reply(e, <<>>) /\ wire[Far(e)] # <<>> /\ UNCHANGED link /\ UNCHANGED sockVars
    BY <1>9 DEF Ignore
  <2>2. Head(wire[Far(e)]).cmd \in {"OKAY", "WRTE"}
          => list[<<e, Head(wire[Far(e)]).arg1>>] # "local"
    BY <1>9, <2>1, IgnoredClosed DEF Arrives
  <2>3. UNCHANGED list BY <2>1 DEF sockVars
  <2>4. Plain(<<>>) BY PlainMsgs
  <2>5. CalmWires BY <2>1, <2>2, <2>3, <2>4, PlainWires
  <2> QED BY <2>1, <2>5, SameSocks
<1>10. ASSUME NEW s \in Sock, DrainSome(s) PROVE Calm
  <2>1. /\ \A t \in Sock : pkts'[t] # <<>> <=> pkts[t] # <<>>
        /\ UNCHANGED <<list, rid, rd, wire, link>>
    BY <1>10, SomeIs
  <2>2. CalmSocks BY <2>1 DEF CalmSocks
  <2> QED BY <2>1, <2>2, SameWires
<1>11. ASSUME NEW s \in Sock, DrainLast(s) PROVE Calm
  <2>1. CalmSocks BY <1>11, EventCloses, ClosingSocks
  <2> QED BY <1>11, <2>1, SameWires DEF DrainLast
<1>12. ASSUME NEW s \in Sock, DrainFailed(s) PROVE Calm
  <2>1. CalmSocks BY <1>12, EventCloses, ClosingSocks
  <2>2. s[1] \in End /\ Plain(CloseMsgs(s)) BY SockIs, PlainMsgs
  <2>3. Send(s[1], CloseMsgs(s)) /\ UNCHANGED link BY <1>12 DEF DrainFailed
  <2>4. CalmWires BY <2>2, <2>3, PlainWires
  <2> QED BY <2>1, <2>4
<1>13. ASSUME NEW s \in Sock, ClientWrite(s) \/ \E how \in {"eof", "gone"} : ClientShut(s, how)
       PROVE  Calm
  <2>1. UNCHANGED sockVars /\ UNCHANGED <<wire, link>> BY <1>13 DEF ClientWrite, ClientShut
  <2> QED BY <2>1, SameSocks, SameWires
<1> HIDE DEF Calm
<1>14. \/ Calm
       \/ \E e \in End : HandleOkay(e) \/ OpenAccepted(e) \/ WrteWritten(e) \/ WrteQueued(e)
       \/ \E s \in Sock : DrainAll(s) \/ ReadSome(s) \/ ReadEof(s)
  BY <1>1, <1>2, <1>3, <1>4, <1>5, <1>6, <1>7, <1>8, <1>9, <1>10, <1>11, <1>12, <1>13
  DEF Next, Handle, Event
<1> QED BY <1>14 DEF Calm

(* A step that moves the credit of x for y, by what it handles and sends,  *)
(* leaves every other credit where it is.                                  *)
Moves(e, ms, x, y) ==
  /\ Acts(e, ms)
  /\ \A cmd \in {"OKAY", "WRTE"}, a, b \in Id :
       Reply(e, ms) /\ wire[Far(e)] # <<>> /\ Is(Head(wire[Far(e)]), cmd, a, b) =>
         \/ cmd = "WRTE" /\ x = <<Far(e), a>> /\ y = <<e, b>>
         \/ cmd = "OKAY" /\ y = <<Far(e), a>> /\ x = <<e, b>>
  /\ \A cmd \in {"OKAY", "WRTE"}, a, b \in Id :
       In(ms, cmd, a, b) =>
         \/ cmd = "WRTE" /\ x = <<e, a>> /\ y = <<Far(e), b>>
         \/ cmd = "OKAY" /\ y = <<e, a>> /\ x = <<Far(e), b>>

LEMMA OtherWires ==
  ASSUME CInv, NEW e \in End, NEW ms, NEW x \in Sock, NEW y \in Sock, Moves(e, ms, x, y),
         NEW v \in Sock, NEW w \in Sock, Mates(v, w), ~(v = x /\ w = y)
  PROVE  /\ In(wire'[v[1]], "WRTE", v[2], w[2]) <=> Data(v, w)
         /\ In(wire'[w[1]], "OKAY", w[2], v[2]) <=> Ready(v, w)
         /\ Once(wire'[v[1]], "WRTE", v[2], w[2])
         /\ Once(wire'[w[1]], "OKAY", w[2], v[2])
<1>0. TypeOK /\ Acts(e, ms) BY DEF CInv, Moves
<1>1. /\ v[1] \in End /\ w[1] \in End /\ v[2] \in Id /\ w[2] \in Id
      /\ v = <<v[1], v[2]>> /\ w = <<w[1], w[2]>> /\ w[1] = Far(v[1]) /\ v[1] = Far(w[1])
  BY MatesAre, SockIs
<1>2. AtMostOne(v, w) BY DEF CInv, Credit
<1>3. v[1] = e => ~In(ms, "WRTE", v[2], w[2]) BY <1>1 DEF Moves
<1>4. w[1] = e => ~In(ms, "OKAY", w[2], v[2]) BY <1>1 DEF Moves
<1>5. Reply(e, ms) /\ v[1] = Far(e) /\ wire[v[1]] # <<>>
        => ~Is(Head(wire[v[1]]), "WRTE", v[2], w[2])
  BY <1>1, EndFacts DEF Moves
<1>6. Reply(e, ms) /\ w[1] = Far(e) /\ wire[w[1]] # <<>>
        => ~Is(Head(wire[w[1]]), "OKAY", w[2], v[2])
  BY <1>1, EndFacts DEF Moves
<1>7. /\ In(wire'[v[1]], "WRTE", v[2], w[2])
           => In(wire[v[1]], "WRTE", v[2], w[2])
                \/ (v[1] = e /\ link = "up" /\ In(ms, "WRTE", v[2], w[2]))
      /\ Once(wire[v[1]], "WRTE", v[2], w[2])
           /\ (v[1] = e /\ link = "up" => Once(ms, "WRTE", v[2], w[2])
                /\ ~(In(wire[v[1]], "WRTE", v[2], w[2]) /\ In(ms, "WRTE", v[2], w[2])))
           => Once(wire'[v[1]], "WRTE", v[2], w[2])
      /\ In(wire[v[1]], "WRTE", v[2], w[2])
           => \/ In(wire'[v[1]], "WRTE", v[2], w[2])
              \/ Reply(e, ms) /\ v[1] = Far(e) /\ Is(Head(wire[v[1]]), "WRTE", v[2], w[2])
  BY <1>0, <1>1, ActsIn
<1>8. /\ In(wire'[w[1]], "OKAY", w[2], v[2])
           => In(wire[w[1]], "OKAY", w[2], v[2])
                \/ (w[1] = e /\ link = "up" /\ In(ms, "OKAY", w[2], v[2]))
      /\ Once(wire[w[1]], "OKAY", w[2], v[2])
           /\ (w[1] = e /\ link = "up" => Once(ms, "OKAY", w[2], v[2])
                /\ ~(In(wire[w[1]], "OKAY", w[2], v[2]) /\ In(ms, "OKAY", w[2], v[2])))
           => Once(wire'[w[1]], "OKAY", w[2], v[2])
      /\ In(wire[w[1]], "OKAY", w[2], v[2])
           => \/ In(wire'[w[1]], "OKAY", w[2], v[2])
              \/ Reply(e, ms) /\ w[1] = Far(e) /\ Is(Head(wire[w[1]]), "OKAY", w[2], v[2])
  BY <1>0, <1>1, ActsIn
<1>9. ~In(ms, "WRTE", v[2], w[2]) => Once(ms, "WRTE", v[2], w[2]) BY DEF In, Once
<1>10. ~In(ms, "OKAY", w[2], v[2]) => Once(ms, "OKAY", w[2], v[2]) BY DEF In, Once
<1>11. /\ In(wire[v[1]], "WRTE", v[2], w[2]) => wire[v[1]] # <<>>
       /\ In(wire[w[1]], "OKAY", w[2], v[2]) => wire[w[1]] # <<>>
  BY NoneIn
<1> QED
  BY <1>2, <1>3, <1>4, <1>5, <1>6, <1>7, <1>8, <1>9, <1>10, <1>11 DEF AtMostOne, Data, Ready

(* The rest of the sockets: only x may read, only y may get data.          *)
LEMMA OtherCredit ==
  ASSUME CInv, NEW e \in End, NEW ms, NEW x \in Sock, NEW y \in Sock, Moves(e, ms, x, y),
         NEW v \in Sock, NEW w \in Sock, Mates(v, w), ~(v = x /\ w = y),
         list'[v] = "local" => list[v] = "local",
         list'[w] = "local" => list[w] = "local",
         rd'[v] => rd[v], list'[v] = "local" => (rd[v] => rd'[v]),
         pkts'[w] # <<>> => pkts[w] # <<>>,
         list'[w] = "local" => (pkts[w] # <<>> => pkts'[w] # <<>>)
  PROVE  AtMostOne(v, w)' /\ AtLeastOne(v, w)'
<1>1. AtMostOne(v, w) /\ AtLeastOne(v, w) BY DEF CInv, Credit
<1>2. UNCHANGED link BY DEF Moves, Acts
<1>3. /\ In(wire'[v[1]], "WRTE", v[2], w[2]) <=> Data(v, w)
      /\ In(wire'[w[1]], "OKAY", w[2], v[2]) <=> Ready(v, w)
      /\ Once(wire'[v[1]], "WRTE", v[2], w[2])
      /\ Once(wire'[w[1]], "OKAY", w[2], v[2])
  BY OtherWires
<1>4. AtMostOne(v, w)' BY <1>1, <1>3 DEF AtMostOne, Data, Ready
<1>5. AtLeastOne(v, w)' BY <1>1, <1>2, <1>3 DEF AtLeastOne, Data, Ready
<1> QED BY <1>4, <1>5

(* A sender that handles nothing.                                          *)
LEMMA SendOnly ==
  ASSUME TypeOK, NEW e \in End, NEW ms, Send(e, ms), wire[Far(e)] # <<>>
  PROVE  ~Reply(e, ms)
<1> SUFFICES ASSUME Reply(e, ms) PROVE FALSE OBVIOUS
<1>1. wire'[Far(e)] = wire[Far(e)] /\ wire'[Far(e)] = Tail(wire[Far(e)])
  BY SendWire, ReplyWire
<1>2. wire[Far(e)] \in Seq(Message) BY EndFacts DEF TypeOK
<1>3. PICK n \in Nat : n = Len(wire[Far(e)]) BY <1>2, LenProperties
<1>4. Len(Tail(wire[Far(e)])) = n - 1 BY <1>2, <1>3, TailElems
<1>5. Len(Tail(wire[Far(e)])) = n BY <1>1, <1>3
<1> QED BY <1>4, <1>5

(* What a message of the pair is to it.                                    *)
LEMMA OneMsg ==
  ASSUME NEW c, NEW a, NEW b, NEW data, NEW cmd, NEW k, NEW l
  PROVE  /\ In(<<Msg(c, a, b, data)>>, cmd, k, l) <=> c = cmd /\ a = k /\ b = l
         /\ Once(<<Msg(c, a, b, data)>>, cmd, k, l)
BY OneIn DEF Is, Msg

LEMMA NoneSent == ASSUME NEW cmd, NEW a, NEW b PROVE ~In(<<>>, cmd, a, b) /\ Once(<<>>, cmd, a, b)
BY NoneIn

(* WRTE, all written: the credit goes from the data to the OKAY.           *)
LEMMA WrittenCredit == ASSUME CInv, NEW e \in End, WrteWritten(e) PROVE Credit'
<1>0. TypeOK BY DEF CInv
<1>1. PICK m : m = Head(wire[Far(e)]) OBVIOUS
<1>2. PICK y : y = <<e, m.arg1>> OBVIOUS
<1>3. PICK x : x = <<Far(e), m.arg0>> OBVIOUS
<1>4. PICK ms : ms = <<Msg("OKAY", m.arg1, m.arg0, <<>>)>> OBVIOUS
<1>5. /\ Arrives(e, "WRTE") /\ pkts[y] = <<>> /\ y \in Sock /\ m.arg0 \in Id /\ m.arg1 \in Id
      /\ Reply(e, ms) /\ UNCHANGED sockVars /\ UNCHANGED link /\ Found(e, m.arg1)
  BY <1>1, <1>2, <1>4, <1>0, WrittenIs
<1>6. Mates(x, y) BY <1>1, <1>2, <1>3, <1>5, DataFinds
<1>7. x \in Sock /\ Far(e) \in End /\ Far(e) # e BY <1>3, <1>5, SockIs, EndFacts
<1>8. ms \in Seq(Message) BY <1>4, <1>5, IdTypes, OkayMsg
<1>9. wire[Far(e)] # <<>> /\ m.cmd = "WRTE" BY <1>1, <1>5 DEF Arrives
<1>10. Acts(e, ms) BY <1>1, <1>5, <1>8, <1>9 DEF Acts, Greets, Arrives
<1>11. Moves(e, ms, x, y) BY <1>1, <1>2, <1>3, <1>4, <1>9, <1>10, OneMsg DEF Moves, Is
<1>12. UNCHANGED <<list, rid, rd, pkts>> BY <1>5 DEF sockVars
<1>13. x[1] = Far(e) /\ x[2] = m.arg0 /\ y[1] = e /\ y[2] = m.arg1 BY <1>2, <1>3
<1>14. AtMostOne(x, y) BY <1>5, <1>6, <1>7 DEF CInv, Credit
<1>15. Is(m, "WRTE", m.arg0, m.arg1) BY <1>9 DEF Is
<1>16. /\ In(wire[Far(e)], "WRTE", m.arg0, m.arg1)
       /\ ~In(wire'[Far(e)], "WRTE", m.arg0, m.arg1)
  BY <1>0, <1>1, <1>5, <1>9, <1>13, <1>14, <1>15, ActsTaken DEF AtMostOne
<1>17. Data(x, y) /\ ~rd[x] /\ ~Ready(x, y)
  BY <1>13, <1>14, <1>16 DEF Data, AtMostOne
<1>18. Once(wire'[Far(e)], "WRTE", m.arg0, m.arg1)
  BY <1>0, <1>7, <1>10, <1>13, <1>14, ActsIn DEF AtMostOne
<1>19. Once(wire'[e], "OKAY", m.arg1, m.arg0)
  <2>1. Once(ms, "OKAY", m.arg1, m.arg0) BY <1>4, OneMsg
  <2>2. Once(wire[e], "OKAY", m.arg1, m.arg0) /\ ~In(wire[e], "OKAY", m.arg1, m.arg0)
    BY <1>13, <1>14, <1>17 DEF AtMostOne, Ready
  <2> QED BY <1>0, <1>10, <2>1, <2>2, ActsIn
<1>20. link = "up" => In(wire'[e], "OKAY", m.arg1, m.arg0)
  <2>1. In(ms, "OKAY", m.arg1, m.arg0) BY <1>4, OneMsg
  <2> QED BY <1>0, <1>5, <1>8, <2>1, ActsNew
<1>21. AtMostOne(x, y)'
  BY <1>5, <1>12, <1>13, <1>16, <1>17, <1>18, <1>19 DEF AtMostOne, Data, Ready
<1>22. AtLeastOne(x, y)' BY <1>5, <1>13, <1>20 DEF AtLeastOne, Data, Ready
<1> SUFFICES ASSUME NEW v \in Sock, NEW w \in Sock, Mates(v, w)
             PROVE  AtMostOne(v, w)' /\ AtLeastOne(v, w)'
  BY <1>12 DEF Credit, Mates
<1>23. CASE v = x /\ w = y BY <1>21, <1>22, <1>23
<1>24. CASE ~(v = x /\ w = y)
  BY <1>5, <1>7, <1>11, <1>12, <1>24, OtherCredit
<1> QED BY <1>23, <1>24

(* WRTE, not all written: the credit goes from the data to the queue.      *)
LEMMA QueuedCredit == ASSUME CInv, NEW e \in End, WrteQueued(e) PROVE Credit'
<1>0. TypeOK BY DEF CInv
<1>1. PICK m : m = Head(wire[Far(e)]) OBVIOUS
<1>2. PICK y : y = <<e, m.arg1>> OBVIOUS
<1>3. PICK x : x = <<Far(e), m.arg0>> OBVIOUS
<1>4. /\ Arrives(e, "WRTE") /\ Found(e, m.arg1) /\ Reply(e, <<>>) /\ y \in Sock /\ pkts'[y] # <<>>
      /\ \A t \in Sock : t # y => pkts'[t] = pkts[t]
      /\ UNCHANGED <<list, rid, rd, link>>
  BY <1>1, <1>2, QueuedIs
<1>5. m.arg0 \in Id /\ m.arg1 \in Id BY <1>1, <1>4, ArrivesFrom
<1>6. Mates(x, y) BY <1>1, <1>2, <1>3, <1>4, DataFinds
<1>7. x \in Sock /\ Far(e) \in End /\ Far(e) # e BY <1>3, <1>5, SockIs, EndFacts
<1>8. wire[Far(e)] # <<>> /\ m.cmd = "WRTE" BY <1>1, <1>4 DEF Arrives
<1>9. Acts(e, <<>>) BY <1>1, <1>4, <1>8, NoMsgs DEF Acts, Greets, Arrives
<1>10. Moves(e, <<>>, x, y) BY <1>1, <1>2, <1>3, <1>8, <1>9, NoneSent DEF Moves, Is
<1>11. x[1] = Far(e) /\ x[2] = m.arg0 /\ y[1] = e /\ y[2] = m.arg1 BY <1>2, <1>3
<1>12. AtMostOne(x, y) BY <1>4, <1>6, <1>7 DEF CInv, Credit
<1>13. Is(m, "WRTE", m.arg0, m.arg1) BY <1>8 DEF Is
<1>14. /\ In(wire[Far(e)], "WRTE", m.arg0, m.arg1)
       /\ ~In(wire'[Far(e)], "WRTE", m.arg0, m.arg1)
  BY <1>0, <1>1, <1>4, <1>8, <1>11, <1>12, <1>13, ActsTaken DEF AtMostOne
<1>15. Data(x, y) /\ ~rd[x] /\ ~Ready(x, y)
  BY <1>11, <1>12, <1>14 DEF Data, AtMostOne
<1>16. Once(wire'[Far(e)], "WRTE", m.arg0, m.arg1)
  BY <1>0, <1>7, <1>9, <1>11, <1>12, ActsIn DEF AtMostOne
<1>17. Once(wire'[e], "OKAY", m.arg1, m.arg0) /\ ~In(wire'[e], "OKAY", m.arg1, m.arg0)
  <2>1. Once(wire[e], "OKAY", m.arg1, m.arg0) /\ ~In(wire[e], "OKAY", m.arg1, m.arg0)
    BY <1>11, <1>12, <1>15 DEF AtMostOne, Ready
  <2>2. ~In(<<>>, "OKAY", m.arg1, m.arg0) /\ Once(<<>>, "OKAY", m.arg1, m.arg0) BY NoneSent
  <2> QED BY <1>0, <1>9, <2>1, <2>2, ActsIn
<1>18. AtMostOne(x, y)'
  BY <1>4, <1>11, <1>14, <1>15, <1>16, <1>17 DEF AtMostOne, Data, Ready
<1>19. AtLeastOne(x, y)' BY <1>4 DEF AtLeastOne
<1> SUFFICES ASSUME NEW v \in Sock, NEW w \in Sock, Mates(v, w)
             PROVE  AtMostOne(v, w)' /\ AtLeastOne(v, w)'
  BY <1>4 DEF Credit, Mates
<1>20. CASE v = x /\ w = y BY <1>18, <1>19, <1>20
<1>21. CASE ~(v = x /\ w = y)
  <2>1. w # y
    <3>1. Mates(y, x) BY <1>4, <1>6, <1>7, MatesAre
    <3>2. Mates(w, v) BY MatesAre
    <3> QED BY <1>4, <1>7, <1>21, <3>1, <3>2, MatesOne
  <2>2. pkts'[w] = pkts[w] BY <1>4, <2>1
  <2> QED BY <1>4, <1>7, <1>10, <1>21, <2>2, OtherCredit
<1> QED BY <1>20, <1>21

(* An OKAY makes no new mates: the device socket knew its own.             *)
LEMMA OkayMates ==
  ASSUME CInv, NEW e \in End, HandleOkay(e)
  PROVE  \A v, w \in Sock : Mates(v, w)' <=> Mates(v, w)
<1>1. \A e1 \in End : ~OpenAccepted(e1)
  <2>1. \A e1 \in End : OpenAccepted(e1) => nextId'["device"] # nextId["device"]
    <3> SUFFICES ASSUME NEW e1 \in End, OpenAccepted(e1)
                 PROVE  nextId'["device"] # nextId["device"]
      OBVIOUS
    <3>1. PICK o : o = Head(wire[Far(e1)]) OBVIOUS
    <3>2. PICK n \in Id : n = nextId["device"] BY <3>1, AcceptedIs
    <3>3. nextId'["device"] = n + 1 BY <3>1, <3>2, AcceptedIs DEF End
    <3> QED BY <3>2, <3>3, SockIs
  <2> QED BY <2>1 DEF HandleOkay
<1>2. \A j \in Id : rid'[Device(j)] = rid[Device(j)]
  <2>1. Next BY DEF Next, Handle
  <2> QED BY <1>1, <2>1, DeviceRids
<1>3. \A v \in Sock : v[1] = "device" => rid'[v] = rid[v]
  <2>1. \A v \in Sock : v[1] = "device" => v = Device(v[2]) /\ v[2] \in Id BY SockIs DEF Device
  <2> QED BY <1>2, <2>1
<1> QED BY <1>3 DEF Mates

(* OKAY: the credit goes to the reader.                                    *)
LEMMA OkayCredit == ASSUME CInv, NEW e \in End, HandleOkay(e) PROVE Credit'
<1>0. TypeOK BY DEF CInv
<1>1. PICK m : m = Head(wire[Far(e)]) OBVIOUS
<1>2. PICK x : x = <<e, m.arg1>> OBVIOUS
<1>3. PICK y : y = <<Far(e), m.arg0>> OBVIOUS
<1>4. /\ x \in Sock /\ list[x] = "local" /\ Arrives(e, "OKAY") /\ Reply(e, <<>>)
      /\ UNCHANGED <<list, pkts, link>>
  BY <1>1, <1>2, OkayIs
<1>5. \A t \in Sock : rd'[t] <=> t = x \/ rd[t] BY <1>1, <1>2, OkayIs
<1>6. \A t \in Sock : peer'[t] <=> t = x \/ peer[t] BY <1>1, <1>2, OkayIs
<1>7. \A v, w \in Sock : Mates(v, w)' <=> Mates(v, w) BY OkayMates
<1>8. m.arg0 \in Id /\ m.arg1 \in Id /\ rid[y] = m.arg1 BY <1>1, <1>3, <1>4, ArrivesFrom
<1>9. y \in Sock /\ Far(e) \in End /\ Far(e) # e BY <1>3, <1>8, SockIs, EndFacts
<1>10. Mates(x, y)
  <2>1. CASE e = "host" BY <1>2, <1>3, <1>8, <2>1 DEF Mates, Far
  <2>2. CASE e = "device"
    <3>1. x[1] = "device" BY <1>2, <2>2
    <3>2. rid[x] # 0 BY <1>4, <3>1 DEF CInv, Sockets
    <3>3. Mates(y, x) BY <1>1, <1>2, <1>3, <1>4, <3>2, ArrivesFrom
    <3> QED BY <1>4, <1>9, <3>3, MatesAre
  <2> QED BY <2>1, <2>2 DEF End
<1>11. wire[Far(e)] # <<>> /\ m.cmd = "OKAY" BY <1>1, <1>4 DEF Arrives
<1>12. Acts(e, <<>>) BY <1>1, <1>2, <1>4, <1>6, <1>11, NoMsgs DEF Acts, Greets
<1>13. Moves(e, <<>>, x, y) BY <1>1, <1>2, <1>3, <1>11, <1>12, NoneSent DEF Moves, Is
<1>14. x[1] = e /\ x[2] = m.arg1 /\ y[1] = Far(e) /\ y[2] = m.arg0 BY <1>2, <1>3
<1>15. AtMostOne(x, y) BY <1>4, <1>9, <1>10 DEF CInv, Credit
<1>16. Is(m, "OKAY", m.arg0, m.arg1) BY <1>11 DEF Is
<1>17. /\ In(wire[Far(e)], "OKAY", m.arg0, m.arg1)
       /\ ~In(wire'[Far(e)], "OKAY", m.arg0, m.arg1)
  BY <1>0, <1>1, <1>4, <1>11, <1>14, <1>15, <1>16, ActsTaken DEF AtMostOne
<1>18. ~rd[x] /\ ~Data(x, y) /\ pkts[y] = <<>>
  BY <1>14, <1>15, <1>17 DEF Ready, AtMostOne
<1>19. Once(wire'[Far(e)], "OKAY", m.arg0, m.arg1)
  BY <1>0, <1>9, <1>12, <1>14, <1>15, ActsIn DEF AtMostOne
<1>20. Once(wire'[e], "WRTE", m.arg1, m.arg0) /\ ~In(wire'[e], "WRTE", m.arg1, m.arg0)
  <2>1. Once(wire[e], "WRTE", m.arg1, m.arg0) /\ ~In(wire[e], "WRTE", m.arg1, m.arg0)
    BY <1>14, <1>15, <1>18 DEF AtMostOne, Data
  <2>2. ~In(<<>>, "WRTE", m.arg1, m.arg0) /\ Once(<<>>, "WRTE", m.arg1, m.arg0) BY NoneSent
  <2> QED BY <1>0, <1>12, <2>1, <2>2, ActsIn
<1>21. AtMostOne(x, y)'
  BY <1>4, <1>14, <1>17, <1>18, <1>19, <1>20 DEF AtMostOne, Data, Ready
<1>22. AtLeastOne(x, y)' BY <1>4, <1>5 DEF AtLeastOne
<1> SUFFICES ASSUME NEW v \in Sock, NEW w \in Sock, Mates(v, w)
             PROVE  AtMostOne(v, w)' /\ AtLeastOne(v, w)'
  BY <1>7 DEF Credit
<1>23. CASE v = x /\ w = y BY <1>21, <1>22, <1>23
<1>24. CASE ~(v = x /\ w = y)
  <2>1. v # x BY <1>4, <1>9, <1>10, <1>24, MatesOne
  <2>2. rd'[v] <=> rd[v] BY <1>5, <2>1
  <2> QED BY <1>4, <1>9, <1>13, <1>24, <2>2, OtherCredit
<1> QED BY <1>23, <1>24

(* The queue is drained: the credit goes from it to the OKAY.              *)
LEMMA DrainedCredit == ASSUME CInv, NEW y \in Sock, DrainAll(y) PROVE Credit'
<1>0. TypeOK BY DEF CInv
<1>1. PICK e \in End : e = y[1] BY SockIs
<1>2. PICK x : x = <<Far(e), rid[y]>> OBVIOUS
<1>3. PICK ms : ms = <<Msg("OKAY", y[2], rid[y], <<>>)>> OBVIOUS
<1>4. /\ pkts[y] # <<>> /\ list[y] = "local" /\ rid[y] \in Id
      /\ \A t \in Sock : pkts'[t] = IF t = y THEN <<>> ELSE pkts[t]
      /\ Send(e, ms) /\ UNCHANGED <<list, rid, rd, link>>
  BY <1>1, <1>3, AllIs
<1>5. y[2] \in Id /\ y = <<e, y[2]>> BY <1>1, SockIs
<1>6. x \in Sock /\ Far(e) \in End /\ Far(e) # e BY <1>2, <1>4, SockIs, EndFacts
<1>7. x[1] = Far(e) /\ x[2] = rid[y] BY <1>2
<1>8. Mates(x, y)
  <2>1. rid[x] = y[2] BY <1>1, <1>2, <1>4 DEF CInv, Pairs
  <2>2. CASE e = "device" BY <1>1, <1>7, <2>2 DEF Mates, Far
  <2>3. CASE e = "host" BY <1>1, <1>7, <2>1, <2>3 DEF Mates, Far
  <2> QED BY <2>2, <2>3 DEF End
<1>9. ms \in Seq(Message) BY <1>3, <1>4, <1>5, IdTypes, OkayMsg
<1>10. Acts(e, ms) BY <1>4, <1>9 DEF Acts
<1>11. AtMostOne(x, y) BY <1>6, <1>8 DEF CInv, Credit
<1>12. Moves(e, ms, x, y) BY <1>0, <1>2, <1>3, <1>4, <1>5, <1>10, SendOnly, OneMsg DEF Moves
<1>13. /\ ~rd[x] /\ ~Data(x, y) /\ ~Ready(x, y)
  BY <1>4, <1>11 DEF AtMostOne
<1>14. wire'[Far(e)] = wire[Far(e)] BY <1>0, <1>4, SendWire
<1>15. Once(wire'[e], "OKAY", y[2], rid[y])
  <2>1. Once(ms, "OKAY", y[2], rid[y]) BY <1>3, OneMsg
  <2>2. Once(wire[e], "OKAY", y[2], rid[y]) /\ ~In(wire[e], "OKAY", y[2], rid[y])
    BY <1>1, <1>7, <1>11, <1>13 DEF AtMostOne, Ready
  <2> QED BY <1>0, <1>10, <2>1, <2>2, ActsIn
<1>16. link = "up" => In(wire'[e], "OKAY", y[2], rid[y])
  <2>1. In(ms, "OKAY", y[2], rid[y]) BY <1>3, OneMsg
  <2> QED BY <1>0, <1>4, <1>9, <2>1, ActsNew
<1>17. AtMostOne(x, y)'
  BY <1>1, <1>4, <1>7, <1>11, <1>13, <1>14, <1>15 DEF AtMostOne, Data, Ready
<1>18. AtLeastOne(x, y)' BY <1>1, <1>4, <1>7, <1>16 DEF AtLeastOne, Data, Ready
<1> SUFFICES ASSUME NEW v \in Sock, NEW w \in Sock, Mates(v, w)
             PROVE  AtMostOne(v, w)' /\ AtLeastOne(v, w)'
  BY <1>4 DEF Credit, Mates
<1>19. CASE v = x /\ w = y BY <1>17, <1>18, <1>19
<1>20. CASE ~(v = x /\ w = y)
  <2>1. w # y
    <3>1. Mates(y, x) BY <1>6, <1>8, MatesAre
    <3>2. Mates(w, v) BY MatesAre
    <3> QED BY <1>6, <1>20, <3>1, <3>2, MatesOne
  <2>2. pkts'[w] = pkts[w] BY <1>4, <2>1
  <2> QED BY <1>4, <1>6, <1>12, <1>20, <2>2, OtherCredit
<1> QED BY <1>19, <1>20

(* The reader reads: its credit goes with the WRTE. What it sends behind   *)
(* that, and whether it closes, makes no difference.                       *)
LEMMA ReadCredit ==
  ASSUME CInv, NEW x \in Sock, rd[x], ~rd'[x], UNCHANGED <<rid, link>>,
         NEW ms \in Seq(Message), Send(x[1], ms),
         \A a, b \in Id : ~In(ms, "OKAY", a, b),
         \A a, b \in Id : In(ms, "WRTE", a, b) => a = x[2] /\ b = rid[x],
         Once(ms, "WRTE", x[2], rid[x]),
         list'[x] = "local" => In(ms, "WRTE", x[2], rid[x]),
         \A t \in Sock : list'[t] = "local" => list[t] = "local",
         \A t \in Sock : t # x => (rd'[t] <=> rd[t]) /\ pkts'[t] = pkts[t],
         pkts'[x] # <<>> => pkts[x] # <<>>,
         list'[x] = "local" => pkts'[x] = pkts[x]
  PROVE  Credit'
<1>0. TypeOK BY DEF CInv
<1>1. PICK e \in End : e = x[1] BY SockIs
<1>2. PICK y : y = <<Far(e), rid[x]>> OBVIOUS
<1>3. rid[x] \in Id /\ x[2] \in Id /\ x = <<e, x[2]>> BY <1>1, SockIs, ReadIs
<1>4. y \in Sock /\ Far(e) \in End /\ Far(e) # e BY <1>2, <1>3, SockIs, EndFacts
<1>5. y[1] = Far(e) /\ y[2] = rid[x] BY <1>2
<1>6. Mates(x, y)
  <2>1. CASE e = "device" BY <1>1, <1>5, <2>1 DEF Mates, Far
  <2>2. CASE e = "host"
    <3>1. x = Host(x[2]) /\ y = Device(rid[x]) BY <1>2, <1>3, <2>2 DEF Host, Device, Far
    <3>2. rid[x] # 0 BY <1>3, SockIs
    <3>3. rid[y] = x[2] BY <1>3, <3>1, <3>2 DEF CInv, Pairs
    <3> QED BY <1>1, <1>5, <2>2, <3>3 DEF Mates, Far
  <2> QED BY <2>1, <2>2 DEF End
<1>7. Acts(e, ms) BY <1>1 DEF Acts
<1>8. Moves(e, ms, x, y) BY <1>0, <1>1, <1>2, <1>3, <1>7, SendOnly DEF Moves
<1>9. AtMostOne(x, y) BY <1>4, <1>6 DEF CInv, Credit
<1>10. ~Data(x, y) /\ pkts[y] = <<>> /\ ~Ready(x, y) BY <1>9 DEF AtMostOne
<1>11. wire'[Far(e)] = wire[Far(e)] BY <1>0, <1>1, SendWire
<1>12. Once(wire'[e], "WRTE", x[2], rid[x])
  <2>1. Once(wire[e], "WRTE", x[2], rid[x]) /\ ~In(wire[e], "WRTE", x[2], rid[x])
    BY <1>1, <1>5, <1>9, <1>10 DEF AtMostOne, Data
  <2> QED BY <1>0, <1>7, <2>1, ActsIn
<1>13. list'[x] = "local" /\ link = "up" => In(wire'[e], "WRTE", x[2], rid[x])
  BY <1>0, <1>1, ActsNew
<1>14. y # x BY <1>1, <1>4, <1>5
<1>15. AtMostOne(x, y)'
  BY <1>1, <1>4, <1>5, <1>9, <1>10, <1>11, <1>12, <1>14 DEF AtMostOne, Data, Ready
<1>16. AtLeastOne(x, y)' BY <1>1, <1>5, <1>13 DEF AtLeastOne, Data, Ready
<1> SUFFICES ASSUME NEW v \in Sock, NEW w \in Sock, Mates(v, w)
             PROVE  AtMostOne(v, w)' /\ AtLeastOne(v, w)'
  BY DEF Credit, Mates
<1>17. CASE v = x /\ w = y BY <1>15, <1>16, <1>17
<1>18. CASE ~(v = x /\ w = y)
  <2>1. v # x BY <1>4, <1>6, <1>18, MatesOne
  <2>2. rd'[v] <=> rd[v] BY <2>1
  <2>3. /\ pkts'[w] # <<>> => pkts[w] # <<>>
        /\ list'[w] = "local" => pkts'[w] = pkts[w]
    <3>1. CASE w = x BY <3>1
    <3>2. CASE w # x BY <3>2
    <3> QED BY <3>1, <3>2
  <2> QED BY <1>4, <1>8, <1>18, <2>2, <2>3, OtherCredit
<1> QED BY <1>17, <1>18

LEMMA SomeCredit == ASSUME CInv, NEW x \in Sock, ReadSome(x) PROVE Credit'
<1>1. PICK data : ReadMsg(x) = Msg("WRTE", x[2], rid[x], data) BY DEF ReadMsg
<1>2. PICK ms : ms = <<ReadMsg(x)>> OBVIOUS
<1>3. /\ rd[x] /\ Send(x[1], ms) /\ UNCHANGED <<list, rid, pkts, link>>
      /\ ReadData(x) = ms
  BY <1>2, ReadSomeIs
<1>4. \A t \in Sock : rd'[t] <=> t # x /\ rd[t] BY ReadSomeIs
<1>5. ms \in Seq(Message) BY <1>3, ReadMsgType
<1>6. /\ \A a, b \in Id : ~In(ms, "OKAY", a, b)
      /\ \A a, b \in Id : In(ms, "WRTE", a, b) => a = x[2] /\ b = rid[x]
      /\ Once(ms, "WRTE", x[2], rid[x]) /\ In(ms, "WRTE", x[2], rid[x])
  BY <1>1, <1>2, OneMsg
<1> QED BY <1>3, <1>4, <1>5, <1>6, ReadCredit

LEMMA EofCredit == ASSUME CInv, NEW x \in Sock, ReadEof(x) PROVE Credit'
<1>0. TypeOK BY DEF CInv
<1>1. PICK data : ReadMsg(x) = Msg("WRTE", x[2], rid[x], data) BY DEF ReadMsg
<1>2. PICK qs : qs = ReadData(x) OBVIOUS
<1>3. PICK cs : cs = CloseMsgs(x) OBVIOUS
<1>4. PICK ms : ms = qs \o cs OBVIOUS
<1>5. rd[x] /\ Send(x[1], ms) /\ UNCHANGED link BY <1>2, <1>3, <1>4 DEF ReadEof, linkVars
<1>6. Closing({x}) BY EventCloses
<1>7. UNCHANGED rid /\ ~rd'[x] /\ list'[x] # "local" /\ (pkts'[x] # <<>> => pkts[x] # <<>>)
  BY <1>0, <1>6, ClosingIs
<1>8. \A t \in Sock : t # x => (rd'[t] <=> rd[t]) /\ pkts'[t] = pkts[t] /\ list'[t] = list[t]
  BY <1>0, <1>6, ClosingIs
<1>9. /\ qs \in Seq(Message) /\ cs \in Seq(Message) /\ ms \in Seq(Message)
      /\ qs = <<>> \/ qs = <<ReadMsg(x)>>
  BY <1>2, <1>3, <1>4, <1>5, ReadMsgType
<1>10. Plain(cs) BY <1>3, PlainMsgs
<1>11. ASSUME NEW cmd \in {"OKAY", "WRTE"}, NEW a, NEW b
       PROVE  /\ In(ms, cmd, a, b) => cmd = "WRTE" /\ a = x[2] /\ b = rid[x]
              /\ Once(ms, cmd, a, b)
  <2>1. ~In(cs, cmd, a, b) /\ Once(cs, cmd, a, b) BY <1>10, PlainIn
  <2>2. /\ In(qs, cmd, a, b) => cmd = "WRTE" /\ a = x[2] /\ b = rid[x]
        /\ Once(qs, cmd, a, b)
    <3>1. CASE qs = <<>> BY <3>1, NoneSent
    <3>2. CASE qs = <<ReadMsg(x)>> BY <1>1, <3>2, OneMsg
    <3> QED BY <1>9, <3>1, <3>2
  <2>3. qs \in Seq(Message) /\ cs \in Seq(Message) BY <1>9
  <2> QED BY <1>4, <2>1, <2>2, <2>3, ConcatIn
<1> QED BY <1>5, <1>7, <1>8, <1>9, <1>11, ReadCredit

(* OPEN: the device socket may read, and its OKAY lets the host read.      *)
LEMMA AcceptedCredit == ASSUME CInv, NEW e \in End, OpenAccepted(e) PROVE Credit'
<1>0. TypeOK BY DEF CInv
<1>1. PICK m : m = Head(wire[Far(e)]) OBVIOUS
<1>2. PICK n \in Id : n = nextId["device"] BY <1>1, AcceptedIs
<1>3. PICK d : d = Device(n) OBVIOUS
<1>4. PICK h : h = Host(m.arg0) OBVIOUS
<1>5. PICK ms : ms = <<Msg("OKAY", n, m.arg0, <<>>)>> OBVIOUS
<1>6. /\ e = "device" /\ Far(e) = "host" /\ Arrives(e, "OPEN") /\ m.cmd = "OPEN"
      /\ m.arg0 \in Id /\ d \in Sock /\ list[d] = "none" /\ rid[d] = 0
      /\ UNCHANGED <<pkts, link>>
  BY <1>1, <1>2, <1>3, AcceptedIs
<1>7. \A j \in Id : rid[Device(j)] # m.arg0 BY <1>1, AcceptedIs
<1>8. Reply(e, ms) BY <1>1, <1>2, <1>5, AcceptedIs
<1>9. \A t \in Sock : list'[t] = IF t = d THEN "local" ELSE list[t]
  BY <1>1, <1>2, <1>3, AcceptedSocks
<1>10. \A t \in Sock : rid'[t] = IF t = d THEN m.arg0 ELSE rid[t]
  BY <1>1, <1>2, <1>3, AcceptedSocks
<1>11. \A t \in Sock : rd'[t] <=> t = d \/ rd[t]
  BY <1>1, <1>2, <1>3, AcceptedSocks
<1>12. /\ d = <<"device", n>> /\ d[1] = "device" /\ d[2] = n /\ h \in Sock
       /\ h = <<"host", m.arg0>> /\ h[1] = "host" /\ h[2] = m.arg0 /\ h # d
  BY <1>3, <1>4, <1>6, SockIs DEF Host, Device
<1>13. ms \in Seq(Message) BY <1>5, <1>6, IdTypes, OkayMsg
<1>14. wire[Far(e)] # <<>> BY <1>6 DEF Arrives
<1>15. Acts(e, ms) BY <1>1, <1>6, <1>8, <1>13, <1>14 DEF Acts, Greets, Arrives
<1>16. Far("device") = "host" /\ "device" \in End /\ "host" \in End BY DEF Far, End
<1>17. Moves(e, ms, h, d)
  BY <1>1, <1>5, <1>6, <1>12, <1>15, OneMsg DEF Moves, Is
(* Nothing of the new pair was there before.                               *)
<1>18. rid[h] = 0
  <2> SUFFICES ASSUME rid[h] # 0 PROVE FALSE OBVIOUS
  <2>1. rid[h] \in Id BY <1>0, <1>12 DEF TypeOK, Id
  <2>2. rid[Device(rid[h])] = m.arg0 BY <1>4, <1>6 DEF CInv, Pairs
  <2> QED BY <1>7, <2>1, <2>2
<1>19. ~rd[h] /\ pkts[h] = <<>> /\ ~rd[d] /\ pkts[d] = <<>>
  BY <1>6, <1>12, <1>18 DEF CInv, Sockets
<1>20. ASSUME NEW f \in End, NEW cmd \in {"OKAY", "WRTE"}, NEW a \in Id, NEW b \in Id,
              rid[<<f, a>>] = 0
       PROVE  ~In(wire[f], cmd, a, b)
  <2> SUFFICES ASSUME NEW k \in 1..Len(wire[f]), Is(wire[f][k], cmd, a, b) PROVE FALSE
    BY DEF In
  <2>1. Routed(f, wire[f][k]) BY DEF CInv, Wires
  <2>2. rid[<<f, a>>] = b BY <2>1 DEF Routed, Is
  <2> QED BY <1>20, <2>2, SockIs
<1>21. /\ ~In(wire["device"], "OKAY", n, m.arg0) /\ ~In(wire["device"], "WRTE", n, m.arg0)
       /\ ~In(wire["host"], "OKAY", m.arg0, n) /\ ~In(wire["host"], "WRTE", m.arg0, n)
  BY <1>6, <1>12, <1>16, <1>18, <1>20
<1>22. /\ In(ms, "OKAY", n, m.arg0) /\ Once(ms, "OKAY", n, m.arg0)
       /\ ~In(ms, "WRTE", n, m.arg0) /\ Once(ms, "WRTE", n, m.arg0)
  BY <1>5, OneMsg
<1>23. \A q, cmd, a, b : ~In(q, cmd, a, b) => Once(q, cmd, a, b) BY DEF In, Once
<1>24. Once(wire'["device"], "OKAY", n, m.arg0)
  BY <1>0, <1>6, <1>15, <1>16, <1>21, <1>22, <1>23, ActsIn
<1>25. link = "up" => In(wire'["device"], "OKAY", n, m.arg0)
  BY <1>0, <1>6, <1>8, <1>13, <1>22, ActsNew
<1>26. ~In(wire'["device"], "WRTE", n, m.arg0)
  BY <1>0, <1>6, <1>15, <1>16, <1>21, <1>22, ActsIn
<1>27. ~In(wire'["host"], "OKAY", m.arg0, n) /\ ~In(wire'["host"], "WRTE", m.arg0, n)
  BY <1>0, <1>6, <1>15, <1>16, <1>21, ActsIn
<1>28. rd'[d] /\ ~rd'[h] /\ pkts'[h] = <<>> /\ pkts'[d] = <<>>
  BY <1>6, <1>11, <1>12, <1>19
<1>29. AtMostOne(h, d)'
  BY <1>12, <1>23, <1>24, <1>27, <1>28 DEF AtMostOne, Data, Ready
<1>30. AtLeastOne(h, d)' BY <1>6, <1>12, <1>25 DEF AtLeastOne, Ready
<1>31. AtMostOne(d, h)'
  BY <1>12, <1>23, <1>26, <1>27, <1>28 DEF AtMostOne, Data, Ready
<1>32. AtLeastOne(d, h)' BY <1>28 DEF AtLeastOne
<1> SUFFICES ASSUME NEW v \in Sock, NEW w \in Sock, Mates(v, w)'
             PROVE  AtMostOne(v, w)' /\ AtLeastOne(v, w)'
  BY DEF Credit
<1>33. CASE v = d
  <2>1. w[1] = "host" /\ w[2] = m.arg0 BY <1>10, <1>12, <1>33 DEF Mates
  <2>2. w = h BY <1>12, <2>1, SockIs
  <2> QED BY <1>31, <1>32, <1>33, <2>2
<1>34. CASE w = d
  <2>1. v[1] = "host" /\ v[2] = m.arg0 BY <1>10, <1>12, <1>34 DEF Mates
  <2>2. v = h BY <1>12, <2>1, SockIs
  <2> QED BY <1>29, <1>30, <1>34, <2>2
<1>35. CASE v # d /\ w # d
  <2>1. Mates(v, w) BY <1>10, <1>35 DEF Mates
  <2>2. /\ list'[v] = list[v] /\ list'[w] = list[w] /\ (rd'[v] <=> rd[v]) /\ pkts'[w] = pkts[w]
    BY <1>6, <1>9, <1>11, <1>35
  <2>3. e \in End /\ h \in Sock /\ d \in Sock BY <1>6, <1>12
  <2> QED BY <1>17, <1>35, <2>1, <2>2, <2>3, OtherCredit
<1> QED BY <1>33, <1>34, <1>35

LEMMA CreditNext == ASSUME CInv, Next PROVE Credit'
BY CalmSteps, CalmCredit, WrittenCredit, QueuedCredit, OkayCredit, AcceptedCredit,
   DrainedCredit, SomeCredit, EofCredit

LEMMA Stutters == ASSUME CInv, UNCHANGED vars PROVE CInv'
<1>1. UNCHANGED <<online, nextId, list, peer, rid, pkts, rd, wr, wire, link, sweep>>
  BY DEF vars, sockVars, linkVars
<1>2. TypeOK' BY NextType DEF CInv
<1>3. Ids' /\ Sockets' /\ Session' BY <1>1 DEF CInv, Ids, Sockets, Session
<1>4. Wires' /\ OpensOnce' BY <1>1 DEF CInv, Wires, Routed, Opening, OpensOnce
<1>5. Pairs' /\ AllEarly' BY <1>1 DEF CInv, Pairs, AllEarly, Early
<1>6. Credit' BY <1>1 DEF CInv, Credit, Mates, AtMostOne, AtLeastOne, Data, Ready
<1> QED BY <1>2, <1>3, <1>4, <1>5, <1>6 DEF CInv

LEMMA CInvNext == ASSUME CInv, Next PROVE CInv'
<1>1. TypeOK' BY NextType DEF CInv
<1> QED
  BY <1>1, IdsNext, SocketsNext, SessionNext, WiresNext, OpensOnceNext, PairsNext, EarlyNext,
     CreditNext
  DEF CInv

LEMMA CreditInvariant == Spec => []CInv
<1>1. CInv /\ [Next]_vars => CInv' BY CInvNext, Stutters
<1> QED BY InitHolds, <1>1, PTL DEF Spec

-----------------------------------------------------------------------------
(* What the properties count.                                              *)

LEMMA CountsOnce ==
  ASSUME TypeOK, NEW e \in End, NEW cmd, NEW a, NEW b, Once(wire[e], cmd, a, b)
  PROVE  Cardinality(InFlight(e, cmd, a, b)) = IF In(wire[e], cmd, a, b) THEN 1 ELSE 0
<1> DEFINE S == InFlight(e, cmd, a, b)
<1>1. DOMAIN wire[e] = 1..Len(wire[e])
  <2>1. wire[e] \in Seq(Message) BY DEF TypeOK
  <2> QED BY <2>1, LenProperties
<1>2. S = {k \in 1..Len(wire[e]) : Is(wire[e][k], cmd, a, b)} BY <1>1 DEF InFlight, Is
<1> HIDE DEF S
<1>3. CASE In(wire[e], cmd, a, b)
  <2>1. PICK k \in 1..Len(wire[e]) : Is(wire[e][k], cmd, a, b) BY <1>3 DEF In
  <2>2. S = {k} BY <1>2, <2>1 DEF Once
  <2>3. Cardinality({k}) = 1 BY FS_Singleton
  <2> QED BY <1>3, <2>2, <2>3 DEF S
<1>4. CASE ~In(wire[e], cmd, a, b)
  <2>1. S = {} BY <1>2, <1>4 DEF In
  <2>2. Cardinality({}) = 0 BY FS_EmptySet
  <2> QED BY <1>4, <2>1, <2>2 DEF S
<1> QED BY <1>3, <1>4

LEMMA CInvCredit == CInv => CreditKept
<1> SUFFICES ASSUME CInv PROVE CreditKept OBVIOUS
<1>1. DrainHasPeer
  <2>1. \A s \in Sock : list[s] = "local" /\ wr[s] => rid[s] # 0 BY DEF CInv, Sockets
  <2>2. \A s \in Sock : list[s] = "local" /\ ~peer[s] => rid[s] = 0 BY DEF CInv, Sockets
  <2> QED BY <2>1, <2>2 DEF DrainHasPeer
<1>2. ASSUME NEW x \in Sock, NEW y \in Sock, Joined(x, y)
      PROVE  Credits(x, y) <= 1 /\ (link = "up" => Credits(x, y) >= 1)
  <2>1. Mates(x, y) /\ list[x] = "local" /\ list[y] = "local"
    BY <1>2, SockIs DEF Joined, Mates, End
  <2>2. AtMostOne(x, y) /\ AtLeastOne(x, y) BY <2>1 DEF CInv, Credit
  <2>3. x[1] \in End /\ y[1] \in End /\ TypeOK BY SockIs DEF CInv
  <2>4. Cardinality(InFlight(x[1], "WRTE", x[2], y[2])) = IF Data(x, y) THEN 1 ELSE 0
    BY <2>2, <2>3, CountsOnce DEF AtMostOne, Data
  <2>5. Cardinality(InFlight(y[1], "OKAY", y[2], x[2])) = IF Ready(x, y) THEN 1 ELSE 0
    BY <2>2, <2>3, CountsOnce DEF AtMostOne, Ready
  <2>6. Credits(x, y) = (IF rd[x] THEN 1 ELSE 0) + (IF Data(x, y) THEN 1 ELSE 0)
                          + (IF pkts[y] # <<>> THEN 1 ELSE 0) + (IF Ready(x, y) THEN 1 ELSE 0)
    BY <2>4, <2>5 DEF Credits
  <2>7. /\ rd[x] => ~Data(x, y) /\ pkts[y] = <<>> /\ ~Ready(x, y)
        /\ Data(x, y) => pkts[y] = <<>> /\ ~Ready(x, y)
        /\ pkts[y] # <<>> => ~Ready(x, y)
    BY <2>2 DEF AtMostOne
  <2>8. link = "up" => rd[x] \/ Data(x, y) \/ pkts[y] # <<>> \/ Ready(x, y)
    BY <2>1, <2>2 DEF AtLeastOne
  <2> QED BY <2>6, <2>7, <2>8
<1> QED BY <1>1, <1>2 DEF CreditKept, NoExtraCredit, NoLostCredit

(* For any number of sockets, clients and reconnections: the permission to *)
(* send, which handle_packet, local_socket_enqueue and                     *)
(* local_socket_event_func hand to and fro, exists exactly once in each    *)
(* direction of an open stream while the cable holds, and at most once     *)
(* after; and a drained socket has the peer it makes ready.                *)
THEOREM CreditsKept == Spec => []CreditKept
BY CreditInvariant, CInvCredit, PTL

(* An OKAY or WRTE that finds its socket open and connected was sent by    *)
(* the socket it is connected to: find_local_socket never gives            *)
(* handle_packet the socket of another stream, nor of one before a         *)
(* reconnection.                                                           *)
THEOREM NeverStrangers == Spec => []NoStrangers
<1>1. ASSUME CInv PROVE NoStrangers
  <2> SUFFICES ASSUME NEW e \in End, NEW k \in DOMAIN wire[e],
                      wire[e][k].cmd \in {"OKAY", "WRTE"},
                      Found(Far(e), wire[e][k].arg1), peer[<<Far(e), wire[e][k].arg1>>]
               PROVE  rid[<<Far(e), wire[e][k].arg1>>] = wire[e][k].arg0
    BY DEF NoStrangers
  <2>1. PICK m : m = wire[e][k] OBVIOUS
  <2>2. PICK s : s = <<Far(e), m.arg1>> OBVIOUS
  <2>3. k \in 1..Len(wire[e])
    <3>1. wire[e] \in Seq(Message) BY <1>1 DEF CInv, TypeOK
    <3> QED BY <3>1, LenProperties
  <2>4. m.arg0 \in Id /\ m.arg1 \in Id /\ rid[<<e, m.arg0>>] = m.arg1
    BY <1>1, <2>1, <2>3 DEF CInv, Wires, Routed
  <2>5. PICK o : o = <<e, m.arg0>> OBVIOUS
  <2>6. /\ Far(e) \in End /\ s \in Sock /\ o \in Sock /\ s[1] = Far(e) /\ s[2] = m.arg1
        /\ o[1] = e /\ o[2] = m.arg0
    BY <2>2, <2>4, <2>5, SockIs, EndFacts
  <2>7. rid[s] # 0 /\ rid[o] = s[2] BY <1>1, <2>1, <2>2, <2>4, <2>5, <2>6 DEF CInv, Sockets
  <2>8. CASE e = "device"
    <3>1. s = Host(m.arg1) /\ o = Device(m.arg0) BY <2>2, <2>5, <2>8 DEF Far, Host, Device
    <3>2. rid[Device(rid[s])] = m.arg1 BY <1>1, <2>4, <2>7, <3>1 DEF CInv, Pairs
    <3>3. rid[s] \in Id
      <4>1. rid[s] \in 0..MaxId BY <1>1, <2>6 DEF CInv, TypeOK
      <4> QED BY <2>7, <4>1, StreamAssumption DEF Id
    <3>4. m.arg1 # 0 BY <2>4, SockIs
    <3>5. rid[s] = m.arg0
      BY <1>1, <2>4, <2>5, <2>7, <2>6, <3>1, <3>2, <3>3, <3>4 DEF CInv, Pairs
    <3> QED BY <2>1, <2>2, <3>5
  <2>9. CASE e = "host"
    <3>1. s = Device(m.arg1) /\ o = Host(m.arg0) BY <2>2, <2>5, <2>9 DEF Far, Host, Device
    <3>2. rid[Host(m.arg0)] # 0 /\ rid[Host(m.arg0)] = m.arg1 BY <2>4, <2>5, <3>1, SockIs
    <3>3. rid[Device(m.arg1)] = m.arg0 BY <1>1, <2>4, <3>2 DEF CInv, Pairs
    <3> QED BY <2>1, <2>2, <3>1, <3>3
  <2> QED BY <2>8, <2>9 DEF End
<1> QED BY CreditInvariant, <1>1, PTL
=============================================================================
