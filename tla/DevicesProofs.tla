---------------------------- MODULE DevicesProofs -----------------------------
(***************************************************************************)
(* Theorems about MCDevices, for any device files, interfaces, handles,    *)
(* files, plans and trees: the types, that no backend uses what it has     *)
(* freed, that only devices that are gone are kicked, that a write is      *)
(* reported as complete only when the device took it, that a copy is whole *)
(* and that the list of what is copied is right.                           *)
(*                                                                         *)
(* Linux: that ref[h] is exact (Counts) is what keeps the handle for the   *)
(* io threads; that the poll thread keeps usb_lock from the list of        *)
(* handles it takes to the end of its walk is what keeps it there for it   *)
(* (Walks).  What a scan has passed and found is marked until it ends      *)
(* (Marked).  Windows (WinIs) and OS X (OsxIs) follow it.                  *)
(*                                                                         *)
(* The file service: what the stream holds follows from what the service   *)
(* is doing and what the command awaits (SyncIs), within the room there is *)
(* (Roomy).  The lists: a file is listed, or a call under way waits for    *)
(* it (ListIs).                                                            *)
(***************************************************************************)
EXTENDS MCDevices, Sequences, FiniteSetTheorems, TLAPS

One(b) == IF b THEN 1 ELSE 0

(* An io thread has its reference until it drops it.                       *)
Holds(pc) == pc \notin {"off", "close", "over"}

Count(h) ==
  /\ ref[h] = One(Holds(reader[h])) + One(Holds(writer[h]))
  /\ reader[h] = "off" <=> writer[h] = "off"
  /\ reader[h] = "close" => writer[h] = "over"
  /\ writer[h] = "close" => reader[h] = "over"
  /\ transport[h] \in {"none", "queued"} => reader[h] = "off"
  /\ handle[h] = "none" => transport[h] = "none"
  /\ handle[h] = "freed" => reader[h] = "over" /\ writer[h] = "over"
Counts == \A h \in Handle : Count(h)

Walks == poll = "kick" => \A h \in todo : Open(h)

Marked ==
  /\ poll = "scan" =>
       \A h \in Handle :
         Open(h) /\ Here(h) /\ node[h] \notin todo /\ node[h] \notin skipped => h \in mark
  /\ poll = "kick" => \A h \in todo : Here(h) /\ node[h] \notin skipped => h \in mark

(* A transfer counts for a write once: when its urb is done or after.      *)
Paid == \A h \in Handle : wrote[h] + One(urbOut[h] = "done") <= out[h] + unsure[h]

IInv == TypeOK /\ Counts /\ Walks /\ Marked /\ Paid

LEMMA HandlesAre == Handle \subseteq Nat
BY UsbAssumption DEF Handle

LEMMA InitHolds == ASSUME Init PROVE IInv
<1>1. TypeOK
  <2>1. Free \in {Free} \cup ({"reader", "writer"} \X Handle) OBVIOUS
  <2>2. out \in [Handle -> 0..MaxTransfers] /\ wrote \in [Handle -> Nat]
        /\ ref \in [Handle -> 0..2] /\ unsure \in [Handle -> Nat]
    BY UsbAssumption DEF Init
  <2> QED BY <2>1, <2>2 DEF Init, TypeOK
<1>2. Counts BY DEF Init, Counts, Count, Holds, One
<1>3. Walks /\ Marked BY DEF Init, Walks, Marked, Open
<1>4. Paid BY DEF Init, Paid, One
<1> QED BY <1>1, <1>2, <1>3, <1>4 DEF IInv

(* A thread that drops a reference has one.                                *)
LEMMA UnrefHas ==
  ASSUME IInv, NEW h \in Handle, reader[h] = "unref" \/ writer[h] = "unref"
  PROVE  ref[h] \in {1, 2}
<1>1. ref[h] \in {0, 1, 2} BY DEF IInv, TypeOK
<1>2. ref[h] = One(Holds(reader[h])) + One(Holds(writer[h])) BY DEF IInv, Counts, Count
<1> QED BY <1>1, <1>2 DEF Holds, One

LEMMA TypeNext == ASSUME IInv, Next PROVE TypeOK'
<1> USE DEF deviceVars, handleVars, urbVars, transportVars, pollVars, writeVars
<1>0. TypeOK /\ MaxTransfers \in Nat BY UsbAssumption DEF IInv
<1>1. ASSUME NEW n \in Node, Plug(n) \/ Unplug(n) PROVE TypeOK'
  BY <1>0, <1>1 DEF Plug, Unplug, TypeOK
<1>2. ASSUME NEW n \in Node, Scan(n) PROVE TypeOK'
  <2>1. /\ node' \in [Handle -> Node \cup {NoNode}]
        /\ handle' \in [Handle -> {"none", "open", "freed"}]
        /\ transport' \in [Handle -> {"none", "queued", "listed", "unlisted"}]
    BY <1>0, <1>2 DEF Scan, Skips, Looks, Register, TypeOK
  <2>2. mark' \subseteq Handle
    BY <1>0, <1>2
    DEF Scan, Skips, Looks, Register, RegisteredMarks, Known, OpenHandles, TypeOK
  <2>3. poll' = "scan" /\ todo' \subseteq Node BY <1>0, <1>2 DEF Scan, TypeOK
  <2>4. skipped' \subseteq Node BY <1>0, <1>2 DEF Scan, Skips, Looks, TypeOK
  <2> QED BY <1>0, <1>2, <2>1, <2>2, <2>3, <2>4 DEF Scan, TypeOK
<1>3. CASE KickStart \/ KickEnd
  BY <1>0, <1>3 DEF KickStart, KickEnd, OpenHandles, TypeOK
<1>4. ASSUME NEW h \in Handle, Kicks(h)
      PROVE  /\ dead' \subseteq Handle /\ busy' \subseteq Handle
             /\ urbIn' \in [Handle -> {"idle", "pending", "done", "failed"}]
             /\ urbOut' \in [Handle -> {"idle", "pending", "done", "failed"}]
             /\ transport' \in [Handle -> {"none", "queued", "listed", "unlisted"}]
  BY <1>0, <1>4 DEF Kicks, Cancelled, TypeOK
<1>5. ASSUME NEW h \in Handle, KickOne(h) PROVE TypeOK'
  <2>1. poll' = "kick" /\ todo' \subseteq Handle /\ mark' \subseteq Handle
    BY <1>0, <1>5 DEF KickOne, TypeOK
  <2>2. CASE h \in mark BY <1>0, <1>5, <2>1, <2>2 DEF KickOne, TypeOK
  <2>3. CASE h \notin mark BY <1>0, <1>4, <1>5, <2>1, <2>3 DEF KickOne, TypeOK
  <2> QED BY <2>2, <2>3
<1>6. ASSUME NEW h \in Handle, Deliver(h) \/ Accept(h) \/ Fail(h) PROVE TypeOK'
  <2>1. CASE Accept(h)
    <3>1. out' \in [Handle -> 0..MaxTransfers] BY <1>0, <2>1 DEF Accept, TypeOK
    <3> QED BY <1>0, <2>1, <3>1 DEF Accept, TypeOK
  <2>2. CASE Deliver(h) \/ Fail(h) BY <1>0, <2>2 DEF Deliver, Fail, TypeOK
  <2> QED BY <1>6, <2>1, <2>2
<1>7. ASSUME NEW h \in Handle, Loop(h) PROVE TypeOK'
  <2>1. CASE AddTransport(h)
    BY <1>0, <2>1 DEF AddTransport, References, ReaderTo, WriterTo, TypeOK
  <2>2. CASE RemoveTransport(h)
    <3>1. /\ out' \in [Handle -> 0..MaxTransfers] /\ wrote' \in [Handle -> Nat]
          /\ unsure' \in [Handle -> Nat]
      BY <1>0, <2>2 DEF RemoveTransport, TypeOK
    <3>2. UNCHANGED <<poll, todo, skipped, listLock, ref>> BY <2>2 DEF RemoveTransport
    <3>3. /\ mark' \subseteq Handle /\ dead' \subseteq Handle /\ busy' \subseteq Handle
          /\ kicked' \subseteq Handle /\ offline' \subseteq Handle
      BY <1>0, <2>2 DEF RemoveTransport, TypeOK
    <3> QED BY <1>0, <2>2, <3>1, <3>2, <3>3
        DEF RemoveTransport, ReaderTo, WriterTo, TypeOK
  <2> QED BY <1>7, <2>1, <2>2 DEF Loop
<1>8. ASSUME NEW h \in Handle, SubmitIn(h) \/ Reap(h) \/ Reaped(h) \/ PostOffline(h)
      PROVE  TypeOK'
  BY <1>0, <1>8 DEF SubmitIn, Reap, Reaped, PostOffline, ReaderTo, TypeOK, EndPc
<1>9. ASSUME NEW h \in Handle, ReaderEnds(h) PROVE TypeOK'
  <2>1. CASE TestKicked(h, reader) BY <1>0, <1>9, <2>1 DEF ReaderEnds, TestKicked, TypeOK, EndPc
  <2>2. CASE UsbKick(h, reader)
    BY <1>0, <1>4, <1>9, <2>2 DEF ReaderEnds, UsbKick, TypeOK, EndPc
  <2>3. CASE Unref(h, reader, <<"reader", h>>)
    <3>1. ref[h] \in {1, 2} BY <2>3, UnrefHas DEF Unref
    <3>2. ref' \in [Handle -> 0..2] BY <1>0, <2>3, <3>1 DEF Unref, TypeOK
    <3>3. listLock' \in {Free} \cup ({"reader", "writer"} \X Handle)
      BY <1>0, <2>3 DEF Unref, TypeOK
    <3> QED BY <1>0, <1>9, <2>3, <3>2, <3>3 DEF ReaderEnds, Unref, TypeOK, EndPc
  <2>4. CASE UsbClose(h, reader) BY <1>0, <1>9, <2>4 DEF ReaderEnds, UsbClose, TypeOK, EndPc
  <2> QED BY <1>9, <2>1, <2>2, <2>3, <2>4 DEF ReaderEnds
<1>10. ASSUME NEW h \in Handle, WriterEnds(h) PROVE TypeOK'
  <2>1. CASE TestKicked(h, writer) BY <1>0, <1>10, <2>1 DEF WriterEnds, TestKicked, TypeOK, EndPc
  <2>2. CASE UsbKick(h, writer)
    BY <1>0, <1>4, <1>10, <2>2 DEF WriterEnds, UsbKick, TypeOK, EndPc
  <2>3. CASE Unref(h, writer, <<"writer", h>>)
    <3>1. ref[h] \in {1, 2} BY <2>3, UnrefHas DEF Unref
    <3>2. ref' \in [Handle -> 0..2] BY <1>0, <2>3, <3>1 DEF Unref, TypeOK
    <3>3. listLock' \in {Free} \cup ({"reader", "writer"} \X Handle)
      BY <1>0, <2>3 DEF Unref, TypeOK
    <3> QED BY <1>0, <1>10, <2>3, <3>2, <3>3 DEF WriterEnds, Unref, TypeOK, EndPc
  <2>4. CASE UsbClose(h, writer) BY <1>0, <1>10, <2>4 DEF WriterEnds, UsbClose, TypeOK, EndPc
  <2> QED BY <1>10, <2>1, <2>2, <2>3, <2>4 DEF WriterEnds
<1>11. ASSUME NEW h \in Handle, SubmitOut(h) \/ WriteEnds(h) \/ SeeOffline(h)
       PROVE  TypeOK'
  <2>1. /\ wrote' \in [Handle -> Nat] /\ unsure' \in [Handle -> Nat]
    BY <1>0, <1>11 DEF SubmitOut, WriteEnds, Reported, TimedOut, SeeOffline, TypeOK
  <2> QED BY <1>0, <1>11, <2>1 DEF SubmitOut, WriteEnds, SeeOffline, WriterTo, TypeOK, EndPc
<1> QED BY <1>1, <1>2, <1>3, <1>5, <1>6, <1>7, <1>8, <1>9, <1>10, <1>11
    DEF Next, Polls, Reads

-----------------------------------------------------------------------------
(* The references.                                                         *)

(* What the references are about is left as it is, but for threads that    *)
(* keep theirs, and handles that are no transport's yet.                   *)
LEMMA CountsFrame ==
  ASSUME TypeOK, Counts, UNCHANGED <<ref, handle>>,
         \A h \in Handle :
           /\ \/ reader'[h] = reader[h]
              \/ Holds(reader[h]) /\ Holds(reader'[h])
           /\ \/ writer'[h] = writer[h]
              \/ Holds(writer[h]) /\ Holds(writer'[h])
           /\ \/ transport'[h] = transport[h]
              \/ transport[h] \notin {"none", "queued"} /\ transport'[h] \notin {"none", "queued"}
  PROVE  Counts'
BY DEF Counts, Count, Holds, One, TypeOK

(* The last reference takes the thread to usb_close, any other to its end. *)
LEMMA CountsUnref ==
  ASSUME IInv, NEW h \in Handle, 
         \/ Unref(h, reader, <<"reader", h>>) /\ UNCHANGED writer
         \/ Unref(h, writer, <<"writer", h>>) /\ UNCHANGED reader
  PROVE  Counts'
<1>1. /\ TypeOK /\ \A g \in Handle : Count(g) BY DEF IInv, Counts
<1>2. UNCHANGED <<handle, transport>> BY DEF Unref, handleVars
<1>3. \A g \in Handle : ref'[g] = IF g = h THEN ref[h] - 1 ELSE ref[g]
  BY <1>1 DEF Unref, TypeOK
<1>4. ref[h] \in {1, 2} BY UnrefHas DEF Unref
<1>5. CASE Unref(h, reader, <<"reader", h>>) /\ UNCHANGED writer
  <2>1. /\ reader[h] = "unref" /\ UNCHANGED writer
        /\ \A g \in Handle : reader'[g] = IF g = h
                               THEN (IF ref[h] = 1 THEN "close" ELSE "over")
                               ELSE reader[g]
    BY <1>1, <1>5 DEF Unref, LastRef, TypeOK
  <2> QED BY <1>1, <1>2, <1>3, <1>4, <2>1 DEF Counts, Count, Holds, One
<1>6. CASE Unref(h, writer, <<"writer", h>>) /\ UNCHANGED reader
  <2>1. /\ writer[h] = "unref" /\ UNCHANGED reader
        /\ \A g \in Handle : writer'[g] = IF g = h
                               THEN (IF ref[h] = 1 THEN "close" ELSE "over")
                               ELSE writer[g]
    BY <1>1, <1>6 DEF Unref, LastRef, TypeOK
  <2> QED BY <1>1, <1>2, <1>3, <1>4, <2>1 DEF Counts, Count, Holds, One
<1> QED BY <1>5, <1>6

LEMMA CountsClose ==
  ASSUME IInv, NEW h \in Handle,
         \/ UsbClose(h, reader) /\ UNCHANGED writer
         \/ UsbClose(h, writer) /\ UNCHANGED reader
  PROVE  Counts'
<1>1. /\ TypeOK /\ \A g \in Handle : Count(g) BY DEF IInv, Counts
<1>2. UNCHANGED <<ref, transport>> BY DEF UsbClose, transportVars
<1>3. \A g \in Handle : handle'[g] = IF g = h THEN "freed" ELSE handle[g]
  BY <1>1 DEF UsbClose, TypeOK
<1>4. CASE UsbClose(h, reader) /\ UNCHANGED writer
  <2>1. /\ reader[h] = "close" /\ UNCHANGED writer
        /\ \A g \in Handle : reader'[g] = IF g = h THEN "over" ELSE reader[g]
    BY <1>1, <1>4 DEF UsbClose, TypeOK
  <2> QED BY <1>1, <1>2, <1>3, <2>1 DEF Counts, Count, Holds, One
<1>5. CASE UsbClose(h, writer) /\ UNCHANGED reader
  <2>1. /\ writer[h] = "close" /\ UNCHANGED reader
        /\ \A g \in Handle : writer'[g] = IF g = h THEN "over" ELSE writer[g]
    BY <1>1, <1>5 DEF UsbClose, TypeOK
  <2> QED BY <1>1, <1>2, <1>3, <2>1 DEF Counts, Count, Holds, One
<1> QED BY <1>4, <1>5

LEMMA CountsNext == ASSUME IInv, Next PROVE Counts'
<1> USE DEF deviceVars, handleVars, urbVars, transportVars, pollVars, writeVars
<1>0. TypeOK /\ Counts /\ \A g \in Handle : Count(g) BY DEF IInv, Counts
<1>1. ASSUME NEW n \in Node, Plug(n) \/ Unplug(n) PROVE Counts'
  BY <1>0, <1>1, CountsFrame DEF Plug, Unplug
<1>2. ASSUME NEW n \in Node, Scan(n) PROVE Counts'
  <2>1. UNCHANGED <<ref, reader, writer>> BY <1>2 DEF Scan
  <2>2. CASE UNCHANGED <<handle, transport>>
    BY <1>0, <2>1, <2>2, CountsFrame
  <2>3. ASSUME NEW h \in Handle, Register(n, h) PROVE Counts'
    <3>1. /\ handle[h] = "none"
          /\ \A g \in Handle : /\ handle'[g] = IF g = h THEN "open" ELSE handle[g]
                               /\ transport'[g] = IF g = h THEN "queued" ELSE transport[g]
      BY <1>0, <2>3 DEF Register, TypeOK
    <3> QED BY <1>0, <2>1, <3>1 DEF Counts, Count
  <2> QED BY <1>2, <2>2, <2>3 DEF Scan, Skips, Looks
<1>3. CASE KickStart \/ KickEnd BY <1>0, <1>3, CountsFrame DEF KickStart, KickEnd
<1>4. ASSUME NEW h \in Handle, Kicks(h)
      PROVE  \A g \in Handle :
               \/ transport'[g] = transport[g]
               \/ /\ transport[g] \notin {"none", "queued"}
                  /\ transport'[g] \notin {"none", "queued"}
  BY <1>0, <1>4 DEF Kicks, TypeOK
<1>5. ASSUME NEW h \in Handle, KickOne(h) PROVE Counts'
  BY <1>0, <1>4, <1>5, CountsFrame DEF KickOne
<1>6. ASSUME NEW h \in Handle, Deliver(h) \/ Accept(h) \/ Fail(h) PROVE Counts'
  BY <1>0, <1>6, CountsFrame DEF Deliver, Accept, Fail
<1>7. ASSUME NEW h \in Handle, AddTransport(h) PROVE Counts'
  <2>1. UNCHANGED handle /\ transport[h] = "queued"
        /\ \A g \in Handle : transport'[g] = IF g = h THEN "listed" ELSE transport[g]
    BY <1>0, <1>7 DEF AddTransport, TypeOK
  <2>2. reader[h] = "off" /\ writer[h] = "off" /\ handle[h] # "freed" /\ handle[h] # "none"
    BY <1>0, <2>1 DEF Count
  <2>3. CASE Writeable(h)
    <3>1. \A g \in Handle : /\ ref'[g] = IF g = h THEN 2 ELSE ref[g]
                            /\ reader'[g] = IF g = h THEN "run" ELSE reader[g]
                            /\ writer'[g] = IF g = h THEN "run" ELSE writer[g]
      BY <1>0, <1>7, <2>3 DEF AddTransport, References, ReaderTo, WriterTo, TypeOK
    <3> QED BY <1>0, <2>1, <2>2, <3>1 DEF Counts, Count, Holds, One
  <2>4. CASE ~Writeable(h)
    <3>1. UNCHANGED <<ref, reader, writer>> BY <1>7, <2>4 DEF AddTransport
    <3> QED BY <1>0, <2>1, <2>2, <3>1 DEF Counts, Count
  <2> QED BY <2>3, <2>4
<1>8. ASSUME NEW h \in Handle, RemoveTransport(h) PROVE Counts'
  <2>1. /\ handle[h] = "freed" /\ UNCHANGED ref
        /\ \A g \in Handle : /\ transport'[g] = IF g = h THEN "none" ELSE transport[g]
                             /\ handle'[g] = IF g = h THEN "none" ELSE handle[g]
                             /\ reader'[g] = IF g = h THEN "off" ELSE reader[g]
                             /\ writer'[g] = IF g = h THEN "off" ELSE writer[g]
    BY <1>0, <1>8 DEF RemoveTransport, ReaderTo, WriterTo, TypeOK
  <2> QED BY <1>0, <2>1 DEF Counts, Count, Holds, One
<1>9. ASSUME NEW h \in Handle, SubmitIn(h) \/ Reap(h) \/ Reaped(h) \/ PostOffline(h)
      PROVE  Counts'
  <2>1. /\ UNCHANGED <<ref, handle, transport, writer>> /\ Holds(reader[h])
        /\ \A g \in Handle : g # h => reader'[g] = reader[g]
        /\ Holds(reader'[h])
    BY <1>0, <1>9 DEF SubmitIn, Reap, Reaped, PostOffline, ReaderTo, Holds, TypeOK
  <2> QED BY <1>0, <2>1, CountsFrame
<1>10. ASSUME NEW h \in Handle, ReaderEnds(h) PROVE Counts'
  <2>1. CASE TestKicked(h, reader) \/ UsbKick(h, reader)
    <3>1. /\ UNCHANGED <<ref, handle, writer>> /\ Holds(reader[h]) /\ Holds(reader'[h])
          /\ \A g \in Handle : g # h => reader'[g] = reader[g]
      BY <1>0, <1>10, <2>1 DEF ReaderEnds, TestKicked, UsbKick, Holds, TypeOK
    <3>2. UNCHANGED transport \/ Kicks(h) BY <2>1 DEF TestKicked, UsbKick
    <3> QED BY <1>0, <1>4, <3>1, <3>2, CountsFrame
  <2>2. CASE Unref(h, reader, <<"reader", h>>) BY <1>10, <2>2, CountsUnref DEF ReaderEnds
  <2>3. CASE UsbClose(h, reader) BY <1>10, <2>3, CountsClose DEF ReaderEnds
  <2> QED BY <1>10, <2>1, <2>2, <2>3 DEF ReaderEnds
<1>11. ASSUME NEW h \in Handle, WriterEnds(h) PROVE Counts'
  <2>1. CASE TestKicked(h, writer) \/ UsbKick(h, writer)
    <3>1. /\ UNCHANGED <<ref, handle, reader>> /\ Holds(writer[h]) /\ Holds(writer'[h])
          /\ \A g \in Handle : g # h => writer'[g] = writer[g]
      BY <1>0, <1>11, <2>1 DEF WriterEnds, TestKicked, UsbKick, Holds, TypeOK
    <3>2. UNCHANGED transport \/ Kicks(h) BY <2>1 DEF TestKicked, UsbKick
    <3> QED BY <1>0, <1>4, <3>1, <3>2, CountsFrame
  <2>2. CASE Unref(h, writer, <<"writer", h>>) BY <1>11, <2>2, CountsUnref DEF WriterEnds
  <2>3. CASE UsbClose(h, writer) BY <1>11, <2>3, CountsClose DEF WriterEnds
  <2> QED BY <1>11, <2>1, <2>2, <2>3 DEF WriterEnds
<1>12. ASSUME NEW h \in Handle, SubmitOut(h) \/ WriteEnds(h) \/ SeeOffline(h)
       PROVE  Counts'
  <2>1. /\ UNCHANGED <<ref, handle, transport, reader>> /\ Holds(writer[h])
        /\ \A g \in Handle : g # h => writer'[g] = writer[g]
        /\ Holds(writer'[h])
    BY <1>0, <1>12 DEF SubmitOut, WriteEnds, SeeOffline, WriterTo, Holds, TypeOK
  <2> QED BY <1>0, <2>1, CountsFrame
<1> QED BY <1>1, <1>2, <1>3, <1>5, <1>6, <1>7, <1>8, <1>9, <1>10, <1>11, <1>12
    DEF Next, Polls, Reads, Loop

-----------------------------------------------------------------------------
(* The poll thread.                                                        *)

(* Steps of others: a handle may be closed outside a walk, or a device go. *)
LEMMA PollFrame ==
  ASSUME IInv, UNCHANGED <<poll, todo, skipped>>,
         \A h \in Handle :
           /\ Open(h)' => /\ Open(h) /\ node'[h] = node[h]
                          /\ Here(h)' => Here(h)
                          /\ h \in mark => h \in mark'
           /\ poll = "kick" /\ Open(h) => Open(h)'
  PROVE  Walks' /\ Marked'
<1>1. poll = "kick" => todo \subseteq Handle BY DEF IInv, TypeOK
<1>2. Walks' BY <1>1 DEF IInv, Walks
<1>3. Marked' BY <1>1 DEF IInv, Walks, Marked
<1> QED BY <1>2, <1>3

LEMMA PollNext == ASSUME IInv, Next PROVE Walks' /\ Marked'
<1> USE DEF deviceVars, handleVars, urbVars, transportVars, pollVars, writeVars
<1>0. TypeOK /\ Walks /\ Marked BY DEF IInv
<1>1. ASSUME NEW n \in Node, Plug(n) \/ Unplug(n) PROVE Walks' /\ Marked'
  <2>1. UNCHANGED <<handle, node, mark, poll, todo, skipped>> BY <1>1 DEF Plug, Unplug
  <2>2. \A h \in Handle : Open(h) /\ Here(h)' => Here(h)
    BY <1>1, <2>1 DEF Plug, Unplug, OpenHandles, Here
  <2> QED BY <2>1, <2>2, PollFrame DEF Open
<1>2. ASSUME NEW n \in Node, Scan(n) PROVE Walks' /\ Marked'
  <2>1. poll = "scan" /\ UNCHANGED <<poll, present>> /\ todo' = todo \ {n}
    BY <1>2 DEF Scan
  <2>2. Walks' BY <2>1 DEF Walks
  <2>3. SUFFICES ASSUME NEW g \in Handle, handle'[g] = "open", node'[g] \in present,
                        node'[g] = n \/ node'[g] \notin todo, node'[g] \notin skipped'
                 PROVE  g \in mark'
    BY <2>1, <2>2 DEF Marked, Open, Here
  <2>4. /\ skipped \subseteq skipped'
        /\ handle[g] = "open" /\ node[g] \in present /\ node[g] \notin todo
             /\ node[g] \notin skipped => g \in mark
    BY <1>0, <1>2, <2>1 DEF Marked, Open, Here, Scan, Skips, Looks
  <2>5. handle[g] = "open" /\ node[g] = n => g \in Known(n)
    BY DEF Known, OpenHandles, Open
  <2>8. CASE Skips(n)
    <3>1. n \in skipped' /\ UNCHANGED <<handle, node, mark>> BY <2>8 DEF Skips
    <3> QED BY <2>3, <2>4, <3>1
  <2>6. CASE Looks(n) /\ n \in present /\ Known(n) = {}
    <3>1. ASSUME NEW h \in Handle, Register(n, h) PROVE g \in mark'
      <4>1. /\ handle'[g] = IF g = h THEN "open" ELSE handle[g]
            /\ node'[g] = IF g = h THEN n ELSE node[g]
        BY <1>0, <3>1 DEF Register, TypeOK
      <4>2. mark' = mark \cup {h} BY <3>1 DEF Register, RegisteredMarks
      <4> QED BY <2>3, <2>4, <2>5, <2>6, <4>1, <4>2
    <3>2. CASE UNCHANGED <<handle, node, mark, transport>>
      BY <2>3, <2>4, <2>5, <2>6, <3>2
    <3> QED BY <2>6, <3>1, <3>2 DEF Looks
  <2>7. CASE Looks(n) /\ ~(n \in present /\ Known(n) = {})
    <3>1. /\ UNCHANGED <<handle, node>>
          /\ mark' = IF n \in present THEN mark \cup Known(n) ELSE mark
      BY <2>7 DEF Looks
    <3> QED BY <2>3, <2>4, <2>5, <2>7, <3>1 DEF Looks
  <2> QED BY <1>2, <2>6, <2>7, <2>8 DEF Scan
<1>3. CASE KickStart
  BY <1>0, <1>3 DEF KickStart, Walks, Marked, OpenHandles, Open, Here
<1>4. CASE KickEnd
  <2>1. \A h \in Handle : Here(h) => node[h] \in Node BY <1>0 DEF TypeOK, Here
  <2> QED BY <1>4, <2>1 DEF KickEnd, Walks, Marked, Here
<1>5. ASSUME NEW h \in Handle, KickOne(h) PROVE Walks' /\ Marked'
  <2>1. /\ poll = "kick" /\ UNCHANGED <<poll, skipped, handle, node, present>>
        /\ todo' = todo \ {h} /\ \A g \in mark : g # h => g \in mark'
    BY <1>5 DEF KickOne
  <2>2. todo \subseteq Handle BY <1>0, <2>1 DEF TypeOK
  <2>3. Walks' BY <1>0, <2>1 DEF Walks, Open
  <2>4. Marked' BY <1>0, <2>1 DEF Marked, Here
  <2> QED BY <2>3, <2>4
<1>6. ASSUME UNCHANGED <<handle, node, mark, poll, todo, skipped, present>> PROVE Walks' /\ Marked'
  BY <1>6, PollFrame DEF Open, Here
<1>7. ASSUME NEW h \in Handle, Deliver(h) \/ Accept(h) \/ Fail(h) \/ AddTransport(h)
      PROVE  Walks' /\ Marked'
  BY <1>6, <1>7 DEF Deliver, Accept, Fail, AddTransport
<1>8. ASSUME NEW h \in Handle, RemoveTransport(h) PROVE Walks' /\ Marked'
  <2>1. /\ handle[h] = "freed" /\ UNCHANGED <<poll, todo, skipped, present>>
        /\ \A g \in Handle : /\ handle'[g] = IF g = h THEN "none" ELSE handle[g]
                             /\ g # h => node'[g] = node[g]
        /\ mark' = mark \ {h}
    BY <1>0, <1>8 DEF RemoveTransport, TypeOK
  <2> QED BY <2>1, PollFrame DEF Open, Here
<1>9. ASSUME NEW h \in Handle,
             \/ SubmitIn(h) \/ Reap(h) \/ Reaped(h) \/ PostOffline(h)
             \/ SubmitOut(h) \/ WriteEnds(h) \/ SeeOffline(h)
      PROVE  Walks' /\ Marked'
  BY <1>6, <1>9
  DEF SubmitIn, Reap, Reaped, PostOffline, SubmitOut, WriteEnds, SeeOffline
<1>10. ASSUME NEW h \in Handle, ReaderEnds(h) \/ WriterEnds(h) PROVE Walks' /\ Marked'
  <2>1. CASE \/ TestKicked(h, reader) \/ UsbKick(h, reader)
             \/ Unref(h, reader, <<"reader", h>>)
             \/ TestKicked(h, writer) \/ UsbKick(h, writer)
             \/ Unref(h, writer, <<"writer", h>>)
    BY <1>6, <2>1 DEF TestKicked, UsbKick, Unref
  <2>2. CASE UsbClose(h, reader) \/ UsbClose(h, writer)
    <3>1. /\ poll # "kick" /\ UNCHANGED <<poll, todo, skipped, present, node, mark>>
          /\ \A g \in Handle : handle'[g] = IF g = h THEN "freed" ELSE handle[g]
      BY <1>0, <2>2 DEF UsbClose, UsbLockFree, TypeOK
    <3> QED BY <3>1, PollFrame DEF Open, Here
  <2> QED BY <1>10, <2>1, <2>2 DEF ReaderEnds, WriterEnds
<1> QED BY <1>1, <1>2, <1>3, <1>4, <1>5, <1>7, <1>8, <1>9, <1>10
    DEF Next, Polls, Reads, Loop

-----------------------------------------------------------------------------
(* What the device took and what is reported.                              *)

LEMMA PaidKicks ==
  ASSUME TypeOK, Paid, NEW h \in Handle, Kicks(h), UNCHANGED <<out, wrote, unsure>>
  PROVE  Paid'
<1>1. \A g \in Handle : urbOut'[g] = "done" => urbOut[g] = "done"
  BY DEF Kicks, Cancelled, TypeOK, urbVars
<1>2. \A g \in Handle : wrote[g] \in Nat /\ out[g] \in Nat /\ unsure[g] \in Nat
  BY UsbAssumption DEF TypeOK
<1> QED BY <1>1, <1>2 DEF Paid, One

LEMMA PaidNext == ASSUME IInv, Next PROVE Paid'
<1> USE DEF deviceVars, handleVars, urbVars, transportVars, pollVars, writeVars
<1>0. TypeOK /\ Paid BY DEF IInv
<1>1. \A g \in Handle : wrote[g] \in Nat /\ out[g] \in Nat /\ unsure[g] \in Nat
  BY <1>0, UsbAssumption DEF TypeOK
<1>2. ASSUME UNCHANGED <<urbOut, out, wrote, unsure>> PROVE Paid'
  BY <1>0, <1>2 DEF Paid
<1>3. ASSUME NEW n \in Node, Plug(n) \/ Unplug(n) \/ Scan(n) PROVE Paid'
  BY <1>2, <1>3 DEF Plug, Unplug, Scan
<1>4. CASE KickStart \/ KickEnd BY <1>2, <1>4 DEF KickStart, KickEnd
<1>5. ASSUME NEW h \in Handle, KickOne(h) PROVE Paid'
  BY <1>0, <1>2, <1>5, PaidKicks DEF KickOne
<1>6. ASSUME NEW h \in Handle,
             \/ Deliver(h) \/ AddTransport(h) \/ SeeOffline(h)
             \/ SubmitIn(h) \/ Reap(h) \/ Reaped(h) \/ PostOffline(h)
      PROVE  Paid'
  BY <1>2, <1>6 DEF Deliver, AddTransport, SeeOffline, SubmitIn, Reap, Reaped, PostOffline
<1>7. ASSUME NEW h \in Handle, Accept(h) PROVE Paid'
  <2>1. /\ \A g \in Handle : /\ out'[g] = IF g = h THEN out[h] + 1 ELSE out[g]
                             /\ urbOut'[g] = IF g = h THEN "done" ELSE urbOut[g]
        /\ urbOut[h] = "pending" /\ UNCHANGED <<wrote, unsure>>
    BY <1>0, <1>7 DEF Accept, TypeOK
  <2> QED BY <1>0, <1>1, <2>1 DEF Paid, One
<1>8. ASSUME NEW h \in Handle, Fail(h) PROVE Paid'
  <2>1. /\ \A g \in Handle : urbOut'[g] = "done" => urbOut[g] = "done"
        /\ UNCHANGED <<out, wrote, unsure>>
    BY <1>0, <1>8 DEF Fail, TypeOK
  <2> QED BY <1>0, <1>1, <2>1 DEF Paid, One
<1>9. ASSUME NEW h \in Handle, SubmitOut(h) PROVE Paid'
  <2>1. /\ \A g \in Handle : urbOut'[g] = "done" => urbOut[g] = "done"
        /\ UNCHANGED <<out, wrote, unsure>>
    BY <1>0, <1>9 DEF SubmitOut, TypeOK
  <2> QED BY <1>0, <1>1, <2>1 DEF Paid, One
<1>10. ASSUME NEW h \in Handle, WriteEnds(h) PROVE Paid'
  <2>1. /\ \A g \in Handle : urbOut'[g] = IF g = h THEN "idle" ELSE urbOut[g]
        /\ UNCHANGED out
    BY <1>0, <1>10 DEF WriteEnds, TypeOK
  <2>2. CASE Written(h) /\ Reported(h) /\ UNCHANGED unsure
    <3>1. \A g \in Handle : wrote'[g] = IF g = h THEN wrote[h] + 1 ELSE wrote[g]
      BY <1>0, <2>2 DEF Reported, TypeOK
    <3>2. urbOut[h] = "done" BY <2>2 DEF Written
    <3> QED BY <1>0, <1>1, <2>1, <2>2, <3>1, <3>2 DEF Paid, One
  <2>3. CASE UNCHANGED <<wrote, unsure>>
    BY <1>0, <1>1, <2>1, <2>3 DEF Paid, One
  <2>4. CASE TimedOut(h)
    <3>1. \A g \in Handle : /\ wrote'[g] = IF g = h THEN wrote[h] + 1 ELSE wrote[g]
                            /\ unsure'[g] = IF g = h THEN unsure[h] + 1 ELSE unsure[g]
      BY <1>0, <2>4 DEF TimedOut, Reported, TypeOK
    <3>2. ASSUME NEW g \in Handle
          PROVE  wrote'[g] + One((urbOut'[g] = "done")) <= out'[g] + unsure'[g]
      <4>1. wrote[g] + One((urbOut[g] = "done")) <= out[g] + unsure[g] BY <1>0 DEF Paid
      <4> QED BY <1>1, <2>1, <3>1, <4>1 DEF One
    <3> QED BY <3>2 DEF Paid
  <2> QED BY <1>10, <2>2, <2>3, <2>4 DEF WriteEnds
<1>11. ASSUME NEW h \in Handle, RemoveTransport(h) PROVE Paid'
  <2>1. \A g \in Handle : 
             /\ wrote'[g] = IF g = h THEN 0 ELSE wrote[g]
             /\ unsure'[g] = IF g = h THEN 0 ELSE unsure[g]
             /\ out'[g] = IF g = h THEN 0 ELSE out[g]
             /\ urbOut'[g] = IF g = h THEN "idle" ELSE urbOut[g]
    BY <1>0, <1>11 DEF RemoveTransport, TypeOK
  <2> QED BY <1>0, <1>1, <2>1 DEF Paid, One
<1>12. ASSUME NEW h \in Handle, ReaderEnds(h) \/ WriterEnds(h) PROVE Paid'
  <2>1. CASE UsbKick(h, reader) \/ UsbKick(h, writer)
    BY <1>0, <2>1, PaidKicks DEF UsbKick
  <2>2. CASE \/ TestKicked(h, reader) \/ Unref(h, reader, <<"reader", h>>)
             \/ TestKicked(h, writer) \/ Unref(h, writer, <<"writer", h>>)
             \/ UsbClose(h, reader) \/ UsbClose(h, writer)
    BY <1>2, <2>2 DEF TestKicked, Unref, UsbClose
  <2> QED BY <1>12, <2>1, <2>2 DEF ReaderEnds, WriterEnds
<1> QED BY <1>3, <1>4, <1>5, <1>6, <1>7, <1>8, <1>9, <1>10, <1>11, <1>12
    DEF Next, Polls, Reads, Loop

-----------------------------------------------------------------------------
LEMMA Stutter == ASSUME IInv, UNCHANGED vars PROVE IInv'
BY DEF IInv, TypeOK, Counts, Count, Holds, One, Walks, Marked, Paid, Open, Here,
       vars, deviceVars, handleVars, urbVars, transportVars, pollVars,
       writeVars

LEMMA Invariant == Spec => []IInv
<1>1. IInv /\ [Next]_vars => IInv'
  BY TypeNext, CountsNext, PollNext, PaidNext, Stutter DEF IInv
<1> QED BY InitHolds, <1>1, PTL DEF Spec

(* The types, for any device files and any number of handles: a count of   *)
(* references is never negative, and no list of the poll thread (its scan, *)
(* its walk over handle_list) holds anything it should not.                *)
THEOREM TypeCorrect == Spec => []TypeOK
<1>1. IInv => TypeOK BY DEF IInv
<1> QED BY <1>1, Invariant, PTL

(* usb_close frees a handle when both io threads are done with it, and     *)
(* never while the poll thread walks over it in                            *)
(* kick_disconnected_devices: two references and usb_lock are enough.      *)
THEOREM HandleOutlives == Spec => []NoUseAfterFree
<1>1. IInv => NoUseAfterFree
  BY DEF IInv, Counts, Count, Walks, Open, NoUseAfterFree
<1> QED BY <1>1, Invariant, PTL

(* usb_write reports as complete what the device took, whichever thread    *)
(* reaps the urb and whenever a kick cancels it, or else what it waited    *)
(* for in vain when the time of a wait, ETIMEDOUT, was taken for a length. *)
THEOREM NoFalseReport == Spec => []NoFalseSuccess
<1>1. IInv => NoFalseSuccess
  <2>1. IInv => \A h \in Handle : wrote[h] \in Nat /\ out[h] \in Nat /\ unsure[h] \in Nat
    BY UsbAssumption DEF IInv, TypeOK
  <2> QED BY <2>1 DEF IInv, Paid, One, NoFalseSuccess
<1> QED BY <1>1, Invariant, PTL

(* The poll thread kicks no handle whose device file is still there, if it *)
(* could read its directory: what it found in its scan, or registered in   *)
(* it, is marked.                                                          *)
THEOREM OnlyGone == Spec => OnlyGoneKicked
<1> DEFINE A == \A h \in Handle :
                  poll = "kick" /\ todo' = todo \ {h} /\ h \in todo /\ h \in dead' \ dead
                    => ~Here(h) \/ node[h] \in skipped
<1>1. ASSUME IInv, Next PROVE A
  <2> SUFFICES ASSUME NEW h \in Handle, poll = "kick", todo' = todo \ {h}, h \in todo,
                      h \in dead' \ dead, Here(h), node[h] \notin skipped
               PROVE  FALSE
    OBVIOUS
  <2>1. h \in mark BY <1>1 DEF IInv, Marked
  <2>2. todo' # todo OBVIOUS
  <2>3. dead' # dead OBVIOUS
  <2>4. PICK g \in Handle : KickOne(g)
    BY <1>1, <2>2, <2>3
    DEF Next, Polls, Reads, Loop, Plug, Unplug, Scan, KickStart, KickEnd, Deliver, Accept,
        Fail, AddTransport, RemoveTransport, SubmitIn, Reap, Reaped, PostOffline, ReaderEnds,
        WriterEnds, TestKicked, UsbKick, Unref, UsbClose, SubmitOut, WriteEnds, SeeOffline,
        deviceVars, handleVars, urbVars, transportVars, pollVars, writeVars
  <2>5. g \in todo /\ todo' = todo \ {g} BY <2>4 DEF KickOne
  <2>6. g = h BY <2>5
  <2> QED BY <2>1, <2>3, <2>4, <2>6 DEF KickOne
<1>2. IInv /\ [Next]_vars => [A]_vars BY <1>1
<1> QED BY <1>2, Invariant, PTL DEF Spec, OnlyGoneKicked

-----------------------------------------------------------------------------
(* The backend of Windows.  An io thread has its reference until it drops  *)
(* it; a handle is on the list, or between do_usb_open and its end, or not *)
(* in use; and the poll thread gives a name only once.                     *)
WinBusy(pc) == pc \notin {"off", "over"}
WinCount(h) ==
  /\ winRef[h] = One(WinBusy(winIo["reader"][h])) + One(WinBusy(winIo["writer"][h]))
  /\ winIo["reader"][h] = "off" <=> winIo["writer"][h] = "off"
  /\ h \in winListed <=> winIo["reader"][h] # "off" /\ winHandle[h] = "open"
  /\ h \in winListed => winRef[h] > 0
  /\ winHandle[h] # "open" => winRef[h] = 0 /\ name[h] = NoInterface
  /\ winHandle[h] = "none" => winIo["reader"][h] = "off"
  /\ winHandle[h] = "freed" => winIo["reader"][h] = "over"
  /\ winHandle[h] = "open" /\ h \notin winListed => opening # <<>> /\ opening[2] = h
WinOpening ==
  opening # <<>> =>
    /\ winHandle[opening[2]] = "open" /\ opening[2] \notin winListed /\ name[opening[2]] = opening[1]
    /\ \A h \in WinHandle : name[h] = opening[1] => h = opening[2]

WinTyped ==
  /\ plugged \subseteq Interfaces /\ listing \subseteq Interfaces
  /\ opening \in {<<>>} \cup (Interfaces \X WinHandle)
  /\ winHandle \in [WinHandle -> {"none", "open", "freed"}]
  /\ name \in [WinHandle -> Interfaces \cup {NoInterface}]
  /\ for \in [WinHandle -> Interfaces \cup {NoInterface}]
  /\ winListed \subseteq WinHandle
  /\ winIo \in [Windows!Ios -> [WinHandle -> Windows!Pcs \cup {"wait", "failed"}]]
  /\ winKicked \subseteq WinHandle /\ winOffline \subseteq WinHandle
  /\ winRef \in [WinHandle -> 0..2] /\ winCrashed \in BOOLEAN

WinCounts == \A h \in WinHandle : WinCount(h)
WinIs == WinTyped /\ WinCounts /\ WinOpening /\ Windows!OneHandle

LEMMA WinNames ==
  /\ Windows!Ios = {"reader", "writer"}
  /\ Windows!Pcs = {"off", "run", "kick", "usbkick", "unref", "over"}
BY DEF Windows!Ios, Windows!Pcs

LEMMA WinInit == ASSUME Windows!Init PROVE WinIs
<1>1. WinTyped
  <2>1. winCrashed \in BOOLEAN BY DEF Windows!Init
  <2>2. winRef \in [WinHandle -> 0..2] BY DEF Windows!Init
  <2>3. /\ winIo \in [Windows!Ios -> [WinHandle -> Windows!Pcs \cup {"wait", "failed"}]]
        /\ winHandle \in [WinHandle -> {"none", "open", "freed"}]
    BY WinNames DEF Windows!Init
  <2>4. /\ name \in [WinHandle -> Interfaces \cup {NoInterface}]
        /\ for \in [WinHandle -> Interfaces \cup {NoInterface}]
    BY DEF Windows!Init
  <2> QED BY <2>1, <2>2, <2>3, <2>4 DEF Windows!Init, WinTyped
<1>2. WinCounts BY WinNames DEF Windows!Init, WinCounts, WinCount, WinBusy, One
<1>3. WinOpening /\ Windows!OneHandle
  BY DEF Windows!Init, WinOpening, Windows!OneHandle, Windows!Working
<1> QED BY <1>1, <1>2, <1>3 DEF WinIs

(* The handle of a thread that works is on the list, with its reference.   *)
LEMMA WinUsed ==
  ASSUME WinIs, NEW h \in WinHandle, NEW w \in {"reader", "writer"}, WinBusy(winIo[w][h])
  PROVE  /\ h \in winListed /\ winHandle[h] = "open"
         /\ winIo["reader"][h] # "off" /\ winIo["writer"][h] # "off"
<1>1. WinCount(h) BY DEF WinIs, WinCounts
<1>2. winIo["reader"][h] # "off" /\ winIo["writer"][h] # "off"
  BY <1>1 DEF WinCount, WinBusy
<1>3. winRef[h] # 0 BY <1>1 DEF WinCount, One
<1> QED BY <1>1, <1>2, <1>3 DEF WinCount

(* An io thread moves on without dropping its reference.                   *)
LEMMA WinMoves ==
  ASSUME WinIs, NEW w \in {"reader", "writer"}, NEW h \in WinHandle,
         NEW l \in {"run", "wait", "failed", "kick", "usbkick", "unref"},
         WinBusy(winIo[w][h]), Windows!IoTo(w, h, l),
         UNCHANGED <<plugged, listing, opening, winHandle, for, winListed, winRef, winCrashed>>,
         name' = name \/ name' = [name EXCEPT ![h] = NoInterface],
         winKicked' \subseteq WinHandle, winOffline' \subseteq WinHandle
  PROVE  WinIs'
<1>1. /\ winIo'[w][h] = l /\ WinBusy(l) /\ l # "off" /\ l # "over"
      /\ \A v \in {"reader", "writer"}, g \in WinHandle : v # w \/ g # h => winIo'[v][g] = winIo[v][g]
      /\ winIo' \in [Windows!Ios -> [WinHandle -> Windows!Pcs \cup {"wait", "failed"}]]
  BY WinNames DEF WinIs, WinTyped, Windows!IoTo, WinBusy
<1>2. /\ name' \in [WinHandle -> Interfaces \cup {NoInterface}]
      /\ \A g \in WinHandle : name'[g] = name[g] \/ (g = h /\ name'[g] = NoInterface)
  BY DEF WinIs, WinTyped
<1>3. WinTyped' BY <1>1, <1>2 DEF WinIs, WinTyped
<1>4. h \in winListed /\ winHandle[h] = "open"
  BY WinUsed
<1>5. ASSUME NEW g \in WinHandle PROVE WinCount(g)'
  <2>1. \A v \in {"reader", "writer"} :
          /\ WinBusy(winIo'[v][g]) <=> WinBusy(winIo[v][g])
          /\ winIo'[v][g] = "off" <=> winIo[v][g] = "off"
    BY <1>1 DEF WinBusy
  <2>2. WinCount(g) BY DEF WinIs, WinCounts
  <2>3. winHandle[g] # "open" => name'[g] = NoInterface BY <1>2, <2>2 DEF WinCount
  <2>4. winHandle[g] = "freed" => g # h BY <1>4
  <2>5. winHandle[g] = "freed" => winIo'["reader"][g] = winIo["reader"][g] BY <1>1, <2>4
  <2>6. \A v \in {"reader", "writer"} : One(WinBusy(winIo'[v][g])) = One(WinBusy(winIo[v][g]))
    BY <2>1 DEF One, WinBusy
  <2>7. winRef'[g] = One(WinBusy(winIo'["reader"][g])) + One(WinBusy(winIo'["writer"][g]))
    <3>1. winRef[g] = One(WinBusy(winIo["reader"][g])) + One(WinBusy(winIo["writer"][g]))
      BY <2>2 DEF WinCount
    <3>2. One(WinBusy(winIo'["reader"][g])) = One(WinBusy(winIo["reader"][g]))
      BY <2>6
    <3>3. One(WinBusy(winIo'["writer"][g])) = One(WinBusy(winIo["writer"][g]))
      BY <2>6
    <3> QED BY <3>1, <3>2, <3>3
  <2>8. /\ winIo'["reader"][g] = "off" <=> winIo["reader"][g] = "off"
        /\ winIo'["writer"][g] = "off" <=> winIo["writer"][g] = "off"
    BY <2>1
  <2>9. /\ winIo'["reader"][g] = "off" <=> winIo'["writer"][g] = "off"
        /\ g \in winListed <=> winIo'["reader"][g] # "off" /\ winHandle[g] = "open"
        /\ winHandle[g] = "none" => winIo'["reader"][g] = "off"
    BY <2>2, <2>8 DEF WinCount
  <2> QED BY <2>2, <2>3, <2>5, <2>7, <2>9 DEF WinCount
<1>6. WinOpening'
  <2> SUFFICES ASSUME opening # <<>>
               PROVE  /\ name'[opening[2]] = opening[1]
                      /\ \A g \in WinHandle : name'[g] = opening[1] => g = opening[2]
    BY DEF WinIs, WinOpening
  <2>1. opening[2] # h /\ opening[1] # NoInterface /\ opening[2] \in WinHandle
    BY <1>4, PartsConstants DEF WinIs, WinOpening, WinTyped, Windows!WindowsUsbAssumption
  <2> QED BY <1>2, <2>1 DEF WinIs, WinOpening
<1>7. Windows!OneHandle' BY <1>2 DEF WinIs, Windows!OneHandle, Windows!Working
<1> QED BY <1>3, <1>5, <1>6, <1>7 DEF WinIs, WinCounts

(* A scan moves on.                                                        *)
LEMMA WinScans ==
  ASSUME WinIs, UNCHANGED <<opening, winHandle, name, for, winListed, winIo, winKicked, winOffline, winRef>>,
         plugged' \subseteq Interfaces, listing' \subseteq Interfaces, winCrashed' \in BOOLEAN
  PROVE  WinIs'
<1>1. WinTyped' BY DEF WinIs, WinTyped
<1>2. WinCounts' BY DEF WinIs, WinCounts, WinCount
<1>3. WinOpening' /\ Windows!OneHandle' BY DEF WinIs, WinOpening, Windows!OneHandle, Windows!Working
<1> QED BY <1>1, <1>2, <1>3 DEF WinIs

LEMMA WinInterface ==
  ASSUME WinIs, NEW d \in Interfaces, Windows!Next_interface(d) PROVE WinIs'
<1>1. listing' \subseteq Interfaces /\ opening = <<>> BY DEF WinIs, WinTyped, Windows!Next_interface
<1>2. UNCHANGED <<plugged, winListed, winIo, winKicked, winOffline, winRef>> BY DEF Windows!Next_interface
<1>3. CASE UNCHANGED <<opening, winHandle, name, for>>
  <2>1. winCrashed' \in BOOLEAN BY DEF WinIs, WinTyped, Windows!Next_interface
  <2>2. plugged' \subseteq Interfaces BY <1>2 DEF WinIs, WinTyped
  <2> QED BY <1>1, <1>2, <1>3, <2>1, <2>2, WinScans
<1>4. CASE ~Windows!known_device(d) /\
           \E h \in WinHandle :
               /\ winHandle[h] = "none" /\ d \in plugged
               /\ opening' = <<d, h>>
               /\ winHandle' = [winHandle EXCEPT ![h] = "open"]
               /\ name' = [name EXCEPT ![h] = d]
               /\ for' = [for EXCEPT ![h] = d]
               /\ UNCHANGED winCrashed
  <2>1. PICK h \in WinHandle :
               /\ winHandle[h] = "none" /\ opening' = <<d, h>>
               /\ winHandle' = [winHandle EXCEPT ![h] = "open"]
               /\ name' = [name EXCEPT ![h] = d] /\ for' = [for EXCEPT ![h] = d]
               /\ winCrashed' = winCrashed
    BY <1>4
  <2>2. /\ winHandle'[h] = "open" /\ name'[h] = d /\ opening' # <<>> /\ opening'[1] = d /\ opening'[2] = h
        /\ \A g \in WinHandle : g # h => winHandle'[g] = winHandle[g] /\ name'[g] = name[g]
    BY <2>1 DEF WinIs, WinTyped
  <2>3. /\ opening' \in {<<>>} \cup (Interfaces \X WinHandle)
        /\ winHandle' \in [WinHandle -> {"none", "open", "freed"}]
        /\ name' \in [WinHandle -> Interfaces \cup {NoInterface}]
        /\ for' \in [WinHandle -> Interfaces \cup {NoInterface}]
    BY <2>1 DEF WinIs, WinTyped
  <2>4. WinTyped' BY <1>1, <1>2, <2>1, <2>3 DEF WinIs, WinTyped
  <2>5. WinCount(h) /\ h \notin winListed BY <2>1 DEF WinIs, WinCounts, WinCount
  <2>6. \A g \in WinHandle : g # h => (winHandle[g] = "open" => g \in winListed)
    BY <1>1 DEF WinIs, WinCounts, WinCount
  <2>7. \A g \in WinHandle : name[g] # d
    <3> SUFFICES ASSUME NEW g \in WinHandle, name[g] = d PROVE FALSE
      OBVIOUS
    <3>1. d # NoInterface BY PartsConstants DEF Windows!WindowsUsbAssumption
    <3>2. winHandle[g] = "open" BY <3>1 DEF WinIs, WinCounts, WinCount
    <3>3. g \in winListed BY <1>1, <3>2 DEF WinIs, WinCounts, WinCount
    <3> QED BY <1>4, <3>3 DEF Windows!known_device
  <2>8. ASSUME NEW g \in WinHandle PROVE WinCount(g)'
    <3>1. WinCount(g) BY DEF WinIs, WinCounts
    <3>2. CASE g = h BY <1>2, <2>1, <2>2, <2>5, <3>2 DEF WinCount
    <3>3. CASE g # h BY <1>2, <2>2, <2>6, <3>1, <3>3 DEF WinCount
    <3> QED BY <3>2, <3>3
  <2>9. WinOpening' BY <1>2, <2>2, <2>5, <2>7 DEF WinOpening
  <2>10. Windows!OneHandle' BY <2>2, <2>7 DEF WinIs, Windows!OneHandle, Windows!Working
  <2> QED BY <2>4, <2>8, <2>9, <2>10 DEF WinIs, WinCounts
<1> QED BY <1>3, <1>4 DEF Windows!Next_interface

LEMMA WinOpened == ASSUME WinIs, Windows!Opened PROVE WinIs'
<1> PICK d, h : d = opening[1] /\ h = opening[2]
  OBVIOUS
<1>1. /\ opening # <<>> /\ opening' = <<>> /\ d \in Interfaces /\ h \in WinHandle /\ d # NoInterface
      /\ winHandle[h] = "open" /\ h \notin winListed /\ name[h] = d
      /\ \A g \in WinHandle : name[g] = d => g = h
      /\ UNCHANGED <<plugged, listing, winKicked, winOffline, winCrashed>>
  BY PartsConstants DEF Windows!Opened, WinIs, WinTyped, WinOpening, Windows!WindowsUsbAssumption
<1>2. \A g \in WinHandle : g # h => (winHandle[g] = "open" => g \in winListed)
  BY <1>1 DEF WinIs, WinCounts, WinCount
<1>3. WinOpening' BY <1>1 DEF WinOpening
<1>4. CASE /\ winListed' = winListed \cup {h} /\ winRef' = [winRef EXCEPT ![h] = 2]
           /\ winIo' = [w \in Windows!Ios |-> [winIo[w] EXCEPT ![h] = "run"]]
           /\ UNCHANGED <<winHandle, name, for>>
  <2>1. /\ winRef'[h] = 2 /\ winIo'["reader"][h] = "run" /\ winIo'["writer"][h] = "run"
        /\ \A g \in WinHandle : g # h => /\ winRef'[g] = winRef[g]
                                         /\ winIo'["reader"][g] = winIo["reader"][g]
                                         /\ winIo'["writer"][g] = winIo["writer"][g]
        /\ winRef' \in [WinHandle -> 0..2]
        /\ winIo' \in [Windows!Ios -> [WinHandle -> Windows!Pcs \cup {"wait", "failed"}]]
    BY <1>1, <1>4, WinNames DEF WinIs, WinTyped
  <2>2. WinTyped' BY <1>1, <1>4, <2>1 DEF WinIs, WinTyped
  <2>3. ASSUME NEW g \in WinHandle PROVE WinCount(g)'
    <3>1. WinCount(g) BY DEF WinIs, WinCounts
    <3>2. CASE g = h
      <4>1. One(WinBusy("run")) = 1 BY DEF One, WinBusy
      <4> QED BY <1>1, <1>4, <2>1, <3>2, <4>1 DEF WinCount
    <3>3. CASE g # h BY <1>2, <1>4, <2>1, <3>1, <3>3 DEF WinCount
    <3> QED BY <3>2, <3>3
  <2>4. Windows!OneHandle' BY <1>4 DEF WinIs, Windows!OneHandle, Windows!Working
  <2> QED BY <1>3, <2>2, <2>3, <2>4 DEF WinIs, WinCounts
<1>5. CASE /\ winHandle' = [winHandle EXCEPT ![h] = "none"]
           /\ name' = [name EXCEPT ![h] = NoInterface] /\ for' = [for EXCEPT ![h] = NoInterface]
           /\ UNCHANGED <<winListed, winRef, winIo>>
  <2>1. /\ winHandle'[h] = "none" /\ name'[h] = NoInterface
        /\ \A g \in WinHandle : g # h => winHandle'[g] = winHandle[g] /\ name'[g] = name[g]
        /\ winHandle' \in [WinHandle -> {"none", "open", "freed"}]
        /\ name' \in [WinHandle -> Interfaces \cup {NoInterface}]
        /\ for' \in [WinHandle -> Interfaces \cup {NoInterface}]
    BY <1>1, <1>5 DEF WinIs, WinTyped
  <2>2. WinTyped' BY <1>1, <1>5, <2>1 DEF WinIs, WinTyped
  <2>3. winIo["reader"][h] = "off" BY <1>1 DEF WinIs, WinCounts, WinCount
  <2>4. ASSUME NEW g \in WinHandle PROVE WinCount(g)'
    <3>1. WinCount(g) BY DEF WinIs, WinCounts
    <3>2. CASE g = h
      <4>1. winRef[h] = 0 BY <2>3, <3>1, <3>2 DEF WinCount, WinBusy, One
      <4> QED BY <1>1, <1>5, <2>1, <2>3, <3>1, <3>2, <4>1 DEF WinCount
    <3>3. CASE g # h BY <1>2, <1>5, <2>1, <3>1, <3>3 DEF WinCount
    <3> QED BY <3>2, <3>3
  <2>5. Windows!OneHandle' BY <2>1 DEF WinIs, Windows!OneHandle, Windows!Working
  <2> QED BY <1>3, <2>2, <2>4, <2>5 DEF WinIs, WinCounts
<1> QED BY <1>4, <1>5 DEF Windows!Opened

LEMMA WinSteps ==
  ASSUME WinIs, NEW h \in WinHandle,
         \/ Windows!ReadStarts(h) \/ Windows!ReadEnds(h) \/ Windows!PostOffline(h)
         \/ Windows!Write(h) \/ Windows!SeeOffline(h)
         \/ \E w \in Windows!Ios : Windows!TestKicked(w, h) \/ Windows!UsbKick(w, h)
  PROVE  WinIs'
<1>1. /\ winKicked \subseteq WinHandle /\ winKicked \cup {h} \subseteq WinHandle
      /\ winOffline \subseteq WinHandle /\ winOffline \cup {h} \subseteq WinHandle
      /\ WinBusy("run") /\ WinBusy("wait") /\ WinBusy("failed") /\ WinBusy("kick") /\ WinBusy("usbkick")
  BY DEF WinIs, WinTyped, WinBusy
<1>2. CASE Windows!ReadStarts(h)
  <2>1. UNCHANGED <<plugged, listing, opening, winHandle, name, for, winListed, winRef, winCrashed,
                    winKicked, winOffline>>
    BY <1>2 DEF Windows!ReadStarts, Windows!scanVars, Windows!handleVars
  <2>2. winIo["reader"][h] = "run" /\ \E l \in {"wait", "failed"} : Windows!IoTo("reader", h, l)
    BY <1>2, Zenon DEF Windows!ReadStarts
  <2> QED BY <1>1, <2>1, <2>2, WinMoves
<1>3. CASE Windows!ReadEnds(h)
  <2>1. UNCHANGED <<plugged, listing, opening, winHandle, name, for, winListed, winRef, winCrashed,
                    winKicked, winOffline>>
    BY <1>3 DEF Windows!ReadEnds, Windows!scanVars, Windows!handleVars
  <2>2. winIo["reader"][h] = "wait" /\ \E l \in {"run", "failed"} : Windows!IoTo("reader", h, l)
    BY <1>3, Zenon DEF Windows!ReadEnds
  <2> QED BY <1>1, <2>1, <2>2, WinMoves
<1>4. CASE Windows!PostOffline(h)
  <2>1. UNCHANGED <<plugged, listing, opening, winHandle, name, for, winListed, winRef, winCrashed,
                    winKicked>>
    BY <1>4 DEF Windows!PostOffline, Windows!scanVars, Windows!handleVars
  <2>2. /\ winIo["reader"][h] = "failed" /\ Windows!IoTo("reader", h, "kick")
        /\ winOffline' = winOffline \cup {h}
    BY <1>4 DEF Windows!PostOffline
  <2> QED BY <1>1, <2>1, <2>2, WinMoves
<1>5. CASE Windows!Write(h)
  <2>1. UNCHANGED <<plugged, listing, opening, winHandle, for, winListed, winRef, winCrashed,
                    winKicked, winOffline>>
    BY <1>5 DEF Windows!Write, Windows!scanVars
  <2>2. /\ winIo["writer"][h] = "run" /\ winIo' = winIo
        /\ name' = name \/ name' = [name EXCEPT ![h] = NoInterface]
    BY <1>5 DEF Windows!Write, Windows!Kicks
  <2>3. Windows!IoTo("writer", h, "run")
    BY <2>2, WinNames DEF Windows!IoTo, WinIs, WinTyped
  <2> QED BY <1>1, <2>1, <2>2, <2>3, WinMoves
<1>6. CASE Windows!SeeOffline(h)
  <2>1. UNCHANGED <<plugged, listing, opening, winHandle, name, for, winListed, winRef, winCrashed,
                    winKicked, winOffline>>
    BY <1>6 DEF Windows!SeeOffline, Windows!scanVars, Windows!handleVars
  <2>2. winIo["writer"][h] = "run" /\ Windows!IoTo("writer", h, "kick")
    BY <1>6 DEF Windows!SeeOffline
  <2> QED BY <1>1, <2>1, <2>2, WinMoves
<1>7. ASSUME NEW w \in {"reader", "writer"}, Windows!TestKicked(w, h) PROVE WinIs'
  <2>1. UNCHANGED <<plugged, listing, opening, winHandle, name, for, winListed, winRef, winCrashed,
                    winOffline>>
    BY <1>7 DEF Windows!TestKicked, Windows!scanVars, Windows!handleVars
  <2>2. /\ winIo[w][h] = "kick" /\ winKicked' = winKicked \cup {h}
        /\ \E l \in {"unref", "usbkick"} : Windows!IoTo(w, h, l)
    BY <1>7, Zenon DEF Windows!TestKicked
  <2> QED BY <1>1, <2>1, <2>2, WinMoves
<1>8. ASSUME NEW w \in {"reader", "writer"}, Windows!UsbKick(w, h) PROVE WinIs'
  <2>1. UNCHANGED <<plugged, listing, opening, winHandle, for, winListed, winRef, winCrashed,
                    winKicked, winOffline>>
    BY <1>8 DEF Windows!UsbKick, Windows!scanVars
  <2>2. /\ winIo[w][h] = "usbkick" /\ Windows!IoTo(w, h, "unref")
        /\ name' = [name EXCEPT ![h] = NoInterface]
    BY <1>8 DEF Windows!UsbKick, Windows!Kicks
  <2> QED BY <1>1, <2>1, <2>2, WinMoves
<1> QED BY <1>2, <1>3, <1>4, <1>5, <1>6, <1>7, <1>8, WinNames

(* transport_unref: with the last reference the handle leaves the list and *)
(* is freed; the other thread is over by then.                              *)
LEMMA WinUnref ==
  ASSUME WinIs, NEW w \in {"reader", "writer"}, NEW h \in WinHandle, Windows!Unref(w, h)
  PROVE  WinIs'
<1> PICK v : v \in {"reader", "writer"} /\ v # w
  OBVIOUS
<1>1. /\ winIo[w][h] = "unref" /\ Windows!IoTo(w, h, "over")
      /\ winRef' = [winRef EXCEPT ![h] = @ - 1]
      /\ UNCHANGED <<plugged, listing, opening, for, winKicked, winOffline, winCrashed>>
  BY DEF Windows!Unref, Windows!scanVars
<1>2. /\ winIo'[w][h] = "over" /\ winIo'[v][h] = winIo[v][h]
      /\ \A g \in WinHandle : g # h => /\ winIo'["reader"][g] = winIo["reader"][g]
                                       /\ winIo'["writer"][g] = winIo["writer"][g]
      /\ winIo' \in [Windows!Ios -> [WinHandle -> Windows!Pcs \cup {"wait", "failed"}]]
  BY <1>1, WinNames DEF WinIs, WinTyped, Windows!IoTo
<1>3. h \in winListed /\ winHandle[h] = "open" /\ winIo["reader"][h] # "off" /\ winIo["writer"][h] # "off"
  <2>1. WinBusy(winIo[w][h]) BY <1>1 DEF WinBusy
  <2> QED BY <2>1, WinUsed
<1>4. WinCount(h) BY DEF WinIs, WinCounts
<1>5. winRef[h] = 1 + One(WinBusy(winIo[v][h]))
  <2>1. winRef[h] = One(WinBusy(winIo[w][h])) + One(WinBusy(winIo[v][h]))
    <3>1. One(WinBusy(winIo["reader"][h])) \in Nat /\ One(WinBusy(winIo["writer"][h])) \in Nat
      BY DEF One
    <3> QED BY <1>4, <3>1 DEF WinCount
  <2>2. One(WinBusy(winIo[w][h])) = 1 BY <1>1 DEF One, WinBusy
  <2> QED BY <2>1, <2>2
<1>6. One(WinBusy(winIo[v][h])) \in {0, 1} BY DEF One
<1>7. /\ winRef'[h] = One(WinBusy(winIo[v][h])) /\ winRef' \in [WinHandle -> 0..2]
      /\ \A g \in WinHandle : g # h => winRef'[g] = winRef[g]
  BY <1>1, <1>5, <1>6 DEF WinIs, WinTyped
<1>8. winRef'[h] = One(WinBusy(winIo'["reader"][h])) + One(WinBusy(winIo'["writer"][h]))
  <2>1. One(WinBusy(winIo'[w][h])) = 0 BY <1>2 DEF One, WinBusy
  <2>2. One(WinBusy(winIo'[v][h])) = One(WinBusy(winIo[v][h])) BY <1>2
  <2>3. winRef'[h] = One(WinBusy(winIo'[w][h])) + One(WinBusy(winIo'[v][h]))
    BY <1>6, <1>7, <2>1, <2>2
  <2>4. CASE w = "reader" BY <2>3, <2>4
  <2>5. CASE w = "writer"
    <3>1. One(WinBusy(winIo'["reader"][h])) \in {0, 1} /\ One(WinBusy(winIo'["writer"][h])) \in {0, 1}
      BY DEF One
    <3> QED BY <2>3, <2>5, <3>1
  <2> QED BY <2>4, <2>5
<1>9. CASE winRef[h] = 1
  <2>1. /\ winHandle' = [winHandle EXCEPT ![h] = "freed"] /\ winListed' = winListed \ {h}
        /\ name' = [name EXCEPT ![h] = NoInterface]
    BY <1>9 DEF Windows!Unref, Windows!Unlisted
  <2>2. /\ winHandle'[h] = "freed" /\ name'[h] = NoInterface
        /\ \A g \in WinHandle : g # h => winHandle'[g] = winHandle[g] /\ name'[g] = name[g]
        /\ winHandle' \in [WinHandle -> {"none", "open", "freed"}]
        /\ name' \in [WinHandle -> Interfaces \cup {NoInterface}]
    BY <2>1 DEF WinIs, WinTyped
  <2>3. One(WinBusy(winIo[v][h])) = 0 BY <1>5, <1>6, <1>9
  <2>4. winIo'["reader"][h] = "over" /\ winIo'["writer"][h] = "over"
    <3>1. winIo[v][h] = "over" BY <1>3, <2>3 DEF One, WinBusy
    <3> QED BY <1>2, <3>1
  <2>5. winRef'[h] = 0 BY <1>7, <2>3
  <2>6. ASSUME NEW g \in WinHandle PROVE WinCount(g)'
    <3>1. WinCount(g) BY DEF WinIs, WinCounts
    <3>2. CASE g = h BY <1>8, <2>1, <2>2, <2>4, <2>5, <3>2 DEF WinCount
    <3>3. CASE g # h BY <1>1, <1>2, <1>7, <2>1, <2>2, <3>1, <3>3 DEF WinCount
    <3> QED BY <3>2, <3>3
  <2>7. WinTyped' BY <1>1, <1>2, <1>7, <2>1, <2>2 DEF WinIs, WinTyped
  <2>8. WinOpening'
    <3> SUFFICES ASSUME opening # <<>>
                 PROVE  /\ winHandle'[opening[2]] = "open" /\ opening[2] \notin winListed'
                        /\ name'[opening[2]] = opening[1]
                        /\ \A g \in WinHandle : name'[g] = opening[1] => g = opening[2]
      BY <1>1 DEF WinOpening
    <3>1. opening[2] # h /\ opening[1] # NoInterface /\ opening[2] \in WinHandle
      BY <1>3, PartsConstants DEF WinIs, WinOpening, WinTyped, Windows!WindowsUsbAssumption
    <3> QED BY <2>1, <2>2, <3>1 DEF WinIs, WinOpening
  <2>9. Windows!OneHandle' BY <2>2 DEF WinIs, Windows!OneHandle, Windows!Working
  <2> QED BY <2>6, <2>7, <2>8, <2>9 DEF WinIs, WinCounts
<1>10. CASE winRef[h] # 1
  <2>1. UNCHANGED <<winHandle, winListed, name>> BY <1>10 DEF Windows!Unref
  <2>2. winRef'[h] > 0 BY <1>5, <1>6, <1>7, <1>10
  <2>3. winIo'["reader"][h] # "off" /\ winIo'["writer"][h] # "off" BY <1>2, <1>3
  <2>4. ASSUME NEW g \in WinHandle PROVE WinCount(g)'
    <3>1. WinCount(g) BY DEF WinIs, WinCounts
    <3>2. CASE g = h BY <1>1, <1>3, <1>8, <2>1, <2>2, <2>3, <3>2 DEF WinCount
    <3>3. CASE g # h BY <1>1, <1>2, <1>7, <2>1, <3>1, <3>3 DEF WinCount
    <3> QED BY <3>2, <3>3
  <2>5. WinTyped' BY <1>1, <1>2, <1>7, <2>1 DEF WinIs, WinTyped
  <2>6. WinOpening' /\ Windows!OneHandle'
    BY <1>1, <2>1 DEF WinIs, WinOpening, Windows!OneHandle, Windows!Working
  <2> QED BY <2>4, <2>5, <2>6 DEF WinIs, WinCounts
<1> QED BY <1>9, <1>10

LEMMA WinReuse ==
  ASSUME WinIs, NEW h \in WinHandle, Windows!Reuse(h) PROVE WinIs'
<1>1. /\ winHandle[h] = "freed" /\ winHandle' = [winHandle EXCEPT ![h] = "none"]
      /\ for' = [for EXCEPT ![h] = NoInterface]
      /\ winIo' = [w \in Windows!Ios |-> [winIo[w] EXCEPT ![h] = "off"]]
      /\ winKicked' = winKicked \ {h} /\ winOffline' = winOffline \ {h}
      /\ UNCHANGED <<plugged, listing, opening, name, winListed, winRef, winCrashed>>
  BY DEF Windows!Reuse, Windows!scanVars
<1>2. /\ winHandle'[h] = "none" /\ winIo'["reader"][h] = "off" /\ winIo'["writer"][h] = "off"
      /\ \A g \in WinHandle : g # h => /\ winHandle'[g] = winHandle[g]
                                       /\ winIo'["reader"][g] = winIo["reader"][g]
                                       /\ winIo'["writer"][g] = winIo["writer"][g]
      /\ winHandle' \in [WinHandle -> {"none", "open", "freed"}]
      /\ for' \in [WinHandle -> Interfaces \cup {NoInterface}]
      /\ winIo' \in [Windows!Ios -> [WinHandle -> Windows!Pcs \cup {"wait", "failed"}]]
  BY <1>1, WinNames DEF WinIs, WinTyped
<1>3. WinTyped' BY <1>1, <1>2 DEF WinIs, WinTyped
<1>4. h \notin winListed /\ winRef[h] = 0 /\ name[h] = NoInterface
  BY <1>1 DEF WinIs, WinCounts, WinCount
<1>5. ASSUME NEW g \in WinHandle PROVE WinCount(g)'
  <2>1. WinCount(g) BY DEF WinIs, WinCounts
  <2>2. CASE g = h
    <3>1. One(WinBusy("off")) = 0 BY DEF One, WinBusy
    <3> QED BY <1>1, <1>2, <1>4, <2>2, <3>1 DEF WinCount
  <2>3. CASE g # h BY <1>1, <1>2, <2>1, <2>3 DEF WinCount
  <2> QED BY <2>2, <2>3
<1>6. WinOpening'
  <2>1. opening # <<>> => opening[2] \in WinHandle /\ opening[2] # h
    BY <1>1 DEF WinIs, WinTyped, WinOpening
  <2> QED BY <1>1, <1>2, <2>1 DEF WinIs, WinOpening
<1>7. Windows!OneHandle' BY <1>1 DEF WinIs, Windows!OneHandle, Windows!Working
<1> QED BY <1>3, <1>5, <1>6, <1>7 DEF WinIs, WinCounts

LEMMA WinStep == ASSUME WinIs, Windows!Next PROVE WinIs'
<1>1. ASSUME NEW d \in Interfaces, Windows!Plug(d) PROVE WinIs'
  <2>1. plugged' \subseteq Interfaces BY <1>1 DEF Windows!Plug, WinIs, WinTyped
  <2>2. /\ UNCHANGED <<opening, winHandle, name, for, winListed, winIo, winKicked, winOffline, winRef>>
        /\ listing' = listing
    BY <1>1 DEF Windows!Plug, Windows!scanVars, Windows!handleVars
  <2>3. winCrashed' \in BOOLEAN /\ listing' \subseteq Interfaces
    BY <1>1, <2>2 DEF Windows!Plug, WinIs, WinTyped
  <2> QED BY <2>1, <2>2, <2>3, WinScans
<1>2. CASE Windows!Enumerate
  <2>1. plugged' \subseteq Interfaces /\ listing' \subseteq Interfaces
    BY <1>2 DEF Windows!Enumerate, WinIs, WinTyped
  <2>2. UNCHANGED <<opening, winHandle, name, for, winListed, winIo, winKicked, winOffline, winRef>>
    BY <1>2 DEF Windows!Enumerate, Windows!handleVars
  <2>3. winCrashed' \in BOOLEAN BY <1>2 DEF Windows!Enumerate, WinIs, WinTyped
  <2> QED BY <2>1, <2>2, <2>3, WinScans
<1>3. ASSUME NEW h \in WinHandle,
             Windows!Reads(h) \/ Windows!Write(h) \/ Windows!Leaves(h) \/ Windows!Reuse(h)
      PROVE  WinIs'
  <2>1. CASE Windows!Reads(h)
    BY <2>1, WinSteps, WinUnref, WinNames DEF Windows!Reads, Windows!Ends
  <2>2. CASE Windows!Leaves(h)
    BY <2>2, WinSteps, WinUnref, WinNames DEF Windows!Leaves, Windows!Ends
  <2> QED BY <1>3, <2>1, <2>2, WinSteps, WinReuse
<1> QED BY <1>1, <1>2, <1>3, WinInterface, WinOpened DEF Windows!Next

LEMMA WinSafe == ASSUME WinIs PROVE Windows!NoUseAfterFree /\ Windows!OneHandle /\ Windows!TypeOK
<1>1. \A h \in WinHandle, w \in {"reader", "writer"} : winHandle[h] # "open" => ~WinBusy(winIo[w][h])
  BY WinUsed
<1>2. \A h \in winListed : winHandle[h] = "open" BY DEF WinIs, WinTyped, WinCounts, WinCount
<1>3. Windows!NoUseAfterFree BY <1>1, <1>2, WinNames DEF Windows!NoUseAfterFree, WinBusy
<1> QED BY <1>3 DEF WinIs, WinTyped, Windows!TypeOK

-----------------------------------------------------------------------------
(* The backend of OS X.  Who kicks a transport is one of its io threads,   *)
(* and it alone tests the interface for it; the run loop tests only an     *)
(* interface whose device is gone; what is kicked is released or about to  *)
(* be; and the writer ends after the reader (OsxPasses says who uses what   *)
(* is released).                                                            *)
Found(v, h) == <<v, h>> \in tested
OsxBusy(pc) == pc \notin {"off", "over"}
OsxEnder(pc) == pc \in {"kick", "usbkick", "unref", "over"}
OsxIos(h) ==
  /\ osxRef[h] = One(OsxBusy(osxIo["reader"][h])) + One(OsxBusy(osxIo["writer"][h]))
  /\ osxTransport[h] \in {"none", "queued"} =>
       osxIo["reader"][h] = "off" /\ osxIo["writer"][h] = "off" /\ h \notin osxKicked
  /\ osxTransport[h] \in {"listed", "removed"} => osxIo["reader"][h] # "off" /\ osxIo["writer"][h] # "off"
  /\ osxTransport[h] = "removed" => osxIo["reader"][h] = "over" /\ osxIo["writer"][h] = "over"
  /\ \A w \in {"reader", "writer"} : osxIo[w][h] \in {"usbkick", "unref", "over"} => h \in osxKicked
  /\ OsxEnder(osxIo["writer"][h]) => h \in osxOffline
  /\ h \in osxOffline => OsxEnder(osxIo["reader"][h])
  /\ ~(osxIo["reader"][h] = "usbkick" /\ osxIo["writer"][h] = "usbkick")
OsxIface(h) ==
  /\ there[h] \in {"no", "found"} => iface[h] = "none" /\ osxTransport[h] = "none"
  /\ h \in notices => there[h] = "gone"
  /\ h \in noticed => there[h] = "gone"
  /\ Found("loop", h) => h \in noticed
  /\ Found("loop", h) /\ iface[h] = "released" => h \in osxKicked
  /\ \A w \in {"reader", "writer"} : Found(w, h) => osxIo[w][h] = "usbkick"
  /\ \A w \in {"reader", "writer"} : Found(w, h) /\ iface[h] = "released" => h \in noticed
  /\ iface[h] = "released" => h \in osxKicked \/ h \in noticed
  /\ iface[h] = "released" /\ ~OsxEnder(osxIo["reader"][h]) => h \in noticed \/ should_kill
  /\ h \in osxKicked /\ iface[h] = "open" =>
       Found("reader", h) \/ Found("writer", h)
Late(w, h) == <<w, h>> \in late
OsxPasses(h) ==
  /\ h \in second => h \in noticed /\ h \in osxKicked
  /\ Late("reader", h) => h \in noticed \/ should_kill
  /\ Late("writer", h) => h \in noticed \/ h \in osxKicked
OsxEnds == runloop # "runs" => should_kill
OsxHandles == \A h \in OsxHandle : OsxIos(h) /\ OsxIface(h) /\ OsxPasses(h)
OsxIs == Osx!TypeOK /\ OsxHandles /\ OsxEnds

LEMMA OsxNames ==
  /\ Osx!Ios = {"reader", "writer"}
  /\ Osx!Pcs = {"run", "use", "pipe", "off", "kick", "usbkick", "unref", "over"}
BY DEF Osx!Ios, Osx!Pcs, Osx!Transfer

LEMMA OsxStart == ASSUME Osx!Init PROVE OsxIs
<1>1. Osx!TypeOK
  <2>1. /\ there \in [OsxHandle -> {"no", "found", "opened", "gone"}]
        /\ iface \in [OsxHandle -> {"none", "open", "released"}]
        /\ osxTransport \in [OsxHandle -> {"none", "queued", "listed", "removed"}]
    BY DEF Osx!Init
  <2>2. osxRef \in [OsxHandle -> 0..2] BY DEF Osx!Init
  <2>3. osxIo \in [Osx!Ios -> [OsxHandle -> Osx!Pcs]] BY OsxNames DEF Osx!Init
  <2>4. should_kill \in BOOLEAN BY DEF Osx!Init
  <2>5. osxCrashed \in BOOLEAN BY DEF Osx!Init
  <2> QED BY <2>1, <2>2, <2>3, <2>4, <2>5 DEF Osx!Init, Osx!TypeOK
<1>2. ASSUME NEW h \in OsxHandle PROVE OsxIos(h) /\ OsxIface(h) /\ OsxPasses(h)
  BY OsxNames DEF Osx!Init, OsxIos, OsxIface, OsxPasses, Late, Found, OsxBusy, OsxEnder, One
<1>3. OsxEnds BY DEF Osx!Init, OsxEnds
<1> QED BY <1>1, <1>2, <1>3 DEF OsxIs, OsxHandles

(* What a step leaves alone of a handle.                                   *)
LEMMA OsxFrame ==
  ASSUME NEW h \in OsxHandle, OsxIos(h), OsxIface(h), OsxPasses(h),
         there'[h] = there[h], iface'[h] = iface[h], osxTransport'[h] = osxTransport[h],
         osxRef'[h] = osxRef[h],
         osxIo'["reader"][h] = osxIo["reader"][h], osxIo'["writer"][h] = osxIo["writer"][h],
         h \in osxKicked' <=> h \in osxKicked, h \in notices' => h \in notices,
         h \in osxOffline' <=> h \in osxOffline,
         h \in noticed' <=> h \in noticed, h \in second' <=> h \in second,
         \A w \in {"reader", "writer"} : <<w, h>> \in late' <=> <<w, h>> \in late,
         \A v \in {"reader", "writer", "loop"} : <<v, h>> \in tested' <=> <<v, h>> \in tested,
         should_kill => should_kill'
  PROVE  OsxIos(h)' /\ OsxIface(h)' /\ OsxPasses(h)'
<1>1. \A v \in {"reader", "writer", "loop"} : Found(v, h)' <=> Found(v, h) BY DEF Found
<1>2. OsxIos(h)' BY DEF OsxIos
<1>3. OsxIface(h)' BY <1>1 DEF OsxIface
<1>4. OsxPasses(h)' BY DEF OsxPasses, Late
<1> QED BY <1>2, <1>3, <1>4

(* The same with the interface and the transport as they were.             *)
LEMMA OsxPassing ==
  ASSUME NEW h \in OsxHandle, OsxPasses(h), UNCHANGED <<second, late>>,
         h \in osxKicked => h \in osxKicked', h \in noticed => h \in noticed', should_kill => should_kill'
  PROVE  OsxPasses(h)'
BY DEF OsxPasses, Late

LEMMA OsxEnding ==
  ASSUME OsxEnds, should_kill => should_kill',
         runloop' # "runs" => runloop # "runs" \/ should_kill'
  PROVE  OsxEnds'
BY DEF OsxEnds

(* The steps one by one.                                                   *)
LEMMA OsxPlug ==
  ASSUME OsxIs, NEW h \in OsxHandle, Osx!Plug(h) PROVE OsxIs'
<1>1. /\ there[h] = "no" /\ there' = [there EXCEPT ![h] = "found"]
      /\ UNCHANGED <<iface, tested, interest, notices, osxTransport, osxKicked, osxOffline, osxRef, osxIo, should_kill, runloop, noticed, second, late, osxCrashed>>
  BY DEF Osx!Plug, Osx!transportVars, Osx!pastVars
<1>2. OsxIos(h) /\ OsxIface(h) /\ OsxPasses(h) /\ OsxEnds BY DEF OsxIs, OsxHandles
<1>3. /\ there'[h] = "found" /\ \A g \in OsxHandle : g # h => there'[g] = there[g]
      /\ there' \in [OsxHandle -> {"no", "found", "opened", "gone"}]
  BY <1>1, OsxNames DEF OsxIs, Osx!TypeOK, Osx!IoTo
<1>4. Osx!TypeOK' BY <1>1, <1>3 DEF OsxIs, Osx!TypeOK
<1>5. OsxIos(h)' BY <1>1, <1>2, <1>3 DEF OsxIos
<1>6. OsxIface(h)' BY <1>1, <1>2, <1>3 DEF OsxIface, Found, OsxIos, OsxEnder
<1>7. ASSUME NEW g \in OsxHandle, g # h PROVE OsxIos(g)' /\ OsxIface(g)' /\ OsxPasses(g)'
  <2>1. OsxIos(g) /\ OsxIface(g) /\ OsxPasses(g) BY DEF OsxIs, OsxHandles
  <2> QED BY <1>1, <1>3, <1>7, <2>1, OsxFrame
<1>8. OsxEnds'
  BY <1>1, <1>2, <1>3, OsxEnding
<1>9. OsxPasses(h)' BY <1>1, <1>2, OsxPassing
<1> QED BY <1>4, <1>5, <1>6, <1>7, <1>8, <1>9 DEF OsxIs, OsxHandles

LEMMA OsxUnplug ==
  ASSUME OsxIs, NEW h \in OsxHandle, Osx!Unplug(h) PROVE OsxIs'
<1>1. /\ there[h] \in {"found", "opened"} /\ there' = [there EXCEPT ![h] = "gone"]
      /\ notices' \subseteq notices \cup {h}
      /\ UNCHANGED <<iface, tested, interest, osxTransport, osxKicked, osxOffline, osxRef, osxIo, should_kill, runloop, noticed, second, late, osxCrashed>>
  BY DEF Osx!Unplug, Osx!transportVars, Osx!pastVars
<1>2. OsxIos(h) /\ OsxIface(h) /\ OsxPasses(h) /\ OsxEnds BY DEF OsxIs, OsxHandles
<1>3. /\ there'[h] = "gone" /\ \A g \in OsxHandle : g # h => there'[g] = there[g]
      /\ there' \in [OsxHandle -> {"no", "found", "opened", "gone"}] /\ notices' \subseteq OsxHandle
  BY <1>1, OsxNames DEF OsxIs, Osx!TypeOK, Osx!IoTo
<1>4. Osx!TypeOK' BY <1>1, <1>3 DEF OsxIs, Osx!TypeOK
<1>5. OsxIos(h)' BY <1>1, <1>2, <1>3 DEF OsxIos
<1>6. OsxIface(h)' BY <1>1, <1>2, <1>3 DEF OsxIface, Found, OsxEnder
<1>7. ASSUME NEW g \in OsxHandle, g # h PROVE OsxIos(g)' /\ OsxIface(g)' /\ OsxPasses(g)'
  <2>1. OsxIos(g) /\ OsxIface(g) /\ OsxPasses(g) BY DEF OsxIs, OsxHandles
  <2> QED BY <1>1, <1>3, <1>7, <2>1, OsxFrame
<1>8. OsxEnds'
  BY <1>1, <1>2, <1>3, OsxEnding
<1>9. OsxPasses(h)' BY <1>1, <1>2, OsxPassing
<1> QED BY <1>4, <1>5, <1>6, <1>7, <1>8, <1>9 DEF OsxIs, OsxHandles

LEMMA OsxInterest ==
  ASSUME OsxIs, NEW h \in OsxHandle, Osx!AddInterest(h) PROVE OsxIs'
<1>1. /\ interest' = interest \cup {h}
      /\ UNCHANGED <<there, iface, tested, notices, osxTransport, osxKicked, osxOffline, osxRef, osxIo, should_kill, runloop, noticed, second, late, osxCrashed>>
  BY DEF Osx!AddInterest, Osx!transportVars, Osx!pastVars
<1>2. OsxIos(h) /\ OsxIface(h) /\ OsxPasses(h) /\ OsxEnds BY DEF OsxIs, OsxHandles
<1>3. interest' \subseteq OsxHandle
  BY <1>1, OsxNames DEF OsxIs, Osx!TypeOK, Osx!IoTo
<1>4. Osx!TypeOK' BY <1>1, <1>3 DEF OsxIs, Osx!TypeOK
<1>5. OsxIos(h)' BY <1>1, <1>2, <1>3 DEF OsxIos
<1>6. OsxIface(h)' BY <1>1, <1>2, <1>3 DEF OsxIface, Found, OsxEnder
<1>7. ASSUME NEW g \in OsxHandle, g # h PROVE OsxIos(g)' /\ OsxIface(g)' /\ OsxPasses(g)'
  <2>1. OsxIos(g) /\ OsxIface(g) /\ OsxPasses(g) BY DEF OsxIs, OsxHandles
  <2> QED BY <1>1, <1>3, <1>7, <2>1, OsxFrame
<1>8. OsxEnds'
  BY <1>1, <1>2, <1>3, OsxEnding
<1>9. OsxPasses(h)' BY <1>1, <1>2, OsxPassing
<1> QED BY <1>4, <1>5, <1>6, <1>7, <1>8, <1>9 DEF OsxIs, OsxHandles

LEMMA OsxAddTransport ==
  ASSUME OsxIs, NEW h \in OsxHandle, Osx!AddTransport(h) PROVE OsxIs'
<1>1. /\ osxTransport[h] = "queued" /\ osxTransport' = [osxTransport EXCEPT ![h] = "listed"]
      /\ osxRef' = [osxRef EXCEPT ![h] = 2]
      /\ osxIo' = [w \in Osx!Ios |-> [osxIo[w] EXCEPT ![h] = "run"]]
      /\ UNCHANGED <<there, iface, tested, interest, notices, osxKicked, osxOffline, should_kill, runloop, noticed, second, late, osxCrashed>>
  BY DEF Osx!AddTransport, Osx!transportVars, Osx!pastVars
<1>2. OsxIos(h) /\ OsxIface(h) /\ OsxPasses(h) /\ OsxEnds BY DEF OsxIs, OsxHandles
<1>3. /\ osxTransport'[h] = "listed" /\ osxRef'[h] = 2
      /\ osxIo'["reader"][h] = "run" /\ osxIo'["writer"][h] = "run"
      /\ \A g \in OsxHandle : g # h => /\ osxTransport'[g] = osxTransport[g] /\ osxRef'[g] = osxRef[g]
                                       /\ osxIo'["reader"][g] = osxIo["reader"][g]
                                       /\ osxIo'["writer"][g] = osxIo["writer"][g]
      /\ osxTransport' \in [OsxHandle -> {"none", "queued", "listed", "removed"}]
      /\ osxRef' \in [OsxHandle -> 0..2] /\ osxIo' \in [Osx!Ios -> [OsxHandle -> Osx!Pcs]]
  BY <1>1, OsxNames DEF OsxIs, Osx!TypeOK, Osx!IoTo
<1>4. Osx!TypeOK' BY <1>1, <1>3 DEF OsxIs, Osx!TypeOK
<1>5. OsxIos(h)' BY <1>1, <1>2, <1>3 DEF OsxIos, One, OsxBusy, OsxEnder
<1>6. OsxIface(h)' BY <1>1, <1>2, <1>3 DEF OsxIface, Found, OsxIos, OsxEnder
<1>7. ASSUME NEW g \in OsxHandle, g # h PROVE OsxIos(g)' /\ OsxIface(g)' /\ OsxPasses(g)'
  <2>1. OsxIos(g) /\ OsxIface(g) /\ OsxPasses(g) BY DEF OsxIs, OsxHandles
  <2> QED BY <1>1, <1>3, <1>7, <2>1, OsxFrame
<1>8. OsxEnds'
  BY <1>1, <1>2, <1>3, OsxEnding
<1>9. OsxPasses(h)' BY <1>1, <1>2, OsxPassing
<1> QED BY <1>4, <1>5, <1>6, <1>7, <1>8, <1>9 DEF OsxIs, OsxHandles

(* A transfer, from the test of the interface to its end.                  *)
LEMMA OsxTransfers ==
  ASSUME OsxIs, NEW w \in {"reader", "writer"}, NEW h \in OsxHandle, Osx!Transfers(w, h)
  PROVE  OsxIs'
<1> PICK v : v \in {"reader", "writer"} /\ v # w
  OBVIOUS
<1>0. PICK l \in {"run", "use", "pipe"} :
        /\ osxIo[w][h] \in {"run", "use", "pipe"} /\ Osx!IoTo(w, h, l)
        /\ UNCHANGED <<there, iface, tested, interest, notices, osxTransport, osxKicked, osxOffline,
                       osxRef, should_kill, runloop, noticed, second>>
        /\ late' = late \/ (osxIo[w][h] = "use" /\ iface[h] = "released" /\ late' = late \cup {<<w, h>>})
        /\ osxCrashed' \in BOOLEAN
  BY DEF Osx!Transfers, Osx!TestsPipe, Osx!CallsPipe, Osx!PipeEnds, Osx!MayCrash, OsxIs, Osx!TypeOK,
         Osx!transportVars, Osx!pastVars
<1>1. OsxIos(h) /\ OsxIface(h) /\ OsxPasses(h) /\ OsxEnds BY DEF OsxIs, OsxHandles
<1>2. /\ osxIo'[w][h] = l /\ osxIo'[v][h] = osxIo[v][h]
      /\ \A g \in OsxHandle : g # h => /\ osxIo'["reader"][g] = osxIo["reader"][g]
                                       /\ osxIo'["writer"][g] = osxIo["writer"][g]
      /\ osxIo' \in [Osx!Ios -> [OsxHandle -> Osx!Pcs]]
  BY <1>0, OsxNames DEF OsxIs, Osx!TypeOK, Osx!IoTo
<1>3. /\ late' \subseteq Osx!Ios \X OsxHandle
      /\ \A u, g : u # w \/ g # h => (<<u, g>> \in late' <=> <<u, g>> \in late)
      /\ Late(w, h)' => Late(w, h) \/ (osxIo[w][h] = "use" /\ iface[h] = "released")
      /\ Late(v, h)' => Late(v, h)
  BY <1>0, OsxNames DEF OsxIs, Osx!TypeOK, Late
<1>4. Osx!TypeOK' BY <1>0, <1>2, <1>3 DEF OsxIs, Osx!TypeOK
<1>5. /\ \A u \in {"reader", "writer"} : OsxBusy(osxIo'[u][h]) <=> OsxBusy(osxIo[u][h])
      /\ \A u \in {"reader", "writer"} : OsxEnder(osxIo'[u][h]) <=> OsxEnder(osxIo[u][h])
      /\ \A u \in {"reader", "writer"}, e \in {"off", "over", "usbkick", "unref"} :
           osxIo'[u][h] = e <=> osxIo[u][h] = e
  BY <1>0, <1>2 DEF OsxBusy, OsxEnder
<1>6. OsxIos(h)'
  <2>1. /\ One(OsxBusy(osxIo'["reader"][h])) = One(OsxBusy(osxIo["reader"][h]))
        /\ One(OsxBusy(osxIo'["writer"][h])) = One(OsxBusy(osxIo["writer"][h]))
    BY <1>5 DEF One
  <2> QED BY <1>0, <1>1, <1>5, <2>1 DEF OsxIos
<1>7. OsxIface(h)' BY <1>0, <1>1, <1>5 DEF OsxIface, Found
<1>8. OsxPasses(h)'
  <2>1. osxIo[w][h] = "use" => ~OsxEnder(osxIo[w][h]) BY DEF OsxEnder
  <2>2. (w = "reader" /\ v = "writer") \/ (w = "writer" /\ v = "reader") OBVIOUS
  <2> QED BY <1>0, <1>1, <1>3, <2>1, <2>2 DEF OsxPasses, OsxIface
<1>9. ASSUME NEW g \in OsxHandle, g # h PROVE OsxIos(g)' /\ OsxIface(g)' /\ OsxPasses(g)'
  <2>1. OsxIos(g) /\ OsxIface(g) /\ OsxPasses(g) BY DEF OsxIs, OsxHandles
  <2> QED BY <1>0, <1>2, <1>3, <1>9, <2>1, OsxFrame
<1>10. OsxEnds' BY <1>0, <1>1, OsxEnding
<1> QED BY <1>4, <1>6, <1>7, <1>8, <1>9, <1>10 DEF OsxIs, OsxHandles

LEMMA OsxReadFails ==
  ASSUME OsxIs, NEW h \in OsxHandle, Osx!ReadFails(h) PROVE OsxIs'
<1>1. /\ osxIo["reader"][h] \in {"run", "pipe"} /\ Osx!IoTo("reader", h, "kick")
      /\ osxOffline' = osxOffline \cup {h}
      /\ UNCHANGED <<there, iface, tested, interest, notices, osxTransport, osxKicked, osxRef, should_kill, runloop, noticed, second, late, osxCrashed>>
  BY DEF Osx!ReadFails, Osx!transportVars, Osx!pastVars
<1>2. OsxIos(h) /\ OsxIface(h) /\ OsxPasses(h) /\ OsxEnds BY DEF OsxIs, OsxHandles
<1>3. /\ osxIo'["reader"][h] = "kick" /\ osxIo'["writer"] = osxIo["writer"]
      /\ \A g \in OsxHandle : g # h => osxIo'["reader"][g] = osxIo["reader"][g]
      /\ osxIo' \in [Osx!Ios -> [OsxHandle -> Osx!Pcs]] /\ osxOffline' \subseteq OsxHandle
  BY <1>1, OsxNames DEF OsxIs, Osx!TypeOK, Osx!IoTo
<1>4. Osx!TypeOK' BY <1>1, <1>3 DEF OsxIs, Osx!TypeOK
<1>5. OsxIos(h)' BY <1>1, <1>2, <1>3 DEF OsxIos, One, OsxBusy, OsxEnder
<1>6. OsxIface(h)' BY <1>1, <1>2, <1>3 DEF OsxIface, Found, OsxEnder
<1>7. ASSUME NEW g \in OsxHandle, g # h PROVE OsxIos(g)' /\ OsxIface(g)' /\ OsxPasses(g)'
  <2>1. OsxIos(g) /\ OsxIface(g) /\ OsxPasses(g) BY DEF OsxIs, OsxHandles
  <2> QED BY <1>1, <1>3, <1>7, <2>1, OsxFrame
<1>8. OsxEnds'
  BY <1>1, <1>2, <1>3, OsxEnding
<1>9. OsxPasses(h)' BY <1>1, <1>2, OsxPassing
<1> QED BY <1>4, <1>5, <1>6, <1>7, <1>8, <1>9 DEF OsxIs, OsxHandles

LEMMA OsxSeeOffline ==
  ASSUME OsxIs, NEW h \in OsxHandle, Osx!SeeOffline(h) PROVE OsxIs'
<1>1. /\ osxIo["writer"][h] = "run" /\ h \in osxOffline /\ Osx!IoTo("writer", h, "kick")
      /\ UNCHANGED <<there, iface, tested, interest, notices, osxTransport, osxKicked, osxOffline, osxRef, should_kill, runloop, noticed, second, late, osxCrashed>>
  BY DEF Osx!SeeOffline, Osx!transportVars, Osx!pastVars
<1>2. OsxIos(h) /\ OsxIface(h) /\ OsxPasses(h) /\ OsxEnds BY DEF OsxIs, OsxHandles
<1>3. /\ osxIo'["writer"][h] = "kick" /\ osxIo'["reader"] = osxIo["reader"]
      /\ \A g \in OsxHandle : g # h => osxIo'["writer"][g] = osxIo["writer"][g]
      /\ osxIo' \in [Osx!Ios -> [OsxHandle -> Osx!Pcs]]
  BY <1>1, OsxNames DEF OsxIs, Osx!TypeOK, Osx!IoTo
<1>4. Osx!TypeOK' BY <1>1, <1>3 DEF OsxIs, Osx!TypeOK
<1>5. OsxIos(h)' BY <1>1, <1>2, <1>3 DEF OsxIos, One, OsxBusy, OsxEnder
<1>6. OsxIface(h)' BY <1>1, <1>2, <1>3 DEF OsxIface, Found, OsxEnder
<1>7. ASSUME NEW g \in OsxHandle, g # h PROVE OsxIos(g)' /\ OsxIface(g)' /\ OsxPasses(g)'
  <2>1. OsxIos(g) /\ OsxIface(g) /\ OsxPasses(g) BY DEF OsxIs, OsxHandles
  <2> QED BY <1>1, <1>3, <1>7, <2>1, OsxFrame
<1>8. OsxEnds'
  BY <1>1, <1>2, <1>3, OsxEnding
<1>9. OsxPasses(h)' BY <1>1, <1>2, OsxPassing
<1> QED BY <1>4, <1>5, <1>6, <1>7, <1>8, <1>9 DEF OsxIs, OsxHandles

LEMMA OsxAdded ==
  ASSUME OsxIs, NEW h \in OsxHandle, Osx!AndroidInterfaceAdded(h) PROVE OsxIs'
<1>1. /\ there[h] = "found" /\ there' = [there EXCEPT ![h] = "opened"]
      /\ \/ /\ iface' = [iface EXCEPT ![h] = "open"]
            /\ osxTransport' = [osxTransport EXCEPT ![h] = "queued"]
         \/ UNCHANGED <<iface, osxTransport>>
      /\ UNCHANGED <<tested, interest, notices, osxKicked, osxOffline, osxRef, osxIo, should_kill, runloop, noticed, second, late, osxCrashed>>
  BY DEF Osx!AndroidInterfaceAdded, Osx!pastVars
<1>2. OsxIos(h) /\ OsxIface(h) /\ OsxPasses(h) /\ OsxEnds BY DEF OsxIs, OsxHandles
<1>3. /\ there'[h] = "opened" /\ iface'[h] \in {"none", "open"} /\ osxTransport'[h] \in {"none", "queued"}
      /\ \A g \in OsxHandle : g # h =>
           there'[g] = there[g] /\ iface'[g] = iface[g] /\ osxTransport'[g] = osxTransport[g]
  BY <1>1, <1>2 DEF OsxIs, Osx!TypeOK, OsxIface
<1>4. /\ there' \in [OsxHandle -> {"no", "found", "opened", "gone"}]
      /\ iface' \in [OsxHandle -> {"none", "open", "released"}]
      /\ osxTransport' \in [OsxHandle -> {"none", "queued", "listed", "removed"}]
  BY <1>1 DEF OsxIs, Osx!TypeOK
<1>5. Osx!TypeOK' BY <1>1, <1>4 DEF OsxIs, Osx!TypeOK
<1>6. h \notin osxKicked /\ osxTransport[h] = "none" BY <1>1, <1>2 DEF OsxIos, OsxIface
<1>7. OsxIos(h)' BY <1>1, <1>2, <1>3, <1>6 DEF OsxIos
<1>8. OsxIface(h)' BY <1>1, <1>2, <1>3, <1>6 DEF OsxIface, Found
<1>9. ASSUME NEW g \in OsxHandle, g # h PROVE OsxIos(g)' /\ OsxIface(g)' /\ OsxPasses(g)'
  <2>1. OsxIos(g) /\ OsxIface(g) /\ OsxPasses(g) BY DEF OsxIs, OsxHandles
  <2> QED BY <1>1, <1>3, <1>9, <2>1, OsxFrame
<1>10. OsxEnds' BY <1>1, <1>2, <1>3, OsxEnding
<1>11. OsxPasses(h)' BY <1>1, <1>2, OsxPassing
<1> QED BY <1>5, <1>7, <1>8, <1>9, <1>10, <1>11 DEF OsxIs, OsxHandles

LEMMA OsxNotify ==
  ASSUME OsxIs, NEW h \in OsxHandle, Osx!AndroidInterfaceNotify(h) PROVE OsxIs'
<1>1. /\ h \in notices /\ noticed' = noticed \cup {h} /\ notices' = notices \ {h} /\ interest' = interest \ {h}
      /\ tested' = tested \/ (iface[h] = "open" /\ tested' = tested \cup {<<"loop", h>>})
      /\ UNCHANGED <<there, iface, osxTransport, osxKicked, osxOffline, osxRef, osxIo, should_kill, runloop, second, late, osxCrashed>>
  BY DEF Osx!AndroidInterfaceNotify, Osx!Tests, Osx!transportVars, Osx!pastVars
<1>2. OsxIos(h) /\ OsxIface(h) /\ OsxPasses(h) /\ OsxEnds BY DEF OsxIs, OsxHandles
<1>3. /\ tested' \subseteq (Osx!Ios \cup {"loop"}) \X OsxHandle
      /\ \A v, g : v # "loop" \/ g # h => (<<v, g>> \in tested' <=> <<v, g>> \in tested)
  BY <1>1 DEF OsxIs, Osx!TypeOK
<1>4. Osx!TypeOK' BY <1>1, <1>3 DEF OsxIs, Osx!TypeOK
<1>5. OsxIos(h)' BY <1>1, <1>2 DEF OsxIos
<1>6. OsxIface(h)' BY <1>1, <1>2, <1>3 DEF OsxIface, Found
<1>7. ASSUME NEW g \in OsxHandle, g # h PROVE OsxIos(g)' /\ OsxIface(g)' /\ OsxPasses(g)'
  <2>1. OsxIos(g) /\ OsxIface(g) /\ OsxPasses(g) BY DEF OsxIs, OsxHandles
  <2> QED BY <1>1, <1>3, <1>7, <2>1, OsxFrame
<1>8. OsxEnds' BY <1>1, <1>2, OsxEnding
<1>9. OsxPasses(h)' BY <1>1, <1>2, OsxPassing
<1> QED BY <1>4, <1>5, <1>6, <1>7, <1>8, <1>9 DEF OsxIs, OsxHandles

LEMMA OsxNotifyKicks ==
  ASSUME OsxIs, NEW h \in OsxHandle, Osx!NotifyKicks(h) PROVE OsxIs'
<1>1. /\ <<"loop", h>> \in tested /\ tested' = tested \ {<<"loop", h>>}
      /\ iface' = [iface EXCEPT ![h] = "released"]
      /\ UNCHANGED <<there, interest, notices, osxTransport, osxKicked, osxOffline, osxRef, osxIo, should_kill, runloop, noticed, late>>
      /\ second' = second \/ (iface[h] = "released" /\ second' = second \cup {h})
  BY DEF Osx!NotifyKicks, Osx!Releases, Osx!transportVars, Osx!pastVars
<1>2. OsxIos(h) /\ OsxIface(h) /\ OsxPasses(h) /\ OsxEnds BY DEF OsxIs, OsxHandles
<1>3. /\ there[h] = "gone" /\ h \in noticed
      /\ iface[h] = "released" => h \in osxKicked
  BY <1>1, <1>2 DEF OsxIface, Found
<1>4. /\ iface'[h] = "released" /\ \A g \in OsxHandle : g # h => iface'[g] = iface[g]
      /\ iface' \in [OsxHandle -> {"none", "open", "released"}]
      /\ tested' \subseteq (Osx!Ios \cup {"loop"}) \X OsxHandle
      /\ \A v, g : v # "loop" \/ g # h => (<<v, g>> \in tested' <=> <<v, g>> \in tested)
  BY <1>1 DEF OsxIs, Osx!TypeOK
<1>5. osxCrashed' \in BOOLEAN /\ second' \subseteq OsxHandle
  BY <1>1 DEF OsxIs, Osx!TypeOK, Osx!NotifyKicks, Osx!Releases, Osx!MayCrash
<1>6. Osx!TypeOK' BY <1>1, <1>4, <1>5 DEF OsxIs, Osx!TypeOK
<1>7. OsxIos(h)' BY <1>1, <1>2 DEF OsxIos
<1>8. OsxIface(h)' BY <1>1, <1>2, <1>3, <1>4 DEF OsxIface, Found
<1>9. ASSUME NEW g \in OsxHandle, g # h PROVE OsxIos(g)' /\ OsxIface(g)' /\ OsxPasses(g)'
  <2>1. OsxIos(g) /\ OsxIface(g) /\ OsxPasses(g) BY DEF OsxIs, OsxHandles
  <2> QED BY <1>1, <1>4, <1>9, <2>1, OsxFrame
<1>10. OsxEnds' BY <1>1, <1>2 DEF OsxEnds
<1>11. OsxPasses(h)' BY <1>1, <1>2, <1>3 DEF OsxPasses, Late
<1> QED BY <1>6, <1>7, <1>8, <1>9, <1>10, <1>11 DEF OsxIs, OsxHandles

LEMMA OsxKillLoop ==
  ASSUME OsxIs, Osx!should_kill_device_loop \/ Osx!onTimerFired PROVE OsxIs'
<1>1. UNCHANGED <<there, iface, tested, interest, notices, osxTransport, osxKicked, osxOffline, osxRef, osxIo, noticed, second, late, osxCrashed>>
  BY DEF Osx!should_kill_device_loop, Osx!onTimerFired, Osx!transportVars, Osx!pastVars
<1>2. /\ should_kill' \in BOOLEAN /\ runloop' \in {"runs", "stopped", "over"}
  BY DEF OsxIs, Osx!TypeOK, Osx!should_kill_device_loop, Osx!onTimerFired
<1>3. (should_kill => should_kill') /\ (runloop' # "runs" => runloop # "runs" \/ should_kill')
  BY DEF Osx!should_kill_device_loop, Osx!onTimerFired
<1>4. Osx!TypeOK' BY <1>1, <1>2 DEF OsxIs, Osx!TypeOK
<1>5. ASSUME NEW h \in OsxHandle PROVE OsxIos(h)' /\ OsxIface(h)' /\ OsxPasses(h)'
  <2>1. OsxIos(h) /\ OsxIface(h) /\ OsxPasses(h) BY DEF OsxIs, OsxHandles
  <2> QED BY <1>1, <1>3, <2>1, OsxFrame
<1>6. OsxEnds' BY <1>1, <1>3, OsxEnding DEF OsxIs
<1> QED BY <1>4, <1>5, <1>6 DEF OsxIs, OsxHandles

LEMMA OsxCleanup == ASSUME OsxIs, Osx!usb_cleanup PROVE OsxIs'
<1>1. /\ runloop = "stopped" /\ runloop' = "over" /\ interest' = {} /\ notices' = {}
      /\ osxKicked' = osxKicked \cup Osx!Unkicked
      /\ iface' = [h \in OsxHandle |-> IF h \in Osx!Unkicked /\ iface[h] = "open" THEN "released" ELSE iface[h]]
      /\ UNCHANGED <<there, tested, osxTransport, osxOffline, osxRef, osxIo, should_kill, noticed, second, late, osxCrashed>>
  BY DEF Osx!usb_cleanup, Osx!pastVars
<1>2. /\ OsxEnds /\ should_kill
  BY <1>1 DEF OsxIs, OsxEnds
<1>3. \A h \in Osx!Unkicked : h \in OsxHandle /\ osxTransport[h] = "listed" /\ h \notin osxKicked
  BY DEF Osx!Unkicked
<1>4. iface' \in [OsxHandle -> {"none", "open", "released"}] BY <1>1 DEF OsxIs, Osx!TypeOK
<1>5. osxKicked' \subseteq OsxHandle BY <1>1, <1>3 DEF OsxIs, Osx!TypeOK
<1>6. Osx!TypeOK' BY <1>1, <1>4, <1>5 DEF OsxIs, Osx!TypeOK
<1>7. ASSUME NEW h \in OsxHandle PROVE OsxIos(h)' /\ OsxIface(h)' /\ OsxPasses(h)'
  <2>1. OsxIos(h) /\ OsxIface(h) /\ OsxPasses(h) BY DEF OsxIs, OsxHandles
  <2>2. OsxIos(h)' BY <1>1, <1>3, <2>1 DEF OsxIos
  <2>3. /\ iface'[h] = iface[h] \/ (iface[h] = "open" /\ iface'[h] = "released")
        /\ h \in osxKicked' /\ iface'[h] = "open" => h \in osxKicked /\ iface[h] = "open"
        /\ iface[h] = "open" /\ iface'[h] = "released" => h \in osxKicked' /\ h \notin osxKicked
        /\ h \in osxKicked => h \in osxKicked'
    BY <1>1, <1>3 DEF OsxIs, Osx!TypeOK
  <2>4. OsxIface(h)'
    <3>1. \A w \in {"reader", "writer"} : Found(w, h) => h \in osxKicked
      BY <2>1 DEF OsxIos, OsxIface
    <3>2. \A u : Found(u, h)' <=> Found(u, h) BY <1>1 DEF Found
    <3> QED BY <1>1, <1>2, <2>1, <2>3, <3>1, <3>2 DEF OsxIface
  <2>5. OsxPasses(h)' BY <1>1, <2>1, OsxPassing
  <2> QED BY <2>2, <2>4, <2>5
<1>8. OsxEnds' BY <1>1, <1>2, OsxEnding
<1> QED BY <1>6, <1>7, <1>8 DEF OsxIs, OsxHandles

(* The first of the two to ask kicks, and only it; the interface is        *)
(* released by it or was before.                                            *)
LEMMA OsxTestKicked ==
  ASSUME OsxIs, NEW w \in {"reader", "writer"}, NEW h \in OsxHandle, Osx!TestKicked(w, h)
  PROVE  OsxIs'
<1> PICK v : v \in {"reader", "writer"} /\ v # w
  OBVIOUS
<1>1. /\ osxIo[w][h] = "kick" /\ osxKicked' = osxKicked \cup {h}
      /\ UNCHANGED <<there, iface, interest, notices, osxTransport, osxOffline, osxRef, should_kill, runloop, noticed, second, late, osxCrashed>>
      /\ \/ /\ h \notin osxKicked /\ Osx!IoTo(w, h, "usbkick")
            /\ \/ iface[h] = "open" /\ tested' = tested \cup {<<w, h>>}
               \/ iface[h] # "open" /\ tested' = tested
         \/ h \in osxKicked /\ tested' = tested /\ Osx!IoTo(w, h, "unref")
  BY DEF Osx!TestKicked, Osx!Tests, Osx!FirstKick, Osx!pastVars
<1>2. OsxIos(h) /\ OsxIface(h) /\ OsxPasses(h) /\ OsxEnds BY DEF OsxIs, OsxHandles
<1>3. /\ osxIo'[w][h] \in {"usbkick", "unref"} /\ osxIo'[v][h] = osxIo[v][h]
      /\ osxIo'[w][h] = "usbkick" => h \notin osxKicked
      /\ \A g \in OsxHandle : g # h => /\ osxIo'["reader"][g] = osxIo["reader"][g]
                                       /\ osxIo'["writer"][g] = osxIo["writer"][g]
      /\ osxIo' \in [Osx!Ios -> [OsxHandle -> Osx!Pcs]]
  BY <1>1, OsxNames DEF OsxIs, Osx!TypeOK, Osx!IoTo
<1>4. /\ tested' \subseteq (Osx!Ios \cup {"loop"}) \X OsxHandle
      /\ \A u, g : u # w \/ g # h => (<<u, g>> \in tested' <=> <<u, g>> \in tested)
      /\ <<w, h>> \notin tested
      /\ <<w, h>> \in tested' => h \notin osxKicked /\ iface[h] = "open" /\ osxIo'[w][h] = "usbkick"
      /\ h \notin osxKicked /\ iface[h] = "open" => <<w, h>> \in tested'
  <2>1. <<w, h>> \notin tested BY <1>1, <1>2 DEF OsxIface, Found
  <2>2. tested' \subseteq (Osx!Ios \cup {"loop"}) \X OsxHandle
    BY <1>1, OsxNames DEF OsxIs, Osx!TypeOK
  <2>3. Osx!IoTo(w, h, "usbkick") => osxIo'[w][h] = "usbkick"
    BY OsxNames DEF OsxIs, Osx!TypeOK, Osx!IoTo
  <2> QED BY <1>1, <2>1, <2>2, <2>3
<1>5. Osx!TypeOK' BY <1>1, <1>3, <1>4 DEF OsxIs, Osx!TypeOK
<1>6. OsxIos(h)'
  <2>1. /\ \A u \in {"reader", "writer"} : OsxBusy(osxIo'[u][h]) <=> OsxBusy(osxIo[u][h])
        /\ \A u \in {"reader", "writer"} : osxIo'[u][h] = "off" <=> osxIo[u][h] = "off"
        /\ \A u \in {"reader", "writer"} : OsxEnder(osxIo'[u][h]) <=> OsxEnder(osxIo[u][h])
    BY <1>1, <1>3 DEF OsxBusy, OsxEnder
  <2>2. /\ One(OsxBusy(osxIo'["reader"][h])) = One(OsxBusy(osxIo["reader"][h]))
        /\ One(OsxBusy(osxIo'["writer"][h])) = One(OsxBusy(osxIo["writer"][h]))
    BY <2>1 DEF One, OsxBusy
  <2>3. osxRef'[h] = One(OsxBusy(osxIo'["reader"][h])) + One(OsxBusy(osxIo'["writer"][h]))
    BY <1>1, <1>2, <2>2 DEF OsxIos
  <2>4. osxTransport[h] = "listed" BY <1>1, <1>2 DEF OsxIos, OsxIs, Osx!TypeOK
  <2>5. osxIo'[w][h] = "usbkick" => osxIo[v][h] # "usbkick" BY <1>2, <1>3 DEF OsxIos
  <2>6. ~(osxIo'["reader"][h] = "usbkick" /\ osxIo'["writer"][h] = "usbkick") BY <1>3, <2>5
  <2> QED BY <1>1, <1>2, <2>1, <2>3, <2>4, <2>6 DEF OsxIos
<1>7. OsxIface(h)'
  <2>1. \A u \in {"reader", "writer"} : Found(u, h)' => osxIo'[u][h] = "usbkick"
    BY <1>2, <1>3, <1>4 DEF OsxIface, Found
  <2>2. \A u \in {"reader", "writer"} : Found(u, h)' /\ iface[h] = "released" => h \in noticed
    BY <1>2, <1>4 DEF OsxIface, Found
  <2>3. iface[h] = "open" => Found("reader", h)' \/ Found("writer", h)'
    BY <1>2, <1>4 DEF OsxIface, Found
  <2>4. Found("loop", h)' => Found("loop", h) BY <1>4 DEF Found
  <2>5. OsxEnder(osxIo'["reader"][h]) <=> OsxEnder(osxIo["reader"][h])
    BY <1>1, <1>3 DEF OsxEnder
  <2> QED BY <1>1, <1>2, <2>1, <2>2, <2>3, <2>4, <2>5 DEF OsxIface
<1>8. ASSUME NEW g \in OsxHandle, g # h PROVE OsxIos(g)' /\ OsxIface(g)' /\ OsxPasses(g)'
  <2>1. OsxIos(g) /\ OsxIface(g) /\ OsxPasses(g) BY DEF OsxIs, OsxHandles
  <2> QED BY <1>1, <1>3, <1>4, <1>8, <2>1, OsxFrame
<1>9. OsxEnds' BY <1>1, <1>2, OsxEnding
<1>10. OsxPasses(h)' BY <1>1, <1>2, OsxPassing
<1> QED BY <1>5, <1>6, <1>7, <1>8, <1>9, <1>10 DEF OsxIs, OsxHandles

LEMMA OsxUsbKick ==
  ASSUME OsxIs, NEW w \in {"reader", "writer"}, NEW h \in OsxHandle, Osx!UsbKick(w, h)
  PROVE  OsxIs'
<1> PICK v : v \in {"reader", "writer"} /\ v # w
  OBVIOUS
<1>1. /\ osxIo[w][h] = "usbkick" /\ Osx!IoTo(w, h, "unref")
      /\ UNCHANGED <<there, interest, notices, osxTransport, osxKicked, osxOffline, osxRef, should_kill, runloop, noticed, late>>
      /\ \/ <<w, h>> \in tested /\ tested' = tested \ {<<w, h>>} /\ iface' = [iface EXCEPT ![h] = "released"]
         \/ <<w, h>> \notin tested /\ tested' = tested /\ iface' = iface
      /\ second' = second \/ (<<w, h>> \in tested /\ iface[h] = "released" /\ second' = second \cup {h})
  BY DEF Osx!UsbKick, Osx!Releases, Osx!transportVars, Osx!pastVars
<1>2. OsxIos(h) /\ OsxIface(h) /\ OsxPasses(h) /\ OsxEnds BY DEF OsxIs, OsxHandles
<1>3. /\ osxIo'[w][h] = "unref" /\ osxIo'[v][h] = osxIo[v][h] /\ osxIo[v][h] # "usbkick"
      /\ \A g \in OsxHandle : g # h => /\ osxIo'["reader"][g] = osxIo["reader"][g]
                                       /\ osxIo'["writer"][g] = osxIo["writer"][g]
      /\ osxIo' \in [Osx!Ios -> [OsxHandle -> Osx!Pcs]]
  <2>1. osxIo[v][h] # "usbkick" BY <1>1, <1>2 DEF OsxIos
  <2> QED BY <1>1, <2>1, OsxNames DEF OsxIs, Osx!TypeOK, Osx!IoTo
<1>4. /\ tested' \subseteq (Osx!Ios \cup {"loop"}) \X OsxHandle
      /\ iface' \in [OsxHandle -> {"none", "open", "released"}]
      /\ \A g \in OsxHandle : g # h => iface'[g] = iface[g]
      /\ \A u, g : u # w \/ g # h => (<<u, g>> \in tested' <=> <<u, g>> \in tested)
      /\ <<w, h>> \notin tested'
  BY <1>1 DEF OsxIs, Osx!TypeOK
<1>5. <<v, h>> \notin tested BY <1>2, <1>3 DEF OsxIface, Found
<1>6. iface'[h] # "open" /\ (iface'[h] = "none" => iface[h] = "none") /\ h \in osxKicked
  <2>1. h \in osxKicked BY <1>1, <1>2 DEF OsxIos
  <2>2. iface[h] = "open" => <<w, h>> \in tested BY <1>2, <1>5, <2>1 DEF OsxIface, Found
  <2>3. iface'[h] = "released" \/ (<<w, h>> \notin tested /\ iface'[h] = iface[h])
    BY <1>1 DEF OsxIs, Osx!TypeOK
  <2> QED BY <2>1, <2>2, <2>3
<1>7. osxTransport[h] = "listed" BY <1>1, <1>2 DEF OsxIos, OsxIs, Osx!TypeOK
<1>8. osxCrashed' \in BOOLEAN /\ second' \subseteq OsxHandle
  BY <1>1 DEF OsxIs, Osx!TypeOK, Osx!UsbKick, Osx!Releases, Osx!MayCrash
<1>9. Osx!TypeOK' BY <1>1, <1>3, <1>4, <1>8 DEF OsxIs, Osx!TypeOK
<1>10. OsxIos(h)'
  <2>1. /\ \A u \in {"reader", "writer"} : OsxBusy(osxIo'[u][h]) <=> OsxBusy(osxIo[u][h])
        /\ \A u \in {"reader", "writer"} : osxIo'[u][h] = "off" <=> osxIo[u][h] = "off"
        /\ \A u \in {"reader", "writer"} : OsxEnder(osxIo'[u][h]) <=> OsxEnder(osxIo[u][h])
    BY <1>1, <1>3 DEF OsxBusy, OsxEnder
  <2>2. /\ One(OsxBusy(osxIo'["reader"][h])) = One(OsxBusy(osxIo["reader"][h]))
        /\ One(OsxBusy(osxIo'["writer"][h])) = One(OsxBusy(osxIo["writer"][h]))
    BY <2>1 DEF One, OsxBusy
  <2>3. osxRef'[h] = One(OsxBusy(osxIo'["reader"][h])) + One(OsxBusy(osxIo'["writer"][h]))
    BY <1>1, <1>2, <2>2 DEF OsxIos
  <2>4. ~(osxIo'["reader"][h] = "usbkick" /\ osxIo'["writer"][h] = "usbkick") BY <1>3
  <2> QED BY <1>1, <1>2, <1>6, <1>7, <2>1, <2>3, <2>4 DEF OsxIos
<1>11. OsxIface(h)'
  <2>1. \A u \in {"reader", "writer"} : ~Found(u, h)' BY <1>4, <1>5 DEF Found
  <2>2. Found("loop", h)' => Found("loop", h) BY <1>4 DEF Found
  <2>3. there[h] \notin {"no", "found"} BY <1>2, <1>7 DEF OsxIface
  <2>4. OsxEnder(osxIo["reader"][h])
    <3>1. OsxEnder(osxIo[w][h]) BY <1>1 DEF OsxEnder
    <3> QED BY <1>2, <3>1 DEF OsxIos
  <2>5. OsxEnder(osxIo'["reader"][h])
    <3>1. OsxEnder(osxIo'[w][h]) BY <1>3 DEF OsxEnder
    <3> QED BY <1>3, <2>4, <3>1
  <2> QED BY <1>1, <1>2, <1>6, <2>1, <2>2, <2>3, <2>5 DEF OsxIface
<1>12. ASSUME NEW g \in OsxHandle, g # h PROVE OsxIos(g)' /\ OsxIface(g)' /\ OsxPasses(g)'
  <2>1. OsxIos(g) /\ OsxIface(g) /\ OsxPasses(g) BY DEF OsxIs, OsxHandles
  <2> QED BY <1>1, <1>3, <1>4, <1>12, <2>1, OsxFrame
<1>13. OsxEnds' BY <1>1, <1>2, OsxEnding
<1>14. OsxPasses(h)' BY <1>1, <1>2, <1>6 DEF OsxPasses, Late, OsxIface, Found
<1> QED BY <1>9, <1>10, <1>11, <1>12, <1>13, <1>14 DEF OsxIs, OsxHandles

LEMMA OsxUnref ==
  ASSUME OsxIs, NEW w \in {"reader", "writer"}, NEW h \in OsxHandle, Osx!Unref(w, h)
  PROVE  OsxIs'
<1> PICK v : v \in {"reader", "writer"} /\ v # w
  OBVIOUS
<1>1. /\ osxIo[w][h] = "unref" /\ Osx!IoTo(w, h, "over")
      /\ osxRef' = [osxRef EXCEPT ![h] = @ - 1]
      /\ UNCHANGED <<there, iface, tested, interest, notices, osxKicked, osxOffline, should_kill, runloop, noticed, second, late, osxCrashed>>
  BY DEF Osx!Unref, Osx!pastVars
<1>2. OsxIos(h) /\ OsxIface(h) /\ OsxPasses(h) /\ OsxEnds BY DEF OsxIs, OsxHandles
<1>3. /\ osxIo'[w][h] = "over" /\ osxIo'[v][h] = osxIo[v][h]
      /\ \A g \in OsxHandle : g # h => /\ osxIo'["reader"][g] = osxIo["reader"][g]
                                       /\ osxIo'["writer"][g] = osxIo["writer"][g]
      /\ osxIo' \in [Osx!Ios -> [OsxHandle -> Osx!Pcs]]
  BY <1>1, OsxNames DEF OsxIs, Osx!TypeOK, Osx!IoTo
<1>4. osxTransport[h] = "listed" /\ osxIo[v][h] # "off" BY <1>1, <1>2 DEF OsxIos, OsxIs, Osx!TypeOK
<1>5. osxRef[h] = 1 + One(OsxBusy(osxIo[v][h]))
  <2>1. osxRef[h] = One(OsxBusy(osxIo[w][h])) + One(OsxBusy(osxIo[v][h]))
    <3>1. One(OsxBusy(osxIo["reader"][h])) \in Nat /\ One(OsxBusy(osxIo["writer"][h])) \in Nat
      BY DEF One
    <3> QED BY <1>2, <3>1 DEF OsxIos
  <2>2. One(OsxBusy(osxIo[w][h])) = 1 BY <1>1 DEF One, OsxBusy
  <2> QED BY <2>1, <2>2
<1>6. One(OsxBusy(osxIo[v][h])) \in {0, 1} BY DEF One
<1>7. /\ osxRef'[h] = One(OsxBusy(osxIo[v][h])) /\ osxRef' \in [OsxHandle -> 0..2]
      /\ \A g \in OsxHandle : g # h => osxRef'[g] = osxRef[g]
  BY <1>1, <1>5, <1>6 DEF OsxIs, Osx!TypeOK
<1>8. osxRef'[h] = One(OsxBusy(osxIo'["reader"][h])) + One(OsxBusy(osxIo'["writer"][h]))
  <2>1. One(OsxBusy(osxIo'[w][h])) = 0 BY <1>3 DEF One, OsxBusy
  <2>2. One(OsxBusy(osxIo'[v][h])) = One(OsxBusy(osxIo[v][h])) BY <1>3
  <2>3. osxRef'[h] = One(OsxBusy(osxIo'[w][h])) + One(OsxBusy(osxIo'[v][h]))
    BY <1>6, <1>7, <2>1, <2>2
  <2>4. CASE w = "reader" BY <2>3, <2>4
  <2>5. CASE w = "writer"
    <3>1. One(OsxBusy(osxIo'["reader"][h])) \in {0, 1} /\ One(OsxBusy(osxIo'["writer"][h])) \in {0, 1}
      BY DEF One
    <3> QED BY <2>3, <2>5, <3>1
  <2> QED BY <2>4, <2>5
<1>9. /\ osxTransport' \in [OsxHandle -> {"none", "queued", "listed", "removed"}]
      /\ osxTransport'[h] \in {"listed", "removed"}
      /\ osxTransport'[h] = "removed" => osxIo[v][h] = "over"
      /\ \A g \in OsxHandle : g # h => osxTransport'[g] = osxTransport[g]
  <2>1. CASE osxRef[h] = 1
    <3>1. osxTransport' = [osxTransport EXCEPT ![h] = "removed"] BY <2>1 DEF Osx!Unref
    <3>2. One(OsxBusy(osxIo[v][h])) = 0 BY <1>5, <1>6, <2>1
    <3>3. osxIo[v][h] = "over" BY <1>4, <3>2 DEF One, OsxBusy
    <3> QED BY <3>1, <3>3 DEF OsxIs, Osx!TypeOK
  <2>2. CASE osxRef[h] # 1
    <3>1. osxTransport' = osxTransport BY <2>2 DEF Osx!Unref
    <3> QED BY <1>4, <3>1 DEF OsxIs, Osx!TypeOK
  <2> QED BY <2>1, <2>2
<1>10. Osx!TypeOK' BY <1>1, <1>3, <1>7, <1>9 DEF OsxIs, Osx!TypeOK
<1>11. OsxIos(h)'
  <2>1. osxTransport'[h] = "removed" => osxIo'["reader"][h] = "over" /\ osxIo'["writer"][h] = "over"
    BY <1>3, <1>9
  <2>2. osxIo'["reader"][h] # "off" /\ osxIo'["writer"][h] # "off" BY <1>3, <1>4
  <2>3. \A u \in {"reader", "writer"} : osxIo'[u][h] \in {"usbkick", "unref", "over"} => h \in osxKicked
    BY <1>1, <1>2, <1>3 DEF OsxIos
  <2>4. ~(osxIo'["reader"][h] = "usbkick" /\ osxIo'["writer"][h] = "usbkick") BY <1>3
  <2>5. osxTransport'[h] \notin {"none", "queued"} BY <1>9
  <2>6. osxKicked' = osxKicked /\ osxOffline' = osxOffline BY <1>1
  <2>7. \A u \in {"reader", "writer"} : OsxEnder(osxIo'[u][h]) <=> OsxEnder(osxIo[u][h])
    BY <1>1, <1>3 DEF OsxEnder
  <2>8. /\ OsxEnder(osxIo["writer"][h]) => h \in osxOffline
        /\ h \in osxOffline => OsxEnder(osxIo["reader"][h])
    BY <1>2 DEF OsxIos
  <2> QED BY <1>8, <2>1, <2>2, <2>3, <2>4, <2>5, <2>6, <2>7, <2>8 DEF OsxIos
<1>12. OsxIface(h)'
  <2>1. <<w, h>> \notin tested BY <1>1, <1>2 DEF OsxIface, Found
  <2>2. \A u \in {"reader", "writer"} : Found(u, h) => osxIo'[u][h] = "usbkick"
    BY <1>2, <1>3, <2>1 DEF OsxIface, Found
  <2>3. there[h] \notin {"no", "found"} BY <1>2, <1>4 DEF OsxIface
  <2>4. \A u : Found(u, h)' <=> Found(u, h) BY <1>1 DEF Found
  <2>5. OsxEnder(osxIo'["reader"][h]) <=> OsxEnder(osxIo["reader"][h])
    BY <1>1, <1>3 DEF OsxEnder
  <2> QED BY <1>1, <1>2, <2>2, <2>3, <2>4, <2>5 DEF OsxIface
<1>13. ASSUME NEW g \in OsxHandle, g # h PROVE OsxIos(g)' /\ OsxIface(g)' /\ OsxPasses(g)'
  <2>1. OsxIos(g) /\ OsxIface(g) /\ OsxPasses(g) BY DEF OsxIs, OsxHandles
  <2> QED BY <1>1, <1>3, <1>7, <1>9, <1>13, <2>1, OsxFrame
<1>14. OsxEnds' BY <1>1, <1>2, OsxEnding
<1>15. OsxPasses(h)' BY <1>1, <1>2, OsxPassing
<1> QED BY <1>10, <1>11, <1>12, <1>13, <1>14, <1>15 DEF OsxIs, OsxHandles

LEMMA OsxStep == ASSUME OsxIs, Osx!Next PROVE OsxIs'
<1>1. CASE Osx!RunLoop
  BY <1>1, OsxKillLoop, OsxCleanup, OsxNotifyKicks DEF Osx!RunLoop
<1>2. ASSUME NEW h \in OsxHandle, Osx!Io(h) PROVE OsxIs'
  <2>1. ASSUME NEW w \in Osx!Ios, Osx!Ways(w, h) PROVE OsxIs'
    <3>1. w \in {"reader", "writer"} BY OsxNames
    <3> QED BY <2>1, <3>1, OsxTransfers, OsxReadFails, OsxSeeOffline, OsxTestKicked,
           OsxUsbKick, OsxUnref
        DEF Osx!Ways, Osx!Ends
  <2> QED BY <1>2, <2>1 DEF Osx!Io
<1> QED
  BY <1>1, <1>2, OsxKillLoop, OsxPlug, OsxUnplug, OsxAdded, OsxInterest, OsxNotify, OsxAddTransport
  DEF Osx!Next

LEMMA OsxSafe == ASSUME OsxIs PROVE Osx!ReleasedOnce
<1>1. ASSUME NEW h \in OsxHandle, Osx!Ios \X {h} \subseteq tested PROVE FALSE
  <2>1. <<"reader", h>> \in tested /\ <<"writer", h>> \in tested BY <1>1, OsxNames
  <2> QED BY <2>1 DEF OsxIs, OsxHandles, OsxIface, OsxIos, Found
<1>2. ASSUME NEW h \in OsxHandle, osxTransport[h] = "removed", iface[h] = "open" PROVE FALSE
  <2>1. OsxIos(h) /\ OsxIface(h) /\ OsxPasses(h) BY DEF OsxIs, OsxHandles
  <2>2. osxIo["reader"][h] = "over" /\ osxIo["writer"][h] = "over" /\ h \in osxKicked
    BY <1>2, <2>1 DEF OsxIos
  <2> QED BY <1>2, <2>1, <2>2 DEF OsxIface
<1>3. \A h \in OsxHandle : OsxPasses(h) /\ OsxIface(h) BY DEF OsxIs, OsxHandles
<1>4. \A h \in second : h \in OsxHandle BY DEF OsxIs, Osx!TypeOK
<1> QED BY <1>1, <1>2, <1>3, <1>4 DEF Osx!ReleasedOnce, OsxPasses, OsxIface, Late

-----------------------------------------------------------------------------
(* The file service and its commands.  What is said of a session i is said *)
(* of its values: c of the command, s of the service, u and d of the two   *)
(* directions, q of the paths that failed quietly, Y of the copies; and of *)
(* the files F of the device, what is in them X, and who touched them T.   *)
SyncObjects == Sessions \cup {Old}
Chunks == SyncObjects \X (1..Size)
Message == [id : {"STAT", "LIST", "SEND", "RECV", "QUIT", "DATA", "DONE", "DENT", "OKAY", "FAIL"},
            path : Paths \cup {NoFile}, k : Seq(Chunks)]
Service == [at : {"command", "list", "open", "data", "read", "ended"}, path : Paths \cup {NoFile},
            fd : SyncObjects \cup {NoFile}, pos : Nat, left : Seq(Paths)]
Settled == {"ok", "failed", "hung"}
Calm == {"new", "list", "next", "wait-transport", "wait-sync"}
Asking == {"ask", "answer"}
Sends == {"data", "status", "wait-done", "threw"}
Client == [at : Settled \cup Calm \cup Asking \cup Sends \cup {"entries", "receive"},
           op : Sync!Op, ask : Seq(Paths), asked : Nat, todo : Seq(Paths), files : SUBSET Paths,
           same : SUBSET (Paths \cup {NoFile}), n : 0..Size, end : {"open", "closed"}]
SyncTyped ==
  /\ fs \in [Paths -> SyncObjects \cup {NoFile}] /\ touched \in [Paths -> SUBSET Sessions]
  /\ content \in [Paths -> [SyncObjects -> Seq(Chunks)]]
  /\ srv \in [Sessions -> Service] /\ cli \in [Sessions -> Client]
  /\ copy \in [Sessions -> [Paths -> Seq(Chunks)]]
  /\ up \in [Sessions -> Seq(Message)] /\ down \in [Sessions -> Seq(Message)]
  /\ quiet \in [Sessions -> SUBSET Paths] /\ unread \subseteq Sessions

Pulling(c) == c.op \in {"pull", "pulldir"}
Serving(s) == s.at \in {"open", "data"}
AtIt(s, p) == Serving(s) /\ s.path = p
InTodo(c, p) == \E k \in 1..Len(c.todo) : c.todo[k] = p
Only(d, ids) == \A k \in 1..Len(d) : d[k].id \in ids

(* What is in the stream follows from what the service is doing, each      *)
(* message from the one before.                                            *)
No(m) == IF m.id = "SEND" THEN 0 ELSE m.k[1][2]
Carries(i, m, n) == m.k = <<<<i, n>>>> /\ n \in 1..Size
Link(i, q, a, b) ==
  \/ a.id = "STAT" /\ b.id = "STAT"
  \/ /\ a.id \in {"SEND", "DATA"} /\ b.id \in {"DATA", "DONE"} /\ b.path = a.path
     /\ b.id = "DATA" => Carries(i, b, No(a) + 1)
     /\ b.id = "DONE" => No(a) = Size \/ a.path \in q
Follows(i, q, s, m) ==
  /\ m.id \in {"DATA", "DONE"} /\ m.path = s.path
  /\ s.at = "open" \/ s.fd # NoFile =>
       /\ m.id = "DATA" => Carries(i, m, s.pos + 1)
       /\ m.id = "DONE" => s.pos = Size \/ m.path \in q
Chain(i, c, s, u, q) ==
  /\ \A k \in 2..Len(u) : Link(i, q, u[k - 1], u[k])
  /\ Serving(s) /\ u # <<>> => Follows(i, q, s, u[1])
  /\ s.at = "open" => s.pos = 0
  /\ s.at = "read" => s.fd # NoFile /\ s.path \in Paths
  /\ \A k \in 1..Len(u) :
       /\ u[k].id = "SEND" => k = 1
       /\ u[k].id \in {"STAT", "RECV"} => u[k].path \in Paths
       /\ u[k].id \in {"SEND", "DATA", "DONE"} =>
            c.at \in Sends \cup {"failed", "hung"} /\ c.todo # <<>> /\ u[k].path = c.todo[1]
  /\ Serving(s) => c.at \in Sends \cup {"failed", "hung"} /\ c.todo # <<>> /\ s.path = c.todo[1]
  /\ Pulling(c) => ~Serving(s) /\ \A k \in 1..Len(u) : u[k].id # "SEND"
Parted(i, c, s, u, d, e) ==
  /\ i \in e => c.end = "closed"
  /\ s.at = "ended" => i \in e
  /\ c.at \in Settled => c.end = "closed"
  /\ c.end = "closed" /\ c.at \notin Settled => i \in e /\ u = <<>> /\ d = <<>> /\ c.at # "new"

(* What a push has written last, and which phase a command is in.          *)
Through(c, q, n) == n = c.n \/ (c.todo[1] \in q /\ c.n = Size)
Writes(c, s, u, q) ==
  /\ c.at = "data" /\ c.end = "open" =>
       /\ c.n # Size => c.todo[1] \notin q
       /\ u # <<>> => u[Len(u)].id \in {"SEND", "DATA"} /\ Through(c, q, No(u[Len(u)]))
       /\ u = <<>> => Serving(s) /\ (s.at = "open" \/ s.fd # NoFile => Through(c, q, s.pos))
  /\ c.at \in {"data", "threw"} /\ c.end = "open" => \A k \in 1..Len(u) : u[k].id # "DONE"
Ends(d, last, rest) ==
  d # <<>> /\ d[Len(d)].id \in last /\ \A k \in 1..Len(d) : k # Len(d) => d[k].id = rest
Entries(c, s, u, d) ==
  \/ Len(u) = 1 /\ u[1].id = "LIST" /\ d = <<>> /\ s.at = "command"
  \/ u = <<>> /\ s.at = "list" /\ Only(d, {"DENT"})
  \/ u = <<>> /\ s.at = "command" /\ Ends(d, {"DONE"}, "DENT")
Receives(c, s, u, d) ==
  \/ Len(u) = 1 /\ u[1].id = "RECV" /\ u[1].path = c.todo[1] /\ d = <<>> /\ s.at = "command" /\ c.n = 0
  \/ u = <<>> /\ s.at = "read" /\ s.path = c.todo[1] /\ Only(d, {"DATA"})
  \/ u = <<>> /\ s.at = "command" /\ Ends(d, {"DONE", "FAIL"}, "DATA")
Sending(c, s, u, d) ==
  \/ u # <<>> /\ u[1].id = "SEND" /\ s.at = "command" /\ d = <<>>
  \/ s.at = "open" /\ d = <<>>
  \/ s.at = "data" /\ s.fd # NoFile /\ d = <<>>
  \/ s.at = "data" /\ s.fd = NoFile /\ Len(d) = 1 /\ d[1].id = "FAIL"
  \/ u = <<>> /\ s.at = "command" /\ Len(d) = 1 /\ d[1].id \in {"OKAY", "FAIL"} /\ c.at \in {"status", "wait-done"}
Phase(c, s, u, d) ==
  c.end = "open" =>
    /\ c.at \in Calm => u = <<>> /\ d = <<>> /\ s.at = "command"
    /\ c.at \in Asking => /\ s.at = "command" /\ Only(u, {"STAT"}) /\ Only(d, {"STAT"})
                          /\ c.asked = Len(u) + Len(d) /\ (c.at = "ask" => c.ask # <<>>)
    /\ c.at = "entries" => Entries(c, s, u, d) /\ \A k \in 1..Len(d) : d[k].id = "DENT" => d[k].path \in Paths
    /\ c.at = "receive" => c.todo # <<>> /\ Receives(c, s, u, d)
    /\ c.at \in Sends => c.todo # <<>> /\ Sending(c, s, u, d)
Kinds(c, s, u) ==
  /\ c.at \in Sends => ~Pulling(c) /\ c.todo # <<>>
  /\ c.at \in {"list", "entries", "receive"} => Pulling(c)
  /\ c.op = "pulldir" => c.at \notin Asking
  /\ c.op = "pull" => c.at # "list" /\ c.at # "entries"
  /\ c.at = "list" => c.todo = <<>>
  /\ c.at = "new" => c.asked = 0 /\ c.ask = c.todo /\ (c.op \in {"push", "pull"} => c.todo # <<>>)
  /\ c.at \in {"wait-transport", "wait-sync", "wait-done", "threw"} => c.op = "js"
  /\ c.op = "js" => c.at \in {"wait-transport", "wait-sync", "wait-done", "threw", "new"} \cup Settled
  /\ c.op = "js" => Len(c.todo) = 1
  /\ c.op # "sync" => c.same = {}
  /\ c.at = "ok" => (c.op # "js" => c.todo = <<>>) /\ s.at \in {"command", "ended"} /\ Only(u, {"QUIT"})
  /\ c.at = "next" => s.at \in {"command", "ended"}
Quietly(c, q) ==
  ~Pulling(c) => \A p \in q : ~InTodo(c, p) \/ (c.todo # <<>> /\ p = c.todo[1] /\ c.at \in Sends \cup Settled)
Talk(i, c, s, u, d, q, e) ==
  /\ Chain(i, c, s, u, q) /\ Parted(i, c, s, u, d, e) /\ Writes(c, s, u, q)
  /\ Phase(c, s, u, d) /\ Kinds(c, s, u) /\ Quietly(c, q)

(* A path is sent once, and what is there of it is what was sent.          *)
Once(files) == \A k, l \in 1..Len(files) : files[k] = files[l] => k = l
Fresh(i, c, u, T) ==
  /\ ~Pulling(c) => Once(c.todo)
  /\ \A p \in Paths : i \in T[p] =>
       /\ ~Pulling(c)
       /\ \/ ~InTodo(c, p)
          \/ c.todo # <<>> /\ p = c.todo[1] /\ c.at \in Sends \cup Settled /\ \A k \in 1..Len(u) : u[k].id # "SEND"
Upto(o, r) == [k \in 1..r |-> <<o, k>>]
Whole(i, f, x) == f = i /\ x[i] = Upto(i, Size)
Told(c, d, p) ==
  /\ ~Pulling(c)
  /\ \/ c.at = "ok" \/ ~InTodo(c, p)
     \/ c.end = "open" /\ c.at \in Sends /\ d # <<>> /\ d[1].id = "OKAY" /\ p = c.todo[1]
Sent(i, p, c, s, d, q, f, x, t) ==
  /\ i \notin t => x[i] = <<>> /\ ~AtIt(s, p)
  /\ t = {i} /\ p \notin Sticky =>
       /\ AtIt(s, p) /\ s.at = "open" => f = NoFile /\ x[i] = <<>>
       /\ AtIt(s, p) /\ s.at = "data" /\ s.fd # NoFile =>
            s.fd = i /\ f = i /\ s.pos \in 0..Size /\ x[i] = Upto(i, s.pos)
       /\ AtIt(s, p) /\ s.at = "data" /\ s.fd = NoFile => f = NoFile
       /\ ~AtIt(s, p) /\ p \notin q => f = NoFile \/ Whole(i, f, x)
       /\ Told(c, d, p) /\ p \notin q => Whole(i, f, x)
  /\ AtIt(s, p) /\ s.at = "data" => s.fd \in t \cup {Old, NoFile}
File(f, x, t) ==
  f \in t \cup {Old, NoFile} /\ (t = {} => x[Old] = Upto(Old, Size))

(* A copy is what was read of the file that was there.                     *)
Status(f, x) == IF f = NoFile THEN <<>> ELSE x[f]
Got(c, s, d, f, y, r) ==
  /\ c.n = 0 <=> r = 0
  /\ r # 0 => y = Upto(Old, r)
  /\ \A k \in 1..Len(d) : d[k].id = "DATA" => d[k].k = <<<<Old, r + k>>>> /\ r + k =< Size
  /\ s.at = "read" => s.fd = Old /\ s.pos = r + Len(d)
  /\ s.at # "read" => r + Len(d) - 1 = Size
  /\ f = Old
Listing == {"new", "list", "entries"}
Copying(p, c, s, u, d, q, f, x, t, y) ==
  Pulling(c) /\ t = {} =>
    /\ c.at = "receive" /\ c.end = "open" /\ p = c.todo[1] /\ (s.at = "read" \/ (d # <<>> /\ d[Len(d)].id # "FAIL")) =>
         \E r \in 0..Size : Got(c, s, d, f, y, r)
    /\ c.at \in Listing \cup Asking => y = <<>>
    /\ c.at \in {"next", "receive", "ok"} /\ p \in c.files /\ p \notin q /\ ~InTodo(c, p) => y = Status(f, x)
    /\ c.op = "pull" /\ c.at \in {"new", "ask", "answer"} /\ p \in c.files => InTodo(c, p)
    /\ c.at = "entries" /\ c.end = "open" /\ f = Old =>
         \/ u # <<>>
         \/ s.at = "list" /\ \E k \in 1..Len(s.left) : s.left[k] = p
         \/ \E k \in 1..Len(d) : d[k].id = "DENT" /\ d[k].path = p
         \/ InTodo(c, p)

Valued(c, s, u, d, q, Y) ==
  /\ c \in Client /\ s \in Service /\ u \in Seq(Message) /\ d \in Seq(Message)
  /\ q \subseteq Paths /\ Y \in [Paths -> Seq(Chunks)]
Mine(i, c, s, u, d, q, e, Y, F, X, T) ==
  /\ Valued(c, s, u, d, q, Y) /\ Talk(i, c, s, u, d, q, e) /\ Fresh(i, c, u, T)
  /\ \A p \in Paths : /\ Sent(i, p, c, s, d, q, F[p], X[p], T[p])
                      /\ Copying(p, c, s, u, d, q, F[p], X[p], T[p], Y[p])
MineOf(i) == Mine(i, cli[i], srv[i], up[i], down[i], quiet[i], unread, copy[i], fs, content, touched)
SyncIs ==
  /\ SyncTyped
  /\ \A p \in Paths : File(fs[p], content[p], touched[p])
  /\ \A i \in Sessions : MineOf(i)


-----------------------------------------------------------------------------
(* A command that fails: what is left of its requests stays.               *)
LEMMA MineEnds ==
  ASSUME NEW i \in Sessions, NEW c, NEW s, NEW u, NEW d, NEW q, NEW e, NEW Y, NEW F, NEW X, NEW T,
         Mine(i, c, s, u, d, q, e, Y, F, X, T),
         NEW at \in {"failed", "hung"}, NEW d2 \in Seq(Message),
         NEW c2, c2 = [c EXCEPT !.at = at, !.end = "closed"]
  PROVE  Mine(i, c2, s, u, d2, q, e, Y, F, X, T)
<1>1. c \in Client BY DEF Mine, Valued
<1>2. /\ c2 \in Client /\ c2.at = at /\ c2.end = "closed"
      /\ c2.op = c.op /\ c2.todo = c.todo /\ c2.files = c.files /\ c2.asked = c.asked
  <2>1. at \in Settled BY DEF Settled
  <2> QED BY <1>1, <2>1 DEF Client
<1>3. Valued(c2, s, u, d2, q, Y) BY <1>2 DEF Mine, Valued
<1>4. Talk(i, c, s, u, d, q, e) /\ Fresh(i, c, u, T) BY DEF Mine
<1>5. Chain(i, c2, s, u, q) BY <1>2, <1>4 DEF Talk, Chain, Pulling, Sends
<1>6. Parted(i, c2, s, u, d2, e) BY <1>2, <1>4 DEF Talk, Parted, Settled
<1>7. Writes(c2, s, u, q) /\ Phase(c2, s, u, d2) BY <1>2 DEF Writes, Phase
<1>8. Kinds(c2, s, u)
  <2>1. c2.ask = c.ask /\ c2.same = c.same BY <1>1 DEF Client
  <2> QED BY <1>2, <1>4, <2>1 DEF Talk, Kinds, Pulling, Settled, Asking, Sends
<1>12. Quietly(c2, q) BY <1>2, <1>4 DEF Talk, Quietly, InTodo, Pulling, Settled
<1>9. Fresh(i, c2, u, T) BY <1>2, <1>4 DEF Fresh, InTodo, Pulling, Settled
<1>10. ASSUME NEW p \in Paths PROVE Sent(i, p, c2, s, d2, q, F[p], X[p], T[p])
  <2>1. Sent(i, p, c, s, d, q, F[p], X[p], T[p]) BY DEF Mine
  <2>2. Told(c2, d2, p) => Told(c, d, p) BY <1>2 DEF Told, InTodo, Pulling
  <2> QED BY <2>1, <2>2 DEF Sent
<1>11. ASSUME NEW p \in Paths PROVE Copying(p, c2, s, u, d2, q, F[p], X[p], T[p], Y[p])
  BY <1>2 DEF Copying, Asking, Listing
<1> QED BY <1>3, <1>5, <1>6, <1>7, <1>8, <1>12, <1>9, <1>10, <1>11 DEF Mine, Talk

LEMMA FirstTodo ==
  ASSUME NEW c \in Client, c.todo # <<>> PROVE c.todo[1] \in Paths /\ InTodo(c, c.todo[1])
<1>1. c.todo \in Seq(Paths) BY DEF Client
<1>2. 1 \in 1..Len(c.todo) BY <1>1
<1> QED BY <1>1, <1>2 DEF InTodo

(* One message less, one more.                                             *)
Drops(u, v) ==
  u # <<>> /\ v \in Seq(Message) /\ Len(v) = Len(u) - 1 /\ \A k \in 1..Len(v) : v[k] = u[k + 1]
Adds(d, v, m) ==
  /\ v \in Seq(Message) /\ Len(v) = Len(d) + 1 /\ v[Len(v)] = m
  /\ \A k \in 1..Len(d) : v[k] = d[k]
LEMMA TailDrops ==
  ASSUME NEW u \in Seq(Message), u # <<>> PROVE Drops(u, Tail(u)) /\ Head(u) = u[1] /\ u[1] \in Message
BY DEF Drops
LEMMA AppendAdds ==
  ASSUME NEW d \in Seq(Message), NEW m \in Message PROVE Adds(d, Append(d, m), m)
BY DEF Adds

LEMMA FirstAdded ==
  ASSUME NEW m, NEW v, Adds(<<>>, v, m) PROVE Len(v) = 1 /\ v[1] = m /\ v # <<>>
<1>1. Len(<<>>) = 0 OBVIOUS
<1>2. v \in Seq(Message) /\ Len(v) = 1 /\ v[Len(v)] = m BY <1>1 DEF Adds
<1> QED BY <1>1, <1>2

(* The rest of what is coming up goes on as it was.                        *)
LEMMA ChainDrops ==
  ASSUME NEW i, NEW c, NEW s, NEW u \in Seq(Message), NEW q, NEW s2, NEW u2,
         Chain(i, c, s, u, q), u2 = u \/ Drops(u, u2),
         Serving(s2) => /\ c.at \in Sends \cup {"failed", "hung"} /\ c.todo # <<>>
                        /\ s2.path = c.todo[1] /\ ~Pulling(c)
                        /\ u2 # <<>> => Follows(i, q, s2, u2[1]),
         s2.at = "open" => s2.pos = 0,
         s2.at = "read" => s2.fd # NoFile /\ s2.path \in Paths
  PROVE  Chain(i, c, s2, u2, q)
<1>1. u2 \in Seq(Message) BY DEF Drops
<1>2. \A k \in 1..Len(u2) : \E l \in 1..Len(u) : u2[k] = u[l] /\ (l = k \/ l = k + 1) BY DEF Drops
<1>3. ASSUME NEW k \in 2..Len(u2) PROVE Link(i, q, u2[k - 1], u2[k])
  <2>1. \A l \in 2..Len(u) : Link(i, q, u[l - 1], u[l]) BY DEF Chain
  <2>2. CASE Drops(u, u2)
    <3>1. k + 1 \in 2..Len(u) /\ u2[k] = u[k + 1] /\ u2[k - 1] = u[(k + 1) - 1] BY <1>1, <2>2 DEF Drops
    <3> QED BY <2>1, <3>1
  <2> QED BY <2>1, <2>2
<1>4. ASSUME NEW k \in 1..Len(u2), u2[k].id = "SEND" PROVE k = 1
  BY <1>2, <1>4 DEF Chain
<1>5. ASSUME NEW k \in 1..Len(u2), u2[k].id \in {"SEND", "DATA", "DONE"}
      PROVE c.at \in Sends \cup {"failed", "hung"} /\ c.todo # <<>> /\ u2[k].path = c.todo[1]
  BY <1>2, <1>5 DEF Chain
<1>6. ASSUME Pulling(c), NEW k \in 1..Len(u2) PROVE u2[k].id # "SEND"
  BY <1>2, <1>6 DEF Chain
<1>7. ASSUME NEW k \in 1..Len(u2), u2[k].id \in {"STAT", "RECV"} PROVE u2[k].path \in Paths
  BY <1>2, <1>7 DEF Chain
<1> QED BY <1>3, <1>4, <1>5, <1>6, <1>7 DEF Chain
LEMMA ChainStays ==
  ASSUME NEW i, NEW c, NEW s, NEW u \in Seq(Message), NEW q, NEW s2, NEW u2,
         Chain(i, c, s, u, q), u2 = u \/ Drops(u, u2), ~Serving(s2), s2.at # "read"
  PROVE  Chain(i, c, s2, u2, q)
BY ChainDrops DEF Serving

(* What a command has been told has left the service's hands.              *)
LEMMA ToldAway ==
  ASSUME NEW i, NEW c, NEW s, NEW u, NEW d, NEW q, NEW e, NEW p, c \in Client,
         Talk(i, c, s, u, d, q, e), Told(c, d, p)
  PROVE  ~AtIt(s, p)
<1>1. CASE c.at = "ok" BY <1>1 DEF Talk, Kinds, AtIt, Serving
<1>2. CASE ~InTodo(c, p)
  <2>1. Serving(s) => c.todo # <<>> /\ s.path = c.todo[1] BY DEF Talk, Chain
  <2>2. c.todo # <<>> => InTodo(c, c.todo[1]) BY DEF InTodo, Client
  <2> QED BY <2>1, <2>2, <1>2 DEF AtIt
<1>3. CASE c.end = "open" /\ c.at \in Sends /\ d # <<>> /\ d[1].id = "OKAY"
  BY <1>3 DEF Talk, Phase, Sending, AtIt, Serving
<1> QED BY <1>1, <1>2, <1>3 DEF Told

(* The service ends: nobody reads it any more, or its connection is over.  *)
LEMMA MineServiceEnds ==
  ASSUME NEW i \in Sessions, NEW c, NEW s, NEW u, NEW d, NEW q, NEW e, NEW Y, NEW F, NEW X, NEW T,
         Mine(i, c, s, u, d, q, e, Y, F, X, T), c.end = "closed",
         NEW u2, u2 = u \/ Drops(u, u2), NEW s2 \in Service, s2.at = "ended", NEW F2,
         \A p \in Paths : F2[p] = F[p] \/ (AtIt(s, p) /\ F2[p] = NoFile),
         \A p \in Paths : AtIt(s, p) /\ s.at = "data" /\ s.fd # NoFile /\ p \notin Sticky =>
            F2[p] = NoFile \/ s.pos = Size \/ p \in q
  PROVE  Mine(i, c, s2, u2, d, q, e \cup {i}, Y, F2, X, T)
<1>1. Valued(c, s, u, d, q, Y) /\ Talk(i, c, s, u, d, q, e) /\ Fresh(i, c, u, T) BY DEF Mine
<1>2. Valued(c, s2, u2, d, q, Y) BY <1>1 DEF Valued, Drops
<1>3. u \in Seq(Message) /\ u2 \in Seq(Message) /\ c \in Client BY <1>1, <1>2 DEF Valued
<1>4. \A k \in 1..Len(u2) : \E l \in 1..Len(u) : u2[k] = u[l] /\ (l = k \/ l = k + 1) BY <1>3 DEF Drops
<1>5. Chain(i, c, s2, u2, q) BY <1>1, <1>3, ChainStays DEF Talk, Serving
<1>6. Parted(i, c, s2, u2, d, e \cup {i}) BY <1>1 DEF Talk, Parted, Drops
<1>7. Writes(c, s2, u2, q) /\ Phase(c, s2, u2, d) BY DEF Writes, Phase
<1>8. Kinds(c, s2, u2) BY <1>1, <1>4 DEF Talk, Kinds, Only
<1>9. Fresh(i, c, u2, T) BY <1>1, <1>4 DEF Fresh
<1>10. ASSUME NEW p \in Paths PROVE Sent(i, p, c, s2, d, q, F2[p], X[p], T[p])
  <2>1. Sent(i, p, c, s, d, q, F[p], X[p], T[p]) BY DEF Mine
  <2>2. ~AtIt(s2, p) BY DEF AtIt, Serving
  <2>3. Told(c, d, p) => ~AtIt(s, p) BY <1>1, <1>3, ToldAway
  <2>4. CASE ~AtIt(s, p)
    BY <2>1, <2>2, <2>4 DEF Sent
  <2>5. CASE AtIt(s, p)
    <3>1. s.at = "open" \/ s.at = "data" BY <2>5 DEF AtIt, Serving
    <3> QED BY <2>1, <2>2, <2>3, <2>5, <3>1 DEF Sent, Whole
  <2> QED BY <2>4, <2>5
<1>11. ASSUME NEW p \in Paths PROVE Copying(p, c, s2, u2, d, q, F2[p], X[p], T[p], Y[p])
  <2>1. Copying(p, c, s, u, d, q, F[p], X[p], T[p], Y[p]) BY DEF Mine
  <2>2. Pulling(c) => F2[p] = F[p] BY <1>1 DEF Talk, Chain, AtIt
  <2> QED BY <2>1, <2>2 DEF Copying
<1> QED BY <1>1, <1>2, <1>5, <1>6, <1>7, <1>8, <1>9, <1>10, <1>11 DEF Mine, Talk


(* What the service reads while the command is there.                      *)
LEMMA HeadKinds ==
  ASSUME NEW i, NEW c, NEW s, NEW u, NEW d, NEW q, NEW e, c \in Client, u \in Seq(Message),
         Talk(i, c, s, u, d, q, e), c.end = "open", s.at = "command", u # <<>>
  PROVE  \/ c.at \in Asking /\ u[1].id = "STAT"
         \/ c.at = "entries" /\ u[1].id = "LIST" /\ Len(u) = 1 /\ d = <<>>
         \/ c.at = "receive" /\ u[1].id = "RECV" /\ Len(u) = 1 /\ d = <<>> /\ c.n = 0 /\ u[1].path = c.todo[1]
         \/ c.at \in Sends /\ u[1].id = "SEND" /\ d = <<>>
<1>1. Phase(c, s, u, d) /\ c.at \notin Settled BY DEF Talk, Parted
<1>2. c.at \notin Calm BY <1>1 DEF Phase
<1>3. CASE c.at \in Asking BY <1>1, <1>3 DEF Phase, Only
<1>4. CASE c.at = "entries" BY <1>1, <1>4 DEF Phase, Entries
<1>5. CASE c.at = "receive" BY <1>1, <1>5 DEF Phase, Receives
<1>6. CASE c.at \in Sends BY <1>1, <1>6 DEF Phase, Sending
<1> QED BY <1>1, <1>2, <1>3, <1>4, <1>5, <1>6 DEF Client

(* The answer to STAT.                                                     *)
LEMMA MineStat ==
  ASSUME NEW i \in Sessions, NEW c, NEW s, NEW u, NEW d, NEW q, NEW e, NEW Y, NEW F, NEW X, NEW T,
         Mine(i, c, s, u, d, q, e, Y, F, X, T), c.end = "open",
         s.at = "command", NEW u2, Drops(u, u2), u[1].id = "STAT",
         NEW m, m.id = "STAT", NEW d2, Adds(d, d2, m), NEW s2 \in Service, s2.at = "command"
  PROVE  Mine(i, c, s2, u2, d2, q, e, Y, F, X, T)
<1>1. Valued(c, s, u, d, q, Y) /\ Talk(i, c, s, u, d, q, e) /\ Fresh(i, c, u, T) BY DEF Mine
<1>2. /\ u \in Seq(Message) /\ u2 \in Seq(Message) /\ c \in Client
      /\ d \in Seq(Message) /\ d2 \in Seq(Message) BY <1>1 DEF Valued, Drops, Adds
<1>3. Valued(c, s2, u2, d2, q, Y) BY <1>1, <1>2 DEF Valued
<1>4. c.at \in Asking BY <1>1, <1>2, HeadKinds DEF Drops
<1>5. s.at = "command" /\ Only(u, {"STAT"}) /\ Only(d, {"STAT"}) /\ c.asked = Len(u) + Len(d)
      /\ (c.at = "ask" => c.ask # <<>>)
  BY <1>1, <1>4 DEF Talk, Phase
<1>6. Only(u2, {"STAT"}) BY <1>2, <1>5 DEF Only, Drops
<1>7. Only(d2, {"STAT"}) BY <1>2, <1>5 DEF Only, Adds
<1>8. c.asked = Len(u2) + Len(d2) BY <1>2, <1>5 DEF Drops, Adds
<1>9. Chain(i, c, s2, u2, q) BY <1>1, <1>2, ChainStays DEF Talk, Serving
<1>10. Parted(i, c, s2, u2, d2, e) BY <1>1 DEF Talk, Parted
<1>11. Writes(c, s2, u2, q) BY <1>4 DEF Writes, Asking
<1>12. Phase(c, s2, u2, d2) BY <1>4, <1>5, <1>6, <1>7, <1>8 DEF Phase, Asking, Calm, Sends
<1>13. Kinds(c, s2, u2) BY <1>1, <1>4 DEF Talk, Kinds, Asking
<1>14. Fresh(i, c, u2, T) BY <1>1, <1>6 DEF Fresh, Only
<1>15. ASSUME NEW p \in Paths PROVE Sent(i, p, c, s2, d2, q, F[p], X[p], T[p])
  <2>1. Sent(i, p, c, s, d, q, F[p], X[p], T[p]) BY DEF Mine
  <2>2. ~AtIt(s2, p) /\ ~AtIt(s, p) BY DEF AtIt, Serving
  <2>3. Told(c, d2, p) => Told(c, d, p) BY <1>4 DEF Told, Asking, Sends
  <2> QED BY <2>1, <2>2, <2>3 DEF Sent
<1>16. ASSUME NEW p \in Paths PROVE Copying(p, c, s2, u2, d2, q, F[p], X[p], T[p], Y[p])
  <2>1. Copying(p, c, s, u, d, q, F[p], X[p], T[p], Y[p]) BY DEF Mine
  <2> QED BY <2>1, <1>4 DEF Copying, Asking
<1> QED BY <1>1, <1>3, <1>9, <1>10, <1>11, <1>12, <1>13, <1>14, <1>15, <1>16 DEF Mine, Talk

(* The answer to LIST: first nothing, then an entry for what is there.      *)
LEMMA MineList ==
  ASSUME NEW i \in Sessions, NEW c, NEW s, NEW u, NEW d, NEW q, NEW e, NEW Y, NEW F, NEW X, NEW T,
         Mine(i, c, s, u, d, q, e, Y, F, X, T),
         s.at = "command", NEW u2, Drops(u, u2), u[1].id = "LIST",
         NEW s2 \in Service, s2.at = "list", \A p \in Paths : \E k \in 1..Len(s2.left) : s2.left[k] = p
  PROVE  Mine(i, c, s2, u2, d, q, e, Y, F, X, T)
<1>1. Valued(c, s, u, d, q, Y) /\ Talk(i, c, s, u, d, q, e) /\ Fresh(i, c, u, T) BY DEF Mine
<1>2. u \in Seq(Message) /\ u2 \in Seq(Message) /\ c \in Client BY <1>1 DEF Valued, Drops
<1>3. Valued(c, s2, u2, d, q, Y) BY <1>1, <1>2 DEF Valued
<1>4. c.end = "open" => c.at = "entries" /\ Len(u) = 1 /\ d = <<>> BY <1>1, <1>2, HeadKinds DEF Drops
<1>5. c.end = "open" => u2 = <<>> BY <1>2, <1>4 DEF Drops
<1>6. c.end = "open" \/ c.end = "closed" BY <1>2 DEF Client
<1>7. c.at # "ok" BY <1>1 DEF Talk, Kinds, Only, Drops
<1>8. Chain(i, c, s2, u2, q) BY <1>1, <1>2, ChainStays DEF Talk, Serving
<1>9. Parted(i, c, s2, u2, d, e) BY <1>1, <1>5, <1>6 DEF Talk, Parted, Drops
<1>10. Writes(c, s2, u2, q) BY <1>4 DEF Writes
<1>11. Phase(c, s2, u2, d) BY <1>4, <1>5 DEF Phase, Entries, Asking, Calm, Sends, Only
<1>12. Kinds(c, s2, u2)
  <2>1. c.at # "next" BY <1>1, <1>4, <1>6 DEF Talk, Parted, Settled, Drops
  <2> QED BY <1>1, <1>7, <2>1 DEF Talk, Kinds
<1>13. Fresh(i, c, u2, T) BY <1>1, <1>2 DEF Fresh, Drops
<1>14. ASSUME NEW p \in Paths PROVE Sent(i, p, c, s2, d, q, F[p], X[p], T[p])
  <2>1. Sent(i, p, c, s, d, q, F[p], X[p], T[p]) BY DEF Mine
  <2>2. ~AtIt(s2, p) /\ ~AtIt(s, p) BY DEF AtIt, Serving
  <2> QED BY <2>1, <2>2 DEF Sent
<1>15. ASSUME NEW p \in Paths PROVE Copying(p, c, s2, u2, d, q, F[p], X[p], T[p], Y[p])
  <2>1. Copying(p, c, s, u, d, q, F[p], X[p], T[p], Y[p]) BY DEF Mine
  <2> QED BY <2>1, <1>4, <1>6 DEF Copying, Asking
<1> QED BY <1>1, <1>3, <1>8, <1>9, <1>10, <1>11, <1>12, <1>13, <1>14, <1>15 DEF Mine, Talk


(* An entry of the answer to LIST, or none for what is not there.          *)
LEMMA MineEntry ==
  ASSUME NEW i \in Sessions, NEW c, NEW s, NEW u, NEW d, NEW q, NEW e, NEW Y, NEW F, NEW X, NEW T,
         Mine(i, c, s, u, d, q, e, Y, F, X, T),
         s.at = "list", s.left # <<>>, NEW s2 \in Service, s2.at = "list",
         Len(s2.left) = Len(s.left) - 1, \A k \in 1..Len(s2.left) : s2.left[k] = s.left[k + 1],
         NEW m, m.id = "DENT", m.path = s.left[1],
         NEW d2, \/ d2 = d /\ F[s.left[1]] = NoFile
                 \/ c.end = "open" /\ Adds(d, d2, m)
  PROVE  Mine(i, c, s2, u, d2, q, e, Y, F, X, T)
<1>1. Valued(c, s, u, d, q, Y) /\ Talk(i, c, s, u, d, q, e) /\ Fresh(i, c, u, T) BY DEF Mine
<1>2. /\ u \in Seq(Message) /\ c \in Client /\ s.left \in Seq(Paths)
      /\ d \in Seq(Message) /\ d2 \in Seq(Message) BY <1>1 DEF Valued, Adds, Service
<1>3. Valued(c, s2, u, d2, q, Y) BY <1>1, <1>2 DEF Valued
<1>4. c.end = "open" => c.at = "entries" /\ u = <<>> /\ Only(d, {"DENT"})
      /\ \A k \in 1..Len(d) : d[k].id = "DENT" => d[k].path \in Paths
  <2>1. c.end = "open" => c.at = "entries"
    BY <1>1, <1>2 DEF Talk, Parted, Phase, Client, Receives, Sending
  <2> QED BY <1>1, <2>1 DEF Talk, Phase, Entries
<1>5. c.end = "open" \/ c.end = "closed" BY <1>2 DEF Client
<1>6. c.end = "open" => /\ Only(d2, {"DENT"})
                        /\ \A k \in 1..Len(d2) : d2[k].id = "DENT" => d2[k].path \in Paths
  BY <1>2, <1>4 DEF Only, Adds
<1>7. c.at # "ok" /\ c.at # "next" BY <1>1 DEF Talk, Kinds
<1>8. Chain(i, c, s2, u, q) BY <1>1 DEF Talk, Chain, Serving
<1>9. Parted(i, c, s2, u, d2, e) BY <1>1, <1>5 DEF Talk, Parted
<1>10. Writes(c, s2, u, q) BY <1>4 DEF Writes
<1>11. Phase(c, s2, u, d2) BY <1>4, <1>6 DEF Phase, Entries, Asking, Calm, Sends
<1>12. Kinds(c, s2, u) BY <1>1, <1>7 DEF Talk, Kinds
<1>13. ASSUME NEW p \in Paths PROVE Sent(i, p, c, s2, d2, q, F[p], X[p], T[p])
  <2>1. Sent(i, p, c, s, d, q, F[p], X[p], T[p]) BY DEF Mine
  <2>2. ~AtIt(s2, p) /\ ~AtIt(s, p) BY DEF AtIt, Serving
  <2>3. Told(c, d2, p) => Told(c, d, p) BY <1>4 DEF Told, Sends
  <2> QED BY <2>1, <2>2, <2>3 DEF Sent
<1>14. ASSUME NEW p \in Paths PROVE Copying(p, c, s2, u, d2, q, F[p], X[p], T[p], Y[p])
  <2>1. Copying(p, c, s, u, d, q, F[p], X[p], T[p], Y[p]) BY DEF Mine
  <2>2. ASSUME c.end = "open", F[p] = Old, NEW k \in 1..Len(s.left), s.left[k] = p
        PROVE  \/ \E l \in 1..Len(s2.left) : s2.left[l] = p
               \/ \E l \in 1..Len(d2) : d2[l].id = "DENT" /\ d2[l].path = p
    <3>1. CASE k = 1
      <4>1. Old # NoFile BY PartsConstants DEF Sync!SyncAssumption
      <4>2. Adds(d, d2, m) BY <2>2, <3>1, <4>1
      <4>3. Len(d2) \in 1..Len(d2) /\ d2[Len(d2)] = m BY <4>2, <1>2 DEF Adds
      <4> QED BY <2>2, <3>1, <4>3
    <3>2. CASE k # 1
      <4>1. k - 1 \in 1..Len(s2.left) /\ (k - 1) + 1 = k BY <1>2, <3>2
      <4>2. s2.left[k - 1] = p BY <2>2, <4>1
      <4> QED BY <4>1, <4>2
    <3> QED BY <3>1, <3>2
  <2>3. ASSUME NEW k \in 1..Len(d), d[k].id = "DENT", d[k].path = p
        PROVE  \E l \in 1..Len(d2) : d2[l].id = "DENT" /\ d2[l].path = p
    <3>1. k \in 1..Len(d2) /\ d2[k] = d[k] BY <1>2 DEF Adds
    <3> QED BY <2>3, <3>1
  <2> QED BY <2>1, <2>2, <2>3, <1>4, <1>5 DEF Copying, Asking
<1> QED BY <1>1, <1>3, <1>8, <1>9, <1>10, <1>11, <1>12, <1>13, <1>14 DEF Mine, Talk

LEMMA MineListed ==
  ASSUME NEW i \in Sessions, NEW c, NEW s, NEW u, NEW d, NEW q, NEW e, NEW Y, NEW F, NEW X, NEW T,
         Mine(i, c, s, u, d, q, e, Y, F, X, T), c.end = "open",
         s.at = "list", s.left = <<>>, NEW s2 \in Service, s2.at = "command",
         NEW m, m.id = "DONE", NEW d2, Adds(d, d2, m)
  PROVE  Mine(i, c, s2, u, d2, q, e, Y, F, X, T)
<1>1. Valued(c, s, u, d, q, Y) /\ Talk(i, c, s, u, d, q, e) /\ Fresh(i, c, u, T) BY DEF Mine
<1>2. /\ u \in Seq(Message) /\ c \in Client
      /\ d \in Seq(Message) /\ d2 \in Seq(Message) BY <1>1 DEF Valued, Adds
<1>3. Valued(c, s2, u, d2, q, Y) BY <1>1, <1>2 DEF Valued
<1>4. c.at = "entries" BY <1>1, <1>2 DEF Talk, Parted, Phase, Client, Receives, Sending
<1>5. u = <<>> /\ Only(d, {"DENT"}) /\ \A k \in 1..Len(d) : d[k].id = "DENT" => d[k].path \in Paths
  BY <1>1, <1>4 DEF Talk, Phase, Entries
<1>6. d2 # <<>> /\ d2[Len(d2)].id = "DONE"
      /\ \A k \in 1..Len(d2) : k # Len(d2) => d2[k].id = "DENT" /\ d2[k].path \in Paths
  BY <1>2, <1>5 DEF Only, Adds
<1>7. Chain(i, c, s2, u, q) BY <1>1 DEF Talk, Chain, Serving
<1>8. Parted(i, c, s2, u, d2, e) BY <1>1 DEF Talk, Parted
<1>9. Writes(c, s2, u, q) BY <1>4 DEF Writes
<1>10. Phase(c, s2, u, d2) BY <1>4, <1>5, <1>6 DEF Phase, Entries, Asking, Calm, Sends, Ends
<1>11. Kinds(c, s2, u) BY <1>1, <1>4 DEF Talk, Kinds
<1>12. ASSUME NEW p \in Paths PROVE Sent(i, p, c, s2, d2, q, F[p], X[p], T[p])
  <2>1. Sent(i, p, c, s, d, q, F[p], X[p], T[p]) BY DEF Mine
  <2>2. ~AtIt(s2, p) /\ ~AtIt(s, p) BY DEF AtIt, Serving
  <2>3. Told(c, d2, p) => Told(c, d, p) BY <1>4 DEF Told, Sends
  <2> QED BY <2>1, <2>2, <2>3 DEF Sent
<1>13. ASSUME NEW p \in Paths PROVE Copying(p, c, s2, u, d2, q, F[p], X[p], T[p], Y[p])
  <2>1. Copying(p, c, s, u, d, q, F[p], X[p], T[p], Y[p]) BY DEF Mine
  <2>2. ASSUME NEW k \in 1..Len(d), d[k].id = "DENT", d[k].path = p
        PROVE  \E l \in 1..Len(d2) : d2[l].id = "DENT" /\ d2[l].path = p
    <3>1. k \in 1..Len(d2) /\ d2[k] = d[k] BY <1>2 DEF Adds
    <3> QED BY <2>2, <3>1
  <2> QED BY <2>1, <2>2, <1>4, <1>5 DEF Copying, Asking
<1> QED BY <1>1, <1>3, <1>7, <1>8, <1>9, <1>10, <1>11, <1>12, <1>13 DEF Mine, Talk


(* SEND: the file that was there is gone, if it can be unlinked.           *)
LEMMA MineSend ==
  ASSUME NEW i \in Sessions, NEW c, NEW s, NEW u, NEW d, NEW q, NEW e, NEW Y, NEW F, NEW X, NEW T,
         Mine(i, c, s, u, d, q, e, Y, F, X, T),
         s.at = "command", NEW u2, Drops(u, u2), u[1].id = "SEND",
         NEW s2 \in Service, s2.at = "open", s2.path = u[1].path, s2.pos = 0,
         NEW F2, NEW T2,
         \A p \in Paths : p # u[1].path => F2[p] = F[p] /\ T2[p] = T[p],
         u[1].path \notin Sticky => F2[u[1].path] = NoFile,
         T2[u[1].path] = T[u[1].path] \cup {i}
  PROVE  Mine(i, c, s2, u2, d, q, e, Y, F2, X, T2)
<1>1. Valued(c, s, u, d, q, Y) /\ Talk(i, c, s, u, d, q, e) /\ Fresh(i, c, u, T) BY DEF Mine
<1>2. u \in Seq(Message) /\ u2 \in Seq(Message) /\ c \in Client BY <1>1 DEF Valued, Drops
<1>3. Valued(c, s2, u2, d, q, Y) BY <1>1, <1>2 DEF Valued
<1>4. 1 \in 1..Len(u) /\ u # <<>> BY <1>2 DEF Drops
<1>5. /\ c.at \in Sends \cup {"failed", "hung"} /\ c.todo # <<>> /\ u[1].path = c.todo[1] /\ ~Pulling(c)
  BY <1>1, <1>4 DEF Talk, Chain
<1>6. u[1].path \in Paths /\ InTodo(c, u[1].path) BY <1>2, <1>5, FirstTodo
<1>7. c.end = "open" => c.at \in Sends /\ d = <<>>
  <2>1. c.end = "open" => c.at \notin {"failed", "hung"} BY <1>1 DEF Talk, Parted, Settled
  <2> QED BY <2>1, <1>1, <1>2, <1>4, HeadKinds, <1>5 DEF Asking, Sends
<1>8. c.end = "open" \/ c.end = "closed" BY <1>2 DEF Client
<1>9. u2 # <<>> => u2[1] = u[2] /\ Link(i, q, u[1], u[2])
  <2>1. u2 # <<>> => 2 \in 2..Len(u) /\ 1 \in 1..Len(u2) BY <1>2 DEF Drops
  <2> QED BY <1>1, <2>1 DEF Talk, Chain, Drops
<1>10. Chain(i, c, s2, u2, q)
  <2>1. u2 # <<>> => Follows(i, q, s2, u2[1])
    BY <1>9 DEF Follows, Link, No
  <2> QED BY <1>1, <1>2, <1>5, <2>1, ChainDrops DEF Talk, Serving
<1>11. \A k \in 1..Len(u2) : u2[k].id # "SEND"
  BY <1>1, <1>2 DEF Talk, Chain, Drops
<1>12. Parted(i, c, s2, u2, d, e) BY <1>1, <1>4, <1>8 DEF Talk, Parted
<1>13. Writes(c, s2, u2, q)
  <2>1. CASE c.at = "data" /\ c.end = "open"
    <3>1. /\ c.n # Size => c.todo[1] \notin q
          /\ Through(c, q, No(u[Len(u)]))
          /\ u[Len(u)].id \in {"SEND", "DATA"}
          /\ \A k \in 1..Len(u) : u[k].id # "DONE"
      BY <1>1, <1>4, <2>1 DEF Talk, Writes
    <3>2. u2 # <<>> => u2[Len(u2)] = u[Len(u)] BY <1>2 DEF Drops
    <3>3. u2 = <<>> => Through(c, q, s2.pos)
      <4>1. u2 = <<>> => Len(u) = 1 BY <1>2 DEF Drops
      <4> QED BY <4>1, <3>1 DEF No
    <3>4. \A k \in 1..Len(u2) : u2[k].id # "DONE" BY <1>2, <3>1 DEF Drops
    <3> QED BY <2>1, <3>1, <3>2, <3>3, <3>4 DEF Writes, Serving
  <2>2. CASE c.at = "threw" /\ c.end = "open"
    <3>1. \A k \in 1..Len(u) : u[k].id # "DONE" BY <1>1, <2>2 DEF Talk, Writes
    <3>2. \A k \in 1..Len(u2) : u2[k].id # "DONE" BY <1>2, <3>1 DEF Drops
    <3> QED BY <2>2, <3>2 DEF Writes
  <2> QED BY <2>1, <2>2 DEF Writes
<1>14. Phase(c, s2, u2, d) BY <1>5, <1>7 DEF Phase, Sending, Asking, Calm, Sends
<1>15. Kinds(c, s2, u2) BY <1>1, <1>5 DEF Talk, Kinds, Sends
<1>16. ASSUME NEW p \in Paths, i \in T[p] PROVE ~InTodo(c, p)
  BY <1>1, <1>4, <1>16 DEF Fresh
<1>17. Fresh(i, c, u2, T2)
  <2>1. ASSUME NEW p \in Paths, i \in T2[p]
        PROVE ~InTodo(c, p) \/ (c.todo # <<>> /\ p = c.todo[1] /\ c.at \in Sends \cup Settled)
    <3>1. CASE p = u[1].path BY <3>1, <1>5 DEF Settled
    <3>2. CASE p # u[1].path BY <3>2, <2>1, <1>16
    <3> QED BY <3>1, <3>2
  <2> QED BY <1>1, <1>5, <1>11, <2>1 DEF Fresh
<1>18. ASSUME NEW p \in Paths PROVE Sent(i, p, c, s2, d, q, F2[p], X[p], T2[p])
  <2>1. Sent(i, p, c, s, d, q, F[p], X[p], T[p]) BY DEF Mine
  <2>2. ~AtIt(s, p) BY DEF AtIt, Serving
  <2>3. CASE p # u[1].path
    <3>1. ~AtIt(s2, p) BY <2>3 DEF AtIt
    <3> QED BY <2>1, <2>2, <2>3, <3>1 DEF Sent
  <2>4. CASE p = u[1].path
    <3>1. AtIt(s2, p) BY <2>4 DEF AtIt, Serving
    <3>2. i \notin T[p] BY <1>6, <1>16, <2>4
    <3>3. X[p][i] = <<>> BY <2>1, <3>2 DEF Sent
    <3>4. ~Told(c, d, p) BY <1>3, <1>5, <1>6, <1>7, <1>8, <2>4 DEF Told, Sends
    <3> QED BY <2>4, <3>1, <3>3, <3>4 DEF Sent
  <2> QED BY <2>3, <2>4
<1>19. ASSUME NEW p \in Paths PROVE Copying(p, c, s2, u2, d, q, F2[p], X[p], T2[p], Y[p])
  BY <1>5 DEF Copying
<1> QED BY <1>1, <1>3, <1>10, <1>12, <1>13, <1>14, <1>15, <1>17, <1>18, <1>19 DEF Mine, Talk

(* The file of a SEND is created, or opened as it is, or neither.          *)
LEMMA NoChunks == \A o : Upto(o, 0) = <<>>
<1>1. \A o : 1..0 = {} OBVIOUS
<1> QED BY <1>1 DEF Upto
LEMMA MineOpen ==
  ASSUME NEW i \in Sessions, NEW c, NEW s, NEW u, NEW d, NEW q, NEW e, NEW Y, NEW F, NEW X, NEW T,
         Mine(i, c, s, u, d, q, e, Y, F, X, T),
         s.at = "open", NEW s2 \in Service, s2.at = "data", s2.path = s.path, s2.pos = 0,
         NEW F2, \A p \in Paths : p # s.path => F2[p] = F[p],
         F[s.path] \in T[s.path] \cup {Old, NoFile},
         NEW m, m.id = "FAIL",
         NEW d2, \/ d2 = d /\ s2.fd = F2[s.path] /\ F2[s.path] = F[s.path] /\ F[s.path] # NoFile
                 \/ d2 = d /\ s2.fd = i /\ F2[s.path] = i
                 \/ c.end = "open" /\ Adds(d, d2, m) /\ s2.fd = NoFile /\ F2[s.path] = F[s.path]
  PROVE  Mine(i, c, s2, u, d2, q, e, Y, F2, X, T)
<1>1. Valued(c, s, u, d, q, Y) /\ Talk(i, c, s, u, d, q, e) /\ Fresh(i, c, u, T) BY DEF Mine
<1>2. /\ u \in Seq(Message) /\ c \in Client
      /\ d \in Seq(Message) /\ d2 \in Seq(Message) BY <1>1 DEF Valued, Adds
<1>3. Valued(c, s2, u, d2, q, Y) BY <1>1, <1>2 DEF Valued
<1>4. /\ c.at \in Sends \cup {"failed", "hung"} /\ c.todo # <<>> /\ s.path = c.todo[1] /\ ~Pulling(c)
      /\ s.pos = 0
  BY <1>1 DEF Talk, Chain, Serving
<1>5. s.path \in Paths /\ InTodo(c, s.path) BY <1>2, <1>4, FirstTodo
<1>6. c.end = "open" \/ c.end = "closed" BY <1>2 DEF Client
<1>7. c.end = "open" => c.at \in Sends /\ d = <<>>
  <2>1. c.end = "open" => c.at \in Sends BY <1>1, <1>4 DEF Talk, Parted, Settled
  <2> QED BY <2>1, <1>1 DEF Talk, Phase, Sending
<1>8. NoFile \notin Sessions BY PartsConstants DEF Sync!SyncAssumption
<1>9. Chain(i, c, s2, u, q)
  <2>1. u # <<>> => Follows(i, q, s2, u[1])
    <3>1. u # <<>> => Follows(i, q, s, u[1]) BY <1>1 DEF Talk, Chain, Serving
    <3> QED BY <3>1, <1>4 DEF Follows
  <2> QED BY <1>1, <1>2, <1>4, <2>1, ChainDrops DEF Talk, Serving
<1>10. Parted(i, c, s2, u, d2, e) BY <1>1, <1>6 DEF Talk, Parted
<1>11. Writes(c, s2, u, q) BY <1>1, <1>4 DEF Talk, Writes, Serving
<1>12. Phase(c, s2, u, d2)
  <2>1. c.end = "open" /\ s2.fd = NoFile /\ d2 # d => Len(d2) = 1 /\ d2[1].id = "FAIL"
    BY <1>7 DEF Adds
  <2>2. c.end = "open" => s2.fd # NoFile \/ Adds(d, d2, m) BY <1>8, <1>7
  <2>3. c.end = "open" /\ Adds(d, d2, m) => Len(d2) = 1 /\ d2[1].id = "FAIL" BY <1>7 DEF Adds
  <2> QED BY <1>4, <1>7, <2>1, <2>2, <2>3 DEF Phase, Sending, Asking, Calm, Sends, Adds
<1>13. Kinds(c, s2, u) BY <1>1, <1>4 DEF Talk, Kinds, Sends
<1>14. ASSUME NEW p \in Paths PROVE Sent(i, p, c, s2, d2, q, F2[p], X[p], T[p])
  <2>1. Sent(i, p, c, s, d, q, F[p], X[p], T[p]) BY DEF Mine
  <2>2. Told(c, d2, p) => Told(c, d, p) BY <1>7, <1>6 DEF Told, Adds
  <2>3. CASE p # s.path
    <3>1. ~AtIt(s2, p) /\ ~AtIt(s, p) BY <2>3 DEF AtIt
    <3> QED BY <2>1, <2>2, <2>3, <3>1 DEF Sent
  <2>4. CASE p = s.path
    <3>1. AtIt(s2, p) /\ AtIt(s, p) BY <2>4 DEF AtIt, Serving
    <3>2. i \in T[p] BY <2>1, <3>1 DEF Sent
    <3>3. ~Told(c, d2, p) BY <1>1, <1>2, <2>2, <3>1, ToldAway
    <3>4. T[p] = {i} /\ p \notin Sticky => F[p] = NoFile /\ X[p][i] = Upto(i, 0)
      BY <2>1, <3>1, NoChunks DEF Sent
    <3>5. s2.fd \in T[p] \cup {Old, NoFile} BY <2>4, <3>2
    <3>6. 0 \in 0..Size BY PartsConstants DEF Sync!SyncAssumption
    <3> QED BY <2>4, <3>1, <3>2, <3>3, <3>4, <3>5, <3>6, <1>8 DEF Sent
  <2> QED BY <2>3, <2>4
<1>15. ASSUME NEW p \in Paths PROVE Copying(p, c, s2, u, d2, q, F2[p], X[p], T[p], Y[p])
  BY <1>4 DEF Copying
<1> QED BY <1>1, <1>3, <1>9, <1>10, <1>11, <1>12, <1>13, <1>14, <1>15 DEF Mine, Talk


(* DATA: a chunk is written, or the write fails, or what comes after the    *)
(* failure is dropped.                                                     *)
LEMMA OneChunkMore ==
  ASSUME NEW o, NEW r \in Nat PROVE Sync!Overlay(Upto(o, r), r + 1, <<o, r + 1>>) = Upto(o, r + 1)
<1>1. Upto(o, r) \in Seq({<<o, k>> : k \in 1..r}) /\ Len(Upto(o, r)) = r BY DEF Upto
<1>2. Append(Upto(o, r), <<o, r + 1>>) = Upto(o, r + 1) BY <1>1 DEF Upto
<1>3. ~(r + 1 <= Len(Upto(o, r))) BY <1>1
<1> QED BY <1>2, <1>3 DEF Sync!Overlay
TakesData(s, a, c, d, F, X, s2, d2, F2, X2, m) ==
  /\ \A p \in Paths : p # s.path => F2[p] = F[p] /\ X2[p] = X[p]
  /\ \/ /\ s.fd # NoFile /\ d2 = d /\ F2 = F /\ s2.fd = s.fd /\ s2.pos = s.pos + 1
        /\ \A o : o # s.fd => X2[s.path][o] = X[s.path][o]
        /\ X2[s.path][s.fd] = Sync!Overlay(X[s.path][s.fd], s.pos + 1, a.k[1])
     \/ /\ s.fd # NoFile /\ c.end = "open" /\ Adds(d, d2, m) /\ X2 = X /\ s2.fd = NoFile
        /\ s.path \notin Sticky => F2[s.path] = NoFile
     \/ s.fd = NoFile /\ s2 = s /\ d2 = d /\ F2 = F /\ X2 = X
LEMMA MineData ==
  ASSUME NEW i \in Sessions, NEW c, NEW s, NEW u, NEW d, NEW q, NEW e, NEW Y, NEW F, NEW X, NEW T,
         Mine(i, c, s, u, d, q, e, Y, F, X, T),
         s.at = "data", NEW u2, Drops(u, u2), u[1].id = "DATA",
         NEW s2 \in Service, s2.at = "data", s2.path = s.path,
         NEW F2, NEW X2, NEW m, m.id = "FAIL", NEW d2,
         TakesData(s, u[1], c, d, F, X, s2, d2, F2, X2, m)
  PROVE  Mine(i, c, s2, u2, d2, q, e, Y, F2, X2, T)
<1> USE DEF TakesData
<1>1. Valued(c, s, u, d, q, Y) /\ Talk(i, c, s, u, d, q, e) /\ Fresh(i, c, u, T) BY DEF Mine
<1>2. /\ u \in Seq(Message) /\ u2 \in Seq(Message) /\ c \in Client /\ s \in Service
      /\ d \in Seq(Message) /\ d2 \in Seq(Message) BY <1>1 DEF Valued, Adds, Drops
<1>3. Valued(c, s2, u2, d2, q, Y) BY <1>1, <1>2 DEF Valued
<1>4. 1 \in 1..Len(u) /\ u # <<>> BY <1>2 DEF Drops
<1>5. /\ c.at \in Sends \cup {"failed", "hung"} /\ c.todo # <<>> /\ s.path = c.todo[1] /\ ~Pulling(c)
  BY <1>1 DEF Talk, Chain, Serving
<1>6. s.path \in Paths /\ InTodo(c, s.path) BY <1>2, <1>5, FirstTodo
<1>7. c.end = "open" \/ c.end = "closed" BY <1>2 DEF Client
<1>8. c.end = "open" => c.at \in Sends
  BY <1>1, <1>5 DEF Talk, Parted, Settled
<1>9. c.end = "open" /\ s.fd # NoFile => d = <<>> BY <1>1, <1>4, <1>8 DEF Talk, Phase, Sending
<1>10. c.end = "open" /\ s.fd = NoFile => Len(d) = 1 /\ d[1].id = "FAIL"
  BY <1>1, <1>4, <1>8 DEF Talk, Phase, Sending
<1>11. s.fd # NoFile => Carries(i, u[1], s.pos + 1) /\ No(u[1]) = s.pos + 1
  <2>1. Follows(i, q, s, u[1]) BY <1>1, <1>4 DEF Talk, Chain, Serving
  <2> QED BY <2>1 DEF Follows, Carries, No
<1>12. u2 # <<>> => u2[1] = u[2] /\ Link(i, q, u[1], u[2])
  <2>1. u2 # <<>> => 2 \in 2..Len(u) /\ 1 \in 1..Len(u2) BY <1>2 DEF Drops
  <2> QED BY <1>1, <2>1 DEF Talk, Chain, Drops
<1>13. u[1].path = s.path BY <1>1, <1>4, <1>5 DEF Talk, Chain
<1>14. Chain(i, c, s2, u2, q)
  <2>1. u2 # <<>> => Follows(i, q, s2, u2[1])
    <3>1. s2.fd # NoFile => s.fd # NoFile /\ s2.pos = s.pos + 1 OBVIOUS
    <3> QED BY <1>11, <1>12, <1>13, <3>1 DEF Follows, Link
  <2> QED BY <1>1, <1>2, <1>5, <2>1, ChainDrops DEF Talk, Serving
<1>15. \A k \in 1..Len(u2) : u2[k].id # "SEND"
  BY <1>1, <1>2 DEF Talk, Chain, Drops
<1>16. Parted(i, c, s2, u2, d2, e) BY <1>1, <1>4, <1>7 DEF Talk, Parted
<1>17. Writes(c, s2, u2, q)
  <2>1. CASE c.at = "data" /\ c.end = "open"
    <3>1. /\ c.n # Size => c.todo[1] \notin q
          /\ Through(c, q, No(u[Len(u)]))
          /\ u[Len(u)].id \in {"SEND", "DATA"}
          /\ \A k \in 1..Len(u) : u[k].id # "DONE"
      BY <1>1, <1>4, <2>1 DEF Talk, Writes
    <3>2. u2 # <<>> => u2[Len(u2)] = u[Len(u)] BY <1>2 DEF Drops
    <3>3. u2 = <<>> /\ s2.fd # NoFile => Through(c, q, s2.pos)
      <4>1. u2 = <<>> => Len(u) = 1 BY <1>2 DEF Drops
      <4> QED BY <4>1, <3>1, <1>11
    <3>4. \A k \in 1..Len(u2) : u2[k].id # "DONE" BY <1>2, <3>1 DEF Drops
    <3> QED BY <2>1, <3>1, <3>2, <3>3, <3>4 DEF Writes, Serving
  <2>2. CASE c.at = "threw" /\ c.end = "open"
    <3>1. \A k \in 1..Len(u) : u[k].id # "DONE" BY <1>1, <2>2 DEF Talk, Writes
    <3>2. \A k \in 1..Len(u2) : u2[k].id # "DONE" BY <1>2, <3>1 DEF Drops
    <3> QED BY <2>2, <3>2 DEF Writes
  <2> QED BY <2>1, <2>2 DEF Writes
<1>18. Phase(c, s2, u2, d2)
  <2>1. c.end = "open" /\ Adds(d, d2, m) /\ s.fd # NoFile => Len(d2) = 1 /\ d2[1].id = "FAIL" BY <1>9 DEF Adds
  <2> QED BY <1>5, <1>8, <1>9, <1>10, <2>1 DEF Phase, Sending, Asking, Calm, Sends
<1>19. Kinds(c, s2, u2) BY <1>1, <1>5 DEF Talk, Kinds, Sends
<1>20. Fresh(i, c, u2, T) BY <1>1, <1>15 DEF Fresh
<1>21. ASSUME NEW p \in Paths PROVE Sent(i, p, c, s2, d2, q, F2[p], X2[p], T[p])
  <2>1. Sent(i, p, c, s, d, q, F[p], X[p], T[p]) BY DEF Mine
  <2>2. Told(c, d2, p) => Told(c, d, p) BY <1>7, <1>9 DEF Told, Adds
  <2>3. CASE p # s.path
    <3>1. ~AtIt(s2, p) /\ ~AtIt(s, p) BY <2>3 DEF AtIt
    <3> QED BY <2>1, <2>2, <2>3, <3>1 DEF Sent
  <2>4. CASE p = s.path
    <3>1. AtIt(s2, p) /\ AtIt(s, p) BY <2>4 DEF AtIt, Serving
    <3>2. i \in T[p] BY <2>1, <3>1 DEF Sent
    <3>3. ~Told(c, d2, p) BY <1>1, <1>2, <2>2, <3>1, ToldAway
    <3>4. CASE s.fd # NoFile /\ s2.fd = s.fd
      <4>1. s.pos \in Nat BY <1>2 DEF Service
      <4>2. s2.pos = s.pos + 1 /\ F2 = F /\ X2[p][s.fd] = Sync!Overlay(X[p][s.fd], s.pos + 1, u[1].k[1])
        BY <2>4, <3>4
      <4>3. u[1].k[1] = <<i, s.pos + 1>> /\ s.pos + 1 \in 1..Size BY <1>11, <3>4 DEF Carries
      <4>4. T[p] = {i} /\ p \notin Sticky => s.fd = i /\ F[p] = i /\ X[p][i] = Upto(i, s.pos)
        BY <2>1, <3>1, <3>4 DEF Sent
      <4>5. T[p] = {i} /\ p \notin Sticky => X2[p][i] = Upto(i, s.pos + 1)
        BY <4>1, <4>2, <4>3, <4>4, OneChunkMore
      <4>6. s2.fd \in T[p] \cup {Old, NoFile} BY <2>1, <3>1, <3>4 DEF Sent
      <4>7. s2.pos \in 0..Size BY <4>1, <4>2, <4>3, PartsConstants DEF Sync!SyncAssumption
      <4> QED BY <3>1, <3>2, <3>3, <3>4, <4>2, <4>4, <4>5, <4>6, <4>7 DEF Sent
    <3>5. CASE s.fd # NoFile /\ s2.fd = NoFile
      BY <2>4, <3>1, <3>2, <3>3, <3>5 DEF Sent
    <3>6. CASE s.fd = NoFile
      BY <2>1, <2>4, <3>1, <3>2, <3>3, <3>6
    <3> QED BY <3>4, <3>5, <3>6
  <2> QED BY <2>3, <2>4
<1>22. ASSUME NEW p \in Paths PROVE Copying(p, c, s2, u2, d2, q, F2[p], X2[p], T[p], Y[p])
  BY <1>5 DEF Copying
<1> QED BY <1>1, <1>3, <1>14, <1>16, <1>17, <1>18, <1>19, <1>20, <1>21, <1>22 DEF Mine, Talk

(* DONE: the file is whole, or its failure has been told.                  *)
LEMMA MineDone ==
  ASSUME NEW i \in Sessions, NEW c, NEW s, NEW u, NEW d, NEW q, NEW e, NEW Y, NEW F, NEW X, NEW T,
         Mine(i, c, s, u, d, q, e, Y, F, X, T),
         s.at = "data", NEW u2, Drops(u, u2), u[1].id = "DONE",
         NEW s2 \in Service, s2.at = "command", NEW m, m.id = "OKAY",
         NEW d2, \/ s.fd # NoFile /\ c.end = "open" /\ Adds(d, d2, m)
                 \/ s.fd = NoFile /\ d2 = d
  PROVE  Mine(i, c, s2, u2, d2, q, e, Y, F, X, T)
<1>1. Valued(c, s, u, d, q, Y) /\ Talk(i, c, s, u, d, q, e) /\ Fresh(i, c, u, T) BY DEF Mine
<1>2. /\ u \in Seq(Message) /\ u2 \in Seq(Message) /\ c \in Client /\ s \in Service
      /\ d \in Seq(Message) /\ d2 \in Seq(Message) BY <1>1 DEF Valued, Adds, Drops
<1>3. Valued(c, s2, u2, d2, q, Y) BY <1>1, <1>2 DEF Valued
<1>4. 1 \in 1..Len(u) /\ u # <<>> BY <1>2 DEF Drops
<1>5. /\ c.at \in Sends \cup {"failed", "hung"} /\ c.todo # <<>> /\ s.path = c.todo[1] /\ ~Pulling(c)
  BY <1>1 DEF Talk, Chain, Serving
<1>6. s.path \in Paths /\ InTodo(c, s.path) BY <1>2, <1>5, FirstTodo
<1>7. c.end = "open" \/ c.end = "closed" BY <1>2 DEF Client
<1>8. c.end = "open" => c.at \in Sends BY <1>1, <1>5 DEF Talk, Parted, Settled
<1>9. c.end = "open" /\ s.fd # NoFile => d = <<>> BY <1>1, <1>4, <1>8 DEF Talk, Phase, Sending
<1>10. c.end = "open" /\ s.fd = NoFile => Len(d) = 1 /\ d[1].id = "FAIL"
  BY <1>1, <1>4, <1>8 DEF Talk, Phase, Sending
<1>11. s.fd # NoFile => s.pos = Size \/ s.path \in q
  <2>1. Follows(i, q, s, u[1]) BY <1>1, <1>4 DEF Talk, Chain, Serving
  <2> QED BY <2>1 DEF Follows
<1>12. u2 = <<>>
  <2>1. CASE Len(u) > 1
    <3>1. 2 \in 2..Len(u) BY <1>2, <2>1
    <3>2. Link(i, q, u[1], u[2]) BY <1>1, <3>1 DEF Talk, Chain
    <3> QED BY <3>2 DEF Link
  <2>2. CASE Len(u) <= 1 BY <1>2, <1>4, <2>2 DEF Drops
  <2> QED BY <1>2, <2>1, <2>2
<1>13. c.end = "open" => c.at \notin {"data", "threw"} BY <1>1, <1>4 DEF Talk, Writes
<1>14. Chain(i, c, s2, u2, q) BY <1>1, <1>2, ChainStays DEF Talk, Serving
<1>15. Parted(i, c, s2, u2, d2, e) BY <1>1, <1>4, <1>7 DEF Talk, Parted
<1>16. Writes(c, s2, u2, q) BY <1>13 DEF Writes
<1>17. Phase(c, s2, u2, d2)
  <2>1. c.end = "open" /\ s.fd # NoFile => Len(d2) = 1 /\ d2[1].id = "OKAY" BY <1>9, FirstAdded
  <2>2. c.end = "open" /\ s.fd = NoFile => Len(d2) = 1 /\ d2[1].id = "FAIL" BY <1>10
  <2> QED BY <1>5, <1>8, <1>12, <1>13, <2>1, <2>2 DEF Phase, Sending, Asking, Calm, Sends
<1>18. Kinds(c, s2, u2) BY <1>1, <1>5 DEF Talk, Kinds, Sends
<1>19. Fresh(i, c, u2, T) BY <1>1, <1>12 DEF Fresh
<1>20. ASSUME NEW p \in Paths PROVE Sent(i, p, c, s2, d2, q, F[p], X[p], T[p])
  <2>1. Sent(i, p, c, s, d, q, F[p], X[p], T[p]) BY DEF Mine
  <2>2. ~AtIt(s2, p) BY DEF AtIt, Serving
  <2>3. CASE p # s.path
    <3>1. ~AtIt(s, p) BY <2>3 DEF AtIt
    <3>2. Told(c, d2, p) => Told(c, d, p) BY <1>5, <1>7, <1>9, <2>3 DEF Told, Adds
    <3> QED BY <2>1, <2>2, <2>3, <3>1, <3>2 DEF Sent
  <2>4. CASE p = s.path
    <3>1. AtIt(s, p) BY <2>4 DEF AtIt, Serving
    <3>2. CASE s.fd # NoFile BY <2>1, <2>2, <2>4, <3>1, <3>2, <1>11 DEF Sent, Whole
    <3>3. CASE s.fd = NoFile
      <4>1. ~Told(c, d2, p) BY <1>1, <1>2, <3>1, <3>3, ToldAway
      <4> QED BY <2>1, <2>2, <2>4, <3>1, <3>3, <4>1 DEF Sent
    <3> QED BY <3>2, <3>3
  <2> QED BY <2>3, <2>4
<1>21. ASSUME NEW p \in Paths PROVE Copying(p, c, s2, u2, d2, q, F[p], X[p], T[p], Y[p])
  BY <1>5 DEF Copying
<1> QED BY <1>1, <1>3, <1>14, <1>15, <1>16, <1>17, <1>18, <1>19, <1>20, <1>21 DEF Mine, Talk


(* RECV: the file is opened, or its failure told.                          *)
LEMMA MineRecv ==
  ASSUME NEW i \in Sessions, NEW c, NEW s, NEW u, NEW d, NEW q, NEW e, NEW Y, NEW F, NEW X, NEW T,
         Mine(i, c, s, u, d, q, e, Y, F, X, T),
         s.at = "command", NEW u2, Drops(u, u2), u[1].id = "RECV",
         NEW s2 \in Service, NEW m, m.id = "FAIL",
         \A p \in Paths : File(F[p], X[p], T[p]),
         NEW d2, \/ /\ s2.at = "read" /\ s2.path = u[1].path /\ s2.fd = F[u[1].path] /\ s2.fd # NoFile
                    /\ s2.pos = 0 /\ d2 = d
                 \/ s2.at = "command" /\ c.end = "open" /\ Adds(d, d2, m)
  PROVE  Mine(i, c, s2, u2, d2, q, e, Y, F, X, T)
<1>1. Valued(c, s, u, d, q, Y) /\ Talk(i, c, s, u, d, q, e) /\ Fresh(i, c, u, T) BY DEF Mine
<1>2. /\ u \in Seq(Message) /\ u2 \in Seq(Message) /\ c \in Client /\ s \in Service
      /\ d \in Seq(Message) /\ d2 \in Seq(Message) BY <1>1 DEF Valued, Adds, Drops
<1>3. Valued(c, s2, u2, d2, q, Y) BY <1>1, <1>2 DEF Valued
<1>4. 1 \in 1..Len(u) /\ u # <<>> BY <1>2 DEF Drops
<1>5. u[1].path \in Paths BY <1>1, <1>4 DEF Talk, Chain
<1>6. c.end = "open" \/ c.end = "closed" BY <1>2 DEF Client
<1>7. c.end = "open" => c.at = "receive" /\ Len(u) = 1 /\ d = <<>> /\ c.n = 0 /\ u[1].path = c.todo[1]
  BY <1>1, <1>2, <1>4, HeadKinds
<1>8. c.end = "open" => c.todo # <<>> BY <1>1, <1>7 DEF Talk, Phase
<1>9. c.end = "open" => u2 = <<>> BY <1>2, <1>7 DEF Drops
<1>10. c.at # "ok" BY <1>1, <1>4 DEF Talk, Kinds, Only
<1>11. c.at # "next" BY <1>1, <1>4, <1>6, <1>7 DEF Talk, Parted, Settled
<1>12. Chain(i, c, s2, u2, q)
  BY <1>1, <1>2, <1>5, ChainDrops DEF Talk, Serving
<1>13. Parted(i, c, s2, u2, d2, e) BY <1>1, <1>4, <1>6 DEF Talk, Parted
<1>14. Writes(c, s2, u2, q) BY <1>7 DEF Writes
<1>15. Phase(c, s2, u2, d2)
  <2>1. ASSUME c.end = "open", s2.at = "command" PROVE Ends(d2, {"DONE", "FAIL"}, "DATA")
    <3>1. d = <<>> /\ Adds(d, d2, m) BY <2>1, <1>7
    <3>2. Len(d2) = 1 /\ d2[1] = m /\ d2 # <<>> BY <3>1, FirstAdded
    <3> QED BY <3>2 DEF Ends
  <2>2. c.end = "open" /\ s2.at = "read" => Only(d2, {"DATA"}) BY <1>7 DEF Only
  <2> QED BY <1>7, <1>8, <1>9, <2>1, <2>2 DEF Phase, Receives, Asking, Calm, Sends
<1>16. Kinds(c, s2, u2) BY <1>1, <1>10, <1>11 DEF Talk, Kinds
<1>17. Fresh(i, c, u2, T) BY <1>1, <1>2 DEF Fresh, Drops
<1>18. ASSUME NEW p \in Paths PROVE Sent(i, p, c, s2, d2, q, F[p], X[p], T[p])
  <2>1. Sent(i, p, c, s, d, q, F[p], X[p], T[p]) BY DEF Mine
  <2>2. ~AtIt(s2, p) /\ ~AtIt(s, p) BY DEF AtIt, Serving
  <2>3. Told(c, d2, p) => Told(c, d, p) BY <1>6, <1>7 DEF Told, Sends
  <2> QED BY <2>1, <2>2, <2>3 DEF Sent
<1>19. ASSUME NEW p \in Paths PROVE Copying(p, c, s2, u2, d2, q, F[p], X[p], T[p], Y[p])
  <2>1. Copying(p, c, s, u, d, q, F[p], X[p], T[p], Y[p]) BY DEF Mine
  <2>2. ASSUME T[p] = {}, c.end = "open", p = c.todo[1], s2.at = "read" \/ (d2 # <<>> /\ d2[Len(d2)].id # "FAIL")
        PROVE  Got(c, s2, d2, F[p], Y[p], 0)
    <3>1. s2.at = "read" BY <2>2, <1>7 DEF Adds
    <3>2. d2 = <<>> /\ s2.pos = 0 /\ s2.fd = F[p] /\ F[p] # NoFile BY <2>2, <3>1, <1>7
    <3>3. F[p] = Old BY <2>2, <3>2 DEF File
    <3> QED BY <1>7, <2>2, <3>1, <3>2, <3>3 DEF Got
  <2>3. 0 \in 0..Size BY PartsConstants DEF Sync!SyncAssumption
  <2> QED BY <2>1, <2>2, <2>3, <1>6, <1>7 DEF Copying, Asking, Listing
<1> QED BY <1>1, <1>3, <1>12, <1>13, <1>14, <1>15, <1>16, <1>17, <1>18, <1>19 DEF Mine, Talk

(* The answer to RECV: the chunks of the file, its end, or a failure.      *)
LEMMA MineRead ==
  ASSUME NEW i \in Sessions, NEW c, NEW s, NEW u, NEW d, NEW q, NEW e, NEW Y, NEW F, NEW X, NEW T,
         Mine(i, c, s, u, d, q, e, Y, F, X, T), c.end = "open", s.at = "read",
         \A p \in Paths : File(F[p], X[p], T[p]),
         NEW s2 \in Service, NEW m, NEW d2, Adds(d, d2, m),
         \/ /\ s.pos < Len(X[s.path][s.fd]) /\ s2.at = "read" /\ s2.path = s.path /\ s2.fd = s.fd
            /\ s2.pos = s.pos + 1 /\ m.id = "DATA" /\ m.k = <<X[s.path][s.fd][s.pos + 1]>>
         \/ s.pos >= Len(X[s.path][s.fd]) /\ s2.at = "command" /\ m.id = "DONE"
         \/ s2.at = "command" /\ m.id = "FAIL"
  PROVE  Mine(i, c, s2, u, d2, q, e, Y, F, X, T)
<1>1. Valued(c, s, u, d, q, Y) /\ Talk(i, c, s, u, d, q, e) /\ Fresh(i, c, u, T) BY DEF Mine
<1>2. /\ u \in Seq(Message) /\ c \in Client /\ s \in Service
      /\ d \in Seq(Message) /\ d2 \in Seq(Message) BY <1>1 DEF Valued, Adds, Drops
<1>3. Valued(c, s2, u, d2, q, Y) BY <1>1, <1>2 DEF Valued
<1>4. c.at = "receive" BY <1>1, <1>2 DEF Talk, Parted, Phase, Client, Entries, Sending
<1>5. c.todo # <<>> /\ u = <<>> /\ s.path = c.todo[1] /\ Only(d, {"DATA"})
  BY <1>1, <1>4 DEF Talk, Phase, Receives
<1>6. s.fd # NoFile /\ s.path \in Paths BY <1>1 DEF Talk, Chain
<1>7. Chain(i, c, s2, u, q) BY <1>1, <1>2, <1>6, ChainDrops DEF Talk, Serving
<1>8. Parted(i, c, s2, u, d2, e) BY <1>1 DEF Talk, Parted
<1>9. Writes(c, s2, u, q) BY <1>4 DEF Writes
<1>10. Phase(c, s2, u, d2)
  <2>1. s2.at = "command" => Ends(d2, {"DONE", "FAIL"}, "DATA") BY <1>2, <1>5 DEF Adds, Ends, Only
  <2>2. s2.at = "read" => Only(d2, {"DATA"}) /\ s2.path = s.path BY <1>2, <1>5 DEF Only, Adds
  <2> QED BY <1>4, <1>5, <2>1, <2>2 DEF Phase, Receives, Asking, Calm, Sends
<1>11. Kinds(c, s2, u) BY <1>1, <1>4 DEF Talk, Kinds
<1>12. ASSUME NEW p \in Paths PROVE Sent(i, p, c, s2, d2, q, F[p], X[p], T[p])
  <2>1. Sent(i, p, c, s, d, q, F[p], X[p], T[p]) BY DEF Mine
  <2>2. ~AtIt(s2, p) /\ ~AtIt(s, p) BY DEF AtIt, Serving
  <2>3. Told(c, d2, p) => Told(c, d, p) BY <1>4 DEF Told, Sends
  <2> QED BY <2>1, <2>2, <2>3 DEF Sent
<1>13. ASSUME NEW p \in Paths PROVE Copying(p, c, s2, u, d2, q, F[p], X[p], T[p], Y[p])
  <2>1. Copying(p, c, s, u, d, q, F[p], X[p], T[p], Y[p]) BY DEF Mine
  <2>2. ASSUME Pulling(c), T[p] = {}, p = c.todo[1], s2.at = "read" \/ (d2 # <<>> /\ d2[Len(d2)].id # "FAIL")
        PROVE  \E r \in 0..Size : Got(c, s2, d2, F[p], Y[p], r)
    <3>1. PICK r \in 0..Size : Got(c, s, d, F[p], Y[p], r) BY <2>1, <2>2, <1>4 DEF Copying
    <3>2. F[p] = Old /\ s.fd = Old /\ s.pos = r + Len(d) BY <3>1 DEF Got
    <3>3. X[p][Old] = Upto(Old, Size) BY <2>2 DEF File
    <3>4. s.path = p BY <1>5, <2>2
    <3>5. Len(Upto(Old, Size)) = Size /\ Size \in Nat BY PartsConstants DEF Upto, Sync!SyncAssumption
    <3>6. Len(d) \in Nat /\ r \in Nat BY <1>2
    <3>7. CASE s2.at = "read" /\ m.id = "DATA"
      <4>1. s.pos < Size /\ s2.pos = s.pos + 1 /\ s2.fd = Old /\ m.k = <<Upto(Old, Size)[s.pos + 1]>>
        BY <3>2, <3>3, <3>4, <3>5, <3>7
      <4>2. m.k = <<<<Old, r + (Len(d) + 1)>>>> /\ r + (Len(d) + 1) =< Size
        BY <4>1, <3>2, <3>5, <3>6 DEF Upto
      <4>3. ASSUME NEW k \in 1..Len(d2), d2[k].id = "DATA" PROVE d2[k].k = <<<<Old, r + k>>>> /\ r + k =< Size
        <5>1. CASE k = Len(d) + 1 BY <5>1, <4>2 DEF Adds
        <5>2. CASE k # Len(d) + 1
          <6>1. k \in 1..Len(d) /\ d2[k] = d[k] BY <5>2, <3>6 DEF Adds
          <6> QED BY <6>1, <4>3, <3>1 DEF Got
        <5> QED BY <5>1, <5>2
      <4>4. s2.pos = r + Len(d2) BY <4>1, <3>2, <3>6 DEF Adds
      <4> QED BY <3>1, <3>2, <3>7, <4>1, <4>3, <4>4 DEF Got
    <3>8. CASE s2.at = "command"
      <4>1. d2[Len(d2)] = m BY DEF Adds
      <4>2. m.id = "DONE" /\ s.pos >= Size BY <2>2, <3>2, <3>3, <3>4, <3>5, <3>8, <4>1
      <4>3. r + Len(d) =< Size
        <5>1. CASE d = <<>> BY <5>1
        <5>2. CASE d # <<>>
          <6>1. Len(d) \in 1..Len(d) /\ d[Len(d)].id = "DATA" BY <5>2, <1>2, <1>5 DEF Only
          <6> QED BY <6>1, <3>1 DEF Got
        <5> QED BY <5>1, <5>2
      <4>4. r + Len(d2) - 1 = Size BY <3>2, <3>5, <3>6, <4>2, <4>3 DEF Adds
      <4>5. ASSUME NEW k \in 1..Len(d2), d2[k].id = "DATA" PROVE d2[k].k = <<<<Old, r + k>>>> /\ r + k =< Size
        <5>1. k # Len(d2) BY <4>1, <4>2, <4>5
        <5>2. k \in 1..Len(d) /\ d2[k] = d[k] BY <5>1, <3>6 DEF Adds
        <5> QED BY <5>2, <4>5, <3>1 DEF Got
      <4> QED BY <3>1, <3>2, <3>8, <4>4, <4>5 DEF Got
    <3> QED BY <2>2, <3>7, <3>8
  <2> QED BY <2>1, <2>2, <1>4 DEF Copying, Asking, Listing
<1> QED BY <1>1, <1>3, <1>7, <1>8, <1>9, <1>10, <1>11, <1>12, <1>13 DEF Mine, Talk


-----------------------------------------------------------------------------
(* The command.  What a command does before its first answer.              *)
LEMMA MineStart ==
  ASSUME NEW i \in Sessions, NEW c, NEW s, NEW u, NEW d, NEW q, NEW e, NEW Y, NEW F, NEW X, NEW T,
         Mine(i, c, s, u, d, q, e, Y, F, X, T), c.at = "new",
         NEW at, NEW files,
         \/ at = "ask" /\ c.op \in {"push", "pull", "sync"} /\ c.ask # <<>> /\ files = c.todo
         \/ at = "next" /\ c.op \in {"sync", "pushdir"} /\ files = c.todo
         \/ at = "list" /\ c.op = "pulldir" /\ files = <<>>
         \/ at = "wait-transport" /\ c.op = "js" /\ files = c.todo,
         NEW c2, c2 = [c EXCEPT !.at = at, !.todo = files]
  PROVE  Mine(i, c2, s, u, d, q, e, Y, F, X, T)
<1>1. Valued(c, s, u, d, q, Y) /\ Talk(i, c, s, u, d, q, e) /\ Fresh(i, c, u, T) BY DEF Mine
<1>2. c \in Client BY <1>1 DEF Valued
<1>3. at \in Calm \cup Asking /\ files \in Seq(Paths)
  <2>1. c.todo \in Seq(Paths) BY <1>2 DEF Client
  <2>2. files = c.todo \/ files = <<>> OBVIOUS
  <2>3. <<>> \in Seq(Paths) OBVIOUS
  <2>4. files \in Seq(Paths) BY <2>1, <2>2, <2>3
  <2> QED BY <2>4 DEF Calm, Asking
<1>4. /\ c2 \in Client /\ c2.at = at /\ c2.todo = files
      /\ c2.op = c.op /\ c2.files = c.files /\ c2.asked = c.asked /\ c2.ask = c.ask /\ c2.same = c.same
      /\ c2.end = c.end /\ c2.n = c.n
  BY <1>2, <1>3 DEF Client
<1>5. c.end = "open"
  <2>1. c.end # "closed" BY <1>1 DEF Talk, Parted, Settled
  <2> QED BY <1>2, <2>1 DEF Client
<1>6. u = <<>> /\ d = <<>> /\ s.at = "command" BY <1>1, <1>5 DEF Talk, Phase, Calm
<1>7. Valued(c2, s, u, d, q, Y) BY <1>1, <1>4 DEF Valued
<1>8. Chain(i, c2, s, u, q) BY <1>1, <1>4, <1>6 DEF Talk, Chain, Serving
<1>9. Parted(i, c2, s, u, d, e) BY <1>1, <1>4, <1>5, <1>6 DEF Talk, Parted, Settled
<1>10. Writes(c2, s, u, q) BY <1>4 DEF Writes
<1>11. c.asked = 0 /\ c.ask = c.todo BY <1>1 DEF Talk, Kinds
<1>12. Phase(c2, s, u, d) BY <1>4, <1>6, <1>11 DEF Phase, Calm, Asking, Sends, Only
<1>13. Kinds(c2, s, u) BY <1>1, <1>4, <1>6 DEF Talk, Kinds, Pulling, Asking, Sends, Settled
<1>14. ~Pulling(c2) => ~Pulling(c) /\ c2.todo = c.todo
  BY <1>4 DEF Pulling
<1>15. ~Pulling(c) => \A p \in Paths : p \in q \/ i \in T[p] => ~InTodo(c, p)
  BY <1>1 DEF Talk, Quietly, Fresh, Sends, Settled
<1>16. Quietly(c2, q) BY <1>1, <1>14, <1>15 DEF Quietly, InTodo, Valued
<1>17. Fresh(i, c2, u, T)
  <2>1. ~Pulling(c2) => Once(c2.todo) BY <1>1, <1>14 DEF Fresh
  <2>2. ASSUME NEW p \in Paths, i \in T[p] PROVE ~Pulling(c2) /\ ~InTodo(c2, p)
    <3>1. ~Pulling(c) BY <1>1, <2>2 DEF Fresh
    <3> QED BY <1>4, <1>14, <1>15, <2>2, <3>1 DEF InTodo, Pulling
  <2> QED BY <2>1, <2>2 DEF Fresh
<1>18. ASSUME NEW p \in Paths PROVE Sent(i, p, c2, s, d, q, F[p], X[p], T[p])
  <2>1. Sent(i, p, c, s, d, q, F[p], X[p], T[p]) BY DEF Mine
  <2>2. Told(c2, d, p) => Told(c, d, p) BY <1>3, <1>4, <1>6, <1>14 DEF Told, InTodo, Calm, Asking
  <2> QED BY <2>1, <2>2 DEF Sent
<1>19. ASSUME NEW p \in Paths PROVE Copying(p, c2, s, u, d, q, F[p], X[p], T[p], Y[p])
  <2>1. Copying(p, c, s, u, d, q, F[p], X[p], T[p], Y[p]) BY DEF Mine
  <2>2. Pulling(c2) => (c.op = "pull" /\ at = "ask" /\ files = c.todo) \/ at = "list" BY <1>4 DEF Pulling
  <2>3. Pulling(c) => Pulling(c2) BY <1>4 DEF Pulling
  <2> QED BY <2>1, <2>2, <1>4 DEF Copying, Listing, InTodo, Pulling, Asking
<1> QED BY <1>7, <1>8, <1>9, <1>10, <1>12, <1>13, <1>16, <1>17, <1>18, <1>19 DEF Mine, Talk

(* sync_start_readtime: one STAT more.                                     *)
LEMMA MineAsk ==
  ASSUME NEW i \in Sessions, NEW c, NEW s, NEW u, NEW d, NEW q, NEW e, NEW Y, NEW F, NEW X, NEW T,
         Mine(i, c, s, u, d, q, e, Y, F, X, T), c.at = "ask", i \notin e,
         NEW at, at = IF Tail(c.ask) = <<>> THEN "answer" ELSE "ask",
         NEW c2, c2 = [c EXCEPT !.ask = Tail(@), !.asked = @ + 1, !.at = at],
         NEW m, m.id = "STAT", m.path \in Paths, NEW u2, Adds(u, u2, m)
  PROVE  Mine(i, c2, s, u2, d, q, e, Y, F, X, T)
<1>1. Valued(c, s, u, d, q, Y) /\ Talk(i, c, s, u, d, q, e) /\ Fresh(i, c, u, T) BY DEF Mine
<1>2. c \in Client /\ u \in Seq(Message) /\ u2 \in Seq(Message) /\ d \in Seq(Message) BY <1>1 DEF Valued, Adds
<1>3. c.end = "open"
  <2>1. c.end # "closed" BY <1>1 DEF Talk, Parted, Settled
  <2> QED BY <1>2, <2>1 DEF Client
<1>4. s.at = "command" /\ Only(u, {"STAT"}) /\ Only(d, {"STAT"}) /\ c.asked = Len(u) + Len(d) /\ c.ask # <<>>
  BY <1>1, <1>3 DEF Talk, Phase, Asking
<1>5. at \in {"ask", "answer"} /\ Tail(c.ask) \in Seq(Paths) /\ c.asked + 1 \in Nat BY <1>2, <1>4 DEF Client
<1>6. /\ c2 \in Client /\ c2.at = at /\ c2.todo = c.todo /\ c2.ask = Tail(c.ask)
      /\ c2.op = c.op /\ c2.files = c.files /\ c2.asked = c.asked + 1 /\ c2.same = c.same
      /\ c2.end = c.end /\ c2.n = c.n
  <2>1. at \in Asking BY <1>5 DEF Asking
  <2> QED BY <1>2, <1>5, <2>1 DEF Client
<1>7. Valued(c2, s, u2, d, q, Y) BY <1>1, <1>2, <1>6 DEF Valued
<1>8. Only(u2, {"STAT"}) BY <1>2, <1>4 DEF Only, Adds
<1>9. \A k \in 1..Len(u2) : u2[k].path \in Paths
  <2>1. \A k \in 1..Len(u) : u[k].path \in Paths BY <1>1, <1>4 DEF Talk, Chain, Only
  <2> QED BY <1>2, <2>1 DEF Adds
<1>10. Chain(i, c2, s, u2, q)
  <2>1. ASSUME NEW k \in 2..Len(u2) PROVE Link(i, q, u2[k - 1], u2[k])
    <3>1. k \in 1..Len(u2) /\ k - 1 \in 1..Len(u2) BY <1>2
    <3>2. u2[k].id = "STAT" /\ u2[k - 1].id = "STAT" BY <3>1, <1>8 DEF Only
    <3> QED BY <3>2 DEF Link
  <2> QED BY <1>4, <1>8, <1>9, <2>1 DEF Chain, Serving, Only
<1>11. Parted(i, c2, s, u2, d, e) BY <1>1, <1>3, <1>5, <1>6 DEF Talk, Parted, Settled
<1>12. Writes(c2, s, u2, q) BY <1>5, <1>6 DEF Writes
<1>13. c2.asked = Len(u2) + Len(d) /\ (at = "ask" => c2.ask # <<>>)
  BY <1>2, <1>4, <1>6 DEF Adds
<1>14. Phase(c2, s, u2, d) BY <1>4, <1>5, <1>6, <1>8, <1>13 DEF Phase, Calm, Asking, Sends
<1>15. Kinds(c2, s, u2) BY <1>1, <1>5, <1>6 DEF Talk, Kinds, Pulling, Asking, Sends, Settled
<1>16. Quietly(c2, q) BY <1>1, <1>6 DEF Talk, Quietly, InTodo, Pulling, Sends, Settled
<1>17. Fresh(i, c2, u2, T) BY <1>1, <1>6 DEF Fresh, InTodo, Pulling, Sends, Settled
<1>18. ASSUME NEW p \in Paths PROVE Sent(i, p, c2, s, d, q, F[p], X[p], T[p])
  <2>1. Sent(i, p, c, s, d, q, F[p], X[p], T[p]) BY DEF Mine
  <2>2. Told(c2, d, p) => Told(c, d, p) BY <1>5, <1>6 DEF Told, InTodo, Pulling, Sends
  <2> QED BY <2>1, <2>2 DEF Sent
<1>19. ASSUME NEW p \in Paths PROVE Copying(p, c2, s, u2, d, q, F[p], X[p], T[p], Y[p])
  <2>1. Copying(p, c, s, u, d, q, F[p], X[p], T[p], Y[p]) BY DEF Mine
  <2> QED BY <2>1, <1>5, <1>6 DEF Copying, Listing, InTodo, Pulling, Asking
<1> QED BY <1>7, <1>10, <1>11, <1>12, <1>14, <1>15, <1>16, <1>17, <1>18, <1>19 DEF Mine, Talk

(* The answer to a STAT.                                                   *)
LEMMA MineAnswer ==
  ASSUME NEW i \in Sessions, NEW c, NEW s, NEW u, NEW d, NEW q, NEW e, NEW Y, NEW F, NEW X, NEW T,
         Mine(i, c, s, u, d, q, e, Y, F, X, T), c.at = "answer", NEW d2, Drops(d, d2),
         NEW at, at = IF c.asked = 1 THEN "next" ELSE "answer",
         NEW same, same = c.same \/ (c.op = "sync" /\ same = c.same \cup {d[1].path}),
         NEW c2, c2 = [c EXCEPT !.asked = @ - 1, !.at = at, !.same = same]
  PROVE  Mine(i, c2, s, u, d2, q, e, Y, F, X, T)
<1>1. Valued(c, s, u, d, q, Y) /\ Talk(i, c, s, u, d, q, e) /\ Fresh(i, c, u, T) BY DEF Mine
<1>2. c \in Client /\ u \in Seq(Message) /\ d \in Seq(Message) /\ d2 \in Seq(Message) BY <1>1 DEF Valued, Drops
<1>3. d # <<>> /\ d[1] \in Message BY <1>2 DEF Drops
<1>4. c.end = "open"
  <2>1. c.end # "closed" BY <1>1, <1>3 DEF Talk, Parted, Settled
  <2> QED BY <1>2, <2>1 DEF Client
<1>5. s.at = "command" /\ Only(u, {"STAT"}) /\ Only(d, {"STAT"}) /\ c.asked = Len(u) + Len(d)
  BY <1>1, <1>4 DEF Talk, Phase, Asking
<1>6. at \in {"next", "answer"} /\ c.asked - 1 \in Nat /\ c.asked - 1 = Len(u) + Len(d2)
  BY <1>2, <1>3, <1>5 DEF Drops
<1>7. same \subseteq Paths \cup {NoFile}
  <2>1. d[1].path \in Paths \cup {NoFile} BY <1>3 DEF Message
  <2> QED BY <1>2, <2>1 DEF Client
<1>8. /\ c2 \in Client /\ c2.at = at /\ c2.todo = c.todo /\ c2.ask = c.ask
      /\ c2.op = c.op /\ c2.files = c.files /\ c2.asked = c.asked - 1 /\ c2.same = same
      /\ c2.end = c.end /\ c2.n = c.n
  <2>1. at \in Asking \cup Calm BY <1>6 DEF Asking, Calm
  <2> QED BY <1>2, <1>6, <1>7, <2>1 DEF Client
<1>9. Valued(c2, s, u, d2, q, Y) BY <1>1, <1>2, <1>8 DEF Valued
<1>10. Chain(i, c2, s, u, q) BY <1>1, <1>5, <1>8 DEF Talk, Chain, Serving, Pulling, Only
<1>11. Parted(i, c2, s, u, d2, e) BY <1>1, <1>4, <1>6, <1>8 DEF Talk, Parted, Settled
<1>12. Writes(c2, s, u, q) BY <1>6, <1>8 DEF Writes
<1>13. Only(d2, {"STAT"}) BY <1>2, <1>5 DEF Only, Drops
<1>14. at = "next" => u = <<>> /\ d2 = <<>> BY <1>2, <1>3, <1>5, <1>6
<1>15. Phase(c2, s, u, d2) BY <1>5, <1>6, <1>8, <1>13, <1>14 DEF Phase, Calm, Asking, Sends
<1>16. Kinds(c2, s, u) BY <1>1, <1>5, <1>6, <1>8 DEF Talk, Kinds, Pulling, Asking, Sends, Settled
<1>17. Quietly(c2, q) BY <1>1, <1>8 DEF Talk, Quietly, InTodo, Pulling, Sends, Settled
<1>18. Fresh(i, c2, u, T) BY <1>1, <1>8 DEF Fresh, InTodo, Pulling, Sends, Settled
<1>19. ASSUME NEW p \in Paths PROVE Sent(i, p, c2, s, d2, q, F[p], X[p], T[p])
  <2>1. Sent(i, p, c, s, d, q, F[p], X[p], T[p]) BY DEF Mine
  <2>2. Told(c2, d2, p) => Told(c, d, p) BY <1>6, <1>8 DEF Told, InTodo, Pulling, Sends
  <2> QED BY <2>1, <2>2 DEF Sent
<1>20. ASSUME NEW p \in Paths PROVE Copying(p, c2, s, u, d2, q, F[p], X[p], T[p], Y[p])
  <2>1. Copying(p, c, s, u, d, q, F[p], X[p], T[p], Y[p]) BY DEF Mine
  <2>2. Pulling(c) => c.op = "pull" BY <1>1 DEF Talk, Kinds, Pulling, Asking
  <2> QED BY <2>1, <2>2, <1>6, <1>8 DEF Copying, Listing, InTodo, Pulling, Asking
<1> QED BY <1>9, <1>10, <1>11, <1>12, <1>15, <1>16, <1>17, <1>18, <1>19, <1>20 DEF Mine, Talk


(* LIST, and each entry of its answer.                                     *)
LEMMA MineLists ==
  ASSUME NEW i \in Sessions, NEW c, NEW s, NEW u, NEW d, NEW q, NEW e, NEW Y, NEW F, NEW X, NEW T,
         Mine(i, c, s, u, d, q, e, Y, F, X, T), c.at = "list", i \notin e,
         NEW c2, c2 = [c EXCEPT !.at = "entries"], NEW m, m.id = "LIST", NEW u2, Adds(u, u2, m)
  PROVE  Mine(i, c2, s, u2, d, q, e, Y, F, X, T)
<1>1. Valued(c, s, u, d, q, Y) /\ Talk(i, c, s, u, d, q, e) /\ Fresh(i, c, u, T) BY DEF Mine
<1>2. c \in Client /\ u \in Seq(Message) /\ u2 \in Seq(Message) /\ d \in Seq(Message) BY <1>1 DEF Valued, Adds
<1>3. c.end = "open"
  <2>1. c.end # "closed" BY <1>1 DEF Talk, Parted, Settled
  <2> QED BY <1>2, <2>1 DEF Client
<1>4. u = <<>> /\ d = <<>> /\ s.at = "command" BY <1>1, <1>3 DEF Talk, Phase, Calm
<1>5. Len(u2) = 1 /\ u2[1].id = "LIST" /\ u2 # <<>> BY <1>4, FirstAdded
<1>6. /\ c2 \in Client /\ c2.at = "entries" /\ c2.todo = c.todo /\ c2.ask = c.ask
      /\ c2.op = c.op /\ c2.files = c.files /\ c2.asked = c.asked /\ c2.same = c.same
      /\ c2.end = c.end /\ c2.n = c.n
  BY <1>2 DEF Client
<1>7. Pulling(c) BY <1>1 DEF Talk, Kinds
<1>8. Valued(c2, s, u2, d, q, Y) BY <1>1, <1>2, <1>6 DEF Valued
<1>9. Chain(i, c2, s, u2, q) BY <1>4, <1>5 DEF Chain, Serving
<1>10. Parted(i, c2, s, u2, d, e) BY <1>1, <1>3, <1>6 DEF Talk, Parted, Settled
<1>11. Writes(c2, s, u2, q) BY <1>6 DEF Writes
<1>12. Phase(c2, s, u2, d) BY <1>4, <1>5, <1>6 DEF Phase, Calm, Asking, Sends, Entries
<1>13. Kinds(c2, s, u2) BY <1>1, <1>6, <1>7 DEF Talk, Kinds, Pulling, Asking, Sends, Settled
<1>14. Quietly(c2, q) /\ Fresh(i, c2, u2, T) BY <1>1, <1>6, <1>7 DEF Quietly, Fresh, Pulling
<1>15. ASSUME NEW p \in Paths PROVE Sent(i, p, c2, s, d, q, F[p], X[p], T[p])
  <2>1. Sent(i, p, c, s, d, q, F[p], X[p], T[p]) BY DEF Mine
  <2>2. ~Told(c2, d, p) BY <1>6, <1>7 DEF Told, Pulling
  <2> QED BY <2>1, <2>2 DEF Sent
<1>16. ASSUME NEW p \in Paths PROVE Copying(p, c2, s, u2, d, q, F[p], X[p], T[p], Y[p])
  <2>1. Copying(p, c, s, u, d, q, F[p], X[p], T[p], Y[p]) BY DEF Mine
  <2> QED BY <2>1, <1>5, <1>6 DEF Copying, Listing, InTodo, Pulling, Asking
<1> QED BY <1>8, <1>9, <1>10, <1>11, <1>12, <1>13, <1>14, <1>15, <1>16 DEF Mine, Talk

LEMMA MineEntryRead ==
  ASSUME NEW i \in Sessions, NEW c, NEW s, NEW u, NEW d, NEW q, NEW e, NEW Y, NEW F, NEW X, NEW T,
         Mine(i, c, s, u, d, q, e, Y, F, X, T), c.at = "entries", NEW d2, Drops(d, d2),
         \A p \in Paths : File(F[p], X[p], T[p]),
         NEW c2, c2 = IF d[1].id = "DENT"
                      THEN [c EXCEPT !.todo = Append(@, d[1].path), !.files = @ \cup {d[1].path}]
                      ELSE [c EXCEPT !.at = "next"]
  PROVE  Mine(i, c2, s, u, d2, q, e, Y, F, X, T)
<1>1. Valued(c, s, u, d, q, Y) /\ Talk(i, c, s, u, d, q, e) /\ Fresh(i, c, u, T) BY DEF Mine
<1>2. c \in Client /\ u \in Seq(Message) /\ d \in Seq(Message) /\ d2 \in Seq(Message) BY <1>1 DEF Valued, Drops
<1>3. d # <<>> /\ 1 \in 1..Len(d) BY <1>2 DEF Drops
<1>4. c.end = "open"
  <2>1. c.end # "closed" BY <1>1, <1>3 DEF Talk, Parted, Settled
  <2> QED BY <1>2, <2>1 DEF Client
<1>5. Entries(c, s, u, d) /\ \A k \in 1..Len(d) : d[k].id = "DENT" => d[k].path \in Paths
  BY <1>1, <1>4 DEF Talk, Phase
<1>6. Pulling(c) BY <1>1 DEF Talk, Kinds
<1>7. u = <<>> /\ \/ s.at = "list" /\ Only(d, {"DENT"})
                  \/ s.at = "command" /\ Ends(d, {"DONE"}, "DENT")
  BY <1>3, <1>5 DEF Entries
<1>8. CASE d[1].id = "DENT"
  <2>1. d[1].path \in Paths BY <1>3, <1>5, <1>8
  <2>2. Append(c.todo, d[1].path) \in Seq(Paths) /\ c.files \cup {d[1].path} \subseteq Paths
    BY <1>2, <2>1 DEF Client
  <2>3. /\ c2 \in Client /\ c2.at = "entries" /\ c2.todo = Append(c.todo, d[1].path) /\ c2.ask = c.ask
        /\ c2.op = c.op /\ c2.files = c.files \cup {d[1].path} /\ c2.asked = c.asked /\ c2.same = c.same
        /\ c2.end = c.end /\ c2.n = c.n
    BY <1>2, <1>8, <2>2 DEF Client
  <2>4. \A p : InTodo(c2, p) <=> InTodo(c, p) \/ p = d[1].path
    <3>1. c.todo \in Seq(Paths) BY <1>2 DEF Client
    <3> QED BY <2>1, <2>3, <3>1 DEF InTodo
  <2>5. Valued(c2, s, u, d2, q, Y) BY <1>1, <1>2, <2>3 DEF Valued
  <2>6. Chain(i, c2, s, u, q) BY <1>1, <1>7 DEF Talk, Chain, Serving
  <2>7. Parted(i, c2, s, u, d2, e) BY <1>1, <1>4, <2>3 DEF Talk, Parted, Settled
  <2>8. Writes(c2, s, u, q) BY <2>3 DEF Writes
  <2>9. Entries(c2, s, u, d2) /\ \A k \in 1..Len(d2) : d2[k].id = "DENT" => d2[k].path \in Paths
    <3>1. Only(d, {"DENT"}) => Only(d2, {"DENT"}) BY <1>2 DEF Only, Drops
    <3>2. Ends(d, {"DONE"}, "DENT") => Ends(d2, {"DONE"}, "DENT")
      <4> SUFFICES ASSUME Ends(d, {"DONE"}, "DENT") PROVE Ends(d2, {"DONE"}, "DENT") OBVIOUS
      <4>1. Len(d) > 1 BY <1>2, <1>3, <1>8 DEF Ends
      <4>2. /\ Len(d) \in Nat /\ Len(d2) = Len(d) - 1
            /\ \A k \in 1..Len(d2) : k + 1 \in 1..Len(d) /\ d2[k] = d[k + 1]
        BY <1>2 DEF Drops
      <4>3. Len(d2) \in 1..Len(d2) /\ d2 # <<>> BY <4>1, <4>2
      <4>4. d2[Len(d2)].id \in {"DONE"} BY <4>2, <4>3 DEF Ends
      <4>5. ASSUME NEW k \in 1..Len(d2), k # Len(d2) PROVE d2[k].id = "DENT"
        <5>1. k + 1 \in 1..Len(d) /\ d2[k] = d[k + 1] /\ k + 1 # Len(d) BY <4>2, <4>5
        <5> QED BY <5>1 DEF Ends
      <4> QED BY <4>3, <4>4, <4>5 DEF Ends
    <3>3. ASSUME NEW k \in 1..Len(d2), d2[k].id = "DENT" PROVE d2[k].path \in Paths
      <4>1. k + 1 \in 1..Len(d) /\ d2[k] = d[k + 1] BY <1>2 DEF Drops
      <4> QED BY <4>1, <3>3, <1>5
    <3> QED BY <1>7, <3>1, <3>2, <3>3 DEF Entries
  <2>10. Phase(c2, s, u, d2) BY <2>3, <2>9 DEF Phase, Calm, Asking, Sends
  <2>11. Kinds(c2, s, u) BY <1>1, <1>6, <2>3 DEF Talk, Kinds, Pulling, Asking, Sends, Settled
  <2>12. Quietly(c2, q) /\ Fresh(i, c2, u, T) BY <1>1, <1>6, <2>3 DEF Quietly, Fresh, Pulling
  <2>13. ASSUME NEW p \in Paths PROVE Sent(i, p, c2, s, d2, q, F[p], X[p], T[p])
    <3>1. Sent(i, p, c, s, d, q, F[p], X[p], T[p]) BY DEF Mine
    <3>2. ~Told(c2, d2, p) BY <1>6, <2>3 DEF Told, Pulling
    <3> QED BY <3>1, <3>2 DEF Sent
  <2>14. ASSUME NEW p \in Paths PROVE Copying(p, c2, s, u, d2, q, F[p], X[p], T[p], Y[p])
    <3>1. Copying(p, c, s, u, d, q, F[p], X[p], T[p], Y[p]) BY DEF Mine
    <3>2. ASSUME NEW k \in 1..Len(d), d[k].id = "DENT", d[k].path = p
          PROVE InTodo(c2, p) \/ \E l \in 1..Len(d2) : d2[l].id = "DENT" /\ d2[l].path = p
      <4>1. CASE k = 1 BY <3>2, <4>1, <2>4
      <4>2. CASE k # 1
        <5>1. k - 1 \in 1..Len(d2) /\ (k - 1) + 1 = k BY <1>2, <4>2 DEF Drops
        <5>2. d2[k - 1] = d[k] BY <5>1 DEF Drops
        <5> QED BY <3>2, <5>1, <5>2
      <4> QED BY <4>1, <4>2
    <3> QED BY <3>1, <3>2, <2>3, <2>4, <1>7 DEF Copying, Listing, Pulling, Asking
  <2> QED BY <2>5, <2>6, <2>7, <2>8, <2>10, <2>11, <2>12, <2>13, <2>14 DEF Mine, Talk
<1>9. CASE d[1].id # "DENT"
  <2>1. s.at = "command" /\ Ends(d, {"DONE"}, "DENT") BY <1>3, <1>7, <1>9 DEF Only
  <2>2. Len(d) = 1 /\ d2 = <<>>
    <3>1. Len(d) = 1 BY <1>2, <1>3, <1>9, <2>1 DEF Ends
    <3> QED BY <1>2, <3>1 DEF Drops
  <2>3. /\ c2 \in Client /\ c2.at = "next" /\ c2.todo = c.todo /\ c2.ask = c.ask
        /\ c2.op = c.op /\ c2.files = c.files /\ c2.asked = c.asked /\ c2.same = c.same
        /\ c2.end = c.end /\ c2.n = c.n
    <3>1. "next" \in Calm BY DEF Calm
    <3> QED BY <1>2, <1>9, <3>1 DEF Client
  <2>4. Valued(c2, s, u, d2, q, Y) BY <1>1, <1>2, <2>3 DEF Valued
  <2>5. Chain(i, c2, s, u, q) BY <1>1, <1>7, <2>1 DEF Talk, Chain, Serving
  <2>6. Parted(i, c2, s, u, d2, e) BY <1>1, <1>4, <2>3 DEF Talk, Parted, Settled
  <2>7. Writes(c2, s, u, q) BY <2>3 DEF Writes
  <2>8. Phase(c2, s, u, d2) BY <2>1, <2>2, <2>3, <1>7 DEF Phase, Calm, Asking, Sends
  <2>9. Kinds(c2, s, u) BY <1>1, <1>6, <2>1, <2>3 DEF Talk, Kinds, Pulling, Asking, Sends, Settled
  <2>10. Quietly(c2, q) /\ Fresh(i, c2, u, T) BY <1>1, <1>6, <2>3 DEF Quietly, Fresh, Pulling
  <2>11. ASSUME NEW p \in Paths PROVE Sent(i, p, c2, s, d2, q, F[p], X[p], T[p])
    <3>1. Sent(i, p, c, s, d, q, F[p], X[p], T[p]) BY DEF Mine
    <3>2. ~Told(c2, d2, p) BY <1>6, <2>3 DEF Told, Pulling
    <3> QED BY <3>1, <3>2 DEF Sent
  <2>12. ASSUME NEW p \in Paths PROVE Copying(p, c2, s, u, d2, q, F[p], X[p], T[p], Y[p])
    <3>1. Copying(p, c, s, u, d, q, F[p], X[p], T[p], Y[p]) BY DEF Mine
    <3>2. T[p] = {} => Y[p] = <<>> BY <3>1, <1>6 DEF Copying, Listing
    <3>3. T[p] = {} /\ F[p] = Old => InTodo(c, p)
      <4>1. \A k \in 1..Len(d) : d[k].id # "DENT" BY <1>9, <2>2
      <4> QED BY <3>1, <4>1, <1>4, <1>6, <1>7, <2>1 DEF Copying
    <3>4. T[p] = {} /\ ~InTodo(c, p) => F[p] = NoFile BY <3>3 DEF File
    <3> QED BY <3>2, <3>4, <2>3 DEF Copying, Listing, Pulling, Asking, Status, InTodo
  <2> QED BY <2>4, <2>5, <2>6, <2>7, <2>8, <2>9, <2>10, <2>11, <2>12 DEF Mine, Talk
<1> QED BY <1>8, <1>9


(* QUIT, whether or not it can be written.                                 *)
LEMMA MineQuit ==
  ASSUME NEW i \in Sessions, NEW c, NEW s, NEW u, NEW d, NEW q, NEW e, NEW Y, NEW F, NEW X, NEW T,
         Mine(i, c, s, u, d, q, e, Y, F, X, T), c.at = "next", c.todo = <<>>,
         NEW c2, c2 = [c EXCEPT !.at = "ok", !.end = "closed"],
         NEW m, m.id = "QUIT", NEW u2, u2 = u \/ (i \notin e /\ Adds(u, u2, m))
  PROVE  Mine(i, c2, s, u2, d, q, e, Y, F, X, T)
<1>1. Valued(c, s, u, d, q, Y) /\ Talk(i, c, s, u, d, q, e) /\ Fresh(i, c, u, T) BY DEF Mine
<1>2. c \in Client /\ u \in Seq(Message) /\ u2 \in Seq(Message) /\ d \in Seq(Message) BY <1>1 DEF Valued, Adds
<1>3. c.end = "open" \/ c.end = "closed" BY <1>2 DEF Client
<1>4. u = <<>> /\ (u2 # u => c.end = "open")
  <2>1. c.end = "open" => u = <<>> BY <1>1 DEF Talk, Phase, Calm
  <2>2. c.end = "closed" => u = <<>> /\ i \in e BY <1>1 DEF Talk, Parted, Settled
  <2> QED BY <1>3, <2>1, <2>2
<1>5. Only(u2, {"QUIT"})
  <2>1. u2 = u => Len(u2) = 0 BY <1>4
  <2>2. Adds(u, u2, m) => Len(u2) = 1 /\ u2[1] = m BY <1>4, FirstAdded
  <2> QED BY <2>1, <2>2 DEF Only
<1>6. Len(u2) \in {0, 1}
  <2>1. Len(<<>>) = 0 OBVIOUS
  <2> QED BY <1>4, <2>1, FirstAdded
<1>7. s.at \in {"command", "ended"} BY <1>1 DEF Talk, Kinds
<1>8. /\ c2 \in Client /\ c2.at = "ok" /\ c2.todo = c.todo /\ c2.ask = c.ask
      /\ c2.op = c.op /\ c2.files = c.files /\ c2.asked = c.asked /\ c2.same = c.same
      /\ c2.end = "closed" /\ c2.n = c.n
  <2>1. "ok" \in Settled BY DEF Settled
  <2> QED BY <1>2, <2>1 DEF Client
<1>9. Valued(c2, s, u2, d, q, Y) BY <1>1, <1>2, <1>8 DEF Valued
<1>10. Chain(i, c2, s, u2, q) BY <1>5, <1>6, <1>7 DEF Chain, Serving, Only
<1>11. Parted(i, c2, s, u2, d, e) BY <1>1, <1>8 DEF Talk, Parted, Settled
<1>12. Writes(c2, s, u2, q) /\ Phase(c2, s, u2, d) BY <1>8 DEF Writes, Phase
<1>13. Kinds(c2, s, u2) BY <1>1, <1>5, <1>7, <1>8 DEF Talk, Kinds, Pulling, Asking, Sends, Settled
<1>14. \A p : ~InTodo(c, p) /\ ~InTodo(c2, p)
  <2>1. Len(<<>>) = 0 OBVIOUS
  <2> QED BY <1>8, <2>1 DEF InTodo
<1>15. Quietly(c2, q) BY <1>14 DEF Quietly
<1>16. Fresh(i, c2, u2, T) BY <1>1, <1>8, <1>14 DEF Fresh, Pulling
<1>17. ASSUME NEW p \in Paths PROVE Sent(i, p, c2, s, d, q, F[p], X[p], T[p])
  <2>1. Sent(i, p, c, s, d, q, F[p], X[p], T[p]) BY DEF Mine
  <2>2. Told(c2, d, p) => Told(c, d, p) BY <1>8, <1>14 DEF Told, Pulling
  <2> QED BY <2>1, <2>2 DEF Sent
<1>18. ASSUME NEW p \in Paths PROVE Copying(p, c2, s, u2, d, q, F[p], X[p], T[p], Y[p])
  <2>1. Copying(p, c, s, u, d, q, F[p], X[p], T[p], Y[p]) BY DEF Mine
  <2> QED BY <2>1, <1>8, <1>14 DEF Copying, Listing, Pulling, Asking
<1> QED BY <1>9, <1>10, <1>11, <1>12, <1>13, <1>15, <1>16, <1>17, <1>18 DEF Mine, Talk

(* The files that are left: the first of them is over.                     *)
LEMMA RestOf ==
  ASSUME NEW c \in Client, c.todo # <<>>
  PROVE  /\ Tail(c.todo) \in Seq(Paths) /\ Len(Tail(c.todo)) = Len(c.todo) - 1 /\ Len(c.todo) \in Nat \ {0}
         /\ \A k \in 1..Len(Tail(c.todo)) : k + 1 \in 1..Len(c.todo) /\ Tail(c.todo)[k] = c.todo[k + 1]
<1>1. c.todo \in Seq(Paths) BY DEF Client
<1> QED BY <1>1
LEMMA Rest ==
  ASSUME NEW c \in Client, c.todo # <<>>, NEW c2, c2.todo = Tail(c.todo)
  PROVE  \A p : InTodo(c, p) <=> InTodo(c2, p) \/ p = c.todo[1]
<1>1. ASSUME NEW p, InTodo(c, p), p # c.todo[1] PROVE InTodo(c2, p)
  <2>1. PICK k \in 1..Len(c.todo) : c.todo[k] = p BY <1>1 DEF InTodo
  <2>2. k - 1 \in 1..Len(c2.todo) /\ (k - 1) + 1 = k BY <1>1, <2>1, RestOf
  <2>3. c2.todo[k - 1] = p BY <2>1, <2>2, RestOf
  <2> QED BY <2>2, <2>3 DEF InTodo
<1>2. ASSUME NEW p, InTodo(c2, p) PROVE InTodo(c, p) BY <1>2, RestOf DEF InTodo
<1>3. InTodo(c, c.todo[1]) BY FirstTodo
<1> QED BY <1>1, <1>2, <1>3
LEMMA RestOnce ==
  ASSUME NEW c \in Client, c.todo # <<>>, Once(c.todo)
  PROVE  Once(Tail(c.todo)) /\ \A k \in 1..Len(Tail(c.todo)) : Tail(c.todo)[k] # c.todo[1]
<1>1. ASSUME NEW k \in 1..Len(Tail(c.todo)), NEW l \in 1..Len(Tail(c.todo)), Tail(c.todo)[k] = Tail(c.todo)[l]
      PROVE  k = l
  <2>1. k + 1 \in 1..Len(c.todo) /\ l + 1 \in 1..Len(c.todo) /\ c.todo[k + 1] = c.todo[l + 1]
    BY <1>1, RestOf
  <2>2. k + 1 = l + 1 BY <2>1 DEF Once
  <2> QED BY <2>2
<1>2. ASSUME NEW k \in 1..Len(Tail(c.todo)), Tail(c.todo)[k] = c.todo[1] PROVE FALSE
  <2>1. k + 1 \in 1..Len(c.todo) /\ 1 \in 1..Len(c.todo) /\ c.todo[k + 1] = c.todo[1] BY <1>2, RestOf
  <2>2. k + 1 = 1 BY <2>1 DEF Once
  <2> QED BY <2>2
<1> QED BY <1>1, <1>2 DEF Once

(* A file that sync flagged is not sent.                                   *)
LEMMA MineSkip ==
  ASSUME NEW i \in Sessions, NEW c, NEW s, NEW u, NEW d, NEW q, NEW e, NEW Y, NEW F, NEW X, NEW T,
         Mine(i, c, s, u, d, q, e, Y, F, X, T), c.at = "next", c.todo # <<>>, c.todo[1] \in c.same,
         NEW c2, c2 = [c EXCEPT !.todo = Tail(@)]
  PROVE  Mine(i, c2, s, u, d, q, e, Y, F, X, T)
<1>1. Valued(c, s, u, d, q, Y) /\ Talk(i, c, s, u, d, q, e) /\ Fresh(i, c, u, T) BY DEF Mine
<1>2. c \in Client BY <1>1 DEF Valued
<1>3. c.op = "sync" /\ ~Pulling(c) BY <1>1 DEF Talk, Kinds, Pulling
<1>4. c2.todo = Tail(c.todo) BY <1>2 DEF Client
<1>5. /\ \A p : InTodo(c, p) <=> InTodo(c2, p) \/ p = c.todo[1]
      /\ Tail(c.todo) \in Seq(Paths)
      /\ Once(c2.todo)
  <2>1. Once(c.todo) BY <1>1, <1>3 DEF Fresh
  <2>2. Once(Tail(c.todo)) BY <1>2, <2>1, RestOnce
  <2>3. \A p : InTodo(c, p) <=> InTodo(c2, p) \/ p = c.todo[1] BY <1>2, <1>4, Rest
  <2>4. Tail(c.todo) \in Seq(Paths) BY <1>2, RestOf
  <2>5. Once(c2.todo) BY <1>4, <2>2
  <2> QED BY <2>3, <2>4, <2>5
<1>6. /\ c2 \in Client /\ c2.at = "next" /\ c2.ask = c.ask
      /\ c2.op = c.op /\ c2.files = c.files /\ c2.asked = c.asked /\ c2.same = c.same
      /\ c2.end = c.end /\ c2.n = c.n
  BY <1>2, <1>5 DEF Client
<1>7. \A p \in Paths : p \in q \/ i \in T[p] => ~InTodo(c, p)
  BY <1>1, <1>3 DEF Talk, Quietly, Fresh, Sends, Settled
<1>8. u = <<>> /\ s.at \in {"command", "ended"}
  <2>1. c.end = "open" => u = <<>> BY <1>1 DEF Talk, Phase, Calm
  <2>2. c.end = "closed" => u = <<>> BY <1>1 DEF Talk, Parted, Settled
  <2>3. s.at \in {"command", "ended"} BY <1>1 DEF Talk, Kinds
  <2> QED BY <1>2, <2>1, <2>2, <2>3 DEF Client
<1>9. Valued(c2, s, u, d, q, Y) BY <1>1, <1>6 DEF Valued
<1>10. Chain(i, c2, s, u, q) BY <1>8 DEF Chain, Serving
<1>11. Parted(i, c2, s, u, d, e) BY <1>1, <1>6 DEF Talk, Parted
<1>12. Writes(c2, s, u, q) BY <1>6 DEF Writes
<1>13. Phase(c2, s, u, d) BY <1>1, <1>6 DEF Talk, Phase, Calm, Asking, Sends
<1>14. Kinds(c2, s, u) BY <1>1, <1>3, <1>6 DEF Talk, Kinds, Pulling, Asking, Sends, Settled
<1>15. Quietly(c2, q) BY <1>1, <1>5, <1>7 DEF Quietly, Valued
<1>16. Fresh(i, c2, u, T) BY <1>1, <1>3, <1>5, <1>6, <1>7 DEF Fresh, Pulling
<1>17. ASSUME NEW p \in Paths PROVE Sent(i, p, c2, s, d, q, F[p], X[p], T[p])
  <2>1. Sent(i, p, c, s, d, q, F[p], X[p], T[p]) BY DEF Mine
  <2>2. i \in T[p] => (Told(c2, d, p) => Told(c, d, p)) BY <1>3, <1>5, <1>6, <1>7 DEF Told, Pulling
  <2> QED BY <2>1, <2>2 DEF Sent
<1>18. ASSUME NEW p \in Paths PROVE Copying(p, c2, s, u, d, q, F[p], X[p], T[p], Y[p])
  BY <1>3, <1>6 DEF Copying, Pulling
<1> QED BY <1>9, <1>10, <1>11, <1>12, <1>13, <1>14, <1>15, <1>16, <1>17, <1>18 DEF Mine, Talk

(* The next file: its RECV, its SEND.                                      *)
LEMMA MineAsksFile ==
  ASSUME NEW i \in Sessions, NEW c, NEW s, NEW u, NEW d, NEW q, NEW e, NEW Y, NEW F, NEW X, NEW T,
         Mine(i, c, s, u, d, q, e, Y, F, X, T), c.at = "next", c.todo # <<>>, i \notin e,
         NEW at, NEW m, m.path = c.todo[1],
         \/ at = "receive" /\ Pulling(c) /\ m.id = "RECV"
         \/ at = "data" /\ ~Pulling(c) /\ m.id = "SEND",
         NEW c2, c2 = [c EXCEPT !.at = at, !.n = 0], NEW u2, Adds(u, u2, m)
  PROVE  Mine(i, c2, s, u2, d, q, e, Y, F, X, T)
<1>1. Valued(c, s, u, d, q, Y) /\ Talk(i, c, s, u, d, q, e) /\ Fresh(i, c, u, T) BY DEF Mine
<1>2. c \in Client /\ u \in Seq(Message) /\ u2 \in Seq(Message) /\ d \in Seq(Message) BY <1>1 DEF Valued, Adds
<1>3. c.end = "open"
  <2>1. c.end # "closed" BY <1>1 DEF Talk, Parted, Settled
  <2> QED BY <1>2, <2>1 DEF Client
<1>4. u = <<>> /\ d = <<>> /\ s.at = "command" BY <1>1, <1>3 DEF Talk, Phase, Calm
<1>5. Len(u2) = 1 /\ u2[1] = m /\ u2 # <<>> BY <1>4, FirstAdded
<1>6. Size \in Nat \ {0} /\ 0 \in 0..Size BY PartsConstants DEF Sync!SyncAssumption
<1>7. /\ c2 \in Client /\ c2.at = at /\ c2.todo = c.todo /\ c2.ask = c.ask
      /\ c2.op = c.op /\ c2.files = c.files /\ c2.asked = c.asked /\ c2.same = c.same
      /\ c2.end = c.end /\ c2.n = 0
  <2>1. at \in Sends \cup {"receive"} BY DEF Sends
  <2> QED BY <1>2, <1>6, <2>1 DEF Client
<1>8. c.op # "js" BY <1>1 DEF Talk, Kinds, Settled
<1>9. c.todo[1] \in Paths /\ InTodo(c, c.todo[1]) BY <1>2, FirstTodo
<1>10. ~Pulling(c) => \A p \in Paths : p \in q \/ i \in T[p] => ~InTodo(c, p)
  BY <1>1 DEF Talk, Quietly, Fresh, Sends, Settled
<1>11. Valued(c2, s, u2, d, q, Y) BY <1>1, <1>2, <1>7 DEF Valued
<1>12. Chain(i, c2, s, u2, q) BY <1>4, <1>5, <1>7, <1>9 DEF Chain, Serving, Pulling, Sends
<1>13. Parted(i, c2, s, u2, d, e) BY <1>1, <1>3, <1>7 DEF Talk, Parted, Settled
<1>14. Writes(c2, s, u2, q) BY <1>1, <1>5, <1>6, <1>7, <1>9, <1>10 DEF Writes, Through, No
<1>15. Phase(c2, s, u2, d) BY <1>4, <1>5, <1>7 DEF Phase, Calm, Asking, Sends, Sending, Receives
<1>16. Kinds(c2, s, u2) BY <1>1, <1>4, <1>7, <1>8 DEF Talk, Kinds, Pulling, Asking, Sends, Settled
<1>17. Quietly(c2, q) BY <1>1, <1>7, <1>10 DEF Quietly, InTodo, Pulling, Valued
<1>18. Fresh(i, c2, u2, T)
  <2>1. ASSUME NEW p \in Paths, i \in T[p] PROVE ~Pulling(c) /\ ~InTodo(c, p)
    <3>1. ~Pulling(c) BY <1>1, <2>1 DEF Fresh
    <3> QED BY <1>10, <2>1, <3>1
  <2> QED BY <1>1, <1>7, <2>1 DEF Fresh, Pulling, InTodo
<1>19. ASSUME NEW p \in Paths PROVE Sent(i, p, c2, s, d, q, F[p], X[p], T[p])
  <2>1. Sent(i, p, c, s, d, q, F[p], X[p], T[p]) BY DEF Mine
  <2>2. Told(c2, d, p) => Told(c, d, p) BY <1>4, <1>7 DEF Told, InTodo, Pulling
  <2> QED BY <2>1, <2>2 DEF Sent
<1>20. ASSUME NEW p \in Paths PROVE Copying(p, c2, s, u2, d, q, F[p], X[p], T[p], Y[p])
  <2>1. Copying(p, c, s, u, d, q, F[p], X[p], T[p], Y[p]) BY DEF Mine
  <2> QED BY <2>1, <1>4, <1>7 DEF Copying, Listing, Pulling, Asking, InTodo
<1> QED BY <1>11, <1>12, <1>13, <1>14, <1>15, <1>16, <1>17, <1>18, <1>19, <1>20 DEF Mine, Talk


(* A chunk of the file.                                                    *)
LEMMA ChainAdds ==
  ASSUME NEW i, NEW c, NEW s, NEW u \in Seq(Message), NEW q, NEW m, NEW u2, NEW c2,
         Chain(i, c, s, u, q), Adds(u, u2, m),
         c2.at \in Sends, c.at \in Sends, c2.todo = c.todo, c2.op = c.op, c.todo # <<>>, ~Pulling(c),
         m.id \in {"DATA", "DONE"}, m.path = c.todo[1],
         u # <<>> => Link(i, q, u[Len(u)], m),
         u = <<>> /\ Serving(s) => Follows(i, q, s, m)
  PROVE  Chain(i, c2, s, u2, q)
<1>1. u2 \in Seq(Message) BY DEF Adds
<1>2. ASSUME NEW k \in 2..Len(u2) PROVE Link(i, q, u2[k - 1], u2[k])
  <2>1. CASE k = Len(u2)
    <3>1. u # <<>> /\ k - 1 = Len(u) /\ u2[k] = m BY <2>1, <1>1 DEF Adds
    <3>2. u2[k - 1] = u[Len(u)] BY <3>1 DEF Adds
    <3> QED BY <3>1, <3>2
  <2>2. CASE k # Len(u2)
    <3>1. k \in 2..Len(u) /\ u2[k] = u[k] /\ u2[k - 1] = u[k - 1] BY <2>2, <1>1 DEF Adds
    <3> QED BY <3>1 DEF Chain
  <2> QED BY <2>1, <2>2
<1>3. Serving(s) /\ u2 # <<>> => Follows(i, q, s, u2[1])
  <2>1. CASE u = <<>>
    <3>1. u2[1] = m BY <2>1, FirstAdded
    <3> QED BY <2>1, <3>1
  <2>2. CASE u # <<>>
    <3>1. u2[1] = u[1] BY <2>2 DEF Adds
    <3> QED BY <2>2, <3>1 DEF Chain
  <2> QED BY <2>1, <2>2
<1>4. ASSUME NEW k \in 1..Len(u2)
      PROVE  /\ u2[k].id = "SEND" => k = 1
             /\ u2[k].id \in {"STAT", "RECV"} => u2[k].path \in Paths
             /\ u2[k].id \in {"SEND", "DATA", "DONE"} => u2[k].path = c.todo[1]
  <2>1. CASE k = Len(u2)
    <3>1. u2[k] = m BY <2>1 DEF Adds
    <3> QED BY <3>1
  <2>2. CASE k # Len(u2)
    <3>1. k \in 1..Len(u) /\ u2[k] = u[k] BY <2>2, <1>1 DEF Adds
    <3> QED BY <3>1 DEF Chain
  <2> QED BY <2>1, <2>2
<1> QED BY <1>2, <1>3, <1>4 DEF Chain, Pulling

LEMMA MinePuts ==
  ASSUME NEW i \in Sessions, NEW c, NEW s, NEW u, NEW d, NEW q, NEW e, NEW Y, NEW F, NEW X, NEW T,
         Mine(i, c, s, u, d, q, e, Y, F, X, T), c.at = "data", i \notin e,
         NEW m, m.path = c.todo[1], NEW u2, Adds(u, u2, m), NEW c2,
         \/ /\ c.n < Size /\ m.id = "DATA" /\ m.k = <<<<i, c.n + 1>>>>
            /\ c2 = [c EXCEPT !.n = @ + 1]
         \/ c.n = Size /\ m.id = "DONE" /\ c2 = [c EXCEPT !.at = "status"]
  PROVE  Mine(i, c2, s, u2, d, q, e, Y, F, X, T)
<1>1. Valued(c, s, u, d, q, Y) /\ Talk(i, c, s, u, d, q, e) /\ Fresh(i, c, u, T) BY DEF Mine
<1>2. c \in Client /\ u \in Seq(Message) /\ u2 \in Seq(Message) /\ d \in Seq(Message) BY <1>1 DEF Valued, Adds
<1>3. c.end = "open"
  <2>1. c.end # "closed" BY <1>1 DEF Talk, Parted, Settled
  <2> QED BY <1>2, <2>1 DEF Client
<1>4. ~Pulling(c) /\ c.op # "js" BY <1>1 DEF Talk, Kinds, Sends, Settled
<1>5. c.todo # <<>> /\ Sending(c, s, u, d) BY <1>1, <1>3 DEF Talk, Phase, Sends
<1>6. Size \in Nat \ {0} /\ c.n \in 0..Size BY <1>2, PartsConstants DEF Sync!SyncAssumption, Client
<1>7. /\ c2 \in Client /\ c2.todo = c.todo /\ c2.ask = c.ask
      /\ c2.op = c.op /\ c2.files = c.files /\ c2.asked = c.asked /\ c2.same = c.same
      /\ c2.end = c.end /\ c2.at \in {"data", "status"}
      /\ m.id = "DATA" => c.n < Size /\ c2.at = "data" /\ c2.n = c.n + 1 /\ m.k = <<<<i, c.n + 1>>>>
      /\ m.id = "DONE" => c.n = Size /\ c2.at = "status"
      /\ m.id \in {"DATA", "DONE"}
  <2>1. c.n < Size => c.n + 1 \in 0..Size BY <1>6
  <2>2. "status" \in Sends BY DEF Sends
  <2> QED BY <1>2, <2>1, <2>2 DEF Client
<1>8. c2.at \in Sends /\ c.at \in Sends BY <1>7 DEF Sends
<1>9. /\ c.n # Size => c.todo[1] \notin q
      /\ u # <<>> => u[Len(u)].id \in {"SEND", "DATA"} /\ Through(c, q, No(u[Len(u)]))
      /\ u = <<>> => Serving(s) /\ (s.at = "open" \/ s.fd # NoFile => Through(c, q, s.pos))
      /\ \A k \in 1..Len(u) : u[k].id # "DONE"
  BY <1>1, <1>3 DEF Talk, Writes
<1>10. m.id = "DATA" => Carries(i, m, c.n + 1) /\ No(m) = c.n + 1
  BY <1>6, <1>7 DEF Carries, No
<1>11. \A r : Through(c, q, r) =>
         /\ m.id = "DATA" => r = c.n
         /\ m.id = "DONE" => r = Size \/ m.path \in q
  BY <1>6, <1>7, <1>9 DEF Through
<1>12. Chain(i, c2, s, u2, q)
  <2>1. u # <<>> => u[Len(u)].path = c.todo[1]
    <3>1. u # <<>> => Len(u) \in 1..Len(u) BY <1>2
    <3> QED BY <1>1, <1>9, <3>1 DEF Talk, Chain
  <2>2. u # <<>> => Link(i, q, u[Len(u)], m) BY <1>7, <1>9, <1>10, <1>11, <2>1 DEF Link
  <2>3. Serving(s) => s.path = c.todo[1] BY <1>1 DEF Talk, Chain
  <2>4. u = <<>> /\ Serving(s) => Follows(i, q, s, m) BY <1>7, <1>9, <1>10, <1>11, <2>3 DEF Follows
  <2>5. Chain(i, c, s, u, q) BY <1>1 DEF Talk
  <2> QED BY <1>2, <1>4, <1>5, <1>7, <1>8, <2>2, <2>4, <2>5, ChainAdds
<1>13. Valued(c2, s, u2, d, q, Y) BY <1>1, <1>2, <1>7 DEF Valued
<1>14. Parted(i, c2, s, u2, d, e) BY <1>1, <1>3, <1>7 DEF Talk, Parted, Settled
<1>15. u2 # <<>> /\ u2[Len(u2)] = m BY <1>2 DEF Adds
<1>16. Writes(c2, s, u2, q)
  <2>1. m.id = "DATA" => \A k \in 1..Len(u2) : u2[k].id # "DONE" BY <1>2, <1>9 DEF Adds
  <2>2. m.id = "DATA" => Through(c2, q, No(m)) BY <1>7, <1>10 DEF Through
  <2>3. m.id = "DATA" => c.todo[1] \notin q BY <1>6, <1>7, <1>9
  <2> QED BY <1>7, <1>15, <2>1, <2>2, <2>3 DEF Writes
<1>17. Phase(c2, s, u2, d)
  <2>1. Sending(c2, s, u2, d)
    <3>1. u # <<>> => u2[1] = u[1] BY <1>2 DEF Adds
    <3> QED BY <1>5, <1>15, <3>1 DEF Sending
  <2> QED BY <1>5, <1>7, <2>1 DEF Phase, Calm, Asking, Sends
<1>18. Kinds(c2, s, u2) BY <1>1, <1>4, <1>7 DEF Talk, Kinds, Pulling, Asking, Sends, Settled
<1>19. Quietly(c2, q) BY <1>1, <1>7, <1>8 DEF Talk, Quietly, InTodo, Pulling
<1>20. Fresh(i, c2, u2, T)
  <2>1. (\A k \in 1..Len(u) : u[k].id # "SEND") => \A k \in 1..Len(u2) : u2[k].id # "SEND"
    BY <1>2, <1>7 DEF Adds
  <2> QED BY <1>1, <1>7, <1>8, <2>1 DEF Fresh, Pulling, InTodo
<1>21. ASSUME NEW p \in Paths PROVE Sent(i, p, c2, s, d, q, F[p], X[p], T[p])
  <2>1. Sent(i, p, c, s, d, q, F[p], X[p], T[p]) BY DEF Mine
  <2>2. Told(c2, d, p) => Told(c, d, p) BY <1>7, <1>8 DEF Told, InTodo, Pulling
  <2> QED BY <2>1, <2>2 DEF Sent
<1>22. ASSUME NEW p \in Paths PROVE Copying(p, c2, s, u2, d, q, F[p], X[p], T[p], Y[p])
  BY <1>4, <1>7 DEF Copying, Pulling
<1> QED BY <1>12, <1>13, <1>14, <1>16, <1>17, <1>18, <1>19, <1>20, <1>21, <1>22 DEF Mine, Talk

(* The local file cannot be read: the rest is left out; or the stream has   *)
(* failed, which only the DONE tells.                                      *)
LEMMA MineStops ==
  ASSUME NEW i \in Sessions, NEW c, NEW s, NEW u, NEW d, NEW q, NEW e, NEW Y, NEW F, NEW X, NEW T,
         Mine(i, c, s, u, d, q, e, Y, F, X, T), c.at = "data",
         NEW q2, (q2 = q /\ i \in e) \/ q2 = q \cup {c.todo[1]},
         NEW c2, c2 = [c EXCEPT !.n = Size]
  PROVE  Mine(i, c2, s, u, d, q2, e, Y, F, X, T)
<1>1. Valued(c, s, u, d, q, Y) /\ Talk(i, c, s, u, d, q, e) /\ Fresh(i, c, u, T) BY DEF Mine
<1>2. c \in Client BY <1>1 DEF Valued
<1>3. ~Pulling(c) /\ c.todo # <<>> BY <1>1 DEF Talk, Kinds, Sends
<1>4. Size \in 0..Size BY PartsConstants DEF Sync!SyncAssumption
<1>5. /\ c2 \in Client /\ c2.todo = c.todo /\ c2.ask = c.ask
      /\ c2.op = c.op /\ c2.files = c.files /\ c2.asked = c.asked /\ c2.same = c.same
      /\ c2.end = c.end /\ c2.at = c.at /\ c2.n = Size
  BY <1>2, <1>4 DEF Client
<1>6. c.end = "open" => q2 = q \cup {c.todo[1]} BY <1>1 DEF Talk, Parted
<1>7. c.end = "open" \/ (c.end = "closed" /\ u = <<>>)
  BY <1>1, <1>2 DEF Talk, Parted, Settled, Client
<1>8. q \subseteq q2 OBVIOUS
<1>9. Chain(i, c2, s, u, q2)
  <2>1. \A k \in 2..Len(u) : Link(i, q2, u[k - 1], u[k]) BY <1>1, <1>8 DEF Talk, Chain, Link
  <2>2. Serving(s) /\ u # <<>> => Follows(i, q2, s, u[1]) BY <1>1, <1>8 DEF Talk, Chain, Follows
  <2> QED BY <1>1, <1>5, <2>1, <2>2 DEF Talk, Chain, Pulling
<1>10. Parted(i, c2, s, u, d, e) BY <1>1, <1>5 DEF Talk, Parted
<1>11. Writes(c2, s, u, q2) BY <1>1, <1>5, <1>6 DEF Talk, Writes, Through
<1>12. Phase(c2, s, u, d) BY <1>1, <1>5 DEF Talk, Phase, Calm, Asking, Sends, Sending
<1>13. Kinds(c2, s, u) BY <1>1, <1>5 DEF Talk, Kinds, Pulling
<1>15. Fresh(i, c2, u, T) BY <1>1, <1>5 DEF Fresh, InTodo, Pulling
<1>16. ASSUME NEW p \in Paths PROVE Sent(i, p, c2, s, d, q2, F[p], X[p], T[p])
  <2>1. Sent(i, p, c, s, d, q, F[p], X[p], T[p]) BY DEF Mine
  <2>2. Told(c2, d, p) => Told(c, d, p) BY <1>5 DEF Told, InTodo, Pulling
  <2> QED BY <2>1, <2>2, <1>8 DEF Sent
<1>17. ASSUME NEW p \in Paths PROVE Copying(p, c2, s, u, d, q2, F[p], X[p], T[p], Y[p])
  BY <1>3, <1>5 DEF Copying, Pulling
<1>18. q2 \subseteq Paths
  <2>1. c.todo[1] \in Paths BY <1>2, <1>3, FirstTodo
  <2> QED BY <1>1, <2>1 DEF Valued
<1>19. Quietly(c2, q2) BY <1>1, <1>3, <1>5 DEF Talk, Quietly, InTodo, Pulling, Sends
<1>20. Valued(c2, s, u, d, q2, Y) BY <1>1, <1>5, <1>18 DEF Valued
<1> QED BY <1>9, <1>10, <1>11, <1>12, <1>13, <1>15, <1>16, <1>17, <1>19, <1>20 DEF Mine, Talk


(* The answer to a push: OKAY.                                             *)
LEMMA MineOkay ==
  ASSUME NEW i \in Sessions, NEW c, NEW s, NEW u, NEW d, NEW q, NEW e, NEW Y, NEW F, NEW X, NEW T,
         Mine(i, c, s, u, d, q, e, Y, F, X, T), c.at = "status", NEW d2, Drops(d, d2), d[1].id = "OKAY",
         NEW c2, c2 = [c EXCEPT !.at = "next", !.todo = Tail(@)]
  PROVE  Mine(i, c2, s, u, d2, q, e, Y, F, X, T)
<1>1. Valued(c, s, u, d, q, Y) /\ Talk(i, c, s, u, d, q, e) /\ Fresh(i, c, u, T) BY DEF Mine
<1>2. c \in Client /\ d \in Seq(Message) /\ d2 \in Seq(Message) BY <1>1 DEF Valued, Drops
<1>3. d # <<>> BY <1>2 DEF Drops
<1>4. c.end = "open"
  <2>1. c.end # "closed" BY <1>1, <1>3 DEF Talk, Parted, Settled
  <2> QED BY <1>2, <2>1 DEF Client
<1>5. ~Pulling(c) /\ c.todo # <<>> /\ c.op # "js" BY <1>1 DEF Talk, Kinds, Sends, Settled
<1>6. u = <<>> /\ s.at = "command" /\ Len(d) = 1
  <2>1. Sending(c, s, u, d) BY <1>1, <1>4 DEF Talk, Phase, Sends
  <2> QED BY <2>1, <1>3 DEF Sending
<1>7. d2 = <<>> BY <1>2, <1>6 DEF Drops
<1>8. /\ c2 \in Client /\ c2.todo = Tail(c.todo) /\ c2.ask = c.ask
      /\ c2.op = c.op /\ c2.files = c.files /\ c2.asked = c.asked /\ c2.same = c.same
      /\ c2.end = c.end /\ c2.at = "next" /\ c2.n = c.n
  <2>1. Tail(c.todo) \in Seq(Paths) BY <1>2, <1>5, RestOf
  <2>2. "next" \in Calm BY DEF Calm
  <2> QED BY <1>2, <2>1, <2>2 DEF Client
<1>9. /\ \A p : InTodo(c, p) <=> InTodo(c2, p) \/ p = c.todo[1]
      /\ Once(c2.todo)
      /\ ~InTodo(c2, c.todo[1])
  <2>1. Once(c.todo) BY <1>1, <1>5 DEF Fresh
  <2>2. Once(Tail(c.todo)) /\ \A k \in 1..Len(Tail(c.todo)) : Tail(c.todo)[k] # c.todo[1]
    BY <1>2, <1>5, <2>1, RestOnce
  <2>3. ~InTodo(c2, c.todo[1]) BY <1>8, <2>2 DEF InTodo
  <2>6. c.todo # <<>> /\ c2.todo = Tail(c.todo) BY <1>5, <1>8
  <2>4. \A p : InTodo(c, p) <=> InTodo(c2, p) \/ p = c.todo[1] BY <1>2, <2>6, Rest
  <2>5. Once(c2.todo) BY <1>8, <2>2
  <2> QED BY <2>3, <2>4, <2>5
<1>10. Valued(c2, s, u, d2, q, Y) BY <1>1, <1>2, <1>8 DEF Valued
<1>11. Chain(i, c2, s, u, q) BY <1>6 DEF Chain, Serving
<1>12. Parted(i, c2, s, u, d2, e) BY <1>1, <1>4, <1>8 DEF Talk, Parted, Settled
<1>13. Writes(c2, s, u, q) BY <1>8 DEF Writes
<1>14. Phase(c2, s, u, d2) BY <1>6, <1>7, <1>8 DEF Phase, Calm, Asking, Sends
<1>15. Kinds(c2, s, u) BY <1>1, <1>5, <1>6, <1>8 DEF Talk, Kinds, Pulling, Asking, Sends, Settled
<1>16. Quietly(c2, q) BY <1>1, <1>5, <1>9 DEF Talk, Quietly
<1>17. Fresh(i, c2, u, T) BY <1>1, <1>5, <1>8, <1>9 DEF Fresh, Pulling
<1>18. ASSUME NEW p \in Paths PROVE Sent(i, p, c2, s, d2, q, F[p], X[p], T[p])
  <2>1. Sent(i, p, c, s, d, q, F[p], X[p], T[p]) BY DEF Mine
  <2>2. Told(c2, d2, p) => Told(c, d, p) BY <1>3, <1>4, <1>5, <1>8, <1>9 DEF Told, Pulling, Sends
  <2> QED BY <2>1, <2>2 DEF Sent
<1>19. ASSUME NEW p \in Paths PROVE Copying(p, c2, s, u, d2, q, F[p], X[p], T[p], Y[p])
  BY <1>5, <1>8 DEF Copying, Pulling
<1> QED BY <1>10, <1>11, <1>12, <1>13, <1>14, <1>15, <1>16, <1>17, <1>18, <1>19 DEF Mine, Talk

(* The answer to RECV: a chunk.                                            *)
LEMMA Longer ==
  ASSUME NEW o, NEW r \in Nat PROVE Upto(o, r) \o <<<<o, r + 1>>>> = Upto(o, r + 1)
<1>1. Upto(o, r) \in Seq({<<o, k>> : k \in 1..r}) /\ Len(Upto(o, r)) = r BY DEF Upto
<1>2. Len(<<<<o, r + 1>>>>) = 1 /\ <<<<o, r + 1>>>>[1] = <<o, r + 1>> OBVIOUS
<1> QED BY <1>1, <1>2 DEF Upto
LEMMA MineChunk ==
  ASSUME NEW i \in Sessions, NEW c, NEW s, NEW u, NEW d, NEW q, NEW e, NEW Y, NEW F, NEW X, NEW T,
         Mine(i, c, s, u, d, q, e, Y, F, X, T), c.at = "receive", NEW d2, Drops(d, d2), d[1].id = "DATA",
         NEW c2, c2 = [c EXCEPT !.n = 1],
         NEW Y2 \in [Paths -> Seq(Chunks)], \A p \in Paths : p # c.todo[1] => Y2[p] = Y[p],
         Y2[c.todo[1]] = IF c.n = 0 THEN d[1].k ELSE Y[c.todo[1]] \o d[1].k
  PROVE  Mine(i, c2, s, u, d2, q, e, Y2, F, X, T)
<1>1. Valued(c, s, u, d, q, Y) /\ Talk(i, c, s, u, d, q, e) /\ Fresh(i, c, u, T) BY DEF Mine
<1>2. c \in Client /\ d \in Seq(Message) /\ d2 \in Seq(Message) BY <1>1 DEF Valued, Drops
<1>3. d # <<>> /\ 1 \in 1..Len(d) BY <1>2 DEF Drops
<1>4. c.end = "open"
  <2>1. c.end # "closed" BY <1>1, <1>3 DEF Talk, Parted, Settled
  <2> QED BY <1>2, <2>1 DEF Client
<1>5. Pulling(c) BY <1>1 DEF Talk, Kinds
<1>6. c.todo # <<>> /\ Receives(c, s, u, d) BY <1>1, <1>4 DEF Talk, Phase
<1>7. u = <<>> /\ \/ s.at = "read" /\ s.path = c.todo[1] /\ Only(d, {"DATA"})
                  \/ s.at = "command" /\ Ends(d, {"DONE", "FAIL"}, "DATA")
  BY <1>3, <1>6 DEF Receives
<1>8. /\ c2 \in Client /\ c2.todo = c.todo /\ c2.ask = c.ask
      /\ c2.op = c.op /\ c2.files = c.files /\ c2.asked = c.asked /\ c2.same = c.same
      /\ c2.end = c.end /\ c2.at = "receive" /\ c2.n = 1
  <2>1. 1 \in 0..Size BY PartsConstants DEF Sync!SyncAssumption
  <2> QED BY <1>2, <2>1 DEF Client
<1>9. c.todo[1] \in Paths /\ InTodo(c, c.todo[1]) BY <1>2, <1>6, FirstTodo
<1>10. s.at # "read" => Len(d) > 1
  <2>1. s.at # "read" => d[Len(d)].id # "DATA" BY <1>7 DEF Ends
  <2> QED BY <2>1, <1>2, <1>3
<1>11. d2 # <<>> => d2[Len(d2)] = d[Len(d)] BY <1>2 DEF Drops
<1>12. Valued(c2, s, u, d2, q, Y2) BY <1>1, <1>2, <1>8 DEF Valued
<1>13. Chain(i, c2, s, u, q) BY <1>1, <1>7, <1>8 DEF Talk, Chain, Serving, Pulling
<1>14. Parted(i, c2, s, u, d2, e) BY <1>1, <1>4, <1>8 DEF Talk, Parted, Settled
<1>15. Writes(c2, s, u, q) BY <1>8 DEF Writes
<1>16. Receives(c2, s, u, d2)
  <2>1. Only(d, {"DATA"}) => Only(d2, {"DATA"}) BY <1>2 DEF Only, Drops
  <2>2. s.at # "read" /\ Ends(d, {"DONE", "FAIL"}, "DATA") => Ends(d2, {"DONE", "FAIL"}, "DATA")
    <3>1. d2 # <<>> => d2[Len(d2)] = d[Len(d)] BY <1>11
    <3>2. ASSUME NEW k \in 1..Len(d2), k # Len(d2), Ends(d, {"DONE", "FAIL"}, "DATA") PROVE d2[k].id = "DATA"
      <4>1. k + 1 \in 1..Len(d) /\ k + 1 # Len(d) /\ d2[k] = d[k + 1] BY <1>2, <3>2 DEF Drops
      <4> QED BY <4>1, <3>2 DEF Ends
    <3>3. s.at # "read" => d2 # <<>> BY <1>2, <1>10 DEF Drops
    <3> QED BY <3>1, <3>2, <3>3 DEF Ends
  <2> QED BY <1>7, <1>8, <2>1, <2>2 DEF Receives
<1>17. Phase(c2, s, u, d2) BY <1>6, <1>8, <1>16 DEF Phase, Calm, Asking, Sends
<1>18. Kinds(c2, s, u) BY <1>1, <1>5, <1>8 DEF Talk, Kinds, Pulling, Asking, Sends, Settled
<1>19. Quietly(c2, q) /\ Fresh(i, c2, u, T) BY <1>1, <1>5, <1>8 DEF Quietly, Fresh, Pulling
<1>20. ASSUME NEW p \in Paths PROVE Sent(i, p, c2, s, d2, q, F[p], X[p], T[p])
  <2>1. Sent(i, p, c, s, d, q, F[p], X[p], T[p]) BY DEF Mine
  <2>2. ~Told(c2, d2, p) BY <1>5, <1>8 DEF Told, Pulling
  <2> QED BY <2>1, <2>2 DEF Sent
<1>21. ASSUME NEW p \in Paths PROVE Copying(p, c2, s, u, d2, q, F[p], X[p], T[p], Y2[p])
  <2>1. Copying(p, c, s, u, d, q, F[p], X[p], T[p], Y[p]) BY DEF Mine
  <2>2. CASE p # c.todo[1]
    <3>1. Y2[p] = Y[p] BY <2>2
    <3> QED BY <2>1, <2>2, <3>1, <1>8 DEF Copying, Listing, Pulling, Asking, InTodo
  <2>3. CASE p = c.todo[1]
    <3>1. InTodo(c2, p) BY <1>8, <1>9, <2>3 DEF InTodo
    <3>2. ASSUME T[p] = {}, s.at = "read" \/ (d2 # <<>> /\ d2[Len(d2)].id # "FAIL")
          PROVE  \E r \in 0..Size : Got(c2, s, d2, F[p], Y2[p], r)
      <4>1. s.at = "read" \/ d[Len(d)].id # "FAIL" BY <3>2, <1>11
      <4>2. PICK r \in 0..Size : Got(c, s, d, F[p], Y[p], r)
        BY <2>1, <2>3, <3>2, <4>1, <1>3, <1>4, <1>5 DEF Copying
      <4>3. r \in Nat /\ Size \in Nat BY PartsConstants DEF Sync!SyncAssumption
      <4>4. d[1].k = <<<<Old, r + 1>>>> /\ r + 1 =< Size BY <4>2, <1>3 DEF Got
      <4>5. Y2[p] = Upto(Old, r + 1)
        <5>1. CASE r = 0
          <6>1. Y2[p] = <<<<Old, 1>>>> BY <5>1, <4>2, <4>4, <2>3 DEF Got
          <6>2. Upto(Old, 0) \o <<<<Old, 0 + 1>>>> = Upto(Old, 0 + 1) BY Longer
          <6>3. <<>> \o <<<<Old, 1>>>> = <<<<Old, 1>>>> OBVIOUS
          <6> QED BY <5>1, <6>1, <6>2, <6>3, NoChunks
        <5>2. CASE r # 0
          <6>1. Y[p] = Upto(Old, r) /\ c.n # 0 BY <5>2, <4>2 DEF Got
          <6>2. Y2[p] = Upto(Old, r) \o <<<<Old, r + 1>>>> BY <6>1, <4>4, <2>3
          <6> QED BY <6>2, <4>3, Longer
        <5> QED BY <5>1, <5>2
      <4>6. ASSUME NEW k \in 1..Len(d2), d2[k].id = "DATA"
            PROVE d2[k].k = <<<<Old, (r + 1) + k>>>> /\ (r + 1) + k =< Size
        <5>1. k + 1 \in 1..Len(d) /\ d2[k] = d[k + 1] BY <1>2 DEF Drops
        <5>2. d[k + 1].k = <<<<Old, r + (k + 1)>>>> /\ r + (k + 1) =< Size BY <5>1, <4>2, <4>6 DEF Got
        <5>3. r + (k + 1) = (r + 1) + k BY <4>3
        <5> QED BY <5>1, <5>2, <5>3
      <4>7. s.at = "read" => s.fd = Old /\ s.pos = (r + 1) + Len(d2)
        <5>1. s.at = "read" => s.fd = Old /\ s.pos = r + Len(d) BY <4>2 DEF Got
        <5> QED BY <5>1, <4>3, <1>2 DEF Drops
      <4>8. s.at # "read" => (r + 1) + Len(d2) - 1 = Size
        <5>1. s.at # "read" => r + Len(d) - 1 = Size BY <4>2 DEF Got
        <5> QED BY <5>1, <4>3, <1>2 DEF Drops
      <4>9. r + 1 \in 0..Size /\ r + 1 # 0 /\ c2.n # 0 /\ F[p] = Old BY <4>2, <4>3, <4>4, <1>8 DEF Got
      <4>10. Got(c2, s, d2, F[p], Y2[p], r + 1) BY <4>5, <4>6, <4>7, <4>8, <4>9 DEF Got
      <4> QED BY <4>9, <4>10
    <3> QED BY <2>3, <3>1, <3>2, <1>8 DEF Copying, Listing, Pulling, Asking
  <2> QED BY <2>2, <2>3
<1> QED BY <1>12, <1>13, <1>14, <1>15, <1>17, <1>18, <1>19, <1>20, <1>21 DEF Mine, Talk


(* The answer to RECV: its end, or a failure.                              *)
FileOver(c, id, q, Y, q2, Y2) ==
  /\ \A p \in Paths : p # c.todo[1] => Y2[p] = Y[p]
  /\ \/ id = "DONE" /\ q2 = q /\ Y2[c.todo[1]] = IF c.n = 0 THEN <<>> ELSE Y[c.todo[1]]
     \/ id = "FAIL" /\ q2 = q \cup {c.todo[1]}
LEMMA MineReceived ==
  ASSUME NEW i \in Sessions, NEW c, NEW s, NEW u, NEW d, NEW q, NEW e, NEW Y, NEW F, NEW X, NEW T,
         Mine(i, c, s, u, d, q, e, Y, F, X, T), c.at = "receive", NEW d2, Drops(d, d2),
         NEW q2, NEW Y2 \in [Paths -> Seq(Chunks)],
         \A p \in Paths : File(F[p], X[p], T[p]),
         FileOver(c, d[1].id, q, Y, q2, Y2),
         NEW c2, c2 = [c EXCEPT !.at = "next", !.todo = Tail(@)]
  PROVE  Mine(i, c2, s, u, d2, q2, e, Y2, F, X, T)
<1> USE DEF FileOver
<1>1. Valued(c, s, u, d, q, Y) /\ Talk(i, c, s, u, d, q, e) /\ Fresh(i, c, u, T) BY DEF Mine
<1>2. c \in Client /\ d \in Seq(Message) /\ d2 \in Seq(Message) BY <1>1 DEF Valued, Drops
<1>3. d # <<>> /\ 1 \in 1..Len(d) BY <1>2 DEF Drops
<1>4. c.end = "open"
  <2>1. c.end # "closed" BY <1>1, <1>3 DEF Talk, Parted, Settled
  <2> QED BY <1>2, <2>1 DEF Client
<1>5. Pulling(c) BY <1>1 DEF Talk, Kinds
<1>6. c.todo # <<>> /\ Receives(c, s, u, d) BY <1>1, <1>4 DEF Talk, Phase
<1>7. u = <<>> /\ s.at = "command" /\ Ends(d, {"DONE", "FAIL"}, "DATA")
  BY <1>3, <1>6 DEF Receives, Only
<1>8. Len(d) = 1 /\ d2 = <<>>
  <2>1. Len(d) = 1 BY <1>3, <1>7 DEF Ends
  <2> QED BY <1>2, <2>1 DEF Drops
<1>9. /\ c2 \in Client /\ c2.todo = Tail(c.todo) /\ c2.ask = c.ask
      /\ c2.op = c.op /\ c2.files = c.files /\ c2.asked = c.asked /\ c2.same = c.same
      /\ c2.end = c.end /\ c2.at = "next" /\ c2.n = c.n
  <2>1. Tail(c.todo) \in Seq(Paths) BY <1>2, <1>6, RestOf
  <2>2. "next" \in Calm BY DEF Calm
  <2> QED BY <1>2, <2>1, <2>2 DEF Client
<1>10. c2.todo = Tail(c.todo) /\ c.todo # <<>> BY <1>6, <1>9
<1>11. \A p : InTodo(c, p) <=> InTodo(c2, p) \/ p = c.todo[1]
  <2>1. c \in Client BY <1>2
  <2> QED BY ONLY <2>1, <1>10, Rest
<1>12. c.todo[1] \in Paths BY <1>2, <1>6, FirstTodo
<1>13. Valued(c2, s, u, d2, q2, Y2) BY <1>1, <1>2, <1>9, <1>12 DEF Valued
<1>14. Chain(i, c2, s, u, q2) BY <1>7 DEF Chain, Serving
<1>15. Parted(i, c2, s, u, d2, e) BY <1>1, <1>4, <1>9 DEF Talk, Parted, Settled
<1>16. Writes(c2, s, u, q2) BY <1>9 DEF Writes
<1>17. Phase(c2, s, u, d2) BY <1>7, <1>8, <1>9 DEF Phase, Calm, Asking, Sends
<1>18. Kinds(c2, s, u) BY <1>1, <1>5, <1>7, <1>9 DEF Talk, Kinds, Pulling, Asking, Sends, Settled
<1>19. Quietly(c2, q2) /\ Fresh(i, c2, u, T) BY <1>1, <1>5, <1>9 DEF Quietly, Fresh, Pulling
<1>20. ASSUME NEW p \in Paths PROVE Sent(i, p, c2, s, d2, q2, F[p], X[p], T[p])
  <2>1. Sent(i, p, c, s, d, q, F[p], X[p], T[p]) BY DEF Mine
  <2>2. ~Told(c2, d2, p) BY <1>5, <1>9 DEF Told, Pulling
  <2>3. q \subseteq q2 OBVIOUS
  <2> QED BY <2>1, <2>2, <2>3 DEF Sent
<1>21. ASSUME NEW p \in Paths PROVE Copying(p, c2, s, u, d2, q2, F[p], X[p], T[p], Y2[p])
  <2>1. Copying(p, c, s, u, d, q, F[p], X[p], T[p], Y[p]) BY DEF Mine
  <2>2. CASE p # c.todo[1]
    <3>1. Y2[p] = Y[p] BY <2>2
    <3>2. p \notin q2 => p \notin q OBVIOUS
    <3> QED BY <2>1, <2>2, <3>1, <3>2, <1>9, <1>11 DEF Copying, Listing, Pulling, Asking
  <2>3. CASE p = c.todo[1]
    <3>1. ASSUME T[p] = {}, p \notin q2 PROVE Y2[p] = Status(F[p], X[p])
      <4>1. d[1].id = "DONE" /\ Y2[p] = IF c.n = 0 THEN <<>> ELSE Y[p] BY <2>3, <3>1
      <4>2. d # <<>> /\ d[Len(d)].id # "FAIL" BY <4>1, <1>3, <1>8
      <4>3. PICK r \in 0..Size : Got(c, s, d, F[p], Y[p], r)
        BY <2>1, <2>3, <3>1, <4>2, <1>4, <1>5 DEF Copying
      <4>4. Size \in Nat \ {0} BY PartsConstants DEF Sync!SyncAssumption
      <4>5. r = Size /\ F[p] = Old BY <4>3, <4>4, <1>7, <1>8 DEF Got
      <4>6. c.n # 0 /\ Y[p] = Upto(Old, Size) BY <4>3, <4>4, <4>5 DEF Got
      <4>7. X[p][Old] = Upto(Old, Size) BY <3>1 DEF File
      <4>8. Old # NoFile BY PartsConstants DEF Sync!SyncAssumption
      <4> QED BY <4>1, <4>5, <4>6, <4>7, <4>8 DEF Status
    <3> QED BY <3>1, <1>9 DEF Copying, Listing, Pulling, Asking
  <2> QED BY <2>2, <2>3
<1> QED BY <1>13, <1>14, <1>15, <1>16, <1>17, <1>18, <1>19, <1>20, <1>21 DEF Mine, Talk

-----------------------------------------------------------------------------
(* pushFile of the add-on, and what ends a session.                        *)
LEMMA MineJsWaits ==
  ASSUME NEW i \in Sessions, NEW c, NEW s, NEW u, NEW d, NEW q, NEW e, NEW Y, NEW F, NEW X, NEW T,
         Mine(i, c, s, u, d, q, e, Y, F, X, T), c.at = "wait-transport",
         NEW c2, c2 = [c EXCEPT !.at = "wait-sync"]
  PROVE  Mine(i, c2, s, u, d, q, e, Y, F, X, T)
<1>1. Valued(c, s, u, d, q, Y) /\ Talk(i, c, s, u, d, q, e) /\ Fresh(i, c, u, T) BY DEF Mine
<1>2. c \in Client BY <1>1 DEF Valued
<1>3. /\ c2 \in Client /\ c2.todo = c.todo /\ c2.ask = c.ask
      /\ c2.op = c.op /\ c2.files = c.files /\ c2.asked = c.asked /\ c2.same = c.same
      /\ c2.end = c.end /\ c2.at = "wait-sync" /\ c2.n = c.n
  <2>1. "wait-sync" \in Calm BY DEF Calm
  <2> QED BY <1>2, <2>1 DEF Client
<1>4. Valued(c2, s, u, d, q, Y) BY <1>1, <1>3 DEF Valued
<1>5. Chain(i, c2, s, u, q) BY <1>1, <1>3 DEF Talk, Chain, Pulling, Sends
<1>6. Parted(i, c2, s, u, d, e) BY <1>1, <1>3 DEF Talk, Parted, Settled
<1>7. Writes(c2, s, u, q) BY <1>3 DEF Writes
<1>8. Phase(c2, s, u, d) BY <1>1, <1>3 DEF Talk, Phase, Calm, Asking, Sends
<1>9. Kinds(c2, s, u) BY <1>1, <1>3 DEF Talk, Kinds, Pulling, Asking, Sends, Settled
<1>10. Quietly(c2, q) BY <1>1, <1>3 DEF Talk, Quietly, InTodo, Pulling, Sends, Settled
<1>11. Fresh(i, c2, u, T) BY <1>1, <1>3 DEF Fresh, InTodo, Pulling, Sends, Settled
<1>12. ASSUME NEW p \in Paths PROVE Sent(i, p, c2, s, d, q, F[p], X[p], T[p])
  <2>1. Sent(i, p, c, s, d, q, F[p], X[p], T[p]) BY DEF Mine
  <2>2. Told(c2, d, p) => Told(c, d, p) BY <1>3 DEF Told, InTodo, Pulling, Sends
  <2> QED BY <2>1, <2>2 DEF Sent
<1>13. ASSUME NEW p \in Paths PROVE Copying(p, c2, s, u, d, q, F[p], X[p], T[p], Y[p])
  <2>1. ~Pulling(c2) BY <1>1, <1>3 DEF Talk, Kinds, Pulling
  <2> QED BY <2>1 DEF Copying
<1> QED BY <1>4, <1>5, <1>6, <1>7, <1>8, <1>9, <1>10, <1>11, <1>12, <1>13 DEF Mine, Talk

LEMMA MineJsSends ==
  ASSUME NEW i \in Sessions, NEW c, NEW s, NEW u, NEW d, NEW q, NEW e, NEW Y, NEW F, NEW X, NEW T,
         Mine(i, c, s, u, d, q, e, Y, F, X, T), c.at = "wait-sync", i \notin e,
         NEW u2 \in Seq(Message), NEW n \in Nat, NEW at,
         \/ at = "wait-done" /\ n = Size /\ Len(u2) = n + 2 /\ u2[n + 2].id = "DONE"
         \/ at = "threw" /\ n = Size - 1 /\ Len(u2) = n + 1,
         u2[1].id = "SEND", \A k \in 1..Len(u2) : u2[k].path = c.todo[1],
         \A k \in 2..(n + 1) : u2[k].id = "DATA" /\ u2[k].k = <<<<i, k - 1>>>>,
         NEW c2, c2 = [c EXCEPT !.at = at]
  PROVE  Mine(i, c2, s, u2, d, q, e, Y, F, X, T)
<1>1. Valued(c, s, u, d, q, Y) /\ Talk(i, c, s, u, d, q, e) /\ Fresh(i, c, u, T) BY DEF Mine
<1>2. c \in Client BY <1>1 DEF Valued
<1>3. Size \in Nat \ {0} BY PartsConstants DEF Sync!SyncAssumption
<1>4. c.end = "open"
  <2>1. c.end # "closed" BY <1>1 DEF Talk, Parted, Settled
  <2> QED BY <1>2, <2>1 DEF Client
<1>5. u = <<>> /\ d = <<>> /\ s.at = "command" BY <1>1, <1>4 DEF Talk, Phase, Calm
<1>6. c.op = "js" /\ ~Pulling(c) /\ Len(c.todo) = 1 BY <1>1 DEF Talk, Kinds, Pulling
<1>7. c.todo # <<>> BY <1>6
<1>8. /\ c2 \in Client /\ c2.todo = c.todo /\ c2.ask = c.ask
      /\ c2.op = c.op /\ c2.files = c.files /\ c2.asked = c.asked /\ c2.same = c.same
      /\ c2.end = c.end /\ c2.at = at /\ c2.n = c.n /\ at \in {"wait-done", "threw"}
  <2>1. at \in Sends BY DEF Sends
  <2> QED BY <1>2, <2>1 DEF Client
<1>9. Len(u2) \in Nat /\ u2 # <<>> /\ Len(u2) \in {n + 1, n + 2} /\ n =< Size BY <1>3
<1>10. \A k \in 1..Len(u2) : k = 1 \/ k \in 2..(n + 1) \/ (k = n + 2 /\ at = "wait-done") BY <1>9
<1>11. Chain(i, c2, s, u2, q)
  <2>1. ASSUME NEW k \in 2..Len(u2) PROVE Link(i, q, u2[k - 1], u2[k])
    <3>1. k \in 1..Len(u2) /\ k - 1 \in 1..(n + 1) /\ k - 1 \in 1..Len(u2) BY <1>9, <1>10
    <3>2. u2[k].path = u2[k - 1].path BY <3>1
    <3>3. u2[k - 1].id \in {"SEND", "DATA"} /\ No(u2[k - 1]) = k - 2
      <4>1. CASE k = 2 BY <4>1 DEF No
      <4>2. CASE k # 2
        <5>1. k - 1 \in 2..(n + 1) /\ (k - 1) - 1 = k - 2 BY <3>1, <4>2
        <5>2. u2[k - 1].id = "DATA" /\ u2[k - 1].k = <<<<i, k - 2>>>> BY <5>1
        <5> QED BY <5>2 DEF No
      <4> QED BY <4>1, <4>2
    <3>4. CASE k \in 2..(n + 1)
      <4>1. u2[k].id = "DATA" /\ u2[k].k = <<<<i, k - 1>>>> BY <3>4
      <4>2. k - 1 = (k - 2) + 1 /\ k - 1 \in 1..Size BY <3>4, <1>3
      <4>3. Carries(i, u2[k], (k - 2) + 1) BY <4>1, <4>2 DEF Carries
      <4> QED BY <3>2, <3>3, <4>1, <4>3 DEF Link
    <3>5. CASE k = n + 2 /\ at = "wait-done"
      <4>1. u2[k].id = "DONE" /\ n = Size /\ k - 2 = Size BY <3>5, <1>3
      <4> QED BY <3>2, <3>3, <4>1 DEF Link
    <3> QED BY <3>1, <3>4, <3>5, <1>10
  <2>2. ASSUME NEW k \in 1..Len(u2) PROVE u2[k].id \in {"SEND", "DATA", "DONE"} /\ (u2[k].id = "SEND" => k = 1)
    BY <1>10
  <2>3. at \in Sends BY <1>8 DEF Sends
  <2> QED BY <1>5, <1>6, <1>7, <1>8, <2>1, <2>2, <2>3 DEF Chain, Serving, Pulling
<1>12. Valued(c2, s, u2, d, q, Y) BY <1>1, <1>8 DEF Valued
<1>13. Parted(i, c2, s, u2, d, e) BY <1>1, <1>4, <1>8 DEF Talk, Parted, Settled
<1>14. Writes(c2, s, u2, q)
  <2>1. at = "threw" => \A k \in 1..Len(u2) : u2[k].id # "DONE" BY <1>10
  <2> QED BY <1>8, <2>1 DEF Writes
<1>15. Phase(c2, s, u2, d) BY <1>5, <1>7, <1>8, <1>9 DEF Phase, Sending, Calm, Asking, Sends
<1>16. Kinds(c2, s, u2) BY <1>1, <1>6, <1>7, <1>8 DEF Talk, Kinds, Pulling, Asking, Sends, Settled
<1>17. Quietly(c2, q) BY <1>1, <1>8 DEF Talk, Quietly, InTodo, Pulling, Sends, Settled
<1>18. Fresh(i, c2, u2, T) BY <1>1, <1>8 DEF Fresh, InTodo, Pulling, Sends, Settled
<1>19. ASSUME NEW p \in Paths PROVE Sent(i, p, c2, s, d, q, F[p], X[p], T[p])
  <2>1. Sent(i, p, c, s, d, q, F[p], X[p], T[p]) BY DEF Mine
  <2>2. Told(c2, d, p) => Told(c, d, p) BY <1>5, <1>8 DEF Told, InTodo, Pulling
  <2> QED BY <2>1, <2>2 DEF Sent
<1>20. ASSUME NEW p \in Paths PROVE Copying(p, c2, s, u2, d, q, F[p], X[p], T[p], Y[p])
  <2>1. ~Pulling(c2) BY <1>6, <1>8 DEF Pulling
  <2> QED BY <2>1 DEF Copying
<1> QED BY <1>11, <1>12, <1>13, <1>14, <1>15, <1>16, <1>17, <1>18, <1>19, <1>20 DEF Mine, Talk

LEMMA MineJsDone ==
  ASSUME NEW i \in Sessions, NEW c, NEW s, NEW u, NEW d, NEW q, NEW e, NEW Y, NEW F, NEW X, NEW T,
         Mine(i, c, s, u, d, q, e, Y, F, X, T), c.at = "wait-done", NEW d2, Drops(d, d2), d[1].id = "OKAY",
         NEW c2, c2 = [c EXCEPT !.at = "ok", !.end = "closed"]
  PROVE  Mine(i, c2, s, u, d2, q, e, Y, F, X, T)
<1>1. Valued(c, s, u, d, q, Y) /\ Talk(i, c, s, u, d, q, e) /\ Fresh(i, c, u, T) BY DEF Mine
<1>2. c \in Client /\ d \in Seq(Message) /\ d2 \in Seq(Message) BY <1>1 DEF Valued, Drops
<1>3. d # <<>> BY <1>2 DEF Drops
<1>4. c.end = "open"
  <2>1. c.end # "closed" BY <1>1, <1>3 DEF Talk, Parted, Settled
  <2> QED BY <1>2, <2>1 DEF Client
<1>5. c.op = "js" /\ ~Pulling(c) /\ Len(c.todo) = 1 /\ c.todo # <<>> BY <1>1 DEF Talk, Kinds, Pulling, Sends
<1>6. u = <<>> /\ s.at = "command"
  <2>1. Sending(c, s, u, d) BY <1>1, <1>4 DEF Talk, Phase, Sends
  <2> QED BY <2>1, <1>3 DEF Sending
<1>7. /\ c2 \in Client /\ c2.todo = c.todo /\ c2.ask = c.ask
      /\ c2.op = c.op /\ c2.files = c.files /\ c2.asked = c.asked /\ c2.same = c.same
      /\ c2.end = "closed" /\ c2.at = "ok" /\ c2.n = c.n
  <2>1. "ok" \in Settled BY DEF Settled
  <2> QED BY <1>2, <2>1 DEF Client
<1>8. Valued(c2, s, u, d2, q, Y) BY <1>1, <1>2, <1>7 DEF Valued
<1>9. Chain(i, c2, s, u, q) BY <1>6 DEF Chain, Serving
<1>10. Parted(i, c2, s, u, d2, e) BY <1>1, <1>4, <1>7 DEF Talk, Parted, Settled
<1>11. Writes(c2, s, u, q) /\ Phase(c2, s, u, d2) BY <1>7 DEF Writes, Phase
<1>12. Kinds(c2, s, u) BY <1>1, <1>5, <1>6, <1>7 DEF Talk, Kinds, Pulling, Asking, Sends, Settled, Only
<1>13. Quietly(c2, q) BY <1>1, <1>7 DEF Talk, Quietly, InTodo, Pulling, Sends, Settled
<1>14. Fresh(i, c2, u, T) BY <1>1, <1>7 DEF Fresh, InTodo, Pulling, Sends, Settled
<1>15. ASSUME NEW p \in Paths PROVE Sent(i, p, c2, s, d2, q, F[p], X[p], T[p])
  <2>1. Sent(i, p, c, s, d, q, F[p], X[p], T[p]) BY DEF Mine
  <2>2. Told(c, d, p)
    <3>1. InTodo(c, p) => p = c.todo[1] BY <1>5 DEF InTodo
    <3> QED BY <3>1, <1>3, <1>4, <1>5 DEF Told, Sends
  <2> QED BY <2>1, <2>2 DEF Sent
<1>16. ASSUME NEW p \in Paths PROVE Copying(p, c2, s, u, d2, q, F[p], X[p], T[p], Y[p])
  <2>1. ~Pulling(c2) BY <1>5, <1>7 DEF Pulling
  <2> QED BY <2>1 DEF Copying
<1> QED BY <1>8, <1>9, <1>10, <1>11, <1>12, <1>13, <1>14, <1>15, <1>16 DEF Mine, Talk

(* The connection breaks: what is in it is lost.                           *)
LEMMA MineBreaks ==
  ASSUME NEW i \in Sessions, NEW c, NEW s, NEW u, NEW d, NEW q, NEW e, NEW Y, NEW F, NEW X, NEW T,
         Mine(i, c, s, u, d, q, e, Y, F, X, T), c.at # "new", c.end # "closed",
         NEW c2, c2 = [c EXCEPT !.end = "closed"]
  PROVE  Mine(i, c2, s, <<>>, <<>>, q, e \cup {i}, Y, F, X, T)
<1>1. Valued(c, s, u, d, q, Y) /\ Talk(i, c, s, u, d, q, e) /\ Fresh(i, c, u, T) BY DEF Mine
<1>2. c \in Client /\ <<>> \in Seq(Message) BY <1>1 DEF Valued
<1>3. /\ c2 \in Client /\ c2.todo = c.todo /\ c2.ask = c.ask
      /\ c2.op = c.op /\ c2.files = c.files /\ c2.asked = c.asked /\ c2.same = c.same
      /\ c2.end = "closed" /\ c2.at = c.at /\ c2.n = c.n
  BY <1>2 DEF Client
<1>4. Valued(c2, s, <<>>, <<>>, q, Y) BY <1>1, <1>2, <1>3 DEF Valued
<1>5. \A k \in 1..Len(<<>>) : FALSE OBVIOUS
<1>6. Chain(i, c2, s, <<>>, q) BY <1>1, <1>3, <1>5 DEF Talk, Chain, Pulling
<1>7. Parted(i, c2, s, <<>>, <<>>, e \cup {i}) BY <1>1, <1>3 DEF Talk, Parted
<1>8. Writes(c2, s, <<>>, q) /\ Phase(c2, s, <<>>, <<>>) BY <1>3 DEF Writes, Phase
<1>9. c.at # "ok" BY <1>1 DEF Talk, Parted, Settled
<1>10. Kinds(c2, s, <<>>) BY <1>1, <1>3, <1>9 DEF Talk, Kinds, Pulling
<1>11. Quietly(c2, q) BY <1>1, <1>3 DEF Talk, Quietly, InTodo, Pulling
<1>12. Fresh(i, c2, <<>>, T) BY <1>1, <1>3, <1>5 DEF Fresh, InTodo, Pulling
<1>13. ASSUME NEW p \in Paths PROVE Sent(i, p, c2, s, <<>>, q, F[p], X[p], T[p])
  <2>1. Sent(i, p, c, s, d, q, F[p], X[p], T[p]) BY DEF Mine
  <2>2. Told(c2, <<>>, p) => Told(c, d, p) BY <1>3 DEF Told, InTodo, Pulling
  <2> QED BY <2>1, <2>2 DEF Sent
<1>14. ASSUME NEW p \in Paths PROVE Copying(p, c2, s, <<>>, <<>>, q, F[p], X[p], T[p], Y[p])
  <2>1. Copying(p, c, s, u, d, q, F[p], X[p], T[p], Y[p]) BY DEF Mine
  <2> QED BY <2>1, <1>3 DEF Copying, Listing, Pulling, Asking, InTodo
<1> QED BY <1>4, <1>6, <1>7, <1>8, <1>10, <1>11, <1>12, <1>13, <1>14 DEF Mine, Talk


-----------------------------------------------------------------------------
(* What one session does leaves the others as they are: their values, and   *)
(* of the files what they rely on.                                         *)
SameBut(x, y, i) == y = [j \in Sessions |-> y[j]] /\ \A j \in Sessions : j # i => y[j] = x[j]
Changed(i, p, F, X, T, F2, X2, T2) ==
  /\ i \in T2[p] /\ T2[p] = T[p] \cup {i} /\ F2[p] \in {F[p], NoFile, i}
  /\ X2[p] \in [SyncObjects -> Seq(Chunks)] /\ \A o : o \notin T[p] \cup {Old} => X2[p][o] = X[p][o]
  /\ \A r \in Paths : r # p => F2[r] = F[r] /\ X2[r] = X[r] /\ T2[r] = T[r]
  /\ F2 = [r \in Paths |-> F2[r]] /\ X2 = [r \in Paths |-> X2[r]] /\ T2 = [r \in Paths |-> T2[r]]
Changes(i, F, X, T, F2, X2, T2) ==
  (F2 = F /\ X2 = X /\ T2 = T) \/ \E p \in Paths : Changed(i, p, F, X, T, F2, X2, T2)

LEMMA NothingElse == ASSUME NEW S, NEW x \in [Sessions -> S], NEW i PROVE SameBut(x, x, i)
BY DEF SameBut
LEMMA OneElse ==
  ASSUME NEW S, NEW x \in [Sessions -> S], NEW i \in Sessions, NEW v, NEW y, y = [x EXCEPT ![i] = v]
  PROVE  SameBut(x, y, i) /\ y[i] = v
BY DEF SameBut

LEMMA MineElse ==
  ASSUME NEW i \in Sessions, NEW j \in Sessions, j # i,
         NEW c, NEW s, NEW u, NEW d, NEW q, NEW e, NEW Y, NEW F, NEW X, NEW T,
         Mine(j, c, s, u, d, q, e, Y, F, X, T), NEW F2, NEW X2, NEW T2,
         NEW e2, e2 = e \/ e2 = e \cup {i}, Changes(i, F, X, T, F2, X2, T2)
  PROVE  Mine(j, c, s, u, d, q, e2, Y, F2, X2, T2)
<1>1. Valued(c, s, u, d, q, Y) /\ Talk(j, c, s, u, d, q, e) /\ Fresh(j, c, u, T) BY DEF Mine
<1>2. Parted(j, c, s, u, d, e2) BY <1>1 DEF Talk, Parted
<1>3. Talk(j, c, s, u, d, q, e2) BY <1>1, <1>2 DEF Talk
<1>4. CASE F2 = F /\ X2 = X /\ T2 = T BY <1>1, <1>3, <1>4 DEF Mine
<1>5. ASSUME NEW p \in Paths, Changed(i, p, F, X, T, F2, X2, T2) PROVE Mine(j, c, s, u, d, q, e2, Y, F2, X2, T2)
  <2>1. \A r \in Paths : j \in T2[r] <=> j \in T[r] BY <1>5 DEF Changed
  <2>2. Fresh(j, c, u, T2) BY <1>1, <2>1 DEF Fresh
  <2>3. ASSUME NEW r \in Paths, r # p
        PROVE Sent(j, r, c, s, d, q, F2[r], X2[r], T2[r]) /\ Copying(r, c, s, u, d, q, F2[r], X2[r], T2[r], Y[r])
    <3>1. F2[r] = F[r] /\ X2[r] = X[r] /\ T2[r] = T[r] BY <1>5, <2>3 DEF Changed
    <3> QED BY <3>1 DEF Mine
  <2>4. Sent(j, p, c, s, d, q, F2[p], X2[p], T2[p])
    <3>1. Sent(j, p, c, s, d, q, F[p], X[p], T[p]) BY DEF Mine
    <3>2. T2[p] = T[p] \cup {i} /\ T2[p] # {j} BY <1>5 DEF Changed
    <3>3. j \notin T[p] => X2[p][j] = X[p][j]
      <4>1. j # Old BY PartsConstants DEF Sync!SyncAssumption
      <4> QED BY <4>1, <1>5 DEF Changed
    <3> QED BY <3>1, <3>2, <3>3 DEF Sent
  <2>5. Copying(p, c, s, u, d, q, F2[p], X2[p], T2[p], Y[p]) BY <1>5 DEF Changed, Copying
  <2> QED BY <1>1, <1>3, <2>2, <2>3, <2>4, <2>5 DEF Mine
<1> QED BY <1>4, <1>5 DEF Changes

LEMMA SyncStep ==
  ASSUME SyncIs, NEW i \in Sessions,
         SameBut(cli, cli', i), SameBut(srv, srv', i), SameBut(up, up', i), SameBut(down, down', i),
         SameBut(quiet, quiet', i), SameBut(copy, copy', i),
         unread' = unread \/ unread' = unread \cup {i},
         Changes(i, fs, content, touched, fs', content', touched'), MineOf(i)'
  PROVE  SyncIs'
<1>1. ASSUME NEW j \in Sessions PROVE MineOf(j)'
  <2>1. CASE j = i BY <2>1
  <2>2. CASE j # i
    <3>1. /\ cli'[j] = cli[j] /\ srv'[j] = srv[j] /\ up'[j] = up[j] /\ down'[j] = down[j]
          /\ quiet'[j] = quiet[j] /\ copy'[j] = copy[j] BY <2>2 DEF SameBut
    <3>2. Mine(j, cli[j], srv[j], up[j], down[j], quiet[j], unread, copy[j], fs, content, touched)
      BY DEF SyncIs, MineOf
    <3>3. Mine(j, cli[j], srv[j], up[j], down[j], quiet[j], unread', copy[j], fs', content', touched')
      BY <2>2, <3>2, MineElse
    <3> QED BY <3>1, <3>3 DEF MineOf
  <2> QED BY <2>1, <2>2
<1>2. \A j \in Sessions : Valued(cli'[j], srv'[j], up'[j], down'[j], quiet'[j], copy'[j])
  BY <1>1 DEF MineOf, Mine
<1>3. /\ cli' \in [Sessions -> Client] /\ srv' \in [Sessions -> Service]
      /\ up' \in [Sessions -> Seq(Message)] /\ down' \in [Sessions -> Seq(Message)]
      /\ quiet' \in [Sessions -> SUBSET Paths] /\ copy' \in [Sessions -> [Paths -> Seq(Chunks)]]
  <2>1. cli' \in [Sessions -> Client] BY <1>2 DEF Valued, SameBut
  <2>2. srv' \in [Sessions -> Service] BY <1>2 DEF Valued, SameBut
  <2>3. up' \in [Sessions -> Seq(Message)] BY <1>2 DEF Valued, SameBut
  <2>4. down' \in [Sessions -> Seq(Message)] BY <1>2 DEF Valued, SameBut
  <2>5. quiet' \in [Sessions -> SUBSET Paths] BY <1>2 DEF Valued, SameBut
  <2>6. copy' \in [Sessions -> [Paths -> Seq(Chunks)]] BY <1>2 DEF Valued, SameBut
  <2> QED BY <2>1, <2>2, <2>3, <2>4, <2>5, <2>6
<1>4. unread' \subseteq Sessions BY DEF SyncIs, SyncTyped
<1>5. SyncTyped /\ \A p \in Paths : File(fs[p], content[p], touched[p]) BY DEF SyncIs
<1>6. /\ fs' \in [Paths -> SyncObjects \cup {NoFile}] /\ touched' \in [Paths -> SUBSET Sessions]
      /\ content' \in [Paths -> [SyncObjects -> Seq(Chunks)]]
      /\ \A p \in Paths : File(fs'[p], content'[p], touched'[p])
  <2>1. CASE fs' = fs /\ content' = content /\ touched' = touched BY <1>5, <2>1 DEF SyncTyped
  <2>2. ASSUME NEW p \in Paths, Changed(i, p, fs, content, touched, fs', content', touched')
        PROVE  /\ fs' \in [Paths -> SyncObjects \cup {NoFile}] /\ touched' \in [Paths -> SUBSET Sessions]
               /\ content' \in [Paths -> [SyncObjects -> Seq(Chunks)]]
               /\ \A r \in Paths : File(fs'[r], content'[r], touched'[r])
    <3>1. ASSUME NEW r \in Paths PROVE fs'[r] \in SyncObjects \cup {NoFile}
      BY <1>5, <2>2 DEF SyncTyped, Changed, SyncObjects
    <3>2. ASSUME NEW r \in Paths PROVE touched'[r] \subseteq Sessions BY <1>5, <2>2 DEF SyncTyped, Changed
    <3>3. ASSUME NEW r \in Paths PROVE content'[r] \in [SyncObjects -> Seq(Chunks)]
      BY <1>5, <2>2 DEF SyncTyped, Changed
    <3>4. ASSUME NEW r \in Paths PROVE File(fs'[r], content'[r], touched'[r])
      <4>1. CASE r = p
        <5>1. File(fs[p], content[p], touched[p]) BY <1>5
        <5> QED BY <4>1, <5>1, <2>2 DEF Changed, File
      <4>2. CASE r # p BY <4>2, <1>5, <2>2 DEF Changed
      <4> QED BY <4>1, <4>2
    <3>5. fs' = [r \in Paths |-> fs'[r]] /\ content' = [r \in Paths |-> content'[r]]
          /\ touched' = [r \in Paths |-> touched'[r]] BY <2>2 DEF Changed
    <3>6. fs' \in [Paths -> SyncObjects \cup {NoFile}] BY <3>1, <3>5
    <3>7. touched' \in [Paths -> SUBSET Sessions] BY <3>2, <3>5
    <3>8. content' \in [Paths -> [SyncObjects -> Seq(Chunks)]] BY <3>3, <3>5
    <3> QED BY <3>4, <3>6, <3>7, <3>8
  <2> QED BY <2>1, <2>2 DEF Changes
<1>7. SyncTyped' BY <1>3, <1>4, <1>6 DEF SyncTyped
<1> QED BY <1>1, <1>6, <1>7 DEF SyncIs

(* The service, and the command: what each leaves alone.                   *)
LEMMA SyncServes ==
  ASSUME SyncIs, NEW i \in Sessions, cli' = cli /\ copy' = copy /\ quiet' = quiet,
         SameBut(srv, srv', i), SameBut(up, up', i), SameBut(down, down', i),
         unread' = unread \/ unread' = unread \cup {i},
         Changes(i, fs, content, touched, fs', content', touched'),
         Mine(i, cli[i], srv'[i], up'[i], down'[i], quiet[i], unread', copy[i], fs', content', touched')
  PROVE  SyncIs'
<1>1. /\ cli \in [Sessions -> Client] /\ quiet \in [Sessions -> SUBSET Paths]
      /\ copy \in [Sessions -> [Paths -> Seq(Chunks)]] BY DEF SyncIs, SyncTyped
<1>2. SameBut(cli, cli', i) /\ SameBut(quiet, quiet', i) /\ SameBut(copy, copy', i)
  <2>1. SameBut(cli, cli, i) BY <1>1, NothingElse
  <2>2. SameBut(quiet, quiet, i) BY <1>1, NothingElse
  <2>3. SameBut(copy, copy, i) BY <1>1, NothingElse
  <2> QED BY <2>1, <2>2, <2>3
<1>3. MineOf(i)' BY DEF MineOf
<1> QED BY <1>2, <1>3, SyncStep
LEMMA SyncCommands ==
  ASSUME SyncIs, NEW i \in Sessions, srv' = srv /\ fs' = fs /\ content' = content /\ touched' = touched,
         unread' = unread \/ unread' = unread \cup {i},
         SameBut(cli, cli', i), SameBut(up, up', i), SameBut(down, down', i),
         SameBut(quiet, quiet', i), SameBut(copy, copy', i),
         Mine(i, cli'[i], srv[i], up'[i], down'[i], quiet'[i], unread', copy'[i], fs, content, touched)
  PROVE  SyncIs'
<1>1. srv \in [Sessions -> Service] BY DEF SyncIs, SyncTyped
<1>2. SameBut(srv, srv', i)
  <2>1. SameBut(srv, srv, i) BY <1>1, NothingElse
  <2> QED BY <2>1
<1>3. MineOf(i)' BY DEF MineOf
<1>4. Changes(i, fs, content, touched, fs', content', touched') BY DEF Changes
<1> QED BY <1>2, <1>3, <1>4, SyncStep


-----------------------------------------------------------------------------
(* The steps of the service.                                               *)
ServiceAtoms(i) ==
  /\ cli[i] \in Client /\ srv[i] \in Service /\ up[i] \in Seq(Message) /\ down[i] \in Seq(Message)
  /\ quiet[i] \subseteq Paths /\ copy[i] \in [Paths -> Seq(Chunks)]
LEMMA Typed == ASSUME SyncIs, NEW i \in Sessions PROVE ServiceAtoms(i)
BY DEF SyncIs, SyncTyped, ServiceAtoms
LEMMA OfSession ==
  ASSUME SyncIs, NEW i \in Sessions
  PROVE  /\ Mine(i, cli[i], srv[i], up[i], down[i], quiet[i], unread, copy[i], fs, content, touched)
         /\ Talk(i, cli[i], srv[i], up[i], down[i], quiet[i], unread)
         /\ \A p \in Paths : Sent(i, p, cli[i], srv[i], down[i], quiet[i], fs[p], content[p], touched[p])
BY DEF SyncIs, MineOf, Mine
LEMMA TakesIs ==
  ASSUME SyncIs, NEW i \in Sessions, NEW id, Sync!Takes(i, id)
  PROVE  /\ Drops(up[i], up'[i]) /\ SameBut(up, up', i) /\ up[i][1].id = id
         /\ up[i] # <<>> /\ up[i][1] = Head(up[i]) /\ up[i][1] \in Message
<1>1. up[i] \in Seq(Message) /\ up \in [Sessions -> Seq(Message)] BY DEF SyncIs, SyncTyped
<1>2. up[i] # <<>> /\ Head(up[i]).id = id /\ up' = [up EXCEPT ![i] = Tail(up[i])] BY DEF Sync!Takes
<1>3. Drops(up[i], Tail(up[i])) /\ Head(up[i]) = up[i][1] /\ up[i][1] \in Message BY <1>1, <1>2, TailDrops
<1>4. SameBut(up, up', i) /\ up'[i] = Tail(up[i]) BY <1>1, <1>2, OneElse
<1> QED BY <1>2, <1>3, <1>4
LEMMA IdleIs ==
  /\ Sync!Idle \in Service /\ Sync!Idle.at = "command" /\ Sync!Ended \in Service /\ Sync!Ended.at = "ended"
<1>1. <<>> \in Seq(Paths) OBVIOUS
<1> QED BY <1>1 DEF Service, Sync!Idle, Sync!Ended
LEMMA BecomesIs ==
  ASSUME SyncIs, NEW i \in Sessions, NEW s2, Sync!Becomes(i, s2)
  PROVE  srv'[i] = s2 /\ SameBut(srv, srv', i) /\ down' = down /\ SameBut(down, down', i) /\ unread' = unread
<1>1. srv \in [Sessions -> Service] /\ down \in [Sessions -> Seq(Message)] BY DEF SyncIs, SyncTyped
<1>2. srv' = [srv EXCEPT ![i] = s2] /\ down' = down /\ unread' = unread BY DEF Sync!Becomes
<1>3. SameBut(srv, srv', i) /\ srv'[i] = s2 BY <1>1, <1>2, OneElse
<1>4. SameBut(down, down, i) BY <1>1, NothingElse
<1> QED BY <1>2, <1>3, <1>4
LEMMA ReplyIs ==
  ASSUME SyncIs, NEW i \in Sessions, NEW m, NEW s2, Sync!Reply(i, m, s2)
  PROVE  /\ SameBut(srv, srv', i) /\ SameBut(down, down', i)
         /\ \/ /\ cli[i].end = "closed" /\ srv'[i] = Sync!Ended /\ unread' = unread \cup {i} /\ down' = down
            \/ /\ cli[i].end = "open" /\ srv'[i] = s2 /\ unread' = unread
               /\ m \in Message => Adds(down[i], down'[i], m)
<1>1. srv \in [Sessions -> Service] /\ down \in [Sessions -> Seq(Message)] BY DEF SyncIs, SyncTyped
<1>2. cli[i].end \in {"open", "closed"}
  <2>1. cli[i] \in Client BY DEF SyncIs, SyncTyped
  <2> QED BY <2>1 DEF Client
<1>3. CASE cli[i].end = "closed"
  <2>1. srv' = [srv EXCEPT ![i] = Sync!Ended] /\ unread' = unread \cup {i} /\ down' = down
    BY <1>3 DEF Sync!Reply, Sync!Gone, Sync!Closed
  <2>2. SameBut(srv, srv', i) /\ srv'[i] = Sync!Ended BY <1>1, <2>1, OneElse
  <2>3. SameBut(down, down, i) BY <1>1, NothingElse
  <2> QED BY <1>3, <2>1, <2>2, <2>3
<1>4. CASE cli[i].end = "open"
  <2>1. srv' = [srv EXCEPT ![i] = s2] /\ unread' = unread /\ down' = [down EXCEPT ![i] = Append(down[i], m)]
    BY <1>4 DEF Sync!Reply, Sync!Gone
  <2>2. SameBut(srv, srv', i) /\ srv'[i] = s2 BY <1>1, <2>1, OneElse
  <2>3. SameBut(down, down', i) /\ down'[i] = Append(down[i], m) BY <1>1, <2>1, OneElse
  <2>4. m \in Message => Adds(down[i], down'[i], m) BY <1>1, <2>3, AppendAdds
  <2> QED BY <1>4, <2>1, <2>2, <2>3, <2>4
<1> QED BY <1>2, <1>3, <1>4

(* The end of the service.                                                 *)
LEMMA SyncEnds ==
  ASSUME SyncIs, NEW i \in Sessions, cli[i].end = "closed", cli' = cli /\ copy' = copy /\ quiet' = quiet,
         SameBut(srv, srv', i), srv'[i] = Sync!Ended, down' = down, unread' = unread \cup {i},
         up'[i] = up[i] \/ Drops(up[i], up'[i]), SameBut(up, up', i),
         Changes(i, fs, content, touched, fs', content', touched'), content' = content, touched' = touched,
         \A p \in Paths : fs'[p] = fs[p] \/ (AtIt(srv[i], p) /\ fs'[p] = NoFile),
         \A p \in Paths : AtIt(srv[i], p) /\ srv[i].at = "data" /\ srv[i].fd # NoFile /\ p \notin Sticky =>
            fs'[p] = NoFile \/ srv[i].pos = Size \/ p \in quiet[i]
  PROVE  SyncIs'
<1>1. Mine(i, cli[i], srv[i], up[i], down[i], quiet[i], unread, copy[i], fs, content, touched)
  BY OfSession
<1>2. srv'[i] \in Service /\ srv'[i].at = "ended" BY IdleIs
<1>3. Mine(i, cli[i], srv'[i], up'[i], down[i], quiet[i], unread \cup {i}, copy[i], fs', content, touched)
  BY <1>1, <1>2, MineServiceEnds
<1>4. SameBut(down, down', i)
  <2>1. down \in [Sessions -> Seq(Message)] BY DEF SyncIs, SyncTyped
  <2>2. SameBut(down, down, i) BY <2>1, NothingElse
  <2> QED BY <2>2
<1> QED BY <1>3, <1>4, SyncServes

LEMMA ChangesNot == ASSUME NEW i, NEW F, NEW X, NEW T PROVE Changes(i, F, X, T, F, X, T)
BY DEF Changes

LEMMA SyncStat == ASSUME SyncIs, NEW i \in Sessions, Sync!ServeStat(i) PROVE SyncIs'
<1>1. ServiceAtoms(i) BY Typed
<1>2. /\ srv[i].at = "command" /\ Sync!Takes(i, "STAT")
      /\ cli' = cli /\ copy' = copy /\ quiet' = quiet /\ fs' = fs /\ content' = content /\ touched' = touched
  BY DEF Sync!ServeStat, Sync!deviceVars, Sync!hostVars
<1>3. /\ Drops(up[i], up'[i]) /\ SameBut(up, up', i) /\ up[i][1].id = "STAT"
      /\ up[i] # <<>> /\ up[i][1] = Head(up[i]) /\ up[i][1] \in Message BY <1>2, TakesIs
<1>4. PICK m : m = Sync!Msg("STAT", up[i][1].path, Sync!Status(up[i][1].path)) OBVIOUS
<1>5. Sync!Reply(i, m, Sync!Idle) BY <1>3, <1>4 DEF Sync!ServeStat
<1>6. m \in Message /\ m.id = "STAT"
  <2>1. up[i][1].path \in Paths
    <3>1. 1 \in 1..Len(up[i]) BY <1>1, <1>3 DEF ServiceAtoms
    <3> QED BY <1>3, <3>1, OfSession DEF Talk, Chain
  <2>2. Sync!Status(up[i][1].path) \in Seq(Chunks)
    <3>1. fs[up[i][1].path] \in SyncObjects \cup {NoFile} /\ content[up[i][1].path] \in [SyncObjects -> Seq(Chunks)]
      BY <2>1 DEF SyncIs, SyncTyped
    <3>2. <<>> \in Seq(Chunks) OBVIOUS
    <3> QED BY <3>1, <3>2 DEF Sync!Status, Sync!Exists, Sync!ContentOf
  <2> QED BY <1>4, <2>1, <2>2 DEF Message, Sync!Msg
<1>7. Changes(i, fs, content, touched, fs', content', touched') BY <1>2, ChangesNot
<1>8. CASE cli[i].end = "closed" /\ srv'[i] = Sync!Ended /\ unread' = unread \cup {i} /\ down' = down
  <2>1. \A p : ~AtIt(srv[i], p) BY <1>2 DEF AtIt, Serving
  <2>2. SameBut(srv, srv', i) BY <1>5, ReplyIs
  <2> QED BY <1>2, <1>3, <1>7, <1>8, <2>1, <2>2, SyncEnds
<1>9. CASE cli[i].end = "open" /\ srv'[i] = Sync!Idle /\ unread' = unread /\ Adds(down[i], down'[i], m)
  <2>1. Mine(i, cli[i], srv[i], up[i], down[i], quiet[i], unread, copy[i], fs, content, touched) BY OfSession
  <2>2. srv'[i] \in Service /\ srv'[i].at = "command" BY <1>9, IdleIs
  <2>3. Mine(i, cli[i], srv'[i], up'[i], down'[i], quiet[i], unread, copy[i], fs, content, touched)
    BY <1>2, <1>3, <1>6, <1>9, <2>1, <2>2, MineStat
  <2>4. SameBut(srv, srv', i) /\ SameBut(down, down', i) BY <1>5, ReplyIs
  <2> QED BY <1>2, <1>3, <1>7, <1>9, <2>3, <2>4, SyncServes
<1> QED BY <1>5, <1>6, <1>8, <1>9, ReplyIs

(* A step of the service that goes on, and one that answers.               *)
HostSame == cli' = cli /\ copy' = copy /\ quiet' = quiet
LEMMA UpSame ==
  ASSUME SyncIs, NEW i \in Sessions, up' = up PROVE up'[i] = up[i] /\ SameBut(up, up', i)
<1>1. up \in [Sessions -> Seq(Message)] BY DEF SyncIs, SyncTyped
<1>2. SameBut(up, up, i) BY <1>1, NothingElse
<1> QED BY <1>2
LEMMA SyncBecomes ==
  ASSUME SyncIs, NEW i \in Sessions, HostSame, NEW s2, Sync!Becomes(i, s2), SameBut(up, up', i),
         Changes(i, fs, content, touched, fs', content', touched'),
         Mine(i, cli[i], s2, up'[i], down[i], quiet[i], unread, copy[i], fs', content', touched')
  PROVE  SyncIs'
<1>1. srv'[i] = s2 /\ SameBut(srv, srv', i) /\ down' = down /\ SameBut(down, down', i) /\ unread' = unread
  BY BecomesIs
<1>2. Mine(i, cli[i], srv'[i], up'[i], down'[i], quiet[i], unread', copy[i], fs', content', touched')
  BY <1>1
<1> QED BY <1>1, <1>2, SyncServes DEF HostSame
LEMMA SyncReplies ==
  ASSUME SyncIs, NEW i \in Sessions, HostSame, NEW m \in Message, NEW s2, Sync!Reply(i, m, s2),
         up'[i] = up[i] \/ Drops(up[i], up'[i]), SameBut(up, up', i), content' = content, touched' = touched,
         Changes(i, fs, content, touched, fs', content', touched'),
         \A p \in Paths : fs'[p] = fs[p] \/ (AtIt(srv[i], p) /\ fs'[p] = NoFile),
         \A p \in Paths : AtIt(srv[i], p) /\ srv[i].at = "data" /\ srv[i].fd # NoFile /\ p \notin Sticky =>
            fs'[p] = NoFile \/ srv[i].pos = Size \/ p \in quiet[i],
         cli[i].end = "open" /\ Adds(down[i], down'[i], m) =>
            Mine(i, cli[i], s2, up'[i], down'[i], quiet[i], unread, copy[i], fs', content, touched)
  PROVE  SyncIs'
<1>1. /\ SameBut(srv, srv', i) /\ SameBut(down, down', i)
      /\ \/ /\ cli[i].end = "closed" /\ srv'[i] = Sync!Ended /\ unread' = unread \cup {i} /\ down' = down
         \/ /\ cli[i].end = "open" /\ srv'[i] = s2 /\ unread' = unread /\ Adds(down[i], down'[i], m)
  BY ReplyIs
<1>2. CASE cli[i].end = "closed" /\ srv'[i] = Sync!Ended /\ unread' = unread \cup {i} /\ down' = down
  BY <1>1, <1>2, SyncEnds DEF HostSame
<1>3. CASE cli[i].end = "open" /\ srv'[i] = s2 /\ unread' = unread /\ Adds(down[i], down'[i], m)
  <2>1. Mine(i, cli[i], srv'[i], up'[i], down'[i], quiet[i], unread', copy[i], fs', content', touched')
    BY <1>3
  <2> QED BY <1>1, <1>3, <2>1, SyncServes DEF HostSame
<1> QED BY <1>1, <1>2, <1>3

(* The path of an unlinked file, and of what a request names.              *)
LEMMA UnlinkedIs ==
  ASSUME SyncIs, NEW p \in Paths
  PROVE  /\ Sync!Unlinked(p) = [r \in Paths |-> Sync!Unlinked(p)[r]]
         /\ \A r \in Paths : r # p => Sync!Unlinked(p)[r] = fs[r]
         /\ Sync!Unlinked(p)[p] \in {fs[p], NoFile}
         /\ p \notin Sticky => Sync!Unlinked(p)[p] = NoFile
BY DEF Sync!Unlinked, SyncIs, SyncTyped
LEMMA FilesAre ==
  ASSUME SyncIs
  PROVE  /\ fs = [r \in Paths |-> fs[r]] /\ content = [r \in Paths |-> content[r]]
         /\ touched = [r \in Paths |-> touched[r]]
         /\ \A p \in Paths : /\ fs[p] \in SyncObjects \cup {NoFile} /\ touched[p] \subseteq Sessions
                             /\ content[p] \in [SyncObjects -> Seq(Chunks)]
                             /\ File(fs[p], content[p], touched[p])
BY DEF SyncIs, SyncTyped
LEMMA SyncNames ==
  /\ Old \notin Sessions /\ NoFile \notin Sessions \cup {Old} /\ Size \in Nat \ {0}
BY PartsConstants DEF Sync!SyncAssumption

LEMMA SyncEntry == ASSUME SyncIs, NEW i \in Sessions, Sync!ServeEntry(i) PROVE SyncIs'
<1>1. ServiceAtoms(i) BY Typed
<1>2. PICK s : s = srv[i] OBVIOUS
<1>3. s.at = "list" /\ up' = up /\ HostSame /\ fs' = fs /\ content' = content /\ touched' = touched
  BY <1>2 DEF Sync!ServeEntry, Sync!deviceVars, Sync!hostVars, HostSame
<1>4. up'[i] = up[i] /\ SameBut(up, up', i) BY <1>3, UpSame
<1>5. Changes(i, fs, content, touched, fs', content', touched') BY <1>3, ChangesNot
<1>6. s \in Service /\ s.left \in Seq(Paths) BY <1>1, <1>2 DEF ServiceAtoms, Service
<1>7. Mine(i, cli[i], s, up[i], down[i], quiet[i], unread, copy[i], fs, content, touched) BY <1>2, OfSession
<1>8. \A p : ~AtIt(srv[i], p) BY <1>2, <1>3 DEF AtIt, Serving
<1>9. CASE s.left = <<>>
  <2>1. PICK m : m = Sync!Msg("DONE", NoFile, <<>>) OBVIOUS
  <2>2. Sync!Reply(i, m, Sync!Idle) BY <1>2, <1>9, <2>1 DEF Sync!ServeEntry
  <2>3. m \in Message /\ m.id = "DONE"
    <3>1. <<>> \in Seq(Chunks) OBVIOUS
    <3> QED BY <2>1, <3>1 DEF Sync!Msg, Message
  <2>4. ASSUME cli[i].end = "open" /\ Adds(down[i], down'[i], m)
        PROVE  Mine(i, cli[i], Sync!Idle, up[i], down'[i], quiet[i], unread, copy[i], fs, content, touched)
    BY <1>3, <1>7, <1>9, <2>3, <2>4, IdleIs, MineListed
  <2> QED BY <1>3, <1>4, <1>5, <1>8, <2>2, <2>3, <2>4, SyncReplies
<1>10. CASE s.left # <<>>
  <2>1. PICK s2 : s2 = [s EXCEPT !.left = Tail(@)] OBVIOUS
  <2>2. s2 \in Service /\ s2.at = "list" /\ Head(s.left) = s.left[1] /\ s.left[1] \in Paths
        /\ Len(s2.left) = Len(s.left) - 1 /\ \A k \in 1..Len(s2.left) : s2.left[k] = s.left[k + 1]
    <3>1. Tail(s.left) \in Seq(Paths) /\ Head(s.left) = s.left[1] /\ s.left[1] \in Paths
          /\ Len(Tail(s.left)) = Len(s.left) - 1 /\ \A k \in 1..Len(Tail(s.left)) : Tail(s.left)[k] = s.left[k + 1]
      BY <1>6, <1>10
    <3> QED BY <1>3, <1>6, <2>1, <3>1 DEF Service
  <2>3. PICK m : m = Sync!Msg("DENT", s.left[1], <<>>) OBVIOUS
  <2>4. m \in Message /\ m.id = "DENT" /\ m.path = s.left[1]
    <3>1. <<>> \in Seq(Chunks) OBVIOUS
    <3> QED BY <2>2, <2>3, <3>1 DEF Sync!Msg, Message
  <2>5. IF Sync!Exists(s.left[1]) THEN Sync!Reply(i, m, s2) ELSE Sync!Becomes(i, s2)
    BY <1>2, <1>10, <2>1, <2>2, <2>3 DEF Sync!ServeEntry
  <2>6. CASE Sync!Reply(i, m, s2)
    <3>1. ASSUME cli[i].end = "open" /\ Adds(down[i], down'[i], m)
          PROVE  Mine(i, cli[i], s2, up[i], down'[i], quiet[i], unread, copy[i], fs, content, touched)
      BY <1>3, <1>7, <1>10, <2>2, <2>4, <3>1, MineEntry
    <3> QED BY <1>3, <1>4, <1>5, <1>8, <2>4, <2>6, <3>1, SyncReplies
  <2>7. CASE fs[s.left[1]] = NoFile /\ Sync!Becomes(i, s2)
    <3>1. Mine(i, cli[i], s2, up[i], down[i], quiet[i], unread, copy[i], fs, content, touched)
      BY <1>3, <1>7, <1>10, <2>2, <2>4, <2>7, MineEntry
    <3> QED BY <1>3, <1>4, <1>5, <2>7, <3>1, SyncBecomes
  <2> QED BY <2>5, <2>6, <2>7 DEF Sync!Exists
<1> QED BY <1>9, <1>10

LEMMA SyncSend == ASSUME SyncIs, NEW i \in Sessions, Sync!ServeSend(i) PROVE SyncIs'
<1>1. ServiceAtoms(i) BY Typed
<1>2. PICK p : p = up[i][1].path OBVIOUS
<1>3. PICK s2 : s2 = [Sync!Idle EXCEPT !.at = "open", !.path = p] OBVIOUS
<1>4. srv[i].at = "command" /\ Sync!Takes(i, "SEND") /\ HostSame /\ content' = content
  BY DEF Sync!ServeSend, Sync!hostVars, HostSame
<1>5. /\ Drops(up[i], up'[i]) /\ SameBut(up, up', i) /\ up[i][1].id = "SEND"
      /\ up[i] # <<>> /\ up[i][1] = Head(up[i]) BY <1>4, TakesIs
<1>6. /\ fs' = Sync!Unlinked(p) /\ touched' = [touched EXCEPT ![p] = touched[p] \cup {i}]
      /\ Sync!Becomes(i, s2)
  BY <1>2, <1>3, <1>5 DEF Sync!ServeSend
<1>7. p \in Paths
  <2>1. 1 \in 1..Len(up[i]) BY <1>1, <1>5 DEF ServiceAtoms
  <2>2. cli[i].todo # <<>> /\ p = cli[i].todo[1] BY <1>2, <1>5, <2>1, OfSession DEF Talk, Chain
  <2> QED BY <1>1, <2>2, FirstTodo DEF ServiceAtoms
<1>8. s2 \in Service /\ s2.at = "open" /\ s2.path = p /\ s2.pos = 0
  BY <1>3, <1>7, IdleIs DEF Service, Sync!Idle
<1>9. /\ \A r \in Paths : r # p => fs'[r] = fs[r] /\ touched'[r] = touched[r]
      /\ p \notin Sticky => fs'[p] = NoFile
      /\ fs'[p] \in {fs[p], NoFile} /\ fs' = [r \in Paths |-> fs'[r]]
  BY <1>6, <1>7, UnlinkedIs, FilesAre
<1>10. touched'[p] = touched[p] \cup {i} /\ touched' = [r \in Paths |-> touched'[r]]
  BY <1>6, <1>7, FilesAre
<1>11. Mine(i, cli[i], s2, up'[i], down[i], quiet[i], unread, copy[i], fs', content, touched')
  <2>1. Mine(i, cli[i], srv[i], up[i], down[i], quiet[i], unread, copy[i], fs, content, touched) BY OfSession
  <2> QED BY <1>2, <1>4, <1>5, <1>8, <1>9, <1>10, <2>1, MineSend
<1>12. Changes(i, fs, content, touched, fs', content', touched')
  <2>1. Changed(i, p, fs, content, touched, fs', content', touched')
    BY <1>4, <1>7, <1>9, <1>10, FilesAre DEF Changed
  <2> QED BY <1>7, <2>1 DEF Changes
<1> QED BY <1>4, <1>5, <1>6, <1>11, <1>12, SyncBecomes

LEMMA SyncOpen == ASSUME SyncIs, NEW i \in Sessions, Sync!ServeOpen(i) PROVE SyncIs'
<1>1. ServiceAtoms(i) BY Typed
<1>2. PICK s : s = srv[i] OBVIOUS
<1>3. PICK p : p = s.path OBVIOUS
<1>4. s.at = "open" /\ up' = up /\ HostSame /\ content' = content /\ touched' = touched
  BY <1>2 DEF Sync!ServeOpen, Sync!hostVars, HostSame
<1>5. up'[i] = up[i] /\ SameBut(up, up', i) BY <1>4, UpSame
<1>6. Mine(i, cli[i], s, up[i], down[i], quiet[i], unread, copy[i], fs, content, touched) BY <1>2, OfSession
<1>7. p \in Paths /\ AtIt(s, p) /\ s \in Service
  <2>1. cli[i].todo # <<>> /\ p = cli[i].todo[1]
    BY <1>2, <1>3, <1>4, OfSession DEF Talk, Chain, Serving
  <2> QED BY <1>1, <1>2, <1>3, <1>4, <2>1, FirstTodo DEF ServiceAtoms, AtIt, Serving
<1>8. i \in touched[p] /\ fs[p] \in touched[p] \cup {Old, NoFile} /\ fs[p] \in SyncObjects \cup {NoFile}
  <2>1. Sent(i, p, cli[i], s, down[i], quiet[i], fs[p], content[p], touched[p]) BY <1>2, <1>7, OfSession
  <2> QED BY <1>7, <2>1, FilesAre DEF Sent, File
<1>9. ASSUME NEW o \in SyncObjects \cup {NoFile}
      PROVE  /\ Sync!Sending(i, o) \in Service /\ Sync!Sending(i, o).at = "data" /\ Sync!Sending(i, o).path = p
             /\ Sync!Sending(i, o).pos = 0 /\ Sync!Sending(i, o).fd = o
  BY <1>2, <1>3, <1>7, <1>9 DEF Sync!Sending, Service
<1>10. PICK m : m = Sync!Msg("FAIL", p, <<>>) OBVIOUS
<1>11. m \in Message /\ m.id = "FAIL"
  <2>1. <<>> \in Seq(Chunks) OBVIOUS
  <2> QED BY <1>7, <1>10, <2>1 DEF Sync!Msg, Message
<1>12. \/ fs[p] # NoFile /\ fs' = fs /\ Sync!Becomes(i, Sync!Sending(i, fs'[p]))
       \/ fs' = [fs EXCEPT ![p] = i] /\ Sync!Becomes(i, Sync!Sending(i, fs'[p]))
       \/ fs' = fs /\ Sync!Reply(i, m, Sync!Sending(i, NoFile))
  BY <1>2, <1>3, <1>10 DEF Sync!ServeOpen, Sync!FailErrno, Sync!Exists
<1>13. CASE fs[p] # NoFile /\ fs' = fs /\ Sync!Becomes(i, Sync!Sending(i, fs'[p]))
  <2>1. PICK s2 : s2 = Sync!Sending(i, fs[p]) OBVIOUS
  <2>2. s2 \in Service /\ s2.at = "data" /\ s2.path = s.path /\ s2.pos = 0 /\ s2.fd = fs[p]
    BY <1>3, <1>8, <1>9, <2>1
  <2>3. Mine(i, cli[i], s2, up[i], down[i], quiet[i], unread, copy[i], fs, content, touched)
    BY <1>3, <1>4, <1>6, <1>8, <1>11, <1>13, <2>2, MineOpen
  <2>4. Changes(i, fs, content, touched, fs', content', touched') BY <1>4, <1>13, ChangesNot
  <2>5. Sync!Becomes(i, s2) BY <1>13, <2>1
  <2> QED BY <1>4, <1>5, <1>13, <2>3, <2>4, <2>5, SyncBecomes
<1>14. CASE fs' = [fs EXCEPT ![p] = i] /\ Sync!Becomes(i, Sync!Sending(i, fs'[p]))
  <2>1. PICK s2 : s2 = Sync!Sending(i, i) OBVIOUS
  <2>2. fs'[p] = i /\ fs' = [r \in Paths |-> fs'[r]] /\ \A r \in Paths : r # p => fs'[r] = fs[r]
    BY <1>7, <1>14, FilesAre
  <2>3. s2 \in Service /\ s2.at = "data" /\ s2.path = s.path /\ s2.pos = 0 /\ s2.fd = i
    BY <1>3, <1>9, <2>1 DEF SyncObjects
  <2>4. Mine(i, cli[i], s2, up[i], down[i], quiet[i], unread, copy[i], fs', content, touched)
    BY <1>3, <1>4, <1>6, <1>8, <1>11, <2>2, <2>3, MineOpen
  <2>5. Changed(i, p, fs, content, touched, fs', content', touched')
    BY <1>4, <1>7, <1>8, <2>2, FilesAre DEF Changed
  <2>6. Changes(i, fs, content, touched, fs', content', touched') BY <1>7, <2>5 DEF Changes
  <2>7. Sync!Becomes(i, s2) BY <1>14, <2>1, <2>2
  <2> QED BY <1>4, <1>5, <2>4, <2>6, <2>7, SyncBecomes
<1>15. CASE fs' = fs /\ Sync!Reply(i, m, Sync!Sending(i, NoFile))
  <2>1. PICK s2 : s2 = Sync!Sending(i, NoFile) OBVIOUS
  <2>2. s2 \in Service /\ s2.at = "data" /\ s2.path = s.path /\ s2.pos = 0 /\ s2.fd = NoFile
    BY <1>3, <1>9, <2>1
  <2>3. ASSUME cli[i].end = "open" /\ Adds(down[i], down'[i], m)
        PROVE  Mine(i, cli[i], s2, up[i], down'[i], quiet[i], unread, copy[i], fs, content, touched)
    BY <1>3, <1>4, <1>6, <1>8, <1>11, <2>2, <2>3, MineOpen
  <2>4. Changes(i, fs, content, touched, fs', content', touched') BY <1>4, <1>15, ChangesNot
  <2>5. Sync!Reply(i, m, s2) BY <1>15, <2>1
  <2>6. srv[i].at # "data" BY <1>2, <1>4
  <2> QED BY <1>4, <1>5, <1>11, <1>15, <2>3, <2>4, <2>5, <2>6, SyncReplies
<1> QED BY <1>12, <1>13, <1>14, <1>15

LEMMA SyncDone == ASSUME SyncIs, NEW i \in Sessions, Sync!ServeDone(i) PROVE SyncIs'
<1>1. ServiceAtoms(i) BY Typed
<1>2. /\ srv[i].at = "data" /\ Sync!Takes(i, "DONE") /\ HostSame
      /\ fs' = fs /\ content' = content /\ touched' = touched
  BY DEF Sync!ServeDone, Sync!deviceVars, Sync!hostVars, HostSame
<1>3. /\ Drops(up[i], up'[i]) /\ SameBut(up, up', i) /\ up[i][1].id = "DONE" /\ up[i] # <<>> BY <1>2, TakesIs
<1>4. Changes(i, fs, content, touched, fs', content', touched') BY <1>2, ChangesNot
<1>5. Mine(i, cli[i], srv[i], up[i], down[i], quiet[i], unread, copy[i], fs, content, touched) BY OfSession
<1>6. srv[i].fd # NoFile => srv[i].pos = Size \/ srv[i].path \in quiet[i]
  <2>1. Follows(i, quiet[i], srv[i], up[i][1]) BY <1>2, <1>3, OfSession DEF Talk, Chain, Serving
  <2> QED BY <1>3, <2>1 DEF Follows
<1>7. PICK m : m = Sync!Msg("OKAY", srv[i].path, <<>>) OBVIOUS
<1>8. m \in Message /\ m.id = "OKAY"
  <2>1. <<>> \in Seq(Chunks) OBVIOUS
  <2> QED BY <1>1, <1>7, <2>1 DEF Sync!Msg, Message, ServiceAtoms, Service
<1>9. CASE srv[i].fd # NoFile /\ Sync!Reply(i, m, Sync!Idle)
  <2>1. ASSUME cli[i].end = "open" /\ Adds(down[i], down'[i], m)
        PROVE  Mine(i, cli[i], Sync!Idle, up'[i], down'[i], quiet[i], unread, copy[i], fs, content, touched)
    BY <1>2, <1>3, <1>5, <1>8, <1>9, <2>1, IdleIs, MineDone
  <2>2. \A p \in Paths : AtIt(srv[i], p) /\ srv[i].fd # NoFile => srv[i].pos = Size \/ p \in quiet[i]
    BY <1>6 DEF AtIt
  <2> QED BY <1>2, <1>3, <1>4, <1>8, <1>9, <2>1, <2>2, SyncReplies
<1>10. CASE srv[i].fd = NoFile /\ Sync!Becomes(i, Sync!Idle)
  <2>1. Mine(i, cli[i], Sync!Idle, up'[i], down[i], quiet[i], unread, copy[i], fs, content, touched)
    BY <1>2, <1>3, <1>5, <1>8, <1>10, IdleIs, MineDone
  <2> QED BY <1>2, <1>3, <1>4, <1>10, <2>1, SyncBecomes
<1> QED BY <1>7, <1>9, <1>10 DEF Sync!ServeDone

LEMMA SyncRecv == ASSUME SyncIs, NEW i \in Sessions, Sync!ServeRecv(i) PROVE SyncIs'
<1>1. ServiceAtoms(i) BY Typed
<1>2. /\ srv[i].at = "command" /\ Sync!Takes(i, "RECV") /\ HostSame
      /\ fs' = fs /\ content' = content /\ touched' = touched
  BY DEF Sync!ServeRecv, Sync!deviceVars, Sync!hostVars, HostSame
<1>3. /\ Drops(up[i], up'[i]) /\ SameBut(up, up', i) /\ up[i][1].id = "RECV" /\ up[i] # <<>>
      /\ up[i][1] = Head(up[i])
  BY <1>2, TakesIs
<1>4. Changes(i, fs, content, touched, fs', content', touched') BY <1>2, ChangesNot
<1>5. Mine(i, cli[i], srv[i], up[i], down[i], quiet[i], unread, copy[i], fs, content, touched) BY OfSession
<1>6. PICK p : p = up[i][1].path OBVIOUS
<1>7. p \in Paths
  <2>1. 1 \in 1..Len(up[i]) BY <1>1, <1>3 DEF ServiceAtoms
  <2> QED BY <1>3, <1>6, <2>1, OfSession DEF Talk, Chain
<1>8. PICK m : m = Sync!Msg("FAIL", p, <<>>) OBVIOUS
<1>9. m \in Message /\ m.id = "FAIL"
  <2>1. <<>> \in Seq(Chunks) OBVIOUS
  <2> QED BY <1>7, <1>8, <2>1 DEF Sync!Msg, Message
<1>10. PICK s2 : s2 = [Sync!Idle EXCEPT !.at = "read", !.path = p, !.fd = fs[p]] OBVIOUS
<1>11. \A r \in Paths : File(fs[r], content[r], touched[r]) BY FilesAre
<1>12. (fs[p] # NoFile /\ Sync!Becomes(i, s2)) \/ Sync!Reply(i, m, Sync!Idle)
  BY <1>3, <1>6, <1>8, <1>10 DEF Sync!ServeRecv, Sync!FailErrno, Sync!Exists
<1>13. CASE fs[p] # NoFile /\ Sync!Becomes(i, s2)
  <2>1. s2 \in Service /\ s2.at = "read" /\ s2.path = p /\ s2.fd = fs[p] /\ s2.pos = 0
    BY <1>7, <1>10, IdleIs, FilesAre DEF Service, Sync!Idle
  <2>2. Mine(i, cli[i], s2, up'[i], down[i], quiet[i], unread, copy[i], fs, content, touched)
    BY <1>2, <1>3, <1>5, <1>6, <1>9, <1>11, <1>13, <2>1, MineRecv
  <2> QED BY <1>2, <1>3, <1>4, <1>13, <2>2, SyncBecomes
<1>14. CASE Sync!Reply(i, m, Sync!Idle)
  <2>1. ASSUME cli[i].end = "open" /\ Adds(down[i], down'[i], m)
        PROVE  Mine(i, cli[i], Sync!Idle, up'[i], down'[i], quiet[i], unread, copy[i], fs, content, touched)
    BY <1>2, <1>3, <1>5, <1>6, <1>9, <1>11, <2>1, IdleIs, MineRecv
  <2> QED BY <1>2, <1>3, <1>4, <1>9, <1>14, <2>1, SyncReplies
<1> QED BY <1>12, <1>13, <1>14

LEMMA SyncRead == ASSUME SyncIs, NEW i \in Sessions, Sync!ServeRead(i) PROVE SyncIs'
<1>1. ServiceAtoms(i) BY Typed
<1>2. PICK s : s = srv[i] OBVIOUS
<1>3. s.at = "read" /\ up' = up /\ HostSame /\ fs' = fs /\ content' = content /\ touched' = touched
  BY <1>2 DEF Sync!ServeRead, Sync!deviceVars, Sync!hostVars, HostSame
<1>4. up'[i] = up[i] /\ SameBut(up, up', i) BY <1>3, UpSame
<1>5. Changes(i, fs, content, touched, fs', content', touched') BY <1>3, ChangesNot
<1>6. Mine(i, cli[i], s, up[i], down[i], quiet[i], unread, copy[i], fs, content, touched) BY <1>2, OfSession
<1>7. s \in Service /\ s.fd # NoFile /\ s.path \in Paths
  BY <1>1, <1>2, <1>3, OfSession DEF ServiceAtoms, Talk, Chain
<1>8. content[s.path][s.fd] \in Seq(Chunks) /\ s.pos \in Nat
  <2>1. s.fd \in SyncObjects /\ s.pos \in Nat BY <1>7 DEF Service
  <2> QED BY <1>7, <2>1, FilesAre
<1>9. \A r \in Paths : File(fs[r], content[r], touched[r]) BY FilesAre
<1>10. srv[i].at # "data" /\ srv[i].at # "open" BY <1>2, <1>3
<1>11. PICK x : x = content[s.path][s.fd] OBVIOUS
<1>12. \/ s.pos < Len(x) /\ Sync!Reply(i, Sync!Msg("DATA", s.path, <<x[s.pos + 1]>>), [s EXCEPT !.pos = @ + 1])
       \/ s.pos >= Len(x) /\ Sync!Reply(i, Sync!Msg("DONE", s.path, <<>>), Sync!Idle)
       \/ Sync!Reply(i, Sync!Msg("FAIL", s.path, <<>>), Sync!Idle)
  BY <1>2, <1>11 DEF Sync!ServeRead, Sync!FailErrno
<1>13. ASSUME NEW m \in Message, NEW s2 \in Service, Sync!Reply(i, m, s2),
              \/ /\ s.pos < Len(x) /\ s2.at = "read" /\ s2.path = s.path /\ s2.fd = s.fd
                 /\ s2.pos = s.pos + 1 /\ m.id = "DATA" /\ m.k = <<x[s.pos + 1]>>
              \/ s.pos >= Len(x) /\ s2.at = "command" /\ m.id = "DONE"
              \/ s2.at = "command" /\ m.id = "FAIL"
       PROVE  SyncIs'
  <2>1. ASSUME cli[i].end = "open" /\ Adds(down[i], down'[i], m)
        PROVE  Mine(i, cli[i], s2, up[i], down'[i], quiet[i], unread, copy[i], fs, content, touched)
    BY <1>3, <1>6, <1>9, <1>11, <1>13, <2>1, MineRead
  <2> QED BY <1>3, <1>4, <1>5, <1>10, <1>13, <2>1, SyncReplies
<1>14. CASE s.pos < Len(x) /\ Sync!Reply(i, Sync!Msg("DATA", s.path, <<x[s.pos + 1]>>), [s EXCEPT !.pos = @ + 1])
  <2>1. PICK m : m = Sync!Msg("DATA", s.path, <<x[s.pos + 1]>>) OBVIOUS
  <2>2. PICK s2 : s2 = [s EXCEPT !.pos = @ + 1] OBVIOUS
  <2>3. m \in Message /\ m.id = "DATA" /\ m.k = <<x[s.pos + 1]>>
    <3>1. x[s.pos + 1] \in Chunks BY <1>8, <1>11, <1>14
    <3>2. <<x[s.pos + 1]>> \in Seq(Chunks) BY <3>1
    <3> QED BY <1>7, <2>1, <3>2 DEF Sync!Msg, Message
  <2>4. s2 \in Service /\ s2.at = "read" /\ s2.path = s.path /\ s2.fd = s.fd /\ s2.pos = s.pos + 1
    BY <1>3, <1>7, <2>2 DEF Service
  <2> QED BY <1>13, <1>14, <2>1, <2>2, <2>3, <2>4
<1>15. CASE s.pos >= Len(x) /\ Sync!Reply(i, Sync!Msg("DONE", s.path, <<>>), Sync!Idle)
  <2>1. PICK m : m = Sync!Msg("DONE", s.path, <<>>) OBVIOUS
  <2>2. <<>> \in Seq(Chunks) OBVIOUS
  <2>3. m \in Message /\ m.id = "DONE" BY <1>7, <2>1, <2>2 DEF Sync!Msg, Message
  <2> QED BY <1>13, <1>15, <2>1, <2>3, IdleIs
<1>16. CASE Sync!Reply(i, Sync!Msg("FAIL", s.path, <<>>), Sync!Idle)
  <2>1. PICK m : m = Sync!Msg("FAIL", s.path, <<>>) OBVIOUS
  <2>2. <<>> \in Seq(Chunks) OBVIOUS
  <2>3. m \in Message /\ m.id = "FAIL" BY <1>7, <2>1, <2>2 DEF Sync!Msg, Message
  <2> QED BY <1>13, <1>16, <2>1, <2>3, IdleIs
<1> QED BY <1>12, <1>14, <1>15, <1>16

LEMMA MineWritten ==
  ASSUME NEW i \in Sessions, NEW c, NEW s, NEW u, NEW d, NEW q, NEW e, NEW Y, NEW F, NEW X, NEW T,
         Mine(i, c, s, u, d, q, e, Y, F, X, T),
         s.at = "data", NEW u2, Drops(u, u2), u[1].id = "DATA",
         NEW s2 \in Service, s2.at = "data", s2.path = s.path, s.fd # NoFile, s2.fd = s.fd, s2.pos = s.pos + 1,
         NEW X2, \A p \in Paths : p # s.path => X2[p] = X[p],
         \A o : o # s.fd => X2[s.path][o] = X[s.path][o],
         X2[s.path][s.fd] = Sync!Overlay(X[s.path][s.fd], s.pos + 1, u[1].k[1])
  PROVE  Mine(i, c, s2, u2, d, q, e, Y, F, X2, T)
<1>1. PICK m : m = [id |-> "FAIL"] OBVIOUS
<1>2. m.id = "FAIL" BY <1>1
<1>3. TakesData(s, u[1], c, d, F, X, s2, d, F, X2, m) BY DEF TakesData
<1> QED BY <1>2, <1>3, MineData
LEMMA MineUnwritten ==
  ASSUME NEW i \in Sessions, NEW c, NEW s, NEW u, NEW d, NEW q, NEW e, NEW Y, NEW F, NEW X, NEW T,
         Mine(i, c, s, u, d, q, e, Y, F, X, T),
         s.at = "data", NEW u2, Drops(u, u2), u[1].id = "DATA",
         NEW s2 \in Service, s2.at = "data", s2.path = s.path, s.fd # NoFile, s2.fd = NoFile,
         NEW F2, NEW m, m.id = "FAIL", c.end = "open", NEW d2, Adds(d, d2, m),
         \A p \in Paths : p # s.path => F2[p] = F[p],
         s.path \notin Sticky => F2[s.path] = NoFile
  PROVE  Mine(i, c, s2, u2, d2, q, e, Y, F2, X, T)
<1>1. TakesData(s, u[1], c, d, F, X, s2, d2, F2, X, m) BY DEF TakesData
<1> QED BY <1>1, MineData
LEMMA OverlayIs ==
  ASSUME NEW x \in Seq(Chunks), NEW r \in Nat, NEW k \in Chunks PROVE Sync!Overlay(x, r + 1, k) \in Seq(Chunks)
BY DEF Sync!Overlay
LEMMA SyncData == ASSUME SyncIs, NEW i \in Sessions, Sync!ServeData(i) PROVE SyncIs'
<1>1. ServiceAtoms(i) BY Typed
<1>2. PICK s : s = srv[i] OBVIOUS
<1>3. PICK p : p = s.path OBVIOUS
<1>4. PICK a : a = up[i][1] OBVIOUS
<1>5. s.at = "data" /\ Sync!Takes(i, "DATA") /\ HostSame /\ touched' = touched
  BY <1>2 DEF Sync!ServeData, Sync!hostVars, HostSame
<1>6. /\ Drops(up[i], up'[i]) /\ SameBut(up, up', i) /\ a.id = "DATA" /\ up[i] # <<>> /\ a = Head(up[i])
  BY <1>4, <1>5, TakesIs
<1>7. Mine(i, cli[i], s, up[i], down[i], quiet[i], unread, copy[i], fs, content, touched) BY <1>2, OfSession
<1>8. p \in Paths /\ AtIt(s, p) /\ s \in Service
  <2>1. cli[i].todo # <<>> /\ p = cli[i].todo[1]
    BY <1>2, <1>3, <1>5, OfSession DEF Talk, Chain, Serving
  <2> QED BY <1>1, <1>2, <1>3, <1>5, <2>1, FirstTodo DEF ServiceAtoms, AtIt, Serving
<1>9. i \in touched[p] /\ s.fd \in touched[p] \cup {Old, NoFile}
  <2>1. Sent(i, p, cli[i], s, down[i], quiet[i], fs[p], content[p], touched[p]) BY <1>2, <1>8, OfSession
  <2> QED BY <1>5, <1>8, <2>1 DEF Sent
<1>10. PICK m : m = Sync!Msg("FAIL", p, <<>>) OBVIOUS
<1>11. m \in Message /\ m.id = "FAIL"
  <2>1. <<>> \in Seq(Chunks) OBVIOUS
  <2> QED BY <1>8, <1>10, <2>1 DEF Sync!Msg, Message
<1>12. PICK s2 : s2 = [s EXCEPT !.pos = @ + 1] OBVIOUS
<1>13. PICK s3 : s3 = [s EXCEPT !.fd = NoFile] OBVIOUS
<1>14. /\ s2 \in Service /\ s2.at = "data" /\ s2.path = p /\ s2.fd = s.fd /\ s2.pos = s.pos + 1
       /\ s3 \in Service /\ s3.at = "data" /\ s3.path = p /\ s3.fd = NoFile
  BY <1>3, <1>5, <1>8, <1>12, <1>13 DEF Service
<1>15. \/ /\ s.fd # NoFile /\ Sync!Becomes(i, s2) /\ fs' = fs
          /\ content' = [content EXCEPT ![p][s.fd] = Sync!Overlay(@, s.pos + 1, a.k[1])]
       \/ s.fd # NoFile /\ fs' = Sync!Unlinked(p) /\ Sync!Reply(i, m, s3) /\ content' = content
       \/ s.fd = NoFile /\ Sync!Becomes(i, s) /\ fs' = fs /\ content' = content
  BY <1>2, <1>3, <1>6, <1>10, <1>12, <1>13 DEF Sync!ServeData, Sync!FailErrno
<1>16. CASE /\ s.fd # NoFile /\ Sync!Becomes(i, s2) /\ fs' = fs
            /\ content' = [content EXCEPT ![p][s.fd] = Sync!Overlay(@, s.pos + 1, a.k[1])]
  <2>1. PICK y : y = Sync!Overlay(content[p][s.fd], s.pos + 1, a.k[1]) OBVIOUS
  <2>2. s.fd \in SyncObjects /\ s.pos \in Nat /\ content[p] \in [SyncObjects -> Seq(Chunks)]
    BY <1>8, <1>16, FilesAre DEF Service
  <2>3. a.k[1] \in Chunks
    <3>1. Follows(i, quiet[i], s, a) BY <1>2, <1>4, <1>5, <1>6, OfSession DEF Talk, Chain, Serving
    <3>2. a.k = <<<<i, s.pos + 1>>>> /\ s.pos + 1 \in 1..Size BY <1>6, <1>16, <3>1 DEF Follows, Carries
    <3> QED BY <3>2 DEF Chunks, SyncObjects
  <2>4. y \in Seq(Chunks) BY <2>1, <2>2, <2>3, OverlayIs
  <2>5. content' = [content EXCEPT ![p] = [content[p] EXCEPT ![s.fd] = y]] BY <1>16, <2>1
  <2>6. /\ content'[p] = [content[p] EXCEPT ![s.fd] = y] /\ \A r \in Paths : r # p => content'[r] = content[r]
        /\ content' = [r \in Paths |-> content'[r]] BY <1>8, <2>5, FilesAre
  <2>7. /\ content'[p] \in [SyncObjects -> Seq(Chunks)] /\ content'[p][s.fd] = y
        /\ \A o : o # s.fd => content'[p][o] = content[p][o] BY <2>2, <2>4, <2>6
  <2>8. Mine(i, cli[i], s2, up'[i], down[i], quiet[i], unread, copy[i], fs', content', touched)
    <3>1. /\ Drops(up[i], up'[i]) /\ up[i][1].id = "DATA" /\ s.at = "data" /\ s2 \in Service
          /\ s2.at = "data" /\ s2.path = s.path
      BY <1>3, <1>4, <1>5, <1>6, <1>14
    <3>2. \A r \in Paths : r # s.path => content'[r] = content[r] BY <1>3, <2>6
    <3>3. s.fd # NoFile /\ s2.fd = s.fd /\ s2.pos = s.pos + 1 BY <1>14, <1>16
    <3>4. \A o : o # s.fd => content'[s.path][o] = content[s.path][o] BY <1>3, <2>7
    <3>5. content'[s.path][s.fd] = Sync!Overlay(content[s.path][s.fd], s.pos + 1, up[i][1].k[1])
      BY <1>3, <1>4, <2>1, <2>7
    <3>6. Mine(i, cli[i], s2, up'[i], down[i], quiet[i], unread, copy[i], fs, content', touched)
      BY ONLY <1>7, <3>1, <3>2, <3>3, <3>4, <3>5, MineWritten, i \in Sessions
    <3> QED BY <1>16, <3>6
  <2>9. Changed(i, p, fs, content, touched, fs', content', touched')
    BY <1>5, <1>9, <1>16, <2>2, <2>6, <2>7, FilesAre DEF Changed
  <2>10. Changes(i, fs, content, touched, fs', content', touched') BY <1>8, <2>9 DEF Changes
  <2> QED BY <1>5, <1>6, <1>16, <2>8, <2>10, SyncBecomes
<1>17. CASE s.fd # NoFile /\ fs' = Sync!Unlinked(p) /\ Sync!Reply(i, m, s3) /\ content' = content
  <2>1. /\ \A r \in Paths : r # p => fs'[r] = fs[r]
        /\ p \notin Sticky => fs'[p] = NoFile
        /\ fs'[p] \in {fs[p], NoFile} /\ fs' = [r \in Paths |-> fs'[r]]
    BY <1>8, <1>17, UnlinkedIs
  <2>2. ASSUME cli[i].end = "open" /\ Adds(down[i], down'[i], m)
        PROVE  Mine(i, cli[i], s3, up'[i], down'[i], quiet[i], unread, copy[i], fs', content, touched)
    <3>1. /\ Drops(up[i], up'[i]) /\ up[i][1].id = "DATA" /\ s.at = "data" /\ s3 \in Service
          /\ s3.at = "data" /\ s3.path = s.path /\ m.id = "FAIL"
      BY <1>3, <1>4, <1>5, <1>6, <1>11, <1>14
    <3>2. \A r \in Paths : r # s.path => fs'[r] = fs[r] BY <1>3, <2>1
    <3>3. s.fd # NoFile /\ s3.fd = NoFile BY <1>14, <1>17
    <3>4. s.path \notin Sticky => fs'[s.path] = NoFile BY <1>3, <2>1
    <3> QED BY ONLY <1>7, <2>2, <3>1, <3>2, <3>3, <3>4, MineUnwritten, i \in Sessions
  <2>3. Changed(i, p, fs, content, touched, fs', content', touched')
    BY <1>5, <1>8, <1>9, <1>17, <2>1, FilesAre DEF Changed
  <2>4. Changes(i, fs, content, touched, fs', content', touched') BY <1>8, <2>3 DEF Changes
  <2>5. \A r \in Paths : fs'[r] = fs[r] \/ (AtIt(srv[i], r) /\ fs'[r] = NoFile) BY <1>2, <1>8, <2>1
  <2>6. \A r \in Paths : AtIt(srv[i], r) /\ r \notin Sticky => fs'[r] = NoFile BY <1>2, <1>3, <2>1 DEF AtIt
  <2> QED BY <1>5, <1>6, <1>11, <1>17, <2>2, <2>4, <2>5, <2>6, SyncReplies
<1>18. CASE s.fd = NoFile /\ Sync!Becomes(i, s) /\ fs' = fs /\ content' = content
  <2>1. Mine(i, cli[i], s, up'[i], down[i], quiet[i], unread, copy[i], fs, content, touched)
    <3>1. TakesData(s, up[i][1], cli[i], down[i], fs, content, s, down[i], fs, content, m)
      BY <1>18 DEF TakesData
    <3> QED BY <1>3, <1>4, <1>5, <1>6, <1>7, <1>8, <1>11, <3>1, MineData
  <2>2. Changes(i, fs, content, touched, fs', content', touched') BY <1>5, <1>18, ChangesNot
  <2> QED BY <1>5, <1>6, <1>18, <2>1, <2>2, SyncBecomes
<1> QED BY <1>15, <1>16, <1>17, <1>18

LEMMA SyncQuits == ASSUME SyncIs, NEW i \in Sessions, Sync!ServeQuit(i) PROVE SyncIs'
<1>1. ServiceAtoms(i) BY Typed
<1>2. /\ srv[i].at = "command" /\ Sync!Takes(i, "QUIT") /\ HostSame
      /\ fs' = fs /\ content' = content /\ touched' = touched /\ down' = down
      /\ srv' = [srv EXCEPT ![i] = Sync!Ended] /\ unread' = unread \cup {i}
  BY DEF Sync!ServeQuit, Sync!deviceVars, Sync!hostVars, HostSame, Sync!Closed
<1>3. /\ Drops(up[i], up'[i]) /\ SameBut(up, up', i) /\ up[i][1].id = "QUIT" /\ up[i] # <<>> BY <1>2, TakesIs
<1>4. Changes(i, fs, content, touched, fs', content', touched') BY <1>2, ChangesNot
<1>5. cli[i].end = "closed"
  <2>1. cli[i].end # "open" BY <1>1, <1>2, <1>3, OfSession, HeadKinds DEF ServiceAtoms
  <2> QED BY <1>1, <2>1 DEF ServiceAtoms, Client
<1>6. SameBut(srv, srv', i) /\ srv'[i] = Sync!Ended
  <2>1. srv \in [Sessions -> Service] BY DEF SyncIs, SyncTyped
  <2> QED BY <1>2, <2>1, OneElse
<1>7. \A p : ~AtIt(srv[i], p) BY <1>2 DEF AtIt, Serving
<1> QED BY <1>2, <1>3, <1>4, <1>5, <1>6, <1>7, SyncEnds DEF HostSame

LEMMA SyncEof == ASSUME SyncIs, NEW i \in Sessions, Sync!ServeEof(i) PROVE SyncIs'
<1>1. ServiceAtoms(i) BY Typed
<1>2. /\ srv[i].at \in {"command", "data"} /\ up[i] = <<>> /\ cli[i].end = "closed" /\ HostSame
      /\ content' = content /\ touched' = touched /\ down' = down /\ up' = up
      /\ srv' = [srv EXCEPT ![i] = Sync!Ended] /\ unread' = unread \cup {i}
      /\ fs' = IF srv[i].at = "data" THEN Sync!Unlinked(srv[i].path) ELSE fs
  BY DEF Sync!ServeEof, Sync!hostVars, HostSame, Sync!Closed, Sync!Gone
<1>3. up'[i] = up[i] /\ SameBut(up, up', i) BY <1>2, UpSame
<1>4. SameBut(srv, srv', i) /\ srv'[i] = Sync!Ended
  <2>1. srv \in [Sessions -> Service] BY DEF SyncIs, SyncTyped
  <2> QED BY <1>2, <2>1, OneElse
<1>5. CASE srv[i].at = "command"
  <2>1. \A p : ~AtIt(srv[i], p) BY <1>5 DEF AtIt, Serving
  <2>2. fs' = fs BY <1>2, <1>5
  <2>3. Changes(i, fs, content, touched, fs', content', touched') BY <1>2, <2>2, ChangesNot
  <2> QED BY <1>2, <1>3, <1>4, <2>1, <2>2, <2>3, SyncEnds DEF HostSame
<1>6. CASE srv[i].at = "data"
  <2>1. PICK p : p = srv[i].path OBVIOUS
  <2>2. p \in Paths /\ AtIt(srv[i], p)
    <3>1. cli[i].todo # <<>> /\ p = cli[i].todo[1] BY <1>6, <2>1, OfSession DEF Talk, Chain, Serving
    <3> QED BY <1>1, <1>6, <2>1, <3>1, FirstTodo DEF ServiceAtoms, AtIt, Serving
  <2>3. i \in touched[p]
    <3>1. Sent(i, p, cli[i], srv[i], down[i], quiet[i], fs[p], content[p], touched[p]) BY <2>2, OfSession
    <3> QED BY <2>2, <3>1 DEF Sent
  <2>4. fs' = Sync!Unlinked(p) BY <1>2, <1>6, <2>1
  <2>5. /\ \A r \in Paths : r # p => fs'[r] = fs[r]
        /\ p \notin Sticky => fs'[p] = NoFile
        /\ fs'[p] \in {fs[p], NoFile} /\ fs' = [r \in Paths |-> fs'[r]]
    BY <2>2, <2>4, UnlinkedIs
  <2>6. Changed(i, p, fs, content, touched, fs', content', touched')
    BY <1>2, <2>2, <2>3, <2>5, FilesAre DEF Changed
  <2>7. Changes(i, fs, content, touched, fs', content', touched') BY <2>2, <2>6 DEF Changes
  <2>8. \A r \in Paths : fs'[r] = fs[r] \/ (AtIt(srv[i], r) /\ fs'[r] = NoFile) BY <2>2, <2>5
  <2>9. \A r \in Paths : AtIt(srv[i], r) /\ r \notin Sticky => fs'[r] = NoFile BY <2>1, <2>5 DEF AtIt
  <2> QED BY <1>2, <1>3, <1>4, <2>7, <2>8, <2>9, SyncEnds DEF HostSame
<1> QED BY <1>2, <1>5, <1>6

(* The list of the directory: SetToSeq has every path.                     *)
LEMMA CardIs ==
  ASSUME NEW S PROVE Sync!Cardinality(S) = Cardinality(S) /\ Sync!IsFiniteSet(S) = IsFiniteSet(S)
<1>1. Sync!Cardinality(S) = Cardinality(S) BY Zenon DEF Sync!Cardinality, Cardinality
<1>2. Sync!IsFiniteSet(S) = IsFiniteSet(S) BY DEF Sync!IsFiniteSet, IsFiniteSet
<1> QED BY <1>1, <1>2
LEMMA ListHasAll ==
  /\ Sync!SetToSeq(Paths) \in Seq(Paths)
  /\ \A p \in Paths : \E k \in 1..Len(Sync!SetToSeq(Paths)) : Sync!SetToSeq(Paths)[k] = p
<1>1. PICK n : n = Cardinality(Paths) OBVIOUS
<1>2. IsFiniteSet(Paths) BY PartsConstants, CardIs DEF Sync!SyncAssumption
<1>3. n \in Nat /\ ExistsBijection(1..n, Paths) BY <1>1, <1>2, FS_CardinalityType
<1>4. PICK g : g \in Bijection(1..n, Paths) BY <1>3 DEF ExistsBijection
<1>5. g \in [1..n -> Paths] /\ Sync!IsInjective(g) BY <1>4 DEF Bijection, Injection, IsInjective, Sync!IsInjective
<1>6. PICK f : f = Sync!SetToSeq(Paths) OBVIOUS
<1>7. f = CHOOSE h \in [1..n -> Paths] : Sync!IsInjective(h) BY <1>1, <1>6, CardIs DEF Sync!SetToSeq
<1>8. f \in [1..n -> Paths] /\ Sync!IsInjective(f) BY <1>5, <1>7
<1>9. f \in Injection(1..n, Paths) BY <1>8 DEF Injection, IsInjective, Sync!IsInjective
<1>10. Cardinality(1..n) = n
  <2>1. Cardinality(1..n) = IF 1 > n THEN 0 ELSE n - 1 + 1 BY <1>3, FS_Interval
  <2> QED BY <1>3, <2>1
<1>11. f \in Surjection(1..n, Paths) BY <1>1, <1>2, <1>9, <1>10, FS_Injection
<1>12. \A p \in Paths : \E k \in 1..n : f[k] = p BY <1>11 DEF Surjection
<1>13. f \in Seq(Paths) /\ Len(f) = n BY <1>3, <1>8
<1> QED BY <1>6, <1>12, <1>13

LEMMA SyncList == ASSUME SyncIs, NEW i \in Sessions, Sync!ServeList(i) PROVE SyncIs'
<1>1. PICK s2 : s2 = [Sync!Idle EXCEPT !.at = "list", !.left = Sync!SetToSeq(Paths)] OBVIOUS
<1>2. /\ srv[i].at = "command" /\ Sync!Takes(i, "LIST") /\ HostSame /\ Sync!Becomes(i, s2)
      /\ fs' = fs /\ content' = content /\ touched' = touched
  BY <1>1 DEF Sync!ServeList, Sync!deviceVars, Sync!hostVars, HostSame
<1>3. /\ Drops(up[i], up'[i]) /\ SameBut(up, up', i) /\ up[i][1].id = "LIST" BY <1>2, TakesIs
<1>4. Changes(i, fs, content, touched, fs', content', touched') BY <1>2, ChangesNot
<1>5. Mine(i, cli[i], srv[i], up[i], down[i], quiet[i], unread, copy[i], fs, content, touched) BY OfSession
<1>6. s2 \in Service /\ s2.at = "list" /\ s2.left = Sync!SetToSeq(Paths)
  BY <1>1, IdleIs, ListHasAll DEF Service, Sync!Idle
<1>7. \A p \in Paths : \E k \in 1..Len(s2.left) : s2.left[k] = p BY <1>6, ListHasAll
<1>8. Mine(i, cli[i], s2, up'[i], down[i], quiet[i], unread, copy[i], fs, content, touched)
  BY <1>2, <1>3, <1>5, <1>6, <1>7, MineList
<1> QED BY <1>2, <1>3, <1>4, <1>8, SyncBecomes

-----------------------------------------------------------------------------
(* The steps of a command.                                                 *)
ServiceSame == srv' = srv /\ fs' = fs /\ content' = content /\ touched' = touched /\ unread' = unread
LEMMA Still ==
  ASSUME SyncIs, NEW i
  PROVE  SameBut(up, up, i) /\ SameBut(down, down, i) /\ SameBut(quiet, quiet, i) /\ SameBut(copy, copy, i)
<1>1. /\ up \in [Sessions -> Seq(Message)] /\ down \in [Sessions -> Seq(Message)]
      /\ quiet \in [Sessions -> SUBSET Paths] /\ copy \in [Sessions -> [Paths -> Seq(Chunks)]]
  BY DEF SyncIs, SyncTyped
<1>2. SameBut(up, up, i) BY <1>1, NothingElse
<1>3. SameBut(down, down, i) BY <1>1, NothingElse
<1>4. SameBut(quiet, quiet, i) BY <1>1, NothingElse
<1>5. SameBut(copy, copy, i) BY <1>1, NothingElse
<1> QED BY <1>2, <1>3, <1>4, <1>5
LEMMA SyncTurns ==
  ASSUME SyncIs, NEW i \in Sessions, ServiceSame, NEW c2, cli' = [cli EXCEPT ![i] = c2],
         SameBut(up, up', i), SameBut(down, down', i), SameBut(quiet, quiet', i), SameBut(copy, copy', i),
         Mine(i, c2, srv[i], up'[i], down'[i], quiet'[i], unread, copy'[i], fs, content, touched)
  PROVE  SyncIs'
<1>1. cli \in [Sessions -> Client] BY DEF SyncIs, SyncTyped
<1>2. SameBut(cli, cli', i) /\ cli'[i] = c2 BY <1>1, OneElse
<1>3. Mine(i, cli'[i], srv[i], up'[i], down'[i], quiet'[i], unread', copy'[i], fs, content, touched)
  BY <1>2 DEF ServiceSame
<1> QED BY <1>2, <1>3, SyncCommands DEF ServiceSame
LEMMA SyncFails ==
  ASSUME SyncIs, NEW i \in Sessions, ServiceSame, NEW at \in {"failed", "hung"},
         cli' = [cli EXCEPT ![i] = Sync!End(i, at)], up' = up,
         SameBut(down, down', i), down'[i] \in Seq(Message), quiet' = quiet, copy' = copy
  PROVE  SyncIs'
<1>1. PICK c2 : c2 = [cli[i] EXCEPT !.at = at, !.end = "closed"] OBVIOUS
<1>2. Mine(i, cli[i], srv[i], up[i], down[i], quiet[i], unread, copy[i], fs, content, touched) BY OfSession
<1>3. Mine(i, c2, srv[i], up[i], down'[i], quiet[i], unread, copy[i], fs, content, touched)
  BY <1>1, <1>2, MineEnds
<1>4. cli' = [cli EXCEPT ![i] = c2] BY <1>1 DEF Sync!End
<1>5. Mine(i, c2, srv[i], up'[i], down'[i], quiet'[i], unread, copy'[i], fs, content, touched) BY <1>3
<1>6. SameBut(up, up', i) /\ SameBut(quiet, quiet', i) /\ SameBut(copy, copy', i) BY Still
<1> QED BY <1>4, <1>5, <1>6, SyncTurns
LEMMA SyncPuts ==
  ASSUME SyncIs, NEW i \in Sessions, ServiceSame, NEW m, NEW c2, Sync!Put(i, m, c2),
         i \notin unread => m \in Message,
         i \notin unread /\ Adds(up[i], up'[i], m) =>
            Mine(i, c2, srv[i], up'[i], down[i], quiet[i], unread, copy[i], fs, content, touched)
  PROVE  SyncIs'
<1>1. down' = down /\ quiet' = quiet /\ copy' = copy BY DEF Sync!Put
<1>2. SameBut(down, down', i) /\ SameBut(quiet, quiet', i) /\ SameBut(copy, copy', i) BY <1>1, Still
<1>3. up \in [Sessions -> Seq(Message)] /\ up[i] \in Seq(Message) /\ down[i] \in Seq(Message)
  BY DEF SyncIs, SyncTyped
<1>4. CASE i \in unread
  <2>1. cli' = [cli EXCEPT ![i] = Sync!End(i, "failed")] /\ up' = up BY <1>4 DEF Sync!Put, Sync!Fails
  <2> QED BY <1>1, <1>2, <1>3, <2>1, SyncFails
<1>5. CASE i \notin unread
  <2>1. up' = [up EXCEPT ![i] = Append(up[i], m)] /\ cli' = [cli EXCEPT ![i] = c2] BY <1>5 DEF Sync!Put
  <2>2. SameBut(up, up', i) /\ up'[i] = Append(up[i], m) BY <1>3, <2>1, OneElse
  <2>3. Adds(up[i], up'[i], m) BY <1>3, <1>5, <2>2, AppendAdds
  <2>4. Mine(i, c2, srv[i], up'[i], down'[i], quiet'[i], unread, copy'[i], fs, content, touched)
    BY <1>1, <1>5, <2>3
  <2> QED BY <1>2, <2>1, <2>2, <2>4, SyncTurns
<1> QED BY <1>4, <1>5
LEMMA GetsIs ==
  ASSUME SyncIs, NEW i \in Sessions, Sync!Gets(i)
  PROVE  /\ Drops(down[i], down'[i]) /\ SameBut(down, down', i) /\ up' = up /\ SameBut(up, up', i)
         /\ down[i] # <<>> /\ down[i][1] = Head(down[i]) /\ down[i][1] \in Message /\ down'[i] \in Seq(Message)
<1>1. down[i] \in Seq(Message) /\ down \in [Sessions -> Seq(Message)] BY DEF SyncIs, SyncTyped
<1>2. down[i] # <<>> /\ up' = up /\ down' = [down EXCEPT ![i] = Tail(down[i])] BY DEF Sync!Gets
<1>3. Drops(down[i], Tail(down[i])) /\ Head(down[i]) = down[i][1] /\ down[i][1] \in Message
  BY <1>1, <1>2, TailDrops
<1>4. SameBut(down, down', i) /\ down'[i] = Tail(down[i]) BY <1>1, <1>2, OneElse
<1>5. SameBut(up, up', i) BY <1>2, Still
<1>6. Drops(down[i], down'[i]) BY <1>3, <1>4
<1> QED BY <1>2, <1>3, <1>4, <1>5, <1>6 DEF Drops

LEMMA SyncStarts == ASSUME SyncIs, NEW i \in Sessions, ServiceSame, Sync!Start(i) PROVE SyncIs'
<1>1. PICK c : c = cli[i] OBVIOUS
<1>2. PICK at : at = Sync!FirstStep(c.op, c.ask) OBVIOUS
<1>3. PICK files : files = IF c.op = "pulldir" THEN <<>> ELSE c.todo OBVIOUS
<1>4. PICK c2 : c2 = [c EXCEPT !.at = at, !.todo = files] OBVIOUS
<1>5. c \in Client /\ cli \in [Sessions -> Client] BY <1>1 DEF SyncIs, SyncTyped
<1>6. c.at = "new" /\ c.op # "none" /\ up' = up /\ down' = down /\ quiet' = quiet /\ copy' = copy
  BY <1>1 DEF Sync!Start
<1>7. cli' = [cli EXCEPT ![i] = c2]
  <2>1. cli' = [cli EXCEPT ![i].at = at, ![i].todo = IF c.op = "pulldir" THEN <<>> ELSE @]
    BY <1>1, <1>2 DEF Sync!Start
  <2> QED BY <1>1, <1>3, <1>4, <1>5, <2>1 DEF Client
<1>8. Mine(i, c, srv[i], up[i], down[i], quiet[i], unread, copy[i], fs, content, touched) BY <1>1, OfSession
<1>9. c.ask = c.todo /\ (c.op \in {"push", "pull"} => c.ask # <<>>) BY <1>6, <1>8 DEF Mine, Talk, Kinds
<1>10. c.op \in {"push", "pushdir", "sync", "pull", "pulldir", "js"} BY <1>5, <1>6 DEF Client, Sync!Op
<1>11. \/ at = "ask" /\ c.op \in {"push", "pull", "sync"} /\ c.ask # <<>> /\ files = c.todo
       \/ at = "next" /\ c.op \in {"sync", "pushdir"} /\ files = c.todo
       \/ at = "list" /\ c.op = "pulldir" /\ files = <<>>
       \/ at = "wait-transport" /\ c.op = "js" /\ files = c.todo
  <2>1. CASE c.op \in {"push", "pull"}
    <3>1. at = "ask" BY Zenon, <1>2, <2>1 DEF Sync!FirstStep
    <3> QED BY <1>3, <1>9, <2>1, <3>1
  <2>2. CASE c.op = "sync"
    <3>1. at = IF c.ask = <<>> THEN "next" ELSE "ask" BY Zenon, <1>2, <2>2 DEF Sync!FirstStep
    <3> QED BY <1>3, <2>2, <3>1
  <2>3. CASE c.op = "pushdir"
    <3>1. at = "next" BY Zenon, <1>2, <2>3 DEF Sync!FirstStep
    <3> QED BY <1>3, <2>3, <3>1
  <2>4. CASE c.op = "pulldir"
    <3>1. at = "list" BY Zenon, <1>2, <2>4 DEF Sync!FirstStep
    <3> QED BY <1>3, <2>4, <3>1
  <2>5. CASE c.op = "js"
    <3>1. at = "wait-transport" BY Zenon, <1>2, <2>5 DEF Sync!FirstStep
    <3> QED BY <1>3, <2>5, <3>1
  <2> QED BY <1>10, <2>1, <2>2, <2>3, <2>4, <2>5
<1>12. Mine(i, c2, srv[i], up[i], down[i], quiet[i], unread, copy[i], fs, content, touched)
  BY <1>4, <1>6, <1>8, <1>11, MineStart
<1>13. Mine(i, c2, srv[i], up'[i], down'[i], quiet'[i], unread, copy'[i], fs, content, touched) BY <1>6, <1>12
<1> QED BY <1>6, <1>7, <1>13, Still, SyncTurns

LEMMA SyncAsks == ASSUME SyncIs, NEW i \in Sessions, ServiceSame, Sync!Ask(i) PROVE SyncIs'
<1>1. PICK c : c = cli[i] OBVIOUS
<1>2. PICK at : at = IF Tail(c.ask) = <<>> THEN "answer" ELSE "ask" OBVIOUS
<1>3. PICK c2 : c2 = [c EXCEPT !.ask = Tail(@), !.asked = @ + 1, !.at = at] OBVIOUS
<1>4. PICK m : m = Sync!Msg("STAT", Head(c.ask), <<>>) OBVIOUS
<1>5. c.at = "ask" /\ Sync!Put(i, m, c2) BY <1>1, <1>2, <1>3, <1>4 DEF Sync!Ask
<1>6. c \in Client /\ c.ask \in Seq(Paths) BY <1>1 DEF SyncIs, SyncTyped, Client
<1>7. Mine(i, c, srv[i], up[i], down[i], quiet[i], unread, copy[i], fs, content, touched) BY <1>1, OfSession
<1>8. c.end \in {"open", "closed"} BY <1>6 DEF Client
<1>9. i \notin unread => c.ask # <<>>
  <2>1. i \notin unread => c.end = "open" BY <1>5, <1>7, <1>8 DEF Mine, Talk, Parted, Settled
  <2> QED BY <1>5, <1>7, <2>1 DEF Mine, Talk, Phase, Asking
<1>10. ASSUME i \notin unread PROVE m \in Message /\ m.id = "STAT" /\ m.path \in Paths
  <2>1. Head(c.ask) \in Paths BY <1>6, <1>9, <1>10
  <2>2. <<>> \in Seq(Chunks) OBVIOUS
  <2> QED BY <1>4, <2>1, <2>2 DEF Sync!Msg, Message
<1>11. ASSUME i \notin unread /\ Adds(up[i], up'[i], m)
       PROVE  Mine(i, c2, srv[i], up'[i], down[i], quiet[i], unread, copy[i], fs, content, touched)
  BY <1>2, <1>3, <1>5, <1>7, <1>10, <1>11, MineAsk
<1> QED BY <1>5, <1>10, <1>11, SyncPuts

LEMMA SyncAnswers == ASSUME SyncIs, NEW i \in Sessions, ServiceSame, Sync!Answer(i) PROVE SyncIs'
<1>1. PICK c : c = cli[i] OBVIOUS
<1>2. PICK at : at = IF c.asked = 1 THEN "next" ELSE "answer" OBVIOUS
<1>3. PICK a : a = down[i][1] OBVIOUS
<1>4. c.at = "answer" /\ Sync!Gets(i) /\ quiet' = quiet /\ copy' = copy BY <1>1 DEF Sync!Answer
<1>5. /\ Drops(down[i], down'[i]) /\ SameBut(down, down', i) /\ up' = up /\ SameBut(up, up', i)
      /\ a = Head(down[i]) /\ down'[i] \in Seq(Message)
  BY <1>3, <1>4, GetsIs
<1>6. c \in Client BY <1>1 DEF SyncIs, SyncTyped
<1>7. Mine(i, c, srv[i], up[i], down[i], quiet[i], unread, copy[i], fs, content, touched) BY <1>1, OfSession
<1>8. SameBut(quiet, quiet', i) /\ SameBut(copy, copy', i) BY <1>4, Still
<1>9. \/ cli' = [cli EXCEPT ![i] = Sync!End(i, "failed")]
      \/ \E same : /\ same = c.same \/ (c.op = "sync" /\ same = c.same \cup {a.path})
                   /\ cli' = [cli EXCEPT ![i] = [c EXCEPT !.asked = @ - 1, !.at = at, !.same = same]]
  <2>1. PICK d : d = [c EXCEPT !.asked = @ - 1, !.at = at] OBVIOUS
  <2>2. \/ cli' = [cli EXCEPT ![i] = Sync!End(i, "failed")]
        \/ cli' = [cli EXCEPT ![i] = d]
        \/ c.op = "sync" /\ cli' = [cli EXCEPT ![i] = [d EXCEPT !.same = @ \cup {a.path}]]
    BY <1>1, <1>2, <1>5, <2>1 DEF Sync!Answer, Sync!Fails
  <2>3. d = [c EXCEPT !.asked = @ - 1, !.at = at, !.same = c.same] BY <1>6, <2>1 DEF Client
  <2>4. [d EXCEPT !.same = @ \cup {a.path}]
        = [c EXCEPT !.asked = @ - 1, !.at = at, !.same = c.same \cup {a.path}] BY <1>6, <2>1 DEF Client
  <2> QED BY <2>2, <2>3, <2>4
<1>10. CASE cli' = [cli EXCEPT ![i] = Sync!End(i, "failed")]
  BY <1>4, <1>5, <1>10, SyncFails
<1>11. ASSUME NEW same, same = c.same \/ (c.op = "sync" /\ same = c.same \cup {a.path}),
              cli' = [cli EXCEPT ![i] = [c EXCEPT !.asked = @ - 1, !.at = at, !.same = same]]
       PROVE  SyncIs'
  <2>1. PICK c2 : c2 = [c EXCEPT !.asked = @ - 1, !.at = at, !.same = same] OBVIOUS
  <2>2. Mine(i, c2, srv[i], up[i], down'[i], quiet[i], unread, copy[i], fs, content, touched)
    BY <1>2, <1>3, <1>4, <1>5, <1>7, <1>11, <2>1, MineAnswer
  <2>3. Mine(i, c2, srv[i], up'[i], down'[i], quiet'[i], unread, copy'[i], fs, content, touched)
    BY <1>4, <1>5, <2>2
  <2> QED BY <1>5, <1>8, <1>11, <2>1, <2>3, SyncTurns
<1> QED BY <1>9, <1>10, <1>11

LEMMA SyncLists == ASSUME SyncIs, NEW i \in Sessions, ServiceSame, Sync!List(i) PROVE SyncIs'
<1>1. PICK c : c = cli[i] OBVIOUS
<1>2. PICK c2 : c2 = [c EXCEPT !.at = "entries"] OBVIOUS
<1>3. PICK m : m = Sync!Msg("LIST", NoFile, <<>>) OBVIOUS
<1>4. c.at = "list" /\ Sync!Put(i, m, c2) BY <1>1, <1>2, <1>3 DEF Sync!List
<1>5. Mine(i, c, srv[i], up[i], down[i], quiet[i], unread, copy[i], fs, content, touched) BY <1>1, OfSession
<1>6. <<>> \in Seq(Chunks) OBVIOUS
<1>7. m \in Message /\ m.id = "LIST" BY <1>3, <1>6 DEF Sync!Msg, Message
<1>8. ASSUME i \notin unread /\ Adds(up[i], up'[i], m)
      PROVE  Mine(i, c2, srv[i], up'[i], down[i], quiet[i], unread, copy[i], fs, content, touched)
  BY <1>2, <1>4, <1>5, <1>7, <1>8, MineLists
<1> QED BY <1>4, <1>7, <1>8, SyncPuts

LEMMA SyncEntries == ASSUME SyncIs, NEW i \in Sessions, ServiceSame, Sync!Entry(i) PROVE SyncIs'
<1>1. PICK c : c = cli[i] OBVIOUS
<1>2. PICK a : a = down[i][1] OBVIOUS
<1>3. PICK c2 : c2 = IF a.id = "DENT" THEN [c EXCEPT !.todo = Append(@, a.path), !.files = @ \cup {a.path}]
                                      ELSE [c EXCEPT !.at = "next"] OBVIOUS
<1>4. c.at = "entries" /\ Sync!Gets(i) /\ quiet' = quiet /\ copy' = copy BY <1>1 DEF Sync!Entry
<1>5. /\ Drops(down[i], down'[i]) /\ SameBut(down, down', i) /\ up' = up /\ SameBut(up, up', i)
      /\ a = Head(down[i])
  BY <1>2, <1>4, GetsIs
<1>6. cli' = [cli EXCEPT ![i] = c2] BY <1>1, <1>3, <1>5 DEF Sync!Entry
<1>7. Mine(i, c, srv[i], up[i], down[i], quiet[i], unread, copy[i], fs, content, touched) BY <1>1, OfSession
<1>8. \A r \in Paths : File(fs[r], content[r], touched[r]) BY FilesAre
<1>9. Mine(i, c2, srv[i], up[i], down'[i], quiet[i], unread, copy[i], fs, content, touched)
  BY <1>2, <1>3, <1>4, <1>5, <1>7, <1>8, MineEntryRead
<1>10. Mine(i, c2, srv[i], up'[i], down'[i], quiet'[i], unread, copy'[i], fs, content, touched)
  BY <1>4, <1>5, <1>9
<1>11. SameBut(quiet, quiet', i) /\ SameBut(copy, copy', i) BY <1>4, Still
<1> QED BY <1>5, <1>6, <1>10, <1>11, SyncTurns

(* The next file, or the end.                                              *)
LEMMA SyncNext == ASSUME SyncIs, NEW i \in Sessions, ServiceSame, Sync!NextFile(i) PROVE SyncIs'
<1>1. PICK c : c = cli[i] OBVIOUS
<1>2. c.at = "next" BY <1>1 DEF Sync!NextFile
<1>3. c \in Client /\ c.todo \in Seq(Paths) /\ cli \in [Sessions -> Client] BY <1>1 DEF SyncIs, SyncTyped, Client
<1>4. Mine(i, c, srv[i], up[i], down[i], quiet[i], unread, copy[i], fs, content, touched) BY <1>1, OfSession
<1>5. up \in [Sessions -> Seq(Message)] /\ up[i] \in Seq(Message) BY DEF SyncIs, SyncTyped
<1>6. <<>> \in Seq(Chunks) OBVIOUS
<1>7. CASE c.todo = <<>>
  <2>1. PICK c2 : c2 = [c EXCEPT !.at = "ok", !.end = "closed"] OBVIOUS
  <2>2. PICK m : m = Sync!Msg("QUIT", NoFile, <<>>) OBVIOUS
  <2>3. m \in Message /\ m.id = "QUIT" BY <1>6, <2>2 DEF Sync!Msg, Message
  <2>4. Sync!Quit(i) BY <1>1, <1>7 DEF Sync!NextFile
  <2>5. cli' = [cli EXCEPT ![i] = c2] /\ down' = down /\ quiet' = quiet /\ copy' = copy
    BY <1>1, <2>1, <2>4 DEF Sync!Quit, Sync!End
  <2>6. up' = up \/ (i \notin unread /\ up' = [up EXCEPT ![i] = Append(up[i], m)])
    BY <2>2, <2>4 DEF Sync!Quit
  <2>7. SameBut(up, up', i) /\ (up'[i] = up[i] \/ (i \notin unread /\ Adds(up[i], up'[i], m)))
    <3>1. CASE up' = up BY <3>1, Still
    <3>2. CASE i \notin unread /\ up' = [up EXCEPT ![i] = Append(up[i], m)]
      <4>1. SameBut(up, up', i) /\ up'[i] = Append(up[i], m) BY <1>5, <3>2, OneElse
      <4> QED BY <1>5, <2>3, <3>2, <4>1, AppendAdds
    <3> QED BY <2>6, <3>1, <3>2
  <2>8. Mine(i, c2, srv[i], up'[i], down[i], quiet[i], unread, copy[i], fs, content, touched)
    BY <1>2, <1>4, <1>7, <2>1, <2>3, <2>7, MineQuit
  <2>9. Mine(i, c2, srv[i], up'[i], down'[i], quiet'[i], unread, copy'[i], fs, content, touched) BY <2>5, <2>8
  <2> QED BY <2>5, <2>7, <2>9, Still, SyncTurns
<1>8. ASSUME c.todo # <<>> PROVE c.todo[1] \in Paths /\ Head(c.todo) = c.todo[1] BY <1>3, <1>8
<1>9. CASE c.todo # <<>> /\ c.todo[1] \in c.same
  <2>1. PICK c2 : c2 = [c EXCEPT !.todo = Tail(@)] OBVIOUS
  <2>2. cli' = [cli EXCEPT ![i].todo = Tail(@)] /\ up' = up /\ down' = down /\ quiet' = quiet /\ copy' = copy
    BY <1>1, <1>8, <1>9 DEF Sync!NextFile
  <2>3. cli' = [cli EXCEPT ![i] = c2] BY <1>1, <1>3, <2>1, <2>2
  <2>4. Mine(i, c2, srv[i], up[i], down[i], quiet[i], unread, copy[i], fs, content, touched)
    BY <1>2, <1>4, <1>9, <2>1, MineSkip
  <2>5. Mine(i, c2, srv[i], up'[i], down'[i], quiet'[i], unread, copy'[i], fs, content, touched) BY <2>2, <2>4
  <2> QED BY <2>2, <2>3, <2>5, Still, SyncTurns
<1>10. ASSUME c.todo # <<>>, NEW at, NEW id, NEW c2, c2 = [c EXCEPT !.at = at, !.n = 0],
              \/ at = "receive" /\ Pulling(c) /\ id = "RECV"
              \/ at = "data" /\ ~Pulling(c) /\ id = "SEND",
              Sync!Put(i, Sync!Msg(id, c.todo[1], <<>>), c2)
       PROVE  SyncIs'
  <2>1. PICK m : m = Sync!Msg(id, c.todo[1], <<>>) OBVIOUS
  <2>2. m \in Message /\ m.id = id /\ m.path = c.todo[1] BY <1>6, <1>8, <1>10, <2>1 DEF Sync!Msg, Message
  <2>3. ASSUME i \notin unread /\ Adds(up[i], up'[i], m)
        PROVE  Mine(i, c2, srv[i], up'[i], down[i], quiet[i], unread, copy[i], fs, content, touched)
    BY <1>2, <1>4, <1>10, <2>2, <2>3, MineAsksFile
  <2>4. Sync!Put(i, m, c2) BY <1>10, <2>1
  <2> QED BY <2>2, <2>3, <2>4, SyncPuts
<1>11. CASE c.todo # <<>> /\ c.todo[1] \notin c.same
  <2>1. \/ Pulling(c) /\ Sync!Put(i, Sync!Msg("RECV", c.todo[1], <<>>), [c EXCEPT !.at = "receive", !.n = 0])
        \/ ~Pulling(c) /\ Sync!Put(i, Sync!Msg("SEND", c.todo[1], <<>>), [c EXCEPT !.at = "data", !.n = 0])
    BY <1>1, <1>8, <1>11 DEF Sync!NextFile, Sync!Pulls, Pulling
  <2> QED BY <1>10, <1>11, <2>1
<1> QED BY <1>7, <1>9, <1>11

(* The chunks of a file, and their end.                                    *)
LEMMA SyncPutsData == ASSUME SyncIs, NEW i \in Sessions, ServiceSame, Sync!PutData(i) PROVE SyncIs'
<1>1. PICK c : c = cli[i] OBVIOUS
<1>2. c.at = "data" BY <1>1 DEF Sync!PutData
<1>3. c \in Client /\ c.n \in 0..Size /\ c.todo \in Seq(Paths) /\ cli \in [Sessions -> Client]
  BY <1>1 DEF SyncIs, SyncTyped, Client
<1>4. Mine(i, c, srv[i], up[i], down[i], quiet[i], unread, copy[i], fs, content, touched) BY <1>1, OfSession
<1>5. c.todo # <<>> BY <1>2, <1>4 DEF Mine, Talk, Kinds, Sends
<1>6. c.todo[1] \in Paths /\ Head(c.todo) = c.todo[1] BY <1>3, <1>5
<1>7. PICK p : p = c.todo[1] OBVIOUS
<1>8. \/ /\ i \in unread /\ cli' = [cli EXCEPT ![i].n = Size] /\ up' = up /\ down' = down /\ quiet' = quiet /\ copy' = copy
      \/ c.n < Size /\ Sync!Put(i, Sync!Msg("DATA", p, <<Sync!Local(i)[c.n + 1]>>), [c EXCEPT !.n = @ + 1])
      \/ /\ cli' = [cli EXCEPT ![i].n = Size] /\ quiet' = [quiet EXCEPT ![i] = quiet[i] \cup {p}]
         /\ up' = up /\ down' = down /\ copy' = copy
      \/ c.n = Size /\ Sync!Put(i, Sync!Msg("DONE", p, <<>>), [c EXCEPT !.at = "status"])
  BY <1>1, <1>6, <1>7 DEF Sync!PutData
<1>9. ASSUME cli' = [cli EXCEPT ![i].n = Size], up' = up, down' = down, copy' = copy,
             \/ i \in unread /\ quiet' = quiet
             \/ quiet' = [quiet EXCEPT ![i] = quiet[i] \cup {p}]
      PROVE  SyncIs'
  <2>1. PICK c2 : c2 = [c EXCEPT !.n = Size] OBVIOUS
  <2>2. cli' = [cli EXCEPT ![i] = c2] BY <1>1, <1>3, <1>9, <2>1
  <2>3. SameBut(quiet, quiet', i) /\ ((quiet'[i] = quiet[i] /\ i \in unread) \/ quiet'[i] = quiet[i] \cup {p})
    <3>1. CASE i \in unread /\ quiet' = quiet BY <3>1, Still
    <3>2. CASE quiet' = [quiet EXCEPT ![i] = quiet[i] \cup {p}]
      <4>1. quiet \in [Sessions -> SUBSET Paths] BY DEF SyncIs, SyncTyped
      <4> QED BY <3>2, <4>1, OneElse
    <3> QED BY <1>9, <3>1, <3>2
  <2>4. Mine(i, c2, srv[i], up[i], down[i], quiet'[i], unread, copy[i], fs, content, touched)
    BY <1>2, <1>4, <1>7, <2>1, <2>3, MineStops
  <2>5. Mine(i, c2, srv[i], up'[i], down'[i], quiet'[i], unread, copy'[i], fs, content, touched) BY <1>9, <2>4
  <2> QED BY <1>9, <2>2, <2>3, <2>5, Still, SyncTurns
<1>10. ASSUME NEW m \in Message, m.path = p, NEW c2, Sync!Put(i, m, c2),
              \/ /\ c.n < Size /\ m.id = "DATA" /\ m.k = <<<<i, c.n + 1>>>>
                 /\ c2 = [c EXCEPT !.n = @ + 1]
              \/ c.n = Size /\ m.id = "DONE" /\ c2 = [c EXCEPT !.at = "status"]
       PROVE  SyncIs'
  <2>1. ASSUME i \notin unread /\ Adds(up[i], up'[i], m)
        PROVE  Mine(i, c2, srv[i], up'[i], down[i], quiet[i], unread, copy[i], fs, content, touched)
    BY <1>2, <1>4, <1>7, <1>10, <2>1, MinePuts
  <2> QED BY <1>10, <2>1, SyncPuts
<1>11. CASE c.n < Size /\ Sync!Put(i, Sync!Msg("DATA", p, <<Sync!Local(i)[c.n + 1]>>), [c EXCEPT !.n = @ + 1])
  <2>1. PICK m : m = Sync!Msg("DATA", p, <<Sync!Local(i)[c.n + 1]>>) OBVIOUS
  <2>2. Sync!Local(i)[c.n + 1] = <<i, c.n + 1>> /\ c.n + 1 \in 1..Size
    BY <1>3, <1>11, SyncNames DEF Sync!Local
  <2>3. <<<<i, c.n + 1>>>> \in Seq(Chunks)
    <3>1. <<i, c.n + 1>> \in Chunks BY <2>2 DEF Chunks, SyncObjects
    <3> QED BY <3>1
  <2>4. m \in Message /\ m.path = p /\ m.id = "DATA" /\ m.k = <<<<i, c.n + 1>>>>
    BY <1>6, <1>7, <2>1, <2>2, <2>3 DEF Sync!Msg, Message
  <2> QED BY <1>10, <1>11, <2>1, <2>4
<1>12. CASE c.n = Size /\ Sync!Put(i, Sync!Msg("DONE", p, <<>>), [c EXCEPT !.at = "status"])
  <2>1. PICK m : m = Sync!Msg("DONE", p, <<>>) OBVIOUS
  <2>2. <<>> \in Seq(Chunks) OBVIOUS
  <2>3. m \in Message /\ m.path = p /\ m.id = "DONE" BY <1>6, <1>7, <2>1, <2>2 DEF Sync!Msg, Message
  <2> QED BY <1>10, <1>12, <2>1, <2>3
<1> QED BY <1>8, <1>9, <1>11, <1>12

LEMMA SyncStatus == ASSUME SyncIs, NEW i \in Sessions, ServiceSame, Sync!GetStatus(i) PROVE SyncIs'
<1>1. PICK c : c = cli[i] OBVIOUS
<1>2. c.at = "status" /\ Sync!Gets(i) /\ quiet' = quiet /\ copy' = copy BY <1>1 DEF Sync!GetStatus
<1>3. /\ Drops(down[i], down'[i]) /\ SameBut(down, down', i) /\ up' = up /\ SameBut(up, up', i)
      /\ down[i][1] = Head(down[i]) /\ down'[i] \in Seq(Message)
  BY <1>2, GetsIs
<1>4. Mine(i, c, srv[i], up[i], down[i], quiet[i], unread, copy[i], fs, content, touched) BY <1>1, OfSession
<1>5. c \in Client /\ cli \in [Sessions -> Client] BY <1>1 DEF SyncIs, SyncTyped
<1>6. CASE down[i][1].id = "OKAY"
  <2>1. PICK c2 : c2 = [c EXCEPT !.at = "next", !.todo = Tail(@)] OBVIOUS
  <2>2. cli' = [cli EXCEPT ![i] = c2]
    <3>1. cli' = [cli EXCEPT ![i].at = "next", ![i].todo = Tail(@)] BY <1>3, <1>6 DEF Sync!GetStatus
    <3> QED BY <1>1, <1>5, <2>1, <3>1 DEF Client
  <2>3. Mine(i, c2, srv[i], up[i], down'[i], quiet[i], unread, copy[i], fs, content, touched)
    BY <1>2, <1>3, <1>4, <1>6, <2>1, MineOkay
  <2>4. Mine(i, c2, srv[i], up'[i], down'[i], quiet'[i], unread, copy'[i], fs, content, touched)
    BY <1>2, <1>3, <2>3
  <2> QED BY <1>2, <1>3, <2>2, <2>4, Still, SyncTurns
<1>7. CASE down[i][1].id # "OKAY"
  <2>1. cli' = [cli EXCEPT ![i] = Sync!End(i, "failed")] BY <1>3, <1>7 DEF Sync!GetStatus, Sync!Fails
  <2> QED BY <1>2, <1>3, <2>1, SyncFails
<1> QED BY <1>6, <1>7

LEMMA SyncEofs == ASSUME SyncIs, NEW i \in Sessions, ServiceSame, Sync!Eof(i) PROVE SyncIs'
<1>1. /\ cli' = [cli EXCEPT ![i] = Sync!End(i, "failed")] /\ up' = up /\ down' = down
      /\ quiet' = quiet /\ copy' = copy
  BY DEF Sync!Eof, Sync!Fails
<1>2. SameBut(down, down', i) /\ down'[i] \in Seq(Message)
  <2>1. down[i] \in Seq(Message) BY DEF SyncIs, SyncTyped
  <2> QED BY <1>1, <2>1, Still
<1> QED BY <1>1, <1>2, SyncFails

LEMMA SyncReceives == ASSUME SyncIs, NEW i \in Sessions, ServiceSame, Sync!Receive(i) PROVE SyncIs'
<1>1. PICK c : c = cli[i] OBVIOUS
<1>2. PICK a : a = down[i][1] OBVIOUS
<1>3. c.at = "receive" /\ Sync!Gets(i) BY <1>1 DEF Sync!Receive
<1>4. /\ Drops(down[i], down'[i]) /\ SameBut(down, down', i) /\ up' = up /\ SameBut(up, up', i)
      /\ a = Head(down[i]) /\ down'[i] \in Seq(Message) /\ a \in Message /\ down[i] # <<>>
  BY <1>2, <1>3, GetsIs
<1>5. Mine(i, c, srv[i], up[i], down[i], quiet[i], unread, copy[i], fs, content, touched) BY <1>1, OfSession
<1>6. c \in Client /\ c.todo \in Seq(Paths) /\ cli \in [Sessions -> Client] BY <1>1 DEF SyncIs, SyncTyped, Client
<1>7. c.todo # <<>>
  <2>1. c.end = "open" BY <1>3, <1>4, <1>5, <1>6 DEF Mine, Talk, Parted, Settled, Client
  <2> QED BY <1>3, <1>5, <2>1 DEF Mine, Talk, Phase
<1>8. PICK p : p = c.todo[1] OBVIOUS
<1>9. p \in Paths /\ p = Head(c.todo) BY <1>6, <1>7, <1>8
<1>10. PICK y : y = copy[i] OBVIOUS
<1>11. y \in [Paths -> Seq(Chunks)] /\ copy \in [Sessions -> [Paths -> Seq(Chunks)]]
       /\ quiet \in [Sessions -> SUBSET Paths]
  BY <1>10 DEF SyncIs, SyncTyped
<1>12. ASSUME NEW v \in Seq(Chunks), copy' = [copy EXCEPT ![i][p] = v]
       PROVE  /\ SameBut(copy, copy', i) /\ copy'[i] \in [Paths -> Seq(Chunks)] /\ copy'[i][p] = v
              /\ \A r \in Paths : r # p => copy'[i][r] = y[r]
  <2>1. copy' = [copy EXCEPT ![i] = [y EXCEPT ![p] = v]] BY <1>10, <1>12
  <2>2. SameBut(copy, copy', i) /\ copy'[i] = [y EXCEPT ![p] = v] BY <1>11, <2>1, OneElse
  <2> QED BY <1>9, <1>11, <2>2
<1>13. PICK c3 : c3 = [c EXCEPT !.at = "next", !.todo = Tail(@)] OBVIOUS
<1>14. \/ /\ a.id = "DATA" /\ cli' = [cli EXCEPT ![i].n = 1] /\ quiet' = quiet
          /\ copy' = [copy EXCEPT ![i][p] = IF c.n = 0 THEN a.k ELSE @ \o a.k]
       \/ /\ a.id = "DONE" /\ cli' = [cli EXCEPT ![i] = c3] /\ quiet' = quiet
          /\ copy' = [copy EXCEPT ![i][p] = IF c.n = 0 THEN <<>> ELSE @]
       \/ /\ a.id = "FAIL" /\ cli' = [cli EXCEPT ![i] = c3] /\ quiet' = [quiet EXCEPT ![i] = @ \cup {p}]
          /\ copy' = [copy EXCEPT ![i][p] = <<>>]
       \/ cli' = [cli EXCEPT ![i] = Sync!End(i, "failed")] /\ copy' = copy /\ quiet' = quiet
  BY <1>1, <1>4, <1>9, <1>13 DEF Sync!Receive, Sync!Fails
<1>15. CASE /\ a.id = "DATA" /\ cli' = [cli EXCEPT ![i].n = 1] /\ quiet' = quiet
            /\ copy' = [copy EXCEPT ![i][p] = IF c.n = 0 THEN a.k ELSE @ \o a.k]
  <2>1. PICK c2 : c2 = [c EXCEPT !.n = 1] OBVIOUS
  <2>2. PICK v : v = IF c.n = 0 THEN a.k ELSE y[p] \o a.k OBVIOUS
  <2>3. cli' = [cli EXCEPT ![i] = c2] BY <1>1, <1>6, <1>15, <2>1
  <2>4. v \in Seq(Chunks)
    <3>1. a.k \in Seq(Chunks) BY <1>4 DEF Message
    <3> QED BY <1>9, <1>11, <2>2, <3>1
  <2>5. copy' = [copy EXCEPT ![i][p] = v] BY <1>10, <1>15, <2>2
  <2>6. /\ SameBut(copy, copy', i) /\ copy'[i] \in [Paths -> Seq(Chunks)] /\ copy'[i][p] = v
        /\ \A r \in Paths : r # p => copy'[i][r] = y[r] BY <1>12, <2>4, <2>5
  <2>7. Mine(i, c2, srv[i], up[i], down'[i], quiet[i], unread, copy'[i], fs, content, touched)
    <3>1. down[i][1].id = "DATA" /\ Drops(down[i], down'[i]) BY <1>2, <1>4, <1>15
    <3>2. copy'[i] \in [Paths -> Seq(Chunks)] BY <2>6
    <3>3. \A r \in Paths : r # c.todo[1] => copy'[i][r] = copy[i][r] BY <1>8, <1>10, <2>6
    <3>4. copy'[i][c.todo[1]] = IF c.n = 0 THEN down[i][1].k ELSE copy[i][c.todo[1]] \o down[i][1].k
      BY <1>2, <1>8, <1>10, <2>2, <2>6
    <3> QED BY ONLY <1>3, <1>5, <2>1, <3>1, <3>2, <3>3, <3>4, MineChunk, i \in Sessions
  <2>8. Mine(i, c2, srv[i], up'[i], down'[i], quiet'[i], unread, copy'[i], fs, content, touched)
    BY <1>4, <1>15, <2>7
  <2> QED BY <1>4, <1>15, <2>3, <2>6, <2>8, Still, SyncTurns
<1>16. ASSUME cli' = [cli EXCEPT ![i] = c3], NEW v \in Seq(Chunks), copy' = [copy EXCEPT ![i][p] = v],
              \/ a.id = "DONE" /\ quiet' = quiet /\ v = IF c.n = 0 THEN <<>> ELSE y[p]
              \/ a.id = "FAIL" /\ quiet' = [quiet EXCEPT ![i] = @ \cup {p}]
       PROVE  SyncIs'
  <2>1. /\ SameBut(copy, copy', i) /\ copy'[i] \in [Paths -> Seq(Chunks)] /\ copy'[i][p] = v
        /\ \A r \in Paths : r # p => copy'[i][r] = y[r] BY <1>12, <1>16
  <2>2. /\ SameBut(quiet, quiet', i)
        /\ \/ a.id = "DONE" /\ quiet'[i] = quiet[i] /\ v = IF c.n = 0 THEN <<>> ELSE y[p]
           \/ a.id = "FAIL" /\ quiet'[i] = quiet[i] \cup {p}
    <3>1. CASE a.id = "DONE" /\ quiet' = quiet /\ v = IF c.n = 0 THEN <<>> ELSE y[p] BY <3>1, Still
    <3>2. CASE a.id = "FAIL" /\ quiet' = [quiet EXCEPT ![i] = @ \cup {p}] BY <1>11, <3>2, OneElse
    <3> QED BY <1>16, <3>1, <3>2
  <2>3. \A r \in Paths : File(fs[r], content[r], touched[r]) BY FilesAre
  <2>4. Mine(i, c3, srv[i], up[i], down'[i], quiet'[i], unread, copy'[i], fs, content, touched)
    <3>1. Drops(down[i], down'[i]) BY <1>4
    <3>2. copy'[i] \in [Paths -> Seq(Chunks)] BY <2>1
    <3>3. FileOver(c, down[i][1].id, quiet[i], copy[i], quiet'[i], copy'[i])
      BY <1>2, <1>8, <1>10, <2>1, <2>2 DEF FileOver
    <3> QED BY ONLY <1>3, <1>5, <1>13, <2>3, <3>1, <3>2, <3>3, MineReceived, i \in Sessions
  <2>5. Mine(i, c3, srv[i], up'[i], down'[i], quiet'[i], unread, copy'[i], fs, content, touched)
    BY <1>4, <2>4
  <2> QED BY <1>4, <1>16, <2>1, <2>2, <2>5, SyncTurns
<1>17. CASE /\ a.id = "DONE" /\ cli' = [cli EXCEPT ![i] = c3] /\ quiet' = quiet
            /\ copy' = [copy EXCEPT ![i][p] = IF c.n = 0 THEN <<>> ELSE @]
  <2>1. PICK v : v = IF c.n = 0 THEN <<>> ELSE y[p] OBVIOUS
  <2>2. <<>> \in Seq(Chunks) OBVIOUS
  <2>3. v \in Seq(Chunks) BY <1>9, <1>11, <2>1, <2>2
  <2>4. copy' = [copy EXCEPT ![i][p] = v] BY <1>10, <1>17, <2>1
  <2> QED BY <1>16, <1>17, <2>1, <2>3, <2>4
<1>18. CASE /\ a.id = "FAIL" /\ cli' = [cli EXCEPT ![i] = c3] /\ quiet' = [quiet EXCEPT ![i] = @ \cup {p}]
            /\ copy' = [copy EXCEPT ![i][p] = <<>>]
  <2>1. <<>> \in Seq(Chunks) OBVIOUS
  <2> QED BY <1>16, <1>18, <2>1
<1>19. CASE cli' = [cli EXCEPT ![i] = Sync!End(i, "failed")] /\ copy' = copy /\ quiet' = quiet
  BY <1>4, <1>19, SyncFails
<1> QED BY <1>14, <1>15, <1>17, <1>18, <1>19

(* pushFile of the add-on.                                                 *)
Batch(i, p, n) ==
  <<Sync!Msg("SEND", p, <<>>)>> \o [k \in 1..n |-> Sync!Msg("DATA", p, <<Sync!Local(i)[k]>>)]
LEMMA SyncJsSends ==
  ASSUME SyncIs, NEW i \in Sessions, ServiceSame, i \notin unread, cli[i].at = "wait-sync",
         NEW n \in Nat, NEW at, NEW u2,
         \/ /\ at = "wait-done" /\ n = Size
            /\ u2 = Append(Batch(i, cli[i].todo[1], n), Sync!Msg("DONE", cli[i].todo[1], <<>>))
         \/ at = "threw" /\ n = Size - 1 /\ u2 = Batch(i, cli[i].todo[1], n),
         cli' = [cli EXCEPT ![i].at = at], up' = [up EXCEPT ![i] = u2],
         down' = down /\ quiet' = quiet /\ copy' = copy
  PROVE  SyncIs'
<1>1. PICK c : c = cli[i] OBVIOUS
<1>2. PICK c2 : c2 = [c EXCEPT !.at = at] OBVIOUS
<1>3. c \in Client /\ c.todo \in Seq(Paths) /\ cli \in [Sessions -> Client] /\ up \in [Sessions -> Seq(Message)]
  BY <1>1 DEF SyncIs, SyncTyped, Client
<1>4. Mine(i, c, srv[i], up[i], down[i], quiet[i], unread, copy[i], fs, content, touched) BY <1>1, OfSession
<1>5. Len(c.todo) = 1 BY <1>1, <1>4 DEF Mine, Talk, Kinds
<1>6. PICK p : p = c.todo[1] OBVIOUS
<1>7. p \in Paths BY <1>3, <1>5, <1>6
<1>8. PICK first : first = Sync!Msg("SEND", p, <<>>) OBVIOUS
<1>9. PICK last : last = Sync!Msg("DONE", p, <<>>) OBVIOUS
<1>10. PICK data : data = [k \in 1..n |-> Sync!Msg("DATA", p, <<Sync!Local(i)[k]>>)] OBVIOUS
<1>11. <<>> \in Seq(Chunks) OBVIOUS
<1>12. /\ first \in Message /\ first.id = "SEND" /\ first.path = p
       /\ last \in Message /\ last.id = "DONE" /\ last.path = p
  BY <1>7, <1>8, <1>9, <1>11 DEF Sync!Msg, Message
<1>13. n \in 0..Size BY SyncNames
<1>14. ASSUME NEW k \in 1..n
       PROVE  data[k] \in Message /\ data[k].id = "DATA" /\ data[k].path = p /\ data[k].k = <<<<i, k>>>>
  <2>1. Sync!Local(i)[k] = <<i, k>> /\ k \in 1..Size BY <1>13, SyncNames DEF Sync!Local
  <2>2. <<<<i, k>>>> \in Seq(Chunks)
    <3>1. <<i, k>> \in Chunks BY <2>1 DEF Chunks, SyncObjects
    <3> QED BY <3>1
  <2> QED BY <1>7, <1>10, <2>1, <2>2 DEF Sync!Msg, Message
<1>15. data \in Seq(Message) /\ Len(data) = n
  <2>1. data \in [1..n -> Message] BY <1>10, <1>14
  <2> QED BY <2>1
<1>16. PICK file : file = <<first>> \o data OBVIOUS
<1>17. <<first>> \in Seq(Message) /\ Len(<<first>>) = 1 /\ <<first>>[1] = first BY <1>12
<1>18. file \in Seq(Message) /\ Len(file) = n + 1 /\ file[1] = first /\ \A k \in 2..(n + 1) : file[k] = data[k - 1]
  BY <1>15, <1>16, <1>17
<1>19. (at = "wait-done" /\ n = Size /\ u2 = Append(file, last)) \/ (at = "threw" /\ n = Size - 1 /\ u2 = file)
  BY <1>1, <1>6, <1>8, <1>9, <1>10, <1>16 DEF Batch
<1>20. /\ u2 \in Seq(Message) /\ u2[1] = first /\ \A k \in 2..(n + 1) : u2[k] = data[k - 1]
       /\ \/ at = "wait-done" /\ n = Size /\ Len(u2) = n + 2 /\ u2[n + 2] = last
          \/ at = "threw" /\ n = Size - 1 /\ Len(u2) = n + 1
  <2>1. CASE at = "threw" /\ n = Size - 1 /\ u2 = file BY <1>18, <2>1
  <2>2. CASE at = "wait-done" /\ n = Size /\ u2 = Append(file, last)
    <3>1. Adds(file, u2, last) BY <1>12, <1>18, <2>2, AppendAdds
    <3>2. /\ u2 \in Seq(Message) /\ Len(u2) = n + 2 /\ u2[n + 2] = last
          /\ \A k \in 1..(n + 1) : u2[k] = file[k] BY <1>18, <3>1 DEF Adds
    <3>3. 1 \in 1..(n + 1) /\ \A k \in 2..(n + 1) : k \in 1..(n + 1) OBVIOUS
    <3> QED BY <1>18, <2>2, <3>2, <3>3
  <2> QED BY <1>19, <2>1, <2>2
<1>21. \A k \in 2..(n + 1) : k - 1 \in 1..n OBVIOUS
<1>22. \A k \in 2..(n + 1) : u2[k].id = "DATA" /\ u2[k].k = <<<<i, k - 1>>>> /\ u2[k].path = p
  BY <1>14, <1>20, <1>21
<1>23. \A k \in 1..Len(u2) : u2[k].path = c.todo[1]
  <2>1. \A k \in 1..Len(u2) : k = 1 \/ k \in 2..(n + 1) \/ (k = n + 2 /\ u2[k] = last) BY <1>20
  <2> QED BY <1>6, <1>12, <1>20, <1>22, <2>1
<1>24. Mine(i, c2, srv[i], u2, down[i], quiet[i], unread, copy[i], fs, content, touched)
  <2>1. /\ c.at = "wait-sync" /\ u2[1].id = "SEND"
        /\ \A k \in 2..(n + 1) : u2[k].id = "DATA" /\ u2[k].k = <<<<i, k - 1>>>>
        /\ \/ at = "wait-done" /\ n = Size /\ Len(u2) = n + 2 /\ u2[n + 2].id = "DONE"
           \/ at = "threw" /\ n = Size - 1 /\ Len(u2) = n + 1
    BY <1>1, <1>12, <1>20, <1>22
  <2>2. u2 \in Seq(Message) BY <1>20
  <2> QED BY ONLY <1>2, <1>4, <1>23, <2>1, <2>2, MineJsSends, i \in Sessions, n \in Nat, i \notin unread
<1>25. SameBut(up, up', i) /\ up'[i] = u2 BY <1>3, OneElse
<1>26. cli' = [cli EXCEPT ![i] = c2] BY <1>1, <1>2, <1>3
<1>27. Mine(i, c2, srv[i], up'[i], down'[i], quiet'[i], unread, copy'[i], fs, content, touched) BY <1>24, <1>25
<1> QED BY <1>25, <1>26, <1>27, Still, SyncTurns

LEMMA SyncJsAnswers == ASSUME SyncIs, NEW i \in Sessions, ServiceSame, Sync!JsAnswer(i) PROVE SyncIs'
<1>1. i \notin unread /\ down' = down /\ quiet' = quiet /\ copy' = copy BY DEF Sync!JsAnswer
<1>2. PICK c : c = cli[i] OBVIOUS
<1>3. c \in Client /\ c.todo \in Seq(Paths) /\ cli \in [Sessions -> Client] BY <1>2 DEF SyncIs, SyncTyped, Client
<1>4. Mine(i, c, srv[i], up[i], down[i], quiet[i], unread, copy[i], fs, content, touched) BY <1>2, OfSession
<1>5. \/ c.at = "wait-transport" /\ cli' = [cli EXCEPT ![i].at = "wait-sync"] /\ up' = up
      \/ c.at = "wait-sync" /\ Sync!JsAnswer(i) /\ ~(cli' = [cli EXCEPT ![i] = Sync!End(i, "failed")] /\ up' = up)
      \/ cli' = [cli EXCEPT ![i] = Sync!End(i, "failed")] /\ up' = up
  BY <1>2 DEF Sync!JsAnswer, Sync!Fails
<1>6. CASE c.at = "wait-transport" /\ cli' = [cli EXCEPT ![i].at = "wait-sync"] /\ up' = up
  <2>1. PICK c2 : c2 = [c EXCEPT !.at = "wait-sync"] OBVIOUS
  <2>2. cli' = [cli EXCEPT ![i] = c2] BY <1>2, <1>3, <1>6, <2>1
  <2>3. Mine(i, c2, srv[i], up[i], down[i], quiet[i], unread, copy[i], fs, content, touched)
    BY <1>4, <1>6, <2>1, MineJsWaits
  <2>4. Mine(i, c2, srv[i], up'[i], down'[i], quiet'[i], unread, copy'[i], fs, content, touched)
    BY <1>1, <1>6, <2>3
  <2> QED BY <1>1, <1>6, <2>2, <2>4, Still, SyncTurns
<1>7. CASE c.at = "wait-sync" /\ Sync!JsAnswer(i) /\ ~(cli' = [cli EXCEPT ![i] = Sync!End(i, "failed")] /\ up' = up)
  <2>1. c.todo # <<>>
    <3>1. Len(c.todo) = 1 BY <1>4, <1>7 DEF Mine, Talk, Kinds
    <3>2. Len(<<>>) = 0 OBVIOUS
    <3> QED BY <3>1, <3>2
  <2>2. Head(c.todo) = c.todo[1] BY <1>3, <2>1
  <2>3. \/ /\ cli' = [cli EXCEPT ![i].at = "wait-done"]
           /\ up' = [up EXCEPT ![i] = Append(Batch(i, c.todo[1], Size), Sync!Msg("DONE", c.todo[1], <<>>))]
        \/ /\ cli' = [cli EXCEPT ![i].at = "threw"]
           /\ up' = [up EXCEPT ![i] = Batch(i, c.todo[1], Size - 1)]
    BY <1>2, <1>7, <2>2 DEF Sync!JsAnswer, Sync!Fails, Batch
  <2>4. Size \in Nat /\ Size - 1 \in Nat BY SyncNames
  <2> QED BY <1>1, <1>2, <1>7, <2>3, <2>4, SyncJsSends
<1>8. CASE cli' = [cli EXCEPT ![i] = Sync!End(i, "failed")] /\ up' = up
  <2>1. SameBut(down, down', i) /\ down'[i] \in Seq(Message)
    <3>1. down[i] \in Seq(Message) BY DEF SyncIs, SyncTyped
    <3> QED BY <1>1, <3>1, Still
  <2> QED BY <1>1, <1>8, <2>1, SyncFails
<1> QED BY <1>5, <1>6, <1>7, <1>8

LEMMA SyncJsDone == ASSUME SyncIs, NEW i \in Sessions, ServiceSame, Sync!JsDone(i) PROVE SyncIs'
<1>1. PICK c : c = cli[i] OBVIOUS
<1>2. c.at = "wait-done" /\ Sync!Gets(i) /\ quiet' = quiet /\ copy' = copy BY <1>1 DEF Sync!JsDone
<1>3. /\ Drops(down[i], down'[i]) /\ SameBut(down, down', i) /\ up' = up /\ SameBut(up, up', i)
      /\ down[i][1] = Head(down[i]) /\ down'[i] \in Seq(Message)
  BY <1>2, GetsIs
<1>4. Mine(i, c, srv[i], up[i], down[i], quiet[i], unread, copy[i], fs, content, touched) BY <1>1, OfSession
<1>5. CASE down[i][1].id = "OKAY"
  <2>1. PICK c2 : c2 = [c EXCEPT !.at = "ok", !.end = "closed"] OBVIOUS
  <2>2. cli' = [cli EXCEPT ![i] = c2] BY <1>1, <1>3, <1>5, <2>1 DEF Sync!JsDone, Sync!End
  <2>3. Mine(i, c2, srv[i], up[i], down'[i], quiet[i], unread, copy[i], fs, content, touched)
    BY <1>2, <1>3, <1>4, <1>5, <2>1, MineJsDone
  <2>4. Mine(i, c2, srv[i], up'[i], down'[i], quiet'[i], unread, copy'[i], fs, content, touched)
    BY <1>2, <1>3, <2>3
  <2> QED BY <1>2, <1>3, <2>2, <2>4, Still, SyncTurns
<1>6. CASE down[i][1].id # "OKAY"
  <2>1. cli' = [cli EXCEPT ![i] = Sync!End(i, "failed")] BY <1>3, <1>6 DEF Sync!JsDone
  <2> QED BY <1>2, <1>3, <2>1, SyncFails
<1> QED BY <1>5, <1>6

LEMMA SyncJsClosed == ASSUME SyncIs, NEW i \in Sessions, ServiceSame, Sync!JsClosed(i) PROVE SyncIs'
<1>1. /\ cli' = [cli EXCEPT ![i] = Sync!End(i, "hung")] /\ up' = up /\ down' = down
      /\ quiet' = quiet /\ copy' = copy
  BY DEF Sync!JsClosed
<1>2. SameBut(down, down', i) /\ down'[i] \in Seq(Message)
  <2>1. down[i] \in Seq(Message) BY DEF SyncIs, SyncTyped
  <2> QED BY <1>1, <2>1, Still
<1> QED BY <1>1, <1>2, SyncFails

(* The device goes.                                                        *)
LEMMA SyncBreaks == ASSUME SyncIs, NEW i \in Sessions, Sync!Break(i) PROVE SyncIs'
<1>1. PICK c : c = cli[i] OBVIOUS
<1>2. PICK c2 : c2 = [c EXCEPT !.end = "closed"] OBVIOUS
<1>3. /\ c.at # "new" /\ c.end # "closed" /\ up' = [up EXCEPT ![i] = <<>>] /\ down' = [down EXCEPT ![i] = <<>>]
      /\ unread' = unread \cup {i} /\ cli' = [cli EXCEPT ![i].end = "closed"]
      /\ srv' = srv /\ fs' = fs /\ content' = content /\ touched' = touched /\ copy' = copy /\ quiet' = quiet
  BY <1>1 DEF Sync!Break, Sync!Gone, Sync!deviceVars
<1>4. cli \in [Sessions -> Client] /\ up \in [Sessions -> Seq(Message)] /\ down \in [Sessions -> Seq(Message)]
  BY DEF SyncIs, SyncTyped
<1>5. cli' = [cli EXCEPT ![i] = c2] BY <1>1, <1>2, <1>3, <1>4
<1>6. SameBut(cli, cli', i) /\ cli'[i] = c2 BY <1>4, <1>5, OneElse
<1>7. SameBut(up, up', i) /\ up'[i] = <<>> BY <1>3, <1>4, OneElse
<1>8. SameBut(down, down', i) /\ down'[i] = <<>> BY <1>3, <1>4, OneElse
<1>9. Mine(i, c, srv[i], up[i], down[i], quiet[i], unread, copy[i], fs, content, touched) BY <1>1, OfSession
<1>10. Mine(i, c2, srv[i], <<>>, <<>>, quiet[i], unread \cup {i}, copy[i], fs, content, touched)
  BY <1>2, <1>3, <1>9, MineBreaks
<1>11. Mine(i, cli'[i], srv[i], up'[i], down'[i], quiet'[i], unread', copy'[i], fs, content, touched)
  BY <1>3, <1>6, <1>7, <1>8, <1>10
<1> QED BY <1>3, <1>6, <1>7, <1>8, <1>11, Still, SyncCommands

(* A session begins with nothing in the stream.                            *)
LEMMA MineNew ==
  ASSUME NEW i \in Sessions, NEW job \in Sync!Job, NEW c, c = Sync!Client(job), NEW s, s = Sync!Idle,
         NEW e, i \notin e, NEW Y, Y = [p \in Paths |-> <<>>], NEW F, NEW X, NEW T,
         \A p \in Paths : T[p] = {} /\ X[p][i] = <<>>
  PROVE  Mine(i, c, s, <<>>, <<>>, {}, e, Y, F, X, T)
<1>1. /\ job.op \in Sync!Op /\ job.files \in Seq(Paths)
      /\ \A k, l \in DOMAIN job.files : job.files[k] = job.files[l] => k = l
      /\ job.op \in {"push", "pull", "js"} => Len(job.files) = 1
  BY DEF Sync!Job
<1>2. /\ c.at = "new" /\ c.op = job.op /\ c.ask = job.files /\ c.asked = 0 /\ c.todo = job.files
      /\ c.files = Sync!Range(job.files) /\ c.same = {} /\ c.n = 0 /\ c.end = "open"
  BY DEF Sync!Client
<1>3. s \in Service /\ s.at = "command" BY IdleIs
<1>4. Sync!Range(job.files) \subseteq Paths BY <1>1 DEF Sync!Range
<1>5. c \in Client
  <2>1. 0 \in 0..Size BY SyncNames
  <2> QED BY <1>1, <1>4, <2>1 DEF Client, Sync!Client, Calm
<1>6. <<>> \in Seq(Message) /\ <<>> \in Seq(Chunks) /\ Len(<<>>) = 0 OBVIOUS
<1>7. Valued(c, s, <<>>, <<>>, {}, Y) BY <1>3, <1>5, <1>6 DEF Valued
<1>8. Chain(i, c, s, <<>>, {}) BY <1>3, <1>6 DEF Chain, Serving
<1>9. Parted(i, c, s, <<>>, <<>>, e) BY <1>2, <1>3 DEF Parted, Settled
<1>10. Writes(c, s, <<>>, {}) BY <1>2 DEF Writes
<1>11. Phase(c, s, <<>>, <<>>) BY <1>2, <1>3 DEF Phase, Calm, Asking, Sends
<1>12. Kinds(c, s, <<>>)
  <2>1. c.op \in {"push", "pull"} => c.todo # <<>>
    <3>1. c.todo = <<>> => Len(c.todo) = 0 BY <1>6
    <3>2. c.op \in {"push", "pull"} => Len(c.todo) = 1 BY <1>1, <1>2
    <3> QED BY <3>1, <3>2
  <2>2. c.op = "js" => Len(c.todo) = 1 BY <1>1, <1>2
  <2>3. c.ask = c.todo BY <1>2
  <2> QED BY <1>2, <2>1, <2>2, <2>3 DEF Kinds, Sends, Asking
<1>13. Quietly(c, {}) BY DEF Quietly
<1>14. Fresh(i, c, <<>>, T)
  <2>1. Once(c.todo) BY <1>1, <1>2 DEF Once
  <2> QED BY <2>1 DEF Fresh
<1>15. ASSUME NEW p \in Paths PROVE Sent(i, p, c, s, <<>>, {}, F[p], X[p], T[p])
  BY <1>3 DEF Sent, AtIt, Serving
<1>16. ASSUME NEW p \in Paths PROVE Copying(p, c, s, <<>>, <<>>, {}, F[p], X[p], T[p], Y[p])
  <2>1. p \in c.files => InTodo(c, p) BY <1>1, <1>2 DEF InTodo, Sync!Range
  <2> QED BY <1>2, <2>1 DEF Copying, Listing, Asking
<1> QED BY <1>7, <1>8, <1>9, <1>10, <1>11, <1>12, <1>13, <1>14, <1>15, <1>16 DEF Mine, Talk
LEMMA SyncBegins == ASSUME Sync!Init PROVE SyncIs
<1>1. PICK plan \in Plans : cli = [i \in Sessions |-> Sync!Client(plan[i])] BY DEF Sync!Init
<1>2. \A i \in Sessions : plan[i] \in Sync!Job BY PartsConstants DEF Sync!SyncAssumption
<1>3. /\ fs \in [Paths -> {NoFile, Old}]
      /\ content = [p \in Paths |-> [o \in SyncObjects |-> IF o = Old THEN Upto(Old, Size) ELSE <<>>]]
      /\ touched = [p \in Paths |-> {}] /\ srv = [i \in Sessions |-> Sync!Idle]
      /\ copy = [i \in Sessions |-> [p \in Paths |-> <<>>]]
      /\ up = [i \in Sessions |-> <<>>] /\ down = [i \in Sessions |-> <<>>]
      /\ quiet = [i \in Sessions |-> {}] /\ unread = {}
  BY DEF Sync!Init, Sync!Objects, Sync!Local, SyncObjects, Upto
<1>4. ASSUME NEW i \in Sessions PROVE MineOf(i)
  <2>1. \A p \in Paths : touched[p] = {} /\ content[p][i] = <<>> BY <1>3, SyncNames DEF SyncObjects
  <2>2. PICK c : c = cli[i] OBVIOUS
  <2>3. c = Sync!Client(plan[i]) BY <1>1, <2>2
  <2>4. Mine(i, c, Sync!Idle, <<>>, <<>>, {}, {}, [p \in Paths |-> <<>>], fs, content, touched)
    BY <1>2, <2>1, <2>3, MineNew
  <2> QED BY <1>3, <2>2, <2>4 DEF MineOf
<1>5. \A i \in Sessions : Valued(cli[i], srv[i], up[i], down[i], quiet[i], copy[i]) BY <1>4 DEF MineOf, Mine
<1>6. SyncTyped
  <2>1. Upto(Old, Size) \in Seq(Chunks)
    <3>1. \A k \in 1..Size : <<Old, k>> \in Chunks BY DEF Chunks, SyncObjects
    <3>2. Upto(Old, Size) \in [1..Size -> Chunks] BY <3>1 DEF Upto
    <3> QED BY <3>2, SyncNames
  <2>2. <<>> \in Seq(Chunks) OBVIOUS
  <2>3. content \in [Paths -> [SyncObjects -> Seq(Chunks)]] BY <1>3, <2>1, <2>2
  <2>4. fs \in [Paths -> SyncObjects \cup {NoFile}] BY <1>3 DEF SyncObjects
  <2>5. cli \in [Sessions -> Client] BY <1>1, <1>5 DEF Valued
  <2>6. srv \in [Sessions -> Service] BY <1>3, <1>5 DEF Valued
  <2>7. copy \in [Sessions -> [Paths -> Seq(Chunks)]] BY <1>3, <1>5 DEF Valued
  <2>8. /\ up \in [Sessions -> Seq(Message)] /\ down \in [Sessions -> Seq(Message)]
        /\ quiet \in [Sessions -> SUBSET Paths] /\ unread \subseteq Sessions
        /\ touched \in [Paths -> SUBSET Sessions]
    BY <1>3
  <2> QED BY <2>3, <2>4, <2>5, <2>6, <2>7, <2>8 DEF SyncTyped
<1>7. ASSUME NEW p \in Paths PROVE File(fs[p], content[p], touched[p])
  BY <1>3 DEF File, SyncObjects
<1> QED BY <1>4, <1>6, <1>7 DEF SyncIs

(* Every step of the file service and of its commands.                     *)
LEMMA SyncKept == ASSUME SyncIs, Sync!Next PROVE SyncIs'
<1>1. PICK i \in Sessions : Sync!Serve(i) \/ Sync!Command(i) \/ Sync!Break(i) BY DEF Sync!Next
<1>2. CASE Sync!Serve(i)
  BY <1>2, SyncStat, SyncList, SyncEntry, SyncSend, SyncOpen, SyncData, SyncDone, SyncRecv, SyncRead,
     SyncQuits, SyncEof DEF Sync!Serve
<1>3. CASE Sync!Command(i)
  <2>1. ServiceSame BY <1>3 DEF Sync!Command, Sync!deviceVars, ServiceSame
  <2> QED BY <1>3, <2>1, SyncStarts, SyncAsks, SyncAnswers, SyncLists, SyncEntries, SyncNext, SyncPutsData,
             SyncStatus, SyncReceives, SyncEofs, SyncJsAnswers, SyncJsDone, SyncJsClosed DEF Sync!Command
<1>4. CASE Sync!Break(i) BY <1>4, SyncBreaks
<1> QED BY <1>1, <1>2, <1>3, <1>4
LEMMA SyncStays == ASSUME SyncIs, UNCHANGED syncVars PROVE SyncIs'
<1>1. /\ fs' = fs /\ content' = content /\ touched' = touched /\ srv' = srv /\ cli' = cli /\ copy' = copy
      /\ up' = up /\ down' = down /\ quiet' = quiet /\ unread' = unread
  BY DEF syncVars
<1>2. SyncTyped' BY <1>1 DEF SyncIs, SyncTyped
<1>3. \A p \in Paths : File(fs'[p], content'[p], touched'[p]) BY <1>1 DEF SyncIs
<1>4. \A i \in Sessions : MineOf(i)' BY <1>1 DEF SyncIs, MineOf
<1> QED BY <1>2, <1>3, <1>4 DEF SyncIs

(* What the commands promise.                                              *)
LEMMA SyncWhole == SyncIs => Sync!FilesWhole
<1> SUFFICES ASSUME SyncIs PROVE Sync!FilesWhole OBVIOUS
<1>1. ASSUME NEW i \in Sessions, NEW p \in Paths \ Sticky, touched[p] = {i}, p \notin quiet[i]
      PROVE  /\ srv[i].path # p => fs[p] = NoFile \/ content[p][fs[p]] = Sync!Local(i)
             /\ cli[i].at = "ok" => fs[p] # NoFile /\ content[p][fs[p]] = Sync!Local(i)
  <2>1. Sent(i, p, cli[i], srv[i], down[i], quiet[i], fs[p], content[p], touched[p]) BY OfSession
  <2>2. Fresh(i, cli[i], up[i], touched) BY OfSession DEF Mine
  <2>3. ~Pulling(cli[i]) BY <1>1, <2>2 DEF Fresh
  <2>4. Sync!Local(i) = Upto(i, Size) BY DEF Sync!Local, Upto
  <2>5. ~AtIt(srv[i], p) => fs[p] = NoFile \/ Whole(i, fs[p], content[p]) BY <1>1, <2>1 DEF Sent
  <2>6. cli[i].at = "ok" => Whole(i, fs[p], content[p]) BY <1>1, <2>1, <2>3 DEF Sent, Told
  <2>7. i # NoFile BY SyncNames
  <2> QED BY <2>4, <2>5, <2>6, <2>7 DEF Whole, AtIt
<1>2. Sync!PushedWhole BY <1>1 DEF Sync!PushedWhole, Sync!Exists, Sync!ContentOf
<1>3. ASSUME NEW i \in Sessions, NEW p \in Paths, cli[i].at = "ok", Pulling(cli[i]),
             p \in cli[i].files \ quiet[i], touched[p] = {}
      PROVE  copy[i][p] = Status(fs[p], content[p])
  <2>1. Copying(p, cli[i], srv[i], up[i], down[i], quiet[i], fs[p], content[p], touched[p], copy[i][p])
    BY OfSession DEF Mine
  <2>2. cli[i].todo = <<>> BY <1>3, OfSession DEF Talk, Kinds, Pulling
  <2>3. ~InTodo(cli[i], p)
    <3>1. Len(<<>>) = 0 OBVIOUS
    <3> QED BY <2>2, <3>1 DEF InTodo
  <2> QED BY <1>3, <2>1, <2>3 DEF Copying
<1>4. Sync!PulledWhole
  BY <1>3 DEF Sync!PulledWhole, Sync!Pulls, Pulling, Sync!Status, Status, Sync!Exists, Sync!ContentOf
<1> QED BY <1>2, <1>4 DEF Sync!FilesWhole

(* A direction of the stream holds no more than its capacity.              *)
Roomy == \A i \in Sessions : Len(down[i]) =< Capacity
Replied(i) ==
  \/ down' = down
  \/ Len(down[i]) < Capacity /\ \E m : down' = [down EXCEPT ![i] = Append(@, m)]
  \/ down[i] # <<>> /\ down' = [down EXCEPT ![i] = Tail(@)]
  \/ down' = [down EXCEPT ![i] = <<>>]
LEMMA OneLonger ==
  ASSUME NEW S, NEW v \in Seq(S), NEW m PROVE Len(Append(v, m)) = Len(v) + 1 /\ Len(v) \in Nat
<1>1. v \in Seq(S \cup {m})
  <2>1. S \subseteq S \cup {m} OBVIOUS
  <2>2. Len(v) \in Nat /\ DOMAIN v = 1..Len(v) /\ \A k \in 1..Len(v) : v[k] \in S OBVIOUS
  <2>3. v = [k \in 1..Len(v) |-> v[k]] BY <2>2
  <2>4. v \in [1..Len(v) -> S \cup {m}] BY <2>2, <2>3
  <2> QED BY <2>2, <2>4
<1>2. m \in S \cup {m} OBVIOUS
<1> QED BY <1>1, <1>2
LEMMA RoomKept ==
  ASSUME SyncIs, Roomy, NEW i \in Sessions, Replied(i) PROVE Roomy'
<1>1. down \in [Sessions -> Seq(Message)] /\ Capacity \in Nat
  BY PartsConstants DEF SyncIs, SyncTyped, Sync!SyncAssumption
<1>2. down[i] \in Seq(Message) /\ Len(down[i]) =< Capacity BY <1>1 DEF Roomy
<1>3. CASE down' = down BY <1>3 DEF Roomy
<1>4. ASSUME NEW m, Len(down[i]) < Capacity, down' = [down EXCEPT ![i] = Append(@, m)] PROVE Roomy'
  <2>1. Len(Append(down[i], m)) =< Capacity BY <1>1, <1>2, <1>4, OneLonger
  <2> QED BY <1>1, <1>4, <2>1 DEF Roomy
<1>5. CASE down[i] # <<>> /\ down' = [down EXCEPT ![i] = Tail(@)]
  <2>1. Len(Tail(down[i])) =< Capacity BY <1>1, <1>2, <1>5
  <2> QED BY <1>1, <1>5, <2>1 DEF Roomy
<1>6. CASE down' = [down EXCEPT ![i] = <<>>]
  <2>1. Len(<<>>) = 0 OBVIOUS
  <2> QED BY <1>1, <1>6, <2>1 DEF Roomy
<1> QED BY <1>3, <1>4, <1>5, <1>6 DEF Replied
LEMMA RoomReply ==
  ASSUME NEW i, NEW m, NEW s, Sync!Reply(i, m, s) PROVE Replied(i)
BY DEF Sync!Reply, Sync!CanReply, Replied
LEMMA RoomBecomes == ASSUME NEW i, NEW s, Sync!Becomes(i, s) PROVE Replied(i)
BY DEF Sync!Becomes, Replied
LEMMA RoomPut == ASSUME NEW i, NEW m, NEW c, Sync!Put(i, m, c) PROVE Replied(i)
BY DEF Sync!Put, Replied
LEMMA RoomServe == ASSUME NEW i \in Sessions, Sync!Serve(i) PROVE Replied(i)
<1>1. CASE Sync!ServeStat(i) BY <1>1, RoomReply DEF Sync!ServeStat
<1>2. CASE Sync!ServeList(i) BY <1>2, RoomBecomes DEF Sync!ServeList
<1>3. CASE Sync!ServeEntry(i) BY <1>3, RoomReply, RoomBecomes DEF Sync!ServeEntry
<1>4. CASE Sync!ServeSend(i) BY <1>4, RoomBecomes DEF Sync!ServeSend
<1>5. CASE Sync!ServeOpen(i) BY <1>5, RoomReply, RoomBecomes DEF Sync!ServeOpen, Sync!FailErrno
<1>6. CASE Sync!ServeData(i) BY <1>6, RoomReply, RoomBecomes DEF Sync!ServeData, Sync!FailErrno
<1>7. CASE Sync!ServeDone(i) BY <1>7, RoomReply, RoomBecomes DEF Sync!ServeDone
<1>8. CASE Sync!ServeRecv(i) BY <1>8, RoomReply, RoomBecomes DEF Sync!ServeRecv, Sync!FailErrno
<1>9. CASE Sync!ServeRead(i) BY <1>9, RoomReply DEF Sync!ServeRead, Sync!FailErrno
<1>10. CASE Sync!ServeQuit(i) BY <1>10 DEF Sync!ServeQuit, Replied
<1>11. CASE Sync!ServeEof(i) BY <1>11 DEF Sync!ServeEof, Replied
<1> QED BY <1>1, <1>2, <1>3, <1>4, <1>5, <1>6, <1>7, <1>8, <1>9, <1>10, <1>11 DEF Sync!Serve
LEMMA RoomCommand == ASSUME NEW i \in Sessions, Sync!Command(i) PROVE Replied(i)
<1>1. CASE Sync!Start(i) BY <1>1 DEF Sync!Start, Replied
<1>2. CASE Sync!Ask(i) BY <1>2, RoomPut DEF Sync!Ask
<1>3. CASE Sync!Answer(i) BY <1>3 DEF Sync!Answer, Sync!Gets, Replied
<1>4. CASE Sync!List(i) BY <1>4, RoomPut DEF Sync!List
<1>5. CASE Sync!Entry(i) BY <1>5 DEF Sync!Entry, Sync!Gets, Replied
<1>6. CASE Sync!NextFile(i) BY <1>6, RoomPut DEF Sync!NextFile, Sync!Quit, Replied
<1>7. CASE Sync!PutData(i) BY <1>7, RoomPut DEF Sync!PutData, Replied
<1>8. CASE Sync!GetStatus(i) BY <1>8 DEF Sync!GetStatus, Sync!Gets, Replied
<1>9. CASE Sync!Receive(i) BY <1>9 DEF Sync!Receive, Sync!Gets, Replied
<1>10. CASE Sync!Eof(i) BY <1>10 DEF Sync!Eof, Replied
<1>11. CASE Sync!JsAnswer(i) BY <1>11 DEF Sync!JsAnswer, Replied
<1>12. CASE Sync!JsDone(i) BY <1>12 DEF Sync!JsDone, Sync!Gets, Replied
<1>13. CASE Sync!JsClosed(i) BY <1>13 DEF Sync!JsClosed, Replied
<1> QED BY <1>1, <1>2, <1>3, <1>4, <1>5, <1>6, <1>7, <1>8, <1>9, <1>10, <1>11, <1>12, <1>13 DEF Sync!Command
LEMMA RoomNext == ASSUME SyncIs, Roomy, Sync!Next PROVE Roomy'
<1>1. PICK i \in Sessions : Sync!Serve(i) \/ Sync!Command(i) \/ Sync!Break(i) BY DEF Sync!Next
<1>2. Replied(i)
  <2>1. CASE Sync!Break(i) BY <2>1 DEF Sync!Break, Replied
  <2> QED BY <1>1, <2>1, RoomServe, RoomCommand
<1> QED BY <1>2, RoomKept
LEMMA RoomInit == ASSUME Sync!Init PROVE Roomy
<1>1. Len(<<>>) = 0 OBVIOUS
<1>2. \A i \in Sessions : down[i] = <<>> BY DEF Sync!Init
<1> QED BY <1>1, <1>2, PartsConstants DEF Roomy, Sync!SyncAssumption
LEMMA SyncTypeOK == ASSUME SyncIs, Roomy PROVE Sync!TypeOK
<1>1. SyncTyped BY DEF SyncIs
<1>2. /\ fs \in [Paths -> Sync!Objects \cup {NoFile}] /\ touched \in [Paths -> SUBSET Sessions]
      /\ quiet \in [Sessions -> SUBSET Paths] /\ unread \subseteq Sessions
  BY <1>1 DEF SyncTyped, SyncObjects, Sync!Objects
<1>3. ASSUME NEW i \in Sessions
      PROVE  /\ Len(down[i]) =< Capacity
             /\ cli[i].at \in Sync!Ends \cup {"new", "ask", "answer", "list", "entries", "next", "data",
                      "status", "receive", "wait-transport", "wait-sync", "wait-done", "threw"}
             /\ srv[i].at \in {"command", "list", "open", "data", "read", "ended"}
  <2>1. cli[i] \in Client /\ srv[i] \in Service BY <1>1 DEF SyncTyped
  <2>2. cli[i].at \in Settled \cup Calm \cup Asking \cup Sends \cup {"entries", "receive"} BY <2>1 DEF Client
  <2>3. srv[i].at \in {"command", "list", "open", "data", "read", "ended"} BY <2>1 DEF Service
  <2> QED BY <2>2, <2>3 DEF Roomy, Settled, Calm, Asking, Sends, Sync!Ends
<1> QED BY <1>2, <1>3 DEF Sync!TypeOK

-----------------------------------------------------------------------------
(* The list of files.  A frame is a directory that is being read: it waits  *)
(* for what is below one of the names it has still to look at.             *)
ListFrame == [dir : Dirs, path : Seq(Names), left : SUBSET Names, dirs : Seq(Names)]
Pre(q, p) == Len(q) < Len(p) /\ \A j \in 1..Len(q) : p[j] = q[j]
Has(f, n) == n \in f.left \/ \E k \in 1..Len(f.dirs) : f.dirs[k] = n
Awaits(f, p) == Pre(f.path, p) /\ Has(f, p[Len(f.path) + 1])
Kind(d, n) == tree[d][n][1]
IsDir(d, n) == Kind(d, n) = "dir" \/ (side = "local" /\ Kind(d, n) \in {"link", "dangling"})
Reached(f) ==
  \E w \in [1..(Len(f.path) + 1) -> Dirs] :
    /\ w[1] = root /\ w[Len(f.path) + 1] = f.dir
    /\ \A j \in 1..Len(f.path) : Lists!Leads(w[j], f.path[j], w[j + 1])
FrameIs(f) ==
  /\ f \in ListFrame /\ Reached(f)
  /\ \A n \in f.left : Kind(f.dir, n) # "none"
  /\ \A k \in 1..Len(f.dirs) : f.dirs[k] \notin f.left /\ IsDir(f.dir, f.dirs[k])
  /\ \A k, l \in 1..Len(f.dirs) : f.dirs[k] = f.dirs[l] => k = l

(* A call was made by the one below it, which does not wait for what is    *)
(* there any more.                                                         *)
Deeper(f, g) == Pre(g.path, f.path) /\ ~Awaits(g, f.path)
Stack(F) ==
  /\ F \in Seq(ListFrame)
  /\ \A k \in 1..Len(F) : FrameIs(F[k])
  /\ \A k, l \in 1..Len(F) : k < l => Deeper(F[k], F[l])

(* The list: every path once, a file, and nobody waits for it.             *)
IsListed(L, p) == \E k \in 1..Len(L) : L[k] = p
FileKind(x) == x \in {"file", "dangling"} \/ (side = "remote" /\ x = "link")
Sound(L) ==
  /\ L \in Seq(Seq(Names))
  /\ \A k, l \in 1..Len(L) : L[k] = L[l] => k = l
  /\ \A k \in 1..Len(L) : Lists!IsFile(L[k]) /\ (side = "local" => Len(L[k]) =< MaxDepth)
Clear(F, L) == \A p, k : IsListed(L, p) /\ k \in 1..Len(F) => ~Awaits(F[k], p)

(* A file is listed, or somebody waits for it, or it is one of those that  *)
(* ListRight excepts.                                                      *)
IsFound(F, L, S, p, w) ==
  \/ IsListed(L, p)
  \/ \E j \in 0..(Len(p) - 1) : SubSeq(p, 1, j) \in S
  \/ side = "local" /\ Kind(w[Len(p)], p[Len(p)]) = "dangling"
  \/ \E k \in 1..Len(F) : Awaits(F[k], p) /\ w[Len(F[k].path) + 1] = F[k].dir
AllFound(F, L, S) ==
  \A p \in Lists!UpTo(MaxDepth) \ {<<>>} : \A w \in Lists!Walks(p) :
    FileKind(Kind(w[Len(p)], p[Len(p)])) => IsFound(F, L, S, p, w)
ListOf(F, L, S, R) ==
  /\ Stack(F) /\ Sound(L) /\ Clear(F, L)
  /\ R # "failed" => AllFound(F, L, S)
  /\ R \in {"building", "built", "failed"} /\ (F # <<>> => R = "building")
TreeTyped ==
  /\ side \in {"local", "remote"} /\ tree \in [Dirs -> [Names -> Lists!Entries]]
  /\ unreadable \subseteq Dirs \ {root} /\ root \in Dirs /\ MaxDepth \in Nat
ListIs == TreeTyped /\ ListOf(frames, filelist, lost, result)

(* One name more.                                                          *)
More(L, p) == <<p>> \o L
Down(q, n) == Append(q, n)
LEMMA OneName ==
  ASSUME NEW q \in Seq(Names), NEW n \in Names
  PROVE  /\ Append(q, n) \in Seq(Names) /\ Len(Append(q, n)) = Len(q) + 1 /\ Len(q) \in Nat
         /\ Append(q, n)[Len(q) + 1] = n /\ \A j \in 1..Len(q) : Append(q, n)[j] = q[j]
         /\ Pre(q, Append(q, n))
<1>1. /\ Append(q, n) \in Seq(Names) /\ Len(Append(q, n)) = Len(q) + 1 /\ Len(q) \in Nat
      /\ Append(q, n)[Len(q) + 1] = n /\ \A j \in 1..Len(q) : Append(q, n)[j] = q[j]
  OBVIOUS
<1> QED BY <1>1 DEF Pre

(* Whoever has made a call does not wait for what it finds.                *)
LEMMA Beyond ==
  ASSUME NEW f \in ListFrame, NEW g \in ListFrame, Deeper(f, g), NEW n \in Names,
         NEW p, p = Append(f.path, n)
  PROVE  Pre(g.path, p) /\ ~Awaits(g, p)
<1>1. f.path \in Seq(Names) /\ g.path \in Seq(Names) BY DEF ListFrame
<1>2. /\ Len(p) = Len(f.path) + 1 /\ Len(f.path) \in Nat /\ Len(g.path) \in Nat
      /\ \A j \in 1..Len(f.path) : p[j] = f.path[j]
  BY <1>1, OneName
<1>3. Len(g.path) < Len(f.path) /\ \A j \in 1..Len(g.path) : f.path[j] = g.path[j] BY DEF Deeper, Pre
<1>4. Pre(g.path, p) BY <1>2, <1>3 DEF Pre
<1>5. Len(g.path) + 1 \in 1..Len(f.path) BY <1>2, <1>3
<1>6. p[Len(g.path) + 1] = f.path[Len(g.path) + 1] BY <1>2, <1>5
<1> QED BY <1>4, <1>6 DEF Deeper, Awaits

(* The call on top goes on; another is made; it returns.                   *)
TopIs(F2, F, f) ==
  /\ F2 \in Seq(ListFrame) /\ Len(F2) = Len(F) /\ F2[1] = f /\ \A k \in 2..Len(F) : F2[k] = F[k]
  /\ f \in ListFrame /\ f.path = F[1].path /\ f.dir = F[1].dir
LEMMA StackTop ==
  ASSUME NEW F, NEW F2, NEW f, Stack(F), F # <<>>, TopIs(F2, F, f), FrameIs(f)
  PROVE  Stack(F2)
<1>1. F \in Seq(ListFrame) /\ Len(F) \in Nat BY DEF Stack
<1>2. \A k \in 1..Len(F2) : k # 1 => F2[k] = F[k] BY <1>1 DEF TopIs
<1>3. \A k \in 1..Len(F2) : F2[k].path = F[k].path BY <1>2 DEF TopIs
<1>4. ASSUME NEW k \in 1..Len(F2) PROVE FrameIs(F2[k])
  <2>1. k \in 1..Len(F) BY DEF TopIs
  <2> QED BY <1>2, <2>1 DEF TopIs, Stack
<1>5. ASSUME NEW k \in 1..Len(F2), NEW l \in 1..Len(F2), k < l PROVE Deeper(F2[k], F2[l])
  <2>1. k \in 1..Len(F) /\ l \in 1..Len(F) /\ l # 1 BY <1>5 DEF TopIs
  <2>2. Deeper(F[k], F[l]) BY <1>5, <2>1 DEF Stack
  <2> QED BY <1>2, <1>3, <2>1, <2>2 DEF Deeper
<1> QED BY <1>4, <1>5 DEF Stack, TopIs
LEMMA StackPush ==
  ASSUME NEW F, NEW F2, NEW g, NEW n \in Names, Stack(F), F # <<>>, FrameIs(g), ~Has(F[1], n),
         g.path = Append(F[1].path, n), F2 = More(F, g)
  PROVE  /\ Stack(F2) /\ Len(F2) = Len(F) + 1 /\ F2[1] = g
         /\ \A k \in 1..Len(F) : F2[k + 1] = F[k]
<1>1. F \in Seq(ListFrame) /\ Len(F) \in Nat /\ g \in ListFrame BY DEF Stack, FrameIs
<1>2. /\ F2 \in Seq(ListFrame) /\ Len(F2) = Len(F) + 1 /\ F2[1] = g
      /\ \A k \in 2..Len(F2) : k - 1 \in 1..Len(F) /\ F2[k] = F[k - 1]
  BY <1>1 DEF More
<1>3. ASSUME NEW k \in 1..Len(F) PROVE F2[k + 1] = F[k]
  <2>1. k + 1 \in 2..Len(F2) BY <1>1, <1>2
  <2> QED BY <1>2, <2>1
<1>4. ASSUME NEW k \in 1..Len(F2) PROVE FrameIs(F2[k])
  <2>1. CASE k = 1 BY <1>2, <2>1
  <2>2. CASE k # 1 BY <1>2, <2>2 DEF Stack
  <2> QED BY <2>1, <2>2
<1>5. 1 \in 1..Len(F) BY <1>1
<1>a. F[1] \in ListFrame BY <1>1, <1>5
<1>6. F[1] \in ListFrame /\ F[1].path \in Seq(Names) BY <1>a DEF ListFrame
<1>7. Deeper(g, F[1])
  <2>1. Pre(F[1].path, g.path) /\ g.path[Len(F[1].path) + 1] = n BY <1>6, OneName
  <2> QED BY <2>1 DEF Deeper, Awaits
<1>8. ASSUME NEW l \in 1..Len(F) PROVE Deeper(g, F[l])
  <2>1. CASE l = 1 BY <1>7, <2>1
  <2>2. CASE l # 1
    <3>1. Deeper(F[1], F[l]) /\ F[l] \in ListFrame BY <1>1, <1>5, <2>2 DEF Stack
    <3> QED BY <1>6, <3>1, Beyond DEF Deeper
  <2> QED BY <2>1, <2>2
<1>9. ASSUME NEW k \in 1..Len(F2), NEW l \in 1..Len(F2), k < l PROVE Deeper(F2[k], F2[l])
  <2>1. l - 1 \in 1..Len(F) /\ F2[l] = F[l - 1] BY <1>2, <1>9
  <2>2. CASE k = 1 BY <1>2, <1>8, <2>1, <2>2
  <2>3. CASE k # 1
    <3>1. k - 1 \in 1..Len(F) /\ F2[k] = F[k - 1] /\ k - 1 < l - 1 BY <1>2, <1>9, <2>3
    <3> QED BY <2>1, <3>1 DEF Stack
  <2> QED BY <2>2, <2>3
<1> QED BY <1>2, <1>3, <1>4, <1>9 DEF Stack
LEMMA StackTail ==
  ASSUME NEW F, Stack(F), F # <<>>
  PROVE  /\ Stack(Tail(F)) /\ Len(F) \in Nat \ {0} /\ Len(Tail(F)) = Len(F) - 1
         /\ \A k \in 1..Len(Tail(F)) : k + 1 \in 1..Len(F) /\ Tail(F)[k] = F[k + 1]
<1>1. F \in Seq(ListFrame) BY DEF Stack
<1>2. /\ Tail(F) \in Seq(ListFrame) /\ Len(F) \in Nat \ {0} /\ Len(Tail(F)) = Len(F) - 1
      /\ \A k \in 1..Len(Tail(F)) : k + 1 \in 1..Len(F) /\ Tail(F)[k] = F[k + 1]
  BY <1>1
<1>3. Stack(Tail(F)) BY <1>2 DEF Stack
<1> QED BY <1>2, <1>3

(* What is below a name of a directory: the entry itself, or what its      *)
(* directory leads to.                                                     *)
Below(q, d, n, p, w) ==
  /\ p \in Lists!UpTo(MaxDepth) \ {<<>>} /\ w \in Lists!Walks(p)
  /\ FileKind(Kind(w[Len(p)], p[Len(p)]))
  /\ Pre(q, p) /\ p[Len(q) + 1] = n /\ w[Len(q) + 1] = d
LEMMA PathIs ==
  ASSUME NEW p \in Lists!UpTo(MaxDepth) \ {<<>>}, MaxDepth \in Nat
  PROVE  p \in Seq(Names) /\ Len(p) \in 1..MaxDepth
<1>1. PICK j \in 0..MaxDepth : p \in [1..j -> Names] BY DEF Lists!UpTo
<1>2. p \in Seq(Names) /\ Len(p) = j BY <1>1
<1>3. Len(p) # 0 BY <1>2
<1> QED BY <1>2, <1>3
LEMMA BelowIs ==
  ASSUME NEW q \in Seq(Names), NEW d, NEW n, NEW p, NEW w, Below(q, d, n, p, w), MaxDepth \in Nat
  PROVE  /\ Kind(d, n) # "none"
         /\ \/ p = Append(q, n) /\ FileKind(Kind(d, n)) /\ w[Len(p)] = d /\ p[Len(p)] = n
            \/ Len(p) > Len(q) + 1 /\ Lists!Leads(d, n, w[Len(q) + 2])
<1>1. /\ p \in Lists!UpTo(MaxDepth) \ {<<>>} /\ w \in Lists!Walks(p) /\ Pre(q, p)
      /\ p[Len(q) + 1] = n /\ w[Len(q) + 1] = d /\ FileKind(Kind(w[Len(p)], p[Len(p)]))
  BY DEF Below
<1>2. p \in Seq(Names) /\ Len(p) \in Nat BY <1>1, PathIs
<1>3. Len(q) < Len(p) /\ Len(q) \in Nat /\ \A j \in 1..Len(q) : p[j] = q[j] BY <1>1 DEF Pre
<1>4. CASE Len(p) = Len(q) + 1
  <2>1. n \in Names BY <1>1, <1>2, <1>4
  <2>2. Append(q, n) \in Seq(Names) /\ Len(Append(q, n)) = Len(q) + 1
        /\ Append(q, n)[Len(q) + 1] = n /\ \A j \in 1..Len(q) : Append(q, n)[j] = q[j]
    BY <2>1, OneName
  <2>3. ASSUME NEW j \in 1..Len(p) PROVE p[j] = Append(q, n)[j]
    <3>1. CASE j = Len(p) BY <1>1, <1>4, <2>2, <3>1
    <3>2. CASE j # Len(p)
      <4>1. j \in 1..Len(q) BY <1>2, <1>3, <1>4, <3>2
      <4> QED BY <1>3, <2>2, <4>1
    <3> QED BY <3>1, <3>2
  <2>4. p = Append(q, n) BY <1>2, <1>4, <2>2, <2>3
  <2> QED BY <1>1, <1>4, <2>4 DEF FileKind
<1>5. CASE Len(p) # Len(q) + 1
  <2>1. Len(q) + 1 \in 1..(Len(p) - 1) BY <1>2, <1>3, <1>5
  <2>2. Lists!Leads(w[Len(q) + 1], p[Len(q) + 1], w[Len(q) + 1 + 1]) BY <1>1, <2>1 DEF Lists!Walks
  <2>3. Len(q) + 1 + 1 = Len(q) + 2 BY <1>3
  <2>4. Lists!Leads(d, n, w[Len(q) + 2]) BY <1>1, <2>2, <2>3
  <2> QED BY <1>2, <1>3, <1>5, <2>4 DEF Lists!Leads, Kind
<1> QED BY <1>4, <1>5

(* A path that is found stays so.                                          *)
LEMMA FoundOnce ==
  ASSUME NEW F, NEW L, NEW S, NEW F2, NEW L2, NEW S2, AllFound(F, L, S),
         \A p : IsListed(L, p) => IsListed(L2, p), S \subseteq S2,
         \A k \in 1..Len(F) : \A p, w :
           /\ Below(F[k].path, F[k].dir, p[Len(F[k].path) + 1], p, w)
           /\ Has(F[k], p[Len(F[k].path) + 1])
           => IsFound(F2, L2, S2, p, w)
  PROVE  AllFound(F2, L2, S2)
<1>1. SUFFICES ASSUME NEW p \in Lists!UpTo(MaxDepth) \ {<<>>}, NEW w \in Lists!Walks(p),
                      FileKind(Kind(w[Len(p)], p[Len(p)]))
               PROVE  IsFound(F2, L2, S2, p, w)
  BY DEF AllFound
<1>2. IsFound(F, L, S, p, w) BY <1>1 DEF AllFound
<1>3. ASSUME NEW k \in 1..Len(F), Awaits(F[k], p), w[Len(F[k].path) + 1] = F[k].dir
      PROVE  IsFound(F2, L2, S2, p, w)
  <2>1. Below(F[k].path, F[k].dir, p[Len(F[k].path) + 1], p, w) BY <1>1, <1>3 DEF Below, Awaits
  <2>2. Has(F[k], p[Len(F[k].path) + 1]) BY <1>3 DEF Awaits
  <2> QED BY <2>1, <2>2
<1>4. CASE IsListed(L, p) BY <1>4 DEF IsFound
<1>5. CASE \E j \in 0..(Len(p) - 1) : SubSeq(p, 1, j) \in S BY <1>5 DEF IsFound
<1>6. CASE side = "local" /\ Kind(w[Len(p)], p[Len(p)]) = "dangling" BY <1>6 DEF IsFound
<1> QED BY <1>2, <1>3, <1>4, <1>5, <1>6 DEF IsFound

(* The call on top has looked at one name.                                 *)
LEMMA FoundTop ==
  ASSUME NEW F, NEW L, NEW S, NEW F2, NEW L2, NEW f, NEW n, Stack(F), F # <<>>, TopIs(F2, F, f),
         AllFound(F, L, S), \A p : IsListed(L, p) => IsListed(L2, p),
         \A m : Has(F[1], m) /\ m # n => Has(f, m),
         \A p, w : Below(F[1].path, F[1].dir, n, p, w) => IsFound(F2, L2, S, p, w)
  PROVE  AllFound(F2, L2, S)
<1>1. Len(F) \in Nat /\ 1 \in 1..Len(F) /\ Len(F2) = Len(F) /\ F2[1] = f
      /\ f.path = F[1].path /\ f.dir = F[1].dir
  BY DEF Stack, TopIs
<1>2. ASSUME NEW k \in 1..Len(F), NEW p, NEW w,
             Below(F[k].path, F[k].dir, p[Len(F[k].path) + 1], p, w),
             Has(F[k], p[Len(F[k].path) + 1])
      PROVE  IsFound(F2, L2, S, p, w)
  <2>1. CASE k # 1
    <3>1. F2[k] = F[k] BY <1>1, <2>1 DEF TopIs
    <3>2. Awaits(F2[k], p) /\ w[Len(F2[k].path) + 1] = F2[k].dir BY <1>2, <3>1 DEF Below, Awaits
    <3> QED BY <1>1, <3>2 DEF IsFound
  <2>2. CASE k = 1 /\ p[Len(F[1].path) + 1] = n BY <1>2, <2>2
  <2>3. CASE k = 1 /\ p[Len(F[1].path) + 1] # n
    <3>1. Has(f, p[Len(F[1].path) + 1]) BY <1>2, <2>3
    <3>2. Awaits(f, p) /\ w[Len(f.path) + 1] = f.dir BY <1>1, <1>2, <2>3, <3>1 DEF Below, Awaits
    <3> QED BY <1>1, <3>2 DEF IsFound
  <2> QED BY <2>1, <2>2, <2>3
<1> QED BY <1>2, FoundOnce

(* Nobody waits for what is listed.                                        *)
LEMMA ClearTop ==
  ASSUME NEW F, NEW L, NEW F2, NEW f, Stack(F), F # <<>>, TopIs(F2, F, f), Clear(F, L),
         \A m : Has(f, m) => Has(F[1], m)
  PROVE  Clear(F2, L)
<1>1. 1 \in 1..Len(F) /\ Len(F2) = Len(F) /\ F2[1] = f /\ f.path = F[1].path
  BY DEF Stack, TopIs
<1>2. ASSUME NEW p, NEW k \in 1..Len(F2), IsListed(L, p), Awaits(F2[k], p) PROVE FALSE
  <2>1. CASE k = 1
    <3>1. Awaits(F[1], p) BY <1>1, <1>2, <2>1 DEF Awaits
    <3> QED BY <1>1, <1>2, <3>1 DEF Clear
  <2>2. CASE k # 1
    <3>1. F2[k] = F[k] BY <1>1, <2>2 DEF TopIs, Stack
    <3> QED BY <1>1, <1>2, <3>1 DEF Clear
  <2> QED BY <2>1, <2>2
<1> QED BY <1>2 DEF Clear
LEMMA ListedOne ==
  ASSUME NEW L, NEW p, L \in Seq(Seq(Names)), p \in Seq(Names), NEW L2, L2 = More(L, p)
  PROVE  /\ L2 \in Seq(Seq(Names)) /\ Len(L2) = Len(L) + 1 /\ L2[1] = p
         /\ \A k \in 2..Len(L2) : k - 1 \in 1..Len(L) /\ L2[k] = L[k - 1]
         /\ \A k \in 1..Len(L) : k + 1 \in 1..Len(L2) /\ L2[k + 1] = L[k]
  BY DEF More
LEMMA ListedAll ==
  ASSUME NEW L, NEW p, L \in Seq(Seq(Names)), p \in Seq(Names), NEW L2, L2 = More(L, p), NEW q
  PROVE  IsListed(L2, q) <=> (q = p \/ IsListed(L, q))
<1>1. /\ L2 \in Seq(Seq(Names)) /\ Len(L2) = Len(L) + 1 /\ L2[1] = p /\ Len(L) \in Nat
      /\ \A k \in 2..Len(L2) : k - 1 \in 1..Len(L) /\ L2[k] = L[k - 1]
  BY ListedOne
<1>2. \A k \in 1..Len(L) : k + 1 \in 1..Len(L2) /\ L2[k + 1] = L[k] BY ListedOne
<1>3. IsListed(L2, q) <=> (q = p \/ IsListed(L, q))
  <2>1. ASSUME IsListed(L2, q), q # p PROVE IsListed(L, q)
    <3>1. PICK k \in 1..Len(L2) : L2[k] = q BY <2>1 DEF IsListed
    <3>2. k \in 2..Len(L2) BY <1>1, <2>1, <3>1
    <3> QED BY <1>1, <3>1, <3>2 DEF IsListed
  <2>2. ASSUME IsListed(L, q) PROVE IsListed(L2, q) BY <1>2, <2>2 DEF IsListed
  <2>3. IsListed(L2, p)
    <3>1. 1 \in 1..Len(L2) BY <1>1
    <3> QED BY <1>1, <3>1 DEF IsListed
  <2> QED BY <2>1, <2>2, <2>3
<1> QED BY <1>3

(* A name of a directory that is reached is reached.                       *)
LEMMA WalkHere ==
  ASSUME NEW f, f \in ListFrame, Reached(f), NEW n, n \in Names, NEW p, p = Append(f.path, n)
  PROVE  \E w \in Lists!Walks(p) :
           w[Len(p)] = f.dir /\ p[Len(p)] = n
<1>1. f.path \in Seq(Names) /\ f.dir \in Dirs BY DEF ListFrame
<1>2. /\ Len(p) = Len(f.path) + 1 /\ Len(f.path) \in Nat /\ p[Len(p)] = n
      /\ \A j \in 1..Len(f.path) : p[j] = f.path[j]
  BY <1>1, OneName
<1>3. PICK w \in [1..(Len(f.path) + 1) -> Dirs] :
        /\ w[1] = root /\ w[Len(f.path) + 1] = f.dir
        /\ \A j \in 1..Len(f.path) : Lists!Leads(w[j], f.path[j], w[j + 1])
  BY DEF Reached
<1>4. w \in Lists!Walks(p)
  <2>1. w \in [1..Len(p) -> Dirs] /\ w[1] = root BY <1>2, <1>3
  <2>2. ASSUME NEW j \in 1..(Len(p) - 1) PROVE Lists!Leads(w[j], p[j], w[j + 1])
    <3>1. j \in 1..Len(f.path) /\ p[j] = f.path[j] BY <1>2
    <3>2. Lists!Leads(w[j], f.path[j], w[j + 1]) BY <1>3, <3>1
    <3> QED BY <3>1, <3>2
  <2> QED BY <2>1, <2>2 DEF Lists!Walks
<1>5. w[Len(p)] = f.dir BY <1>2, <1>3
<1> QED BY <1>2, <1>4, <1>5
LEMMA WalkOn ==
  ASSUME NEW f, f \in ListFrame, Reached(f), NEW n, n \in Names, NEW p, p = Append(f.path, n),
         NEW e \in Dirs, Lists!Leads(f.dir, n, e)
  PROVE  \E v \in [1..(Len(p) + 1) -> Dirs] :
           /\ v[1] = root /\ v[Len(p) + 1] = e
           /\ \A j \in 1..Len(p) : Lists!Leads(v[j], p[j], v[j + 1])
<1>1. f.path \in Seq(Names) BY DEF ListFrame
<1>2. Len(p) = Len(f.path) + 1 /\ Len(f.path) \in Nat /\ p[Len(p)] = n BY <1>1, OneName
<1>3. PICK w \in Lists!Walks(p) : w[Len(p)] = f.dir /\ p[Len(p)] = n BY WalkHere
<1>4. /\ w \in [1..Len(p) -> Dirs] /\ w[1] = root
      /\ \A j \in 1..(Len(p) - 1) : Lists!Leads(w[j], p[j], w[j + 1])
  BY <1>3 DEF Lists!Walks
<1> DEFINE v == [j \in 1..(Len(p) + 1) |-> IF j = Len(p) + 1 THEN e ELSE w[j]]
<1>5. v \in [1..(Len(p) + 1) -> Dirs] BY <1>2, <1>4
<1>6. v[1] = root /\ v[Len(p) + 1] = e BY <1>2, <1>4
<1>7. ASSUME NEW j \in 1..Len(p) PROVE Lists!Leads(v[j], p[j], v[j + 1])
  <2>1. v[j] = w[j] BY <1>2
  <2>2. CASE j = Len(p)
    <3>1. v[j] = f.dir /\ p[j] = n /\ v[j + 1] = e BY <1>2, <1>3, <2>1, <2>2
    <3> QED BY <3>1
  <2>3. CASE j # Len(p)
    <3>1. v[j + 1] = w[j + 1] /\ j \in 1..(Len(p) - 1) BY <1>2, <2>3
    <3>2. Lists!Leads(w[j], p[j], w[j + 1]) BY <1>4, <3>1
    <3> QED BY <2>1, <3>1, <3>2
  <2> QED BY <2>2, <2>3
<1> HIDE DEF v
<1> QED BY <1>5, <1>6, <1>7

LEMMA FileHere ==
  ASSUME NEW f, f \in ListFrame, Reached(f), NEW n, n \in Names, NEW p, p = Append(f.path, n),
         FileKind(Kind(f.dir, n))
  PROVE  Lists!IsFile(p)
<1>1. PICK w \in Lists!Walks(p) : w[Len(p)] = f.dir /\ p[Len(p)] = n BY WalkHere
<1>2. tree[w[Len(p)]][p[Len(p)]][1] \in Lists!Files(p) BY DEF Lists!Files
<1>3. Kind(f.dir, n) \in Lists!Files(p) BY <1>1, <1>2 DEF Kind
<1> QED BY <1>3 DEF Lists!IsFile, FileKind

(* A name less; a directory found; a directory taken.                      *)
Less(f, n) == [f EXCEPT !.left = @ \ {n}]
Noted(f, n) == [f EXCEPT !.left = @ \ {n}, !.dirs = <<n>> \o @]
Taken(f) == [f EXCEPT !.dirs = Tail(@)]
LEMMA FrameSkips ==
  ASSUME NEW f, FrameIs(f), NEW n, NEW g, g = Less(f, n)
  PROVE  /\ FrameIs(g) /\ g.path = f.path /\ g.dir = f.dir /\ g.dirs = f.dirs
         /\ \A m : Has(f, m) /\ m # n => Has(g, m)
         /\ \A m : Has(g, m) => Has(f, m)
         /\ n \in f.left => ~Has(g, n)
<1>a. f \in ListFrame BY DEF FrameIs
<1>1. /\ f \in ListFrame /\ f.dir \in Dirs /\ f.path \in Seq(Names)
      /\ f.left \in SUBSET Names /\ f.dirs \in Seq(Names)
  BY <1>a DEF ListFrame
<1>b. g.path = f.path /\ g.dir = f.dir /\ g.dirs = f.dirs /\ g.left = f.left \ {n}
  BY <1>a DEF ListFrame, Less
<1>c. g.left \in SUBSET Names BY <1>1, <1>b
<1>2. /\ g \in ListFrame /\ g.path = f.path /\ g.dir = f.dir /\ g.dirs = f.dirs
      /\ g.left = f.left \ {n}
  BY <1>a, <1>b, <1>c DEF ListFrame, Less
<1>3. Reached(g) BY <1>2 DEF FrameIs, Reached
<1>4. FrameIs(g) BY <1>2, <1>3 DEF FrameIs
<1>5. ASSUME n \in f.left PROVE ~Has(g, n) BY <1>2, <1>5 DEF Has, FrameIs
<1> QED BY <1>2, <1>4, <1>5 DEF Has

LEMMA FrameAdds ==
  ASSUME NEW f, FrameIs(f), NEW n, n \in f.left, IsDir(f.dir, n),
         NEW g, g = Noted(f, n)
  PROVE  /\ FrameIs(g) /\ g.path = f.path /\ g.dir = f.dir /\ \A m : Has(f, m) <=> Has(g, m)
<1>a. f \in ListFrame BY DEF FrameIs
<1>1. /\ f.dir \in Dirs /\ f.path \in Seq(Names) /\ f.dirs \in Seq(Names) /\ n \in Names
      /\ f.left \in SUBSET Names
  BY <1>a DEF ListFrame
<1>b. /\ g.path = f.path /\ g.dir = f.dir /\ g.dirs = <<n>> \o f.dirs
      /\ g.left = f.left \ {n}
  BY <1>a DEF ListFrame, Noted
<1>c. g.left \in SUBSET Names /\ g.dirs \in Seq(Names) BY <1>1, <1>b
<1>2. /\ g \in ListFrame /\ g.path = f.path /\ g.dir = f.dir /\ g.dirs = <<n>> \o f.dirs
      /\ g.left = f.left \ {n}
  BY <1>a, <1>b, <1>c DEF ListFrame, Noted
<1>3. /\ Len(f.dirs) \in Nat /\ Len(g.dirs) = Len(f.dirs) + 1 /\ g.dirs[1] = n
      /\ \A k \in 2..Len(g.dirs) : k - 1 \in 1..Len(f.dirs) /\ g.dirs[k] = f.dirs[k - 1]
  BY <1>1, <1>2
<1>4. ASSUME NEW k \in 1..Len(f.dirs) PROVE k + 1 \in 1..Len(g.dirs) /\ g.dirs[k + 1] = f.dirs[k]
  <2>1. k + 1 \in 2..Len(g.dirs) BY <1>3
  <2> QED BY <1>3, <2>1
<1>5. Reached(g) BY <1>2 DEF FrameIs, Reached
<1>6. \A k \in 1..Len(f.dirs) : f.dirs[k] \notin f.left /\ f.dirs[k] # n BY DEF FrameIs
<1>7. ASSUME NEW k \in 1..Len(g.dirs) PROVE g.dirs[k] \notin g.left /\ IsDir(g.dir, g.dirs[k])
  <2>1. CASE k = 1 BY <1>2, <1>3, <2>1
  <2>2. CASE k # 1
    <3>1. k - 1 \in 1..Len(f.dirs) /\ g.dirs[k] = f.dirs[k - 1] BY <1>3, <2>2
    <3> QED BY <1>2, <3>1 DEF FrameIs
  <2> QED BY <2>1, <2>2
<1>8. ASSUME NEW k \in 1..Len(g.dirs), NEW l \in 1..Len(g.dirs), g.dirs[k] = g.dirs[l] PROVE k = l
  <2>1. ASSUME NEW j \in 1..Len(g.dirs), j # 1
        PROVE  j - 1 \in 1..Len(f.dirs) /\ g.dirs[j] = f.dirs[j - 1] /\ g.dirs[j] # n
    <3>1. j \in 2..Len(g.dirs) BY <2>1
    <3> QED BY <1>3, <1>6, <3>1
  <2>2. CASE k = 1 BY <1>3, <1>8, <2>1, <2>2
  <2>3. CASE l = 1 BY <1>3, <1>8, <2>1, <2>3
  <2>4. CASE k # 1 /\ l # 1
    <3>1. k - 1 = l - 1 BY <1>8, <2>1, <2>4 DEF FrameIs
    <3> QED BY <3>1
  <2> QED BY <2>2, <2>3, <2>4
<1>9. FrameIs(g) BY <1>2, <1>5, <1>7, <1>8 DEF FrameIs
<1>10. ASSUME NEW m PROVE Has(f, m) <=> Has(g, m)
  <2>1. ASSUME Has(f, m) PROVE Has(g, m)
    <3>1. CASE m \in f.left /\ m # n BY <1>2, <3>1 DEF Has
    <3>2. CASE m = n
      <4>1. 1 \in 1..Len(g.dirs) BY <1>3
      <4> QED BY <1>3, <3>2, <4>1 DEF Has
    <3>3. CASE \E k \in 1..Len(f.dirs) : f.dirs[k] = m BY <1>4, <3>3 DEF Has
    <3> QED BY <2>1, <3>1, <3>2, <3>3 DEF Has
  <2>2. ASSUME Has(g, m) PROVE Has(f, m)
    <3>1. CASE m \in g.left BY <1>2, <3>1 DEF Has
    <3>2. CASE \E k \in 1..Len(g.dirs) : g.dirs[k] = m
      <4>1. PICK k \in 1..Len(g.dirs) : g.dirs[k] = m BY <3>2
      <4>2. CASE k = 1 BY <1>3, <4>1, <4>2 DEF Has
      <4>3. CASE k # 1
        <5>1. k - 1 \in 1..Len(f.dirs) /\ f.dirs[k - 1] = m BY <1>3, <4>1, <4>3
        <5> QED BY <5>1 DEF Has
      <4> QED BY <4>2, <4>3
    <3> QED BY <2>2, <3>1, <3>2 DEF Has
  <2> QED BY <2>1, <2>2
<1> QED BY <1>2, <1>9, <1>10

LEMMA FrameTakes ==
  ASSUME NEW f, FrameIs(f), f.left = {}, f.dirs # <<>>, NEW n, n = Head(f.dirs),
         NEW g, g = Taken(f)
  PROVE  /\ FrameIs(g) /\ g.path = f.path /\ g.dir = f.dir /\ n \in Names /\ IsDir(f.dir, n)
         /\ \A m : Has(f, m) /\ m # n => Has(g, m)
         /\ \A m : Has(g, m) => Has(f, m)
         /\ ~Has(g, n) /\ Has(f, n)
<1>1. f \in ListFrame /\ f.dirs \in Seq(Names) BY DEF FrameIs, ListFrame
<1>2. /\ g.path = f.path /\ g.dir = f.dir /\ g.dirs = Tail(f.dirs) /\ g.left = {}
      /\ Len(f.dirs) \in Nat \ {0} /\ Tail(f.dirs) \in Seq(Names)
  BY <1>1 DEF ListFrame, Taken
<1>3. g \in ListFrame BY <1>1, <1>2 DEF ListFrame, Taken
<1>4. /\ n = f.dirs[1] /\ 1 \in 1..Len(f.dirs) /\ Len(g.dirs) = Len(f.dirs) - 1
      /\ \A k \in 1..Len(g.dirs) : k + 1 \in 1..Len(f.dirs) /\ g.dirs[k] = f.dirs[k + 1]
  BY <1>1, <1>2
<1>5. n \in Names /\ IsDir(f.dir, n) /\ Has(f, n) BY <1>1, <1>4 DEF FrameIs, Has
<1>6. ASSUME NEW k \in 1..Len(g.dirs) PROVE IsDir(g.dir, g.dirs[k]) /\ g.dirs[k] # n
  <2>1. k + 1 \in 1..Len(f.dirs) /\ g.dirs[k] = f.dirs[k + 1] /\ k + 1 # 1 BY <1>4
  <2> QED BY <1>2, <1>4, <2>1 DEF FrameIs
<1>7. ASSUME NEW k \in 1..Len(g.dirs), NEW l \in 1..Len(g.dirs), g.dirs[k] = g.dirs[l] PROVE k = l
  <2>1. k + 1 = l + 1 BY <1>4, <1>7 DEF FrameIs
  <2> QED BY <2>1
<1>8. Reached(g) BY <1>2 DEF FrameIs, Reached
<1>9. FrameIs(g) BY <1>2, <1>3, <1>6, <1>7, <1>8 DEF FrameIs
<1>10. ASSUME NEW m, Has(f, m), m # n PROVE Has(g, m)
  <2>1. PICK k \in 1..Len(f.dirs) : f.dirs[k] = m BY <1>10 DEF Has
  <2>2. k # 1 BY <1>4, <1>10, <2>1
  <2>3. k - 1 \in 1..Len(g.dirs) /\ (k - 1) + 1 = k BY <1>2, <1>4, <2>2
  <2>4. g.dirs[k - 1] = m BY <1>4, <2>1, <2>3
  <2> QED BY <2>3, <2>4 DEF Has
<1>11. ASSUME NEW m, Has(g, m) PROVE Has(f, m) /\ m # n BY <1>2, <1>4, <1>6, <1>11 DEF Has
<1> QED BY <1>2, <1>5, <1>9, <1>10, <1>11

(* The steps of a call, on the stack, the list and what is spoilt.         *)
LEMMA TopHere ==
  ASSUME NEW F, Stack(F), F # <<>>
  PROVE  /\ F \in Seq(ListFrame) /\ Len(F) \in Nat \ {0} /\ 1 \in 1..Len(F)
         /\ FrameIs(F[1]) /\ F[1] \in ListFrame /\ F[1].path \in Seq(Names)
<1>1. F \in Seq(ListFrame) BY DEF Stack
<1>2. Len(F) \in Nat \ {0} /\ 1 \in 1..Len(F) BY <1>1
<1>3. FrameIs(F[1]) /\ F[1] \in ListFrame BY <1>1, <1>2 DEF Stack
<1>4. F[1].path \in Seq(Names) BY <1>3 DEF ListFrame
<1> QED BY <1>1, <1>2, <1>3, <1>4
LEMMA TopSet ==
  ASSUME NEW F, Stack(F), F # <<>>, NEW f, f \in ListFrame, f.path = F[1].path, f.dir = F[1].dir,
         NEW F2, F2 = [F EXCEPT ![1] = f]
  PROVE  TopIs(F2, F, f)
<1>1. F \in Seq(ListFrame) /\ 1 \in 1..Len(F) BY TopHere
<1>2. F2 \in Seq(ListFrame) /\ Len(F2) = Len(F) /\ F2[1] = f BY <1>1
<1>3. ASSUME NEW k \in 2..Len(F) PROVE F2[k] = F[k] BY <1>1
<1> QED BY <1>2, <1>3 DEF TopIs
Nothing(F, n, F2, L2, S) ==
  \A p, w : Below(F[1].path, F[1].dir, n, p, w) => IsFound(F2, L2, S, p, w)

LEMMA ListSkips ==
  ASSUME NEW F, NEW L, NEW S, NEW R, ListOf(F, L, S, R), F # <<>>, NEW n,
         NEW f, f = Less(F[1], n), NEW F2, F2 = [F EXCEPT ![1] = f],
         Nothing(F, n, F2, L, S)
  PROVE  ListOf(F2, L, S, R)
<1>1. Stack(F) /\ Sound(L) /\ Clear(F, L) /\ R = "building" BY DEF ListOf
<1>2. FrameIs(F[1]) BY <1>1, TopHere
<1>3. /\ FrameIs(f) /\ f.path = F[1].path /\ f.dir = F[1].dir
      /\ \A m : Has(F[1], m) /\ m # n => Has(f, m)
      /\ \A m : Has(f, m) => Has(F[1], m)
  BY <1>2, FrameSkips
<1>4. f \in ListFrame BY <1>3 DEF FrameIs
<1>5. TopIs(F2, F, f) BY <1>1, <1>3, <1>4, TopSet
<1>6. Stack(F2) BY <1>1, <1>3, <1>5, StackTop
<1>7. Clear(F2, L) BY <1>1, <1>3, <1>5, ClearTop
<1>8. ASSUME R # "failed" PROVE AllFound(F2, L, S)
  <2>1. AllFound(F, L, S) BY <1>8 DEF ListOf
  <2>2. \A p, w : Below(F[1].path, F[1].dir, n, p, w) => IsFound(F2, L, S, p, w) BY DEF Nothing
  <2> QED BY <1>1, <1>3, <1>5, <2>1, <2>2, FoundTop
<1> QED BY <1>1, <1>6, <1>7, <1>8 DEF ListOf

LEMMA ListAddsDir ==
  ASSUME NEW F, NEW L, NEW S, NEW R, ListOf(F, L, S, R), F # <<>>, NEW n, n \in F[1].left,
         IsDir(F[1].dir, n), NEW f, f = Noted(F[1], n),
         NEW F2, F2 = [F EXCEPT ![1] = f]
  PROVE  ListOf(F2, L, S, R)
<1>1. Stack(F) /\ Sound(L) /\ Clear(F, L) /\ R = "building" BY DEF ListOf
<1>2. FrameIs(F[1]) BY <1>1, TopHere
<1>3. /\ FrameIs(f) /\ f.path = F[1].path /\ f.dir = F[1].dir
      /\ \A m : Has(F[1], m) <=> Has(f, m)
  BY <1>2, FrameAdds
<1>4. f \in ListFrame BY <1>3 DEF FrameIs
<1>5. TopIs(F2, F, f) BY <1>1, <1>3, <1>4, TopSet
<1>6. Stack(F2) BY <1>1, <1>3, <1>5, StackTop
<1>7. Clear(F2, L) BY <1>1, <1>3, <1>5, ClearTop
<1>8. ASSUME R # "failed" PROVE AllFound(F2, L, S)
  <2>1. AllFound(F, L, S) BY <1>8 DEF ListOf
  <2>2. F2[1] = f /\ Len(F2) = Len(F) /\ 1 \in 1..Len(F) BY <1>1, <1>5, TopHere DEF TopIs
  <2>3. Has(f, n) BY <1>3 DEF Has
  <2>4. ASSUME NEW p, NEW w, Below(F[1].path, F[1].dir, n, p, w) PROVE IsFound(F2, L, S, p, w)
    <3>1. Awaits(F2[1], p) /\ w[Len(F2[1].path) + 1] = F2[1].dir
      BY <1>3, <2>2, <2>3, <2>4 DEF Below, Awaits
    <3> QED BY <2>2, <3>1 DEF IsFound
  <2> QED BY <1>1, <1>3, <1>5, <2>1, <2>4, FoundTop
<1> QED BY <1>1, <1>6, <1>7, <1>8 DEF ListOf

LEMMA ListAddsFile ==
  ASSUME NEW F, NEW L, NEW S, NEW R, ListOf(F, L, S, R), F # <<>>, NEW n, n \in F[1].left,
         FileKind(Kind(F[1].dir, n)), MaxDepth \in Nat,
         \A e : ~Lists!Leads(F[1].dir, n, e), NEW q, q = Append(F[1].path, n),
         side = "local" => Len(q) =< MaxDepth,
         NEW f, f = Less(F[1], n), NEW F2, F2 = [F EXCEPT ![1] = f],
         NEW L2, L2 = More(L, q)
  PROVE  ListOf(F2, L2, S, R)
<1>1. Stack(F) /\ Sound(L) /\ Clear(F, L) /\ R = "building" BY DEF ListOf
<1>2. FrameIs(F[1]) /\ F[1] \in ListFrame /\ F[1].path \in Seq(Names) BY <1>1, TopHere
<1>3. /\ FrameIs(f) /\ f.path = F[1].path /\ f.dir = F[1].dir
      /\ \A m : Has(F[1], m) /\ m # n => Has(f, m)
      /\ \A m : Has(f, m) => Has(F[1], m)
      /\ ~Has(f, n)
  BY <1>2, FrameSkips
<1>4. f \in ListFrame /\ n \in Names BY <1>2, <1>3 DEF FrameIs, ListFrame
<1>5. TopIs(F2, F, f) BY <1>1, <1>3, <1>4, TopSet
<1>6. Stack(F2) BY <1>1, <1>3, <1>5, StackTop
<1>7. Clear(F2, L) BY <1>1, <1>3, <1>5, ClearTop
<1>8. /\ q \in Seq(Names) /\ Pre(F[1].path, q) /\ q[Len(F[1].path) + 1] = n BY <1>2, <1>4, OneName
<1>9. Awaits(F[1], q) BY <1>8 DEF Awaits, Has
<1>10. ~IsListed(L, q) BY <1>1, <1>9, TopHere DEF Clear
<1>11. L \in Seq(Seq(Names)) /\ Len(L) \in Nat BY <1>1 DEF Sound
<1>12. /\ L2 \in Seq(Seq(Names)) /\ Len(L2) = Len(L) + 1 /\ L2[1] = q
       /\ \A k \in 2..Len(L2) : k - 1 \in 1..Len(L) /\ L2[k] = L[k - 1]
  BY ONLY <1>8, <1>11, L2 = More(L, q), ListedOne
<1>a. ASSUME NEW p PROVE IsListed(L2, p) <=> (p = q \/ IsListed(L, p))
  BY ONLY <1>8, <1>11, L2 = More(L, q), ListedAll
<1>13. Sound(L2)
  <2>1. Lists!IsFile(q)
    <3>1. Reached(F[1]) BY <1>2 DEF FrameIs
    <3> QED BY <1>2, <1>4, <3>1, FileHere
  <2>2. ASSUME NEW k \in 1..Len(L2), k # 1
        PROVE  k - 1 \in 1..Len(L) /\ L2[k] = L[k - 1] /\ L2[k] # q
    <3>1. k \in 2..Len(L2) BY <1>11, <1>12, <2>2
    <3>2. k - 1 \in 1..Len(L) /\ L2[k] = L[k - 1] BY <1>12, <3>1
    <3> QED BY <1>10, <3>2 DEF IsListed
  <2>3. ASSUME NEW k \in 1..Len(L2), NEW l \in 1..Len(L2), L2[k] = L2[l] PROVE k = l
    <3>1. CASE k = 1 BY <1>12, <2>2, <2>3, <3>1
    <3>2. CASE l = 1 BY <1>12, <2>2, <2>3, <3>2
    <3>3. CASE k # 1 /\ l # 1
      <4>1. k - 1 = l - 1 BY <1>1, <2>2, <2>3, <3>3 DEF Sound
      <4> QED BY <4>1
    <3> QED BY <3>1, <3>2, <3>3
  <2>4. ASSUME NEW k \in 1..Len(L2)
        PROVE  Lists!IsFile(L2[k]) /\ (side = "local" => Len(L2[k]) =< MaxDepth)
    <3>1. CASE k = 1 BY <1>12, <2>1, <3>1
    <3>2. CASE k # 1 BY <1>1, <2>2, <3>2 DEF Sound
    <3> QED BY <3>1, <3>2
  <2> QED BY <1>12, <2>3, <2>4 DEF Sound
<1>14. Clear(F2, L2)
  <2>1. ASSUME NEW k \in 1..Len(F2), Awaits(F2[k], q) PROVE FALSE
    <3>1. CASE k = 1 BY <1>3, <1>5, <1>8, <2>1, <3>1 DEF Awaits, TopIs
    <3>2. CASE k # 1
      <4>1. 1 \in 1..Len(F) /\ k \in 1..Len(F) /\ 1 < k /\ F2[k] = F[k] /\ F[k] \in ListFrame
        BY <1>1, <1>5, <3>2, TopHere DEF TopIs
      <4>2. Deeper(F[1], F[k]) BY <1>1, <4>1 DEF Stack
      <4>3. ~Awaits(F[k], q) BY <1>2, <1>4, <4>1, <4>2, Beyond
      <4> QED BY <2>1, <4>1, <4>3
    <3> QED BY <3>1, <3>2
  <2> QED BY <1>7, <1>a, <2>1 DEF Clear
<1>15. ASSUME R # "failed" PROVE AllFound(F2, L2, S)
  <2>1. AllFound(F, L, S) BY <1>15 DEF ListOf
  <2>2. ASSUME NEW p, NEW w, Below(F[1].path, F[1].dir, n, p, w) PROVE IsFound(F2, L2, S, p, w)
    <3>1. p = q BY <1>2, <2>2, BelowIs
    <3> QED BY <1>a, <3>1 DEF IsFound
  <2>3. \A p : IsListed(L, p) => IsListed(L2, p) BY <1>a
  <2> QED BY <1>1, <1>3, <1>5, <2>1, <2>2, <2>3, FoundTop
<1> QED BY <1>1, <1>6, <1>13, <1>14, <1>15 DEF ListOf

LEMMA ListTakes ==
  ASSUME NEW F, NEW L, NEW S, NEW R, ListOf(F, L, S, R), F # <<>>, F[1].left = {},
         F[1].dirs # <<>>, NEW n, n = Head(F[1].dirs),
         NEW f, f = Taken(F[1]), NEW F2, F2 = [F EXCEPT ![1] = f],
         Nothing(F, n, F2, L, S)
  PROVE  ListOf(F2, L, S, R)
<1>1. Stack(F) /\ Sound(L) /\ Clear(F, L) /\ R = "building" BY DEF ListOf
<1>2. FrameIs(F[1]) BY <1>1, TopHere
<1>3. /\ FrameIs(f) /\ f.path = F[1].path /\ f.dir = F[1].dir
      /\ \A m : Has(F[1], m) /\ m # n => Has(f, m)
      /\ \A m : Has(f, m) => Has(F[1], m)
  BY <1>2, FrameTakes
<1>4. f \in ListFrame BY <1>3 DEF FrameIs
<1>5. TopIs(F2, F, f) BY <1>1, <1>3, <1>4, TopSet
<1>6. Stack(F2) BY <1>1, <1>3, <1>5, StackTop
<1>7. Clear(F2, L) BY <1>1, <1>3, <1>5, ClearTop
<1>8. ASSUME R # "failed" PROVE AllFound(F2, L, S)
  <2>1. AllFound(F, L, S) BY <1>8 DEF ListOf
  <2>2. \A p, w : Below(F[1].path, F[1].dir, n, p, w) => IsFound(F2, L, S, p, w) BY DEF Nothing
  <2>3. /\ \A p : IsListed(L, p) => IsListed(L, p)
        /\ \A m : Has(F[1], m) /\ m # n => Has(f, m)
    BY <1>3
  <2>4. Stack(F) /\ F # <<>> /\ TopIs(F2, F, f) BY <1>1, <1>5
  <2> QED BY ONLY <2>1, <2>2, <2>3, <2>4, FoundTop
<1> QED BY <1>1, <1>6, <1>7, <1>8 DEF ListOf

LEMMA ListEnds ==
  ASSUME NEW F, NEW L, NEW S, NEW R, ListOf(F, L, S, R), F # <<>>, NEW S2, NEW R2,
         S \subseteq S2, (\A m : ~Has(F[1], m)) \/ F[1].path \in S2, MaxDepth \in Nat,
         R2 \in {"building", "built", "failed"}, R2 = "building" \/ Len(F) = 1
  PROVE  ListOf(Tail(F), L, S2, R2)
<1>1. Stack(F) /\ Sound(L) /\ Clear(F, L) /\ R = "building" BY DEF ListOf
<1>2. /\ Stack(Tail(F)) /\ Len(F) \in Nat \ {0} /\ Len(Tail(F)) = Len(F) - 1
      /\ \A k \in 1..Len(Tail(F)) : k + 1 \in 1..Len(F) /\ Tail(F)[k] = F[k + 1]
  BY <1>1, StackTail
<1>3. F[1].path \in Seq(Names) BY <1>1, TopHere
<1>4. Clear(Tail(F), L) BY <1>1, <1>2 DEF Clear
<1>5. ASSUME R2 # "failed" PROVE AllFound(Tail(F), L, S2)
  <2>1. AllFound(F, L, S) BY <1>1 DEF ListOf
  <2>2. ASSUME NEW k \in 1..Len(F), NEW p, NEW w,
               Below(F[k].path, F[k].dir, p[Len(F[k].path) + 1], p, w),
               Has(F[k], p[Len(F[k].path) + 1])
        PROVE  IsFound(Tail(F), L, S2, p, w)
    <3>1. CASE k # 1
      <4>1. k - 1 \in 1..Len(Tail(F)) /\ (k - 1) + 1 = k BY <1>2, <3>1
      <4>2. Tail(F)[k - 1] = F[k] BY <1>2, <4>1
      <4>3. Awaits(Tail(F)[k - 1], p) /\ w[Len(Tail(F)[k - 1].path) + 1] = Tail(F)[k - 1].dir
        BY <2>2, <4>2 DEF Below, Awaits
      <4> QED BY <4>1, <4>3 DEF IsFound
    <3>2. CASE k = 1
      <4>1. F[1].path \in S2 BY <2>2, <3>2
      <4>2. p \in Seq(Names) /\ Pre(F[1].path, p)
        <5>1. p \in Lists!UpTo(MaxDepth) \ {<<>>} /\ Pre(F[1].path, p) BY <2>2, <3>2 DEF Below
        <5> QED BY <5>1, PathIs
      <4>3. /\ Len(F[1].path) \in 0..(Len(p) - 1)
            /\ \A j \in 1..Len(F[1].path) : p[j] = F[1].path[j]
        BY <1>3, <4>2 DEF Pre
      <4>4. SubSeq(p, 1, Len(F[1].path)) = F[1].path
        <5>1. /\ SubSeq(p, 1, Len(F[1].path)) \in Seq(Names)
              /\ Len(SubSeq(p, 1, Len(F[1].path))) = Len(F[1].path)
          BY <1>3, <4>2, <4>3
        <5>2. ASSUME NEW j \in 1..Len(F[1].path) PROVE SubSeq(p, 1, Len(F[1].path))[j] = F[1].path[j]
          BY <1>3, <4>2, <4>3
        <5> QED BY <1>3, <5>1, <5>2
      <4> QED BY <4>1, <4>3, <4>4 DEF IsFound
    <3> QED BY <3>1, <3>2
  <2> QED BY <2>1, <2>2, FoundOnce
<1>6. ASSUME Tail(F) # <<>> PROVE R2 = "building" BY <1>2, <1>6 DEF Stack
<1> QED BY <1>1, <1>2, <1>4, <1>5, <1>6 DEF ListOf

LEMMA KindIs ==
  ASSUME NEW d \in Dirs, NEW n \in Names, TreeTyped
  PROVE  /\ Kind(d, n) \in {"none", "file", "special", "dangling", "dir", "link"}
         /\ Kind(d, n) = "none" <=> tree[d][n] = Lists!NoEntry
         /\ Kind(d, n) \in {"dir", "link"} => tree[d][n][2] \in Dirs
<1>1. tree[d][n] \in Lists!Entries BY DEF TreeTyped
<1>2. tree[d][n] \in {<<"none", root>>, <<"file", root>>, <<"special", root>>, <<"dangling", root>>}
      \/ tree[d][n] \in {"dir", "link"} \X Dirs
  BY <1>1 DEF Lists!Entries, Lists!NoEntry
<1>3. CASE tree[d][n] \in {"dir", "link"} \X Dirs
  <2>1. PICK x \in {"dir", "link"}, y \in Dirs : tree[d][n] = <<x, y>> BY <1>3
  <2>2. tree[d][n][1] = x /\ tree[d][n][2] = y BY <2>1
  <2> QED BY <2>1, <2>2 DEF Kind, Lists!NoEntry
<1>4. CASE tree[d][n] \in {<<"none", root>>, <<"file", root>>, <<"special", root>>, <<"dangling", root>>}
  BY <1>4 DEF Kind, Lists!NoEntry
<1> QED BY <1>2, <1>3, <1>4

LEMMA PreMore ==
  ASSUME NEW q \in Seq(Names), NEW n \in Names, NEW p, NEW q2, q2 = Down(q, n), Pre(q, p),
         p[Len(q) + 1] = n, Len(p) > Len(q) + 1
  PROVE  Pre(q2, p)
<1>1. Len(q2) = Len(q) + 1 /\ q2[Len(q) + 1] = n /\ Len(q) \in Nat /\ \A j \in 1..Len(q) : q2[j] = q[j]
  BY OneName DEF Down
<1>2. ASSUME NEW j \in 1..Len(q2) PROVE p[j] = q2[j]
  <2>1. CASE j = Len(q2) BY <1>1, <2>1
  <2>2. CASE j # Len(q2)
    <3>1. j \in 1..Len(q) BY <1>1, <2>2
    <3> QED BY <1>1, <3>1 DEF Pre
  <2> QED BY <2>1, <2>2
<1> QED BY <1>1, <1>2 DEF Pre
LEMMA PreLess ==
  ASSUME NEW q \in Seq(Names), NEW n \in Names, NEW p, NEW q2, q2 = Down(q, n), Pre(q2, p),
         Len(p) \in Nat
  PROVE  Pre(q, p) /\ p[Len(q) + 1] = n
<1>1. Len(q2) = Len(q) + 1 /\ q2[Len(q) + 1] = n /\ Len(q) \in Nat /\ \A j \in 1..Len(q) : q2[j] = q[j]
  BY OneName DEF Down
<1>2. ASSUME NEW j \in 1..Len(q) PROVE p[j] = q[j] BY <1>1 DEF Pre
<1>3. Len(q) + 1 \in 1..Len(q2) BY <1>1
<1>4. p[Len(q) + 1] = q2[Len(q) + 1] BY <1>3 DEF Pre
<1> QED BY <1>1, <1>2, <1>4 DEF Pre

(* A directory that is opened.                                             *)
LEMMA FrameNew ==
  ASSUME NEW f, FrameIs(f), NEW n \in Names, NEW e \in Dirs, Lists!Leads(f.dir, n, e), TreeTyped,
         NEW g, g = Lists!Frame(e, Append(f.path, n))
  PROVE  /\ FrameIs(g) /\ g.path = Append(f.path, n) /\ g.dir = e
         /\ \A m \in Names : Kind(e, m) # "none" => Has(g, m)
<1>1. f \in ListFrame /\ Reached(f) BY DEF FrameIs
<1>2. f.path \in Seq(Names) BY <1>1 DEF ListFrame
<1>3. /\ g.path = Append(f.path, n) /\ g.dir = e /\ g.dirs = <<>>
      /\ g.left = {m \in Names : tree[e][m] # Lists!NoEntry}
      /\ g = [dir |-> g.dir, path |-> g.path, left |-> g.left, dirs |-> g.dirs]
  BY DEF Lists!Frame
<1>4. g.path \in Seq(Names) /\ g.left \in SUBSET Names BY <1>2, <1>3
<1>5. <<>> \in Seq(Names) /\ Len(<<>>) = 0 OBVIOUS
<1>6. g \in ListFrame BY <1>3, <1>4, <1>5 DEF ListFrame
<1>7. Reached(g)
  <2>1. \E v \in [1..(Len(g.path) + 1) -> Dirs] :
          /\ v[1] = root /\ v[Len(g.path) + 1] = e
          /\ \A j \in 1..Len(g.path) : Lists!Leads(v[j], g.path[j], v[j + 1])
    BY <1>1, <1>3, WalkOn
  <2> QED BY <1>3, <2>1 DEF Reached
<1>8. \A m \in g.left : Kind(g.dir, m) # "none" BY <1>3, KindIs
<1>9. \A k \in 1..Len(g.dirs) : FALSE BY <1>3, <1>5
<1>10. FrameIs(g) BY <1>6, <1>7, <1>8, <1>9 DEF FrameIs
<1>11. ASSUME NEW m \in Names, Kind(e, m) # "none" PROVE Has(g, m)
  BY <1>3, <1>11, KindIs DEF Has
<1> QED BY <1>3, <1>10, <1>11

LEMMA ListCalls ==
  ASSUME NEW F, NEW L, NEW S, NEW R, ListOf(F, L, S, R), F # <<>>, F[1].left = {}, TreeTyped,
         F[1].dirs # <<>>, NEW n, n = Head(F[1].dirs), NEW e, e \in Dirs,
         Lists!Leads(F[1].dir, n, e),
         NEW f, f = Taken(F[1]), NEW F1, F1 = [F EXCEPT ![1] = f],
         NEW q, q = Append(F[1].path, n), NEW g, g = Lists!Frame(e, q), NEW F2, F2 = More(F1, g)
  PROVE  ListOf(F2, L, S, R)
<1>1. Stack(F) /\ Sound(L) /\ Clear(F, L) /\ R = "building" BY DEF ListOf
<1>2. FrameIs(F[1]) /\ F[1].path \in Seq(Names) /\ Len(F) \in Nat /\ 1 \in 1..Len(F) BY <1>1, TopHere
<1>3. /\ FrameIs(f) /\ f.path = F[1].path /\ f.dir = F[1].dir /\ n \in Names
      /\ \A m : Has(F[1], m) /\ m # n => Has(f, m)
      /\ \A m : Has(f, m) => Has(F[1], m)
      /\ ~Has(f, n) /\ Has(F[1], n)
  BY <1>2, FrameTakes
<1>4. f \in ListFrame BY <1>3 DEF FrameIs
<1>5. TopIs(F1, F, f) BY <1>1, <1>3, <1>4, TopSet
<1>6. Stack(F1) BY <1>1, <1>3, <1>5, StackTop
<1>7. Clear(F1, L) BY <1>1, <1>3, <1>5, ClearTop
<1>8. /\ FrameIs(g) /\ g.path = q /\ g.dir = e /\ \A m \in Names : Kind(e, m) # "none" => Has(g, m)
  BY <1>2, <1>3, FrameNew
<1>9. Len(F1) = Len(F) /\ F1[1] = f /\ F1 # <<>> BY <1>2, <1>5 DEF TopIs
<1>10. /\ Stack(F2) /\ Len(F2) = Len(F1) + 1 /\ F2[1] = g
       /\ \A k \in 1..Len(F1) : F2[k + 1] = F1[k]
  <2>1. n \in Names /\ ~Has(F1[1], n) /\ g.path = Append(F1[1].path, n) BY <1>3, <1>8, <1>9
  <2> QED BY ONLY <1>6, <1>8, <1>9, <2>1, F2 = More(F1, g), StackPush
<1>c. q = Down(F[1].path, n) BY DEF Down
<1>11. Clear(F2, L)
  <2>1. ASSUME NEW p, NEW k \in 1..Len(F2), IsListed(L, p), Awaits(F2[k], p) PROVE FALSE
    <3>1. CASE k = 1
      <4>1. Pre(q, p) BY <1>8, <1>10, <2>1, <3>1 DEF Awaits
      <4>2. Len(p) \in Nat BY <1>1, <2>1 DEF IsListed, Sound
      <4>3. Pre(F[1].path, p) /\ p[Len(F[1].path) + 1] = n
        BY ONLY <1>2, <1>3, <1>c, <4>1, <4>2, PreLess
      <4>4. Awaits(F[1], p) BY <1>3, <4>3 DEF Awaits
      <4> QED BY <1>1, <1>2, <2>1, <4>4 DEF Clear
    <3>2. CASE k # 1
      <4>1. k - 1 \in 1..Len(F1) /\ (k - 1) + 1 = k BY <1>2, <1>9, <1>10, <3>2
      <4>2. F2[k] = F1[k - 1] BY <1>10, <4>1
      <4> QED BY <1>7, <2>1, <4>1, <4>2 DEF Clear
    <3> QED BY <3>1, <3>2
  <2> QED BY <2>1 DEF Clear
<1>12. ASSUME R # "failed" PROVE AllFound(F2, L, S)
  <2>1. AllFound(F, L, S) BY <1>12 DEF ListOf
  <2>2. ASSUME NEW k \in 1..Len(F1), NEW p, NEW w, Awaits(F1[k], p),
               w[Len(F1[k].path) + 1] = F1[k].dir
        PROVE  IsFound(F2, L, S, p, w)
    <3>a. k + 1 \in 1..Len(F2) BY <1>2, <1>9, <1>10
    <3>1. k + 1 \in 1..Len(F2) /\ F2[k + 1] = F1[k] BY ONLY <1>10, <3>a, k \in 1..Len(F1)
    <3>2. Awaits(F2[k + 1], p) /\ w[Len(F2[k + 1].path) + 1] = F2[k + 1].dir BY <2>2, <3>1
    <3> QED BY <3>1, <3>2 DEF IsFound
  <2>3. ASSUME NEW k \in 1..Len(F), NEW p, NEW w,
               Below(F[k].path, F[k].dir, p[Len(F[k].path) + 1], p, w),
               Has(F[k], p[Len(F[k].path) + 1])
        PROVE  IsFound(F2, L, S, p, w)
    <3>1. CASE k # 1
      <4>1. F1[k] = F[k] BY <1>5, <3>1 DEF TopIs
      <4>2. Awaits(F1[k], p) /\ w[Len(F1[k].path) + 1] = F1[k].dir BY <2>3, <4>1 DEF Below, Awaits
      <4> QED BY <1>9, <2>2, <4>2
    <3>2. CASE k = 1 /\ p[Len(F[1].path) + 1] # n
      <4>1. Has(f, p[Len(F[1].path) + 1]) BY <1>3, <2>3, <3>2
      <4>2. Awaits(F1[1], p) /\ w[Len(F1[1].path) + 1] = F1[1].dir
        BY <1>3, <1>9, <2>3, <3>2, <4>1 DEF Below, Awaits
      <4> QED BY <1>2, <1>9, <2>2, <4>2
    <3>3. CASE k = 1 /\ p[Len(F[1].path) + 1] = n
      <4>1. Below(F[1].path, F[1].dir, n, p, w) BY <2>3, <3>3
      <4>2. ~FileKind(Kind(F[1].dir, n)) BY DEF FileKind, Kind, Lists!Leads
      <4>3. MaxDepth \in Nat BY DEF TreeTyped
      <4>4. Len(p) > Len(F[1].path) + 1 /\ Lists!Leads(F[1].dir, n, w[Len(F[1].path) + 2])
        BY <1>2, <4>1, <4>2, <4>3, BelowIs
      <4>5. w[Len(F[1].path) + 2] = e BY <4>4 DEF Lists!Leads
      <4>6. Pre(F[1].path, p) /\ p[Len(F[1].path) + 1] = n BY <4>1 DEF Below
      <4>7. Pre(q, p) BY ONLY <1>2, <1>3, <1>c, <4>4, <4>6, PreMore
      <4>8. Len(q) + 1 = Len(F[1].path) + 2 /\ q \in Seq(Names) BY <1>2, <1>3, OneName
      <4>9. Below(q, e, p[Len(q) + 1], p, w) BY <4>1, <4>5, <4>7, <4>8 DEF Below
      <4>10. Kind(e, p[Len(q) + 1]) # "none" BY <4>3, <4>8, <4>9, BelowIs
      <4>11. p[Len(q) + 1] \in Names
        <5>1. p \in Lists!UpTo(MaxDepth) \ {<<>>} BY <4>1 DEF Below
        <5>2. p \in Seq(Names) BY <4>3, <5>1, PathIs
        <5>3. Len(q) + 1 \in 1..Len(p) BY <4>7, <4>8, <5>2 DEF Pre
        <5> QED BY <5>2, <5>3
      <4>12. Has(g, p[Len(q) + 1]) BY <1>8, <4>10, <4>11
      <4>13. Awaits(F2[1], p) /\ w[Len(F2[1].path) + 1] = F2[1].dir
        <5>1. F2[1].path = q /\ F2[1].dir = e /\ Has(F2[1], p[Len(q) + 1]) BY <1>8, <1>10, <4>12
        <5>2. w[Len(q) + 1] = e BY <4>5, <4>8
        <5> QED BY ONLY <4>7, <5>1, <5>2 DEF Awaits
      <4>14. 1 \in 1..Len(F2) BY <1>2, <1>9, <1>10
      <4> QED BY <4>13, <4>14 DEF IsFound
    <3> QED BY <3>1, <3>2, <3>3
  <2> QED BY <2>1, <2>3, FoundOnce
<1> QED BY <1>1, <1>10, <1>11, <1>12 DEF ListOf

(* The actions.                                                            *)
LEMMA ListHere ==
  ASSUME ListIs, frames # <<>>
  PROVE  /\ TreeTyped /\ ListOf(frames, filelist, lost, result) /\ Stack(frames)
         /\ FrameIs(frames[1]) /\ frames[1].path \in Seq(Names) /\ frames[1].dir \in Dirs
         /\ frames[1].left \subseteq Names /\ MaxDepth \in Nat /\ frames \in Seq(ListFrame)
         /\ Len(frames) \in Nat \ {0} /\ result = "building"
<1>1. TreeTyped /\ ListOf(frames, filelist, lost, result) /\ Stack(frames) /\ MaxDepth \in Nat
      /\ result = "building"
  BY DEF ListIs, ListOf, TreeTyped
<1>2. /\ FrameIs(frames[1]) /\ frames[1].path \in Seq(Names) /\ frames[1] \in ListFrame
      /\ frames \in Seq(ListFrame) /\ Len(frames) \in Nat \ {0}
  BY <1>1, TopHere
<1>3. frames[1].dir \in Dirs /\ frames[1].left \subseteq Names BY <1>2 DEF ListFrame
<1> QED BY <1>1, <1>2, <1>3
LEMMA SkipIs ==
  ASSUME NEW F, NEW n, F \in Seq(ListFrame)
  PROVE  /\ [F EXCEPT ![1].left = @ \ {n}] = [F EXCEPT ![1] = Less(F[1], n)]
         /\ [F EXCEPT ![1].left = @ \ {n}, ![1].dirs = <<n>> \o @] = [F EXCEPT ![1] = Noted(F[1], n)]
         /\ [F EXCEPT ![1].dirs = Tail(@)] = [F EXCEPT ![1] = Taken(F[1])]
<1>1. [F EXCEPT ![1].left = @ \ {n}] = [F EXCEPT ![1] = Less(F[1], n)] BY DEF Less
<1>2. [F EXCEPT ![1].left = @ \ {n}, ![1].dirs = <<n>> \o @] = [F EXCEPT ![1] = Noted(F[1], n)]
  BY DEF Noted
<1>3. [F EXCEPT ![1].dirs = Tail(@)] = [F EXCEPT ![1] = Taken(F[1])] BY DEF Taken
<1> QED BY <1>1, <1>2, <1>3

(* An entry that is no file and leads nowhere, or is too far down.         *)
LEMMA NothingThere ==
  ASSUME NEW F, NEW n, NEW F2, NEW L2, NEW S, F[1].path \in Seq(Names), MaxDepth \in Nat,
         ~FileKind(Kind(F[1].dir, n)), \A e : ~Lists!Leads(F[1].dir, n, e)
  PROVE  Nothing(F, n, F2, L2, S)
<1>1. ASSUME NEW p, NEW w, Below(F[1].path, F[1].dir, n, p, w) PROVE FALSE BY <1>1, BelowIs
<1> QED BY <1>1 DEF Nothing
LEMMA NothingNear ==
  ASSUME NEW F, NEW n, NEW F2, NEW L2, NEW S, F[1].path \in Seq(Names), MaxDepth \in Nat,
         Len(Append(F[1].path, n)) > MaxDepth
  PROVE  Nothing(F, n, F2, L2, S)
<1>1. ASSUME NEW p, NEW w, Below(F[1].path, F[1].dir, n, p, w) PROVE FALSE
  <2>1. p \in Lists!UpTo(MaxDepth) \ {<<>>} /\ Pre(F[1].path, p) BY <1>1 DEF Below
  <2>2. Len(p) \in 1..MaxDepth BY <2>1, PathIs
  <2>3. Len(F[1].path) < Len(p) /\ Len(F[1].path) \in Nat BY <2>1 DEF Pre
  <2>4. Len(Append(F[1].path, n)) = Len(F[1].path) + 1 OBVIOUS
  <2> QED BY <2>2, <2>3, <2>4
<1> QED BY <1>1 DEF Nothing

After == ListOf(frames', filelist', lost', result')
LEMMA ListSkip ==
  ASSUME ListIs, NEW n \in Names, Lists!Reads(n), Lists!Skip(n),
         UNCHANGED <<filelist, lost, result>>,
         (~FileKind(Kind(frames[1].dir, n)) /\ \A e : ~Lists!Leads(frames[1].dir, n, e))
           \/ Lists!TooLong(n)
  PROVE  After
<1>1. frames # <<>> /\ n \in frames[1].left BY DEF Lists!Reads, Lists!Top
<1>2. /\ ListOf(frames, filelist, lost, result) /\ MaxDepth \in Nat /\ frames \in Seq(ListFrame)
      /\ frames[1].path \in Seq(Names)
  BY <1>1, ListHere
<1> PICK f : f = Less(frames[1], n) OBVIOUS
<1> PICK F2 : F2 = [frames EXCEPT ![1] = f] OBVIOUS
<1>3. frames' = F2 BY <1>2, SkipIs DEF Lists!Skip
<1>4. Lists!TooLong(n) => Len(Append(frames[1].path, n)) > MaxDepth
  BY DEF Lists!TooLong, Lists!Path, Lists!Top
<1>5. Nothing(frames, n, F2, filelist, lost) BY <1>2, <1>4, NothingThere, NothingNear
<1>6. ListOf(F2, filelist, lost, result) BY <1>1, <1>2, <1>5, ListSkips
<1> QED BY <1>3, <1>6 DEF After
LEMMA ListDir ==
  ASSUME ListIs, NEW n \in Names, Lists!Reads(n), Lists!AddDir(n),
         UNCHANGED <<lost, result>>, IsDir(frames[1].dir, n)
  PROVE  After
<1>1. frames # <<>> /\ n \in frames[1].left BY DEF Lists!Reads, Lists!Top
<1>2. ListOf(frames, filelist, lost, result) /\ frames \in Seq(ListFrame) BY <1>1, ListHere
<1> PICK f : f = Noted(frames[1], n) OBVIOUS
<1> PICK F2 : F2 = [frames EXCEPT ![1] = f] OBVIOUS
<1>3. frames' = F2 /\ filelist' = filelist BY <1>2, SkipIs DEF Lists!AddDir
<1>4. ListOf(F2, filelist, lost, result) BY <1>1, <1>2, ListAddsDir
<1> QED BY <1>3, <1>4 DEF After
LEMMA ListFile ==
  ASSUME ListIs, NEW n \in Names, Lists!Reads(n), Lists!AddFile(n),
         UNCHANGED <<lost, result>>, FileKind(Kind(frames[1].dir, n)),
         \A e : ~Lists!Leads(frames[1].dir, n, e), side = "local" => ~Lists!TooLong(n)
  PROVE  After
<1>1. frames # <<>> /\ n \in frames[1].left BY DEF Lists!Reads, Lists!Top
<1>2. /\ ListOf(frames, filelist, lost, result) /\ MaxDepth \in Nat /\ frames \in Seq(ListFrame)
      /\ frames[1].path \in Seq(Names)
  BY <1>1, ListHere
<1> PICK f : f = Less(frames[1], n) OBVIOUS
<1> PICK F2 : F2 = [frames EXCEPT ![1] = f] OBVIOUS
<1> PICK q : q = Append(frames[1].path, n) OBVIOUS
<1> PICK L2 : L2 = More(filelist, q) OBVIOUS
<1>3. frames' = F2 BY <1>2, SkipIs DEF Lists!AddFile, Lists!Skip
<1>4. filelist' = L2 BY DEF Lists!AddFile, Lists!mkcopyinfo, Lists!Path, Lists!Top, More
<1>5. side = "local" => Len(q) =< MaxDepth
  <2>1. Len(q) \in Nat BY <1>2
  <2> QED BY <1>2, <2>1 DEF Lists!TooLong, Lists!Path, Lists!Top
<1>6. ListOf(F2, L2, lost, result) BY <1>1, <1>2, <1>5, ListAddsFile
<1> QED BY <1>3, <1>4, <1>6 DEF After

LEMMA EntryIs ==
  ASSUME ListIs, NEW n \in Names, Lists!Reads(n)
  PROVE  /\ frames # <<>> /\ n \in frames[1].left /\ side \in {"local", "remote"}
         /\ Lists!Entry(n)[1] = Kind(frames[1].dir, n)
         /\ Kind(frames[1].dir, n) \in {"file", "special", "dangling", "dir", "link"}
         /\ \A e : Lists!Leads(frames[1].dir, n, e) =>
              Kind(frames[1].dir, n) = "dir" \/ (Kind(frames[1].dir, n) = "link" /\ side = "local")
<1>1. frames # <<>> /\ n \in frames[1].left BY DEF Lists!Reads, Lists!Top
<1>2. Lists!Entry(n)[1] = Kind(frames[1].dir, n) BY DEF Lists!Entry, Lists!Top, Kind
<1>3. FrameIs(frames[1]) /\ frames[1].dir \in Dirs /\ TreeTyped BY <1>1, ListHere
<1>4. Kind(frames[1].dir, n) # "none" BY <1>1, <1>3 DEF FrameIs
<1>5. Kind(frames[1].dir, n) \in {"none", "file", "special", "dangling", "dir", "link"} BY <1>3, KindIs
<1> QED BY <1>1, <1>2, <1>3, <1>4, <1>5 DEF TreeTyped, Lists!Leads, Kind

LEMMA ListLocalEntry ==
  ASSUME ListIs, NEW n \in Names, Lists!LocalEntry(n)
  PROVE  After
<1>1. side = "local" /\ Lists!Reads(n) /\ UNCHANGED <<lost, result>> BY DEF Lists!LocalEntry
<1>2. CASE Lists!TooLong(n) /\ Lists!Skip(n) /\ UNCHANGED <<filelist, st>>
  BY <1>1, <1>2, ListSkip
<1>3. CASE \E what \in Lists!Stat(n) :
             /\ ~Lists!TooLong(n) /\ st' = what
             /\ IF what = "dir" THEN Lists!AddDir(n)
                ELSE IF Lists!Entry(n)[1] = "special" THEN Lists!Skip(n) /\ UNCHANGED filelist
                ELSE Lists!AddFile(n)
  <2>1. PICK what \in Lists!Stat(n) :
          /\ ~Lists!TooLong(n)
          /\ IF what = "dir" THEN Lists!AddDir(n)
             ELSE IF Lists!Entry(n)[1] = "special" THEN Lists!Skip(n) /\ UNCHANGED filelist
             ELSE Lists!AddFile(n)
    BY <1>3
  <2>2. /\ Lists!Entry(n)[1] = Kind(frames[1].dir, n)
        /\ Kind(frames[1].dir, n) \in {"file", "special", "dangling", "dir", "link"}
        /\ \A e : Lists!Leads(frames[1].dir, n, e) =>
             Kind(frames[1].dir, n) = "dir" \/ (Kind(frames[1].dir, n) = "link" /\ side = "local")
    BY <1>1, EntryIs
  <2>3. /\ Kind(frames[1].dir, n) \in {"file", "special"} => what # "dir"
        /\ Kind(frames[1].dir, n) \in {"dir", "link"} => what = "dir"
    BY <2>1, <2>2 DEF Lists!Stat
  <2>4. CASE what = "dir"
    <3>1. Lists!AddDir(n) BY <2>1, <2>4
    <3>2. IsDir(frames[1].dir, n) BY <1>1, <2>2, <2>3, <2>4 DEF IsDir
    <3> QED BY <1>1, <3>1, <3>2, ListDir
  <2>5. CASE what # "dir" /\ Lists!Entry(n)[1] = "special"
    <3>1. Lists!Skip(n) /\ UNCHANGED filelist BY <2>1, <2>5
    <3>2. ~FileKind(Kind(frames[1].dir, n)) /\ \A e : ~Lists!Leads(frames[1].dir, n, e)
      BY <2>2, <2>5 DEF FileKind
    <3> QED BY <1>1, <3>1, <3>2, ListSkip
  <2>6. CASE what # "dir" /\ Lists!Entry(n)[1] # "special"
    <3>1. Lists!AddFile(n) BY <2>1, <2>6
    <3>2. FileKind(Kind(frames[1].dir, n)) /\ \A e : ~Lists!Leads(frames[1].dir, n, e)
      BY <2>2, <2>3, <2>6 DEF FileKind
    <3> QED BY <1>1, <2>1, <3>1, <3>2, ListFile
  <2> QED BY <2>4, <2>5, <2>6
<1> QED BY <1>2, <1>3 DEF Lists!LocalEntry

LEMMA ListRemoteEntry ==
  ASSUME ListIs, NEW n \in Names, Lists!RemoteEntry(n)
  PROVE  After
<1>1. side = "remote" /\ Lists!Reads(n) /\ UNCHANGED <<lost, result>> BY DEF Lists!RemoteEntry
<1>2. /\ Lists!Entry(n)[1] = Kind(frames[1].dir, n)
      /\ Kind(frames[1].dir, n) \in {"file", "special", "dangling", "dir", "link"}
      /\ \A e : Lists!Leads(frames[1].dir, n, e) =>
           Kind(frames[1].dir, n) = "dir" \/ (Kind(frames[1].dir, n) = "link" /\ side = "local")
  BY <1>1, EntryIs
<1>3. CASE Lists!Entry(n)[1] = "dir"
  <2>1. Lists!AddDir(n) BY <1>3 DEF Lists!RemoteEntry
  <2>2. IsDir(frames[1].dir, n) BY <1>2, <1>3 DEF IsDir
  <2> QED BY <1>1, <2>1, <2>2, ListDir
<1>4. CASE Lists!Entry(n)[1] = "special"
  <2>1. Lists!Skip(n) /\ UNCHANGED filelist BY <1>4 DEF Lists!RemoteEntry
  <2>2. ~FileKind(Kind(frames[1].dir, n)) /\ \A e : ~Lists!Leads(frames[1].dir, n, e)
    BY <1>2, <1>4 DEF FileKind
  <2> QED BY <1>1, <2>1, <2>2, ListSkip
<1>5. CASE Lists!Entry(n)[1] \notin {"dir", "special"}
  <2>1. Lists!AddFile(n) BY <1>5 DEF Lists!RemoteEntry
  <2>2. FileKind(Kind(frames[1].dir, n)) /\ \A e : ~Lists!Leads(frames[1].dir, n, e)
    BY <1>1, <1>2, <1>5 DEF FileKind
  <2> QED BY <1>1, <2>1, <2>2, ListFile
<1> QED BY <1>3, <1>4, <1>5

LEMMA ListGone ==
  ASSUME ListIs, NEW n \in Names, Lists!LocalGone(n)
  PROVE  After
<1>1. /\ frames # <<>> /\ frames' = Tail(frames) /\ lost' = lost \cup {frames[1].path}
      /\ filelist' = filelist /\ result' = (IF Len(frames) = 1 THEN "failed" ELSE result)
  BY DEF Lists!LocalGone, Lists!Reads, Lists!Top
<1>2. ListOf(frames, filelist, lost, result) /\ MaxDepth \in Nat /\ result = "building" BY <1>1, ListHere
<1> PICK S2 : S2 = lost' OBVIOUS
<1> PICK R2 : R2 = result' OBVIOUS
<1>3. lost \subseteq S2 /\ frames[1].path \in S2 BY <1>1
<1>4. R2 \in {"building", "built", "failed"} /\ (R2 = "building" \/ Len(frames) = 1) BY <1>1, <1>2
<1>5. ListOf(Tail(frames), filelist, S2, R2) BY <1>1, <1>2, <1>3, <1>4, ListEnds
<1> QED BY <1>1, <1>5 DEF After
LEMMA ListReturn ==
  ASSUME ListIs, Lists!Return
  PROVE  After
<1>1. /\ frames # <<>> /\ frames' = Tail(frames) /\ lost' = lost /\ frames[1].left = {}
      /\ frames[1].dirs = <<>>
      /\ filelist' = filelist /\ result' = (IF Len(frames) = 1 THEN "built" ELSE result)
  BY DEF Lists!Return, Lists!Top
<1>2. ListOf(frames, filelist, lost, result) /\ MaxDepth \in Nat /\ result = "building" BY <1>1, ListHere
<1> PICK R2 : R2 = result' OBVIOUS
<1>3. \A m : ~Has(frames[1], m)
  <2>1. Len(frames[1].dirs) = 0 BY <1>1
  <2> QED BY <1>1, <2>1 DEF Has
<1>4. R2 \in {"building", "built", "failed"} /\ (R2 = "building" \/ Len(frames) = 1) BY <1>1, <1>2
<1>5. ListOf(Tail(frames), filelist, lost, R2) BY <1>1, <1>2, <1>3, <1>4, ListEnds
<1> QED BY <1>1, <1>5 DEF After
LEMMA ListFails ==
  ASSUME ListIs, Lists!RemoteFails
  PROVE  After
<1>1. /\ frames # <<>> /\ frames' = <<>> /\ result' = "failed" /\ UNCHANGED <<filelist, lost>>
  BY DEF Lists!RemoteFails
<1>2. Sound(filelist) BY DEF ListIs, ListOf
<1>3. <<>> \in Seq(ListFrame) /\ Len(<<>>) = 0 OBVIOUS
<1>4. \A k \in 1..Len(<<>>) : FALSE BY <1>3
<1>5. Stack(<<>>) BY <1>3, <1>4 DEF Stack
<1>6. Clear(<<>>, filelist) BY <1>4 DEF Clear
<1>7. ListOf(<<>>, filelist, lost, "failed") BY <1>2, <1>5, <1>6 DEF ListOf
<1> QED BY <1>1, <1>7 DEF After

LEMMA ListRecurse ==
  ASSUME ListIs, Lists!Recurse
  PROVE  After
<1>1. /\ frames # <<>> /\ frames[1].left = {} /\ frames[1].dirs # <<>>
      /\ UNCHANGED <<filelist, result, lost>>
  BY DEF Lists!Recurse, Lists!Top
<1>2. /\ ListOf(frames, filelist, lost, result) /\ MaxDepth \in Nat /\ frames \in Seq(ListFrame)
      /\ frames[1].path \in Seq(Names) /\ frames[1].dir \in Dirs /\ FrameIs(frames[1]) /\ TreeTyped
  BY <1>1, ListHere
<1> PICK n : n = Head(frames[1].dirs) OBVIOUS
<1> PICK d : d = frames[1].dir OBVIOUS
<1> PICK f : f = Taken(frames[1]) OBVIOUS
<1> PICK F1 : F1 = [frames EXCEPT ![1] = f] OBVIOUS
<1> PICK q : q = Append(frames[1].path, n) OBVIOUS
<1>3. n \in Names /\ IsDir(d, n) BY <1>1, <1>2, FrameTakes
<1>4. [frames EXCEPT ![1].dirs = Tail(@)] = F1 BY <1>2, SkipIs
<1>5. Lists!Entry(n) = tree[d][n] /\ Lists!Path(n) = q BY DEF Lists!Entry, Lists!Path, Lists!Top
<1>6. IF tree[d][n][1] = "dangling" THEN frames' = F1 ELSE Lists!Calls(tree[d][n][2], q, F1)
  BY <1>1, <1>4, <1>5 DEF Lists!Recurse, Lists!Top
<1>7. Kind(d, n) \in {"dangling", "dir", "link"} /\ (Kind(d, n) \in {"link", "dangling"} => side = "local")
  BY <1>3 DEF IsDir
<1>8. CASE Kind(d, n) = "dangling"
  <2>1. frames' = F1 BY <1>6, <1>8 DEF Kind
  <2>2. ASSUME NEW p, NEW w, Below(frames[1].path, frames[1].dir, n, p, w)
        PROVE  IsFound(F1, filelist, lost, p, w)
    <3>1. \A e : ~Lists!Leads(d, n, e) BY <1>8 DEF Lists!Leads, Kind
    <3>2. w[Len(p)] = d /\ p[Len(p)] = n BY <1>2, <2>2, <3>1, BelowIs
    <3> QED BY <1>7, <1>8, <3>2 DEF IsFound
  <2>3. Nothing(frames, n, F1, filelist, lost) BY <2>2 DEF Nothing
  <2>4. ListOf(F1, filelist, lost, result) BY <1>1, <1>2, <2>3, ListTakes
  <2> QED BY <1>1, <2>1, <2>4 DEF After
<1>9. CASE Kind(d, n) # "dangling" /\ tree[d][n][2] \in unreadable
  <2>1. frames' = F1 BY <1>6, <1>9 DEF Kind, Lists!Calls
  <2>2. ~FileKind(Kind(d, n)) /\ \A e : ~Lists!Leads(d, n, e)
    <3>1. TreeTyped /\ (Kind(d, n) = "dir" \/ (Kind(d, n) = "link" /\ side = "local"))
      BY <1>2, <1>7, <1>9
    <3> QED BY <1>9, <3>1 DEF FileKind, Lists!Leads
  <2>3. Nothing(frames, n, F1, filelist, lost) BY <1>2, <2>2, NothingThere
  <2>4. ListOf(F1, filelist, lost, result) BY <1>1, <1>2, <2>3, ListTakes
  <2> QED BY <1>1, <2>1, <2>4 DEF After
<1>10. CASE Kind(d, n) # "dangling" /\ tree[d][n][2] \notin unreadable
  <2> PICK e : e = tree[d][n][2] OBVIOUS
  <2> PICK g : g = Lists!Frame(e, q) OBVIOUS
  <2> PICK F2 : F2 = More(F1, g) OBVIOUS
  <2>1. frames' = F2 BY <1>6, <1>10 DEF Kind, Lists!Calls, More
  <2>2. e \in Dirs BY <1>2, <1>3, <1>7, <1>10, KindIs
  <2>3. Lists!Leads(d, n, e) BY <1>7, <1>10 DEF Lists!Leads, Kind
  <2>4. ListOf(F2, filelist, lost, result) BY <1>1, <1>2, <2>2, <2>3, ListCalls
  <2> QED BY <1>1, <2>1, <2>4 DEF After
<1> QED BY <1>8, <1>9, <1>10

(* What is read stays as it is.                                            *)
LEMMA TreeStays ==
  ASSUME UNCHANGED <<side, tree, unreadable>>
  PROVE  /\ TreeTyped => TreeTyped'
         /\ \A d, n : Kind(d, n)' = Kind(d, n)
         /\ \A x : FileKind(x)' <=> FileKind(x)
         /\ \A d, n, e : Lists!Leads(d, n, e)' <=> Lists!Leads(d, n, e)
<1>1. TreeTyped => TreeTyped' BY DEF TreeTyped
<1>2. ASSUME NEW d, NEW n PROVE Kind(d, n)' = Kind(d, n) BY DEF Kind
<1>3. ASSUME NEW x PROVE FileKind(x)' <=> FileKind(x) BY DEF FileKind
<1>4. ASSUME NEW d, NEW n, NEW e PROVE Lists!Leads(d, n, e)' <=> Lists!Leads(d, n, e)
  BY DEF Lists!Leads
<1> QED BY <1>1, <1>2, <1>3, <1>4
LEMMA FrameStays ==
  ASSUME UNCHANGED <<side, tree, unreadable>>, NEW f, FrameIs(f)
  PROVE  FrameIs(f)'
<1>1. \A d, n : Kind(d, n)' = Kind(d, n) BY TreeStays
<1>2. \A d, n, e : Lists!Leads(d, n, e)' <=> Lists!Leads(d, n, e) BY TreeStays
<1>3. Reached(f)' BY <1>2 DEF FrameIs, Reached
<1>4. \A d, n : IsDir(d, n)' <=> IsDir(d, n) BY <1>1 DEF IsDir
<1>5. f \in ListFrame /\ (f \in ListFrame)' BY DEF FrameIs, ListFrame
<1>6. \A n \in f.left : (Kind(f.dir, n) # "none")' BY <1>1 DEF FrameIs
<1>7. \A k \in 1..Len(f.dirs) : (f.dirs[k] \notin f.left /\ IsDir(f.dir, f.dirs[k]))'
  BY <1>4 DEF FrameIs
<1> QED BY <1>3, <1>5, <1>6, <1>7 DEF FrameIs
LEMMA FileStays ==
  ASSUME UNCHANGED <<side, tree, unreadable>>
  PROVE  /\ \A p : Lists!Walks(p)' = Lists!Walks(p)
         /\ \A p : Lists!IsFile(p)' <=> Lists!IsFile(p)
<1>1. ASSUME NEW p PROVE Lists!Walks(p)' = Lists!Walks(p) BY DEF Lists!Walks, Lists!Leads
<1>2. ASSUME NEW p PROVE Lists!Files(p)' = Lists!Files(p) BY <1>1 DEF Lists!Files
<1>3. ASSUME NEW p PROVE Lists!IsFile(p)' <=> Lists!IsFile(p) BY <1>2 DEF Lists!IsFile
<1> QED BY <1>1, <1>3
LEMMA ListMoves ==
  ASSUME After, TreeTyped, UNCHANGED <<side, tree, unreadable>>
  PROVE  ListIs'
<1> PICK F : F = frames' OBVIOUS
<1> PICK L : L = filelist' OBVIOUS
<1> PICK S : S = lost' OBVIOUS
<1> PICK R : R = result' OBVIOUS
<1>1. ListOf(F, L, S, R) BY DEF After
<1>2. Stack(F)'
  <2>1. Stack(F) BY <1>1 DEF ListOf
  <2>2. \A k \in 1..Len(F) : FrameIs(F[k])' BY <2>1, FrameStays DEF Stack
  <2>3. (F \in Seq(ListFrame))' /\ \A k, l \in 1..Len(F) : k < l => Deeper(F[k], F[l])'
    BY <2>1 DEF Stack, ListFrame, Deeper, Pre, Awaits, Has
  <2> QED BY <2>2, <2>3 DEF Stack
<1>3. Sound(L)'
  <2>1. Sound(L) BY <1>1 DEF ListOf
  <2>2. \A p : Lists!IsFile(p)' <=> Lists!IsFile(p) BY FileStays
  <2> QED BY <2>1, <2>2 DEF Sound
<1>4. Clear(F, L)' BY <1>1 DEF ListOf, Clear, IsListed, Awaits, Pre, Has
<1>5. ASSUME R # "failed" PROVE AllFound(F, L, S)'
  <2>1. AllFound(F, L, S) BY <1>1, <1>5 DEF ListOf
  <2>2. \A p : Lists!Walks(p)' = Lists!Walks(p) BY FileStays
  <2>3. /\ \A d, n : Kind(d, n)' = Kind(d, n)
        /\ \A x : FileKind(x)' <=> FileKind(x)
    BY TreeStays
  <2>4. ASSUME NEW p, NEW w, IsFound(F, L, S, p, w) PROVE IsFound(F, L, S, p, w)'
    BY <2>3, <2>4 DEF IsFound, IsListed, Awaits, Pre, Has
  <2>5. Lists!UpTo(MaxDepth)' = Lists!UpTo(MaxDepth) BY DEF Lists!UpTo
  <2> QED BY <2>1, <2>2, <2>3, <2>4, <2>5 DEF AllFound
<1>6. ListOf(F, L, S, R)' BY <1>1, <1>2, <1>3, <1>4, <1>5 DEF ListOf
<1>7. TreeTyped' BY TreeStays
<1> QED BY <1>6, <1>7 DEF ListIs

LEMMA ListStays ==
  ASSUME ListIs, UNCHANGED listsVars
  PROVE  ListIs'
<1>1. UNCHANGED <<side, tree, unreadable>> /\ UNCHANGED <<frames, filelist, lost, result>>
  BY DEF listsVars
<1>2. After BY <1>1 DEF ListIs, After
<1> QED BY <1>1, <1>2, ListMoves DEF ListIs
LEMMA ListStep ==
  ASSUME ListIs, Lists!Next
  PROVE  ListIs'
<1>1. After
  <2>1. ASSUME NEW n \in Names, Lists!LocalEntry(n) PROVE After BY <2>1, ListLocalEntry
  <2>2. ASSUME NEW n \in Names, Lists!LocalGone(n) PROVE After BY <2>2, ListGone
  <2>3. ASSUME NEW n \in Names, Lists!RemoteEntry(n) PROVE After BY <2>3, ListRemoteEntry
  <2>4. CASE Lists!RemoteFails BY <2>4, ListFails
  <2>5. CASE Lists!Recurse BY <2>5, ListRecurse
  <2>6. CASE Lists!Return BY <2>6, ListReturn
  <2> QED BY <2>1, <2>2, <2>3, <2>4, <2>5, <2>6 DEF Lists!Next
<1>2. UNCHANGED <<side, tree, unreadable>>
  BY DEF Lists!Next, Lists!LocalEntry, Lists!LocalGone, Lists!RemoteEntry, Lists!RemoteFails,
         Lists!Recurse, Lists!Return
<1> QED BY <1>1, <1>2, ListMoves DEF ListIs

(* At first the root is read.                                              *)
LEMMA ListBegins ==
  ASSUME Lists!Init
  PROVE  ListIs
<1>1. /\ side \in {"local", "remote"} /\ tree \in Trees /\ unreadable \in SUBSET (Dirs \ {root})
      /\ filelist = <<>> /\ frames = <<Lists!Frame(root, <<>>)>>
      /\ result = "building" /\ lost = {}
  BY DEF Lists!Init
<1>2. root \in Dirs /\ Trees \subseteq [Dirs -> [Names -> Lists!Entries]] /\ MaxDepth \in Nat
  BY PartsConstants DEF Lists!ListsAssumption
<1>3. TreeTyped BY <1>1, <1>2 DEF TreeTyped
<1> PICK g : g = Lists!Frame(root, <<>>) OBVIOUS
<1>4. /\ g.path = <<>> /\ g.dir = root /\ g.dirs = <<>>
      /\ g.left = {m \in Names : tree[root][m] # Lists!NoEntry}
      /\ g = [dir |-> g.dir, path |-> g.path, left |-> g.left, dirs |-> g.dirs]
  BY DEF Lists!Frame
<1>5. <<>> \in Seq(Names) /\ Len(<<>>) = 0 OBVIOUS
<1>6. g.left \in SUBSET Names BY <1>4
<1>7. g \in ListFrame BY <1>2, <1>4, <1>5, <1>6 DEF ListFrame
<1>8. Reached(g)
  <2> PICK w : w = [i \in 1..1 |-> root] OBVIOUS
  <2>1. w \in [1..1 -> Dirs] /\ w[1] = root BY <1>2
  <2>2. Len(g.path) = 0 /\ 0 + 1 = 1 /\ \A j \in 1..0 : FALSE BY <1>4, <1>5
  <2> QED BY <1>4, <2>1, <2>2 DEF Reached
<1>9. \A m \in g.left : Kind(g.dir, m) # "none" BY <1>2, <1>3, <1>4, KindIs
<1>10. \A k \in 1..Len(g.dirs) : FALSE BY <1>4, <1>5
<1>11. FrameIs(g) BY <1>7, <1>8, <1>9, <1>10 DEF FrameIs
<1>12. frames = <<g>> /\ frames \in Seq(ListFrame) /\ Len(frames) = 1 /\ frames[1] = g BY <1>1, <1>7
<1>13. Stack(frames)
  <2>1. ASSUME NEW k \in 1..Len(frames) PROVE k = 1 BY <1>12
  <2> QED BY <1>11, <1>12, <2>1 DEF Stack
<1>14. \A k \in 1..Len(filelist) : FALSE BY <1>1, <1>5
<1>15. Sound(filelist)
  <2>1. filelist \in Seq(Seq(Names)) BY <1>1
  <2> QED BY <1>14, <2>1 DEF Sound
<1>16. Clear(frames, filelist) BY <1>14 DEF Clear, IsListed
<1>17. AllFound(frames, filelist, lost)
  <2>1. ASSUME NEW p \in Lists!UpTo(MaxDepth) \ {<<>>}, NEW w \in Lists!Walks(p),
               FileKind(Kind(w[Len(p)], p[Len(p)]))
        PROVE  IsFound(frames, filelist, lost, p, w)
    <3>1. p \in Seq(Names) /\ Len(p) \in 1..MaxDepth BY <1>2, PathIs
    <3>2. Pre(<<>>, p) /\ Len(<<>>) + 1 = 1 BY <1>5, <3>1 DEF Pre
    <3>3. w[1] = root BY DEF Lists!Walks
    <3>4. Below(<<>>, root, p[1], p, w) BY <2>1, <3>2, <3>3 DEF Below
    <3>5. Kind(root, p[1]) # "none" BY <1>2, <1>5, <3>4, BelowIs
    <3>6. p[1] \in Names
      <4>1. 1 \in 1..Len(p) BY <3>1
      <4> QED BY <3>1, <4>1
    <3>7. p[1] \in g.left BY <1>2, <1>3, <1>4, <3>5, <3>6, KindIs
    <3>8. Awaits(g, p) /\ w[Len(g.path) + 1] = g.dir BY <1>4, <3>2, <3>3, <3>7 DEF Awaits, Has
    <3>9. 1 \in 1..Len(frames) BY <1>12
    <3> QED BY <1>12, <3>8, <3>9 DEF IsFound
  <2> QED BY <2>1 DEF AllFound
<1>18. ListOf(frames, filelist, lost, result) BY <1>1, <1>13, <1>15, <1>16, <1>17 DEF ListOf
<1> QED BY <1>3, <1>18 DEF ListIs

(* What is listed, then.                                                   *)
LEMMA ListShows ==
  ASSUME ListIs
  PROVE  Lists!ListRight
<1>1. Sound(filelist) /\ (result = "built" => frames = <<>> /\ AllFound(frames, filelist, lost))
  BY DEF ListIs, ListOf
<1>2. \A i, j \in 1..Len(filelist) : filelist[i] = filelist[j] => i = j BY <1>1 DEF Sound
<1> PICK Listed : Listed = Lists!Range(filelist) OBVIOUS
<1>3. \A p : p \in Listed <=> IsListed(filelist, p)
  <2>1. DOMAIN filelist = 1..Len(filelist) BY <1>1 DEF Sound
  <2> QED BY <2>1 DEF Lists!Range, IsListed
<1>4. \A p \in Listed : Lists!IsFile(p) /\ (side = "local" => Len(p) =< MaxDepth)
  BY <1>1, <1>3 DEF Sound, IsListed
<1>5. ASSUME result = "built", NEW p \in Lists!UpTo(MaxDepth) \ {<<>>}, Lists!IsFile(p)
      PROVE  p \in Listed \/ Lists!Spoilt(p) \/ (side = "local" /\ "dangling" \in Lists!Files(p))
  <2>1. PICK x : x \in Lists!Files(p) /\ FileKind(x)
    BY <1>5 DEF Lists!IsFile, FileKind
  <2>2. PICK w \in Lists!Walks(p) : x = Kind(w[Len(p)], p[Len(p)])
    BY <2>1 DEF Lists!Files, Kind
  <2>3. IsFound(frames, filelist, lost, p, w) BY <1>1, <1>5, <2>1, <2>2 DEF AllFound
  <2>4. \A k \in 1..Len(frames) : FALSE BY <1>1, <1>5
  <2>5. CASE IsListed(filelist, p) BY <1>3, <2>5
  <2>6. CASE \E j \in 0..(Len(p) - 1) : SubSeq(p, 1, j) \in lost
    BY <2>6 DEF Lists!Spoilt, Lists!Prefix
  <2>7. CASE side = "local" /\ Kind(w[Len(p)], p[Len(p)]) = "dangling" BY <2>1, <2>2, <2>7
  <2> QED BY <2>3, <2>4, <2>5, <2>6, <2>7 DEF IsFound
<1> QED BY <1>2, <1>4, <1>5 DEF Lists!ListRight

-----------------------------------------------------------------------------
(* A behaviour of MCDevices is one of one of the parts.                    *)
DevicesInv == IInv /\ WinIs /\ OsxIs /\ SyncIs /\ Roomy /\ ListIs

LEMMA WinKept == ASSUME WinIs, UNCHANGED windowsVars PROVE WinIs'
BY DEF windowsVars, WinIs, WinTyped, WinCounts, WinCount, WinOpening, Windows!OneHandle, Windows!Working

LEMMA OsxKept == ASSUME OsxIs, UNCHANGED osxVars PROVE OsxIs'
BY DEF osxVars, OsxIs, Osx!TypeOK, OsxHandles, OsxIos, OsxIface, OsxPasses, OsxEnds, Found, Late

LEMMA RoomStays == ASSUME Roomy, UNCHANGED syncVars PROVE Roomy'
BY DEF syncVars, Roomy

LEMMA DevicesKept == DevicesSpec => []DevicesInv
<1>1. DevicesInit => DevicesInv
  BY InitHolds, WinInit, OsxStart, SyncBegins, RoomInit, ListBegins DEF DevicesInit, DevicesInv
<1>2. ASSUME DevicesInv, DevicesNext PROVE DevicesInv'
  <2>1. CASE Next /\ UNCHANGED <<windowsVars, osxVars, syncVars, listsVars>>
    BY <1>2, <2>1, TypeNext, CountsNext, PollNext, PaidNext, WinKept, OsxKept, SyncStays, RoomStays,
       ListStays
    DEF DevicesInv, IInv
  <2>2. CASE Windows!Next /\ UNCHANGED <<vars, osxVars, syncVars, listsVars>>
    BY <1>2, <2>2, Stutter, WinStep, OsxKept, SyncStays, RoomStays, ListStays DEF DevicesInv
  <2>3. CASE Osx!Next /\ UNCHANGED <<vars, windowsVars, syncVars, listsVars>>
    BY <1>2, <2>3, Stutter, WinKept, OsxStep, SyncStays, RoomStays, ListStays DEF DevicesInv
  <2>4. CASE Sync!Next /\ UNCHANGED <<vars, windowsVars, osxVars, listsVars>>
    BY <1>2, <2>4, Stutter, WinKept, OsxKept, SyncKept, RoomNext, ListStays DEF DevicesInv
  <2>5. CASE Lists!Next /\ UNCHANGED <<vars, windowsVars, osxVars, syncVars>>
    BY <1>2, <2>5, Stutter, WinKept, OsxKept, SyncStays, RoomStays, ListStep DEF DevicesInv
  <2> QED BY <1>2, <2>1, <2>2, <2>3, <2>4, <2>5 DEF DevicesNext
<1>3. ASSUME DevicesInv, UNCHANGED <<part, vars, syncVars, windowsVars, osxVars, listsVars>>
      PROVE  DevicesInv'
  BY <1>3, Stutter, WinKept, OsxKept, SyncStays, RoomStays, ListStays DEF DevicesInv
<1>4. DevicesInv /\ [DevicesNext]_<<part, vars, syncVars, windowsVars, osxVars, listsVars>> => DevicesInv'
  BY <1>2, <1>3
<1> QED BY <1>1, <1>4, PTL DEF DevicesSpec

(* The types of the backends and of the file service with its commands;    *)
(* a direction of a stream never holds more than it has room for.          *)
THEOREM DevicesTyped == DevicesSpec => []TypesOK
<1>1. DevicesInv => TypesOK
  BY WinSafe, SyncTypeOK DEF DevicesInv, IInv, OsxIs, TypesOK
<1> QED BY <1>1, DevicesKept, PTL

(* No backend uses what it has freed: the handles of Linux and of Windows  *)
(* outlive their threads and the walks of the poll thread, a device of     *)
(* Windows has one open handle however often it is plugged in; and an      *)
(* interface of OS X is released by one io thread at most, a second time   *)
(* or under a transfer only as ReleasedOnce says.                          *)
THEOREM BackendsFreeNothing == DevicesSpec => []NothingFreed
<1>1. DevicesInv => NothingFreed
  <2>1. IInv => NoUseAfterFree
    BY DEF IInv, Counts, Count, Walks, Open, NoUseAfterFree
  <2> QED BY <2>1, WinSafe, OsxSafe DEF DevicesInv, NothingFreed
<1> QED BY <1>1, DevicesKept, PTL

(* A file that one session alone has pushed is on the device whole or not  *)
(* at all once its service is through with it, and whole when the command  *)
(* reported success (unless the local file could not be read); and a pull  *)
(* that reported success has every file that nobody wrote to as it was,    *)
(* but for those whose failure it takes for a success.  The list of what   *)
(* is to be copied has every file that is reached once, and nothing else,  *)
(* but for what local_build_list loses (FileLists), round and round of     *)
(* links included.                                                         *)
THEOREM CopiesWhole == DevicesSpec => []FilesWhole
<1>1. DevicesInv => FilesWhole BY SyncWhole, ListShows DEF DevicesInv, FilesWhole
<1> QED BY <1>1, DevicesKept, PTL

=============================================================================
