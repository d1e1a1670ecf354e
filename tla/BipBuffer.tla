------------------------------ MODULE BipBuffer ------------------------------
(***************************************************************************)
(* One direction of the socket pair that sysdeps_win32.cpp emulates: a     *)
(* buffer in two regions, a writer and a reader that block on events, and  *)
(* the close of either end, which takes no lock.  Region A is              *)
(* a_start..a_end, region B is 0..b_end with b_end <= a_start.             *)
(*                                                                         *)
(* The bytes written are 1, 2, 3, ...: a writer that is told that `count`  *)
(* bytes went in goes on with the byte after them.  What one thread does   *)
(* with the lock held is one step; close is three.                         *)
(***************************************************************************)
EXTENDS Naturals, Sequences

CONSTANTS
    BIP_BUFFER_SIZE,
    MaxLen,          \* bytes of one call (bound)
    MaxBytes         \* bytes written in a behaviour (bound)

(* Assumed of the constants (an instance checks it). *)
BipAssumption == {BIP_BUFFER_SIZE, MaxLen, MaxBytes} \subseteq Nat \ {0}

VARIABLES
    a_start, a_end, b_end,
    buff,                   \* the bytes of the buffer (0: never written)
    can_write, can_read,
    evt_write, evt_read,    \* manual-reset events
    closed, closer,         \* the flag; the step at which bip_buffer_close is
    wpc, wlen,              \* the writer and the length of its call
    rpc, rlen,              \* the reader and the length of its call
    sent,                   \* bytes the writer was told went in
    got,                    \* bytes the reader was given
    split                   \* a call has copied to, or from, both regions

region == <<a_start, a_end, b_end, buff>>
flags == <<can_write, can_read, evt_write, evt_read>>
vars == <<a_start, a_end, b_end, buff, can_write, can_read, evt_write, evt_read, closed, closer,
          wpc, wlen, rpc, rlen, sent, got, split>>

Least(m, n) == IF m =< n THEN m ELSE n
Stored == (a_end - a_start) + b_end
Room == BIP_BUFFER_SIZE - Stored

(* bip_buffer_init *)
Init ==
    /\ a_start = 0 /\ a_end = 0 /\ b_end = 0
    /\ buff = [i \in 0..BIP_BUFFER_SIZE - 1 |-> 0]
    /\ can_write = TRUE /\ can_read = FALSE /\ evt_write = TRUE /\ evt_read = FALSE
    /\ closed = FALSE /\ closer = "no"
    /\ wpc = "idle" /\ wlen = 0 /\ rpc = "idle" /\ rlen = 0
    /\ sent = 0 /\ got = <<>> /\ split = FALSE

Fills(stored) == stored >= BIP_BUFFER_SIZE - 1    \* mutant
Full(stored) == stored = BIP_BUFFER_SIZE

(* memcpy(buff + at, the n bytes from `first` on) *)
Copied(b, at, first, n) ==
    [i \in DOMAIN b |-> IF i >= at /\ i < at + n THEN first + (i - at) ELSE b[i]]

(* The byte the second memcpy of a write starts at: src has not been moved, *)
(* only the local src_ of the first one.                                    *)
WrapSource(inA) == sent + 1

(* bip_buffer_write with can_write: as much as fits to region A, and what   *)
(* is left of the call to region B.                                         *)
WriteRegions ==
    LET inA == Least(BIP_BUFFER_SIZE - a_end, wlen)
        inB == IF a_start = 0 THEN 0 ELSE Least(a_start - b_end, wlen - inA)
        full == Full(Stored + inA + inB)
    IN  /\ a_end' = a_end + inA
        /\ b_end' = b_end + inB
        /\ buff' = Copied(Copied(buff, a_end, sent + 1, inA), b_end, WrapSource(inA), inB)
        /\ sent' = sent + inA + inB
        /\ split' = (split \/ (inA > 0 /\ inB > 0))
        /\ can_write' = ~full /\ evt_write' = ~full
        /\ can_read' = TRUE /\ evt_read' = TRUE
        /\ a_start' = a_start

Write ==
    /\ wpc = "enter"
    /\ IF can_write
       THEN WriteRegions /\ wpc' = "idle"
       ELSE wpc' = "full" /\ UNCHANGED <<region, flags, sent, split>>
    /\ UNCHANGED <<closed, closer, wlen, rpc, rlen, got>>

CallWrite(n) ==
    /\ wpc = "idle" /\ sent + n =< MaxBytes
    /\ wpc' = "enter" /\ wlen' = n
    /\ UNCHANGED <<region, flags, closed, closer, rpc, rlen, sent, got, split>>

(* Outside the lock: give up if closed, else wait for evt_write and look    *)
(* again.                                                                   *)
WriteWait ==
    /\ \/ wpc = "full" /\ wpc' = (IF closed THEN "failed" ELSE "wait")
       \/ wpc = "wait" /\ evt_write /\ wpc' = (IF closed THEN "failed" ELSE "enter")
    /\ UNCHANGED <<region, flags, closed, closer, wlen, rpc, rlen, sent, got, split>>

(* bip_buffer_read with can_read: from region A, and when that is empty     *)
(* region B becomes region A and the read goes on there.                    *)
PieceAt0(b, from, n) == [i \in 1..n |-> b[i - 1]]    \* mutant
Piece(b, from, n) == [i \in 1..n |-> b[from + i - 1]]

(* The second memcpy of a read goes to dst again, not behind the first.     *)
Joined(x, y) == [i \in 1..(Len(x) + Len(y)) |->
                    IF i =< Len(y) THEN y[i] ELSE IF i =< Len(x) THEN x[i] ELSE 0]

ReadRegions ==
    LET inA == Least(a_end - a_start, rlen)
        emptied == a_start + inA = a_end
        inB == IF emptied THEN Least(b_end, rlen - inA) ELSE 0
        empty == emptied /\ inB = b_end
    IN  /\ a_start' = IF ~emptied THEN a_start + inA ELSE IF empty THEN 0 ELSE inB
        /\ a_end' = IF ~emptied THEN a_end ELSE IF empty THEN 0 ELSE b_end
        /\ b_end' = IF emptied THEN 0 ELSE b_end
        /\ got' = got \o Joined(Piece(buff, a_start, inA), Piece(buff, 0, inB))
        /\ split' = (split \/ (inA > 0 /\ inB > 0))
        /\ can_read' = ~empty /\ evt_read' = ~empty
        /\ can_write' = TRUE
        /\ evt_write' = (evt_write \/ ~can_write)
        /\ buff' = buff

Read ==
    /\ rpc = "enter"
    /\ IF can_read
       THEN ReadRegions /\ rpc' = "idle"
       ELSE rpc' = "empty" /\ UNCHANGED <<region, flags, got, split>>
    /\ UNCHANGED <<closed, closer, wpc, wlen, rlen, sent>>

CallRead(n) ==
    /\ rpc = "idle"
    /\ rpc' = "enter" /\ rlen' = n
    /\ UNCHANGED <<region, flags, closed, closer, wpc, wlen, sent, got, split>>

ReadWait ==
    /\ \/ rpc = "empty" /\ rpc' = (IF closed THEN "failed" ELSE "wait")
       \/ rpc = "wait" /\ evt_read /\ rpc' = (IF closed THEN "failed" ELSE "enter")
    /\ UNCHANGED <<region, flags, closed, closer, wpc, wlen, rlen, sent, got, split>>

WakesNot(evt, can) == evt    \* mutant
Wakes(evt, can) == evt \/ ~can

(* bip_buffer_close, by the thread that closes an end: the flag, then the   *)
(* two events, each if its flag is seen clear, none of it under the lock.   *)
Close ==
    \/ /\ closer = "no" /\ closer' = "reader" /\ closed' = TRUE
       /\ UNCHANGED flags
    \/ /\ closer = "reader" /\ closer' = "writer"
       /\ evt_read' = Wakes(evt_read, can_read)
       /\ UNCHANGED <<can_write, can_read, evt_write, closed>>
    \/ /\ closer = "writer" /\ closer' = "done"
       /\ evt_write' = Wakes(evt_write, can_write)
       /\ UNCHANGED <<can_write, can_read, evt_read, closed>>
CloseEnd == Close /\ UNCHANGED <<region, wpc, wlen, rpc, rlen, sent, got, split>>

Next ==
    \/ \E n \in 1..MaxLen : CallWrite(n) \/ CallRead(n)
    \/ Write \/ WriteWait \/ Read \/ ReadWait \/ CloseEnd

(* The threads run; a close that has begun ends. *)
Writer == Write \/ WriteWait
Reader == Read \/ ReadWait
Fairness == WF_vars(Writer) /\ WF_vars(Reader) /\ WF_vars(closed /\ CloseEnd)

Spec == Init /\ [][Next]_vars /\ Fairness

-----------------------------------------------------------------------------
(* The regions hold exactly what went in and has not come out, B never      *)
(* overlaps A, and the flags and events say so: can_read when there is a    *)
(* byte, can_write when there is room (the asserts of write and read, lines *)
(* 989 and 1060), an event being set whenever its flag is.                  *)
RegionsAgree ==
    /\ 0 =< b_end /\ b_end =< a_start /\ a_start =< a_end /\ a_end =< BIP_BUFFER_SIZE
    /\ (b_end > 0 => a_end = BIP_BUFFER_SIZE)
    /\ Stored = sent - Len(got)
    /\ (can_read <=> Stored > 0) /\ (can_write <=> Room > 0)
    /\ (can_read => evt_read) /\ (can_write => evt_write)

(* Nobody stays asleep: a reader that waits while there is a byte, a writer *)
(* that waits while there is room, or either after a close, goes on.        *)
ReaderDue == rpc = "wait" /\ (Stored > 0 \/ closed)
WriterDue == wpc = "wait" /\ (Room > 0 \/ closed)
Woken == (ReaderDue ~> rpc # "wait") /\ (WriterDue ~> wpc # "wait")

(* The bytes come out in the order they went in as long as no call has been *)
(* split between the regions.  After one has, they need not: the second     *)
(* memcpy of a write starts at the unmoved src and that of a read goes to   *)
(* the unmoved dst (lines 994 and 1082), while src_ and dst_ were meant.    *)
SameBytes == ~split => \A i \in DOMAIN got : got[i] = i

=============================================================================
