------------------------------ MODULE UsbLinux ------------------------------
(***************************************************************************)
(* The USB backend of the server on Linux (android-tools/adb-bin/          *)
(* usb_linux.c) under the threads that use it: the poll thread, which      *)
(* scans /dev/bus/usb every second, opens what is new and kicks what is    *)
(* gone, and the two io threads of each transport, which read, write, kick *)
(* and drop their references (transport.cpp).                              *)
(*                                                                         *)
(* A handle h (usb_handle, with its transport) belongs to the device file  *)
(* node[h]. What a thread does under one mutex is one step, but usb_lock   *)
(* and transport_lock are held over several where a path waits for one of  *)
(* them while it holds the other. The lock of a handle is only waited for  *)
(* by threads that hold nothing its owner waits for, and is left out. A    *)
(* transfer is one urb; its bytes are left out, and so are the empty       *)
(* packet that ends some writes, whose result nobody looks at, and the     *)
(* SIGALRM that usb_kick sends to the reader besides cancelling its urb.   *)
(***************************************************************************)
EXTENDS Naturals

CONSTANTS
  Node,          \* device files
  NoNode,        \* the node of a handle that is not open yet
  ReadOnly,      \* those adb may only open to read: CS_NOPERM
  MaxHandles,    \* bound: handles open at a time
  MaxTransfers   \* bound: transfers a device takes, per handle

ASSUME UsbAssumption ==
  /\ ReadOnly \subseteq Node /\ NoNode \notin Node
  /\ MaxHandles \in Nat /\ MaxTransfers \in Nat

Handle == 1..MaxHandles

VARIABLES
  present,    \* device files that are there
  node,       \* node[h]: the file h was opened for
  handle,     \* handle[h]: "none", "open" (on handle_list) or "freed"
  mark,       \* handles seen by this scan (h->mark)
  dead,       \* handles that were kicked (h->dead)
  busy,       \* handles with urb_out_busy set
  urbIn,      \* urbIn[h] and urbOut[h]: "idle", "pending" (submitted),
  urbOut,     \*   "done" or "failed" (completed, with its status)
  transport,  \* transport[h]: "none", "queued", "listed" or "unlisted"
  kicked,     \* transports with t->kicked set
  ref,        \* ref[h]: t->ref_count
  offline,    \* transports whose input thread was sent SYNC(0,0)
  reader,     \* reader[h]: where the output thread is
  writer,     \* writer[h]: where the input thread is
  poll,       \* the poll thread is in "scan" or, with usb_lock, in "kick"
  todo,       \* what the poll thread has still to look at there
  skipped,    \* files this scan missed, as their directory could not be read
  listLock,   \* who holds transport_lock
  out,        \* out[h]: transfers the device took
  wrote,      \* wrote[h]: writes reported as complete
  unsure      \* unsure[h]: failed writes reported so, at ETIMEDOUT bytes

deviceVars == <<present, out>>
handleVars == <<node, handle, mark, dead>>
urbVars == <<busy, urbIn, urbOut>>
transportVars == <<transport, kicked, ref, offline>>
pollVars == <<poll, todo, skipped>>
writeVars == <<wrote, unsure>>
vars == <<deviceVars, handleVars, urbVars, transportVars, reader, writer,
          pollVars, listLock, writeVars>>

Free == <<"free", 0>>
UsbLockFree == poll # "kick"
Open(h) == handle[h] = "open"
OpenHandles == {h \in Handle : Open(h)}
Here(h) == node[h] \in present
Writeable(h) == node[h] \notin ReadOnly

-----------------------------------------------------------------------------
(* The devices and the kernel.                                             *)

(* "Linux will not reassign the device ID (and dev_name) as long as the    *)
(* device is open" (register_device).                                      *)
Plug(n) ==
  /\ n \notin present /\ \A h \in OpenHandles : node[h] # n
  /\ present' = present \cup {n}
  /\ UNCHANGED <<out, handleVars, urbVars, transportVars, reader, writer,
                 pollVars, listLock, writeVars>>

Unplug(n) ==
  /\ n \in present
  /\ present' = present \ {n}
  /\ UNCHANGED <<out, handleVars, urbVars, transportVars, reader, writer,
                 pollVars, listLock, writeVars>>

(* The device gives, or takes, what an urb carries.                        *)
Deliver(h) ==
  /\ urbIn[h] = "pending" /\ Here(h)
  /\ urbIn' = [urbIn EXCEPT ![h] = "done"]
  /\ UNCHANGED <<deviceVars, handleVars, busy, urbOut, transportVars, reader,
                 writer, pollVars, listLock, writeVars>>

Accept(h) ==
  /\ urbOut[h] = "pending" /\ Here(h) /\ out[h] < MaxTransfers
  /\ urbOut' = [urbOut EXCEPT ![h] = "done"]
  /\ out' = [out EXCEPT ![h] = @ + 1]
  /\ UNCHANGED <<present, handleVars, busy, urbIn, transportVars, reader,
                 writer, pollVars, listLock, writeVars>>

(* An urb completes with an error; with the device gone each one does.     *)
Cancelled(u) == IF u = "pending" THEN "failed" ELSE u

Fail(h) ==
  /\ \/ /\ urbIn[h] = "pending" /\ UNCHANGED urbOut
        /\ urbIn' = [urbIn EXCEPT ![h] = "failed"]
     \/ /\ urbOut[h] = "pending" /\ UNCHANGED urbIn
        /\ urbOut' = [urbOut EXCEPT ![h] = "failed"]
  /\ UNCHANGED <<deviceVars, handleVars, busy, transportVars, reader, writer,
                 pollVars, listLock, writeVars>>

-----------------------------------------------------------------------------
(* usb_kick, and the steps of the two io threads that are alike.           *)

(* usb_kick under h->lock: a handle that can be written has its urbs       *)
(* cancelled, so that both threads return; for the other the transport is  *)
(* taken off the list.                                                     *)
Kicks(h) ==
  /\ dead' = dead \cup {h}
  /\ IF h \in dead THEN UNCHANGED <<urbVars, transport>>
     ELSE IF Writeable(h)
     THEN /\ urbIn' = [urbIn EXCEPT ![h] = Cancelled(@)]
          /\ urbOut' = [urbOut EXCEPT ![h] = Cancelled(@)]
          /\ busy' = busy \ {h}
          /\ UNCHANGED transport
     ELSE /\ listLock = Free
          /\ transport' = [transport EXCEPT ![h] =
                             IF @ = "listed" THEN "unlisted" ELSE @]
          /\ UNCHANGED urbVars

ReaderTo(h, pc) == reader' = [reader EXCEPT ![h] = pc]
WriterTo(h, pc) == writer' = [writer EXCEPT ![h] = pc]

(* kick_transport: t->kicked is tested and set under transport_lock, and   *)
(* t->kick called without it.                                              *)
TestKicked(h, pc) ==
  /\ pc[h] = "kick" /\ listLock = Free
  /\ kicked' = kicked \cup {h}
  /\ pc' = [pc EXCEPT ![h] = IF h \in kicked THEN "unref" ELSE "usbkick"]
  /\ UNCHANGED <<deviceVars, handleVars, urbVars, transport, ref, offline,
                 pollVars, listLock, writeVars>>

UsbKick(h, pc) ==
  /\ pc[h] = "usbkick" /\ Kicks(h)
  /\ pc' = [pc EXCEPT ![h] = "unref"]
  /\ UNCHANGED <<deviceVars, node, handle, mark, kicked, ref, offline,
                 pollVars, listLock, writeVars>>

(* transport_unref: the last reference closes the handle, still under      *)
(* transport_lock (both threads have kicked it by then).                   *)
LastRefEarly(n) == TRUE                                             \* mutant
LastRefLate(n) == n = 0                                             \* mutant
LastRef(n) == n = 1

Unref(h, pc, me) ==
  /\ pc[h] = "unref" /\ listLock = Free
  /\ ref' = [ref EXCEPT ![h] = @ - 1]
  /\ IF LastRef(ref[h])
     THEN listLock' = me /\ pc' = [pc EXCEPT ![h] = "close"]
     ELSE UNCHANGED listLock /\ pc' = [pc EXCEPT ![h] = "over"]
  /\ UNCHANGED <<deviceVars, handleVars, urbVars, transport, kicked, offline,
                 pollVars, writeVars>>

(* usb_close: the handle leaves handle_list under usb_lock and is freed.   *)
(* remove_transport then tells the event loop, which takes the transport   *)
(* off its list (RemoveTransport).                                         *)
UsbClose(h, pc) ==
  /\ pc[h] = "close" /\ UsbLockFree
  /\ handle' = [handle EXCEPT ![h] = "freed"]
  /\ listLock' = Free
  /\ pc' = [pc EXCEPT ![h] = "over"]
  /\ UNCHANGED <<deviceVars, node, mark, dead, urbVars, transportVars,
                 pollVars, writeVars>>

-----------------------------------------------------------------------------
(* The output thread: usb_bulk_read, then handle_output_offline and        *)
(* handle_output_oops once a read has failed.                              *)

SubmitIn(h) ==
  /\ reader[h] = "run"
  /\ IF h \notin dead /\ Here(h)
     THEN urbIn' = [urbIn EXCEPT ![h] = "pending"] /\ ReaderTo(h, "reap")
     ELSE UNCHANGED urbIn /\ ReaderTo(h, "failed")
  /\ UNCHANGED <<deviceVars, handleVars, busy, urbOut, transportVars, writer,
                 pollVars, listLock, writeVars>>

(* REAPURB, without h->lock: it returns an urb that has completed, the     *)
(* reader's own or the writer's, or an error once the device is gone.      *)
Completed(u) == u \in {"done", "failed"}

Reap(h) ==
  /\ reader[h] = "reap"
  /\ \/ Completed(urbIn[h]) /\ ReaderTo(h, "in")
     \/ Completed(urbOut[h]) /\ h \in busy /\ ReaderTo(h, "out")
     \/ ~Here(h) /\ ReaderTo(h, "error")
  /\ UNCHANGED <<deviceVars, handleVars, urbVars, transportVars, writer,
                 pollVars, listLock, writeVars>>

(* With h->lock again: what was returned counts only if h is not dead.     *)
Reaped(h) ==
  /\ reader[h] \in {"in", "out", "error"}
  /\ ReaderTo(h, IF h \in dead \/ reader[h] = "error" THEN "failed"
                 ELSE IF reader[h] = "out" THEN "reap"
                 ELSE IF urbIn[h] = "done" THEN "run" ELSE "failed")
  /\ busy' = IF h \notin dead /\ reader[h] = "out" THEN busy \ {h} ELSE busy
  /\ urbIn' = IF reader[h] = "in" THEN [urbIn EXCEPT ![h] = "idle"] ELSE urbIn
  /\ UNCHANGED <<deviceVars, handleVars, urbOut, transportVars, writer,
                 pollVars, listLock, writeVars>>

PostOffline(h) ==
  /\ reader[h] = "failed" /\ ReaderTo(h, "kick")
  /\ offline' = offline \cup {h}
  /\ UNCHANGED <<deviceVars, handleVars, urbVars, transport, kicked, ref,
                 writer, pollVars, listLock, writeVars>>

ReaderEnds(h) ==
  /\ \/ TestKicked(h, reader) \/ UsbKick(h, reader)
     \/ Unref(h, reader, <<"reader", h>>) \/ UsbClose(h, reader)
  /\ UNCHANGED writer

-----------------------------------------------------------------------------
(* The input thread: usb_bulk_write for each packet, whose result nobody   *)
(* looks at, until SYNC(0,0).                                              *)

SubmitOut(h) ==
  /\ writer[h] = "run" /\ h \notin dead /\ Here(h)
  /\ urbOut' = [urbOut EXCEPT ![h] = "pending"]
  /\ busy' = busy \cup {h}
  /\ WriterTo(h, "wait")
  /\ UNCHANGED <<deviceVars, handleVars, urbIn, transportVars, reader,
                 pollVars, listLock, writeVars>>

(* The wait on h->notify is left when h is dead or the urb was reaped. The *)
(* five seconds of pthread_cond_timedwait only make it look again, since   *)
(* res < 0 never holds: it returns ETIMEDOUT, which is positive. If they   *)
(* are just over and the urb was not taken, usb_bulk_write returns that    *)
(* too, and usb_write compares it with the length of the packet, which may *)
(* be 110 bytes (as often as MaxTransfers here).                           *)
WaitOver(h) == h \in dead \/ h \notin busy
WrittenAny(h) == h \notin dead                                      \* mutant
Written(h) == h \notin dead /\ urbOut[h] = "done"
Reported(h) == wrote' = [wrote EXCEPT ![h] = @ + 1]
TimedOut(h) == Reported(h) /\ unsure' = [unsure EXCEPT ![h] = @ + 1]

WriteEnds(h) ==
  /\ writer[h] = "wait" /\ WaitOver(h)
  /\ WriterTo(h, "run")
  /\ \/ Written(h) /\ Reported(h) /\ UNCHANGED unsure
     \/ ~Written(h) /\ UNCHANGED <<wrote, unsure>>
     \/ ~Written(h) /\ unsure[h] < MaxTransfers /\ TimedOut(h)
  /\ urbOut' = [urbOut EXCEPT ![h] = "idle"]
  /\ UNCHANGED <<deviceVars, handleVars, busy, urbIn, transportVars, reader,
                 pollVars, listLock>>

SeeOffline(h) ==
  /\ writer[h] = "run" /\ h \in offline
  /\ WriterTo(h, "kick")
  /\ UNCHANGED <<deviceVars, handleVars, urbVars, transportVars, reader,
                 pollVars, listLock, writeVars>>

WriterEnds(h) ==
  /\ \/ TestKicked(h, writer) \/ UsbKick(h, writer)
     \/ Unref(h, writer, <<"writer", h>>) \/ UsbClose(h, writer)
  /\ UNCHANGED reader

-----------------------------------------------------------------------------
(* The event loop: transport_registration_func. "initial references are    *)
(* the two threads"; a device that cannot be written has none.             *)

OneReference == 1                                                   \* mutant
References == 2

AddTransport(h) ==
  /\ transport[h] = "queued" /\ listLock = Free
  /\ transport' = [transport EXCEPT ![h] = "listed"]
  /\ IF Writeable(h)
     THEN /\ ref' = [ref EXCEPT ![h] = References]
          /\ ReaderTo(h, "run") /\ WriterTo(h, "run")
     ELSE UNCHANGED <<ref, reader, writer>>
  /\ UNCHANGED <<deviceVars, handleVars, urbVars, kicked, offline, pollVars,
                 listLock, writeVars>>

(* With the transport gone nothing is left of the device.                  *)
RemoveTransport(h) ==
  /\ handle[h] = "freed" /\ transport[h] = "listed" /\ listLock = Free
  /\ transport' = [transport EXCEPT ![h] = "none"]
  /\ handle' = [handle EXCEPT ![h] = "none"]
  /\ node' = [node EXCEPT ![h] = NoNode]
  /\ mark' = mark \ {h} /\ dead' = dead \ {h} /\ busy' = busy \ {h}
  /\ urbIn' = [urbIn EXCEPT ![h] = "idle"]
  /\ urbOut' = [urbOut EXCEPT ![h] = "idle"]
  /\ kicked' = kicked \ {h} /\ offline' = offline \ {h}
  /\ ReaderTo(h, "off") /\ WriterTo(h, "off")
  /\ out' = [out EXCEPT ![h] = 0] /\ wrote' = [wrote EXCEPT ![h] = 0]
  /\ unsure' = [unsure EXCEPT ![h] = 0]
  /\ UNCHANGED <<present, ref, pollVars, listLock>>

-----------------------------------------------------------------------------
(* The poll thread: find_usb_device, then kick_disconnected_devices.       *)

Known(n) == {h \in OpenHandles : node[h] = n}

(* register_device: a new handle, marked so that it outlives this scan.    *)
RegisteredBare(h) == mark                                           \* mutant
RegisteredMarks(h) == mark \cup {h}

Register(n, h) ==
  /\ handle[h] = "none" /\ \A g \in Handle : g < h => handle[g] # "none"
  /\ handle' = [handle EXCEPT ![h] = "open"]
  /\ node' = [node EXCEPT ![h] = n]
  /\ mark' = RegisteredMarks(h)
  /\ transport' = [transport EXCEPT ![h] = "queued"]

(* opendir may fail, and what is in that directory is passed over.         *)
Skips(n) ==
  /\ n \in present /\ Known(n) # {}
  /\ skipped' = skipped \cup {n}
  /\ UNCHANGED <<handle, node, mark, transport>>

Looks(n) ==
  /\ UNCHANGED skipped
  /\ IF n \in present /\ Known(n) = {}
     THEN \/ \E h \in Handle : Register(n, h)
          \/ UNCHANGED <<handle, node, mark, transport>>   \* it cannot be opened
     ELSE /\ mark' = IF n \in present THEN mark \cup Known(n) ELSE mark
          /\ UNCHANGED <<handle, node, transport>>

Scan(n) ==
  /\ poll = "scan" /\ n \in todo
  /\ todo' = todo \ {n}
  /\ Skips(n) \/ Looks(n)
  /\ UNCHANGED <<deviceVars, dead, urbVars, kicked, ref, offline, reader,
                 writer, poll, listLock, writeVars>>

KickStart ==
  /\ poll = "scan" /\ todo = {}
  /\ poll' = "kick" /\ todo' = OpenHandles
  /\ UNCHANGED <<deviceVars, handleVars, urbVars, transportVars, reader,
                 writer, skipped, listLock, writeVars>>

KickOne(h) ==
  /\ poll = "kick" /\ h \in todo
  /\ todo' = todo \ {h}
  /\ IF h \in mark
     THEN mark' = mark \ {h} /\ UNCHANGED <<dead, urbVars, transport>>
     ELSE Kicks(h) /\ UNCHANGED mark
  /\ UNCHANGED <<deviceVars, node, handle, kicked, ref, offline, reader,
                 writer, poll, skipped, listLock, writeVars>>

KickEnd ==
  /\ poll = "kick" /\ todo = {}
  /\ poll' = "scan" /\ todo' = Node /\ skipped' = {}
  /\ UNCHANGED <<deviceVars, handleVars, urbVars, transportVars, reader,
                 writer, listLock, writeVars>>

-----------------------------------------------------------------------------
Init ==
  /\ present = {} /\ node = [h \in Handle |-> NoNode]
  /\ handle = [h \in Handle |-> "none"]
  /\ mark = {} /\ dead = {} /\ busy = {}
  /\ urbIn = [h \in Handle |-> "idle"] /\ urbOut = [h \in Handle |-> "idle"]
  /\ transport = [h \in Handle |-> "none"]
  /\ kicked = {} /\ ref = [h \in Handle |-> 0] /\ offline = {}
  /\ reader = [h \in Handle |-> "off"] /\ writer = [h \in Handle |-> "off"]
  /\ poll = "scan" /\ todo = Node /\ skipped = {} /\ listLock = Free
  /\ unsure = [h \in Handle |-> 0]
  /\ out = [h \in Handle |-> 0] /\ wrote = [h \in Handle |-> 0]

Reads(h) == SubmitIn(h) \/ Reap(h) \/ Reaped(h) \/ PostOffline(h) \/ ReaderEnds(h)
Loop(h) == AddTransport(h) \/ RemoveTransport(h)
Polls == (\E n \in Node : Scan(n)) \/ KickStart
           \/ (\E h \in Handle : KickOne(h)) \/ KickEnd

Next ==
  \/ \E n \in Node : Plug(n) \/ Unplug(n)
  \/ Polls
  \/ \E h \in Handle :
       \/ Deliver(h) \/ Accept(h) \/ Fail(h) \/ Loop(h) \/ Reads(h)
       \/ SubmitOut(h) \/ WriteEnds(h) \/ SeeOffline(h) \/ WriterEnds(h)

Spec == Init /\ [][Next]_vars

(* The threads run, come to every packet of their queue and get a mutex    *)
(* that is free again and again (the poll thread sleeps for a second       *)
(* without one); transfers of a device that is gone fail. A device that is *)
(* there owes nothing.                                                     *)
IoFairness ==
  \A h \in Handle :
     /\ WF_vars(Fail(h) /\ ~Here(h)) /\ SF_vars(Loop(h))
     /\ WF_vars(Reads(h)) /\ SF_vars(ReaderEnds(h))
     /\ WF_vars(WriteEnds(h)) /\ SF_vars(SeeOffline(h)) /\ SF_vars(WriterEnds(h))
Fairness == WF_vars(Polls) /\ IoFairness

FairSpec == Spec /\ Fairness

-----------------------------------------------------------------------------
EndPc == {"kick", "usbkick", "unref", "close", "over"}

(* Every variable has its type, and a count is never negative.             *)
TypeOK ==
  /\ present \subseteq Node
  /\ node \in [Handle -> Node \cup {NoNode}]
  /\ handle \in [Handle -> {"none", "open", "freed"}]
  /\ mark \subseteq Handle /\ dead \subseteq Handle /\ busy \subseteq Handle
  /\ urbIn \in [Handle -> {"idle", "pending", "done", "failed"}]
  /\ urbOut \in [Handle -> {"idle", "pending", "done", "failed"}]
  /\ transport \in [Handle -> {"none", "queued", "listed", "unlisted"}]
  /\ kicked \subseteq Handle /\ offline \subseteq Handle /\ ref \in [Handle -> 0..2]
  /\ reader \in [Handle -> {"off", "run", "reap", "in", "out", "error", "failed"} \cup EndPc]
  /\ writer \in [Handle -> {"off", "run", "wait"} \cup EndPc]
  /\ \/ poll = "scan" /\ todo \subseteq Node
     \/ poll = "kick" /\ todo \subseteq Handle
  /\ listLock \in {Free} \cup ({"reader", "writer"} \X Handle)
  /\ out \in [Handle -> 0..MaxTransfers]
  /\ wrote \in [Handle -> Nat] /\ unsure \in [Handle -> Nat]
  /\ skipped \subseteq Node

(* A handle is freed by the last of its two threads, and never while the   *)
(* poll thread walks over it: handle_list, its lock and the references of  *)
(* the transport together keep h valid for all who use it.                 *)
NoUseAfterFree ==
  \A h \in Handle : handle[h] = "freed" =>
    /\ reader[h] = "over" /\ writer[h] = "over"
    /\ ~(poll = "kick" /\ h \in todo)

(* usb_write reports success only for a transfer the device took, though   *)
(* another thread reaps its urb and a kick may cancel it meanwhile; but a  *)
(* wait that times out is taken for a transfer of ETIMEDOUT bytes.         *)
NoFalseSuccess == \A h \in Handle : wrote[h] <= out[h] + unsure[h]

(* The poll thread kicks only what its last scan did not find: a device    *)
(* that is there, or was opened in this scan, is left alone, unless its    *)
(* directory could not be read in this scan.                               *)
OnlyGoneKicked ==
  [][\A h \in Handle :
       poll = "kick" /\ todo' = todo \ {h} /\ h \in todo /\ h \in dead' \ dead
         => ~Here(h) \/ node[h] \in skipped]_vars

(* A device that is pulled out is closed in the end, wherever its threads  *)
(* are: in a transfer, between two, or already on their way out.           *)
Leaving(h) == Open(h) /\ Writeable(h) /\ ~Here(h)
Left(h) == handle[h] = "freed"
GoneClosed == \A h \in Handle : Leaving(h) ~> Left(h)

(* The comment in kick_disconnected_devices: "kick any devices in the      *)
(* device list that were not found in the device scan".                    *)
GoneKicked == \A h \in Handle : (Open(h) /\ ~Here(h)) ~> (h \in dead)
=============================================================================
