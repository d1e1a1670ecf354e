-------------------------------- MODULE UsbOsx --------------------------------
(***************************************************************************)
(* The USB backend of the server on OS X (adb-bin/usb_osx.cpp) under the   *)
(* threads that use it: a run loop, which is told of interfaces that come, *)
(* of those with an interest notification that go, and of a timer that     *)
(* looks at should_kill; and the two io threads of each transport, which   *)
(* block in ReadPipe and WritePipe. There is no lock around a handle: the  *)
(* transport calls usb_kick once at most (t->kicked), but the notification *)
(* of a device that is gone calls it by itself, and usb_read, usb_write    *)
(* and usb_kick test handle->interface before they use it: what a thread   *)
(* found there may be released when it does. usb_close frees nothing.      *)
(*                                                                         *)
(* A handle h is one appearance of an interface. Descriptors, serial       *)
(* numbers and the empty packet that ends some writes are left out.        *)
(***************************************************************************)
EXTENDS Naturals

CONSTANT Handle    \* appearances of an interface: a bound

VARIABLES
  there,       \* there[h]: "no", "found" (IOIteratorNext returns it), "opened", "gone"
  iface,       \* iface[h]: "none", "open", "released", handle->interface or no more
  tested,      \* who has found handle->interface set and is about to release it
  interest,    \* handles with an interest notification
  notices,     \* those whose kIOMessageServiceIsTerminated is on its way
  transport,   \* transport[h]: "none", "queued", "listed", "removed"
  kicked,      \* transports with t->kicked set
  offline,     \* transports whose input thread was sent SYNC(0,0)
  ref,         \* ref[h]: t->ref_count
  io,          \* io[w][h]: the io threads, in the words of UsbLinux: "use"
               \*   (the interface was found set) and "pipe" are in a transfer
  should_kill,
  runloop,     \* "runs", "stopped" (CFRunLoopStop), "over" (usb_cleanup is done)
  noticed,     \* handles whose notice was handled
  second,      \* those whose interface was released again
  late,        \* who called into an interface that was released by then
  crashed      \* one of these was the end of the process

transportVars == <<transport, kicked, offline, ref>>
pastVars == <<noticed, second, late, crashed>>
osxVars == <<there, iface, tested, interest, notices, transportVars, io, should_kill,
             runloop, pastVars>>

Ios == {"reader", "writer"}
IoTo(w, h, l) == io' = [io EXCEPT ![w][h] = l]

-----------------------------------------------------------------------------
(* A device is plugged in, or pulled out; a watched one sends its notice.  *)
Plug(h) ==
  /\ there[h] = "no" /\ there' = [there EXCEPT ![h] = "found"]
  /\ UNCHANGED <<iface, tested, interest, notices, transportVars, io, should_kill, runloop, pastVars>>

Unplug(h) ==
  /\ there[h] \in {"found", "opened"} /\ there' = [there EXCEPT ![h] = "gone"]
  /\ notices' = IF h \in interest THEN notices \cup {h} ELSE notices
  /\ UNCHANGED <<iface, tested, interest, transportVars, io, should_kill, runloop, pastVars>>

(* AndroidInterfaceAdded: CheckInterface opens the interface and closes it *)
(* again if it is none of adb's; the transport is registered, and only     *)
(* then the notification asked for, with a usbInterface that was released  *)
(* before: it may fail, and is not made for a device that is gone by then. *)
AndroidInterfaceAdded(h) ==
  /\ runloop = "runs" /\ there[h] = "found"
  /\ there' = [there EXCEPT ![h] = "opened"]
  /\ \/ /\ iface' = [iface EXCEPT ![h] = "open"]
        /\ transport' = [transport EXCEPT ![h] = "queued"]
     \/ UNCHANGED <<iface, transport>>
  /\ UNCHANGED <<tested, interest, notices, kicked, offline, ref, io, should_kill, runloop, pastVars>>

AddInterest(h) ==
  /\ runloop = "runs" /\ iface[h] = "open" /\ there[h] = "opened" /\ h \notin interest
  /\ interest' = interest \cup {h}
  /\ UNCHANGED <<there, iface, tested, notices, transportVars, io, should_kill, runloop, pastVars>>

-----------------------------------------------------------------------------
(* usb_kick, by the run loop or by one of the io threads: the interface is *)
(* tested, then closed, released and forgotten. Released by another in     *)
(* between it is used after that: nothing happens, or the process dies.    *)
MayCrash == crashed' \in BOOLEAN

Tests(w, h) ==
  tested' = IF iface[h] = "open" THEN tested \cup {<<w, h>>} ELSE tested

Releases(w, h) ==
  /\ tested' = tested \ {<<w, h>>}
  /\ iface' = [iface EXCEPT ![h] = "released"]
  /\ IF iface[h] = "released" THEN second' = second \cup {h} /\ MayCrash
                               ELSE UNCHANGED <<second, crashed>>
  /\ UNCHANGED late

(* AndroidInterfaceNotify, in two steps.                                   *)
AndroidInterfaceNotify(h) ==
  /\ runloop = "runs" /\ h \in notices
  /\ notices' = notices \ {h} /\ interest' = interest \ {h}
  /\ noticed' = noticed \cup {h} /\ Tests("loop", h)
  /\ UNCHANGED <<there, iface, transportVars, io, should_kill, runloop, second, late, crashed>>

NotifyKicks(h) ==
  /\ <<"loop", h>> \in tested /\ Releases("loop", h)
  /\ UNCHANGED <<there, interest, notices, transportVars, io, should_kill, runloop, noticed>>

(* should_kill_device_loop, and the timer that looks at it every 100 ms.   *)
should_kill_device_loop ==
  /\ ~should_kill /\ should_kill' = TRUE
  /\ UNCHANGED <<there, iface, tested, interest, notices, transportVars, io, runloop, pastVars>>

LoopBusy == \E h \in Handle : <<"loop", h>> \in tested

onTimerFired ==
  /\ should_kill /\ runloop = "runs" /\ ~LoopBusy /\ runloop' = "stopped"
  /\ UNCHANGED <<there, iface, tested, interest, notices, transportVars, io, should_kill, pastVars>>

(* The end of RunLoopThread: no notice comes any more, and usb_cleanup     *)
(* kicks every listed transport that is not kicked yet.                    *)
NoneLeft == {}                                                      \* mutant
Unkicked == {h \in Handle : transport[h] = "listed" /\ h \notin kicked}

usb_cleanup ==
  /\ runloop = "stopped" /\ runloop' = "over"
  /\ interest' = {} /\ notices' = {}
  /\ kicked' = kicked \cup Unkicked
  /\ iface' = [h \in Handle |-> IF h \in Unkicked /\ iface[h] = "open" THEN "released" ELSE iface[h]]
  /\ UNCHANGED <<there, tested, transport, offline, ref, io, should_kill, pastVars>>

-----------------------------------------------------------------------------
(* The event loop registers the transport and starts its threads.          *)
AddTransport(h) ==
  /\ transport[h] = "queued" /\ transport' = [transport EXCEPT ![h] = "listed"]
  /\ ref' = [ref EXCEPT ![h] = 2]
  /\ io' = [w \in Ios |-> [io[w] EXCEPT ![h] = "run"]]
  /\ UNCHANGED <<there, iface, tested, interest, notices, kicked, offline, should_kill, runloop, pastVars>>

(* usb_read and usb_write: the interface is tested, and then ReadPipe or   *)
(* WritePipe called, if one was found; a usb_read that found none fails.   *)
(* (A write that begins after the kick has begun finds an interface, if it *)
(* still does, that one that began before would have found as well.)       *)
TestsPipe(w, h) ==
  /\ io[w][h] = "run" /\ iface[h] = "open" /\ IoTo(w, h, "use")
  /\ w = "writer" => h \notin kicked
  /\ UNCHANGED <<there, iface, tested, interest, notices, transportVars,
                 should_kill, runloop, pastVars>>

CallsPipe(w, h) ==
  /\ io[w][h] = "use" /\ IoTo(w, h, "pipe")
  /\ IF iface[h] = "released" THEN late' = late \cup {<<w, h>>} /\ MayCrash
                               ELSE UNCHANGED <<late, crashed>>
  /\ UNCHANGED <<there, iface, tested, interest, notices, transportVars,
                 should_kill, runloop, noticed, second>>

(* The transfer is made, or it fails: at the latest with the device gone   *)
(* or the interface closed. The result of usb_write is not looked at; that *)
(* of usb_read ends the transport.                                         *)
PipeEnds(w, h) ==
  /\ io[w][h] = "pipe" /\ IoTo(w, h, "run")
  /\ w = "reader" => there[h] = "opened" /\ iface[h] = "open"
  /\ UNCHANGED <<there, iface, tested, interest, notices, transportVars,
                 should_kill, runloop, pastVars>>

ReadFails(h) ==
  /\ io["reader"][h] = "pipe" \/ (io["reader"][h] = "run" /\ iface[h] # "open")
  /\ IoTo("reader", h, "kick")
  /\ offline' = offline \cup {h}
  /\ UNCHANGED <<there, iface, tested, interest, notices, transport, kicked, ref,
                 should_kill, runloop, pastVars>>

(* The input thread ends when it comes to SYNC(0,0).                       *)
SeeOffline(h) ==
  /\ io["writer"][h] = "run" /\ h \in offline /\ IoTo("writer", h, "kick")
  /\ UNCHANGED <<there, iface, tested, interest, notices, transportVars,
                 should_kill, runloop, pastVars>>

(* kick_transport, usb_kick in its two steps, transport_unref.             *)
Twice(h) == TRUE                                                    \* mutant
FirstKick(h) == h \notin kicked

TestKicked(w, h) ==
  /\ io[w][h] = "kick"
  /\ kicked' = kicked \cup {h}
  /\ IF FirstKick(h)
     THEN Tests(w, h) /\ IoTo(w, h, "usbkick")
     ELSE UNCHANGED tested /\ IoTo(w, h, "unref")
  /\ UNCHANGED <<there, iface, interest, notices, transport, offline, ref, should_kill, runloop, pastVars>>

UsbKick(w, h) ==
  /\ io[w][h] = "usbkick" /\ IoTo(w, h, "unref")
  /\ IF <<w, h>> \in tested THEN Releases(w, h)
                             ELSE UNCHANGED <<tested, iface, second, late, crashed>>
  /\ UNCHANGED <<there, interest, notices, transportVars, should_kill, runloop, noticed>>

Unref(w, h) ==
  /\ io[w][h] = "unref" /\ IoTo(w, h, "over")
  /\ ref' = [ref EXCEPT ![h] = @ - 1]
  /\ transport' = IF ref[h] = 1 THEN [transport EXCEPT ![h] = "removed"] ELSE transport
  /\ UNCHANGED <<there, iface, tested, interest, notices, kicked, offline, should_kill, runloop, pastVars>>

Ends(w, h) == TestKicked(w, h) \/ UsbKick(w, h) \/ Unref(w, h)

-----------------------------------------------------------------------------
Init ==
  /\ there = [h \in Handle |-> "no"] /\ iface = [h \in Handle |-> "none"]
  /\ tested = {} /\ interest = {} /\ notices = {}
  /\ transport = [h \in Handle |-> "none"] /\ kicked = {} /\ offline = {}
  /\ ref = [h \in Handle |-> 0]
  /\ io = [w \in Ios |-> [h \in Handle |-> "off"]]
  /\ should_kill = FALSE /\ runloop = "runs"
  /\ noticed = {} /\ second = {} /\ late = {} /\ crashed = FALSE

RunLoop == onTimerFired \/ usb_cleanup \/ \E h \in Handle : NotifyKicks(h)
Transfers(w, h) == TestsPipe(w, h) \/ CallsPipe(w, h) \/ PipeEnds(w, h)
Ways(w, h) ==
  \/ Transfers(w, h) \/ Ends(w, h)
  \/ IF w = "reader" THEN ReadFails(h) ELSE SeeOffline(h)
Io(h) == \E w \in Ios : Ways(w, h)

Next ==
  /\ ~crashed
  /\ \/ should_kill_device_loop \/ RunLoop
     \/ \E h \in Handle :
          \/ Plug(h) \/ Unplug(h) \/ AndroidInterfaceAdded(h) \/ AddInterest(h)
          \/ AndroidInterfaceNotify(h) \/ AddTransport(h) \/ Io(h)

(* The threads run; the timer fires. Nothing is asked of the notices.      *)
Fairness ==
  /\ WF_osxVars(~crashed /\ RunLoop)
  /\ \A h \in Handle, w \in {"reader", "writer"} : WF_osxVars(~crashed /\ Ways(w, h))

-----------------------------------------------------------------------------
Transfer == {"run", "use", "pipe"}
Pcs == Transfer \cup {"off", "kick", "usbkick", "unref", "over"}

(* Every variable has its type.                                            *)
TypeOK ==
  /\ there \in [Handle -> {"no", "found", "opened", "gone"}]
  /\ iface \in [Handle -> {"none", "open", "released"}]
  /\ tested \subseteq (Ios \cup {"loop"}) \X Handle
  /\ interest \subseteq Handle /\ notices \subseteq Handle
  /\ transport \in [Handle -> {"none", "queued", "listed", "removed"}]
  /\ kicked \subseteq Handle /\ offline \subseteq Handle /\ ref \in [Handle -> 0..2]
  /\ io \in [Ios -> [Handle -> Pcs]]
  /\ should_kill \in BOOLEAN /\ crashed \in BOOLEAN
  /\ runloop \in {"runs", "stopped", "over"}
  /\ noticed \subseteq Handle /\ second \subseteq Handle /\ late \subseteq Ios \X Handle

(* An interface is released by one of its io threads at most; a second     *)
(* time only if its device was pulled out, and its notice came while its   *)
(* transport was kicked. A read calls into a released interface only after *)
(* such a notice or at the end of the run loop, a write also after the     *)
(* kick of the reader. And a removed transport keeps no interface open.    *)
ReleasedOnce ==
  /\ \A h \in Handle : ~(Ios \X {h} \subseteq tested)
  /\ \A h \in second : there[h] = "gone" /\ h \in noticed /\ h \in kicked
  /\ \A h \in Handle : <<"reader", h>> \in late => h \in noticed \/ should_kill
  /\ \A h \in Handle : <<"writer", h>> \in late => h \in noticed \/ h \in kicked
  /\ \A h \in Handle : transport[h] = "removed" => iface[h] # "open"

(* A device that is pulled out is removed in the end, with its notice or   *)
(* without, and so is every transport that was listed when the run loop    *)
(* was told to end.                                                        *)
Leaving(h) == transport[h] = "listed" /\ (there[h] = "gone" \/ (should_kill /\ runloop = "runs"))
Left(h) == transport[h] = "removed" \/ crashed
GoneClosed == \A h \in Handle : Leaving(h) ~> Left(h)

=============================================================================
