------------------------------ MODULE UsbWindows ------------------------------
(***************************************************************************)
(* The USB backend of the server on Windows (adb-bin/usb_windows.cpp)      *)
(* under the threads that use it: the poll thread, which lists the         *)
(* interfaces every second and opens those it does not know, and the two   *)
(* io threads of each transport. No scan looks for what is gone: a pulled  *)
(* device is noticed by the io threads alone, by a transfer that fails. A  *)
(* kick closes the handles of the library and forgets the name, so that    *)
(* the device may be opened again while its old transport is still there.  *)
(*                                                                         *)
(* What a thread does under usb_lock is one step; no path waits for        *)
(* another lock with it. The bytes of a transfer, and the empty packet     *)
(* that ends some writes, are left out. should_kill is in AdbLifecycle.    *)
(***************************************************************************)
EXTENDS Naturals

CONSTANTS
  Device,      \* interface names
  Foreign,     \* those of them that recognized_device refuses
  NoDevice,    \* the name of a handle that was cleaned up
  Handle       \* memory of usb_handle: a bound on the handles at a time

WindowsUsbAssumption == Foreign \subseteq Device /\ NoDevice \notin Device

VARIABLES
  plugged,      \* interfaces that are there
  todo,         \* what AdbNextInterface has still to return
  opening,      \* <<name, handle>> between do_usb_open and its end, or <<>>
  handle,       \* handle[h]: "none", "open" or "freed"
  name,         \* name[h]: interface_name; its pipes are open while it has one
  for,          \* for[h]: the interface h was opened for
  listed,       \* handles on handle_list
  io,           \* io[w][h]: the io threads, in the words of UsbLinux
  kicked,       \* transports with t->kicked set
  offline,      \* transports whose input thread was sent SYNC(0,0)
  ref,          \* ref[h]: t->ref_count
  crashed       \* the process is gone

scanVars == <<todo, opening>>
handleVars == <<handle, name, for, listed>>
winVars == <<plugged, scanVars, handleVars, io, kicked, offline, ref, crashed>>

Ios == {"reader", "writer"}
IoTo(w, h, l) == io' = [io EXCEPT ![w][h] = l]
Working(h) == name[h] # NoDevice
Here(h) == for[h] \in plugged

-----------------------------------------------------------------------------
Plug(d) ==
  /\ plugged' = IF d \in plugged THEN plugged \ {d} ELSE plugged \cup {d}
  /\ UNCHANGED <<scanVars, handleVars, io, kicked, offline, ref, crashed>>

(* find_devices: AdbEnumInterfaces lists what is there at this moment.     *)
Enumerate ==
  /\ opening = <<>> /\ todo = {} /\ todo' = plugged /\ plugged # {}
  /\ UNCHANGED <<plugged, opening, handleVars, io, kicked, offline, ref, crashed>>

UnknownAll(d) == FALSE                                              \* mutant
known_device(d) == \E h \in listed : name[h] = d

(* do_usb_open, of a name that is not known. Without an interface nothing  *)
(* is left; without a pipe usb_cleanup_handle frees an interface_name that *)
(* nobody has set: nothing happens, or the process dies of it.             *)
Next_interface(d) ==
  /\ opening = <<>> /\ d \in todo /\ todo' = todo \ {d}
  /\ IF known_device(d) THEN UNCHANGED <<opening, handle, name, for, crashed>>
     ELSE \/ \E h \in Handle :
               /\ handle[h] = "none" /\ d \in plugged
               /\ opening' = <<d, h>>
               /\ handle' = [handle EXCEPT ![h] = "open"]
               /\ name' = [name EXCEPT ![h] = d]
               /\ for' = [for EXCEPT ![h] = d]
               /\ UNCHANGED crashed
          \/ crashed' \in BOOLEAN /\ UNCHANGED <<opening, handle, name, for>>
  /\ UNCHANGED <<plugged, listed, io, kicked, offline, ref>>

(* recognized_device, AdbGetSerialNumber, register_new_device (which looks *)
(* for the name again) and register_usb_transport, whose event starts the  *)
(* two threads; or the handle is cleaned up and freed.                     *)
Registers(d, h) == d \notin Foreign /\ ~known_device(d)

Opened ==
  /\ opening # <<>> /\ opening' = <<>>
  /\ LET d == opening[1]  h == opening[2] IN
     \/ /\ Registers(d, h)
        /\ listed' = listed \cup {h}
        /\ ref' = [ref EXCEPT ![h] = 2]
        /\ io' = [w \in Ios |-> [io[w] EXCEPT ![h] = "run"]]
        /\ UNCHANGED <<handle, name, for>>
     \/ /\ handle' = [handle EXCEPT ![h] = "none"]
        /\ name' = [name EXCEPT ![h] = NoDevice] /\ for' = [for EXCEPT ![h] = NoDevice]
        /\ UNCHANGED <<listed, ref, io>>
  /\ UNCHANGED <<plugged, todo, kicked, offline, crashed>>

-----------------------------------------------------------------------------
(* usb_kick: usb_cleanup_handle under usb_lock. The handle stays on the    *)
(* list, without a name.                                                   *)
Kicks(h) == name' = [name EXCEPT ![h] = NoDevice]

(* usb_read: an asynchronous read that is polled every 100 ms. It fails    *)
(* when the pipe is closed or the device is gone, or for some other error. *)
ReadStarts(h) ==
  /\ io["reader"][h] = "run"
  /\ IoTo("reader", h, IF Working(h) THEN "wait" ELSE "failed")
  /\ UNCHANGED <<plugged, scanVars, handleVars, kicked, offline, ref, crashed>>

ReadEnds(h) ==
  /\ io["reader"][h] = "wait"
  /\ \/ Working(h) /\ Here(h) /\ IoTo("reader", h, "run")
     \/ IoTo("reader", h, "failed")
  /\ UNCHANGED <<plugged, scanVars, handleVars, kicked, offline, ref, crashed>>

PostOffline(h) ==
  /\ io["reader"][h] = "failed" /\ IoTo("reader", h, "kick")
  /\ offline' = offline \cup {h}
  /\ UNCHANGED <<plugged, scanVars, handleVars, kicked, ref, crashed>>

(* usb_write: synchronous, at most five seconds. When the library says     *)
(* ERROR_INVALID_HANDLE the writer itself kicks the handle; nobody looks   *)
(* at the result.                                                          *)
Write(h) ==
  /\ io["writer"][h] = "run" /\ UNCHANGED io
  /\ \/ Working(h) /\ ~Here(h) /\ Kicks(h)
     \/ UNCHANGED name
  /\ UNCHANGED <<plugged, scanVars, handle, for, listed, kicked, offline, ref, crashed>>

SeeOffline(h) ==
  /\ io["writer"][h] = "run" /\ h \in offline /\ IoTo("writer", h, "kick")
  /\ UNCHANGED <<plugged, scanVars, handleVars, kicked, offline, ref, crashed>>

(* kick_transport: whoever sets t->kicked first calls usb_kick.            *)
TestKicked(w, h) ==
  /\ io[w][h] = "kick"
  /\ IoTo(w, h, IF h \in kicked THEN "unref" ELSE "usbkick")
  /\ kicked' = kicked \cup {h}
  /\ UNCHANGED <<plugged, scanVars, handleVars, offline, ref, crashed>>

UsbKick(w, h) ==
  /\ io[w][h] = "usbkick" /\ Kicks(h)
  /\ IoTo(w, h, "unref")
  /\ UNCHANGED <<plugged, scanVars, handle, for, listed, kicked, offline, ref, crashed>>

(* transport_unref; with the last reference remote_close calls usb_close:  *)
(* off the list under usb_lock, cleaned up, freed. (The transport goes     *)
(* with it, and the memory may be used again.)                             *)
ClosedListed(h) == listed                                           \* mutant
Unlisted(h) == listed \ {h}

Unref(w, h) ==
  /\ io[w][h] = "unref"
  /\ ref' = [ref EXCEPT ![h] = @ - 1]
  /\ IF ref[h] = 1
     THEN /\ IoTo(w, h, "over")
          /\ handle' = [handle EXCEPT ![h] = "freed"]
          /\ listed' = Unlisted(h)
          /\ name' = [name EXCEPT ![h] = NoDevice]
     ELSE IoTo(w, h, "over") /\ UNCHANGED <<handle, listed, name>>
  /\ UNCHANGED <<plugged, scanVars, for, kicked, offline, crashed>>

Reuse(h) ==
  /\ handle[h] = "freed" /\ handle' = [handle EXCEPT ![h] = "none"]
  /\ for' = [for EXCEPT ![h] = NoDevice]
  /\ io' = [w \in Ios |-> [io[w] EXCEPT ![h] = "off"]]
  /\ kicked' = kicked \ {h} /\ offline' = offline \ {h}
  /\ UNCHANGED <<plugged, scanVars, name, listed, ref, crashed>>

-----------------------------------------------------------------------------
Init ==
  /\ plugged = {} /\ todo = {} /\ opening = <<>>
  /\ handle = [h \in Handle |-> "none"]
  /\ name = [h \in Handle |-> NoDevice] /\ for = [h \in Handle |-> NoDevice]
  /\ listed = {}
  /\ io = [w \in Ios |-> [h \in Handle |-> "off"]]
  /\ kicked = {} /\ offline = {} /\ ref = [h \in Handle |-> 0]
  /\ crashed = FALSE

Ends(w, h) == TestKicked(w, h) \/ UsbKick(w, h) \/ Unref(w, h)
Reads(h) == ReadStarts(h) \/ ReadEnds(h) \/ PostOffline(h) \/ Ends("reader", h)
Leaves(h) == SeeOffline(h) \/ Ends("writer", h)

Next ==
  /\ ~crashed
  /\ \/ \E d \in Device : Plug(d) \/ Next_interface(d)
     \/ Enumerate \/ Opened
     \/ \E h \in Handle : Reads(h) \/ Write(h) \/ Leaves(h) \/ Reuse(h)

(* The io threads run, and the input thread comes to each packet it was    *)
(* sent. A transfer of a device that is gone does not succeed.             *)
Fairness == \A h \in Handle : WF_winVars(~crashed /\ Reads(h)) /\ WF_winVars(~crashed /\ Leaves(h))

-----------------------------------------------------------------------------
Pcs == {"off", "run", "kick", "usbkick", "unref", "over"}

(* Every variable has its type.                                            *)
TypeOK ==
  /\ plugged \subseteq Device /\ todo \subseteq Device
  /\ opening \in {<<>>} \cup (Device \X Handle)
  /\ handle \in [Handle -> {"none", "open", "freed"}]
  /\ name \in [Handle -> Device \cup {NoDevice}]
  /\ for \in [Handle -> Device \cup {NoDevice}]
  /\ listed \subseteq Handle
  /\ io \in [Ios -> [Handle -> Pcs \cup {"wait", "failed"}]]
  /\ kicked \subseteq Handle /\ offline \subseteq Handle
  /\ ref \in [Handle -> 0..2] /\ crashed \in BOOLEAN

(* What is on the list can be read by the poll thread at any moment, and a *)
(* handle that is freed is used by neither io thread.                      *)
NoUseAfterFree ==
  /\ \A h \in listed : handle[h] = "open"
  /\ \A h \in Handle, w \in Ios : handle[h] # "open" => io[w][h] \in {"off", "over"}

(* A device has one handle with open pipes at most, however often it is    *)
(* unplugged and plugged in while its old transport is on its way out.     *)
OneHandle ==
  \A h, g \in Handle : Working(h) /\ name[h] = name[g] => h = g

(* A device that is pulled out, and stays out, is closed in the end.       *)
Leaving(h) == h \in listed /\ ~Here(h)
Left(h) == handle[h] # "open" \/ Here(h) \/ crashed
GoneClosed == \A h \in Handle : Leaving(h) ~> Left(h)

=============================================================================
