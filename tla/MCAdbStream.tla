----------------------------- MODULE MCAdbStream -----------------------------
(***************************************************************************)
(* What is checked without fairness, in one run: AdbStream with two        *)
(* streams, the handles of the Windows USB library, the descriptors of the *)
(* transports over TCP and of Windows, the choice of an adb with the       *)
(* conversations over sockets, and the USB backend of a device. They share *)
(* no state, so a behaviour is one of one of them: `part` names it, the    *)
(* others stay as they begin.                                              *)
(***************************************************************************)
EXTENDS AdbStream

CONSTANTS
    TotalUnits, TotalShut,
    Objects, NoObject, Threads, MaxHandle,          \* those of WinHandles
    Transports, Ports, Hosts, MaxEmulators, MaxFd,  \* those of LocalTransport
    Devices, MaxLists,                              \* those of AdbFallback
    MaxOpens, MaxFhs                                \* of UsbGadget and of WinFiles

VARIABLES
    part,
    driver, type, refs, adb_handle, parent, device, the_map, next_value, pc, at, held,
    fds, calling, address, life, sfd, socket, fd, kicked, ref, local_transports, lio, hand,
    offline, stolen,
    page, ADB, own, hasty, ready, server, state, sockets, asked, incoming, odd, table, notified,
    lists, listed, stored,
    ffs, opens, field, files, opener, woken, gio, inhand, gadgetOffline, gadgetKicked,
    used, clazz, fh_handle, count, holds, step, wants, on, overlapped, under, lost, crashed

localVars == <<fds, calling, address, life, sfd, socket, fd, kicked, ref, local_transports, lio,
               hand, offline, stolen>>
objectVars == <<driver, type, refs, adb_handle, parent, device, the_map, next_value, pc, at, held>>
fallbackVars == <<page, ADB, own, hasty, ready, server, state, sockets, asked, incoming, odd, table,
                  notified, lists, listed, stored>>
gadgetVars == <<ffs, opens, field, files, opener, woken, gio, inhand, gadgetOffline, gadgetKicked>>
filesVars == <<used, clazz, fh_handle, count, holds, step, wants, on, overlapped, under, lost, crashed>>

Handles == INSTANCE WinHandles
Local == INSTANCE LocalTransport WITH T <- Transports, Slots <- MaxEmulators
Fallback == INSTANCE AdbFallback
Gadget == INSTANCE UsbGadget WITH offline <- gadgetOffline, kicked <- gadgetKicked
WinFds == INSTANCE WinFiles
ASSUME PartsConstants == Handles!HandlesAssumption /\ Local!LocalAssumption

PartsInit ==
    /\ part \in {"streams", "objects", "network", "fallback", "gadget", "files"}
    /\ Init /\ Handles!Init /\ Local!Init /\ Fallback!Init /\ Gadget!Init /\ WinFds!Init
    /\ part # "objects" => driver = "winusb"
    /\ part # "gadget" => ~ffs
Others(p) ==
    /\ part = p /\ UNCHANGED part
    /\ p # "streams" => UNCHANGED vars
    /\ p # "objects" => UNCHANGED objectVars
    /\ p # "network" => UNCHANGED localVars
    /\ p # "fallback" => UNCHANGED fallbackVars
    /\ p # "gadget" => UNCHANGED gadgetVars
    /\ p # "files" => UNCHANGED filesVars
PartsNext ==
    \/ Others("streams") /\ Next
    \/ Others("objects") /\ Handles!Next
    \/ Others("network") /\ Local!Next
    \/ Others("fallback") /\ Fallback!Next
    \/ Others("gadget") /\ Gadget!Next
    \/ Others("files") /\ WinFds!Next
PartsSpec == PartsInit /\ [][PartsNext]_<<part, vars, objectVars, localVars, fallbackVars,
                                         gadgetVars, filesVars>>

(* Bounds. The clients of the streams together write at most TotalUnits    *)
(* units and TotalShut of them end their input: what is of interest is     *)
(* which socket a message meets, not how much it carries. Of the           *)
(* transports, which are alike, FirstUsed is the first. Two conversations  *)
(* over sockets at once, and of a command and a push one. Descriptors of   *)
(* Windows until two threads allocate at once or one closes what another   *)
(* uses, after which nothing is promised.                                  *)
FirstUsed == CHOOSE t \in Transports : TRUE
Talking == {j \in Fallback!Jobs : state[j] \notin {"off", "resolved", "rejected", "stopped"}}
Few ==
    CASE part = "streams" ->
           /\ Cardinality({<<s, n>> \in Sock \X Unit : n <= wrote[s]}) <= TotalUnits
           /\ Cardinality({s \in Sock : shut[s] # "open"}) <= TotalShut
      [] part = "network" -> life[FirstUsed] = "none" => \A t \in Transports : life[t] = "none"
      [] part = "fallback" ->
           Cardinality(Talking) <= 2 /\ "off" \in {state["command"], state["push"]}
      [] part = "files" -> ~overlapped /\ ~under
      [] OTHER -> TRUE

(* What is sent meets the one it is for. AdbStream's NoStrangers and       *)
(* NoOrphan: a message meets the socket it is for, and a stream has two    *)
(* ends or none. AdbFallback's TalkAgrees: a conversation that waits is    *)
(* one that will be answered, and takes what it was sent.                  *)
StreamsApart ==
    /\ part = "streams" => NoStrangers /\ NoOrphan
    /\ part = "fallback" => Fallback!TalkAgrees

(* What is open is what its owner thinks (the modules state it in words):  *)
(* an object that can be reached is alive, one that cannot is deleted, a   *)
(* handle that was closed leads to none again; a transport keeps its       *)
(* descriptors until it closes them, and the table of emulators its        *)
(* connected ones; the adb that was started is the one that is used and    *)
(* closed; a kick closes the files of its own opening; a descriptor of     *)
(* Windows is of one thread and whole. What the code does not keep is      *)
(* named where it happens: a device that stays open (lost), a descriptor   *)
(* closed twice (stolen), a check under way at unload (hasty) or a port    *)
(* taken, a file used after a kick, two threads in _fh_alloc (overlapped). *)
ResourcesKept ==
    /\ part = "objects" => Handles!TypeOK /\ Handles!ObjectsKept
    /\ part = "network" => Local!TypeOK /\ Local!TableAgrees /\ Local!FdsKept
    /\ part = "fallback" => Fallback!ChoiceKept
    /\ part = "gadget" => Gadget!GadgetKept
    /\ part = "files" => WinFds!FilesKept
ClosedStays == Handles!ClosedStays
=============================================================================
