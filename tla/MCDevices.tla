------------------------------- MODULE MCDevices -------------------------------
(***************************************************************************)
(* What talks to a device, in one run: the USB backends of Linux, Windows  *)
(* and OS X, the file service of a device with the commands that use it,   *)
(* and the lists of files they make.  They share no state, so a behaviour  *)
(* is one of one of them: `part` names it, the others stay as they begin.  *)
(***************************************************************************)
EXTENDS UsbLinux

CONSTANTS
    sA, sB, fA, fB,                                 \* what the plans below name
    Sessions, Paths, Plans, Size, Capacity, Sticky, Old, NoFile,    \* those of FileSync
    Interfaces, Foreign, NoInterface, WinHandle,    \* those of UsbWindows
    OsxHandle,                                      \* those of UsbOsx
    Followed,                                       \* bound: handles DevicesGo looks at
    Dirs, root, Names, Trees, MaxDepth              \* those of FileLists

VARIABLES
    part,
    fs, content, touched, srv, cli, copy, up, down, quiet, unread,
    plugged, listing, opening, winHandle, name, for, winListed, winIo, winKicked,
    winOffline, winRef, winCrashed,
    there, iface, tested, interest, notices, osxTransport, osxKicked, osxOffline, osxRef,
    osxIo, should_kill, runloop, noticed, second, late, osxCrashed,
    side, tree, unreadable, filelist, frames, st, result, lost

syncVars == <<fs, content, touched, srv, cli, copy, up, down, quiet, unread>>
windowsVars == <<plugged, listing, opening, winHandle, name, for, winListed, winIo,
                 winKicked, winOffline, winRef, winCrashed>>
listsVars == <<side, tree, unreadable, filelist, frames, st, result, lost>>
osxVars == <<there, iface, tested, interest, notices, osxTransport, osxKicked, osxOffline,
             osxRef, osxIo, should_kill, runloop, noticed, second, late, osxCrashed>>

(* One file by two sessions, or two files by one. *)
Both(a, b) == [i \in {sA, sB} |-> [op |-> IF i = sA THEN a ELSE b, files |-> <<fA>>]]
Alone(a, files) == [i \in {sA, sB} |-> IF i = sA THEN [op |-> a, files |-> files]
                                                 ELSE [op |-> "none", files |-> <<>>]]
SyncPlans ==
    {Both("push", "js"), Both("sync", "pull"), Alone("none", <<>>)}
    \cup {Alone(a, <<fA, fB>>) : a \in {"pushdir", "sync", "pulldir"}}
Sync == INSTANCE FileSync
Windows == INSTANCE UsbWindows WITH
    Device <- Interfaces, NoDevice <- NoInterface, Handle <- WinHandle,
    todo <- listing, handle <- winHandle, listed <- winListed, io <- winIo,
    kicked <- winKicked, offline <- winOffline, ref <- winRef, crashed <- winCrashed
Osx == INSTANCE UsbOsx WITH
    Handle <- OsxHandle, transport <- osxTransport, kicked <- osxKicked,
    offline <- osxOffline, ref <- osxRef, io <- osxIo, crashed <- osxCrashed
(* A root with a directory and another entry, and an entry in that.        *)
Others == {"none", "file", "special", "dangling"} \X {"root"} \cup {"link"} \X {"root", "sub"}
Tree(e, f) ==
    [d \in {"root", "sub"} |-> IF d = "root" THEN [x |-> <<"dir", "sub">>, y |-> e]
                                             ELSE [x |-> f, y |-> <<"none", "root">>]]
ListTrees == {Tree(e, f) : e \in Others, f \in Others}
Lists == INSTANCE FileLists
ASSUME PartsConstants ==
    Sync!SyncAssumption /\ Windows!WindowsUsbAssumption /\ Lists!ListsAssumption

DevicesInit ==
    /\ part \in {"usb", "windows", "osx", "sync", "lists"}
    /\ Init /\ Sync!Init /\ Windows!Init /\ Osx!Init /\ Lists!Init
    /\ part # "sync" => \A i \in Sessions : cli[i].op = "none"
    /\ part # "lists" => side = "local" /\ tree = (CHOOSE x \in Trees : TRUE) /\ unreadable = {}
DevicesNext ==
    \/ part = "usb" /\ Next /\ UNCHANGED <<part, syncVars, windowsVars, osxVars, listsVars>>
    \/ part = "sync" /\ Sync!Next /\ UNCHANGED <<part, vars, windowsVars, osxVars, listsVars>>
    \/ part = "windows" /\ Windows!Next /\ UNCHANGED <<part, vars, syncVars, osxVars, listsVars>>
    \/ part = "osx" /\ Osx!Next /\ UNCHANGED <<part, vars, syncVars, windowsVars, listsVars>>
    \/ part = "lists" /\ Lists!Next /\ UNCHANGED <<part, vars, syncVars, windowsVars, osxVars>>
(* The fairness of each module, in its part.                               *)
DevicesFairness ==
    /\ WF_vars(part = "usb" /\ Polls)
    /\ \A h \in Handle :
         /\ WF_vars(part = "usb" /\ Fail(h) /\ ~Here(h)) /\ SF_vars(part = "usb" /\ Loop(h))
         /\ WF_vars(part = "usb" /\ Reads(h)) /\ SF_vars(part = "usb" /\ ReaderEnds(h))
         /\ WF_vars(part = "usb" /\ WriteEnds(h)) /\ SF_vars(part = "usb" /\ SeeOffline(h))
         /\ SF_vars(part = "usb" /\ WriterEnds(h))
    /\ \A h \in WinHandle :
         /\ WF_windowsVars(part = "windows" /\ ~winCrashed /\ Windows!Reads(h))
         /\ WF_windowsVars(part = "windows" /\ ~winCrashed /\ Windows!Leaves(h))
    /\ WF_osxVars(part = "osx" /\ ~osxCrashed /\ Osx!RunLoop)
    /\ \A h \in OsxHandle, w \in {"reader", "writer"} :
         WF_osxVars(part = "osx" /\ ~osxCrashed /\ Osx!Ways(w, h))
    /\ \A i \in Sessions :
         /\ WF_syncVars(part = "sync" /\ Sync!Serve(i))
         /\ WF_syncVars(part = "sync" /\ Sync!Command(i))
    /\ WF_listsVars(part = "lists" /\ Lists!Next)
DevicesSpec ==
    /\ DevicesInit
    /\ [][DevicesNext]_<<part, vars, syncVars, windowsVars, osxVars, listsVars>>
    /\ DevicesFairness

(* The type invariants, and the properties of the parts (their modules     *)
(* state them in words).                                                   *)
TypesOK == TypeOK /\ Sync!TypeOK /\ Windows!TypeOK /\ Osx!TypeOK

(* No thread uses what another has freed, a handle of the Linux or the     *)
(* Windows backend; an interface of OS X, whose handle has no lock, is     *)
(* used after its release in the cases ReleasedOnce names, and in no other.*)
NothingFreed ==
    /\ NoUseAfterFree /\ Windows!NoUseAfterFree /\ Windows!OneHandle
    /\ Osx!ReleasedOnce

(* Of the devices those that are gone are closed, and no other: GoneClosed *)
(* of each backend, for the handle it calls h, and OnlyGoneKicked of Linux *)
(* (but for what its scan could not look at, `skipped`). The handles of a  *)
(* backend are alike, so that one of them will do.                         *)
Leaves(h) ==
    \/ part = "usb" /\ Leaving(1)
    \/ part = "windows" /\ h \in WinHandle /\ Windows!Leaving(h)
    \/ part = "osx" /\ h \in OsxHandle /\ Osx!Leaving(h)
HasLeft(h) ==
    /\ part = "usb" => Left(1)
    /\ part = "windows" /\ h \in WinHandle => Windows!Left(h)
    /\ part = "osx" /\ h \in OsxHandle => Osx!Left(h)
DevicesGo ==
    /\ OnlyGoneKicked
    /\ \A h \in Followed : Leaves(h) ~> HasLeft(h)

(* What is pushed or pulled is whole, the list of what is to be copied has *)
(* every file once; and a command ends, and the making of a list.          *)
FilesWhole == Sync!FilesWhole /\ (part = "lists" => Lists!ListRight)
Command(i) == IF part = "lists" THEN Lists!Building ELSE Sync!Begun(i)
Over(i) == IF part = "lists" THEN ~Lists!Building ELSE Sync!Over(i)
CommandEnds == \A i \in Sessions : Command(i) ~> Over(i)

=============================================================================
