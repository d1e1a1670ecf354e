------------------------------ MODULE WinHandles ------------------------------
(***************************************************************************)
(* The objects of the Windows USB library (android-tools/adb-win-api) and  *)
(* the handles its clients name them by: the poll thread opens interfaces  *)
(* and endpoints, the io threads transfer through them, and whoever kicks  *)
(* a device closes its handles under their calls. Every call looks its     *)
(* handle up in the_map, works on the object without the lock and releases *)
(* it; an object whose count reaches zero deletes itself and releases its  *)
(* parent. A step is what a call does under the_map_locker, or one         *)
(* interlocked change of a count; held[t] lists the references that call   *)
(* of t has still to give back, in that order.                             *)
(*                                                                         *)
(* Buffers, descriptors and names are left out, and so are the positions   *)
(* of an enumeration. Memory and handle values do not run out.             *)
(***************************************************************************)
EXTENDS Naturals, Sequences, FiniteSets

CONSTANTS
  Objects,     \* what new returns: memory that is used again once deleted
  NoObject,
  Threads,     \* the client's threads
  MaxHandle    \* bound: handle values given out

HandlesAssumption == NoObject \notin Objects /\ MaxHandle \in Nat

VARIABLES
  driver,      \* "winusb" or "legacy": what IsLegacyInterface says
  type,        \* type[o]: object_type_, "unmade" of an interface whose CreateHandle
               \*   failed with its device open; with no such object "free", or
               \*   "lost" when it was an unmade one
  refs,        \* refs[o]: ref_count_
  adb_handle,  \* adb_handle[o]: adb_handle_, 0 for NULL
  parent,      \* parent[o]: parent_interface_ or parent_io_object_
  device,      \* objects whose handle of the system is open
  the_map,     \* the_map[h]: the object of handle h
  next_value,  \* next_adb_handle_value
  pc,          \* pc[t]: where the call of t is, "idle" between two
  at,          \* at[t]: the object it works on
  held         \* held[t]: the references it releases before it returns

objectVars == <<type, refs, parent>>
mapVars == <<adb_handle, the_map, next_value>>
callVars == <<pc, at, held>>
vars == <<driver, objectVars, device, mapVars, callVars>>

Handle == 1..MaxHandle
Gone == {"free", "lost"}
Live(o) == type[o] \notin Gone
IsOpened(o) == adb_handle[o] # 0
(* The object whose system handle the transfers of endpoint e go through.  *)
Through(e) == IF driver = "winusb" THEN parent[e] ELSE e

-----------------------------------------------------------------------------
(* Counts. The constructors start at one and refer to the parent.          *)

ParentOnce(o, p) == [refs EXCEPT ![o] = 1]                          \* mutant
WithParent(o, p) ==
  [x \in Objects |-> IF x = o THEN 1 ELSE IF x = p THEN refs[x] + 1 ELSE refs[x]]

New(o, kind, p, opened) ==
  /\ ~Live(o)
  /\ type' = [type EXCEPT ![o] = kind]
  /\ device' = IF opened THEN device \cup {o} ELSE device \ {o}
  /\ parent' = [parent EXCEPT ![o] = p]
  /\ refs' = WithParent(o, p)

(* Release: the last one deletes the object, whose destructor releases the *)
(* parent next. What is open then of the system stays open.                *)
Deleted(k) == IF k = "unmade" THEN "lost" ELSE "free"
LastGone(n) == n <= 2                                               \* mutant
LastReference(n) == n = 1

Goto(t, l, o, h) ==
  /\ pc' = [pc EXCEPT ![t] = l]
  /\ at' = [at EXCEPT ![t] = o]
  /\ held' = [held EXCEPT ![t] = h]

Release(t) ==
  /\ pc[t] = "release"
  /\ LET o == Head(held[t])
         last == LastReference(refs[o])
         rest == IF last /\ parent[o] # NoObject
                 THEN <<parent[o]>> \o Tail(held[t]) ELSE Tail(held[t])
     IN /\ refs' = [refs EXCEPT ![o] = @ - 1]
        /\ type' = IF last THEN [type EXCEPT ![o] = Deleted(@)] ELSE type
        /\ parent' = IF last THEN [parent EXCEPT ![o] = NoObject] ELSE parent
        /\ Goto(t, IF rest = <<>> THEN "idle" ELSE "release", NoObject, rest)
  /\ UNCHANGED <<driver, device, mapVars>>

-----------------------------------------------------------------------------
(* AdbObjectHandle::Lookup, and the check of the type in LookupObject: an  *)
(* object of another type is released at once.                             *)

Unreferenced(o) == refs                                             \* mutant
Referenced(o) == [refs EXCEPT ![o] = @ + 1]

Looks(t, h, kinds, l) ==
  /\ pc[t] = "idle" /\ h <= next_value
  /\ LET o == the_map[h]
     IN /\ o # NoObject
        /\ refs' = Referenced(o)
        /\ Goto(t, IF type[o] \in kinds THEN l ELSE "release", o, <<o>>)
  /\ UNCHANGED <<driver, type, parent, device, mapVars>>

(* Room for the handle of a call that may make an object: a bound.         *)
Making == {"open", "read", "create", "createio"}
Room == next_value + Cardinality({t \in Threads : pc[t] \in Making}) < MaxHandle

(* The calls that look at the object and return: of an enumeration, an     *)
(* interface, an endpoint or a transfer.                                   *)
AsksEnum(t, h) == Looks(t, h, {"enum"}, "release")
AsksInterface(t, h) == Looks(t, h, {"interface"}, "release")
AsksEndpoint(t, h) == Looks(t, h, {"endpoint"}, "release")
AsksIo(t, h) == Looks(t, h, {"io"}, "release")

-----------------------------------------------------------------------------
(* Objects are made, and get their handle.                                 *)

(* AdbEnumInterfaces, whose listing may fail.                              *)
AdbEnumInterfaces(t) ==
  /\ pc[t] = "idle" /\ Room
  /\ \E o \in Objects, l \in {"create", "release"} :
       New(o, "enum", NoObject, FALSE) /\ Goto(t, l, o, <<o>>)
  /\ UNCHANGED <<driver, mapVars>>

(* AdbCreateInterfaceByName. CreateHandle of an interface of WinUSB opens  *)
(* its device and keeps it; the legacy one closes it again once it has the *)
(* descriptors. Either may fail, that of WinUSB also with its device open: *)
(* the object is released then, and CloseHandle never called.              *)
Kinds(l) == IF l = "create" THEN {"interface"}
            ELSE IF driver = "winusb" THEN {"interface", "unmade"} ELSE {"interface"}
KeepsDevice(k, l) == driver = "winusb" /\ (l = "create" \/ k = "unmade")

AdbCreateInterfaceByName(t) ==
  /\ pc[t] = "idle" /\ Room
  /\ \E o \in Objects, l \in {"create", "release"} : \E k \in Kinds(l) :
       New(o, k, NoObject, KeepsDevice(k, l)) /\ Goto(t, l, o, <<o>>)
  /\ UNCHANGED <<driver, mapVars>>

(* OpenEndpoint of the interface, which is open or no longer.              *)
AdbOpenEndpoint(t, h) == Room /\ Looks(t, h, {"interface"}, "open")

WinUsbOpenEndpoint(t) ==
  /\ driver = "winusb"
  /\ \E o \in Objects :
       New(o, "endpoint", at[t], FALSE) /\ Goto(t, "create", o, <<o>> \o held[t])

(* The legacy endpoint opens a file of its own, which may fail.            *)
LegacyOpenEndpoint(t) ==
  /\ driver = "legacy"
  /\ \E o \in Objects, opened \in BOOLEAN :
       /\ New(o, "endpoint", at[t], opened)
       /\ Goto(t, IF opened THEN "create" ELSE "release", o, <<o>> \o held[t])

OpenEndpoint(t) ==
  /\ pc[t] = "open"
  /\ \/ IsOpened(at[t]) /\ (WinUsbOpenEndpoint(t) \/ LegacyOpenEndpoint(t))
     \/ /\ ~IsOpened(at[t])
        /\ Goto(t, "release", NoObject, held[t]) /\ UNCHANGED <<objectVars, device>>
  /\ UNCHANGED <<driver, mapVars>>

(* CommonAsyncReadWrite: a completion, its handle, and then the transfer.  *)
(* The legacy endpoint looks first whether it is open. A synchronous       *)
(* transfer leaves no object.                                              *)
AdbReadEndpointAsync(t, h) == Room /\ Looks(t, h, {"endpoint"}, "read")
AdbReadEndpointSync(t, h) == Looks(t, h, {"endpoint"}, "release")

NewCompletion(t) ==
  /\ pc[t] = "read"
  /\ IF driver = "legacy" => IsOpened(at[t])
     THEN \E o \in Objects : New(o, "io", at[t], FALSE) /\ Goto(t, "createio", o, <<o>> \o held[t])
     ELSE Goto(t, "release", NoObject, held[t]) /\ UNCHANGED <<objectVars, device>>
  /\ UNCHANGED <<driver, mapVars>>

(* AdbObjectHandle::CreateHandle, under the lock.                          *)
FreeValue ==                                                        \* mutant
  CHOOSE h \in Handle : the_map[h] = NoObject /\ \A i \in 1..(h - 1) : the_map[i] # NoObject
NextValue == next_value + 1

CreateHandle(t) ==
  /\ pc[t] \in {"create", "createio"}
  /\ LET o == at[t] IN
     /\ next_value' = NextValue
     /\ the_map' = [the_map EXCEPT ![NextValue] = o]
     /\ adb_handle' = [adb_handle EXCEPT ![o] = NextValue]
     /\ refs' = Referenced(o)
     /\ Goto(t, IF pc[t] = "createio" THEN "start" ELSE "release", o, held[t])
  /\ UNCHANGED <<driver, type, parent, device>>

(* The transfer starts on the system's handle, or fails at once: then the  *)
(* completion is closed here.                                              *)
StartIo(t) ==
  /\ pc[t] = "start"
  /\ \/ Through(parent[at[t]]) \in device /\ Goto(t, "release", NoObject, held[t])
     \/ Goto(t, "close", at[t], held[t])
  /\ UNCHANGED <<driver, objectVars, device, mapVars>>

-----------------------------------------------------------------------------
(* AdbCloseHandle: an object that keeps a handle of the system closes it,  *)
(* then leaves the map under the lock if it is still there. That handle is *)
(* tested and closed without a lock: of two that close one object both may *)
(* find it open, and the later then closes a value that names nothing, or  *)
(* what another object was given since, whose transfers fail from there    *)
(* on, as they may at any time (StartIo).                                  *)

AdbCloseHandle(t, h) == Looks(t, h, {"enum", "interface", "endpoint", "io"}, "close")

Keeps(o) == type[o] = (IF driver = "winusb" THEN "interface" ELSE "endpoint")

TestDevice(t) ==
  /\ pc[t] = "close"
  /\ refs' = Referenced(at[t])
  /\ Goto(t, IF Keeps(at[t]) /\ at[t] \in device THEN "closing" ELSE "erase", at[t],
          <<at[t]>> \o held[t])
  /\ UNCHANGED <<driver, type, parent, device, mapVars>>

CloseDevice(t) ==
  /\ pc[t] = "closing"
  /\ device' = device \ {at[t]}
  /\ Goto(t, "erase", at[t], held[t])
  /\ UNCHANGED <<driver, objectVars, mapVars>>

AlwaysOpened(o) == TRUE                                             \* mutant
StillOpened(o) == IsOpened(o)

CloseHandle(t) ==
  /\ pc[t] = "erase"
  /\ LET o == at[t] IN
     IF StillOpened(o)
     THEN /\ the_map' = [h \in Handle |-> IF the_map[h] = o THEN NoObject ELSE the_map[h]]
          /\ adb_handle' = [adb_handle EXCEPT ![o] = 0]
          /\ refs' = [refs EXCEPT ![o] = @ - 1]
     ELSE UNCHANGED <<the_map, adb_handle, refs>>
  /\ Goto(t, "release", NoObject, held[t])
  /\ UNCHANGED <<driver, type, parent, device, next_value>>

-----------------------------------------------------------------------------
Init ==
  /\ driver \in {"winusb", "legacy"}
  /\ type = [o \in Objects |-> "free"]
  /\ refs = [o \in Objects |-> 0]
  /\ adb_handle = [o \in Objects |-> 0]
  /\ parent = [o \in Objects |-> NoObject]
  /\ device = {}
  /\ the_map = [h \in Handle |-> NoObject]
  /\ next_value = 0
  /\ pc = [t \in Threads |-> "idle"]
  /\ at = [t \in Threads |-> NoObject]
  /\ held = [t \in Threads |-> <<>>]

Asks(t, h) == AsksEnum(t, h) \/ AsksInterface(t, h) \/ AsksEndpoint(t, h) \/ AsksIo(t, h)

Next ==
  \E t \in Threads :
    \/ AdbEnumInterfaces(t) \/ AdbCreateInterfaceByName(t)
    \/ OpenEndpoint(t) \/ NewCompletion(t) \/ CreateHandle(t) \/ StartIo(t)
    \/ TestDevice(t) \/ CloseDevice(t) \/ CloseHandle(t) \/ Release(t)
    \/ \E h \in Handle :
         Asks(t, h) \/ AdbOpenEndpoint(t, h) \/ AdbReadEndpointAsync(t, h)
           \/ AdbReadEndpointSync(t, h) \/ AdbCloseHandle(t, h)

Spec == Init /\ [][Next]_vars

-----------------------------------------------------------------------------
(* Every variable has its type.                                            *)
TypeOK ==
  /\ driver \in {"winusb", "legacy"}
  /\ type \in [Objects -> {"free", "lost", "enum", "interface", "unmade", "endpoint", "io"}]
  /\ refs \in [Objects -> Nat]
  /\ adb_handle \in [Objects -> 0..MaxHandle]
  /\ parent \in [Objects -> Objects \cup {NoObject}]
  /\ device \subseteq Objects
  /\ the_map \in [Handle -> Objects \cup {NoObject}]
  /\ next_value \in 0..MaxHandle
  /\ pc \in [Threads -> Making \cup {"idle", "start", "close", "closing", "erase", "release"}]
  /\ at \in [Threads -> Objects \cup {NoObject}]
  /\ held \in [Threads -> Seq(Objects)]

(* The map and the objects agree: a handle leads to the object that has    *)
(* it, and to no other.                                                    *)
MapAgrees ==
  \A h \in Handle, o \in Objects :
    the_map[h] = o <=> (adb_handle[o] = h)

(* Whoever can reach an object finds it alive: through a handle, through a *)
(* child, or in the middle of a call while another thread closes it.       *)
Reached ==
  {o \in Objects : \/ \E h \in Handle : the_map[h] = o
                   \/ \E c \in Objects : parent[c] = o
                   \/ \E t \in Threads : \E i \in DOMAIN held[t] : held[t][i] = o}
NoneDangles == \A o \in Reached : Live(o) /\ refs[o] > 0

(* What the last release deletes has closed its handle of the system, but  *)
(* for an interface of WinUSB whose CreateHandle failed after CreateFile.  *)
DevicesClosed == \A o \in device : Live(o) \/ type[o] = "lost"

(* And nothing else is kept: an object that nobody can reach is deleted.   *)
NoneLost == \A o \in Objects : Live(o) => o \in Reached

ObjectsKept == MapAgrees /\ NoneDangles /\ DevicesClosed /\ NoneLost

(* A handle that was closed stays closed, whatever object its memory holds *)
(* by then.                                                                *)
ClosedStays ==
  [][\A h \in Handle : h <= next_value /\ the_map[h] = NoObject => the_map'[h] = NoObject]_vars

=============================================================================
