------------------------------- MODULE WinFiles -------------------------------
(***************************************************************************)
(* Descriptors on Windows (sysdeps_win32.cpp): a table of handles, each    *)
(* with its class, taken by the calls that open a file or a socket and     *)
(* given back by adb_close, from any thread. The table has a lock, but     *)
(* each allocation initialises it anew before it takes it, so that it      *)
(* keeps out nobody who was not waiting already; closing takes no lock.    *)
(*                                                                         *)
(* Left out: names, eof, positions, the socket pairs (BipBuffer) and hooks *)
(* (WinEvents), which have the same table.                                 *)
(***************************************************************************)
EXTENDS Naturals, FiniteSets

CONSTANTS Threads, MaxFhs            \* WIN32_MAX_FHS

Slots == 0..(MaxFhs - 1)
Nowhere == MaxFhs                    \* a NULL FH

VARIABLES
  used, clazz,       \* _win32_fhs: clazz[s] is "NULL", "file" or "socket"
  fh_handle,         \* slots with a handle or socket of the system
  count,             \* _win32_fh_count
  holds,             \* holds[t]: the descriptors t was given and nobody has closed
  step,              \* step[t]: "idle" or where its call is
  wants,             \* wants[t]: the call that opens
  on,                \* on[t]: the FH it works on
  overlapped,        \* two threads were inside _fh_alloc at once
  under,             \* a descriptor was closed in the middle of a call on it
  lost,              \* slots that no close gives back
  crashed            \* a call through a clazz that is NULL

tableVars == <<used, clazz, fh_handle, count>>
filesVars == <<tableVars, holds, step, wants, on, overlapped, under, lost, crashed>>

Step(t, s) == step' = [step EXCEPT ![t] = s]
On(t, f) == on' = [on EXCEPT ![t] = f]
Held == UNION {holds[t] : t \in Threads}

-----------------------------------------------------------------------------
(* The calls that take a descriptor; accept is asked of a socket.          *)
Files == {"adb_open", "adb_creat"}
Sockets == {"socket_loopback_client", "socket_loopback_server", "socket_network_client",
            "socket_inaddr_any_server", "adb_socket_accept"}
ClassOf(c) == IF c \in Files THEN "file" ELSE "socket"

Call(t, c) ==
  /\ step[t] = "idle" /\ (c = "adb_socket_accept" => \E s \in holds[t] : clazz[s] = "socket")
  /\ Step(t, "alloc") /\ wants' = [wants EXCEPT ![t] = c]
  /\ UNCHANGED <<tableVars, holds, on, overlapped, under, lost, crashed>>

(* _fh_alloc: a slot never used before, or one whose class is NULL.        *)
Unused == {s \in Slots : clazz[s] = "NULL"}
First(S) == CHOOSE s \in S : \A r \in S : s <= r
Inside == {t \in Threads : step[t] = "inside"}

fh_alloc(t) ==
  /\ step[t] = "alloc" /\ overlapped' = (overlapped \/ Inside # {})
  /\ \/ /\ count < MaxFhs /\ On(t, count) /\ count' = count + 1 /\ Step(t, "inside")
     \/ /\ count = MaxFhs /\ Unused # {} /\ On(t, First(Unused)) /\ Step(t, "inside")
        /\ UNCHANGED count
     \/ /\ count = MaxFhs /\ Unused = {} /\ Step(t, "idle") /\ UNCHANGED <<count, on>>
  /\ UNCHANGED <<used, clazz, fh_handle, holds, wants, under, lost, crashed>>

fh_init(t) ==
  /\ step[t] = "inside" /\ Step(t, "opens")
  /\ clazz' = [clazz EXCEPT ![on[t]] = ClassOf(wants[t])] /\ used' = used \cup {on[t]}
  /\ UNCHANGED <<fh_handle, count, holds, wants, on, overlapped, under, lost, crashed>>

(* The system opens it: the descriptor is the caller's. Or something       *)
(* fails, and it is closed again.                                          *)
Opened(t) ==
  /\ step[t] = "opens" /\ Step(t, "idle")
  /\ fh_handle' = fh_handle \cup {on[t]} /\ holds' = [holds EXCEPT ![t] = @ \cup {on[t]}]
  /\ On(t, Nowhere) /\ wants' = [wants EXCEPT ![t] = "none"]
  /\ UNCHANGED <<used, clazz, count, overlapped, under, lost, crashed>>

Fails(t, c) ==
  /\ step[t] = "opens" /\ wants[t] = c /\ Step(t, "close")
  /\ UNCHANGED <<tableVars, holds, wants, on, overlapped, under, lost, crashed>>

adb_open(t) == Fails(t, "adb_open")
adb_creat(t) == Fails(t, "adb_creat")
socket_loopback_client(t) == Fails(t, "socket_loopback_client")
socket_network_client(t) == Fails(t, "socket_network_client")
socket_inaddr_any_server(t) == Fails(t, "socket_inaddr_any_server")
adb_socket_accept(t) == Fails(t, "adb_socket_accept")

(* socket_loopback_server, where no socket is to be had, forgets its FH.   *)
Forgets(t) ==
  /\ step[t] = "opens" /\ wants[t] = "socket_loopback_server" /\ Step(t, "idle")
  /\ lost' = lost \cup {on[t]} /\ On(t, Nowhere) /\ wants' = [wants EXCEPT ![t] = "none"]
  /\ UNCHANGED <<tableVars, holds, overlapped, under, crashed>>
socket_loopback_server(t) == Fails(t, "socket_loopback_server") \/ Forgets(t)

-----------------------------------------------------------------------------
(* adb_close of a descriptor that this or another thread was given: the    *)
(* handle of the system first, then used, then the class.                  *)
fh_from_int(f) == f < count /\ f \in used

adb_close(t, f) ==
  /\ step[t] = "idle" /\ f \in Held /\ fh_from_int(f)
  /\ holds' = [u \in Threads |-> holds[u] \ {f}]
  /\ under' = (under \/ \E u \in Threads : step[u] = "io" /\ on[u] = f)
  /\ Step(t, "close") /\ On(t, f)
  /\ UNCHANGED <<tableVars, wants, overlapped, lost, crashed>>

Class_close(t) ==
  /\ step[t] = "close"
  /\ IF clazz[on[t]] = "NULL" THEN crashed' = TRUE /\ UNCHANGED fh_handle
     ELSE fh_handle' = fh_handle \ {on[t]} /\ UNCHANGED crashed
  /\ Step(t, "unuse")
  /\ UNCHANGED <<used, clazz, count, holds, wants, on, overlapped, under, lost>>

Unuses(t) ==
  /\ step[t] = "unuse" /\ used' = used \ {on[t]} /\ Step(t, "unclass")
  /\ UNCHANGED <<clazz, fh_handle, count, holds, wants, on, overlapped, under, lost, crashed>>

fh_close(t) ==
  /\ step[t] = "unclass" /\ clazz' = [clazz EXCEPT ![on[t]] = "NULL"]
  /\ Step(t, "idle") /\ On(t, Nowhere) /\ wants' = [wants EXCEPT ![t] = "none"]
  /\ UNCHANGED <<used, fh_handle, count, holds, overlapped, under, lost, crashed>>

(* adb_read, adb_write, adb_lseek and adb_shutdown: the FH of the number,  *)
(* then a call of its class.                                               *)
Looks(t, f) ==
  /\ step[t] = "idle" /\ f \in Held /\ fh_from_int(f) /\ Step(t, "io") /\ On(t, f)
  /\ UNCHANGED <<tableVars, holds, wants, overlapped, under, lost, crashed>>

adb_read(t) ==
  /\ step[t] = "io" /\ crashed' = (crashed \/ clazz[on[t]] = "NULL")
  /\ Step(t, "idle") /\ On(t, Nowhere)
  /\ UNCHANGED <<tableVars, holds, wants, overlapped, under, lost>>

-----------------------------------------------------------------------------
Init ==
  /\ used = {} /\ clazz = [s \in Slots |-> "NULL"] /\ fh_handle = {} /\ count = 0
  /\ holds = [t \in Threads |-> {}] /\ step = [t \in Threads |-> "idle"]
  /\ wants = [t \in Threads |-> "none"] /\ on = [t \in Threads |-> Nowhere]
  /\ overlapped = FALSE /\ under = FALSE /\ lost = {} /\ crashed = FALSE

Next ==
  \E t \in Threads :
    \/ \E c \in Files \cup Sockets : Call(t, c)
    \/ fh_alloc(t) \/ fh_init(t) \/ Opened(t) \/ Class_close(t) \/ Unuses(t) \/ fh_close(t)
    \/ adb_open(t) \/ adb_creat(t) \/ socket_loopback_client(t) \/ socket_loopback_server(t)
    \/ socket_network_client(t) \/ socket_inaddr_any_server(t) \/ adb_socket_accept(t)
    \/ adb_read(t) \/ \E f \in Slots : adb_close(t, f) \/ Looks(t, f)

Spec == Init /\ [][Next]_filesVars

-----------------------------------------------------------------------------
(* Where no two threads allocated at once and none closed what another     *)
(* was using: a descriptor is of one thread, it has its class and what the *)
(* system gave for it, no call goes through a NULL class, and what nobody  *)
(* holds or works on is free again - but for what socket_loopback_server   *)
(* forgot.                                                                 *)
FilesKept ==
  ~overlapped /\ ~under =>
    /\ ~crashed
    /\ \A t, u \in Threads : holds[t] \cap holds[u] # {} => t = u
    /\ \A t \in Threads : step[t] \in {"inside", "opens", "close", "unuse", "unclass"} => on[t] \notin Held
    /\ \A f \in Held : f \in used /\ f \in fh_handle /\ clazz[f] # "NULL"
    /\ \A f \in Slots \ (Held \cup lost) :
         (\A t \in Threads : on[t] # f) => f \notin used /\ f \notin fh_handle /\ clazz[f] = "NULL"

=============================================================================
