------------------------------ MODULE WinEvents ------------------------------
(***************************************************************************)
(* The event loop of the Windows build: event hooks, the looper and the    *)
(* fdevents of sysdeps_win32.cpp, over sockets and emulated socket pairs.  *)
(*                                                                         *)
(* Winsock records a network event once: FD_READ is recorded when data     *)
(* arrive or are left after recv, FD_WRITE when a full socket drains, each *)
(* if the last WSAEventSelect asked for it; WSAEnumNetworkEvents hands the *)
(* records over and clears them.  WSAEventSelect with other events records *)
(* anew what holds.  The events of a pair are those of its two buffers:    *)
(* set with can_read and can_write, and also by the close of an end, which *)
(* leaves the flags alone; the read that empties a buffer and the write    *)
(* that fills one reset them, after a close as before.                     *)
(***************************************************************************)
EXTENDS Naturals, Sequences, SequencesExt

CONSTANTS
    Sockets, Pairs     \* descriptors with an fdevent

(* Assumed of the constants (an instance checks it). *)
WinAssumption == Sockets \cap Pairs = {} /\ IsFiniteSet(Sockets \cup Pairs)

R == "R"
W == "W"
Fds == Sockets \cup Pairs

VARIABLES
    active,     \* descriptors whose fdevent is installed
    state,      \* per fdevent: the events wanted (state & FDE_EVENTMASK)
    events,     \* per fdevent: the events signalled (fde->events)
    pending,    \* list_pending
    wanted,     \* per hook: the events wanted; there is no hook when empty
    ready,      \* per hook: the events found ready in this round, until the peek
    sock,       \* per socket: events of the last WSAEventSelect, records, event object set
    can,        \* per descriptor: what would not block now
    signaled,   \* per pair: evt_read of the buffer it reads, evt_write of the one it writes
    gone,       \* pairs whose other end has closed
    pc          \* where fdevent_loop is: "prepare", "start", "wait", "peek", "dispatch"

vars == <<active, state, events, pending, wanted, ready, sock, can, signaled, gone, pc>>

Hooks == {f \in Fds : wanted[f] # {}}
FreshSocket == [mask |-> {}, record |-> {}, evt |-> FALSE]

Init ==
    /\ active = {} /\ pending = <<>> /\ gone = {} /\ pc = "prepare"
    /\ state = [f \in Fds |-> {}] /\ events = [f \in Fds |-> {}]
    /\ wanted = [f \in Fds |-> {}] /\ ready = [f \in Fds |-> {}]
    /\ sock = [f \in Sockets |-> FreshSocket]
    /\ can = [f \in Fds |-> {W}] /\ signaled = [f \in Pairs |-> {W}]

-----------------------------------------------------------------------------
(* Winsock: an event that now holds, and a new selection. *)
Recorded(k, e) == IF e \cap k.mask = {} THEN k
                  ELSE [k EXCEPT !.record = @ \cup (e \cap k.mask), !.evt = TRUE]
Select(k, m, now) == IF m = k.mask THEN k
                     ELSE [mask |-> m, record |-> now \cap m, evt |-> k.evt \/ now \cap m # {}]
Enumerated(S) == [f \in Sockets |-> IF f \in S THEN [sock[f] EXCEPT !.record = {}] ELSE sock[f]]

(* event_hook_signal for the hooks of S: pending, with the events wanted    *)
(* (not only the ones that are ready).                                      *)
SignalAll(S) ==
    /\ events' = [f \in Fds |-> IF f \in S THEN events[f] \cup wanted[f] ELSE events[f]]
    /\ pending' = pending \o SetToSeq({f \in S : ~Contains(pending, f)})

(* What prepare or peek finds: the state of a pair's buffers, the records  *)
(* of a socket.                                                             *)
Found(f) == wanted[f] \cap (IF f \in Pairs THEN can[f] ELSE sock[f].record)

(* The first half of fdevent_process: every hook is prepared; if one is     *)
(* ready all are peeked at, else the loop waits.                            *)
Prepare ==
    /\ pc = "prepare"
    /\ ready' = [f \in Fds |-> Found(f)]
    /\ LET S == {f \in Hooks : Found(f) # {}} IN
       /\ SignalAll(S)
       /\ pc' = IF S = {} THEN "start" ELSE "peek"
    /\ sock' = Enumerated(Hooks)
    /\ UNCHANGED <<active, state, wanted, can, signaled, gone>>

(* start of every hook: a socket whose events have changed is selected      *)
(* anew.  A pair cannot wait for both events: the round is given up.        *)
CannotStart(f) == f \in Pairs /\ wanted[f] = {R, W}
Start ==
    /\ pc = "start"
    /\ sock' = [f \in Sockets |-> IF f \in Hooks THEN Select(sock[f], wanted[f], can[f]) ELSE sock[f]]
    /\ pc' = IF Hooks = {} \/ \E f \in Hooks : CannotStart(f) THEN "dispatch" ELSE "wait"
    /\ UNCHANGED <<active, state, events, pending, wanted, ready, can, signaled, gone>>

(* WaitForMultipleObjects returns a handle that is set.  A socket is        *)
(* checked (its event reset, its records taken) and the wait goes on if     *)
(* nothing is ready; a pair has no check, and waits for the event of the    *)
(* one buffer that it wants something of.                                   *)
HandleSetOpen(f) ==    \* mutant
    IF f \in Sockets THEN sock[f].evt ELSE can[f] \cap wanted[f] # {}
HandleSet(f) ==
    IF f \in Sockets THEN sock[f].evt ELSE signaled[f] \cap wanted[f] # {}
Wait(f) ==
    /\ pc = "wait" /\ f \in Hooks /\ HandleSet(f)
    /\ LET found == IF f \in Sockets THEN Found(f) ELSE {}
           got == f \in Pairs \/ found # {}
       IN  /\ ready' = [ready EXCEPT ![f] = found]
           /\ SignalAll(IF got THEN {f} ELSE {})
           /\ pc' = IF got THEN "peek" ELSE "wait"
    /\ sock' = IF f \in Sockets THEN [Enumerated({f}) EXCEPT ![f].evt = FALSE] ELSE sock
    /\ UNCHANGED <<active, state, wanted, can, signaled, gone>>

(* The end of fdevent_process: every hook is peeked at.  What it found is   *)
(* not looked at again: the next round begins with hook->ready = 0.         *)
Peek ==
    /\ pc = "peek"
    /\ ready' = [f \in Fds |-> {}]
    /\ SignalAll({f \in Hooks : ready[f] \cup Found(f) # {}})
    /\ sock' = Enumerated(Hooks)
    /\ pc' = "dispatch"
    /\ UNCHANGED <<active, state, wanted, can, signaled, gone>>

-----------------------------------------------------------------------------
(* _fh_socket_hook runs before the new events are in hook->wanted: the      *)
(* socket is selected for the events the hook keeps.                        *)
HookSelect(k, kept, now) == Select(k, kept, now)

(* fdevent_update to the events s: removes, then adds; a socket to whose    *)
(* hook events are added (k after what the callback did) is selected.       *)
Rehook(f, s, k, now) ==
    /\ wanted' = [wanted EXCEPT ![f] = s]
    /\ sock' = IF f \in Pairs THEN sock
               ELSE [sock EXCEPT ![f] =
                        IF s \subseteq wanted[f] THEN k ELSE HookSelect(k, wanted[f] \cap s, now)]

(* fdevent_add from the callback of another fdevent; what a pending fdevent *)
(* keeps are the events NOT in the new set (fde->events &= ~events).        *)
Without(q, f) ==
    IF Contains(q, f) THEN RemoveAt(q, CHOOSE i \in 1..Len(q) : q[i] = f) ELSE q
Sock(f) == IF f \in Sockets THEN sock[f] ELSE FreshSocket
Add(f, e) ==
    /\ pc = "dispatch" /\ f \in active /\ e \notin state[f]
    /\ LET s == state[f] \cup {e}
           kept == IF Contains(pending, f) THEN events[f] \ s ELSE events[f]
       IN  /\ state' = [state EXCEPT ![f] = s]
           /\ Rehook(f, s, Sock(f), can[f])
           /\ events' = [events EXCEPT ![f] = kept]
           /\ pending' = IF kept = {} THEN Without(pending, f) ELSE pending
    /\ UNCHANGED <<active, ready, can, signaled, gone, pc>>

(* Others that a callback may call: an fdevent is installed on a new        *)
(* descriptor (and FDE_READ added), one is removed and closed.              *)
Install(f) ==
    /\ pc = "dispatch" /\ f \notin active
    /\ active' = active \cup {f}
    /\ state' = [state EXCEPT ![f] = {R}]
    /\ Rehook(f, {R}, FreshSocket, {W})
    /\ can' = [can EXCEPT ![f] = {W}] /\ gone' = gone \ {f}
    /\ signaled' = IF f \in Pairs THEN [signaled EXCEPT ![f] = {W}] ELSE signaled
    /\ UNCHANGED <<events, pending, ready, pc>>
Removed(f) ==
    /\ active' = active \ {f}
    /\ state' = [state EXCEPT ![f] = {}] /\ events' = [events EXCEPT ![f] = {}]
    /\ pending' = Without(pending, f)
    /\ wanted' = [wanted EXCEPT ![f] = {}]
    /\ UNCHANGED <<ready, sock, can, signaled, gone, pc>>
RemoveFde(f) == pc = "dispatch" /\ f \in active /\ Removed(f)

(* A read or a write of f after which `now` would not block: what ceased to *)
(* hold has its event reset, also when the other end has closed.            *)
Moved(f, now) ==
    /\ can' = [can EXCEPT ![f] = now]
    /\ signaled' = IF f \in Pairs THEN [signaled EXCEPT ![f] = @ \ (can[f] \ now)]
                   ELSE signaled

(* The callback of the first pending fdevent.  It reads what there is, or a *)
(* part, and closes when a read then says that its peer has gone: it reads  *)
(* again unless it has as much as it wants (MAX_PAYLOAD, which is also the  *)
(* size of a pair's buffer).  It may fill the buffer it writes to; and it   *)
(* sets its own events (local_socket_event_func).                           *)
Callback ==
    /\ pc = "dispatch" /\ pending # <<>>
    /\ LET f == Head(pending)
           reads == R \in events[f]
       IN  \/ reads /\ f \in gone /\ Removed(f)
           \/ ~(reads /\ f \in gone /\ R \notin can[f]) /\
              \E rest \in SUBSET (can[f] \cap {R}), full \in BOOLEAN, s \in SUBSET {R, W} :
                LET now == rest \cup (IF full THEN {} ELSE can[f] \ {R})
                    k == IF reads THEN Recorded(Sock(f), rest) ELSE Sock(f)
                IN  /\ reads \/ rest = can[f] \cap {R}
                    /\ Moved(f, now)
                    /\ state' = [state EXCEPT ![f] = s]
                    /\ Rehook(f, s, k, now)
                    /\ events' = [events EXCEPT ![f] = {}]
                    /\ pending' = Tail(pending)
                    /\ UNCHANGED <<active, ready, gone, pc>>
LoopAgain ==
    /\ pc = "dispatch" /\ pending = <<>>
    /\ pc' = "prepare"
    /\ UNCHANGED <<active, state, events, pending, wanted, ready, sock, can, signaled, gone>>

(* Data arrive, a full buffer drains; the other end of a pair closes. *)
Becomes(f, e) ==
    /\ f \in active /\ e \notin can[f] /\ f \notin gone
    /\ can' = [can EXCEPT ![f] = @ \cup {e}]
    /\ signaled' = IF f \in Pairs THEN [signaled EXCEPT ![f] = @ \cup {e}] ELSE signaled
    /\ sock' = IF f \in Sockets THEN [sock EXCEPT ![f] = Recorded(@, {e})] ELSE sock
    /\ UNCHANGED <<active, state, events, pending, wanted, ready, gone, pc>>
PeerCloses(f) ==
    /\ f \in Pairs \cap active /\ f \notin gone
    /\ gone' = gone \cup {f}
    /\ signaled' = [signaled EXCEPT ![f] = {R, W}]
    /\ UNCHANGED <<active, state, events, pending, wanted, ready, sock, can, pc>>

Next ==
    \/ Prepare \/ Start \/ Peek \/ Callback \/ LoopAgain
    \/ \E f \in Fds : \/ Wait(f) \/ Add(f, R) \/ Add(f, W) \/ Install(f) \/ RemoveFde(f)
                      \/ Becomes(f, R) \/ Becomes(f, W) \/ PeerCloses(f)

(* The loop thread runs, and a handle that is set again and again is        *)
(* returned by the system at last.                                          *)
Loop == Prepare \/ Start \/ Peek \/ Callback \/ LoopAgain
Fairness == WF_vars(Loop) /\ \A f \in Fds : SF_vars(Wait(f))

Spec == Init /\ [][Next]_vars /\ Fairness

-----------------------------------------------------------------------------
(* The fdevents, the list and the hooks agree: an fdevent that is pending   *)
(* has an event to deliver and the reverse, nothing is kept of one that is  *)
(* removed, a hook wants what its fdevent does, and an event a socket's     *)
(* hook wants and that holds is recorded, or will be by the next start.     *)
HooksAgree ==
    /\ IsInjective(pending)
    /\ \A f \in Fds :
          /\ Contains(pending, f) <=> events[f] # {}
          /\ wanted[f] = state[f]
          /\ f \notin active => state[f] = {} /\ events[f] = {}
PairsSignal ==
    \A f \in Pairs :
        /\ can[f] \subseteq signaled[f]
        /\ f \notin gone => signaled[f] = can[f]

(* Provided the loop comes to a wait again and again, an event that is      *)
(* wanted and holds, or the close of a pair's other end, is delivered       *)
(* unless its fdevent is removed or stops wanting it: no record is lost     *)
(* when events are taken back and wanted again between two rounds.  But for *)
(* one end of file: a callback that took, after the close, the last that    *)
(* was in the buffer and did not read on has reset the event of the close   *)
(* (sysdeps_win32.cpp:1093), and nothing sets it again.                     *)
EndMissed(f) == f \in gone /\ R \notin signaled[f]
Due(f) == R \in state[f] /\ (R \in can[f] \/ f \in gone)
Delivered(f) ==
    R \notin state[f] \/ R \in events[f] \/ (R \notin can[f] /\ f \notin gone) \/ EndMissed(f)
Noticed == ([]<>(pc = "wait")) => \A f \in Fds : Due(f) ~> Delivered(f)
MissedByRead == [][\A f \in Pairs : EndMissed(f)' /\ ~EndMissed(f) => f \in gone /\ R \in can[f]]_vars

=============================================================================
