------------------------------- MODULE FdEvent -------------------------------
(***************************************************************************)
(* The event loop of the server (android-tools/adb-bin/fdevent.cpp, the    *)
(* select() variant): which descriptors are watched, for what, which       *)
(* events are pending, and which handlers run. An fdevent is named by its  *)
(* descriptor; a descriptor closed by fdevent_remove may be installed      *)
(* again, as a new fdevent. A handler, while it runs, may change what any  *)
(* fdevent wants, remove or install any, and, if it is the handler of the  *)
(* shell-exit socket, force an end of file on another and call its handler *)
(* at once; MaxOps bounds how often all handlers together do so.           *)
(* FDE_ERROR is never asked for by the server and is left out.             *)
(***************************************************************************)
EXTENDS Naturals, Sequences, FiniteSets, SequencesExt

CONSTANTS
  Fd,           \* descriptors
  MaxOps        \* operations of handlers

ASSUME FdEventAssumption == Fd \subseteq Nat /\ IsFiniteSet(Fd) /\ MaxOps \in Nat

Event == {"R", "W"}

VARIABLES
  active,   \* descriptors in fd_table (FDE_ACTIVE)
  want,     \* want[f]: fde->state & FDE_EVENTMASK, the events asked for
  ev,       \* ev[f]: fde->events
  list,     \* list_pending
  calls,    \* the handlers that run, innermost last, with their events
  ready,    \* ready[f]: what the kernel would report
  bad,      \* descriptors that were closed behind the loop's back
  seen,     \* seen[f]: events reported for this fdevent since it was installed
  ops,      \* operations left to the handlers
  dead      \* SHOULD_DIE

vars == <<active, want, ev, list, calls, ready, bad, seen, ops, dead>>

Pending(f) == \E i \in DOMAIN list : list[i] = f

(* fdevent_plist_remove takes the node of f out of the list.               *)
Unlink(f) == RemoveAt(list, CHOOSE i \in DOMAIN list : list[i] = f)

-----------------------------------------------------------------------------
(* The kernel.                                                             *)
KernelReady(f, e) ==
  /\ ready' = [ready EXCEPT ![f] = IF e \in @ THEN @ \ {e} ELSE @ \cup {e}]
  /\ UNCHANGED <<active, want, ev, list, calls, bad, seen, ops, dead>>

KernelClosed(f) ==
  /\ f \in active /\ ops > 0 /\ ops' = ops - 1
  /\ bad' = bad \cup {f}
  /\ UNCHANGED <<active, want, ev, list, calls, ready, seen, dead>>

-----------------------------------------------------------------------------
(* fdevent_process: select returns what is wanted and ready, or EBADF, and *)
(* then every bad descriptor in the table is given a read event.           *)
ReportedReadOnly(f) == ready[f] \cap want[f] \cap {"R"}             \* mutant
Reported(f) == ready[f] \cap want[f]

BadFd == \E f \in bad \cap active : want[f] # {}

Report(f) == IF BadFd THEN IF f \in bad THEN {"R"} ELSE {} ELSE Reported(f)

HotPlusOne == {f + 1 : f \in {g \in active : Report(g) # {}}}        \* mutant
Hot == {f \in active : Report(f) # {}}

(* The descriptors of S in the order of fd_table.                          *)
Ascending(S) ==
  {s \in [1..Cardinality(S) -> S] :
     Range(s) = S /\ \A i, j \in DOMAIN s : i < j => s[i] < s[j]}

Process ==
  /\ ~dead /\ calls = <<>> /\ list = <<>> /\ Hot # {}
  /\ ev' = [f \in Fd |-> IF f \in Hot THEN ev[f] \cup Report(f) ELSE ev[f]]
  /\ seen' = [f \in Fd |-> IF f \in Hot THEN seen[f] \cup Report(f) ELSE seen[f]]
  /\ list' \in Ascending(Hot)
  /\ UNCHANGED <<active, want, calls, ready, bad, ops, dead>>

(* fdevent_plist_dequeue and fdevent_call_fdfunc.                          *)
Call(f) ==
  /\ calls' = Append(calls, [fd |-> f, ev |-> ev[f]])
  /\ ev' = [ev EXCEPT ![f] = {}]

Dispatch ==
  /\ ~dead /\ calls = <<>> /\ list # <<>>
  /\ Call(Head(list))
  /\ list' = Tail(list)
  /\ UNCHANGED <<active, want, ready, bad, seen, ops, dead>>

HandlerReturns ==
  /\ calls # <<>> /\ calls' = Front(calls)
  /\ UNCHANGED <<active, want, ev, list, ready, bad, seen, ops, dead>>

-----------------------------------------------------------------------------
(* What a handler may do. The end of the loop leaves the loop at once.     *)
Handling == calls # <<>> /\ ops > 0 /\ ops' = ops - 1

(* fdevent_set, fdevent_add and fdevent_del: a pending fdevent keeps the   *)
(* events that are NOT in the new set.                                     *)
Kept(f, events) == ev[f] \ events

UnlistNever(f, events) == list                                      \* mutant
Unlist(f, events) == IF Kept(f, events) = {} THEN Unlink(f) ELSE list

Set(f, events) ==
  /\ Handling /\ f \in active /\ want[f] # events
  /\ want' = [want EXCEPT ![f] = events]
  /\ IF Pending(f)
     THEN /\ ev' = [ev EXCEPT ![f] = Kept(f, events)]
          /\ list' = Unlist(f, events)
     ELSE UNCHANGED <<ev, list>>
  /\ UNCHANGED <<active, calls, ready, bad, seen, dead>>

(* fdevent_remove and fdevent_install start from no events.                *)
Inherit(f) == ev                                                    \* mutant
Forget(f) == [ev EXCEPT ![f] = {}]

(* fdevent_remove: the descriptor is closed.                               *)
UnqueueNever(f) == list                                             \* mutant
Unqueue(f) == IF Pending(f) THEN Unlink(f) ELSE list

RemoveFde(f) ==
  /\ Handling /\ f \in active
  /\ active' = active \ {f} /\ bad' = bad \ {f}
  /\ want' = [want EXCEPT ![f] = {}] /\ ev' = Forget(f)
  /\ list' = Unqueue(f)
  /\ ready' = [ready EXCEPT ![f] = {}]
  /\ UNCHANGED <<calls, seen, dead>>

(* fdevent_install on a descriptor that is not in the table.               *)
Install(f) ==
  /\ Handling /\ f \notin active
  /\ active' = active \cup {f}
  /\ want' = [want EXCEPT ![f] = {}] /\ ev' = Forget(f)
  /\ seen' = [seen EXCEPT ![f] = {}]
  /\ UNCHANGED <<list, calls, ready, bad, dead>>

(* fdevent_subproc_event_func on f: with nothing left to read the handler  *)
(* of f is called, unless f is pending and will be.                        *)
SubprocEof(f) ==
  /\ Handling /\ f \in active /\ "R" \notin ready[f]
  /\ seen' = [seen EXCEPT ![f] = @ \cup {"R"}]
  /\ IF Pending(f)
     THEN ev' = [ev EXCEPT ![f] = @ \cup {"R"}] /\ UNCHANGED calls
     ELSE /\ calls' = Append(calls, [fd |-> f, ev |-> ev[f] \cup {"R"}])
          /\ ev' = [ev EXCEPT ![f] = {}]
  /\ UNCHANGED <<active, want, list, ready, bad, dead>>

(* fdevent_exit_func: 0xDEAD was written by the add-on.                    *)
Die ==
  /\ calls # <<>> /\ ~dead /\ dead' = TRUE
  /\ UNCHANGED <<active, want, ev, list, calls, ready, bad, seen, ops>>

-----------------------------------------------------------------------------
Init ==
  /\ active = Fd /\ want = [f \in Fd |-> {"R"}]
  /\ ev = [f \in Fd |-> {}] /\ list = <<>> /\ calls = <<>>
  /\ ready = [f \in Fd |-> {}] /\ bad = {} /\ seen = [f \in Fd |-> {}]
  /\ ops = MaxOps /\ dead = FALSE

Operate(f) == (\E events \in SUBSET Event : Set(f, events)) \/ RemoveFde(f)
                \/ Install(f) \/ SubprocEof(f)

Next ==
  \/ Process \/ Dispatch \/ HandlerReturns \/ Die
  \/ \E f \in Fd : Operate(f) \/ KernelClosed(f) \/ \E e \in Event : KernelReady(f, e)

Spec == Init /\ [][Next]_vars

(* The loop runs and handlers return.                                      *)
Loop == Process \/ Dispatch \/ HandlerReturns
Fairness == WF_vars(Loop)
FairSpec == Spec /\ Fairness

-----------------------------------------------------------------------------
(* Every variable has its type; only descriptors in the table can be bad.  *)
TypeOK ==
  /\ active \subseteq Fd /\ bad \subseteq active
  /\ want \in [Fd -> SUBSET Event] /\ ev \in [Fd -> SUBSET Event]
  /\ ready \in [Fd -> SUBSET Event] /\ seen \in [Fd -> SUBSET Event]
  /\ list \in Seq(Fd) /\ calls \in Seq([fd : Fd, ev : SUBSET Event])
  /\ ops \in 0..MaxOps /\ dead \in BOOLEAN

(* The pending list holds each fdevent once, only such as are in the table *)
(* and have an event to deliver: FDE_PENDING, the list and fde->events     *)
(* agree whatever the handlers do to each other's fdevents.                *)
PendingAgrees ==
  /\ \A i, j \in DOMAIN list : list[i] = list[j] => i = j
  /\ \A f \in Fd : Pending(f) <=> f \in active /\ ev[f] # {}

(* An event that waits is one that was reported, or forced, for this very  *)
(* fdevent: none is inherited by an fdevent that reuses a descriptor.      *)
NoStaleEvent == \A f \in active : ev[f] \subseteq seen[f]

(* Both: what waits in the list is for its fdevent, once, and its own.     *)
EventsAgree == PendingAgrees /\ NoStaleEvent

(* The comment in fdevent_set: "if we're pending, make sure we don't       *)
(* signal an event that is no longer wanted".                              *)
Signal(c) == c.ev \subseteq want[c.fd] \/ c.fd \in bad
WantedOnly == [][Dispatch => Signal(Last(calls'))]_vars

(* A descriptor that stays ready for what it wants has its handler called  *)
(* again and again, however the others keep the loop busy; unless some     *)
(* handler ignores that its descriptor is bad, when select only fails.     *)
Calling(f) == \E i \in DOMAIN calls : calls[i].fd = f
Waiting(f, e) ==
  f \in active /\ e \in want[f] /\ e \in ready[f] /\ bad = {} /\ ~dead
Served ==
  \A f \in Fd, e \in Event : <>[]Waiting(f, e) => []<>Calling(f)
=============================================================================
