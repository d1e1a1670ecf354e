------------------------------ MODULE DeviceList ------------------------------
(***************************************************************************)
(* The list of transports, and what the dashboard is told of it            *)
(* (transport.cpp): the poll thread and the io threads ask for a transport *)
(* to be added or removed over a socket pair, the event loop does it and   *)
(* tells the whole list each time (update_transports).  A device that may  *)
(* not be written to has no io threads; its transport is taken out of the  *)
(* list by the poll thread itself, and that is told to nobody.             *)
(*                                                                         *)
(* A line is a transport and its state, and they are of one length.  The   *)
(* transports are those of USB devices, each begins once.  Left out: the   *)
(* long list, and the life of the threads (AdbTransport).                  *)
(***************************************************************************)
EXTENDS Naturals, Sequences, FiniteSets

CONSTANTS
  Transports,
  Room,           \* the lines of an update
  MaxBanners      \* bound: the times a device connects

ListAssumption == Room \in Nat \ {0} /\ MaxBanners \in Nat

Banners == {"device", "recovery", "other"}

VARIABLES
  connection_state,
  life,       \* "none", "queued", "listed", "lost" (offline), "leaving", "freed"; without
              \* permission: "missed" and "stuck" (unregistered too early), "unlinked"
  list,       \* transport_list
  registration, \* what is in the socket pair: <<action, transport>>
  told,       \* the last device-update
  banners

listVars == <<connection_state, life, list, registration, told, banners>>

Becomes(t, l) == life' = [life EXCEPT ![t] = l]
Post(action, t) == registration' = Append(registration, <<action, t>>)

(* list_transports: the line that does not fit, and all after it, are left out. *)
Fit == IF Len(list') < Room THEN Len(list') ELSE Room
statename(t) == connection_state'[t]
format_transport(t) == <<t, statename(t)>>
list_transports == [i \in 1..Fit |-> format_transport(list'[i])]
update_transports == told' = list_transports

Unlink(t) == list' = SelectSeq(list, LAMBDA u : u # t)

-----------------------------------------------------------------------------
(* The poll thread: a device that is found, and one without permission     *)
(* that is gone.                                                           *)
register_transport(t) == Post("add", t)
init_usb_transport(t, s) == connection_state' = [connection_state EXCEPT ![t] = s]
register_usb_transport(t, writeable) ==
  /\ life[t] = "none" /\ Becomes(t, "queued") /\ register_transport(t)
  /\ init_usb_transport(t, IF writeable THEN "offline" ELSE "noperm")
  /\ UNCHANGED <<list, told, banners>>

unregister_usb_transport(t) ==
  /\ connection_state[t] = "noperm"
  /\ \/ life[t] = "listed" /\ Becomes(t, "unlinked") /\ Unlink(t)
     \/ life[t] = "queued" /\ Becomes(t, "missed") /\ UNCHANGED list
  /\ UNCHANGED <<connection_state, registration, told, banners>>

(* The event loop.                                                         *)
Added(t) == list' = Append(list, t)

transport_registration_func ==
  /\ registration # <<>> /\ registration' = Tail(registration)
  /\ LET t == Head(registration)[2] IN
       IF Head(registration)[1] = "remove" THEN Unlink(t) /\ Becomes(t, "freed")
       ELSE Added(t) /\ Becomes(t, IF life[t] = "missed" THEN "stuck" ELSE "listed")
  /\ UNCHANGED <<connection_state, banners>>
  /\ update_transports

(* CNXN: a banner of no known type makes it a "host", which is not told,   *)
(* nor that it was offline in between.                                     *)
parse_banner(t, type) ==
  /\ life[t] = "listed" /\ connection_state[t] # "noperm" /\ banners[t] < MaxBanners
  /\ banners' = [banners EXCEPT ![t] = @ + 1]
  /\ connection_state' = [connection_state EXCEPT ![t] = IF type = "other" THEN "host" ELSE type]
  /\ UNCHANGED <<life, list, registration>>
  /\ IF type = "other" THEN UNCHANGED told ELSE update_transports

(* SYNC(0, 0), which is not told; and the last reference.                  *)
Offline(t) ==
  /\ life[t] = "listed" /\ connection_state[t] # "noperm" /\ Becomes(t, "lost")
  /\ connection_state' = [connection_state EXCEPT ![t] = "offline"]
  /\ UNCHANGED <<list, registration, told, banners>>

remove_transport(t) ==
  /\ life[t] = "lost" /\ Becomes(t, "leaving") /\ Post("remove", t)
  /\ UNCHANGED <<connection_state, list, told, banners>>

-----------------------------------------------------------------------------
Init ==
  /\ connection_state = [t \in Transports |-> "none"] /\ life = [t \in Transports |-> "none"]
  /\ list = <<>> /\ registration = <<>> /\ told = <<>> /\ banners = [t \in Transports |-> 0]

Next ==
  \/ transport_registration_func
  \/ \E t \in Transports :
       \/ \E w \in BOOLEAN : register_usb_transport(t, w)
       \/ \E b \in Banners : parse_banner(t, b)
       \/ unregister_usb_transport(t) \/ Offline(t) \/ remove_transport(t)

(* The event loop goes on, and the io threads of a transport end.          *)
Fairness ==
  /\ WF_listVars(transport_registration_func)
  /\ \A t \in Transports : WF_listVars(remove_transport(t))
Spec == Init /\ [][Next]_listVars /\ Fairness

-----------------------------------------------------------------------------
In(seq, t) == \E i \in 1..Len(seq) : seq[i] = t
Shown(t) == \E i \in 1..Len(told) : told[i][1] = t
Silent == \E t \in Transports : life[t] = "unlinked" /\ Shown(t)

(* A transport is in the list once, from its registration to its removal,  *)
(* whatever the threads asked for in between.  What the dashboard was told *)
(* is the list, in its order, as far as there was room, but for what is    *)
(* told to nobody: a device without permission that has gone, and that a   *)
(* transport has become offline or a host.                                 *)
ListTold ==
  /\ \A t \in Transports :
       /\ In(list, t) = (life[t] \in {"listed", "lost", "leaving", "stuck"})
       /\ Cardinality({i \in 1..Len(list) : list[i] = t}) =< 1
  /\ ~Silent => [i \in 1..Len(told) |-> told[i][1]]
                  = SubSeq(list, 1, IF Len(list) < Room THEN Len(list) ELSE Room)
  /\ \A i \in 1..Len(told) :
       LET t == told[i][1] IN
       \/ told[i][2] = connection_state[t]
       \/ connection_state[t] \in {"offline", "host"}

(* A transport that has been lost is not shown for ever.                   *)
Lost(t) == life[t] = "lost"
GoneTold == \A t \in Transports : Lost(t) ~> ~Shown(t)

=============================================================================
