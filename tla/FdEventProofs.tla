---------------------------- MODULE FdEventProofs ----------------------------
(***************************************************************************)
(* Theorems about FdEvent, for any set of descriptors and any number of    *)
(* operations: type correctness, and that the pending list, FDE_PENDING    *)
(* and fde->events agree whatever the handlers do to each other's          *)
(* fdevents.  Both are inductive together: the list can be searched for a  *)
(* node by its descriptor only because it holds each of them once.         *)
(***************************************************************************)
EXTENDS MCLoops, FiniteSetTheorems, TLAPS

IInv == TypeOK /\ EventsAgree

Frame == [fd : Fd, ev : SUBSET Event]

(* A list that holds nothing twice.                                        *)
Distinct(s) == \A i, j \in DOMAIN s : s[i] = s[j] => i = j
Holds(s, f) == \E i \in DOMAIN s : s[i] = f

-----------------------------------------------------------------------------
(* The list.                                                               *)

LEMMA TailOf ==
  ASSUME NEW S, NEW s \in Seq(S), s # <<>>, Distinct(s)
  PROVE  /\ Head(s) \in S /\ Tail(s) \in Seq(S) /\ Distinct(Tail(s))
         /\ \A f \in S : Holds(Tail(s), f) <=> Holds(s, f) /\ f # Head(s)
<1>1. /\ Len(s) \in Nat /\ Len(s) > 0 /\ DOMAIN s = 1..Len(s)
      /\ Head(s) = s[1] /\ Head(s) \in S
      /\ Tail(s) \in Seq(S) /\ DOMAIN Tail(s) = 1..(Len(s) - 1)
      /\ \A i \in 1..(Len(s) - 1) : Tail(s)[i] = s[i + 1]
  OBVIOUS
<1>2. Distinct(Tail(s)) BY <1>1 DEF Distinct
<1>3. ASSUME NEW f \in S PROVE Holds(Tail(s), f) <=> Holds(s, f) /\ f # Head(s)
  <2>1. ASSUME Holds(Tail(s), f) PROVE Holds(s, f) /\ f # Head(s)
    <3>1. PICK i \in 1..(Len(s) - 1) : Tail(s)[i] = f BY <1>1, <2>1 DEF Holds
    <3>2. s[i + 1] = f /\ i + 1 \in DOMAIN s /\ i + 1 # 1 /\ 1 \in DOMAIN s
      BY <1>1, <3>1
    <3> QED BY <1>1, <3>2 DEF Holds, Distinct
  <2>2. ASSUME Holds(s, f), f # Head(s) PROVE Holds(Tail(s), f)
    <3>1. PICK i \in 1..Len(s) : s[i] = f BY <1>1, <2>2 DEF Holds
    <3>2. i - 1 \in 1..(Len(s) - 1) BY <1>1, <2>2, <3>1
    <3>3. Tail(s)[i - 1] = s[(i - 1) + 1] BY <1>1, <3>2
    <3>4. (i - 1) + 1 = i BY <1>1
    <3> QED BY <1>1, <3>1, <3>2, <3>3, <3>4 DEF Holds
  <2> QED BY <2>1, <2>2
<1> QED BY <1>1, <1>2, <1>3

LEMMA RemovedAt ==
  ASSUME NEW S, NEW s \in Seq(S), NEW i \in DOMAIN s, Distinct(s),
         NEW r, r = RemoveAt(s, i)
  PROVE  /\ r \in Seq(S) /\ Distinct(r)
         /\ \A f \in S : Holds(r, f) <=> Holds(s, f) /\ f # s[i]
<1> DEFINE a == SubSeq(s, 1, i - 1)
           b == SubSeq(s, i + 1, Len(s))
<1>1. /\ Len(s) \in Nat /\ DOMAIN s = 1..Len(s) /\ i \in Nat /\ 1 <= i /\ i <= Len(s)
  OBVIOUS
<1>2. a \in Seq(S) /\ Len(a) = i - 1 /\ \A k \in 1..(i - 1) : a[k] = s[k]
  BY <1>1
<1>3. b \in Seq(S) /\ Len(b) = Len(s) - i /\ \A k \in 1..(Len(s) - i) : b[k] = s[i + k]
  BY <1>1
<1>r. r = a \o b BY DEF RemoveAt
<1> HIDE DEF a, b
<1>4. /\ r \in Seq(S) /\ Len(r) = Len(s) - 1 /\ DOMAIN r = 1..(Len(s) - 1)
      /\ \A k \in 1..(i - 1) : r[k] = a[k]
      /\ \A k \in 1..(Len(s) - i) : r[k + (i - 1)] = b[k]
  <2>0. a \in Seq(S) /\ b \in Seq(S) BY <1>2, <1>3
  <2>1. r \in Seq(S) /\ Len(r) = Len(a) + Len(b) BY <2>0, <1>r
  <2>2. \A k \in 1..Len(a) : r[k] = a[k] BY <2>0, <1>r
  <2>3. \A k \in 1..Len(b) : r[k + Len(a)] = b[k] BY <2>0, <1>r
  <2>4. Len(r) = Len(s) - 1 BY <1>1, <1>2, <1>3, <2>1
  <2> QED BY <1>1, <1>2, <1>3, <2>1, <2>2, <2>3, <2>4
<1>5. \A k \in 1..(Len(s) - 1) : r[k] = IF k < i THEN s[k] ELSE s[k + 1]
  <2>1. ASSUME NEW k \in 1..(Len(s) - 1), k < i PROVE r[k] = s[k]
    BY <1>1, <1>2, <1>4, <2>1
  <2>2. ASSUME NEW k \in 1..(Len(s) - 1), ~(k < i) PROVE r[k] = s[k + 1]
    <3> DEFINE j == k - (i - 1)
    <3>1. j \in 1..(Len(s) - i) /\ j + (i - 1) = k /\ i + j = k + 1
      BY <1>1, <2>2
    <3> HIDE DEF j
    <3>2. r[j + (i - 1)] = b[j] /\ b[j] = s[i + j] BY <1>3, <1>4, <3>1
    <3> QED BY <3>1, <3>2
  <2> QED BY <2>1, <2>2
<1>6. Distinct(r)
  <2>1. ASSUME NEW j \in DOMAIN r, NEW k \in DOMAIN r, r[j] = r[k] PROVE j = k
    <3> DEFINE m(n) == IF n < i THEN n ELSE n + 1
    <3>1. m(j) \in DOMAIN s /\ m(k) \in DOMAIN s BY <1>1, <1>4
    <3>2. r[j] = s[m(j)] /\ r[k] = s[m(k)] BY <1>4, <1>5
    <3>3. m(j) = m(k)
      <4> HIDE DEF m
      <4> QED BY <2>1, <3>1, <3>2 DEF Distinct
    <3> QED BY <1>1, <1>4, <3>3
  <2> QED BY <2>1 DEF Distinct
<1>7. ASSUME NEW f \in S PROVE Holds(r, f) <=> Holds(s, f) /\ f # s[i]
  <2>1. ASSUME Holds(r, f) PROVE Holds(s, f) /\ f # s[i]
    <3>1. PICK k \in 1..(Len(s) - 1) : r[k] = f BY <1>4, <2>1 DEF Holds
    <3>2. PICK j \in DOMAIN s : j # i /\ s[j] = f
      <4>1. CASE k < i BY <1>1, <1>5, <3>1, <4>1
      <4>2. CASE ~(k < i)
        <5>1. k + 1 \in DOMAIN s /\ k + 1 # i BY <1>1, <4>2
        <5> QED BY <1>5, <3>1, <4>2, <5>1
      <4> QED BY <4>1, <4>2
    <3>3. Holds(s, f) BY <3>2 DEF Holds
    <3>4. f # s[i] BY <1>1, <3>2 DEF Distinct
    <3> QED BY <3>3, <3>4
  <2>2. ASSUME Holds(s, f), f # s[i] PROVE Holds(r, f)
    <3>1. PICK k \in 1..Len(s) : s[k] = f BY <1>1, <2>2 DEF Holds
    <3>2. CASE k < i
      <4>1. k \in 1..(Len(s) - 1) /\ k \in DOMAIN r BY <1>1, <1>4, <3>1, <3>2
      <4>2. r[k] = s[k] BY <1>5, <3>2, <4>1
      <4> QED BY <3>1, <4>1, <4>2 DEF Holds
    <3>3. CASE k > i
      <4>1. k - 1 \in 1..(Len(s) - 1) /\ ~(k - 1 < i) /\ (k - 1) + 1 = k
        BY <1>1, <3>1, <3>3
      <4>2. r[k - 1] = s[k] BY <1>5, <4>1
      <4> QED BY <1>4, <3>1, <4>1, <4>2 DEF Holds
    <3> QED BY <1>1, <2>2, <3>1, <3>2, <3>3
  <2> QED BY <2>1, <2>2
<1> QED BY <1>4, <1>6, <1>7

(* fdevent_plist_remove takes one fdevent out of the list and no other.    *)
LEMMA Unlinked ==
  ASSUME IInv, NEW f \in Fd, Pending(f)
  PROVE  /\ Unlink(f) \in Seq(Fd) /\ Distinct(Unlink(f))
         /\ \A g \in Fd : Holds(Unlink(f), g) <=> Pending(g) /\ g # f
<1> DEFINE i == CHOOSE k \in DOMAIN list : list[k] = f
<1>1. i \in DOMAIN list /\ list[i] = f BY DEF Pending
<1>2. list \in Seq(Fd) /\ Distinct(list)
  BY DEF IInv, TypeOK, EventsAgree, PendingAgrees, Distinct
<1>3. \A g \in Fd : Holds(list, g) <=> Pending(g) BY DEF Holds, Pending
<1>4. Unlink(f) = RemoveAt(list, i) BY DEF Unlink
<1> HIDE DEF i
<1> QED BY <1>1, <1>2, <1>3, <1>4, RemovedAt

(* The order of fd_table, from a finite set, names each member once.       *)
LEMMA AscendingOf ==
  ASSUME NEW S \in SUBSET Fd, NEW s \in Ascending(S)
  PROVE  s \in Seq(Fd) /\ Distinct(s) /\ \A f \in Fd : Holds(s, f) <=> f \in S
<1>1. IsFiniteSet(S) /\ Cardinality(S) \in Nat
  BY FdEventAssumption, FS_Subset, FS_CardinalityType
<1>2. s \in [1..Cardinality(S) -> S] BY DEF Ascending
<1>r. Range(s) = S BY DEF Ascending
<1>o. \A i, j \in DOMAIN s : i < j => s[i] < s[j] BY DEF Ascending
<1>3. s \in Seq(Fd) BY <1>1, <1>2
<1>4. Distinct(s)
  <2>1. ASSUME NEW i \in DOMAIN s, NEW j \in DOMAIN s, s[i] = s[j] PROVE i = j
    <3>1. S \subseteq Nat BY FdEventAssumption
    <3>2. i \in 1..Cardinality(S) /\ j \in 1..Cardinality(S) BY <1>2
    <3>3. i \in Nat /\ j \in Nat BY <1>1, <3>2
    <3>4. s[i] \in Nat /\ s[j] \in Nat BY <1>2, <3>1, <3>2
    <3>5. ~(i < j) /\ ~(j < i) BY <1>o, <2>1, <3>4
    <3> QED BY <3>3, <3>5
  <2> QED BY <2>1 DEF Distinct
<1>5. \A f \in Fd : Holds(s, f) <=> f \in S
  BY <1>r DEF Range, Holds
<1> QED BY <1>3, <1>4, <1>5

-----------------------------------------------------------------------------

LEMMA InitHolds == ASSUME Init PROVE IInv
<1>1. TypeOK
  <2>1. ops \in 0..MaxOps BY FdEventAssumption DEF Init
  <2>2. list \in Seq(Fd) /\ calls \in Seq(Frame) BY DEF Init
  <2>3. [f \in Fd |-> {}] \in [Fd -> SUBSET Event]
        /\ [f \in Fd |-> {"R"}] \in [Fd -> SUBSET Event]
    BY DEF Event
  <2> QED BY <2>1, <2>2, <2>3 DEF Init, TypeOK, Frame
<1>2. EventsAgree
  BY DEF Init, EventsAgree, PendingAgrees, NoStaleEvent, Pending
<1> QED BY <1>1, <1>2 DEF IInv

(* What a step must do to keep list and events in agreement.               *)
LEMMA AgreeIf ==
  ASSUME Distinct(list'),
         \A f \in Fd : Holds(list', f) <=> f \in active' /\ ev'[f] # {},
         \A f \in active' : ev'[f] \subseteq seen'[f]
  PROVE  EventsAgree'
BY DEF EventsAgree, PendingAgrees, NoStaleEvent, Pending, Distinct, Holds

LEMMA Agreed ==
  ASSUME IInv
  PROVE  /\ list \in Seq(Fd) /\ Distinct(list)
         /\ \A f \in Fd : Holds(list, f) <=> Pending(f)
         /\ \A f \in Fd : Pending(f) <=> f \in active /\ ev[f] # {}
         /\ \A f \in active : f \in Fd /\ ev[f] \subseteq seen[f]
BY DEF IInv, TypeOK, EventsAgree, PendingAgrees, NoStaleEvent, Distinct, Holds,
   Pending

LEMMA ProcessHolds == ASSUME IInv, Process PROVE IInv'
<1>0. TypeOK BY DEF IInv
<1>1. \A f \in Fd : Report(f) \subseteq Event
  BY <1>0 DEF TypeOK, Report, Reported, Event
<1>2. Hot \in SUBSET Fd /\ Hot \subseteq active /\ \A f \in Hot : Report(f) # {}
  BY <1>0 DEF Hot, TypeOK
<1>3. list' \in Seq(Fd) /\ Distinct(list') /\ \A f \in Fd : Holds(list', f) <=> f \in Hot
  BY <1>2, AscendingOf DEF Process
<1>4. /\ ev' = [f \in Fd |-> IF f \in Hot THEN ev[f] \cup Report(f) ELSE ev[f]]
      /\ seen' = [f \in Fd |-> IF f \in Hot THEN seen[f] \cup Report(f) ELSE seen[f]]
      /\ UNCHANGED <<active, want, calls, ready, bad, ops, dead>>
  BY DEF Process
<1>5. TypeOK' BY <1>0, <1>1, <1>3, <1>4 DEF TypeOK
<1>6. \A f \in active : ev[f] = {}
  <2>1. \A f \in Fd : ~Pending(f) BY DEF Process, Pending
  <2> QED BY <2>1, Agreed
<1>7. \A f \in Fd : f \in active' /\ ev'[f] # {} <=> f \in Hot
  BY <1>2, <1>4, <1>6
<1>8. \A f \in active' : ev'[f] \subseteq seen'[f] BY <1>4, Agreed
<1> QED BY <1>3, <1>5, <1>7, <1>8, AgreeIf DEF IInv

LEMMA DispatchHolds == ASSUME IInv, Dispatch PROVE IInv'
<1>0. TypeOK BY DEF IInv
<1> DEFINE f == Head(list)
<1>1. /\ f \in Fd /\ Tail(list) \in Seq(Fd) /\ Distinct(Tail(list))
      /\ \A g \in Fd : Holds(Tail(list), g) <=> Pending(g) /\ g # f
  BY Agreed, TailOf DEF Dispatch
<1>2. /\ calls' = Append(calls, [fd |-> f, ev |-> ev[f]])
      /\ ev' = [ev EXCEPT ![f] = {}] /\ list' = Tail(list)
      /\ UNCHANGED <<active, want, ready, bad, seen, ops, dead>>
  BY DEF Dispatch, Call
<1> HIDE DEF f
<1>3. calls' \in Seq(Frame) /\ ev' \in [Fd -> SUBSET Event]
  BY <1>0, <1>1, <1>2 DEF TypeOK, Frame
<1>4. TypeOK' BY <1>0, <1>1, <1>2, <1>3 DEF TypeOK, Frame
<1>5. \A g \in Fd : ev'[g] = IF g = f THEN {} ELSE ev[g]
  BY <1>0, <1>2 DEF TypeOK
<1> QED BY <1>1, <1>2, <1>4, <1>5, Agreed, AgreeIf DEF IInv

LEMMA SetHolds ==
  ASSUME IInv, NEW f \in Fd, NEW es \in SUBSET Event, Set(f, es)
  PROVE  IInv'
<1>0. TypeOK /\ f \in active BY DEF IInv, Set
<1>1. /\ want' = [want EXCEPT ![f] = es] /\ want' \in [Fd -> SUBSET Event]
      /\ ops' \in 0..MaxOps
      /\ UNCHANGED <<active, calls, ready, bad, seen, dead>>
  BY <1>0, FdEventAssumption DEF Set, Handling, TypeOK
<1>2. CASE ~Pending(f)
  <2>1. ev' = ev /\ list' = list BY <1>2 DEF Set
  <2> QED BY <1>0, <1>1, <2>1, Agreed, AgreeIf DEF IInv, TypeOK
<1>3. CASE Pending(f)
  <2>1. ev' = [ev EXCEPT ![f] = Kept(f, es)] /\ Kept(f, es) \subseteq ev[f]
        /\ list' = Unlist(f, es)
    BY <1>3 DEF Set, Kept
  <2>2. \A g \in Fd : ev'[g] = IF g = f THEN Kept(f, es) ELSE ev[g]
    BY <1>0, <2>1 DEF TypeOK
  <2>3. ev' \in [Fd -> SUBSET Event] BY <1>0, <2>1 DEF TypeOK
  <2>4. \A g \in active' : ev'[g] \subseteq seen'[g]
    BY <1>1, <2>1, <2>2, Agreed
  <2>5. CASE Kept(f, es) = {}
    <3>1. list' = Unlink(f) BY <2>1, <2>5 DEF Unlist
    <3>2. /\ list' \in Seq(Fd) /\ Distinct(list')
          /\ \A g \in Fd : Holds(list', g) <=> Pending(g) /\ g # f
      BY <1>3, <3>1, Unlinked
    <3>3. TypeOK' BY <1>0, <1>1, <2>3, <3>2 DEF TypeOK
    <3> QED BY <1>1, <2>2, <2>4, <2>5, <3>2, <3>3, Agreed, AgreeIf DEF IInv
  <2>6. CASE Kept(f, es) # {}
    <3>1. list' = list BY <2>1, <2>6 DEF Unlist
    <3>2. TypeOK' BY <1>0, <1>1, <2>3, <3>1 DEF TypeOK
    <3> QED BY <1>0, <1>1, <1>3, <2>2, <2>4, <2>6, <3>1, <3>2, Agreed, AgreeIf
        DEF IInv
  <2> QED BY <2>5, <2>6
<1> QED BY <1>2, <1>3

LEMMA RemoveHolds == ASSUME IInv, NEW f \in Fd, RemoveFde(f) PROVE IInv'
<1>0. TypeOK /\ f \in active BY DEF IInv, RemoveFde
<1>1. /\ active' = active \ {f} /\ bad' = bad \ {f}
      /\ want' = [want EXCEPT ![f] = {}] /\ ev' = [ev EXCEPT ![f] = {}]
      /\ ready' = [ready EXCEPT ![f] = {}] /\ ops' \in 0..MaxOps
      /\ UNCHANGED <<calls, seen, dead>>
  BY <1>0, FdEventAssumption DEF RemoveFde, Forget, Handling, TypeOK
<1>2. /\ list' \in Seq(Fd) /\ Distinct(list')
      /\ \A g \in Fd : Holds(list', g) <=> Pending(g) /\ g # f
  <2>1. CASE Pending(f) BY <2>1, Unlinked DEF RemoveFde, Unqueue
  <2>2. CASE ~Pending(f)
    <3>1. list' = list BY <2>2 DEF RemoveFde, Unqueue
    <3> QED BY <2>2, <3>1, Agreed
  <2> QED BY <2>1, <2>2
<1>3. TypeOK' BY <1>0, <1>1, <1>2 DEF TypeOK
<1>4. \A g \in Fd : ev'[g] = IF g = f THEN {} ELSE ev[g]
  BY <1>0, <1>1 DEF TypeOK
<1> QED BY <1>1, <1>2, <1>3, <1>4, Agreed, AgreeIf DEF IInv

LEMMA InstallHolds == ASSUME IInv, NEW f \in Fd, Install(f) PROVE IInv'
<1>0. TypeOK /\ f \notin active BY DEF IInv, Install
<1>1. /\ active' = active \cup {f} /\ list' = list
      /\ want' = [want EXCEPT ![f] = {}] /\ ev' = [ev EXCEPT ![f] = {}]
      /\ seen' = [seen EXCEPT ![f] = {}] /\ ops' \in 0..MaxOps
      /\ UNCHANGED <<calls, ready, bad, dead>>
  BY <1>0, FdEventAssumption DEF Install, Forget, Handling, TypeOK
<1>2. TypeOK' BY <1>0, <1>1 DEF TypeOK
<1>3. \A g \in Fd : /\ ev'[g] = IF g = f THEN {} ELSE ev[g]
                    /\ seen'[g] = IF g = f THEN {} ELSE seen[g]
  BY <1>0, <1>1 DEF TypeOK
<1> QED BY <1>0, <1>1, <1>2, <1>3, Agreed, AgreeIf DEF IInv

LEMMA SubprocHolds == ASSUME IInv, NEW f \in Fd, SubprocEof(f) PROVE IInv'
<1>0. TypeOK /\ f \in active BY DEF IInv, SubprocEof
<1>1. /\ seen' = [seen EXCEPT ![f] = @ \cup {"R"}] /\ list' = list
      /\ ops' \in 0..MaxOps
      /\ UNCHANGED <<active, want, ready, bad, dead>>
  BY <1>0, FdEventAssumption DEF SubprocEof, Handling, TypeOK
<1>2. \A g \in Fd : seen'[g] = IF g = f THEN seen[g] \cup {"R"} ELSE seen[g]
  BY <1>0, <1>1 DEF TypeOK
<1>3. seen' \in [Fd -> SUBSET Event] BY <1>0, <1>1 DEF TypeOK, Event
<1>4. CASE Pending(f)
  <2>1. ev' = [ev EXCEPT ![f] = @ \cup {"R"}] /\ UNCHANGED calls
    BY <1>4 DEF SubprocEof
  <2>2. \A g \in Fd : ev'[g] = IF g = f THEN ev[g] \cup {"R"} ELSE ev[g]
    BY <1>0, <2>1 DEF TypeOK
  <2>3. ev' \in [Fd -> SUBSET Event] BY <1>0, <2>1 DEF TypeOK, Event
  <2>4. TypeOK' BY <1>0, <1>1, <1>3, <2>1, <2>3 DEF TypeOK
  <2>5. \A g \in Fd : ev'[g] # {} <=> ev[g] # {}
    BY <1>0, <1>4, <2>2, Agreed
  <2>6. /\ Distinct(list')
        /\ \A g \in Fd : Holds(list', g) <=> g \in active' /\ ev'[g] # {}
    BY <1>1, <2>5, Agreed
  <2>7. ASSUME NEW g \in active' PROVE ev'[g] \subseteq seen'[g]
    <3>1. g \in Fd /\ ev[g] \subseteq seen[g] BY <1>1, Agreed
    <3> QED BY <1>2, <2>2, <3>1
  <2> QED BY <2>4, <2>6, <2>7, AgreeIf DEF IInv
<1>5. CASE ~Pending(f)
  <2>1. /\ calls' = Append(calls, [fd |-> f, ev |-> ev[f] \cup {"R"}])
        /\ ev' = [ev EXCEPT ![f] = {}]
    BY <1>5 DEF SubprocEof
  <2>2. \A g \in Fd : ev'[g] = IF g = f THEN {} ELSE ev[g]
    BY <1>0, <2>1 DEF TypeOK
  <2>3. [fd |-> f, ev |-> ev[f] \cup {"R"}] \in Frame
    BY <1>0 DEF TypeOK, Frame, Event
  <2>4. calls' \in Seq(Frame) /\ ev' \in [Fd -> SUBSET Event]
    BY <1>0, <2>1, <2>3 DEF TypeOK, Frame
  <2>5. TypeOK' BY <1>0, <1>1, <1>3, <2>4 DEF TypeOK, Frame
  <2> QED BY <1>1, <1>2, <1>5, <2>2, <2>5, Agreed, AgreeIf DEF IInv
<1> QED BY <1>4, <1>5

(* Steps that leave the list and what waits in it alone.                   *)
LEMMA OthersHold ==
  ASSUME IInv, UNCHANGED <<active, ev, list, seen>>, TypeOK' PROVE IInv'
BY Agreed, AgreeIf DEF IInv

LEMMA NextHolds == IInv /\ [Next]_vars => IInv'
<1> SUFFICES ASSUME IInv, [Next]_vars PROVE IInv' OBVIOUS
<1>0. TypeOK BY DEF IInv
<1>1. CASE HandlerReturns
  <2>1. calls \in Seq(Frame) /\ calls # <<>> /\ calls' = Front(calls)
    BY <1>0, <1>1 DEF HandlerReturns, TypeOK, Frame
  <2>2. calls' \in Seq(Frame) BY <2>1 DEF Front
  <2>3. TypeOK' BY <1>0, <1>1, <2>2 DEF HandlerReturns, TypeOK, Frame
  <2> QED BY <1>1, <2>3, OthersHold DEF HandlerReturns
<1>2. CASE Die
  <2>1. TypeOK' BY <1>0, <1>2 DEF Die, TypeOK
  <2> QED BY <1>2, <2>1, OthersHold DEF Die
<1>3. ASSUME NEW f \in Fd, KernelClosed(f) PROVE IInv'
  <2>1. TypeOK' BY <1>0, <1>3, FdEventAssumption DEF KernelClosed, TypeOK
  <2> QED BY <1>3, <2>1, OthersHold DEF KernelClosed
<1>4. ASSUME NEW f \in Fd, NEW e \in Event, KernelReady(f, e) PROVE IInv'
  <2>1. TypeOK' BY <1>0, <1>4 DEF KernelReady, TypeOK
  <2> QED BY <1>4, <2>1, OthersHold DEF KernelReady
<1>5. ASSUME NEW f \in Fd, Operate(f) PROVE IInv'
  BY <1>5, SetHolds, RemoveHolds, InstallHolds, SubprocHolds DEF Operate
<1>6. CASE UNCHANGED vars
  <2>1. TypeOK' BY <1>0, <1>6 DEF vars, TypeOK
  <2> QED BY <1>6, <2>1, OthersHold DEF vars
<1> QED BY <1>1, <1>2, <1>3, <1>4, <1>5, <1>6, ProcessHolds, DispatchHolds DEF Next

LEMMA Inductive == Spec => []IInv
BY InitHolds, NextHolds, PTL DEF Spec

(* Any descriptors, any number of operations: every variable has its type; *)
(* in particular only descriptors in the table are ever reported as bad.   *)
THEOREM TypeCorrect == Spec => []TypeOK
<1>1. IInv => TypeOK BY DEF IInv
<1> QED BY <1>1, Inductive, PTL

(* Whatever handlers set, remove, reinstall or force on each other, the    *)
(* pending list holds each fdevent once, exactly those in the table with   *)
(* an event, and none inherits an event of an fdevent that had its number. *)
THEOREM PendingExact == Spec => []EventsAgree
<1>1. IInv => EventsAgree BY DEF IInv
<1> QED BY <1>1, Inductive, PTL
-----------------------------------------------------------------------------
(* The socket pair of the Windows build (BipBuffer), for every size of the *)
(* buffer and every length of a call.  What is stored is a stretch of the  *)
(* bytes sent, which begins in region A and goes on in region B.           *)

PairTypes ==
  /\ a_start \in Nat /\ a_end \in Nat /\ b_end \in Nat
  /\ sent \in Nat /\ wlen \in Nat /\ rlen \in Nat
  /\ buff \in [0..(BIP_BUFFER_SIZE - 1) -> Nat] /\ got \in Seq(Nat)
  /\ can_write \in BOOLEAN /\ can_read \in BOOLEAN
  /\ evt_write \in BOOLEAN /\ evt_read \in BOOLEAN
  /\ closed \in BOOLEAN /\ split \in BOOLEAN
  /\ wpc # "idle" => wlen > 0
  /\ rpc # "idle" => rlen > 0

(* The bytes in the buffer are those that come after the ones given out.   *)
InOrder ==
  /\ \A i \in DOMAIN got : got[i] = i
  /\ \A j \in Nat : a_start <= j /\ j < a_end => buff[j] = Len(got) + 1 + (j - a_start)
  /\ \A j \in Nat : j < b_end => buff[j] = Len(got) + (a_end - a_start) + 1 + j

PairInv == Bip!BipAssumption /\ PairTypes /\ Bip!RegionsAgree /\ (~split => InOrder)

LEMMA PairInit == ASSUME Bip!BipAssumption, Bip!Init PROVE PairInv
<1>1. BIP_BUFFER_SIZE \in Nat /\ BIP_BUFFER_SIZE > 0 BY DEF Bip!BipAssumption
<1>2. /\ a_start = 0 /\ a_end = 0 /\ b_end = 0 /\ sent = 0 /\ wlen = 0 /\ rlen = 0
      /\ buff \in [0..(BIP_BUFFER_SIZE - 1) -> Nat]
      /\ got \in Seq(Nat) /\ Len(got) = 0 /\ wpc = "idle" /\ rpc = "idle"
  BY <1>1 DEF Bip!Init
<1>3. can_write /\ ~can_read /\ evt_write /\ ~evt_read /\ ~closed /\ ~split
  BY DEF Bip!Init
<1>4. /\ can_write \in BOOLEAN /\ can_read \in BOOLEAN
      /\ evt_write \in BOOLEAN /\ evt_read \in BOOLEAN
      /\ closed \in BOOLEAN /\ split \in BOOLEAN
  BY DEF Bip!Init
<1>5. PairTypes BY <1>2, <1>4 DEF PairTypes
<1>6. Bip!RegionsAgree
  BY <1>1, <1>2, <1>3 DEF Bip!RegionsAgree, Bip!Stored, Bip!Room
<1>7. InOrder BY <1>1 DEF Bip!Init, InOrder
<1> QED BY <1>5, <1>6, <1>7 DEF PairInv

(* A step that leaves the regions and what was sent and got.               *)
LEMMA PairRests ==
  ASSUME PairInv, UNCHANGED <<a_start, a_end, b_end, buff, sent, got, split>>,
         UNCHANGED <<can_write, can_read>>, evt_write => evt_write', evt_read => evt_read',
         PairTypes'
  PROVE  PairInv'
<1>1. Bip!RegionsAgree' BY DEF PairInv, Bip!RegionsAgree, Bip!Stored, Bip!Room
<1>2. ~split' => InOrder' BY DEF PairInv, InOrder
<1> QED BY <1>1, <1>2 DEF PairInv, Bip!BipAssumption

LEMMA PairWrites == ASSUME PairInv, Bip!Write PROVE PairInv'
<1> USE DEF Bip!Least, Bip!Stored, Bip!Room, Bip!Full, Bip!WrapSource
<1>0. /\ BIP_BUFFER_SIZE \in Nat /\ BIP_BUFFER_SIZE > 0
      /\ PairTypes /\ Bip!RegionsAgree /\ (~split => InOrder)
  BY DEF PairInv, Bip!BipAssumption
<1>1. CASE ~can_write
  <2>1. /\ UNCHANGED <<a_start, a_end, b_end, buff, sent, got, split, wlen, rlen>>
        /\ UNCHANGED <<can_write, can_read, evt_write, evt_read, closed, rpc>> /\ wpc # "idle"
    BY <1>1 DEF Bip!Write, Bip!region, Bip!flags
  <2>2. PairTypes' BY <1>0, <2>1 DEF PairTypes
  <2> QED BY <2>1, <2>2, PairRests
<1>2. CASE can_write
  <2>1. PICK inA, inB :
          /\ inA = Bip!Least(BIP_BUFFER_SIZE - a_end, wlen)
          /\ inB = IF a_start = 0 THEN 0 ELSE Bip!Least(a_start - b_end, wlen - inA)
          /\ a_end' = a_end + inA /\ b_end' = b_end + inB
          /\ buff' = Bip!Copied(Bip!Copied(buff, a_end, sent + 1, inA), b_end, sent + 1, inB)
          /\ sent' = sent + inA + inB
          /\ split' = (split \/ (inA > 0 /\ inB > 0))
          /\ can_write' = ~Bip!Full(Bip!Stored + inA + inB)
          /\ evt_write' = ~Bip!Full(Bip!Stored + inA + inB)
          /\ can_read' = TRUE /\ evt_read' = TRUE /\ a_start' = a_start
    BY <1>2 DEF Bip!Write, Bip!WriteRegions
  <2>2. wlen > 0 /\ wpc' = "idle" /\ UNCHANGED <<closed, wlen, rpc, rlen, got>>
    BY <1>0, <1>2 DEF Bip!Write, PairTypes
  <2> USE DEF PairTypes, Bip!RegionsAgree
  <2>3. a_start \in Nat /\ a_end \in Nat /\ b_end \in Nat /\ wlen \in Nat /\ sent \in Nat
        /\ Len(got) \in Nat
    BY <1>0
  <2>4. /\ inA \in Nat /\ inB \in Nat
        /\ inA <= BIP_BUFFER_SIZE - a_end /\ inA + inB <= wlen
        /\ (inB > 0 => b_end + inB <= a_start /\ inA = BIP_BUFFER_SIZE - a_end)
    BY <1>0, <2>1, <2>3
  <2>5. inA + inB > 0 BY <1>0, <1>2, <2>1, <2>2, <2>3
  <2>f. Bip!Stored' = Bip!Stored + inA + inB /\ Bip!Stored + inA + inB <= BIP_BUFFER_SIZE
    BY <1>0, <2>1, <2>3, <2>4
  <2>g. /\ can_read' /\ evt_read'
        /\ can_write' <=> Bip!Stored + inA + inB # BIP_BUFFER_SIZE
        /\ can_write' => evt_write'
    BY <2>1
  <2>6. Bip!RegionsAgree'
    <3>1. /\ 0 <= b_end' /\ b_end' <= a_start' /\ a_start' <= a_end'
          /\ a_end' <= BIP_BUFFER_SIZE /\ (b_end' > 0 => a_end' = BIP_BUFFER_SIZE)
      BY <1>0, <2>1, <2>3, <2>4
    <3>2. Bip!Stored' = sent' - Len(got') /\ Bip!Stored' > 0
      <4>1. Len(got') = Len(got) /\ sent' = sent + inA + inB BY <2>1, <2>2
      <4>2. Bip!Stored = sent - Len(got) /\ Bip!Stored >= 0 BY <1>0, <2>3
      <4>3. Bip!Stored \in Int BY <2>3
      <4> QED BY ONLY <2>3, <2>4, <2>5, <2>f, <4>1, <4>2, <4>3
    <3>3. Bip!Stored + inA + inB # BIP_BUFFER_SIZE <=> Bip!Room' > 0
      BY <1>0, <2>f, <2>3, <2>4
    <3> QED BY ONLY <2>g, <3>1, <3>2, <3>3 DEF Bip!RegionsAgree
  <2>7. /\ buff' \in [0..(BIP_BUFFER_SIZE - 1) -> Nat]
        /\ \A j \in 0..(BIP_BUFFER_SIZE - 1) :
             buff'[j] = IF j >= b_end /\ j < b_end + inB THEN sent + 1 + (j - b_end)
                        ELSE IF j >= a_end /\ j < a_end + inA THEN sent + 1 + (j - a_end)
                        ELSE buff[j]
    BY <1>0, <2>1, <2>3, <2>4 DEF Bip!Copied
  <2>8. PairTypes' BY <1>0, <2>1, <2>2, <2>3, <2>4, <2>7
  <2>9. ASSUME ~split' PROVE InOrder'
    <3>1. ~split /\ InOrder /\ (inA = 0 \/ inB = 0) BY <1>0, <2>1, <2>4, <2>9
    <3>2. sent = Len(got) + (a_end - a_start) + b_end BY <1>0, <2>3
    <3>3. ASSUME NEW j \in Nat, a_start <= j, j < a_end'
          PROVE  buff'[j] = Len(got) + 1 + (j - a_start)
      <4>1. j \in 0..(BIP_BUFFER_SIZE - 1) /\ ~(j >= b_end /\ j < b_end + inB)
        BY <1>0, <2>1, <2>3, <2>4, <3>3
      <4>2. CASE j < a_end
        <5>1. buff'[j] = buff[j] BY <2>3, <2>4, <2>7, <4>1, <4>2
        <5> QED BY <3>1, <3>3, <4>2, <5>1 DEF InOrder
      <4>3. CASE j >= a_end
        <5>1. b_end = 0 BY <1>0, <2>1, <2>3, <2>4, <3>3, <4>3
        <5> QED BY <2>1, <2>3, <2>4, <2>7, <3>2, <3>3, <4>1, <4>3, <5>1
      <4> QED BY <2>3, <3>3, <4>2, <4>3
    <3>4. ASSUME NEW j \in Nat, j < b_end'
          PROVE  buff'[j] = Len(got) + (a_end' - a_start) + 1 + j
      <4>1. j \in 0..(BIP_BUFFER_SIZE - 1) /\ ~(j >= a_end /\ j < a_end + inA)
        BY <1>0, <2>1, <2>3, <2>4, <3>4
      <4>2. inA = 0 BY <1>0, <2>1, <2>3, <2>4, <3>1, <3>4
      <4>3. CASE j < b_end
        <5>1. buff'[j] = buff[j] BY <2>3, <2>4, <2>7, <4>1, <4>3
        <5>2. a_end' = a_end BY <2>1, <2>3, <4>2
        <5> QED BY <3>1, <3>4, <4>3, <5>1, <5>2 DEF InOrder
      <4>4. CASE j >= b_end
        <5>1. buff'[j] = sent + 1 + (j - b_end) BY <2>1, <2>3, <2>4, <2>7, <3>4, <4>1, <4>4
        <5>2. a_end' = a_end BY <2>1, <2>3, <4>2
        <5> QED BY <2>3, <3>2, <3>4, <5>1, <5>2
      <4> QED BY <2>3, <3>4, <4>3, <4>4
    <3> QED BY <2>1, <2>2, <3>1, <3>3, <3>4 DEF InOrder
  <2> QED BY <2>6, <2>8, <2>9 DEF PairInv, Bip!BipAssumption
<1> QED BY <1>1, <1>2

(* A read from both regions is a split; from one it takes the next bytes.  *)
LEMMA PairReads == ASSUME PairInv, Bip!Read PROVE PairInv'
<1> USE DEF Bip!Least, Bip!Stored, Bip!Room
<1>0. /\ BIP_BUFFER_SIZE \in Nat /\ BIP_BUFFER_SIZE > 0
      /\ PairTypes /\ Bip!RegionsAgree /\ (~split => InOrder)
  BY DEF PairInv, Bip!BipAssumption
<1>1. CASE ~can_read
  <2>1. /\ UNCHANGED <<a_start, a_end, b_end, buff, sent, got, split, wlen, rlen>>
        /\ UNCHANGED <<can_write, can_read, evt_write, evt_read, closed, wpc>> /\ rpc # "idle"
    BY <1>1 DEF Bip!Read, Bip!region, Bip!flags
  <2>2. PairTypes' BY <1>0, <2>1 DEF PairTypes
  <2> QED BY <2>1, <2>2, PairRests
<1>2. CASE can_read
  <2> DEFINE x(n) == Bip!Piece(buff, a_start, n)
             y(n) == Bip!Piece(buff, 0, n)
  <2> DEFINE inA == Bip!Least(a_end - a_start, rlen)
             emptied == a_start + inA = a_end
             inB == IF emptied THEN Bip!Least(b_end, rlen - inA) ELSE 0
             empty == emptied /\ inB = b_end
  <2>w. /\ a_start' = IF ~emptied THEN a_start + inA ELSE IF empty THEN 0 ELSE inB
        /\ a_end' = IF ~emptied THEN a_end ELSE IF empty THEN 0 ELSE b_end
        /\ b_end' = IF emptied THEN 0 ELSE b_end
        /\ got' = got \o Bip!Joined(x(inA), y(inB))
        /\ split' <=> split \/ (inA > 0 /\ inB > 0)
        /\ (can_read' <=> ~empty) /\ (evt_read' <=> ~empty)
        /\ can_write' /\ (evt_write' <=> evt_write \/ ~can_write) /\ buff' = buff
    BY <1>2 DEF Bip!Read, Bip!ReadRegions
  <2>v. /\ inA = Bip!Least(a_end - a_start, rlen)
        /\ emptied <=> a_start + inA = a_end
        /\ inB = IF emptied THEN Bip!Least(b_end, rlen - inA) ELSE 0
        /\ empty <=> emptied /\ inB = b_end
    OBVIOUS
  <2> HIDE DEF inA, emptied, inB, empty
  <2>1. /\ inA = Bip!Least(a_end - a_start, rlen)
        /\ emptied <=> a_start + inA = a_end
        /\ inB = IF emptied THEN Bip!Least(b_end, rlen - inA) ELSE 0
        /\ empty <=> emptied /\ inB = b_end
        /\ a_start' = IF ~emptied THEN a_start + inA ELSE IF empty THEN 0 ELSE inB
        /\ a_end' = IF ~emptied THEN a_end ELSE IF empty THEN 0 ELSE b_end
        /\ b_end' = IF emptied THEN 0 ELSE b_end
        /\ got' = got \o Bip!Joined(x(inA), y(inB))
        /\ split' <=> split \/ (inA > 0 /\ inB > 0)
        /\ (can_read' <=> ~empty) /\ (evt_read' <=> ~empty)
        /\ can_write' /\ (evt_write' <=> evt_write \/ ~can_write) /\ buff' = buff
    BY <2>w, <2>v
  <2>2. rlen > 0 /\ rpc' = "idle" /\ UNCHANGED <<closed, wlen, wpc, rlen, sent>>
    BY <1>0, <1>2 DEF Bip!Read, PairTypes
  <2>3. a_start \in Nat /\ a_end \in Nat /\ b_end \in Nat /\ rlen \in Nat /\ sent \in Nat
        /\ Len(got) \in Nat /\ got \in Seq(Nat)
    BY <1>0 DEF PairTypes
  <2>r. /\ b_end <= a_start /\ a_start <= a_end /\ a_end <= BIP_BUFFER_SIZE
        /\ Bip!Stored = sent - Len(got) /\ Bip!Stored > 0
    BY <1>0, <1>2 DEF Bip!RegionsAgree
  <2>4. /\ inA \in Nat /\ inB \in Nat /\ inA + inB <= rlen /\ inA + inB > 0
        /\ inA <= a_end - a_start /\ inB <= b_end
        /\ emptied <=> inA = a_end - a_start
        /\ inB > 0 => emptied
    BY <2>1, <2>2, <2>3, <2>r
  <2>5. Bip!Stored' = Bip!Stored - inA - inB BY <2>1, <2>3, <2>4
  <2>6. /\ Bip!Joined(x(inA), y(inB)) \in Seq(Nat)
        /\ Len(Bip!Joined(x(inA), y(inB))) = inA + inB
        /\ inB = 0 => \A i \in 1..inA : Bip!Joined(x(inA), y(inB))[i] = buff[a_start + i - 1]
        /\ inA = 0 => \A i \in 1..inB : Bip!Joined(x(inA), y(inB))[i] = buff[i - 1]
    <3>1. /\ x(inA) = [i \in 1..inA |-> buff[a_start + i - 1]]
          /\ y(inB) = [i \in 1..inB |-> buff[0 + i - 1]]
      BY DEF Bip!Piece
    <3>2. buff \in [0..(BIP_BUFFER_SIZE - 1) -> Nat] BY <1>0 DEF PairTypes
    <3>3. /\ \A i \in 1..inA : a_start + i - 1 \in 0..(BIP_BUFFER_SIZE - 1)
          /\ \A i \in 1..inB : 0 + i - 1 \in 0..(BIP_BUFFER_SIZE - 1) /\ 0 + i - 1 = i - 1
      BY <1>0, <2>3, <2>4, <2>r
    <3>4. x(inA) \in Seq(Nat) /\ Len(x(inA)) = inA BY <2>4, <3>1, <3>2, <3>3
    <3>5. y(inB) \in Seq(Nat) /\ Len(y(inB)) = inB
      <4>1. \A i \in 1..inB : buff[0 + i - 1] \in Nat BY <3>2, <3>3
      <4> HIDE DEF y
      <4>2. y(inB) \in [1..inB -> Nat] BY <3>1, <4>1
      <4> QED BY <2>4, <4>2
    <3>6. PICK z : z = Bip!Joined(x(inA), y(inB)) OBVIOUS
    <3>7. z = [i \in 1..(inA + inB) |-> IF i <= inB THEN y(inB)[i]
                                         ELSE IF i <= inA THEN x(inA)[i] ELSE 0]
      BY <3>4, <3>5, <3>6 DEF Bip!Joined
    <3> HIDE DEF x, y
    <3>8. \A i \in 1..(inA + inB) : z[i] \in Nat
      <4>1. \A i \in 1..inB : y(inB)[i] \in Nat BY <3>5
      <4>2. \A i \in 1..inA : x(inA)[i] \in Nat BY <3>4
      <4> QED BY <2>4, <3>7, <4>1, <4>2
    <3>9. z \in Seq(Nat) /\ Len(z) = inA + inB BY <2>4, <3>7, <3>8
    <3>10. inB = 0 => \A i \in 1..inA : z[i] = buff[a_start + i - 1]
      BY <2>4, <3>1, <3>7
    <3>11. inA = 0 => \A i \in 1..inB : z[i] = buff[i - 1]
      BY <2>4, <3>1, <3>3, <3>7
    <3> QED BY <3>6, <3>9, <3>10, <3>11
  <2>7. PICK z \in Seq(Nat) :
          /\ z = Bip!Joined(x(inA), y(inB)) /\ Len(z) = inA + inB /\ got' = got \o z
    BY <2>1, <2>6
  <2> HIDE DEF x, y
  <2>8. /\ got' \in Seq(Nat) /\ Len(got') = Len(got) + inA + inB
        /\ \A i \in 1..Len(got) : got'[i] = got[i]
        /\ \A i \in 1..(inA + inB) : got'[Len(got) + i] = z[i]
    <3>1. /\ got' \in Seq(Nat) /\ Len(got') = Len(got) + Len(z)
          /\ \A i \in 1..Len(got) : got'[i] = got[i]
          /\ \A i \in 1..Len(z) : got'[Len(got) + i] = z[i]
      BY ONLY <2>3, <2>7
    <3> QED BY <2>3, <2>4, <2>7, <3>1
  <2>9. Bip!RegionsAgree'
    <3>1. /\ 0 <= b_end' /\ b_end' <= a_start' /\ a_start' <= a_end'
          /\ a_end' <= BIP_BUFFER_SIZE /\ (b_end' > 0 => a_end' = BIP_BUFFER_SIZE)
      BY <1>0, <2>1, <2>3, <2>4, <2>r DEF Bip!RegionsAgree
    <3>2. Bip!Stored' = sent' - Len(got')
      <4>1. sent' = sent BY <2>2
      <4>2. Len(got') = Len(got) + inA + inB BY <2>8
      <4>3. Bip!Stored = sent - Len(got) /\ Bip!Stored' = Bip!Stored - inA - inB
        BY <2>5, <2>r
      <4> QED BY ONLY <2>3, <2>4, <4>1, <4>2, <4>3
    <3>3. ~empty <=> Bip!Stored' > 0 BY <2>1, <2>3, <2>4, <2>5
    <3>4. Bip!Room' > 0 BY <1>0, <2>3, <2>4, <2>5, <2>r
    <3>5. (can_read' => evt_read') /\ (can_write' => evt_write')
      BY <1>0, <2>1 DEF Bip!RegionsAgree
    <3> QED BY ONLY <2>1, <3>1, <3>2, <3>3, <3>4, <3>5 DEF Bip!RegionsAgree
  <2>10. PairTypes'
    <3>1. a_start' \in Nat /\ a_end' \in Nat /\ b_end' \in Nat BY <2>1, <2>3, <2>4
    <3>2. /\ can_write' \in BOOLEAN /\ can_read' \in BOOLEAN /\ evt_write' \in BOOLEAN
          /\ evt_read' \in BOOLEAN /\ split' \in BOOLEAN
      BY <1>2 DEF Bip!Read, Bip!ReadRegions
    <3> QED BY <1>0, <2>1, <2>2, <2>8, <3>1, <3>2 DEF PairTypes
  <2>11. ASSUME ~split' PROVE InOrder'
    <3>1. ~split /\ InOrder /\ (inA = 0 \/ inB = 0) BY <1>0, <2>1, <2>4, <2>11
    <3>2. ASSUME NEW i \in 1..(inA + inB) PROVE z[i] = Len(got) + i
      <4>1. CASE inB = 0
        <5>1. i \in 1..inA /\ a_start + i - 1 \in Nat
              /\ a_start <= a_start + i - 1 /\ a_start + i - 1 < a_end
          BY <2>3, <2>4, <4>1
        <5>2. z[i] = buff[a_start + i - 1] BY <2>6, <2>7, <4>1, <5>1
        <5>3. buff[a_start + i - 1] = Len(got) + 1 + ((a_start + i - 1) - a_start)
          BY <3>1, <5>1 DEF InOrder
        <5> QED BY <2>3, <5>2, <5>3
      <4>2. CASE inA = 0
        <5>1. i \in 1..inB /\ i - 1 \in Nat /\ i - 1 < b_end BY <2>3, <2>4, <4>2
        <5>2. z[i] = buff[i - 1] BY <2>6, <2>7, <4>2, <5>1
        <5>3. buff[i - 1] = Len(got) + (a_end - a_start) + 1 + (i - 1)
          BY <3>1, <5>1 DEF InOrder
        <5>4. a_end - a_start = 0 BY <2>3, <2>4, <4>2, <5>1
        <5> QED BY <2>3, <5>2, <5>3, <5>4
      <4> QED BY <3>1, <4>1, <4>2
    <3>3. ASSUME NEW i \in DOMAIN got' PROVE got'[i] = i
      <4>1. i \in 1..(Len(got) + inA + inB) BY <2>8
      <4>2. CASE i <= Len(got)
        <5>1. i \in 1..Len(got) BY <2>3, <4>1, <4>2
        <5> QED BY <2>3, <2>8, <3>1, <5>1 DEF InOrder
      <4>3. CASE i > Len(got)
        <5>1. i - Len(got) \in 1..(inA + inB) /\ Len(got) + (i - Len(got)) = i
          BY <2>3, <2>4, <4>1, <4>3
        <5> QED BY <2>8, <3>2, <5>1
      <4> QED BY <2>3, <4>1, <4>2, <4>3
    <3>4. ASSUME NEW j \in Nat, a_start' <= j, j < a_end'
          PROVE  buff'[j] = Len(got') + 1 + (j - a_start')
      <4>1. CASE ~emptied
        <5>1. inB = 0 /\ a_start' = a_start + inA /\ a_end' = a_end BY <2>1, <4>1
        <5>2. buff[j] = Len(got) + 1 + (j - a_start)
          BY <2>3, <2>4, <3>1, <3>4, <5>1 DEF InOrder
        <5>3. Len(got') = Len(got) + inA /\ buff' = buff
          <6>1. Len(got') = Len(got) + inA + inB /\ buff' = buff BY <2>1, <2>8
          <6> QED BY ONLY <2>3, <2>4, <5>1, <6>1
        <5> QED BY ONLY <2>3, <2>4, <5>1, <5>2, <5>3, j \in Nat
      <4>2. CASE emptied
        <5>1. ~empty /\ a_start' = inB /\ a_end' = b_end /\ inA = a_end - a_start
          BY <2>1, <2>4, <3>4, <4>2
        <5>2. buff[j] = Len(got) + (a_end - a_start) + 1 + j BY <3>1, <3>4, <5>1 DEF InOrder
        <5>3. Len(got') = Len(got) + inA + inB /\ buff' = buff BY <2>1, <2>8
        <5> QED BY ONLY <2>3, <2>4, <5>1, <5>2, <5>3, j \in Nat
      <4> QED BY <4>1, <4>2
    <3>5. ASSUME NEW j \in Nat, j < b_end'
          PROVE  buff'[j] = Len(got') + (a_end' - a_start') + 1 + j
      <4>1. ~emptied /\ inB = 0 /\ b_end' = b_end /\ a_start' = a_start + inA /\ a_end' = a_end
        BY <2>1, <3>5
      <4>2. buff[j] = Len(got) + (a_end - a_start) + 1 + j BY <3>1, <3>5, <4>1 DEF InOrder
      <4>3. Len(got') = Len(got) + inA /\ buff' = buff BY <2>1, <2>3, <2>4, <2>8, <4>1
      <4> QED BY ONLY <2>3, <2>4, <4>1, <4>2, <4>3, j \in Nat
    <3> QED BY <3>3, <3>4, <3>5 DEF InOrder
  <2> QED BY <2>9, <2>10, <2>11 DEF PairInv, Bip!BipAssumption
<1> QED BY <1>1, <1>2

LEMMA PairStep == PairInv /\ [Bip!Next]_bipVars => PairInv'
<1> SUFFICES ASSUME PairInv, [Bip!Next]_bipVars PROVE PairInv' OBVIOUS
<1>0. PairTypes /\ Bip!BipAssumption BY DEF PairInv
<1>1. ASSUME NEW n \in 1..MaxLen, Bip!CallWrite(n) PROVE PairInv'
  <2>1. /\ UNCHANGED <<a_start, a_end, b_end, buff, sent, got, split, rlen, rpc>>
        /\ UNCHANGED <<can_write, can_read, evt_write, evt_read, closed>> /\ wlen' = n
    BY <1>1 DEF Bip!CallWrite, Bip!region, Bip!flags
  <2>2. n \in Nat /\ n > 0 BY <1>0 DEF Bip!BipAssumption
  <2>3. PairTypes' BY <1>0, <2>1, <2>2 DEF PairTypes
  <2> QED BY <2>1, <2>3, PairRests
<1>2. ASSUME NEW n \in 1..MaxLen, Bip!CallRead(n) PROVE PairInv'
  <2>1. /\ UNCHANGED <<a_start, a_end, b_end, buff, sent, got, split, wlen, wpc>>
        /\ UNCHANGED <<can_write, can_read, evt_write, evt_read, closed>> /\ rlen' = n
    BY <1>2 DEF Bip!CallRead, Bip!region, Bip!flags
  <2>2. n \in Nat /\ n > 0 BY <1>0 DEF Bip!BipAssumption
  <2>3. PairTypes' BY <1>0, <2>1, <2>2 DEF PairTypes
  <2> QED BY <2>1, <2>3, PairRests
<1>3. CASE Bip!WriteWait
  <2>1. /\ UNCHANGED <<a_start, a_end, b_end, buff, sent, got, split, wlen, rlen, rpc>>
        /\ UNCHANGED <<can_write, can_read, evt_write, evt_read, closed>> /\ wpc # "idle"
    BY <1>3 DEF Bip!WriteWait, Bip!region, Bip!flags
  <2>2. PairTypes' BY <1>0, <2>1 DEF PairTypes
  <2> QED BY <2>1, <2>2, PairRests
<1>4. CASE Bip!ReadWait
  <2>1. /\ UNCHANGED <<a_start, a_end, b_end, buff, sent, got, split, wlen, rlen, wpc>>
        /\ UNCHANGED <<can_write, can_read, evt_write, evt_read, closed>> /\ rpc # "idle"
    BY <1>4 DEF Bip!ReadWait, Bip!region, Bip!flags
  <2>2. PairTypes' BY <1>0, <2>1 DEF PairTypes
  <2> QED BY <2>1, <2>2, PairRests
<1>5. CASE Bip!CloseEnd
  <2>1. /\ UNCHANGED <<a_start, a_end, b_end, buff, sent, got, split, wlen, rlen, wpc, rpc>>
        /\ UNCHANGED <<can_write, can_read>>
    BY <1>5 DEF Bip!CloseEnd, Bip!Close, Bip!region, Bip!flags
  <2>2. /\ evt_read' = evt_read \/ evt_read' = (evt_read \/ ~can_read)
        /\ evt_write' = evt_write \/ evt_write' = (evt_write \/ ~can_write)
        /\ closed' = closed \/ closed' = TRUE
    BY <1>5 DEF Bip!CloseEnd, Bip!Close, Bip!flags, Bip!Wakes
  <2>3. evt_read' \in BOOLEAN /\ evt_write' \in BOOLEAN /\ closed' \in BOOLEAN
    BY <1>0, <2>2 DEF PairTypes
  <2>4. PairTypes' BY <1>0, <2>1, <2>3 DEF PairTypes
  <2>5. evt_write => evt_write' BY <2>2
  <2>6. evt_read => evt_read' BY <2>2
  <2> QED BY <2>1, <2>4, <2>5, <2>6, PairRests
<1>6. CASE UNCHANGED bipVars
  <2>1. /\ UNCHANGED <<a_start, a_end, b_end, buff, sent, got, split, wlen, rlen, wpc, rpc>>
        /\ UNCHANGED <<can_write, can_read, evt_write, evt_read, closed>>
    BY <1>6 DEF bipVars
  <2>2. PairTypes' BY <1>0, <2>1 DEF PairTypes
  <2> QED BY <2>1, <2>2, PairRests
<1> QED BY <1>1, <1>2, <1>3, <1>4, <1>5, <1>6, PairWrites, PairReads DEF Bip!Next

-----------------------------------------------------------------------------
(* The loop of the Windows build (WinEvents), for any finite sets of       *)
(* sockets and pairs.  The list of pending fdevents is as above; a hook is *)
(* signalled with what it wants, so it must want what its fdevent does.    *)

Either == {"R", "W"}
WinTypes ==
  /\ pending \in Seq(Win!Fds)
  /\ state \in [Win!Fds -> SUBSET Either]
  /\ events \in [Win!Fds -> SUBSET Either]
  /\ wanted \in [Win!Fds -> SUBSET Either]

WinInv == Win!WinAssumption /\ WinTypes /\ Win!HooksAgree

(* What Win!HooksAgree says, in the terms of the lemmas on lists.          *)
LEMMA WinAgreed ==
  ASSUME WinTypes
  PROVE  Win!HooksAgree <=>
           /\ Distinct(pending)
           /\ \A f \in Win!Fds :
                /\ Holds(pending, f) <=> events[f] # {}
                /\ wanted[f] = state[f]
                /\ f \notin wactive => state[f] = {} /\ events[f] = {}
<1>1. DOMAIN pending = 1..Len(pending) BY DEF WinTypes
<1> QED BY <1>1 DEF Win!HooksAgree, Win!Contains, Win!IsInjective, Distinct, Holds

LEMMA WinContains ==
  ASSUME WinTypes, NEW f PROVE Win!Contains(pending, f) <=> Holds(pending, f)
BY DEF WinTypes, Win!Contains, Holds

LEMMA WinIf ==
  ASSUME WinInv, WinTypes', Distinct(pending'),
         \A f \in Win!Fds :
            /\ Holds(pending', f) <=> events'[f] # {}
            /\ wanted'[f] = state'[f]
            /\ f \notin wactive' => state'[f] = {} /\ events'[f] = {}
  PROVE  WinInv'
<1>1. DOMAIN pending' = 1..Len(pending') BY DEF WinTypes
<1>2. Win!HooksAgree'
  BY <1>1 DEF Win!HooksAgree, Win!Contains, Win!IsInjective, Distinct, Holds, Win!Fds
<1> QED BY <1>2 DEF WinInv, Win!WinAssumption

(* A finite set as a sequence: every member once.                          *)
LEMMA AsSequence ==
  ASSUME NEW S, IsFiniteSet(S), NEW s, s = Win!SetToSeq(S)
  PROVE  s \in Seq(S) /\ Distinct(s) /\ \A f \in S : Holds(s, f)
<1> DEFINE n == Cardinality(S)
<1>1. Win!Cardinality(S) = n BY DEF Cardinality, Win!Cardinality
<1>2. n \in Nat /\ ExistsBijection(1..n, S) BY FS_CardinalityType
<1> HIDE DEF n
<1>3. \E f \in [1..n -> S] : Win!IsInjective(f)
  BY <1>2 DEF ExistsBijection, Bijection, Injection, IsInjective, Win!IsInjective
<1>4. s \in [1..n -> S] /\ Win!IsInjective(s) BY <1>1, <1>3 DEF Win!SetToSeq
<1>5. s \in Seq(S) BY <1>2, <1>4
<1>6. Distinct(s) BY <1>4 DEF Win!IsInjective, Distinct
<1>7. s \in Injection(1..n, S) BY <1>4 DEF Win!IsInjective, Injection, IsInjective
<1>8. Cardinality(1..n) = n BY <1>2, FS_Interval
<1>9. s \in Surjection(1..n, S) BY <1>7, <1>8, FS_Injection DEF n
<1>10. \A f \in S : Holds(s, f)
  BY <1>4, <1>9 DEF Surjection, Holds
<1> QED BY <1>5, <1>6, <1>10

(* Two lists without a common member, one behind the other.                *)
LEMMA Behind ==
  ASSUME NEW S, NEW s \in Seq(S), NEW t \in Seq(S), Distinct(s), Distinct(t),
         \A f \in S : ~(Holds(s, f) /\ Holds(t, f)), NEW r, r = s \o t
  PROVE  /\ r \in Seq(S) /\ Distinct(r)
         /\ \A f \in S : Holds(r, f) <=> Holds(s, f) \/ Holds(t, f)
<1>1. /\ Len(s) \in Nat /\ Len(t) \in Nat /\ DOMAIN s = 1..Len(s) /\ DOMAIN t = 1..Len(t)
      /\ r \in Seq(S) /\ Len(r) = Len(s) + Len(t) /\ DOMAIN r = 1..(Len(s) + Len(t))
      /\ \A i \in 1..Len(s) : r[i] = s[i]
      /\ \A i \in 1..Len(t) : r[Len(s) + i] = t[i]
  OBVIOUS
<1>2. ASSUME NEW k \in DOMAIN r
      PROVE  \/ k \in DOMAIN s /\ r[k] = s[k]
             \/ k - Len(s) \in DOMAIN t /\ r[k] = t[k - Len(s)]
  <2>1. CASE k <= Len(s) BY <1>1, <2>1
  <2>2. CASE k > Len(s)
    <3>1. k - Len(s) \in 1..Len(t) /\ Len(s) + (k - Len(s)) = k BY <1>1, <2>2
    <3> QED BY <1>1, <3>1
  <2> QED BY <1>1, <2>1, <2>2
<1>3. Distinct(r)
  <2>1. ASSUME NEW i \in DOMAIN r, NEW j \in DOMAIN r, r[i] = r[j] PROVE i = j
    <3>1. r[i] \in S BY <1>1
    <3>2. CASE i \in DOMAIN s /\ r[i] = s[i] /\ j \in DOMAIN s /\ r[j] = s[j]
      BY <2>1, <3>2 DEF Distinct
    <3>3. CASE /\ i - Len(s) \in DOMAIN t /\ r[i] = t[i - Len(s)]
               /\ j - Len(s) \in DOMAIN t /\ r[j] = t[j - Len(s)]
      <4>1. i - Len(s) = j - Len(s) BY <2>1, <3>3 DEF Distinct
      <4> QED BY <1>1, <4>1
    <3>4. ~(i \in DOMAIN s /\ r[i] = s[i] /\ j - Len(s) \in DOMAIN t /\ r[j] = t[j - Len(s)])
      BY <2>1, <3>1 DEF Holds
    <3>5. ~(j \in DOMAIN s /\ r[j] = s[j] /\ i - Len(s) \in DOMAIN t /\ r[i] = t[i - Len(s)])
      BY <2>1, <3>1 DEF Holds
    <3> QED BY <1>2, <3>2, <3>3, <3>4, <3>5
  <2> QED BY <2>1 DEF Distinct
<1>4. ASSUME NEW f \in S PROVE Holds(r, f) <=> Holds(s, f) \/ Holds(t, f)
  <2>1. Holds(r, f) => Holds(s, f) \/ Holds(t, f) BY <1>2 DEF Holds
  <2>2. Holds(s, f) => Holds(r, f) BY <1>1 DEF Holds
  <2>3. Holds(t, f) => Holds(r, f)
    <3> SUFFICES ASSUME Holds(t, f) PROVE Holds(r, f) OBVIOUS
    <3>1. PICK i \in 1..Len(t) : t[i] = f BY <1>1 DEF Holds
    <3>2. Len(s) + i \in 1..(Len(s) + Len(t)) /\ r[Len(s) + i] = f BY <1>1, <3>1
    <3> QED BY <1>1, <3>2 DEF Holds
  <2> QED BY <2>1, <2>2, <2>3
<1> QED BY <1>1, <1>3, <1>4

(* event_hook_signal: those that were not pending join the list.           *)
LEMMA Signalled ==
  ASSUME WinInv, NEW S, S \subseteq Win!Hooks, Win!SignalAll(S),
         UNCHANGED <<wactive, state, wanted>>
  PROVE  WinInv'
<1>0. WinTypes /\ IsFiniteSet(Win!Fds)
  BY DEF WinInv, Win!WinAssumption, Win!Fds, IsFiniteSet, Win!IsFiniteSet
<1>a. /\ Distinct(pending)
      /\ \A f \in Win!Fds :
           /\ Holds(pending, f) <=> events[f] # {}
           /\ wanted[f] = state[f]
           /\ f \notin wactive => state[f] = {} /\ events[f] = {}
  BY <1>0, WinAgreed DEF WinInv
<1> DEFINE T == {f \in S : ~Win!Contains(pending, f)}
<1>1. S \subseteq Win!Fds /\ \A f \in S : wanted[f] # {} BY DEF Win!Hooks
<1>2. /\ events' = [f \in Win!Fds |-> IF f \in S THEN events[f] \cup wanted[f] ELSE events[f]]
      /\ pending' = pending \o Win!SetToSeq(T)
  BY DEF Win!SignalAll
<1>3. T \subseteq Win!Fds /\ \A f \in Win!Fds : f \in T <=> f \in S /\ ~Holds(pending, f)
  BY <1>0, <1>1, WinContains
<1> HIDE DEF T
<1>4. IsFiniteSet(T) BY <1>0, <1>3, FS_Subset
<1>5. PICK t : t = Win!SetToSeq(T) OBVIOUS
<1>6. t \in Seq(T) /\ Distinct(t) /\ \A f \in T : Holds(t, f) BY <1>4, <1>5, AsSequence
<1>7. t \in Seq(Win!Fds) /\ \A f \in Win!Fds : Holds(t, f) <=> f \in T
  BY <1>3, <1>6 DEF Holds
<1>8. /\ pending' \in Seq(Win!Fds) /\ Distinct(pending')
      /\ \A f \in Win!Fds : Holds(pending', f) <=> Holds(pending, f) \/ Holds(t, f)
  <2>1. pending \in Seq(Win!Fds) /\ pending' = pending \o t BY <1>0, <1>2, <1>5 DEF WinTypes
  <2>2. \A f \in Win!Fds : ~(Holds(pending, f) /\ Holds(t, f)) BY <1>3, <1>7
  <2> QED BY ONLY <1>6, <1>7, <1>a, <2>1, <2>2, Behind
<1>9. WinTypes' BY <1>0, <1>2, <1>8 DEF WinTypes, Either, Win!Fds
<1>10. ASSUME NEW f \in Win!Fds
       PROVE  /\ Holds(pending', f) <=> events'[f] # {}
              /\ wanted'[f] = state'[f]
              /\ f \notin wactive' => state'[f] = {} /\ events'[f] = {}
  <2>1. events'[f] = IF f \in S THEN events[f] \cup wanted[f] ELSE events[f] BY <1>2
  <2>2. Holds(pending', f) <=> Holds(pending, f) \/ f \in S BY <1>3, <1>7, <1>8
  <2> QED BY <1>1, <1>a, <2>1, <2>2
<1> QED BY <1>8, <1>9, <1>10, WinIf

(* fdevent_plist_remove, of one that may not be there.                     *)
LEMMA WithoutOf ==
  ASSUME WinInv, NEW f \in Win!Fds, NEW r, r = Win!Without(pending, f)
  PROVE  /\ r \in Seq(Win!Fds) /\ Distinct(r)
         /\ \A g \in Win!Fds : Holds(r, g) <=> Holds(pending, g) /\ g # f
<1>1. WinTypes /\ pending \in Seq(Win!Fds) BY DEF WinInv, WinTypes
<1>2. Distinct(pending) BY <1>1, WinAgreed DEF WinInv
<1>3. CASE ~Holds(pending, f)
  <2>1. r = pending BY <1>1, <1>3, WinContains DEF Win!Without
  <2> QED BY <1>1, <1>2, <1>3, <2>1
<1>4. CASE Holds(pending, f)
  <2> DEFINE i == CHOOSE k \in 1..Len(pending) : pending[k] = f
  <2>1. i \in DOMAIN pending /\ pending[i] = f BY <1>1, <1>4 DEF Holds
  <2>2. r = Win!RemoveAt(pending, i) BY <1>1, <1>4, WinContains DEF Win!Without
  <2> HIDE DEF i
  <2>3. r = RemoveAt(pending, i) BY <2>2 DEF RemoveAt, Win!RemoveAt
  <2> QED BY ONLY <1>1, <1>2, <2>1, <2>3, RemovedAt
<1> QED BY <1>3, <1>4

LEMMA WinInit == ASSUME Win!WinAssumption, Win!Init PROVE WinInv
<1>1. WinTypes BY DEF Win!Init, WinTypes, Either
<1>2. Distinct(pending) /\ \A f \in Win!Fds : ~Holds(pending, f)
  BY DEF Win!Init, Distinct, Holds
<1>3. \A f \in Win!Fds : events[f] = {} /\ wanted[f] = {} /\ state[f] = {} BY DEF Win!Init
<1> QED BY <1>1, <1>2, <1>3, WinAgreed DEF WinInv

(* A step that changes one fdevent f and its place in the list.            *)
LEMMA OneFdevent ==
  ASSUME WinInv, NEW f \in Win!Fds, NEW es \in SUBSET Either, NEW ss \in SUBSET Either,
         pending' \in Seq(Win!Fds), Distinct(pending'),
         \A g \in Win!Fds : g # f => (Holds(pending', g) <=> Holds(pending, g)),
         Holds(pending', f) <=> es # {},
         events' = [events EXCEPT ![f] = es], state' = [state EXCEPT ![f] = ss],
         wanted' = [wanted EXCEPT ![f] = ss],
         \A g \in Win!Fds : g # f => (g \in wactive' <=> g \in wactive),
         f \notin wactive' => es = {} /\ ss = {}
  PROVE  WinInv'
<1>0. WinTypes BY DEF WinInv
<1>1. WinTypes' BY <1>0 DEF WinTypes, Win!Fds
<1>2. \A g \in Win!Fds :
         /\ events'[g] = IF g = f THEN es ELSE events[g]
         /\ state'[g] = IF g = f THEN ss ELSE state[g]
         /\ wanted'[g] = IF g = f THEN ss ELSE wanted[g]
  BY <1>0 DEF WinTypes
<1>3. \A g \in Win!Fds :
         /\ Holds(pending, g) <=> events[g] # {}
         /\ wanted[g] = state[g]
         /\ g \notin wactive => state[g] = {} /\ events[g] = {}
  BY <1>0, WinAgreed DEF WinInv
<1>4. \A g \in Win!Fds :
         /\ Holds(pending', g) <=> events'[g] # {}
         /\ wanted'[g] = state'[g]
         /\ g \notin wactive' => state'[g] = {} /\ events'[g] = {}
  BY <1>2, <1>3
<1> QED BY <1>1, <1>4, WinIf

LEMMA WinRests ==
  ASSUME WinInv, UNCHANGED <<wactive, state, events, pending, wanted>> PROVE WinInv'
<1>1. WinTypes' BY DEF WinInv, WinTypes, Win!Fds
<1>2. Win!HooksAgree'
  BY DEF WinInv, Win!HooksAgree, Win!Contains, Win!IsInjective, Win!Fds
<1> QED BY <1>1, <1>2 DEF WinInv, Win!WinAssumption

LEMMA WinAdds ==
  ASSUME WinInv, NEW f \in Win!Fds, NEW e \in Either, Win!Add(f, e) PROVE WinInv'
<1>0. WinTypes /\ f \in wactive BY DEF WinInv, Win!Add
<1>a. Distinct(pending) /\ (Holds(pending, f) <=> events[f] # {})
  BY <1>0, WinAgreed DEF WinInv
<1>1. PICK ss, kept :
        /\ ss = state[f] \cup {e}
        /\ kept = IF Win!Contains(pending, f) THEN events[f] \ ss ELSE events[f]
        /\ state' = [state EXCEPT ![f] = ss] /\ wanted' = [wanted EXCEPT ![f] = ss]
        /\ events' = [events EXCEPT ![f] = kept]
        /\ pending' = IF kept = {} THEN Win!Without(pending, f) ELSE pending
  BY DEF Win!Add, Win!Rehook
<1>2. wactive' = wactive BY DEF Win!Add
<1>3. ss \in SUBSET Either /\ kept \in SUBSET Either /\ kept \subseteq events[f]
  BY <1>0, <1>1 DEF WinTypes
<1>4. CASE kept = {}
  <2>1. /\ pending' \in Seq(Win!Fds) /\ Distinct(pending')
        /\ \A g \in Win!Fds : Holds(pending', g) <=> Holds(pending, g) /\ g # f
    BY <1>1, <1>4, WithoutOf
  <2> QED BY <1>0, <1>1, <1>2, <1>3, <1>4, <2>1, OneFdevent
<1>5. CASE kept # {}
  <2>1. pending' = pending /\ pending \in Seq(Win!Fds) BY <1>0, <1>1, <1>5 DEF WinTypes
  <2>2. Holds(pending', f) BY <1>3, <1>5, <1>a, <2>1
  <2> QED BY <1>0, <1>1, <1>2, <1>3, <1>5, <1>a, <2>1, <2>2, OneFdevent
<1> QED BY <1>4, <1>5

LEMMA WinInstalls == ASSUME WinInv, NEW f \in Win!Fds, Win!Install(f) PROVE WinInv'
<1>0. WinTypes /\ f \notin wactive BY DEF WinInv, Win!Install
<1>a. Distinct(pending) /\ (Holds(pending, f) <=> events[f] # {}) /\ events[f] = {}
  BY <1>0, WinAgreed DEF WinInv
<1>1. /\ wactive' = wactive \cup {f} /\ state' = [state EXCEPT ![f] = {"R"}]
      /\ wanted' = [wanted EXCEPT ![f] = {"R"}] /\ events' = events /\ pending' = pending
  BY DEF Win!Install, Win!Rehook, Win!R
<1>2. {"R"} \in SUBSET Either /\ {} \in SUBSET Either BY DEF Either
<1>3. events' = [events EXCEPT ![f] = {}] BY <1>0, <1>1, <1>a DEF WinTypes
<1>4. pending' \in Seq(Win!Fds) /\ Distinct(pending') /\ ~Holds(pending', f)
  BY <1>0, <1>1, <1>a DEF WinTypes
<1> QED BY <1>1, <1>2, <1>3, <1>4, OneFdevent

LEMMA WinRemoves == ASSUME WinInv, NEW f \in Win!Fds, Win!Removed(f) PROVE WinInv'
<1>1. /\ wactive' = wactive \ {f} /\ state' = [state EXCEPT ![f] = {}]
      /\ wanted' = [wanted EXCEPT ![f] = {}] /\ events' = [events EXCEPT ![f] = {}]
      /\ pending' = Win!Without(pending, f)
  BY DEF Win!Removed
<1>2. /\ pending' \in Seq(Win!Fds) /\ Distinct(pending')
      /\ \A g \in Win!Fds : Holds(pending', g) <=> Holds(pending, g) /\ g # f
  BY <1>1, WithoutOf
<1>3. {} \in SUBSET Either OBVIOUS
<1> QED BY <1>1, <1>2, <1>3, OneFdevent

LEMMA WinCalls == ASSUME WinInv, Win!Callback PROVE WinInv'
<1>0. WinTypes /\ pending # <<>> BY DEF WinInv, Win!Callback
<1>a. Distinct(pending) /\ \A g \in Win!Fds : /\ Holds(pending, g) <=> events[g] # {}
                                              /\ g \notin wactive => events[g] = {}
  BY <1>0, WinAgreed DEF WinInv
<1>1. PICK f : f = Head(pending) OBVIOUS
<1>2. /\ f \in Win!Fds /\ Tail(pending) \in Seq(Win!Fds) /\ Distinct(Tail(pending))
      /\ \A g \in Win!Fds : Holds(Tail(pending), g) <=> Holds(pending, g) /\ g # f
  BY <1>0, <1>1, <1>a, TailOf DEF WinTypes
<1>3. Holds(pending, f) BY <1>0, <1>1 DEF Holds, WinTypes
<1>4. CASE Win!Removed(f) BY <1>2, <1>4, WinRemoves
<1>5. CASE \E ss \in SUBSET {"R", "W"} :
             /\ state' = [state EXCEPT ![f] = ss] /\ wanted' = [wanted EXCEPT ![f] = ss]
             /\ events' = [events EXCEPT ![f] = {}] /\ pending' = Tail(pending)
             /\ wactive' = wactive
  <2>1. PICK ss \in SUBSET Either :
             /\ state' = [state EXCEPT ![f] = ss] /\ wanted' = [wanted EXCEPT ![f] = ss]
             /\ events' = [events EXCEPT ![f] = {}] /\ pending' = Tail(pending)
             /\ wactive' = wactive
    BY <1>5 DEF Either
  <2>2. f \in wactive /\ {} \in SUBSET Either BY <1>2, <1>3, <1>a
  <2> QED BY <1>2, <2>1, <2>2, OneFdevent
<1>6. \/ Win!Removed(f)
      \/ \E ss \in SUBSET {"R", "W"} :
             /\ state' = [state EXCEPT ![f] = ss] /\ wanted' = [wanted EXCEPT ![f] = ss]
             /\ events' = [events EXCEPT ![f] = {}] /\ pending' = Tail(pending)
             /\ wactive' = wactive
  BY <1>1 DEF Win!Callback, Win!Rehook, Win!R, Win!W
<1> QED BY <1>4, <1>5, <1>6

LEMMA WinStep == WinInv /\ [Win!Next]_winVars => WinInv'
<1> SUFFICES ASSUME WinInv, [Win!Next]_winVars PROVE WinInv' OBVIOUS
<1>1. CASE Win!Prepare
  <2>1. PICK S : S = {f \in Win!Hooks : Win!Found(f) # {}} OBVIOUS
  <2>2. S \subseteq Win!Hooks /\ Win!SignalAll(S) /\ UNCHANGED <<wactive, state, wanted>>
    BY <1>1, <2>1 DEF Win!Prepare
  <2> QED BY <2>2, Signalled
<1>2. CASE Win!Start BY <1>2, WinRests DEF Win!Start
<1>3. CASE Win!Peek
  <2>1. PICK S : S = {f \in Win!Hooks : wready[f] \cup Win!Found(f) # {}} OBVIOUS
  <2>2. S \subseteq Win!Hooks /\ Win!SignalAll(S) /\ UNCHANGED <<wactive, state, wanted>>
    BY <1>3, <2>1 DEF Win!Peek
  <2> QED BY <2>2, Signalled
<1>4. CASE Win!LoopAgain BY <1>4, WinRests DEF Win!LoopAgain
<1>5. ASSUME NEW f \in Win!Fds, Win!Wait(f) PROVE WinInv'
  <2>1. PICK S : S \in {{f}, {}} /\ Win!SignalAll(S)
    BY <1>5 DEF Win!Wait
  <2>2. f \in Win!Hooks /\ UNCHANGED <<wactive, state, wanted>> BY <1>5 DEF Win!Wait
  <2>3. S \subseteq Win!Hooks BY <2>1, <2>2
  <2> QED BY <2>1, <2>2, <2>3, Signalled
<1>6. ASSUME NEW f \in Win!Fds, Win!Add(f, Win!R) \/ Win!Add(f, Win!W) PROVE WinInv'
  BY <1>6, WinAdds DEF Win!R, Win!W, Either
<1>7. ASSUME NEW f \in Win!Fds, Win!Install(f) PROVE WinInv' BY <1>7, WinInstalls
<1>8. ASSUME NEW f \in Win!Fds, Win!RemoveFde(f) PROVE WinInv'
  BY <1>8, WinRemoves DEF Win!RemoveFde
<1>9. ASSUME NEW f \in Win!Fds, Win!Becomes(f, Win!R) \/ Win!Becomes(f, Win!W) PROVE WinInv'
  BY <1>9, WinRests DEF Win!Becomes
<1>10. ASSUME NEW f \in Win!Fds, Win!PeerCloses(f) PROVE WinInv'
  BY <1>10, WinRests DEF Win!PeerCloses
<1>11. CASE UNCHANGED winVars BY <1>11, WinRests DEF winVars
<1> QED BY <1>1, <1>2, <1>3, <1>4, <1>5, <1>6, <1>7, <1>8, <1>9, <1>10, <1>11, WinCalls
       DEF Win!Next

(* The events of a pair: set with its flags, and by the close of an end.   *)
Signals ==
  /\ can \in [Win!Fds -> SUBSET Either] /\ signaled \in [Pairs -> SUBSET Either]
  /\ Win!PairsSignal

LEMMA SignalsInit == ASSUME Win!Init PROVE Signals
BY DEF Win!Init, Signals, Win!PairsSignal, Win!R, Win!W, Win!Fds, Either

(* A step that leaves can[f] at `now` and the events of the pair f at m.   *)
LEMMA SignalsOne ==
  ASSUME Signals, NEW f \in Win!Fds, NEW now \in SUBSET Either, NEW m \in SUBSET Either,
         can' = [can EXCEPT ![f] = now],
         signaled' = IF f \in Pairs THEN [signaled EXCEPT ![f] = m] ELSE signaled,
         \A g \in Pairs : g # f => (g \in gone' <=> g \in gone),
         f \in Pairs => now \subseteq m /\ (f \notin gone' => m = now)
  PROVE  Signals'
<1>1. /\ can' \in [Win!Fds -> SUBSET Either] /\ signaled' \in [Pairs -> SUBSET Either]
  BY DEF Signals
<1>2. ASSUME NEW g \in Pairs
      PROVE  can'[g] \subseteq signaled'[g] /\ (g \notin gone' => signaled'[g] = can'[g])
  <2>1. g \in Win!Fds /\ can[g] \subseteq signaled[g] /\ (g \notin gone => signaled[g] = can[g])
    BY DEF Signals, Win!PairsSignal, Win!Fds
  <2>2. CASE g = f
    <3>1. can'[g] = now /\ signaled'[g] = m BY <2>1, <2>2 DEF Signals
    <3> QED BY <2>2, <3>1
  <2>3. CASE g # f
    <3>1. can'[g] = can[g] /\ signaled'[g] = signaled[g] BY <2>1, <2>3 DEF Signals
    <3> QED BY <2>1, <2>3, <3>1
  <2> QED BY <2>2, <2>3
<1> QED BY <1>1, <1>2 DEF Signals, Win!PairsSignal, Win!Fds

LEMMA SignalsRest == ASSUME Signals, UNCHANGED <<can, signaled, gone>> PROVE Signals'
BY DEF Signals, Win!PairsSignal, Win!Fds

LEMMA SignalsCall == ASSUME WinInv, Signals, Win!Callback PROVE Signals'
<1>1. PICK f : f = Head(pending) OBVIOUS
<1>2. f \in Win!Fds BY <1>1 DEF WinInv, WinTypes, Win!Callback
<1>3. CASE Win!Removed(f) BY <1>3, SignalsRest DEF Win!Removed
<1>4. CASE \E rest \in SUBSET (can[f] \cap {Win!R}), full \in BOOLEAN :
             /\ Win!Moved(f, rest \cup (IF full THEN {} ELSE can[f] \ {Win!R}))
             /\ UNCHANGED gone
  <2>1. PICK rest \in SUBSET (can[f] \cap {Win!R}), full \in BOOLEAN :
             /\ Win!Moved(f, rest \cup (IF full THEN {} ELSE can[f] \ {Win!R}))
             /\ UNCHANGED gone
    BY <1>4
  <2>2. PICK now : now = rest \cup (IF full THEN {} ELSE can[f] \ {Win!R}) OBVIOUS
  <2>3. can[f] \in SUBSET Either BY <1>2 DEF Signals
  <2>4. now \subseteq can[f] /\ now \in SUBSET Either BY <2>2, <2>3
  <2>5. PICK m : m = IF f \in Pairs THEN signaled[f] \ (can[f] \ now) ELSE {} OBVIOUS
  <2>6. m \in SUBSET Either BY <2>5 DEF Signals
  <2>7. /\ can' = [can EXCEPT ![f] = now]
        /\ signaled' = IF f \in Pairs THEN [signaled EXCEPT ![f] = m] ELSE signaled
    BY <2>1, <2>2, <2>5 DEF Win!Moved, Signals
  <2>8. f \in Pairs => now \subseteq m /\ (f \notin gone' => m = now)
    BY <2>1, <2>4, <2>5 DEF Signals, Win!PairsSignal
  <2> QED BY <1>2, <2>1, <2>4, <2>6, <2>7, <2>8, SignalsOne
<1> QED BY <1>1, <1>3, <1>4 DEF Win!Callback

LEMMA SignalsStep == ASSUME WinInv, Signals, [Win!Next]_winVars PROVE Signals'
<1>1. CASE Win!Prepare \/ Win!Start \/ Win!Peek \/ Win!LoopAgain
  BY <1>1, SignalsRest DEF Win!Prepare, Win!Start, Win!Peek, Win!LoopAgain
<1>2. ASSUME NEW f \in Win!Fds,
             Win!Wait(f) \/ Win!Add(f, Win!R) \/ Win!Add(f, Win!W) \/ Win!RemoveFde(f)
      PROVE  Signals'
  BY <1>2, SignalsRest DEF Win!Wait, Win!Add, Win!RemoveFde, Win!Removed
<1>3. ASSUME NEW f \in Win!Fds, Win!Install(f) PROVE Signals'
  <2>1. /\ can' = [can EXCEPT ![f] = {Win!W}] /\ gone' = gone \ {f}
        /\ signaled' = IF f \in Pairs THEN [signaled EXCEPT ![f] = {Win!W}] ELSE signaled
    BY <1>3 DEF Win!Install
  <2>2. {Win!W} \in SUBSET Either BY DEF Win!W, Either
  <2> QED BY <2>1, <2>2, SignalsOne
<1>4. ASSUME NEW f \in Win!Fds, NEW e \in Either, Win!Becomes(f, e) PROVE Signals'
  <2>1. /\ can' = [can EXCEPT ![f] = can[f] \cup {e}] /\ gone' = gone /\ f \notin gone
        /\ signaled' = IF f \in Pairs THEN [signaled EXCEPT ![f] = signaled[f] \cup {e}]
                       ELSE signaled
    BY <1>4 DEF Win!Becomes, Signals
  <2>2. can[f] \cup {e} \in SUBSET Either BY DEF Signals
  <2>3. f \in Pairs => signaled[f] = can[f] BY <2>1 DEF Signals, Win!PairsSignal
  <2>4. signaled' = IF f \in Pairs THEN [signaled EXCEPT ![f] = can[f] \cup {e}] ELSE signaled
    BY <2>1, <2>3
  <2> QED BY <2>1, <2>2, <2>4, SignalsOne
<1>5. ASSUME NEW f \in Win!Fds, Win!PeerCloses(f) PROVE Signals'
  <2>1. /\ f \in Pairs /\ can' = can /\ gone' = gone \cup {f}
        /\ signaled' = [signaled EXCEPT ![f] = {Win!R, Win!W}]
    BY <1>5 DEF Win!PeerCloses
  <2>2. can[f] \in SUBSET Either /\ can' = [can EXCEPT ![f] = can[f]] BY <2>1 DEF Signals
  <2>3. {Win!R, Win!W} = Either BY DEF Win!R, Win!W, Either
  <2> QED BY <2>1, <2>2, <2>3, SignalsOne
<1>6. CASE UNCHANGED winVars BY <1>6, SignalsRest DEF winVars
<1>7. Win!R \in Either /\ Win!W \in Either BY DEF Win!R, Win!W, Either
<1> QED BY <1>1, <1>2, <1>3, <1>4, <1>5, <1>6, <1>7, SignalsCall DEF Win!Next

-----------------------------------------------------------------------------
(* A behaviour of the three in one run is one of each, in its part.        *)
LEMMA PartsKeep == LoopsSpec => [](WinInv /\ Signals /\ PairInv)
<1>1. LoopsInit => WinInv /\ Signals /\ PairInv
  BY WindowsConstants, WinInit, SignalsInit, PairInit DEF LoopsInit
<1>2. WinInv /\ Signals /\ PairInv /\ [LoopsNext]_<<part, vars, winVars, bipVars>>
        => (WinInv /\ Signals /\ PairInv)'
  <2> SUFFICES ASSUME [LoopsNext]_<<part, vars, winVars, bipVars>>
               PROVE  [Win!Next]_winVars /\ [Bip!Next]_bipVars
    BY WinStep, SignalsStep, PairStep
  <2> QED BY DEF LoopsNext
<1> QED BY <1>1, <1>2, PTL DEF LoopsSpec

(* On Windows, for any finite set of sockets and pairs and any size of a   *)
(* pair's buffer: an fdevent is in the list exactly if it has an event to  *)
(* deliver, whatever callbacks add, install and remove meanwhile; a hook   *)
(* wants what its fdevent does; the two regions of a buffer hold what was  *)
(* sent and not received and the flags and events say so; an open pair has *)
(* the events of its buffers set as their flags are; and bytes come        *)
(* in their order until a call is split between the regions.               *)
THEOREM WindowsExact == LoopsSpec => []WindowsAgree
<1>1. WinInv /\ Signals /\ PairInv => WindowsAgree
  BY DEF WinInv, Signals, PairInv, InOrder, WindowsAgree, Bip!SameBytes
<1> QED BY <1>1, PartsKeep, PTL
=============================================================================
