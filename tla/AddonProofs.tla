----------------------------- MODULE AddonProofs -----------------------------
(***************************************************************************)
(* Theorems about the add-on: the registry of apps and what the simulator  *)
(* has installed (AppRegistry), for any apps, updates in flight and        *)
(* lengths of the queues.                                                  *)
(*                                                                         *)
(* What keeps the registry right is the order of the requests: those for   *)
(* an app wait in one queue only and name its record, and the last of them *)
(* is what the registry says (Right).  The callback that moves an          *)
(* updateAll on is in one place at a time (Tokens).                        *)
(***************************************************************************)
EXTENDS AppRegistry, FiniteSetTheorems, TLAPS

-----------------------------------------------------------------------------
(* Queues of requests: those for an app, and those an updateAll waits for. *)
AllOf(q, r) == \A n \in Of(q, r[1]) : q[n].rec = r
Last(q, n, a) == n \in Of(q, a) /\ \A m \in Of(q, a) : m <= n
Ends(q, a, w) == \A n \in DOMAIN q : Last(q, n, a) => (q[n].do = "install" <=> w)
With(q, i) == {n \in DOMAIN q : q[n].sweep = i}

LEMMA EmptyQueue ==
  ASSUME NEW a, NEW w, NEW i
  PROVE  /\ Of(<<>>, a) = {} /\ With(<<>>, i) = {}
         /\ Ends(<<>>, a, w)
BY DEF Of, With, Ends

(* Nothing for the app: whatever is said of its requests holds.            *)
LEMMA NoneOf ==
  ASSUME NEW q, NEW r, NEW w, Of(q, r[1]) = {}
  PROVE  AllOf(q, r) /\ Ends(q, r[1], w)
BY DEF AllOf, Ends, Last

LEMMA AppendFields ==
  ASSUME NEW q \in Seq(Asks), NEW ask \in Asks
  PROVE  /\ Append(q, ask) \in Seq(Asks)
         /\ DOMAIN Append(q, ask) = DOMAIN q \cup {Len(q) + 1}
         /\ Append(q, ask)[Len(q) + 1] = ask
         /\ \A n \in DOMAIN q : Append(q, ask)[n] = q[n] /\ n \in Nat /\ n < Len(q) + 1
         /\ Len(q) + 1 \notin DOMAIN q
OBVIOUS

LEMMA AppendOther ==
  ASSUME NEW q \in Seq(Asks), NEW ask \in Asks, NEW a, ask.rec[1] # a
  PROVE  /\ Of(Append(q, ask), a) = Of(q, a)
         /\ \A w : Ends(q, a, w) => Ends(Append(q, ask), a, w)
<1> DEFINE p == Append(q, ask)
<1>1. Of(p, a) = Of(q, a) BY AppendFields DEF Of
<1>2. ASSUME NEW w, Ends(q, a, w), NEW n \in DOMAIN p, Last(p, n, a)
      PROVE  p[n].do = "install" <=> w
  <2>1. n \in Of(q, a) /\ Last(q, n, a) BY <1>1, <1>2 DEF Last
  <2>2. n \in DOMAIN q /\ p[n] = q[n] BY <2>1, AppendFields DEF Of
  <2> QED BY <1>2, <2>1, <2>2 DEF Ends
<1> HIDE DEF p
<1>3. \A w : Ends(q, a, w) => Ends(p, a, w) BY <1>2 DEF Ends
<1> QED BY <1>1, <1>3 DEF p

LEMMA AppendSame ==
  ASSUME NEW q \in Seq(Asks), NEW ask \in Asks, NEW a, ask.rec[1] = a
  PROVE  /\ Of(Append(q, ask), a) = Of(q, a) \cup {Len(q) + 1}
         /\ \A w : (ask.do = "install" <=> w) => Ends(Append(q, ask), a, w)
<1> DEFINE p == Append(q, ask)
<1>1. Of(p, a) = Of(q, a) \cup {Len(q) + 1} BY AppendFields DEF Of
<1>2. ASSUME NEW w, ask.do = "install" <=> w, NEW n \in DOMAIN p, Last(p, n, a)
      PROVE  p[n].do = "install" <=> w
  <2>1. Len(q) + 1 <= n BY <1>1, <1>2 DEF Last
  <2>2. n = Len(q) + 1 BY <1>2, <2>1, AppendFields
  <2> QED BY <1>2, <2>2, AppendFields
<1> HIDE DEF p
<1>3. \A w : (ask.do = "install" <=> w) => Ends(p, a, w) BY <1>2 DEF Ends
<1> QED BY <1>1, <1>3 DEF p

LEMMA AppendAll ==
  ASSUME NEW q \in Seq(Asks), NEW ask \in Asks, NEW r, AllOf(q, r),
         ask.rec[1] = r[1] => ask.rec = r
  PROVE  AllOf(Append(q, ask), r)
BY AppendFields DEF AllOf, Of

LEMMA AppendWith ==
  ASSUME NEW q \in Seq(Asks), NEW ask \in Asks, NEW i
  PROVE  /\ ask.sweep # i => With(Append(q, ask), i) = With(q, i)
         /\ ask.sweep = i => With(Append(q, ask), i) = With(q, i) \cup {Len(q) + 1}
BY AppendFields DEF With

LEMMA TailFields ==
  ASSUME NEW q \in Seq(Asks), q # <<>>
  PROVE  /\ Tail(q) \in Seq(Asks) /\ Head(q) \in Asks /\ Head(q) = q[1]
         /\ Len(Tail(q)) = Len(q) - 1
         /\ 1 \in DOMAIN q
         /\ \A n \in DOMAIN Tail(q) : Tail(q)[n] = q[n + 1] /\ n + 1 \in DOMAIN q
         /\ \A n \in DOMAIN q : n # 1 => n - 1 \in DOMAIN Tail(q) /\ Tail(q)[n - 1] = q[n]
         /\ \A n \in DOMAIN q : n \in Nat /\ n >= 1
         /\ \A n \in DOMAIN Tail(q) : n \in Nat /\ n >= 1
OBVIOUS

LEMMA TailOf ==
  ASSUME NEW q \in Seq(Asks), q # <<>>, NEW a
  PROVE  /\ \A n \in Of(Tail(q), a) : n + 1 \in Of(q, a)
         /\ \A n \in Of(q, a) : n # 1 => n - 1 \in Of(Tail(q), a)
         /\ Of(q, a) = {} => Of(Tail(q), a) = {}
         /\ Of(Tail(q), a) = {} /\ Head(q).rec[1] # a => Of(q, a) = {}
<1>1. \A n \in Of(Tail(q), a) : n + 1 \in Of(q, a) BY TailFields DEF Of
<1>2. \A n \in Of(q, a) : n # 1 => n - 1 \in Of(Tail(q), a) BY TailFields DEF Of
<1>3. Of(q, a) = {} => Of(Tail(q), a) = {} BY <1>1
<1>4. ASSUME Of(Tail(q), a) = {}, Head(q).rec[1] # a PROVE Of(q, a) = {}
  <2>1. 1 \notin Of(q, a) BY <1>4, TailFields DEF Of
  <2> QED BY <1>2, <1>4, <2>1
<1> QED BY <1>1, <1>2, <1>3, <1>4

LEMMA TailAll ==
  ASSUME NEW q \in Seq(Asks), q # <<>>, NEW r, AllOf(q, r)
  PROVE  AllOf(Tail(q), r) /\ (Head(q).rec[1] = r[1] => Head(q).rec = r)
<1>1. \A n \in Of(Tail(q), r[1]) : Tail(q)[n] = q[n + 1] BY TailFields DEF Of
<1>2. \A n \in Of(Tail(q), r[1]) : n + 1 \in Of(q, r[1]) BY TailOf
<1>4. AllOf(Tail(q), r) BY <1>1, <1>2 DEF AllOf
<1>3. Head(q).rec[1] = r[1] => Head(q).rec = r BY TailFields DEF AllOf, Of
<1> QED BY <1>3, <1>4

LEMMA TailEnds ==
  ASSUME NEW q \in Seq(Asks), q # <<>>, NEW a, NEW w, Ends(q, a, w)
  PROVE  /\ Ends(Tail(q), a, w)
         /\ Of(Tail(q), a) = {} /\ Head(q).rec[1] = a => (Head(q).do = "install" <=> w)
<1>1. ASSUME NEW n \in DOMAIN Tail(q), Last(Tail(q), n, a)
      PROVE  Tail(q)[n].do = "install" <=> w
  <2>1. n + 1 \in Of(q, a) BY <1>1, TailOf DEF Last
  <2>2. ASSUME NEW m \in Of(q, a) PROVE m <= n + 1
    <3>1. CASE m = 1 BY <1>1, <3>1, TailFields
    <3>2. CASE m # 1
      <4>1. m - 1 \in Of(Tail(q), a) BY <3>2, TailOf
      <4>2. m - 1 <= n BY <1>1, <4>1 DEF Last
      <4>3. m \in Nat /\ n \in Nat BY <1>1, TailFields DEF Of
      <4> QED BY <4>2, <4>3
    <3> QED BY <3>1, <3>2
  <2>3. Last(q, n + 1, a) /\ n + 1 \in DOMAIN q BY <2>1, <2>2 DEF Last, Of
  <2> QED BY <1>1, <2>3, TailFields DEF Ends
<1>2. ASSUME Of(Tail(q), a) = {}, Head(q).rec[1] = a PROVE Head(q).do = "install" <=> w
  <2>1. 1 \in Of(q, a) BY <1>2, TailFields DEF Of
  <2>2. \A m \in Of(q, a) : m = 1 BY <1>2, TailOf
  <2>3. Last(q, 1, a) BY <2>1, <2>2 DEF Last
  <2> QED BY <2>3, TailFields DEF Ends
<1>3. Ends(Tail(q), a, w) BY <1>1 DEF Ends
<1> QED BY <1>2, <1>3

LEMMA TailWith ==
  ASSUME NEW q \in Seq(Asks), q # <<>>, NEW i
  PROVE  /\ \A n \in With(Tail(q), i) : n + 1 \in With(q, i)
         /\ Head(q).sweep = i <=> 1 \in With(q, i)
<1>1. \A n \in With(Tail(q), i) : n + 1 \in With(q, i) BY TailFields DEF With
<1> QED BY <1>1, TailFields DEF With

LEMMA ConcatFields ==
  ASSUME NEW q \in Seq(Asks), NEW p \in Seq(Asks)
  PROVE  /\ q \o p \in Seq(Asks) /\ Len(q \o p) = Len(q) + Len(p)
         /\ \A n \in DOMAIN q : n \in DOMAIN (q \o p) /\ (q \o p)[n] = q[n]
         /\ \A n \in DOMAIN p : Len(q) + n \in DOMAIN (q \o p) /\ (q \o p)[Len(q) + n] = p[n]
         /\ \A n \in DOMAIN (q \o p) : n \in DOMAIN q \/ n - Len(q) \in DOMAIN p
         /\ DOMAIN q = 1..Len(q) /\ DOMAIN p = 1..Len(p)
         /\ Len(q) \in Nat /\ Len(p) \in Nat
OBVIOUS

LEMMA ConcatOf ==
  ASSUME NEW q \in Seq(Asks), NEW p \in Seq(Asks), NEW a
  PROVE  /\ \A n \in Of(q \o p, a) : n \in Of(q, a) \/ n - Len(q) \in Of(p, a)
         /\ \A n \in Of(q, a) : n \in Of(q \o p, a)
         /\ \A n \in Of(p, a) : Len(q) + n \in Of(q \o p, a)
<1> DEFINE s == q \o p
<1>1. ASSUME NEW n \in Of(s, a) PROVE n \in Of(q, a) \/ n - Len(q) \in Of(p, a)
  <2>1. CASE n \in DOMAIN q BY <1>1, <2>1, ConcatFields DEF Of
  <2>2. CASE n - Len(q) \in DOMAIN p
    <3>1. s[Len(q) + (n - Len(q))] = p[n - Len(q)] BY <2>2, ConcatFields
    <3>2. n \in DOMAIN s /\ n \in Int BY <1>1, ConcatFields DEF Of
    <3>3. Len(q) + (n - Len(q)) = n BY <3>2, ConcatFields
    <3> QED BY <1>1, <2>2, <3>1, <3>3 DEF Of
  <2> QED BY <1>1, <2>1, <2>2, ConcatFields DEF Of
<1>2. \A n \in Of(q, a) : n \in Of(s, a) BY ConcatFields DEF Of
<1>3. \A n \in Of(p, a) : Len(q) + n \in Of(s, a) BY ConcatFields DEF Of
<1> QED BY <1>1, <1>2, <1>3

LEMMA ConcatAll ==
  ASSUME NEW q \in Seq(Asks), NEW p \in Seq(Asks), NEW r, AllOf(q, r), AllOf(p, r)
  PROVE  AllOf(q \o p, r)
<1> DEFINE s == q \o p
<1> SUFFICES ASSUME NEW n \in Of(s, r[1]) PROVE s[n].rec = r
  BY DEF AllOf
<1>1. CASE n \in Of(q, r[1]) BY <1>1, ConcatFields DEF AllOf, Of
<1>2. CASE n - Len(q) \in Of(p, r[1])
  <2>1. n - Len(q) \in DOMAIN p BY <1>2 DEF Of
  <2>2. s[Len(q) + (n - Len(q))] = p[n - Len(q)] BY <2>1, ConcatFields
  <2>3. n \in Int BY ConcatFields DEF Of
  <2>4. Len(q) + (n - Len(q)) = n BY <2>3, ConcatFields
  <2> QED BY <1>2, <2>2, <2>4 DEF AllOf
<1> QED BY <1>1, <1>2, ConcatOf

LEMMA ConcatEnds ==
  ASSUME NEW q \in Seq(Asks), NEW p \in Seq(Asks), NEW a, NEW w,
         Ends(q, a, w), Ends(p, a, w)
  PROVE  Ends(q \o p, a, w)
<1> DEFINE s == q \o p
<1> SUFFICES ASSUME NEW n \in DOMAIN s, Last(s, n, a) PROVE s[n].do = "install" <=> w
  BY DEF Ends
<1>0. n \in Of(s, a) BY DEF Last
<1>1. n \in Int /\ Len(q) \in Nat BY ConcatFields
<1>2. CASE n \in Of(q, a)
  <2>1. \A m \in Of(q, a) : m <= n BY ConcatOf DEF Last
  <2>2. Last(q, n, a) BY <1>2, <2>1 DEF Last
  <2> QED BY <1>2, <2>2, ConcatFields DEF Ends, Of
<1>3. CASE n - Len(q) \in Of(p, a)
  <2>1. n - Len(q) \in DOMAIN p BY <1>3 DEF Of
  <2>2. s[Len(q) + (n - Len(q))] = p[n - Len(q)] BY <2>1, ConcatFields
  <2>3. Len(q) + (n - Len(q)) = n BY <1>1
  <2>4. ASSUME NEW m \in Of(p, a) PROVE m <= n - Len(q)
    <3>1. Len(q) + m <= n BY ConcatOf DEF Last
    <3>2. m \in Int BY ConcatFields DEF Of
    <3> QED BY <1>1, <3>1, <3>2
  <2>5. Last(p, n - Len(q), a) BY <1>3, <2>4 DEF Last
  <2> QED BY <2>1, <2>2, <2>3, <2>5 DEF Ends
<1> QED BY <1>0, <1>2, <1>3, ConcatOf

LEMMA ConcatWith ==
  ASSUME NEW q \in Seq(Asks), NEW p \in Seq(Asks), NEW i
  PROVE  \A n \in With(q \o p, i) : n \in With(q, i) \/ n - Len(q) \in With(p, i)
<1> DEFINE s == q \o p
<1> SUFFICES ASSUME NEW n \in With(s, i) PROVE n \in With(q, i) \/ n - Len(q) \in With(p, i)
  OBVIOUS
<1>1. CASE n \in DOMAIN q BY <1>1, ConcatFields DEF With
<1>2. CASE n - Len(q) \in DOMAIN p
  <2>1. s[Len(q) + (n - Len(q))] = p[n - Len(q)] BY <1>2, ConcatFields
  <2>2. n \in Int BY ConcatFields DEF With
  <2>3. Len(q) + (n - Len(q)) = n BY <2>2, ConcatFields
  <2> QED BY <1>2, <2>1, <2>3 DEF With
<1> QED BY <1>1, <1>2, ConcatFields DEF With

-----------------------------------------------------------------------------
(* The callback that moves updateAll i on is held by one update, waits with *)
(* one request, or is being called.                                         *)
InTask(i) == {t \in Tasks : task[t] # Idle /\ task[t].sweep = i}
Single(S) == \A x, y \in S : x = y
Token(i) ==
  /\ sweep[i].at # "busy" =>
       InTask(i) = {} /\ With(handlers, i) = {} /\ With(requests, i) = {}
  /\ InTask(i) # {} => With(handlers, i) = {} /\ With(requests, i) = {}
  /\ With(handlers, i) # {} => With(requests, i) = {}
  /\ Single(InTask(i)) /\ Single(With(handlers, i)) /\ Single(With(requests, i))
Tokens == \A i \in Sweeps : Token(i)

Phases ==
  /\ sim \in {"off", "starting"} => requests = <<>>
  /\ sim = "ready" => handlers = <<>>
  /\ needsAll => \A i \in Sweeps : sweep[i] = NoSweep

(* An updateAll is for apps whose operations it has mixed with.            *)
Swept == \A i \in Sweeps : sweep[i] # NoSweep =>
  /\ sweep[i].left \subseteq crossed
  /\ sweep[i].then.rec[1] \in crossed
  /\ sweep[i].then.sweep = None

Right(a) ==
  /\ Busy(a) # {} => ~registry[a].removed
  /\ \A t \in Busy(a) : task[t].at = "write" => task[t].gen = registry[a].gen
  /\ AllOf(handlers, Rec(a)) /\ AllOf(requests, Rec(a))
  /\ Of(handlers, a) # {} => Of(requests, a) = {}
  /\ Busy(a) = {} =>
       /\ Ends(handlers, a, ~registry[a].removed)
       /\ Ends(requests, a, ~registry[a].removed)
       /\ Of(handlers, a) = {} /\ Of(requests, a) = {} =>
            (Rec(a) \in installed <=> ~registry[a].removed)
AllRight == \A a \in Apps : Registered(a) /\ a \notin crossed => Right(a)

IInv == RegistryAssumption /\ TypeOK /\ Phases /\ Tokens /\ Swept /\ AllRight

LEMMA InitHolds == ASSUME RegistryAssumption, Init PROVE IInv
<1>1. TypeOK
  <2>1. <<>> \in Seq(Asks) /\ Len(<<>>) = 0 OBVIOUS
  <2>2. task \in [Tasks -> Steps \cup {Idle}] BY DEF Init
  <2>3. sweep \in [Sweeps -> {NoSweep} \cup
                   [at : {"next", "busy"}, left : SUBSET Apps, then : Asks]] BY DEF Init
  <2> QED BY <2>1, <2>2, <2>3 DEF Init, TypeOK, RegistryAssumption, Registered
<1>2. Phases BY DEF Init, Phases
<1>3. Tokens
  <2> SUFFICES ASSUME NEW i \in Sweeps PROVE Token(i) BY DEF Tokens
  <2>1. InTask(i) = {} BY DEF InTask, Init
  <2>2. With(handlers, i) = {} /\ With(requests, i) = {} BY EmptyQueue DEF Init
  <2> QED BY <2>1, <2>2 DEF Token, Single
<1>4. Swept BY DEF Init, Swept
<1>5. AllRight BY DEF Init, AllRight, Registered
<1> QED BY <1>1, <1>2, <1>3, <1>4, <1>5 DEF IInv

(* What simulator.run does to the queues.                                  *)
LEMMA RunDoes ==
  ASSUME RegistryAssumption, TypeOK, NEW ask \in Asks, Run(ask)
  PROVE  /\ sim' \in {"off", "starting", "early", "ready"}
         /\ handlers' \in Seq(Asks) /\ Len(handlers') <= MaxQueue
         /\ requests' \in Seq(Asks) /\ Len(requests') <= MaxQueue
         /\ handlers' \in {handlers, Append(handlers, ask)}
         /\ requests' \in {requests, Append(requests, ask)}
         /\ requests' = requests \/ handlers' = handlers
         /\ ~Throws => requests' # requests \/ handlers' # handlers
         /\ handlers' # handlers => sim \in {"off", "starting"}
         /\ requests' # requests => sim \in {"early", "ready"}
         /\ sim' \in {"off", "starting"} => sim \in {"off", "starting"} /\ requests' = requests
         /\ sim' = "ready" => handlers' = handlers /\ sim = "ready"
<1>1. CASE sim \in {"off", "starting"} /\ Len(handlers) < MaxQueue /\ sim' = "starting"
           /\ handlers' = Append(handlers, ask) /\ requests' = requests
  BY <1>1 DEF TypeOK, RegistryAssumption, Throws
<1>2. CASE Throws /\ UNCHANGED <<sim, handlers, requests>>
  BY <1>2 DEF TypeOK, Throws
<1>3. CASE sim \in {"early", "ready"} /\ ~Throws /\ Len(requests) < MaxQueue
           /\ requests' = Append(requests, ask) /\ UNCHANGED <<sim, handlers>>
  BY <1>3 DEF TypeOK, RegistryAssumption
<1> QED BY <1>1, <1>2, <1>3 DEF Run

(* What updateApp does to the updates in flight.                           *)
LEMMA UpdateDoes ==
  ASSUME TypeOK, NEW a \in Apps, NEW g \in 1..MaxGen, NEW i \in 0..MaxSweeps, UpdateApp(a, g, i)
  PROVE  \E t \in Tasks :
           /\ task[t] = Idle
           /\ task' \in [Tasks -> Steps \cup {Idle}]
           /\ task'[t] # Idle /\ task'[t].app = a /\ task'[t].gen = g /\ task'[t].sweep = i
           /\ \A u \in Tasks : u # t => task'[u] = task[u]
<1>1. PICK t \in Tasks :
        /\ task[t] = Idle
        /\ task' = [task EXCEPT ![t] =
                      IF a \in Hosted THEN [at |-> "fetch", app |-> a, gen |-> g, sweep |-> i]
                                      ELSE Writing(a, g, i)]
  BY DEF UpdateApp
<1>2. task \in [Tasks -> Steps \cup {Idle}] BY DEF TypeOK
<1>3. \A u \in Tasks : u # t => task'[u] = task[u] BY <1>1, <1>2
<1>4. CASE a \in Hosted
  <2> DEFINE s == [at |-> "fetch", app |-> a, gen |-> g, sweep |-> i]
  <2>1. s \in Steps /\ s.app = a /\ s.gen = g /\ s.sweep = i BY DEF Steps
  <2>2. s # Idle
    <3>1. s.at = "fetch" /\ Idle.at = "idle" BY DEF Idle
    <3> QED BY <3>1
  <2>3. task'[t] = s BY <1>1, <1>2, <1>4
  <2>4. task' \in [Tasks -> Steps \cup {Idle}] BY <1>1, <1>2, <1>4, <2>1
  <2> QED BY <1>1, <1>3, <2>1, <2>2, <2>3, <2>4
<1>5. CASE a \notin Hosted
  <2> DEFINE s == Writing(a, g, i)
  <2>1. s \in Steps /\ s.app = a /\ s.gen = g /\ s.sweep = i BY DEF Steps, Writing
  <2>2. s # Idle
    <3>1. s.at = "write" /\ Idle.at = "idle" BY DEF Idle, Writing
    <3> QED BY <3>1
  <2>3. task'[t] = s BY <1>1, <1>2, <1>5
  <2>4. task' \in [Tasks -> Steps \cup {Idle}] BY <1>1, <1>2, <1>5, <2>1
  <2> QED BY <1>1, <1>3, <2>1, <2>2, <2>3, <2>4
<1> QED BY <1>4, <1>5

SweepSet == {NoSweep} \cup [at : {"next", "busy"}, left : SUBSET Apps, then : Asks]

LEMMA SweepsAre ==
  ASSUME RegistryAssumption, TypeOK
  PROVE  /\ sweep \in [Sweeps -> SweepSet]
         /\ \A i \in 0..MaxSweeps : i # None => i \in Sweeps
         /\ \A i \in Sweeps : sweep[i].at # "none" => sweep[i] # NoSweep
         /\ \A i \in Sweeps : sweep[i] = NoSweep => sweep[i].at = "none"
         /\ \A i \in Sweeps : sweep[i] # NoSweep =>
              /\ sweep[i] \in [at : {"next", "busy"}, left : SUBSET Apps, then : Asks]
              /\ sweep[i].at \in {"next", "busy"}
              /\ sweep[i].left \subseteq Apps
              /\ sweep[i].then \in Asks
<1>1. sweep \in [Sweeps -> SweepSet] BY DEF TypeOK, SweepSet
<1>2. \A i \in 0..MaxSweeps : i # None => i \in Sweeps
  BY DEF RegistryAssumption, Sweeps, None
<1>3. NoSweep.at = "none" BY DEF NoSweep
<1>4. \A i \in Sweeps : sweep[i] # NoSweep =>
        sweep[i] \in [at : {"next", "busy"}, left : SUBSET Apps, then : Asks]
  BY <1>1 DEF SweepSet
<1> QED BY <1>1, <1>2, <1>3, <1>4

(* What the callback of an update does to its updateAll.                   *)
LEMMA SweepGoesOnDoes ==
  ASSUME RegistryAssumption, TypeOK, NEW i \in 0..MaxSweeps,
         i # None => sweep[i].at = "busy", SweepGoesOn(i)
  PROVE  /\ sweep' \in [Sweeps -> SweepSet]
         /\ \A j \in Sweeps : j # i => sweep'[j] = sweep[j]
         /\ i # None => /\ sweep[i] # NoSweep /\ sweep'[i] # NoSweep
                        /\ sweep'[i].at = "next"
                        /\ sweep'[i].left = sweep[i].left
                        /\ sweep'[i].then = sweep[i].then
<1>1. CASE i = None BY <1>1, SweepsAre DEF SweepGoesOn, None, Sweeps
<1>2. CASE i # None
  <2>1. sweep' = [sweep EXCEPT ![i].at = "next"] BY <1>2 DEF SweepGoesOn
  <2>2. /\ i \in Sweeps /\ sweep[i] # NoSweep
        /\ sweep[i] \in [at : {"next", "busy"}, left : SUBSET Apps, then : Asks]
    <3>1. i \in Sweeps /\ sweep[i].at # "none" BY <1>2, SweepsAre
    <3> QED BY <3>1, SweepsAre
  <2>3. /\ sweep'[i] = [sweep[i] EXCEPT !.at = "next"]
        /\ \A j \in Sweeps : j # i => sweep'[j] = sweep[j]
    BY <2>1, <2>2, SweepsAre
  <2>4. /\ sweep'[i] \in [at : {"next", "busy"}, left : SUBSET Apps, then : Asks]
        /\ sweep'[i].at = "next" /\ sweep'[i].left = sweep[i].left
        /\ sweep'[i].then = sweep[i].then
    BY <2>2, <2>3
  <2>5. sweep' \in [Sweeps -> SweepSet]
    <3>1. \A j \in Sweeps : sweep'[j] \in SweepSet BY <2>3, <2>4, SweepsAre DEF SweepSet
    <3>2. sweep' = [j \in Sweeps |-> sweep'[j]] BY <2>1, SweepsAre
    <3> QED BY <3>1, <3>2
  <2>6. sweep'[i] # NoSweep
    <3>1. NoSweep.at = "none" BY DEF NoSweep
    <3> QED BY <2>4, <3>1
  <2> QED BY <2>2, <2>3, <2>4, <2>5, <2>6
<1> QED BY <1>1, <1>2

(* An update in flight and its fields.                                     *)
LEMMA Working ==
  ASSUME TypeOK, NEW t \in Tasks, task[t] # Idle
  PROVE  /\ task[t] \in Steps /\ task[t].app \in Apps /\ task[t].gen \in 1..MaxGen
         /\ task[t].sweep \in 0..MaxSweeps /\ task[t].at \in {"fetch", "write"}
BY DEF TypeOK, Steps

LEMMA AtWork ==
  ASSUME NEW t \in Tasks, task[t].at \in {"fetch", "write"}
  PROVE  task[t] # Idle
BY DEF Idle

(* Who holds the callback of an updateAll: it waits.                       *)
LEMMA TaskHolds ==
  ASSUME RegistryAssumption, TypeOK, Tokens, NEW t \in Tasks, task[t] # Idle,
         task[t].sweep # None
  PROVE  /\ task[t].sweep \in Sweeps /\ sweep[task[t].sweep].at = "busy"
         /\ t \in InTask(task[t].sweep)
<1>1. task[t].sweep \in Sweeps BY Working, SweepsAre
<1>2. t \in InTask(task[t].sweep) BY DEF InTask
<1> QED BY <1>1, <1>2 DEF Tokens, Token

LEMMA HeadHolds ==
  ASSUME RegistryAssumption, TypeOK, Tokens, requests # <<>>, Head(requests).sweep # None
  PROVE  /\ Head(requests).sweep \in Sweeps /\ sweep[Head(requests).sweep].at = "busy"
         /\ 1 \in With(requests, Head(requests).sweep)
<1>1. requests \in Seq(Asks) /\ Head(requests) \in Asks BY TailFields DEF TypeOK
<1>2. Head(requests).sweep \in Sweeps BY <1>1, SweepsAre DEF Asks
<1>3. 1 \in With(requests, Head(requests).sweep) BY <1>1, TailWith
<1> QED BY <1>2, <1>3 DEF Tokens, Token

LEMMA RecordsAre ==
  ASSUME RegistryAssumption, TypeOK, NEW a \in Apps
  PROVE  /\ registry[a].gen \in 0..MaxGen
         /\ registry[a].gen < MaxGen => registry[a].gen + 1 \in 1..MaxGen
         /\ Registered(a) => registry[a].gen \in 1..MaxGen /\ Rec(a) \in Records
         /\ Rec(a)[1] = a /\ None \in 0..MaxSweeps
         /\ registry[a].removed \in BOOLEAN
<1>1. registry[a].gen \in 0..MaxGen /\ registry[a].removed \in BOOLEAN BY DEF TypeOK
<1>2. MaxGen \in Nat /\ MaxSweeps \in Nat BY DEF RegistryAssumption
<1>3. Registered(a) => registry[a].gen # 0 BY DEF TypeOK
<1> QED BY <1>1, <1>2, <1>3 DEF Rec, Records, None

-----------------------------------------------------------------------------
(* The types.  The parts of the state a step changes are typed one by one. *)
QueuesTyped ==
  /\ sim \in {"off", "starting", "early", "ready"}
  /\ handlers \in Seq(Asks) /\ Len(handlers) <= MaxQueue
  /\ requests \in Seq(Asks) /\ Len(requests) <= MaxQueue
RegistryTyped ==
  /\ registry \in [Apps -> [here : BOOLEAN, gen : 0..MaxGen, removed : BOOLEAN]]
  /\ \A a \in Apps : /\ Registered(a) => registry[a].gen # 0
                     /\ registry[a].removed => Registered(a)
RestTyped ==
  /\ installed \subseteq Records /\ needsAll \in BOOLEAN /\ crossed \subseteq Apps

LEMMA TypeParts ==
  TypeOK <=> /\ QueuesTyped /\ RegistryTyped /\ RestTyped
             /\ task \in [Tasks -> Steps \cup {Idle}] /\ sweep \in [Sweeps -> SweepSet]
BY DEF TypeOK, QueuesTyped, RegistryTyped, RestTyped, SweepSet

LEMMA AsksAre ==
  ASSUME NEW q \in Seq(Asks), NEW n \in DOMAIN q
  PROVE  q[n] \in Asks /\ q[n].rec[1] \in Apps
<1>1. q[n] \in Asks OBVIOUS
<1> QED BY <1>1 DEF Asks, Records

LEMMA FreshTyped ==
  ASSUME TypeOK, NEW a \in Apps
  PROVE  Fresh(a) \subseteq Apps /\ crossed \cup {a} \subseteq Apps /\ crossed \ {a} \subseteq Apps
BY DEF TypeOK, Fresh

LEMMA TypeNext == ASSUME IInv, Next PROVE TypeOK'
<1>0. /\ RegistryAssumption /\ TypeOK /\ Tokens
      /\ QueuesTyped /\ RegistryTyped /\ RestTyped
      /\ task \in [Tasks -> Steps \cup {Idle}] /\ sweep \in [Sweeps -> SweepSet]
  BY TypeParts DEF IInv
<1> DEFINE Split == /\ QueuesTyped' /\ RegistryTyped' /\ RestTyped'
                    /\ task' \in [Tasks -> Steps \cup {Idle}]
                    /\ sweep' \in [Sweeps -> SweepSet]
<1>a. ASSUME Split PROVE TypeOK'
  BY <1>a DEF TypeOK, QueuesTyped, RegistryTyped, RestTyped, SweepSet, Registered
<1>1. ASSUME NEW a \in Apps, Add(a) PROVE Split
  <2>1. registry[a].gen + 1 \in 1..MaxGen BY <1>0, <1>1, RecordsAre DEF Add
  <2>2. task' \in [Tasks -> Steps \cup {Idle}]
    BY <1>0, <1>1, <2>1, UpdateDoes, RecordsAre DEF Add
  <2>3. RegistryTyped'
    <3>1. registry' = [registry EXCEPT ![a] =
                         [here |-> TRUE, gen |-> @.gen + 1, removed |-> FALSE]]
      BY <1>1 DEF Add
    <3>2. MaxGen \in Nat BY <1>0 DEF RegistryAssumption
    <3>3. /\ registry'[a] = [here |-> TRUE, gen |-> registry[a].gen + 1, removed |-> FALSE]
          /\ \A b \in Apps : b # a => registry'[b] = registry[b]
      BY <1>0, <3>1 DEF RegistryTyped
    <3>4. registry' \in [Apps -> [here : BOOLEAN, gen : 0..MaxGen, removed : BOOLEAN]]
      BY <1>0, <2>1, <3>1, <3>2 DEF RegistryTyped
    <3>5. ASSUME NEW b \in Apps
          PROVE  /\ registry'[b].here => registry'[b].gen # 0
                 /\ registry'[b].removed => registry'[b].here
      BY <1>0, <2>1, <3>2, <3>3 DEF RegistryTyped, Registered
    <3> QED BY <3>4, <3>5 DEF RegistryTyped, Registered
  <2>4. RestTyped' BY <1>0, <1>1, FreshTyped DEF Add, RestTyped
  <2>5. QueuesTyped' BY <1>0, <1>1 DEF Add, QueuesTyped
  <2> QED BY <1>0, <1>1, <2>2, <2>3, <2>4, <2>5 DEF Add
<1>2. ASSUME NEW a \in Apps, Update(a) PROVE Split
  <2>1. task' \in [Tasks -> Steps \cup {Idle}]
    BY <1>0, <1>2, UpdateDoes, RecordsAre DEF Update
  <2>2. RegistryTyped' /\ QueuesTyped'
    BY <1>0, <1>2 DEF Update, RegistryTyped, QueuesTyped, Registered
  <2>3. RestTyped' BY <1>0, <1>2, FreshTyped DEF Update, RestTyped
  <2> QED BY <1>0, <1>2, <2>1, <2>2, <2>3 DEF Update
<1>3. ASSUME NEW a \in Apps, RemoveApp(a) PROVE Split
  <2>1. Ask("uninstall", Rec(a), None) \in Asks
    BY <1>0, <1>3, RecordsAre DEF RemoveApp, Ask, Asks
  <2>2. QueuesTyped' BY <1>0, <1>3, <2>1, RunDoes DEF RemoveApp, QueuesTyped
  <2>3. RegistryTyped'
    <3>1. registry' = [registry EXCEPT ![a].removed = TRUE] /\ Registered(a)
      BY <1>3 DEF RemoveApp
    <3> QED BY <1>0, <3>1 DEF RegistryTyped, Registered
  <2>4. RestTyped' BY <1>0, <1>3, FreshTyped DEF RemoveApp, RestTyped
  <2> QED BY <1>0, <1>3, <2>2, <2>3, <2>4 DEF RemoveApp
<1>4. ASSUME NEW a \in Apps, UndoRemoveApp(a) PROVE Split
  <2>1. task' \in [Tasks -> Steps \cup {Idle}]
    BY <1>0, <1>4, UpdateDoes, RecordsAre DEF UndoRemoveApp, Reinstall
  <2>2. RegistryTyped'
    <3>1. registry' = [registry EXCEPT ![a].removed = FALSE] BY <1>4 DEF UndoRemoveApp
    <3> QED BY <1>0, <3>1 DEF RegistryTyped, Registered
  <2>3. RestTyped' /\ QueuesTyped'
    BY <1>0, <1>4, FreshTyped DEF UndoRemoveApp, RestTyped, QueuesTyped
  <2> QED BY <1>0, <1>4, <2>1, <2>2, <2>3 DEF UndoRemoveApp
<1>5. ASSUME Flush PROVE Split
  <2>1. RegistryTyped'
    <3>1. registry' = [a \in Apps |-> IF registry[a].removed
                          THEN [registry[a] EXCEPT !.here = FALSE, !.removed = FALSE]
                          ELSE registry[a]]
      BY <1>5 DEF Flush
    <3> QED BY <1>0, <3>1 DEF RegistryTyped, Registered
  <2>2. RestTyped' /\ QueuesTyped' BY <1>0, <1>5 DEF Flush, RestTyped, QueuesTyped
  <2> QED BY <1>0, <1>5, <2>1, <2>2 DEF Flush
<1>6. ASSUME NEW t \in Tasks, Fetched(t) PROVE Split
  <2>0. task[t] # Idle BY <1>6, AtWork DEF Fetched
  <2>1. QueuesTyped' /\ RegistryTyped'
    BY <1>0, <1>6 DEF Fetched, QueuesTyped, RegistryTyped, Registered
  <2>2. task' \in [Tasks -> Steps \cup {Idle}]
    <3>1. CASE task' = [task EXCEPT ![t] = Idle] BY <1>0, <3>1
    <3>2. CASE /\ Registered(task[t].app)
               /\ task' = [task EXCEPT ![t] =
                     Writing(task[t].app, registry[task[t].app].gen, @.sweep)]
      <4>1. Writing(task[t].app, registry[task[t].app].gen, task[t].sweep) \in Steps
        BY <1>0, <2>0, <3>2, Working, RecordsAre DEF Writing, Steps
      <4> QED BY <1>0, <3>2, <4>1
    <3> QED BY <1>6, <3>1, <3>2 DEF Fetched
  <2>3. RestTyped' BY <1>0, <1>6, <2>0, Working DEF Fetched, RestTyped
  <2>4. sweep' \in [Sweeps -> SweepSet]
    <3>1. CASE UNCHANGED sweep BY <1>0, <3>1
    <3>2. CASE SweepGoesOn(IF Registered(task[t].app) THEN task[t].sweep ELSE None)
      <4>1. CASE Registered(task[t].app) /\ task[t].sweep # None
        <5>1. SweepGoesOn(task[t].sweep) BY <3>2, <4>1
        <5> QED BY <1>0, <2>0, <5>1, Working, TaskHolds, SweepGoesOnDoes
      <4>2. CASE ~Registered(task[t].app) \/ task[t].sweep = None
        BY <1>0, <3>2, <4>2 DEF SweepGoesOn
      <4> QED BY <4>1, <4>2
    <3> QED BY <1>6, <3>1, <3>2 DEF Fetched
  <2> QED BY <2>1, <2>2, <2>3, <2>4
<1>7. ASSUME NEW t \in Tasks, Written(t) PROVE Split
  <2>0. task[t] # Idle BY <1>7, AtWork DEF Written
  <2>1. task' \in [Tasks -> Steps \cup {Idle}] BY <1>0, <1>7 DEF Written
  <2>2. RegistryTyped' BY <1>0, <1>7 DEF Written, RegistryTyped, Registered
  <2>3. RestTyped' BY <1>0, <1>7, <2>0, Working DEF Written, RestTyped
  <2>4. QueuesTyped' /\ sweep' \in [Sweeps -> SweepSet]
    <3>1. CASE /\ Run(Ask("install", <<task[t].app, task[t].gen>>, task[t].sweep))
               /\ sweep' = sweep
      <4>1. Ask("install", <<task[t].app, task[t].gen>>, task[t].sweep) \in Asks
        BY <1>0, <2>0, Working DEF Ask, Asks, Records
      <4> QED BY <1>0, <3>1, <4>1, RunDoes DEF QueuesTyped
    <3>2. CASE SweepGoesOn(task[t].sweep) /\ UNCHANGED <<sim, handlers, requests>>
      <4>1. QueuesTyped' BY <1>0, <3>2 DEF QueuesTyped
      <4> QED BY <1>0, <2>0, <3>2, <4>1, Working, TaskHolds, SweepGoesOnDoes
    <3> QED BY <1>7, <3>1, <3>2 DEF Written
  <2> QED BY <2>1, <2>2, <2>3, <2>4
<1>8. ASSUME NEW i \in Sweeps, SweepNext(i) PROVE Split
  <2>0. /\ sweep[i] # NoSweep /\ i \in 0..MaxSweeps
        /\ sweep[i] \in [at : {"next", "busy"}, left : SUBSET Apps, then : Asks]
    <3>1. sweep[i].at # "none" BY <1>8 DEF SweepNext
    <3>2. sweep[i] # NoSweep BY <1>0, <3>1, SweepsAre
    <3> QED BY <1>0, <3>2, SweepsAre DEF Sweeps
  <2>1. RegistryTyped' BY <1>0, <1>8 DEF SweepNext, RegistryTyped, Registered
  <2>2. CASE sweep[i].left = {}
    <3>1. QueuesTyped'
      <4>1. /\ requests' = Append(requests, sweep[i].then) /\ Len(requests) < MaxQueue
            /\ UNCHANGED <<sim, handlers>>
        BY <1>8, <2>2 DEF SweepNext
      <4>2. sweep[i].then \in Asks BY <2>0
      <4>3. requests' \in Seq(Asks) /\ Len(requests') = Len(requests) + 1
        BY <1>0, <4>1, <4>2 DEF QueuesTyped
      <4> QED BY <1>0, <4>1, <4>3 DEF QueuesTyped, RegistryAssumption
    <3>2. sweep' \in [Sweeps -> SweepSet] /\ UNCHANGED task
      BY <1>0, <1>8, <2>2 DEF SweepNext, SweepSet
    <3>3. RestTyped' BY <1>0, <1>8, <2>2 DEF SweepNext, RestTyped
    <3> QED BY <1>0, <2>1, <3>1, <3>2, <3>3
  <2>3. CASE sweep[i].left # {}
    <3>1. PICK a \in sweep[i].left :
            \/ /\ Registered(a) /\ UpdateApp(a, registry[a].gen, i) /\ crossed' = crossed
               /\ sweep' = [sweep EXCEPT ![i].at = "busy", ![i].left = @ \ {a}]
            \/ /\ sweep' = [sweep EXCEPT ![i] = NoSweep] /\ task' = task
               /\ crossed' = crossed \cup {sweep[i].then.rec[1]}
      BY <1>8, <2>3 DEF SweepNext
    <3>2. a \in Apps BY <2>0, <3>1
    <3>3. QueuesTyped' /\ installed' = installed /\ needsAll' = needsAll
      BY <1>0, <1>8, <2>3 DEF SweepNext, QueuesTyped
    <3>4. CASE /\ Registered(a) /\ UpdateApp(a, registry[a].gen, i) /\ crossed' = crossed
               /\ sweep' = [sweep EXCEPT ![i].at = "busy", ![i].left = @ \ {a}]
      <4>1. task' \in [Tasks -> Steps \cup {Idle}]
        BY <1>0, <2>0, <3>2, <3>4, UpdateDoes, RecordsAre
      <4>2. [[sweep[i] EXCEPT !.at = "busy"] EXCEPT !.left = @ \ {a}] \in SweepSet
        BY <2>0 DEF SweepSet
      <4>3. sweep' \in [Sweeps -> SweepSet] BY <1>0, <3>4, <4>2
      <4>4. RestTyped' BY <1>0, <3>3, <3>4 DEF RestTyped
      <4> QED BY <2>1, <3>3, <4>1, <4>3, <4>4
    <3>5. CASE /\ sweep' = [sweep EXCEPT ![i] = NoSweep] /\ task' = task
               /\ crossed' = crossed \cup {sweep[i].then.rec[1]}
      <4>1. sweep[i].then.rec[1] \in Apps BY <2>0 DEF Asks, Records
      <4>2. RestTyped' BY <1>0, <3>3, <3>5, <4>1 DEF RestTyped
      <4>3. sweep' \in [Sweeps -> SweepSet] BY <1>0, <3>5 DEF SweepSet
      <4> QED BY <1>0, <2>1, <3>3, <3>5, <4>2, <4>3
    <3> QED BY <3>1, <3>4, <3>5
  <2> QED BY <2>2, <2>3
<1>9. ASSUME Early PROVE Split
  BY <1>0, <1>9 DEF Early, QueuesTyped, RegistryTyped, RestTyped, Registered
<1>10. ASSUME Ready PROVE Split
  <2>1. RegistryTyped' /\ UNCHANGED task BY <1>0, <1>10 DEF Ready, RegistryTyped, Registered
  <2>2. ActiveApps \subseteq Apps BY DEF ActiveApps
  <2>3. \A n \in DOMAIN handlers : handlers[n] \in Asks /\ handlers[n].rec[1] \in Apps
    BY <1>0, AsksAre DEF QueuesTyped
  <2>4. handlers' = <<>> /\ sim' = "ready" /\ needsAll' = FALSE /\ installed' = installed
    BY <1>10 DEF Ready
  <2>5. handlers' \in Seq(Asks) /\ Len(handlers') = 0 BY <2>4
  <2>6. CASE needsAll
    <3>1. /\ sweep' = [i \in Sweeps |-> IF i \in DOMAIN handlers THEN UpdateAll(handlers[i])
                                                                 ELSE sweep[i]]
          /\ crossed' = crossed \cup {handlers[n].rec[1] : n \in DOMAIN handlers}
                                \cup (IF handlers = <<>> THEN {} ELSE ActiveApps)
          /\ requests' = requests
      BY <1>10, <2>6 DEF Ready
    <3>2. \A n \in DOMAIN handlers : UpdateAll(handlers[n]) \in SweepSet
      BY <2>2, <2>3 DEF UpdateAll, SweepSet
    <3>3. sweep' \in [Sweeps -> SweepSet] BY <1>0, <3>1, <3>2
    <3>4. crossed' \subseteq Apps BY <1>0, <2>2, <2>3, <3>1 DEF RestTyped
    <3>5. QueuesTyped' BY <1>0, <2>4, <2>5, <3>1 DEF QueuesTyped, RegistryAssumption
    <3> QED BY <1>0, <2>1, <2>4, <3>3, <3>4, <3>5 DEF RestTyped
  <2>7. CASE ~needsAll
    <3>1. /\ Len(requests) + Len(handlers) <= MaxQueue
          /\ requests' = requests \o handlers /\ UNCHANGED <<sweep, crossed>>
      BY <1>10, <2>7 DEF Ready
    <3>2. requests' \in Seq(Asks) /\ Len(requests') <= MaxQueue
      BY <1>0, <3>1, ConcatFields DEF QueuesTyped
    <3>3. QueuesTyped' BY <1>0, <2>4, <2>5, <3>2 DEF QueuesTyped, RegistryAssumption
    <3> QED BY <1>0, <2>1, <2>4, <3>1, <3>3 DEF RestTyped
  <2> QED BY <2>6, <2>7
<1>11. ASSUME Serve PROVE Split
  <2>1. RegistryTyped' /\ UNCHANGED task BY <1>0, <1>11 DEF Serve, RegistryTyped, Registered
  <2>2. requests # <<>> /\ requests' = Tail(requests) /\ UNCHANGED <<sim, handlers>>
    BY <1>11 DEF Serve
  <2>3. /\ requests' \in Seq(Asks) /\ Len(requests') = Len(requests) - 1
        /\ Head(requests) \in Asks
    BY <1>0, <2>2, TailFields DEF QueuesTyped
  <2>4. QueuesTyped' BY <1>0, <2>2, <2>3 DEF QueuesTyped, RegistryAssumption
  <2>5. RestTyped' BY <1>0, <1>11, <2>3 DEF Serve, RestTyped, Asks
  <2>6. sweep' \in [Sweeps -> SweepSet]
    <3>1. SweepGoesOn(Head(requests).sweep) BY <1>11 DEF Serve
    <3>2. Head(requests).sweep \in 0..MaxSweeps BY <2>3 DEF Asks
    <3> QED BY <1>0, <2>2, <3>1, <3>2, HeadHolds, SweepGoesOnDoes
  <2> QED BY <1>0, <2>1, <2>4, <2>5, <2>6
<1>12. ASSUME SimEnds PROVE Split
  <2>1. RegistryTyped' /\ UNCHANGED <<task, sweep, handlers>> /\ requests' = <<>> /\ sim' = "off"
    BY <1>0, <1>12 DEF SimEnds, RegistryTyped, Registered
  <2>2. requests' \in Seq(Asks) /\ Len(requests') = 0 BY <2>1
  <2>3. QueuesTyped' BY <1>0, <2>1, <2>2 DEF QueuesTyped, RegistryAssumption
  <2>4. \A n \in DOMAIN requests : requests[n].rec[1] \in Apps
    BY <1>0, AsksAre DEF QueuesTyped
  <2>5. RestTyped' BY <1>0, <1>12, <2>4 DEF SimEnds, RestTyped
  <2> QED BY <1>0, <2>1, <2>3, <2>5
<1> HIDE DEF Split
<1> QED BY <1>a, <1>1, <1>2, <1>3, <1>4, <1>5, <1>6, <1>7, <1>8, <1>9, <1>10, <1>11, <1>12
       DEF Next

-----------------------------------------------------------------------------
(* What holds in each phase of the simulator.                              *)
QueuesPhased ==
  /\ sim \in {"off", "starting"} => requests = <<>>
  /\ sim = "ready" => handlers = <<>>
SweepsPhased == needsAll => \A i \in Sweeps : sweep[i] = NoSweep

LEMMA PhasesParts == Phases <=> QueuesPhased /\ SweepsPhased
BY DEF Phases, QueuesPhased, SweepsPhased

(* Before the first "ready" of an upgraded add-on no updateAll has begun.  *)
LEMMA NoneGoes ==
  ASSUME RegistryAssumption, TypeOK, Tokens, Phases, needsAll
  PROVE  /\ \A i \in Sweeps : sweep[i].at = "none"
         /\ \A t \in Tasks : task[t] # Idle => task[t].sweep = None
         /\ requests # <<>> => Head(requests).sweep = None
<1>1. \A i \in Sweeps : sweep[i].at = "none" BY SweepsAre DEF Phases
<1> QED BY <1>1, TaskHolds, HeadHolds

LEMMA PhasesNext == ASSUME IInv, Next PROVE Phases'
<1>0. RegistryAssumption /\ TypeOK /\ Tokens /\ Phases /\ QueuesPhased /\ SweepsPhased
  BY PhasesParts DEF IInv
<1>a. ASSUME QueuesPhased', SweepsPhased' PROVE Phases'
  BY <1>a DEF Phases, QueuesPhased, SweepsPhased
<1>1. ASSUME NEW a \in Apps, Add(a) \/ Update(a) \/ UndoRemoveApp(a) PROVE Phases'
  BY <1>0, <1>1 DEF Add, Update, UndoRemoveApp, Phases
<1>2. ASSUME NEW a \in Apps, RemoveApp(a) PROVE Phases'
  <2>1. Ask("uninstall", Rec(a), None) \in Asks
    BY <1>0, <1>2, RecordsAre DEF RemoveApp, Ask, Asks
  <2>2. Run(Ask("uninstall", Rec(a), None)) /\ UNCHANGED <<needsAll, sweep>>
    BY <1>2 DEF RemoveApp
  <2>3. QueuesPhased' BY <1>0, <2>1, <2>2, RunDoes DEF QueuesPhased
  <2> QED BY <1>0, <1>a, <2>2, <2>3 DEF SweepsPhased
<1>3. CASE Flush BY <1>0, <1>3 DEF Flush, Phases
<1>4. ASSUME NEW t \in Tasks, Fetched(t) PROVE Phases'
  <2>0. task[t] # Idle BY <1>4, AtWork DEF Fetched
  <2>1. QueuesPhased' BY <1>0, <1>4 DEF Fetched, QueuesPhased
  <2>2. needsAll => UNCHANGED sweep
    BY <1>0, <1>4, <2>0, NoneGoes DEF Fetched, SweepGoesOn
  <2>3. SweepsPhased' BY <1>0, <1>4, <2>2 DEF SweepsPhased, Fetched
  <2> QED BY <1>a, <2>1, <2>3
<1>5. ASSUME NEW t \in Tasks, Written(t) PROVE Phases'
  <2>0. task[t] # Idle BY <1>5, AtWork DEF Written
  <2>1. QueuesPhased'
    <3>1. CASE Run(Ask("install", <<task[t].app, task[t].gen>>, task[t].sweep))
      <4>1. Ask("install", <<task[t].app, task[t].gen>>, task[t].sweep) \in Asks
        BY <1>0, <2>0, Working DEF Ask, Asks, Records
      <4> QED BY <1>0, <3>1, <4>1, RunDoes DEF QueuesPhased
    <3>2. CASE UNCHANGED <<sim, handlers, requests>> BY <1>0, <3>2 DEF QueuesPhased
    <3> QED BY <1>5, <3>1, <3>2 DEF Written
  <2>2. needsAll => UNCHANGED sweep
    BY <1>0, <1>5, <2>0, NoneGoes DEF Written, SweepGoesOn
  <2>3. SweepsPhased' BY <1>0, <1>5, <2>2 DEF SweepsPhased, Written
  <2> QED BY <1>a, <2>1, <2>3
<1>6. ASSUME NEW i \in Sweeps, SweepNext(i) PROVE Phases'
  <2>1. ~needsAll /\ needsAll' = needsAll BY <1>0, <1>6, NoneGoes DEF SweepNext
  <2>2. QueuesPhased' BY <1>0, <1>6 DEF SweepNext, QueuesPhased
  <2> QED BY <1>a, <2>1, <2>2 DEF SweepsPhased
<1>7. CASE Early BY <1>0, <1>7 DEF Early, Phases
<1>8. CASE Ready BY <1>0, <1>8 DEF Ready, Phases
<1>9. CASE Serve
  <2>1. requests # <<>> /\ sim = "ready" /\ UNCHANGED <<sim, handlers, needsAll>>
    BY <1>9 DEF Serve
  <2>2. QueuesPhased' BY <1>0, <2>1 DEF QueuesPhased
  <2>3. needsAll => UNCHANGED sweep BY <1>0, <1>9, <2>1, NoneGoes DEF Serve, SweepGoesOn
  <2>4. SweepsPhased' BY <1>0, <2>1, <2>3 DEF SweepsPhased
  <2> QED BY <1>a, <2>2, <2>4
<1>10. CASE SimEnds BY <1>0, <1>10 DEF SimEnds, Phases
<1> QED BY <1>1, <1>2, <1>3, <1>4, <1>5, <1>6, <1>7, <1>8, <1>9, <1>10 DEF Next

-----------------------------------------------------------------------------
(* The apps of an updateAll stay crossed until it has done with them.      *)
LEMMA SettledSwept ==
  ASSUME Swept, NEW a \in Apps, crossed' \in {crossed \ {a}, crossed \cup {a}, crossed},
         sweep' = sweep, crossed' = crossed \ {a} => Settled(a) \/ a \notin crossed
  PROVE  Swept'
BY DEF Swept, Settled

LEMMA SweptMore ==
  ASSUME Swept, sweep' = sweep, crossed \subseteq crossed'
  PROVE  Swept'
BY DEF Swept

LEMMA SweptGoesOn ==
  ASSUME RegistryAssumption, TypeOK, Swept, NEW i \in 0..MaxSweeps,
         i # None => sweep[i].at = "busy", SweepGoesOn(i), crossed \subseteq crossed'
  PROVE  Swept'
<1> SUFFICES ASSUME NEW j \in Sweeps, sweep'[j] # NoSweep
             PROVE  /\ sweep'[j].left \subseteq crossed'
                    /\ sweep'[j].then.rec[1] \in crossed'
                    /\ sweep'[j].then.sweep = None
  BY DEF Swept
<1>1. CASE j # i BY <1>1, SweepGoesOnDoes DEF Swept
<1>2. CASE j = i
  <2>1. i # None BY <1>2 DEF Sweeps, None
  <2> QED BY <1>2, <2>1, SweepGoesOnDoes DEF Swept
<1> QED BY <1>1, <1>2

LEMMA SweptNext == ASSUME IInv, Next PROVE Swept'
<1>0. RegistryAssumption /\ TypeOK /\ Tokens /\ Phases /\ Swept BY DEF IInv
<1>1. ASSUME NEW a \in Apps, Add(a) PROVE Swept'
  BY <1>0, <1>1, SettledSwept DEF Add
<1>2. ASSUME NEW a \in Apps, Update(a) \/ UndoRemoveApp(a) PROVE Swept'
  BY <1>0, <1>2, SettledSwept DEF Update, UndoRemoveApp, Fresh
<1>3. ASSUME NEW a \in Apps, RemoveApp(a) PROVE Swept'
  BY <1>0, <1>3, SettledSwept DEF RemoveApp, Fresh
<1>4. CASE Flush \/ Early \/ SimEnds
  BY <1>0, <1>4, SweptMore DEF Flush, Early, SimEnds
<1>5. ASSUME NEW t \in Tasks, Fetched(t) PROVE Swept'
  <2>0. task[t] # Idle BY <1>5, AtWork DEF Fetched
  <2>1. crossed \subseteq crossed' BY <1>5 DEF Fetched
  <2>2. CASE UNCHANGED sweep BY <1>0, <2>1, <2>2, SweptMore
  <2>3. CASE SweepGoesOn(IF Registered(task[t].app) THEN task[t].sweep ELSE None)
    <3>1. CASE Registered(task[t].app) /\ task[t].sweep # None
      <4>1. SweepGoesOn(task[t].sweep) BY <2>3, <3>1
      <4> QED BY <1>0, <2>0, <2>1, <4>1, Working, TaskHolds, SweptGoesOn
    <3>2. CASE ~Registered(task[t].app) \/ task[t].sweep = None
      <4>1. UNCHANGED sweep BY <2>3, <3>2 DEF SweepGoesOn
      <4> QED BY <1>0, <2>1, <4>1, SweptMore
    <3> QED BY <3>1, <3>2
  <2> QED BY <1>5, <2>2, <2>3 DEF Fetched
<1>6. ASSUME NEW t \in Tasks, Written(t) PROVE Swept'
  <2>0. task[t] # Idle BY <1>6, AtWork DEF Written
  <2>1. crossed \subseteq crossed' BY <1>6 DEF Written
  <2>2. CASE UNCHANGED sweep BY <1>0, <2>1, <2>2, SweptMore
  <2>3. CASE SweepGoesOn(task[t].sweep)
    BY <1>0, <2>0, <2>1, <2>3, Working, TaskHolds, SweptGoesOn
  <2> QED BY <1>6, <2>2, <2>3 DEF Written
<1>7. ASSUME NEW i \in Sweeps, SweepNext(i) PROVE Swept'
  <2>0. sweep[i] # NoSweep /\ sweep \in [Sweeps -> SweepSet]
        /\ sweep[i] \in [at : {"next", "busy"}, left : SUBSET Apps, then : Asks]
    <3>1. sweep[i].at # "none" BY <1>7 DEF SweepNext
    <3>2. sweep[i] # NoSweep BY <1>0, <3>1, SweepsAre
    <3> QED BY <1>0, <3>2, SweepsAre
  <2>1. CASE sweep' = [sweep EXCEPT ![i] = NoSweep] /\ crossed \subseteq crossed'
    BY <1>0, <2>0, <2>1 DEF Swept
  <2>2. CASE \E a \in sweep[i].left :
               /\ crossed' = crossed
               /\ sweep' = [sweep EXCEPT ![i].at = "busy", ![i].left = @ \ {a}]
    <3>1. PICK a \in sweep[i].left :
               /\ crossed' = crossed
               /\ sweep' = [sweep EXCEPT ![i].at = "busy", ![i].left = @ \ {a}]
      BY <2>2
    <3>2. /\ sweep'[i].left = sweep[i].left \ {a} /\ sweep'[i].then = sweep[i].then
          /\ \A j \in Sweeps : j # i => sweep'[j] = sweep[j]
      BY <2>0, <3>1
    <3> QED BY <1>0, <2>0, <3>1, <3>2 DEF Swept
  <2>3. CASE sweep[i].left = {} BY <1>7, <2>1, <2>3 DEF SweepNext
  <2>4. CASE sweep[i].left # {} BY <1>7, <2>1, <2>2, <2>4 DEF SweepNext
  <2> QED BY <2>3, <2>4
<1>8. CASE Ready
  <2>1. CASE needsAll
    <3>1. /\ sweep' = [i \in Sweeps |-> IF i \in DOMAIN handlers THEN UpdateAll(handlers[i])
                                                                 ELSE sweep[i]]
          /\ crossed' = crossed \cup {handlers[n].rec[1] : n \in DOMAIN handlers}
                                \cup (IF handlers = <<>> THEN {} ELSE ActiveApps)
      BY <1>8, <2>1 DEF Ready
    <3>2. handlers \in Seq(Asks) BY <1>0 DEF TypeOK
    <3> SUFFICES ASSUME NEW i \in Sweeps, sweep'[i] # NoSweep
                 PROVE  /\ sweep'[i].left \subseteq crossed'
                        /\ sweep'[i].then.rec[1] \in crossed'
                        /\ sweep'[i].then.sweep = None
      BY DEF Swept
    <3>3. CASE i \notin DOMAIN handlers BY <1>0, <2>1, <3>1, <3>3 DEF Phases
    <3>4. CASE i \in DOMAIN handlers
      <4>1. sweep'[i] = UpdateAll(handlers[i]) /\ handlers # <<>> BY <3>1, <3>2, <3>4
      <4>2. sweep'[i].left = ActiveApps /\ sweep'[i].then = handlers[i]
        BY <4>1 DEF UpdateAll
      <4>3. ActiveApps \subseteq crossed' /\ handlers[i].rec[1] \in crossed'
        BY <3>1, <3>4, <4>1
      <4>4. handlers[i].sweep = None
        <5>1. handlers[i].sweep \in 0..MaxSweeps BY <3>2, <3>4, AsksAre DEF Asks
        <5>2. ASSUME handlers[i].sweep # None PROVE FALSE
          <6>1. handlers[i].sweep \in Sweeps BY <1>0, <5>1, <5>2, SweepsAre
          <6>2. With(handlers, handlers[i].sweep) # {} BY <3>4 DEF With
          <6>3. sweep[handlers[i].sweep].at = "busy" BY <1>0, <6>1, <6>2 DEF Tokens, Token
          <6> QED BY <1>0, <2>1, <6>1, <6>3, NoneGoes
        <5> QED BY <5>2
      <4> QED BY <4>2, <4>3, <4>4
    <3> QED BY <3>3, <3>4
  <2>2. CASE ~needsAll BY <1>0, <1>8, <2>2, SweptMore DEF Ready
  <2> QED BY <2>1, <2>2
<1>9. CASE Serve
  <2>1. requests # <<>> /\ SweepGoesOn(Head(requests).sweep) /\ UNCHANGED crossed
    BY <1>9 DEF Serve
  <2>2. Head(requests).sweep \in 0..MaxSweeps
    BY <1>0, <2>1, TailFields DEF TypeOK, Asks
  <2> QED BY <1>0, <2>1, <2>2, HeadHolds, SweptGoesOn
<1> QED BY <1>1, <1>2, <1>3, <1>4, <1>5, <1>6, <1>7, <1>8, <1>9 DEF Next

-----------------------------------------------------------------------------
(* The callback of an updateAll is in one place.                           *)
LEMMA TokenLess ==
  ASSUME NEW i \in Sweeps, Token(i), InTask(i)' \subseteq InTask(i),
         With(handlers', i) \subseteq With(handlers, i),
         With(requests', i) \subseteq With(requests, i),
         sweep'[i].at # "busy" =>
           \/ sweep[i].at # "busy"
           \/ InTask(i)' = {} /\ With(handlers', i) = {} /\ With(requests', i) = {}
  PROVE  Token(i)'
<1>1. /\ sweep'[i].at # "busy" =>
           InTask(i)' = {} /\ With(handlers', i) = {} /\ With(requests', i) = {}
      /\ InTask(i)' # {} => With(handlers', i) = {} /\ With(requests', i) = {}
      /\ With(handlers', i) # {} => With(requests', i) = {}
  BY DEF Token
<1>2. Single(InTask(i)') /\ Single(With(handlers', i)) /\ Single(With(requests', i))
  BY DEF Token, Single
<1> QED BY <1>1, <1>2 DEF Token, Single, With

LEMMA TasksStart ==
  ASSUME TypeOK, NEW a \in Apps, NEW g \in 1..MaxGen, NEW i \in 0..MaxSweeps, UpdateApp(a, g, i)
  PROVE  /\ \A j \in Sweeps : j # i => InTask(j)' = InTask(j)
         /\ InTask(i) = {} => Single(InTask(i)')
<1>1. PICK t \in Tasks :
           /\ task[t] = Idle
           /\ task'[t] # Idle /\ task'[t].sweep = i
           /\ \A u \in Tasks : u # t => task'[u] = task[u]
  BY UpdateDoes
<1>2. ASSUME NEW j \in Sweeps, j # i PROVE InTask(j)' = InTask(j)
  BY <1>1, <1>2 DEF InTask
<1>3. ASSUME InTask(i) = {} PROVE Single(InTask(i)')
  BY <1>1, <1>3 DEF InTask, Single
<1> QED BY <1>2, <1>3

LEMMA TasksEnd ==
  ASSUME TypeOK, NEW t \in Tasks, task' = [task EXCEPT ![t] = Idle], NEW i
  PROVE  InTask(i)' = InTask(i) \ {t}
BY DEF TypeOK, InTask

LEMMA TokenRun ==
  ASSUME RegistryAssumption, TypeOK, NEW i \in Sweeps, Token(i), NEW ask \in Asks, Run(ask),
         sweep'[i] = sweep[i], InTask(i)' \subseteq InTask(i),
         ask.sweep = i => /\ sweep[i].at = "busy" /\ InTask(i)' = {}
                          /\ With(handlers, i) = {} /\ With(requests, i) = {}
  PROVE  Token(i)'
<1>0. handlers \in Seq(Asks) /\ requests \in Seq(Asks) BY DEF TypeOK
<1>h. handlers' = handlers \/ handlers' = Append(handlers, ask) BY RunDoes
<1>r. requests' = requests \/ requests' = Append(requests, ask) BY RunDoes
<1>1. CASE ask.sweep # i
  <2>1. With(handlers', i) = With(handlers, i)
    <3>1. With(Append(handlers, ask), i) = With(handlers, i) BY <1>0, <1>1, AppendWith
    <3> QED BY ONLY <1>h, <3>1
  <2>2. With(requests', i) = With(requests, i)
    <3>1. With(Append(requests, ask), i) = With(requests, i) BY <1>0, <1>1, AppendWith
    <3> QED BY ONLY <1>r, <3>1
  <2> QED BY <2>1, <2>2, TokenLess
<1>2. CASE ask.sweep = i
  <2>0. With(handlers, i) = {} /\ With(requests, i) = {} BY <1>2
  <2>1. With(handlers', i) \in {{}, {Len(handlers) + 1}}
    <3>1. With(Append(handlers, ask), i) = With(handlers, i) \cup {Len(handlers) + 1}
      BY <1>0, <1>2, AppendWith
    <3> QED BY ONLY <1>h, <2>0, <3>1
  <2>2. With(requests', i) \in {{}, {Len(requests) + 1}}
    <3>1. With(Append(requests, ask), i) = With(requests, i) \cup {Len(requests) + 1}
      BY <1>0, <1>2, AppendWith
    <3> QED BY ONLY <1>r, <2>0, <3>1
  <2>3. With(handlers', i) = {} \/ With(requests', i) = {} BY <1>2, RunDoes
  <2>4. /\ sweep'[i].at = "busy" /\ InTask(i)' = {} /\ Single(InTask(i)')
        /\ Single(With(handlers', i)) /\ Single(With(requests', i))
    BY <1>2, <2>1, <2>2 DEF Single
  <2> QED BY <2>3, <2>4 DEF Token, With, Single
<1> QED BY <1>1, <1>2

(* A callback that is called moves its updateAll on, and is gone.          *)
LEMMA TokenGoesOn ==
  ASSUME RegistryAssumption, TypeOK, NEW i \in Sweeps, NEW j \in 0..MaxSweeps, Token(i),
         j # None => sweep[j].at = "busy", SweepGoesOn(j),
         InTask(i)' \subseteq InTask(i),
         With(handlers', i) \subseteq With(handlers, i),
         With(requests', i) \subseteq With(requests, i),
         i = j => InTask(i)' = {} /\ With(handlers', i) = {} /\ With(requests', i) = {}
  PROVE  Token(i)'
<1>1. CASE i = j
  <2>1. sweep'[i].at = "next" BY <1>1, SweepGoesOnDoes DEF Sweeps, None
  <2> QED BY <1>1, <2>1, TokenLess
<1>2. CASE i # j BY <1>2, SweepGoesOnDoes, TokenLess
<1> QED BY <1>1, <1>2

LEMMA TokensNext == ASSUME IInv, Next PROVE Tokens'
<1>0. RegistryAssumption /\ TypeOK /\ Tokens /\ Phases /\ Swept
      /\ handlers \in Seq(Asks) /\ requests \in Seq(Asks) /\ None \in 0..MaxSweeps
  BY DEF IInv, TypeOK, RegistryAssumption, None
<1> SUFFICES ASSUME NEW i \in Sweeps PROVE Token(i)'
  BY DEF Tokens
<1>i. Token(i) /\ i \in 0..MaxSweeps /\ i # None BY <1>0 DEF Tokens, Sweeps, None
<1>1. ASSUME NEW a \in Apps, Add(a) PROVE Token(i)'
  <2>1. UpdateApp(a, registry[a].gen + 1, None) /\ registry[a].gen + 1 \in 1..MaxGen
        /\ UNCHANGED <<handlers, requests, sweep>>
    BY <1>0, <1>1, RecordsAre DEF Add
  <2>2. InTask(i)' = InTask(i) BY <1>0, <1>i, <2>1, TasksStart
  <2> QED BY <1>i, <2>1, <2>2, TokenLess
<1>2. ASSUME NEW a \in Apps, Update(a) \/ UndoRemoveApp(a) PROVE Token(i)'
  <2>1. UpdateApp(a, registry[a].gen, None) /\ registry[a].gen \in 1..MaxGen
        /\ UNCHANGED <<handlers, requests, sweep>>
    BY <1>0, <1>2, RecordsAre DEF Update, UndoRemoveApp, Reinstall
  <2>2. InTask(i)' = InTask(i) BY <1>0, <1>i, <2>1, TasksStart
  <2> QED BY <1>i, <2>1, <2>2, TokenLess
<1>3. ASSUME NEW a \in Apps, RemoveApp(a) PROVE Token(i)'
  <2>1. Ask("uninstall", Rec(a), None) \in Asks /\ Ask("uninstall", Rec(a), None).sweep = None
    BY <1>0, <1>3, RecordsAre DEF RemoveApp, Ask, Asks
  <2>2. /\ Run(Ask("uninstall", Rec(a), None))
        /\ UNCHANGED <<task, sweep>> /\ InTask(i)' = InTask(i)
    BY <1>3 DEF RemoveApp, InTask
  <2> QED BY <1>0, <1>i, <2>1, <2>2, TokenRun
<1>4. CASE Flush \/ Early
  <2>1. InTask(i)' = InTask(i) /\ UNCHANGED <<handlers, requests, sweep>>
    BY <1>4 DEF Flush, Early, InTask
  <2> QED BY <1>i, <2>1, TokenLess
<1>5. ASSUME NEW t \in Tasks, Fetched(t) PROVE Token(i)'
  <2>0. task[t] # Idle /\ task[t].app \in Apps /\ task[t].sweep \in 0..MaxSweeps
    BY <1>0, <1>5, AtWork, Working DEF Fetched
  <2>1. UNCHANGED <<handlers, requests>> BY <1>5 DEF Fetched
  <2>2. CASE /\ task' = [task EXCEPT ![t] =
                            Writing(task[t].app, registry[task[t].app].gen, @.sweep)]
             /\ UNCHANGED sweep
    <3>1. task'[t] = Writing(task[t].app, registry[task[t].app].gen, task[t].sweep)
          /\ \A u \in Tasks : u # t => task'[u] = task[u]
      BY <1>0, <2>2 DEF TypeOK
    <3>2. task'[t].sweep = task[t].sweep BY <3>1 DEF Writing
    <3>3. InTask(i)' \subseteq InTask(i) BY <2>0, <3>1, <3>2 DEF InTask
    <3> QED BY <1>i, <2>1, <2>2, <3>3, TokenLess
  <2>3. CASE /\ task' = [task EXCEPT ![t] = Idle]
             /\ SweepGoesOn(IF Registered(task[t].app) THEN task[t].sweep ELSE None)
    <3>1. InTask(i)' = InTask(i) \ {t} BY <1>0, <2>3, TasksEnd
    <3>2. CASE Registered(task[t].app)
      <4>1. SweepGoesOn(task[t].sweep) BY <2>3, <3>2
      <4>2. task[t].sweep # None => sweep[task[t].sweep].at = "busy" BY <1>0, <2>0, TaskHolds
      <4>3. i = task[t].sweep =>
              InTask(i)' = {} /\ With(handlers', i) = {} /\ With(requests', i) = {}
        <5>1. i = task[t].sweep => t \in InTask(i) BY <2>0 DEF InTask
        <5> QED BY <1>i, <2>1, <3>1, <5>1 DEF Token, Single
      <4> QED BY <1>0, <1>i, <2>0, <2>1, <3>1, <4>1, <4>2, <4>3, TokenGoesOn
    <3>3. CASE ~Registered(task[t].app)
      <4>1. UNCHANGED sweep BY <2>3, <3>3 DEF SweepGoesOn
      <4> QED BY <1>i, <2>1, <3>1, <4>1, TokenLess
    <3> QED BY <3>2, <3>3
  <2> QED BY <1>5, <2>2, <2>3 DEF Fetched
<1>6. ASSUME NEW t \in Tasks, Written(t) PROVE Token(i)'
  <2>0. task[t] # Idle /\ task[t].app \in Apps /\ task[t].sweep \in 0..MaxSweeps
    BY <1>0, <1>6, AtWork, Working DEF Written
  <2>1. InTask(i)' = InTask(i) \ {t} BY <1>0, <1>6, TasksEnd DEF Written
  <2>2. i = task[t].sweep => /\ InTask(i)' = {} /\ sweep[i].at = "busy"
                             /\ With(handlers, i) = {} /\ With(requests, i) = {}
    <3>1. i = task[t].sweep => t \in InTask(i) BY <2>0 DEF InTask
    <3> QED BY <1>i, <2>1, <3>1 DEF Token, Single
  <2>3. CASE /\ Run(Ask("install", <<task[t].app, task[t].gen>>, task[t].sweep))
             /\ sweep' = sweep
    <3>1. /\ Ask("install", <<task[t].app, task[t].gen>>, task[t].sweep) \in Asks
          /\ Ask("install", <<task[t].app, task[t].gen>>, task[t].sweep).sweep = task[t].sweep
      BY <1>0, <2>0, Working DEF Ask, Asks, Records
    <3> QED BY <1>0, <1>i, <2>1, <2>2, <2>3, <3>1, TokenRun
  <2>4. CASE SweepGoesOn(task[t].sweep) /\ UNCHANGED <<sim, handlers, requests>>
    <3>1. task[t].sweep # None => sweep[task[t].sweep].at = "busy" BY <1>0, <2>0, TaskHolds
    <3> QED BY <1>0, <1>i, <2>0, <2>1, <2>2, <2>4, <3>1, TokenGoesOn
  <2> QED BY <1>6, <2>3, <2>4 DEF Written
<1>7. ASSUME NEW j \in Sweeps, SweepNext(j) PROVE Token(i)'
  <2>0. /\ sweep[j] # NoSweep /\ j \in 0..MaxSweeps /\ sweep \in [Sweeps -> SweepSet]
        /\ sweep[j] \in [at : {"next", "busy"}, left : SUBSET Apps, then : Asks]
    <3>1. sweep[j].at # "none" BY <1>7 DEF SweepNext
    <3>2. sweep[j] # NoSweep BY <1>0, <3>1, SweepsAre
    <3> QED BY <1>0, <3>2, SweepsAre DEF Sweeps
  <2>1. InTask(j) = {} /\ With(handlers, j) = {} /\ With(requests, j) = {}
    <3>1. sweep[j].at # "busy" BY <1>7 DEF SweepNext
    <3> QED BY <1>0, <3>1 DEF Tokens, Token
  <2>2. UNCHANGED handlers BY <1>7 DEF SweepNext
  <2>3. ASSUME sweep' = [sweep EXCEPT ![j] = NoSweep], UNCHANGED task,
               With(requests', i) = With(requests, i)
        PROVE  Token(i)'
    <3>1. InTask(i)' = InTask(i) BY <2>3 DEF InTask
    <3>2. i # j => sweep'[i] = sweep[i] BY <2>0, <2>3
    <3> QED BY <1>i, <2>1, <2>2, <2>3, <3>1, <3>2, TokenLess
  <2>4. CASE sweep[j].left = {}
    <3>1. /\ requests' = Append(requests, sweep[j].then) /\ UNCHANGED task
          /\ sweep' = [sweep EXCEPT ![j] = NoSweep]
      BY <1>7, <2>4 DEF SweepNext
    <3>2. sweep[j].then \in Asks /\ sweep[j].then.sweep = None BY <1>0, <2>0 DEF Swept
    <3>3. With(requests', i) = With(requests, i)
      <4>1. sweep[j].then.sweep # i BY <1>i, <3>2
      <4>2. With(Append(requests, sweep[j].then), i) = With(requests, i)
        BY <1>0, <3>2, <4>1, AppendWith
      <4> QED BY <3>1, <4>2
    <3> QED BY <2>3, <3>1, <3>3
  <2>5. CASE sweep[j].left # {}
    <3>1. PICK a \in sweep[j].left :
            \/ /\ Registered(a) /\ UpdateApp(a, registry[a].gen, j)
               /\ sweep' = [sweep EXCEPT ![j].at = "busy", ![j].left = @ \ {a}]
            \/ sweep' = [sweep EXCEPT ![j] = NoSweep] /\ task' = task
      BY <1>7, <2>5 DEF SweepNext
    <3>2. a \in Apps /\ UNCHANGED requests BY <1>7, <2>0, <2>5, <3>1 DEF SweepNext
    <3>3. CASE sweep' = [sweep EXCEPT ![j] = NoSweep] /\ task' = task
      BY <2>3, <3>2, <3>3
    <3>4. CASE /\ Registered(a) /\ UpdateApp(a, registry[a].gen, j)
               /\ sweep' = [sweep EXCEPT ![j].at = "busy", ![j].left = @ \ {a}]
      <4>1. \A k \in Sweeps : k # j => InTask(k)' = InTask(k) BY <1>0, <2>0, <3>2, <3>4, TasksStart, RecordsAre
      <4>2. Single(InTask(j)') BY <1>0, <2>0, <2>1, <3>2, <3>4, TasksStart, RecordsAre
      <4>3. sweep'[j].at = "busy" /\ (i # j => sweep'[i] = sweep[i]) BY <2>0, <3>4
      <4>4. CASE i # j BY <1>i, <2>2, <3>2, <4>1, <4>3, <4>4, TokenLess
      <4>5. CASE i = j
        <5>1. With(handlers', i) = {} /\ With(requests', i) = {} BY <2>1, <2>2, <3>2, <4>5
        <5> QED BY <4>2, <4>3, <4>5, <5>1 DEF Token, With, Single
      <4> QED BY <4>4, <4>5
    <3> QED BY <3>1, <3>3, <3>4
  <2> QED BY <2>4, <2>5
<1>8. CASE Ready
  <2>1. handlers' = <<>> /\ UNCHANGED task /\ InTask(i)' = InTask(i)
    BY <1>8 DEF Ready, InTask
  <2>2. With(handlers', i) = {} BY <2>1, EmptyQueue
  <2>3. CASE needsAll
    <3>1. sweep[i].at # "busy" /\ UNCHANGED requests BY <1>0, <1>8, <2>3, NoneGoes DEF Ready
    <3> QED BY <1>i, <2>1, <2>2, <3>1, TokenLess
  <2>4. CASE ~needsAll
    <3>1. requests' = requests \o handlers /\ UNCHANGED sweep BY <1>8, <2>4 DEF Ready
    <3>2. \A n \in With(requests', i) : n \in With(requests, i) \/ n - Len(requests) \in With(handlers, i)
      BY <1>0, <3>1, ConcatWith
    <3>3. CASE With(handlers, i) = {}
      <4>1. With(requests', i) \subseteq With(requests, i) BY <3>2, <3>3
      <4> QED BY <1>i, <2>1, <2>2, <3>1, <4>1, TokenLess
    <3>4. CASE With(handlers, i) # {}
      <4>1. With(requests, i) = {} /\ InTask(i) = {} /\ sweep[i].at = "busy"
        BY <1>i, <3>4 DEF Token
      <4>2. Single(With(requests', i))
        <5> SUFFICES ASSUME NEW m \in With(requests', i), NEW n \in With(requests', i)
                     PROVE  m = n
          BY DEF Single
        <5>1. m - Len(requests) = n - Len(requests) BY <1>i, <3>2, <4>1 DEF Token, Single
        <5>2. m \in Int /\ n \in Int BY <1>0, <3>1, ConcatFields DEF With
        <5>3. Len(requests) \in Nat BY <1>0
        <5> QED BY <5>1, <5>2, <5>3
      <4>3. InTask(i)' = {} /\ sweep'[i].at = "busy" BY <2>1, <3>1, <4>1
      <4> QED BY <2>2, <4>2, <4>3 DEF Token, Single, With
    <3> QED BY <3>3, <3>4
  <2> QED BY <2>3, <2>4
<1>9. CASE Serve
  <2>1. /\ requests # <<>> /\ requests' = Tail(requests)
        /\ SweepGoesOn(Head(requests).sweep) /\ UNCHANGED <<handlers, task>>
        /\ InTask(i)' = InTask(i)
    BY <1>9 DEF Serve, InTask
  <2>2. \A n \in With(requests', i) : n + 1 \in With(requests, i) BY <1>0, <2>1, TailWith
  <2>3. With(requests, i) # {} => InTask(i) = {} /\ With(handlers, i) = {} BY <1>i DEF Token
  <2>4. CASE Head(requests).sweep = i
    <3>1. i # None => sweep[i].at = "busy" /\ 1 \in With(requests, i)
      BY <1>0, <2>1, <2>4, HeadHolds
    <3>2. ASSUME NEW n \in With(requests', i) PROVE FALSE
      <4>1. n + 1 = 1 BY <1>i, <2>2, <3>1 DEF Token, Single
      <4>2. n \in Nat /\ n >= 1 BY <1>0, <2>1, TailFields DEF With
      <4> QED BY <4>1, <4>2
    <3>3. InTask(i)' = {} /\ With(handlers', i) = {} /\ With(requests', i) = {}
      BY <1>i, <2>1, <2>3, <3>1, <3>2
    <3> QED BY <1>0, <1>i, <2>1, <2>4, <3>1, <3>3, TokenGoesOn
  <2>5. CASE Head(requests).sweep # i
    <3>1. sweep'[i] = sweep[i]
      <4>1. Head(requests).sweep \in 0..MaxSweeps BY <1>0, <2>1, TailFields DEF Asks
      <4> QED BY <1>0, <2>1, <2>5, <4>1, HeadHolds, SweepGoesOnDoes
    <3>2. CASE With(requests, i) = {}
      <4>1. With(requests', i) = {} BY <2>2, <3>2
      <4> QED BY <1>i, <2>1, <3>1, <4>1, TokenLess
    <3>3. CASE With(requests, i) # {}
      <4>1. InTask(i)' = {} /\ With(handlers', i) = {} /\ sweep'[i].at = "busy"
        BY <1>i, <2>1, <3>1, <3>3 DEF Token
      <4>2. Single(With(requests', i))
        <5> SUFFICES ASSUME NEW m \in With(requests', i), NEW n \in With(requests', i)
                     PROVE  m = n
          BY DEF Single
        <5>1. m + 1 = n + 1 BY <1>i, <2>2 DEF Token, Single
        <5>2. m \in Nat /\ n \in Nat BY <1>0, <2>1, TailFields DEF With
        <5> QED BY <5>1, <5>2
      <4> QED BY <4>1, <4>2 DEF Token, Single, With
    <3> QED BY <3>2, <3>3
  <2> QED BY <2>4, <2>5
<1>10. CASE SimEnds
  <2>1. requests' = <<>> /\ UNCHANGED <<handlers, sweep>> /\ InTask(i)' = InTask(i)
    BY <1>10 DEF SimEnds, InTask
  <2>2. With(requests', i) = {} BY <2>1, EmptyQueue
  <2> QED BY <1>i, <2>1, <2>2, TokenLess
<1> QED BY <1>1, <1>2, <1>3, <1>4, <1>5, <1>6, <1>7, <1>8, <1>9, <1>10 DEF Next

-----------------------------------------------------------------------------
(* What waits for an app says what the registry says.                      *)
BusyRight(a) ==
  /\ Busy(a) # {} => ~registry[a].removed
  /\ \A t \in Busy(a) : task[t].at = "write" => task[t].gen = registry[a].gen
QueuesRight(a) ==
  /\ AllOf(handlers, Rec(a)) /\ AllOf(requests, Rec(a))
  /\ Of(handlers, a) # {} => Of(requests, a) = {}
EndsRight(a) ==
  /\ Ends(handlers, a, ~registry[a].removed)
  /\ Ends(requests, a, ~registry[a].removed)
  /\ Of(handlers, a) = {} /\ Of(requests, a) = {} =>
       (Rec(a) \in installed <=> ~registry[a].removed)

LEMMA RightParts ==
  ASSUME NEW a
  PROVE  Right(a) <=> BusyRight(a) /\ QueuesRight(a) /\ (Busy(a) = {} => EndsRight(a))
BY DEF Right, BusyRight, QueuesRight, EndsRight

LEMMA RightPartsNext ==
  ASSUME NEW a, BusyRight(a)', QueuesRight(a)', (Busy(a) = {})' => EndsRight(a)'
  PROVE  Right(a)'
BY DEF Right, BusyRight, QueuesRight, EndsRight

LEMMA SameBusy ==
  ASSUME NEW a, BusyRight(a), registry'[a] = registry[a], Busy(a)' \subseteq Busy(a),
         \A t \in Busy(a)' : task'[t] = task[t]
  PROVE  BusyRight(a)'
BY DEF BusyRight

LEMMA SameQueues ==
  ASSUME NEW a, QueuesRight(a), registry'[a] = registry[a], UNCHANGED <<handlers, requests>>
  PROVE  QueuesRight(a)'
BY DEF QueuesRight, Rec, Of, AllOf

LEMMA SameEnds ==
  ASSUME NEW a, EndsRight(a), registry'[a] = registry[a], UNCHANGED <<handlers, requests>>,
         Rec(a) \in installed' <=> Rec(a) \in installed
  PROVE  EndsRight(a)'
BY DEF EndsRight, Rec, Of, Ends, Last

(* A step that does not touch the app.                                     *)
LEMMA RightSame ==
  ASSUME NEW a, Right(a), registry'[a] = registry[a], Busy(a)' = Busy(a),
         \A t \in Busy(a) : task'[t] = task[t], UNCHANGED <<handlers, requests>>,
         Rec(a) \in installed' <=> Rec(a) \in installed
  PROVE  Right(a)'
<1>1. BusyRight(a) /\ QueuesRight(a) /\ (Busy(a) = {} => EndsRight(a)) BY RightParts
<1> QED BY <1>1, SameBusy, SameQueues, SameEnds, RightPartsNext

(* A request for another app.                                              *)
LEMMA RightOther ==
  ASSUME NEW a \in Apps, Right(a), NEW ask \in Asks, ask.rec[1] # a, TypeOK,
         handlers' = handlers \/ handlers' = Append(handlers, ask),
         requests' = requests \/ requests' = Append(requests, ask),
         registry'[a] = registry[a], Busy(a)' = Busy(a),
         \A t \in Busy(a) : task'[t] = task[t], installed' = installed
  PROVE  Right(a)'
<1>1. BusyRight(a) /\ QueuesRight(a) /\ (Busy(a) = {} => EndsRight(a)) BY RightParts
<1>2. handlers \in Seq(Asks) /\ requests \in Seq(Asks) /\ Rec(a)[1] = a BY DEF TypeOK, Rec
<1>3. Of(handlers', a) = Of(handlers, a) /\ Of(requests', a) = Of(requests, a)
  <2>1. Of(Append(handlers, ask), a) = Of(handlers, a) BY <1>2, AppendOther
  <2>2. Of(Append(requests, ask), a) = Of(requests, a) BY <1>2, AppendOther
  <2> QED BY <2>1, <2>2
<1>4. AllOf(handlers', Rec(a)) /\ AllOf(requests', Rec(a))
  <2>1. AllOf(handlers, Rec(a)) /\ AllOf(requests, Rec(a)) BY <1>1 DEF QueuesRight
  <2>2. AllOf(Append(handlers, ask), Rec(a)) BY <1>2, <2>1, AppendAll
  <2>3. AllOf(Append(requests, ask), Rec(a)) BY <1>2, <2>1, AppendAll
  <2> QED BY <2>1, <2>2, <2>3
<1>5. \A w : /\ Ends(handlers, a, w) => Ends(handlers', a, w)
             /\ Ends(requests, a, w) => Ends(requests', a, w)
  <2>1. \A w : Ends(handlers, a, w) => Ends(Append(handlers, ask), a, w) BY <1>2, AppendOther
  <2>2. \A w : Ends(requests, a, w) => Ends(Append(requests, ask), a, w) BY <1>2, AppendOther
  <2> QED BY <2>1, <2>2
<1>6. BusyRight(a)' BY <1>1, SameBusy
<1>7. QueuesRight(a)' BY <1>1, <1>3, <1>4 DEF QueuesRight, Rec, Of, AllOf
<1>8. EndsRight(a) => EndsRight(a)'
  <2> SUFFICES ASSUME EndsRight(a) PROVE EndsRight(a)'
    OBVIOUS
  <2>1. Ends(handlers', a, ~registry'[a].removed) /\ Ends(requests', a, ~registry'[a].removed)
    BY <1>5 DEF EndsRight
  <2>2. Of(handlers', a) = {} /\ Of(requests', a) = {} =>
          (Rec(a) \in installed <=> ~registry[a].removed)
    BY <1>3 DEF EndsRight
  <2>3. Rec(a)' = Rec(a) BY DEF Rec
  <2> QED BY <2>1, <2>2, <2>3 DEF EndsRight, Ends, Last, Of
<1> QED BY <1>1, <1>6, <1>7, <1>8, RightPartsNext

LEMMA UpdateBusy ==
  ASSUME TypeOK, NEW b \in Apps, NEW g \in 1..MaxGen, NEW i \in 0..MaxSweeps, UpdateApp(b, g, i)
  PROVE  /\ \A a \in Apps : a # b => /\ Busy(a)' = Busy(a)
                                     /\ \A t \in Busy(a) : task'[t] = task[t]
         /\ Busy(b)' # {}
         /\ \A t \in Busy(b)' : (t \in Busy(b) /\ task'[t] = task[t]) \/ task'[t].gen = g
<1>1. PICK t \in Tasks :
           /\ task[t] = Idle
           /\ task'[t] # Idle /\ task'[t].app = b /\ task'[t].gen = g
           /\ \A u \in Tasks : u # t => task'[u] = task[u]
  BY UpdateDoes
<1>2. ASSUME NEW a \in Apps, a # b
      PROVE  Busy(a)' = Busy(a) /\ \A u \in Busy(a) : task'[u] = task[u]
  BY <1>1, <1>2 DEF Busy
<1>3. t \in Busy(b)' BY <1>1 DEF Busy
<1>4. \A u \in Busy(b)' : (u \in Busy(b) /\ task'[u] = task[u]) \/ task'[u].gen = g
  BY <1>1 DEF Busy
<1> QED BY <1>2, <1>3, <1>4

LEMMA EndBusy ==
  ASSUME TypeOK, NEW t \in Tasks, task' = [task EXCEPT ![t] = Idle], NEW a
  PROVE  /\ Busy(a)' = Busy(a) \ {t}
         /\ \A u \in Busy(a)' : task'[u] = task[u]
BY DEF TypeOK, Busy

(* An update of an app that is right, or has nothing under way.            *)
LEMMA RightStarts ==
  ASSUME TypeOK, NEW a \in Apps, NEW g \in 1..MaxGen, NEW i \in 0..MaxSweeps,
         UpdateApp(a, g, i), registry'[a].gen = g, ~registry'[a].removed,
         UNCHANGED <<handlers, requests>>,
         \/ Right(a) /\ registry[a].gen = g
         \/ Busy(a) = {} /\ Of(handlers, a) = {} /\ Of(requests, a) = {}
  PROVE  Right(a)'
<1>1. Busy(a)' # {} BY UpdateBusy
<1>2. BusyRight(a)'
  <2>1. \A t \in Busy(a) : Right(a) /\ task[t].at = "write" => task[t].gen = registry[a].gen
    BY DEF Right
  <2>2. ASSUME NEW t \in Busy(a)', task'[t].at = "write" PROVE task'[t].gen = g
    BY <2>1, <2>2, UpdateBusy
  <2> QED BY <2>2 DEF BusyRight
<1>3. QueuesRight(a)'
  <2>1. CASE Right(a) /\ registry[a].gen = g
    <3>1. Rec(a)' = Rec(a) BY <2>1 DEF Rec
    <3>2. QueuesRight(a) BY <2>1, RightParts
    <3> QED BY <3>1, <3>2 DEF QueuesRight, Of, AllOf
  <2>2. CASE Of(handlers, a) = {} /\ Of(requests, a) = {}
    <3>1. Of(handlers, a)' = {} /\ Of(requests, a)' = {} BY <2>2 DEF Of
    <3>2. Rec(a)'[1] = a BY DEF Rec
    <3> QED BY <3>1, <3>2 DEF QueuesRight, AllOf
  <2> QED BY <2>1, <2>2
<1> QED BY <1>1, <1>2, <1>3, RightPartsNext

(* A run that asks for what the registry says now.                         *)
LEMMA RightRuns ==
  ASSUME RegistryAssumption, TypeOK, Phases, NEW a \in Apps, NEW ask \in Asks, Run(ask),
         ask.rec = Rec(a), QueuesRight(a), ~Throws, ~Overtakes(a),
         registry'[a].gen = registry[a].gen, BusyRight(a)',
         ask.do = "install" <=> ~registry'[a].removed
  PROVE  Right(a)'
<1> DEFINE w == ~registry'[a].removed
<1>1. handlers \in Seq(Asks) /\ requests \in Seq(Asks) /\ Rec(a)[1] = a /\ ask.rec[1] = a
  BY DEF TypeOK, Rec
<1>2. Rec(a)' = Rec(a) BY DEF Rec
<1>3. AllOf(handlers, Rec(a)) /\ AllOf(requests, Rec(a)) BY DEF QueuesRight
<1>4. CASE handlers' = Append(handlers, ask) /\ requests' = requests /\ sim \in {"off", "starting"}
  <2>1. Of(requests', a) = {} BY <1>4, EmptyQueue DEF Phases
  <2>2. AllOf(handlers', Rec(a)) BY <1>1, <1>3, <1>4, AppendAll
  <2>3. Ends(handlers', a, w) /\ Of(handlers', a) # {} BY <1>1, <1>4, AppendSame
  <2>4. Ends(requests', a, w) BY <1>1, <2>1, NoneOf
  <2>5. QueuesRight(a)' BY <1>2, <1>3, <1>4, <2>1, <2>2 DEF QueuesRight, Of, AllOf
  <2>6. EndsRight(a)' BY <2>3, <2>4 DEF EndsRight, Ends, Last, Of
  <2> QED BY <2>5, <2>6, RightPartsNext
<1>5. CASE handlers' = handlers /\ requests' = Append(requests, ask) /\ sim \in {"early", "ready"}
  <2>1. Of(handlers', a) = {} BY <1>5, EmptyQueue DEF Phases, Overtakes
  <2>2. AllOf(requests', Rec(a)) BY <1>1, <1>3, <1>5, AppendAll
  <2>3. Ends(requests', a, w) /\ Of(requests', a) # {} BY <1>1, <1>5, AppendSame
  <2>4. Ends(handlers', a, w) BY <1>1, <2>1, NoneOf
  <2>5. QueuesRight(a)' BY <1>2, <1>3, <1>5, <2>1, <2>2 DEF QueuesRight, Of, AllOf
  <2>6. EndsRight(a)' BY <2>3, <2>4 DEF EndsRight, Ends, Last, Of
  <2> QED BY <2>5, <2>6, RightPartsNext
<1>6. /\ handlers' # handlers => handlers' = Append(handlers, ask) /\ sim \in {"off", "starting"}
      /\ requests' # requests => requests' = Append(requests, ask) /\ sim \in {"early", "ready"}
      /\ requests' # requests \/ handlers' # handlers
      /\ requests' = requests \/ handlers' = handlers
  BY RunDoes
<1> QED BY <1>4, <1>5, <1>6

(* What Settled says of an app.                                            *)
LEMMA NothingUnderWay ==
  ASSUME NEW a, Settled(a)
  PROVE  Busy(a) = {} /\ Of(handlers, a) = {} /\ Of(requests, a) = {}
BY DEF Settled

LEMMA RightNext == ASSUME IInv, Next PROVE AllRight'
<1>0. RegistryAssumption /\ TypeOK /\ Phases /\ Swept /\ AllRight
      /\ handlers \in Seq(Asks) /\ requests \in Seq(Asks) /\ None \in 0..MaxSweeps
  BY DEF IInv, TypeOK, RegistryAssumption, None
<1> SUFFICES ASSUME NEW a \in Apps, Registered(a)', a \notin crossed'
             PROVE  Right(a)'
  BY DEF AllRight
<1>r. ASSUME Registered(a), a \notin crossed PROVE Right(a)
  BY <1>0, <1>r DEF AllRight
<1>1. ASSUME NEW b \in Apps, Add(b) PROVE Right(a)'
  <2>1. /\ UpdateApp(b, registry[b].gen + 1, None) /\ registry[b].gen + 1 \in 1..MaxGen
        /\ UNCHANGED <<handlers, requests, installed>>
        /\ crossed' = IF Settled(b) THEN crossed \ {b} ELSE crossed \cup {b}
        /\ registry' = [registry EXCEPT ![b] = [here |-> TRUE, gen |-> @.gen + 1, removed |-> FALSE]]
    BY <1>0, <1>1, RecordsAre DEF Add
  <2>2. /\ registry'[b].gen = registry[b].gen + 1 /\ ~registry'[b].removed
        /\ a # b => registry'[a] = registry[a]
    BY <1>0, <2>1 DEF TypeOK
  <2>3. CASE a = b
    <3>1. Settled(a) BY <2>1, <2>3
    <3>2. Busy(a) = {} /\ Of(handlers, a) = {} /\ Of(requests, a) = {} BY <3>1, NothingUnderWay
    <3> QED BY <1>0, <2>1, <2>2, <2>3, <3>2, RightStarts
  <2>4. CASE a # b
    <3>1. Right(a) BY <1>r, <2>1, <2>2, <2>4 DEF Registered
    <3>2. Busy(a)' = Busy(a) /\ \A t \in Busy(a) : task'[t] = task[t]
      BY <1>0, <2>1, <2>4, UpdateBusy
    <3> QED BY <2>1, <2>2, <2>4, <3>1, <3>2, RightSame
  <2> QED BY <2>3, <2>4
<1>2. ASSUME NEW b \in Apps, Update(b) \/ UndoRemoveApp(b) PROVE Right(a)'
  <2>1. /\ Registered(b) /\ UpdateApp(b, registry[b].gen, None) /\ registry[b].gen \in 1..MaxGen
        /\ UNCHANGED <<handlers, requests, installed>> /\ crossed' = Fresh(b)
    BY <1>0, <1>2, RecordsAre DEF Update, UndoRemoveApp, Reinstall
  <2>2. /\ registry'[b].gen = registry[b].gen /\ ~registry'[b].removed
        /\ registry'[b].here = registry[b].here
        /\ a # b => registry'[a] = registry[a]
    <3>1. CASE Update(b) BY <3>1 DEF Update
    <3>2. CASE UndoRemoveApp(b) BY <1>0, <3>2 DEF UndoRemoveApp, TypeOK
    <3> QED BY <1>2, <3>1, <3>2
  <2>3. CASE a = b
    <3>1. CASE Settled(a)
      <4>1. Busy(a) = {} /\ Of(handlers, a) = {} /\ Of(requests, a) = {} BY <3>1, NothingUnderWay
      <4> QED BY <1>0, <2>1, <2>2, <2>3, <4>1, RightStarts
    <3>2. CASE ~Settled(a)
      <4>1. Right(a) BY <1>r, <2>1, <2>3, <3>2 DEF Fresh
      <4> QED BY <1>0, <2>1, <2>2, <2>3, <4>1, RightStarts
    <3> QED BY <3>1, <3>2
  <2>4. CASE a # b
    <3>1. Right(a) BY <1>r, <2>1, <2>2, <2>4 DEF Registered, Fresh
    <3>2. Busy(a)' = Busy(a) /\ \A t \in Busy(a) : task'[t] = task[t]
      BY <1>0, <2>1, <2>4, UpdateBusy
    <3> QED BY <2>1, <2>2, <2>4, <3>1, <3>2, RightSame
  <2> QED BY <2>3, <2>4
<1>3. ASSUME NEW b \in Apps, RemoveApp(b) PROVE Right(a)'
  <2>1. PICK ask : ask = Ask("uninstall", Rec(b), None) OBVIOUS
  <2>2. ask \in Asks /\ ask.rec = Rec(b) /\ ask.do = "uninstall" /\ ask.rec[1] = b
    BY <1>0, <1>3, <2>1, RecordsAre DEF RemoveApp, Ask, Asks
  <2>3. /\ Registered(b) /\ Run(ask) /\ UNCHANGED <<installed, task, sweep>>
        /\ registry' = [registry EXCEPT ![b].removed = TRUE]
    BY <1>3, <2>1 DEF RemoveApp
  <2>4. /\ registry'[b].gen = registry[b].gen /\ registry'[b].removed = TRUE
        /\ a # b => registry'[a] = registry[a]
    BY <1>0, <2>3 DEF TypeOK
  <2>5. Busy(a)' = Busy(a) /\ \A t \in Busy(a) : task'[t] = task[t] BY <2>3 DEF Busy
  <2>6. crossed' = IF Busy(b) # {} \/ Overtakes(b) \/ Throws THEN crossed \cup {b} ELSE Fresh(b)
    BY <1>3 DEF RemoveApp
  <2>7. CASE a = b
    <3>1. Busy(a) = {} /\ ~Overtakes(a) /\ ~Throws /\ a \notin Fresh(a) BY <2>6, <2>7
    <3>2. QueuesRight(a)
      <4>1. CASE Settled(a)
        <5>1. Of(handlers, a) = {} /\ Of(requests, a) = {} /\ Rec(a)[1] = a
          BY <4>1, NothingUnderWay DEF Rec
        <5> QED BY <5>1 DEF QueuesRight, AllOf
      <4>2. CASE ~Settled(a)
        <5>1. Right(a) BY <1>r, <2>3, <2>7, <3>1, <4>2 DEF Fresh
        <5> QED BY <5>1, RightParts
      <4> QED BY <4>1, <4>2
    <3>3. BusyRight(a)' BY <2>5, <3>1 DEF BusyRight
    <3>4. ask.do = "install" <=> ~registry'[a].removed BY <2>2, <2>4, <2>7
    <3> QED BY <1>0, <2>2, <2>3, <2>4, <2>7, <3>1, <3>2, <3>3, <3>4, RightRuns
  <2>8. CASE a # b
    <3>1. Right(a) BY <1>r, <2>4, <2>6, <2>8 DEF Registered, Fresh
    <3>2. /\ handlers' = handlers \/ handlers' = Append(handlers, ask)
          /\ requests' = requests \/ requests' = Append(requests, ask)
      BY <1>0, <2>2, <2>3, RunDoes
    <3> QED BY <1>0, <2>2, <2>3, <2>4, <2>5, <2>8, <3>1, <3>2, RightOther
  <2> QED BY <2>7, <2>8
<1>4. CASE Flush
  <2>1. registry'[a] = IF registry[a].removed
                       THEN [registry[a] EXCEPT !.here = FALSE, !.removed = FALSE]
                       ELSE registry[a]
    BY <1>4 DEF Flush
  <2>2. ~registry[a].removed /\ registry'[a] = registry[a] BY <1>0, <2>1 DEF TypeOK, Registered
  <2>3. Right(a) BY <1>4, <1>r, <2>2 DEF Flush, Registered
  <2>4. /\ Busy(a)' = Busy(a) /\ UNCHANGED <<handlers, requests, installed>>
        /\ \A t \in Busy(a) : task'[t] = task[t]
    BY <1>4 DEF Flush, Busy
  <2> QED BY <2>2, <2>3, <2>4, RightSame
<1>5. ASSUME NEW t \in Tasks, Fetched(t) PROVE Right(a)'
  <2>0. task[t] # Idle /\ task[t].app \in Apps /\ t \in Busy(task[t].app)
    BY <1>0, <1>5, AtWork, Working DEF Fetched, Busy
  <2>1. UNCHANGED <<handlers, requests, installed, registry>> BY <1>5 DEF Fetched
  <2>2. CASE /\ Registered(task[t].app) /\ crossed' = crossed
             /\ task' = [task EXCEPT ![t] =
                            Writing(task[t].app, registry[task[t].app].gen, @.sweep)]
    <3>1. Right(a) BY <1>r, <2>1, <2>2 DEF Registered
    <3>2. /\ task'[t] = Writing(task[t].app, registry[task[t].app].gen, task[t].sweep)
          /\ \A u \in Tasks : u # t => task'[u] = task[u]
      BY <1>0, <2>2 DEF TypeOK
    <3>3. task'[t] # Idle /\ task'[t].app = task[t].app
          /\ task'[t].gen = registry[task[t].app].gen
      BY <3>2 DEF Writing, Idle
    <3>4. Busy(a)' = Busy(a) BY <2>0, <3>2, <3>3 DEF Busy
    <3>5. BusyRight(a)'
      <4>1. ~registry[a].removed \/ Busy(a) = {} BY <3>1 DEF Right
      <4>2. ASSUME NEW u \in Busy(a)', task'[u].at = "write"
            PROVE  task'[u].gen = registry[a].gen
        <5>1. CASE u = t BY <3>3, <3>4, <5>1 DEF Busy
        <5>2. CASE u # t
          <6>1. u \in Busy(a) /\ task'[u] = task[u] BY <3>2, <3>4, <5>2 DEF Busy
          <6> QED BY <3>1, <4>2, <6>1 DEF Right
        <5> QED BY <5>1, <5>2
      <4> QED BY <2>1, <3>4, <4>1, <4>2 DEF BusyRight
    <3>6. QueuesRight(a)' BY <2>1, <3>1, RightParts, SameQueues
    <3>7. (Busy(a) = {})' => EndsRight(a)'
      <4>1. Busy(a) = {} => EndsRight(a) BY <3>1, RightParts
      <4> QED BY <2>1, <3>4, <4>1, SameEnds
    <3> QED BY <3>5, <3>6, <3>7, RightPartsNext
  <2>3. CASE task' = [task EXCEPT ![t] = Idle] /\ crossed' = crossed \cup {task[t].app}
    <3>1. Right(a) /\ a # task[t].app BY <1>r, <2>1, <2>3 DEF Registered
    <3>2. Busy(a)' = Busy(a) /\ \A u \in Busy(a) : task'[u] = task[u]
      BY <1>0, <2>3, <3>1, EndBusy DEF Busy
    <3> QED BY <2>1, <3>1, <3>2, RightSame
  <2> QED BY <1>5, <2>2, <2>3 DEF Fetched
<1>6. ASSUME NEW t \in Tasks, Written(t) PROVE Right(a)'
  <2>0. task[t] # Idle /\ task[t].app \in Apps /\ t \in Busy(task[t].app)
    BY <1>0, <1>6, AtWork, Working DEF Written, Busy
  <2>1. UNCHANGED <<installed, registry>> /\ task[t].at = "write"
        /\ Busy(a)' = Busy(a) \ {t} /\ \A u \in Busy(a)' : task'[u] = task[u]
    BY <1>0, <1>6, EndBusy DEF Written
  <2>2. a # task[t].app => t \notin Busy(a) BY DEF Busy
  <2>3. Right(a) BY <1>6, <1>r, <2>1 DEF Registered, Written
  <2>4. CASE /\ Run(Ask("install", <<task[t].app, task[t].gen>>, task[t].sweep))
             /\ crossed' = IF Overtakes(task[t].app) \/ Throws THEN crossed \cup {task[t].app}
                                                               ELSE crossed
    <3>1. PICK ask : ask = Ask("install", <<task[t].app, task[t].gen>>, task[t].sweep) OBVIOUS
    <3>2. ask \in Asks /\ ask.rec = <<task[t].app, task[t].gen>> /\ ask.do = "install"
          /\ ask.rec[1] = task[t].app /\ Run(ask)
      BY <1>0, <2>0, <2>4, <3>1, Working DEF Ask, Asks, Records
    <3>3. CASE a = task[t].app
      <4>1. ~Overtakes(a) /\ ~Throws BY <2>4, <3>3
      <4>2. ask.rec = Rec(a) /\ ~registry[a].removed
        BY <2>0, <2>1, <2>3, <3>2, <3>3 DEF Right, Rec
      <4>3. BusyRight(a) /\ QueuesRight(a) BY <2>3, RightParts
      <4>4. BusyRight(a)' BY <2>1, <4>3, SameBusy
      <4> QED BY <1>0, <2>1, <3>2, <4>1, <4>2, <4>3, <4>4, RightRuns
    <3>4. CASE a # task[t].app
      <4>1. /\ handlers' = handlers \/ handlers' = Append(handlers, ask)
            /\ requests' = requests \/ requests' = Append(requests, ask)
        BY <1>0, <3>2, RunDoes
      <4> QED BY <1>0, <2>1, <2>2, <2>3, <3>2, <3>4, <4>1, RightOther
    <3> QED BY <3>3, <3>4
  <2>5. CASE crossed' = crossed \cup {task[t].app} /\ UNCHANGED <<sim, handlers, requests>>
    BY <2>1, <2>2, <2>3, <2>5, RightSame
  <2> QED BY <1>6, <2>4, <2>5 DEF Written
<1>7. ASSUME NEW i \in Sweeps, SweepNext(i) PROVE Right(a)'
  <2>0. /\ sweep[i] # NoSweep /\ i \in 0..MaxSweeps
        /\ sweep[i].left \subseteq crossed /\ sweep[i].then.rec[1] \in crossed
        /\ sweep[i].left \subseteq Apps /\ sweep[i].then \in Asks
    <3>1. sweep[i].at # "none" BY <1>7 DEF SweepNext
    <3>2. sweep[i] # NoSweep BY <1>0, <3>1, SweepsAre
    <3> QED BY <1>0, <3>2, SweepsAre DEF Sweeps, Swept
  <2>1. UNCHANGED <<handlers, installed, registry>> /\ crossed \subseteq crossed'
    BY <1>7 DEF SweepNext
  <2>2. Right(a) /\ a \notin crossed BY <1>r, <2>1 DEF Registered
  <2>3. CASE sweep[i].left = {}
    <3>1. requests' = Append(requests, sweep[i].then) /\ UNCHANGED task
      BY <1>7, <2>3 DEF SweepNext
    <3>2. sweep[i].then.rec[1] # a BY <2>0, <2>2
    <3>3. Busy(a)' = Busy(a) /\ \A t \in Busy(a) : task'[t] = task[t] BY <3>1 DEF Busy
    <3> QED BY <1>0, <2>0, <2>1, <2>2, <3>1, <3>2, <3>3, RightOther
  <2>4. CASE sweep[i].left # {}
    <3>1. UNCHANGED requests BY <1>7, <2>4 DEF SweepNext
    <3>2. PICK b \in sweep[i].left :
            (Registered(b) /\ UpdateApp(b, registry[b].gen, i)) \/ task' = task
      BY <1>7, <2>4 DEF SweepNext
    <3>3. b \in Apps /\ a # b BY <2>0, <2>2, <3>2
    <3>4. Busy(a)' = Busy(a) /\ \A t \in Busy(a) : task'[t] = task[t]
      <4>1. CASE task' = task BY <4>1 DEF Busy
      <4>2. CASE Registered(b) /\ UpdateApp(b, registry[b].gen, i)
        BY <1>0, <2>0, <3>3, <4>2, UpdateBusy, RecordsAre
      <4> QED BY <3>2, <4>1, <4>2
    <3> QED BY <2>1, <2>2, <3>1, <3>4, RightSame
  <2> QED BY <2>3, <2>4
<1>8. CASE Early
  <2>1. UNCHANGED <<handlers, requests, installed, registry, crossed>> /\ Busy(a)' = Busy(a)
        /\ \A t \in Busy(a) : task'[t] = task[t]
    BY <1>8 DEF Early, Busy
  <2>2. Right(a) BY <1>r, <2>1 DEF Registered
  <2> QED BY <2>1, <2>2, RightSame
<1>9. CASE Ready
  <2>1. handlers' = <<>> /\ UNCHANGED <<installed, registry, task>> /\ Busy(a)' = Busy(a)
        /\ \A t \in Busy(a) : task'[t] = task[t]
    BY <1>9 DEF Ready, Busy
  <2>2. crossed \subseteq crossed' BY <1>9 DEF Ready
  <2>3. Right(a) BY <1>r, <2>1, <2>2 DEF Registered
  <2>4. CASE needsAll
    <3>1. /\ UNCHANGED requests
          /\ (IF handlers = <<>> THEN {} ELSE ActiveApps) \subseteq crossed'
      BY <1>9, <2>4 DEF Ready
    <3>2. a \in ActiveApps BY <2>1 DEF ActiveApps, Registered
    <3>3. handlers = <<>> BY <3>1, <3>2
    <3> QED BY <2>1, <2>3, <3>1, <3>3, RightSame
  <2>5. CASE ~needsAll
    <3>1. requests' = requests \o handlers BY <1>9, <2>5 DEF Ready
    <3>2. BusyRight(a) /\ QueuesRight(a) /\ (Busy(a) = {} => EndsRight(a)) BY <2>3, RightParts
    <3>3. Of(handlers', a) = {} /\ AllOf(handlers', Rec(a)) /\ \A w : Ends(handlers', a, w)
      <4>1. Rec(a)[1] = a BY DEF Rec
      <4> QED BY <2>1, <4>1, EmptyQueue, NoneOf
    <3>4. AllOf(requests', Rec(a)) BY <1>0, <3>1, <3>2, ConcatAll DEF QueuesRight
    <3>5. QueuesRight(a)' BY <2>1, <3>3, <3>4 DEF QueuesRight, Rec, Of, AllOf
    <3>6. BusyRight(a)' BY <2>1, <3>2, SameBusy
    <3>7. ASSUME EndsRight(a) PROVE EndsRight(a)'
      <4>1. Ends(requests', a, ~registry[a].removed)
        BY <1>0, <3>1, <3>7, ConcatEnds DEF EndsRight
      <4>2. Of(requests', a) = {} => Of(handlers, a) = {} /\ Of(requests, a) = {}
        BY <1>0, <3>1, ConcatOf
      <4>3. Of(requests', a) = {} => (Rec(a) \in installed <=> ~registry[a].removed)
        BY <3>7, <4>2 DEF EndsRight
      <4> QED BY <2>1, <3>3, <4>1, <4>3 DEF EndsRight, Rec, Ends, Last, Of
    <3> QED BY <2>1, <3>2, <3>5, <3>6, <3>7, RightPartsNext
  <2> QED BY <2>4, <2>5
<1>10. CASE Serve
  <2>1. /\ requests # <<>> /\ requests' = Tail(requests)
        /\ installed' = IF Head(requests).do = "install"
                        THEN installed \cup {Head(requests).rec}
                        ELSE installed \ {Head(requests).rec}
        /\ UNCHANGED <<handlers, registry, task, crossed>>
        /\ Busy(a)' = Busy(a) /\ \A t \in Busy(a) : task'[t] = task[t]
    BY <1>10 DEF Serve, Busy
  <2>2. Right(a) BY <1>r, <2>1 DEF Registered
  <2>3. BusyRight(a) /\ QueuesRight(a) /\ (Busy(a) = {} => EndsRight(a)) BY <2>2, RightParts
  <2>4. Rec(a)[1] = a /\ Rec(a)' = Rec(a) BY <2>1 DEF Rec
  <2>5. AllOf(requests', Rec(a)) /\ (Head(requests).rec[1] = a => Head(requests).rec = Rec(a))
    <3>1. AllOf(requests, Rec(a)) BY <2>3 DEF QueuesRight
    <3> QED BY <1>0, <2>1, <2>4, <3>1, TailAll
  <2>6. Of(requests, a) = {} => Of(requests', a) = {} BY <1>0, <2>1, TailOf
  <2>7. QueuesRight(a)' BY <2>1, <2>3, <2>4, <2>5, <2>6 DEF QueuesRight, Of, AllOf
  <2>8. BusyRight(a)' BY <2>1, <2>3, SameBusy
  <2>9. ASSUME EndsRight(a) PROVE EndsRight(a)'
    <3>1. Ends(requests', a, ~registry[a].removed)
      BY <1>0, <2>1, <2>9, TailEnds DEF EndsRight
    <3>2. ASSUME Of(handlers, a) = {}, Of(requests', a) = {}
          PROVE  Rec(a) \in installed' <=> ~registry[a].removed
      <4>1. CASE Head(requests).rec[1] = a
        <5>1. Head(requests).do = "install" <=> ~registry[a].removed
          BY <1>0, <2>1, <2>9, <3>2, <4>1, TailEnds DEF EndsRight
        <5> QED BY <2>1, <2>5, <4>1, <5>1
      <4>2. CASE Head(requests).rec[1] # a
        <5>1. Of(requests, a) = {} BY <1>0, <2>1, <3>2, <4>2, TailOf
        <5>2. Rec(a) \in installed <=> ~registry[a].removed BY <2>9, <3>2, <5>1 DEF EndsRight
        <5>3. Rec(a) # Head(requests).rec BY <2>4, <4>2
        <5> QED BY <2>1, <5>2, <5>3
      <4> QED BY <4>1, <4>2
    <3>3. Ends(handlers, a, ~registry[a].removed) BY <2>9 DEF EndsRight
    <3> QED BY <2>1, <2>4, <3>1, <3>2, <3>3 DEF EndsRight, Ends, Last, Of
  <2> QED BY <2>1, <2>3, <2>7, <2>8, <2>9, RightPartsNext
<1>11. CASE SimEnds
  <2>1. /\ requests' = <<>> /\ UNCHANGED <<handlers, installed, registry, task>>
        /\ Busy(a)' = Busy(a) /\ \A t \in Busy(a) : task'[t] = task[t]
        /\ crossed' = crossed \cup {requests[n].rec[1] : n \in DOMAIN requests}
    BY <1>11 DEF SimEnds, Busy
  <2>2. Right(a) BY <1>r, <2>1 DEF Registered
  <2>3. BusyRight(a) /\ QueuesRight(a) /\ (Busy(a) = {} => EndsRight(a)) BY <2>2, RightParts
  <2>4. Of(requests, a) = {} BY <2>1 DEF Of
  <2>5. Rec(a)[1] = a /\ Rec(a)' = Rec(a) /\ Of(requests', a) = {} BY <2>1, EmptyQueue DEF Rec
  <2>6. AllOf(requests', Rec(a)) /\ \A w : Ends(requests', a, w) BY <2>5, NoneOf
  <2>7. BusyRight(a)' BY <2>1, <2>3, SameBusy
  <2>8. QueuesRight(a)' BY <2>1, <2>3, <2>5, <2>6 DEF QueuesRight, Of, AllOf
  <2>9. ASSUME EndsRight(a) PROVE EndsRight(a)'
    BY <2>1, <2>4, <2>5, <2>6, <2>9 DEF EndsRight, Ends, Last, Of
  <2> QED BY <2>1, <2>3, <2>7, <2>8, <2>9, RightPartsNext
<1> QED BY <1>1, <1>2, <1>3, <1>4, <1>5, <1>6, <1>7, <1>8, <1>9, <1>10, <1>11 DEF Next

(* Every step keeps the invariant.                                         *)
LEMMA StepHolds == ASSUME IInv, [Next]_vars PROVE IInv'
<1>1. CASE Next
  <2>1. RegistryAssumption BY DEF IInv
  <2> QED BY <1>1, <2>1, TypeNext, PhasesNext, TokensNext, SweptNext, RightNext
          DEF IInv, RegistryAssumption
<1>2. CASE UNCHANGED vars
  <2>1. TypeOK' BY <1>2 DEF vars, IInv, TypeOK, Registered
  <2>2. Phases' BY <1>2 DEF vars, IInv, Phases
  <2>3. Tokens' BY <1>2 DEF vars, IInv, Tokens, Token, InTask, With, Single
  <2>4. Swept' BY <1>2 DEF vars, IInv, Swept
  <2>5. AllRight'
    BY <1>2 DEF vars, IInv, AllRight, Right, Registered, Busy, Rec, Of, AllOf, Ends, Last
  <2> QED BY <2>1, <2>2, <2>3, <2>4, <2>5 DEF IInv, RegistryAssumption
<1> QED BY <1>1, <1>2

LEMMA Invariant == ASSUME RegistryAssumption PROVE Spec => []IInv
BY InitHolds, StepHolds, PTL DEF Spec

(* The registry, the queues, the updates and the sweeps keep their types,  *)
(* however many callbacks wait for "ready" (simulator.js:1193-1236).       *)
THEOREM RegistryTypes == ASSUME RegistryAssumption PROVE Spec => []TypeOK
<1>1. IInv => TypeOK BY DEF IInv
<1> QED BY <1>1, Invariant, PTL

(* Once nothing is under way for a registered app, and nothing it was asked *)
(* since it last was at rest failed, was lost or overtook another, the      *)
(* simulator has it installed exactly if it is not marked removed           *)
(* (simulator.js:518-598, 1193-1236).                                       *)
THEOREM InstalledExact == ASSUME RegistryAssumption PROVE Spec => []InstalledAgrees
<1>1. ASSUME IInv PROVE InstalledAgrees
  <2> SUFFICES ASSUME NEW a \in Apps, Registered(a), Settled(a), a \notin crossed
               PROVE  Rec(a) \in installed <=> ~registry[a].removed
    BY DEF InstalledAgrees
  <2>1. Right(a) BY <1>1 DEF IInv, AllRight
  <2> QED BY <2>1, NothingUnderWay DEF Right
<1> QED BY <1>1, Invariant, PTL

=============================================================================
