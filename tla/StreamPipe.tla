------------------------------ MODULE StreamPipe ------------------------------
(***************************************************************************)
(* What the stream multiplexer promises the programs that use it, whatever *)
(* happens to messages, credits and transports below: a stream is a pair   *)
(* of pipes, each keeps order, loses nothing from its middle, and holds at *)
(* most Window units between writer and reader; a socket that was closed   *)
(* sends nothing more, though it may still hand over what it holds.        *)
(***************************************************************************)
EXTENDS Naturals, Sequences

CONSTANTS Sock,       \* <<end, id>> pairs
          Far(_),     \* the other end
          MaxUnits,   \* units a program writes
          Window      \* units one direction of a stream may hold

VARIABLES state,  \* state[s]: "idle", "opening", "open", "closed"
          mate,   \* mate[s]: the id of the socket s is connected to, or 0
          sent,   \* sent[s]: how many units were taken from the program at s
          rcvd    \* rcvd[s]: the units handed to the program at s

vars == <<state, mate, sent, rcvd>>

Mate(s) == <<Far(s[1]), mate[s]>>

Finish(s, fin, otherwise) ==
  state' = [state EXCEPT ![s] = IF fin THEN "closed" ELSE otherwise]

(* The program at s asks for a stream; it may be turned down at once (fin). *)
Open(s, fin) ==
  /\ state[s] = "idle"
  /\ Finish(s, fin, "opening")
  /\ UNCHANGED <<mate, sent, rcvd>>

(* s learns whom it is connected to, once.                                 *)
Connect(s, t) ==
  /\ state[s] \in {"idle", "opening"} /\ mate[s] = 0
  /\ t[1] = Far(s[1]) /\ state[t] # "idle"
  /\ mate' = [mate EXCEPT ![s] = t[2]]
  /\ Finish(s, FALSE, "open")
  /\ UNCHANGED <<sent, rcvd>>

Send(s, n, fin) ==
  /\ state[s] = "open"
  /\ sent[s] + n <= MaxUnits
  /\ sent[s] + n <= Len(rcvd[Mate(s)]) + Window
  /\ sent' = [sent EXCEPT ![s] = @ + n]
  /\ Finish(s, fin, "open")
  /\ UNCHANGED <<mate, rcvd>>

Deliver(s, n, fin) ==
  /\ mate[s] # 0
  /\ Len(rcvd[s]) + n <= sent[Mate(s)]
  /\ rcvd' = [rcvd EXCEPT ![s] = @ \o [k \in 1..n |-> Len(@) + k]]
  /\ Finish(s, fin, state[s])
  /\ UNCHANGED <<mate, sent>>

(* One end, or the loss of the transport, closes any number of sockets.    *)
Close(S) ==
  /\ \A s \in S : state[s] # "idle"
  /\ state' = [s \in Sock |-> IF s \in S THEN "closed" ELSE state[s]]
  /\ UNCHANGED <<mate, sent, rcvd>>

Init ==
  /\ state = [s \in Sock |-> "idle"]
  /\ mate = [s \in Sock |-> 0]
  /\ sent = [s \in Sock |-> 0]
  /\ rcvd = [s \in Sock |-> <<>>]

Next ==
  \/ \E s \in Sock, fin \in BOOLEAN : Open(s, fin)
  \/ \E s, t \in Sock : Connect(s, t)
  \/ \E s \in Sock, n \in 0..MaxUnits, fin \in BOOLEAN :
       Send(s, n, fin) \/ Deliver(s, n, fin)
  \/ \E S \in SUBSET Sock : Close(S)

Spec == Init /\ [][Next]_vars
=============================================================================
