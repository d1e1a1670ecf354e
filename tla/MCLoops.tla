-------------------------------- MODULE MCLoops --------------------------------
(***************************************************************************)
(* The event loops in one run: fdevent.cpp, the loop of the Windows build, *)
(* and a socket pair of the Windows build.  They share no state, so a      *)
(* behaviour is one of one of them: `part` names it, the others stay as    *)
(* they begin.                                                             *)
(***************************************************************************)
EXTENDS FdEvent

CONSTANTS Sockets, Pairs, BIP_BUFFER_SIZE, MaxLen, MaxBytes

VARIABLES
    part,
    wactive, state, events, pending, wanted, wready, sock, can, signaled, gone, pc,
    a_start, a_end, b_end, buff, can_write, can_read, evt_write, evt_read, closed, closer,
    wpc, wlen, rpc, rlen, sent, got, split

winVars == <<wactive, state, events, pending, wanted, wready, sock, can, signaled, gone, pc>>
bipVars == <<a_start, a_end, b_end, buff, can_write, can_read, evt_write, evt_read, closed, closer,
             wpc, wlen, rpc, rlen, sent, got, split>>
Win == INSTANCE WinEvents WITH active <- wactive, ready <- wready
Bip == INSTANCE BipBuffer
ASSUME WindowsConstants == Win!WinAssumption /\ Bip!BipAssumption

LoopsInit == part \in {"fdevent", "windows", "pair"} /\ Init /\ Win!Init /\ Bip!Init
LoopsNext ==
    \/ part = "fdevent" /\ Next /\ UNCHANGED <<part, winVars, bipVars>>
    \/ part = "windows" /\ Win!Next /\ UNCHANGED <<part, vars, bipVars>>
    \/ part = "pair" /\ Bip!Next /\ UNCHANGED <<part, vars, winVars>>
(* The fairness of each module, in its part. *)
LoopsFairness ==
    /\ WF_vars(part = "fdevent" /\ Loop)
    /\ WF_winVars(part = "windows" /\ Win!Loop)
    /\ \A f \in Sockets \cup Pairs : SF_winVars(part = "windows" /\ Win!Wait(f))
    /\ WF_bipVars(part = "pair" /\ Bip!Writer) /\ WF_bipVars(part = "pair" /\ Bip!Reader)
    /\ WF_bipVars(part = "pair" /\ closed /\ Bip!CloseEnd)
LoopsSpec ==
    /\ LoopsInit /\ [][LoopsNext]_<<part, vars, winVars, bipVars>>
    /\ LoopsFairness

(* The type invariant, and the properties of the Windows build (WinEvents  *)
(* and BipBuffer state them in words): the hooks and the regions agree     *)
(* with what they stand for, bytes stay in order; an event is noticed      *)
(* (Noticed), a sleeper is woken (Woken, where the reader goes by the name *)
(* of a pair and the writer by that of a socket), and the end of a pair is *)
(* missed only by one that read after it.                                  *)
WindowsAgree == Win!HooksAgree /\ Win!PairsSignal /\ Bip!RegionsAgree /\ Bip!SameBytes
Due(f) ==
    CASE part = "windows" -> Win!Due(f)
      [] part = "pair" -> IF f \in Pairs THEN Bip!ReaderDue ELSE Bip!WriterDue
      [] OTHER -> FALSE
Done(f) ==
    CASE part = "windows" -> Win!Delivered(f)
      [] part = "pair" -> IF f \in Pairs THEN rpc # "wait" ELSE wpc # "wait"
      [] OTHER -> TRUE
Heard ==
    /\ []<>(part # "windows" \/ pc = "wait") => \A f \in Sockets \cup Pairs : Due(f) ~> Done(f)
    /\ Win!MissedByRead

=============================================================================
