------------------------------ MODULE UsbGadget ------------------------------
(***************************************************************************)
(* The USB backend of a device (usb_linux_client.c): one handle for the    *)
(* life of the process, and a thread that opens its files anew whenever a  *)
(* kick has closed them, and registers another transport for the same      *)
(* handle; the io threads of the one before may not have ended by then.    *)
(* The files are those of the kernel's own function (one file) or of       *)
(* FunctionFS (a control file and two of data); a file is the endpoint and *)
(* the number of the opening.                                              *)
(*                                                                         *)
(* An opening is one step: a thread of the transport before may see some   *)
(* of the new files before the others. Left out: what is transferred, the  *)
(* pauses between two attempts.                                            *)
(***************************************************************************)
EXTENDS Naturals

CONSTANT MaxOpens                    \* bound: openings that succeed or fail

T == 1..MaxOpens                     \* the transport of opening n is n
NoFile == MaxOpens + 1               \* -1
Ep == {"control", "bulk_out", "bulk_in"}

VARIABLES
  ffs,               \* /dev/usb-ffs/adb/ep0 is there
  opens,             \* openings so far
  field,             \* field[e]: the opening, NoFile, or 0 as calloc left it
  files,             \* open files
  opener,            \* usb_adb_open_thread, usb_ffs_open_thread: "test", "asleep", "open", "register"
  woken,             \* it was signalled
  gio,               \* gio[w][t]: "off", "run", "busy", "kick", "over"
  inhand,            \* inhand[w][t]: the opening whose file a transfer uses
  offline, kicked

gadgetVars == <<ffs, opens, field, files, opener, woken, gio, inhand, offline, kicked>>
handleVars == <<field, files, opener, woken>>

Ios == {"output", "input"}
IoTo(w, t, l) == gio' = [gio EXCEPT ![w][t] = l]
Eps == IF ffs THEN Ep ELSE {"control"}
ReadEp == IF ffs THEN "bulk_out" ELSE "control"
WriteEp == IF ffs THEN "bulk_in" ELSE "control"
EpOf(w) == IF w = "output" THEN ReadEp ELSE WriteEp

-----------------------------------------------------------------------------
(* The open thread waits while the handle has its file.                    *)
TestOpen ==
  /\ opener = "test" /\ opener' = IF field["control"] # NoFile THEN "asleep" ELSE "open"
  /\ UNCHANGED <<ffs, opens, field, files, woken, gio, inhand, offline, kicked>>

Wakes ==
  /\ opener = "asleep" /\ woken /\ opener' = "test" /\ woken' = FALSE
  /\ UNCHANGED <<ffs, opens, field, files, gio, inhand, offline, kicked>>

unix_open ==
  /\ ~ffs /\ field' = [field EXCEPT !["control"] = opens + 1]
  /\ files' = files \cup {<<"control", opens + 1>>}

(* init_functionfs: control, the descriptors and strings, bulk_out,        *)
(* bulk_in. An error closes what is open, and nothing that is 0 or -1.     *)
Opened == [e \in Ep |-> opens + 1]
init_functionfs ==
  /\ ffs /\ field' = Opened /\ files' = files \cup {<<e, opens + 1>> : e \in Ep}

CloseAll == [e \in Ep |-> IF field[e] = 0 THEN 0 ELSE NoFile]
init_functionfs_err ==
  /\ ffs /\ field' = CloseAll
  /\ files' = {f \in files : field[f[1]] # f[2]}

Opens ==
  /\ opener = "open" /\ opens < MaxOpens /\ opens' = opens + 1
  /\ \/ (unix_open \/ init_functionfs) /\ opener' = "register"
     \/ init_functionfs_err /\ UNCHANGED opener
     \/ ~ffs /\ UNCHANGED <<field, files, opener>>
  /\ UNCHANGED <<ffs, woken, gio, inhand, offline, kicked>>

(* register_usb_transport: the event loop starts two threads for it.       *)
Registers ==
  /\ opener = "register" /\ opener' = "test"
  /\ gio' = [w \in Ios |-> [gio[w] EXCEPT ![opens] = "run"]]
  /\ UNCHANGED <<ffs, opens, field, files, woken, inhand, offline, kicked>>

-----------------------------------------------------------------------------
(* usb_read and usb_write pass the number that is in the handle then.      *)
Begins(w, t) ==
  /\ gio[w][t] = "run" /\ IoTo(w, t, "busy")
  /\ inhand' = [inhand EXCEPT ![w][t] = field[EpOf(w)]]
  /\ UNCHANGED <<ffs, opens, handleVars, offline, kicked>>

Ended(w, t) == gio[w][t] = "busy" /\ inhand' = [inhand EXCEPT ![w][t] = NoFile]

(* bulk_read, usb_adb_read: when it fails, SYNC(0,0), kick.                *)
ReadEnds(t) ==
  /\ Ended("output", t)
  /\ \/ /\ <<ReadEp, inhand["output"][t]>> \in files /\ IoTo("output", t, "run") /\ UNCHANGED offline
     \/ IoTo("output", t, "kick") /\ offline' = offline \cup {t}
  /\ UNCHANGED <<ffs, opens, handleVars, kicked>>

(* bulk_write, usb_adb_write: nobody looks at its result.                  *)
WriteEnds(t) ==
  /\ Ended("input", t) /\ IoTo("input", t, "run")
  /\ UNCHANGED <<ffs, opens, handleVars, offline, kicked>>

SeeOffline(t) ==
  /\ gio["input"][t] = "run" /\ t \in offline /\ IoTo("input", t, "kick")
  /\ UNCHANGED <<ffs, opens, handleVars, inhand, offline, kicked>>

(* usb_adb_kick and usb_ffs_kick, of the first thread of a transport that  *)
(* comes to it: the files of the handle are closed, the open thread woken. *)
FirstKick(t) == t \notin kicked
Closes == field' = [e \in Ep |-> NoFile] /\ files' = {f \in files : field[f[1]] # f[2]}
adb_cond_signal == woken' = (opener = "asleep" \/ woken)

Kick(w, t) ==
  /\ gio[w][t] = "kick" /\ IoTo(w, t, "over")
  /\ IF FirstKick(t) THEN kicked' = kicked \cup {t} /\ Closes /\ adb_cond_signal
     ELSE UNCHANGED <<kicked, field, files, woken>>
  /\ UNCHANGED <<ffs, opens, opener, inhand, offline>>

-----------------------------------------------------------------------------
(* usb_adb_init sets the file to -1; usb_ffs_init sets bulk_out twice, and *)
(* bulk_in stays 0.                                                        *)
Init ==
  /\ ffs \in BOOLEAN /\ opens = 0 /\ files = {} /\ opener = "test" /\ woken = FALSE
  /\ field = [e \in Ep |-> IF e = "bulk_in" \/ (~ffs /\ e = "bulk_out") THEN 0 ELSE NoFile]
  /\ gio = [w \in Ios |-> [t \in T |-> "off"]]
  /\ inhand = [w \in Ios |-> [t \in T |-> NoFile]] /\ offline = {} /\ kicked = {}

Next ==
  \/ TestOpen \/ Wakes \/ Opens \/ Registers
  \/ \E t \in T : ReadEnds(t) \/ WriteEnds(t) \/ SeeOffline(t)
                  \/ \E w \in Ios : Begins(w, t) \/ Kick(w, t)

Spec == Init /\ [][Next]_gadgetVars

-----------------------------------------------------------------------------
(* A kick closes the files of the transport that is kicked, never those    *)
(* opened for the next; nothing stays open that the handle does not name,  *)
(* and a handle without a file has its open thread awake. No transport     *)
(* reads what was sent to a later one; it may write into the files of a    *)
(* later one, but only after it was kicked itself.                         *)
GadgetKept ==
  /\ \A t \in T : gio["output"][t] # "off" /\ t \notin kicked =>
       \A e \in Eps : field[e] = t /\ <<e, t>> \in files
  /\ \A f \in files : field[f[1]] = f[2]
  /\ opener = "asleep" /\ field["control"] = NoFile => woken
  /\ \A t \in T : inhand["output"][t] \in {NoFile, t}
  /\ \A t \in T : inhand["input"][t] \in {NoFile, t} \/ t \in kicked

=============================================================================
