---------------------------- MODULE WebappsInstall ----------------------------
(***************************************************************************)
(* The installation of one app in the simulator: the dashboard writes its  *)
(* files into a directory, asks, and the webapps actor                     *)
(* (dbg-webapps-actors.js) moves them into the profile and registers the   *)
(* app, in asynchronous steps. The directory is that of the app, so an     *)
(* update that begins while the one before is being installed writes among *)
(* its files, and has its own removed.                                     *)
(*                                                                         *)
(* An update is a number, which also stands for the content of its files.  *)
(* Left out: permissions, receipts, the offline cache, preinstalled apps.  *)
(***************************************************************************)
EXTENDS Naturals, Sequences

CONSTANT MaxUpdates               \* bound

Updates == 1..MaxUpdates
Absent == 0
Partial == MaxUpdates + 1         \* opened, and not yet written

VARIABLES
  packaged,          \* a zip, else a manifest with metadata.json
  bad,               \* updates whose zip has a manifest that cannot be parsed
  temp,              \* temp[f]: of which update f is, in the directory of the app
  profile,           \* of which update manifest.webapp is, in the profile
  webapps,           \* of which update the app in the registry is
  at,                \* at[u]: where update u is, at the dashboard
  job,               \* job[u]: where its installation is, in the simulator
  read,              \* read[u]: what was read of the manifest
  events,            \* events[u]: the events webappsEvent, "ok" or "error"
  mixed              \* an update began while another was not over

installVars == <<packaged, bad, temp, profile, webapps, at, job, read, events, mixed>>

Files == {"manifest", "metadata", "zip"}
AtTo(u, s) == at' = [at EXCEPT ![u] = s]
JobTo(u, s) == job' = [job EXCEPT ![u] = s]
NoFiles == [f \in Files |-> Absent]
SendEvent(u, e) == events' = [events EXCEPT ![u] = Append(@, e)]
SendError(u) == SendEvent(u, "error") /\ JobTo(u, "over")

-----------------------------------------------------------------------------
(* _updateApp: a file is opened, and written when it still has its name;   *)
(* the second cannot be opened when the directory has been removed.        *)
Over(u) == at[u] = "answered" /\ job[u] \in {"none", "over"}
Begin(u) ==
  /\ at[u] = "idle" /\ \A v \in 1..(u - 1) : at[v] # "idle"
  /\ AtTo(u, IF packaged THEN "zip" ELSE "manifest")
  /\ temp' = [temp EXCEPT ![IF packaged THEN "zip" ELSE "manifest"] = Partial]
  /\ mixed' = (mixed \/ \E v \in 1..(u - 1) : ~Over(v))
  /\ UNCHANGED <<packaged, bad, profile, webapps, job, read, events>>

Put(u, f) == IF temp[f] = Absent THEN Absent ELSE u
Written(u) ==
  /\ \/ /\ at[u] = "zip" /\ AtTo(u, "ask") /\ temp' = [temp EXCEPT !["zip"] = Put(u, "zip")]
     \/ /\ at[u] = "manifest" /\ AtTo(u, "metadata")
        /\ temp' = [temp EXCEPT !["manifest"] = Put(u, "manifest"), !["metadata"] = Partial]
     \/ /\ at[u] = "metadata" /\ AtTo(u, "ask")
        /\ temp' = [temp EXCEPT !["metadata"] = Put(u, "metadata")]
     \/ at[u] = "manifest" /\ temp = NoFiles /\ AtTo(u, "lost") /\ UNCHANGED temp
  /\ UNCHANGED <<packaged, bad, profile, webapps, job, read, events, mixed>>

(* install: refused when a file is missing, and the directory removed.     *)
Missing == temp["zip"] = Absent /\ \E f \in {"manifest", "metadata"} : temp[f] = Absent
install(u) ==
  /\ at[u] = "ask" /\ AtTo(u, "answered")
  /\ IF Missing THEN temp' = NoFiles /\ UNCHANGED job
     ELSE JobTo(u, IF temp["zip"] # Absent THEN "zip" ELSE "manifest") /\ UNCHANGED temp
  /\ UNCHANGED <<packaged, bad, profile, webapps, read, events, mixed>>

-----------------------------------------------------------------------------
(* installHostedApp: the manifest is read, and then moved; the metadata    *)
(* are read. What throws in these callbacks is reported to nobody.         *)
Whole(n) == n \notin {Absent, Partial} \cup bad
ReadManifest(u) ==
  /\ job[u] = "manifest" /\ JobTo(u, "move") /\ read' = [read EXCEPT ![u] = temp["manifest"]]
  /\ UNCHANGED <<packaged, bad, temp, profile, webapps, at, events, mixed>>

Loaded(u) == Whole(read[u])
MoveManifest(u) ==
  /\ job[u] = "move"
  /\ IF ~Loaded(u) THEN SendError(u) /\ UNCHANGED <<temp, profile>>
     ELSE IF temp["manifest"] = Absent THEN JobTo(u, "thrown") /\ UNCHANGED <<temp, profile, events>>
     ELSE /\ profile' = temp["manifest"] /\ temp' = [temp EXCEPT !["manifest"] = Absent]
          /\ JobTo(u, "metadata") /\ UNCHANGED events
  /\ UNCHANGED <<packaged, bad, webapps, at, read, mixed>>

(* _registerApp puts the app into the registry, and reads the manifest.    *)
Register(u, n) == webapps' = n /\ JobTo(u, "register")
ReadMetadata(u) ==
  /\ job[u] = "metadata"
  /\ IF Whole(temp["metadata"]) THEN Register(u, temp["metadata"]) /\ UNCHANGED events
     ELSE SendError(u) /\ UNCHANGED webapps
  /\ UNCHANGED <<packaged, bad, temp, profile, at, read, mixed>>

(* installPackagedApp: a zip that is not whole throws when it is opened,   *)
(* and that is reported; a manifest that cannot be parsed is, and then     *)
(* throws.                                                                 *)
ExtractManifest(u) ==
  /\ job[u] = "zip"
  /\ IF temp["zip"] \in {Absent, Partial} THEN SendError(u) /\ UNCHANGED <<temp, profile>>
     ELSE /\ profile' = temp["zip"] /\ temp' = [temp EXCEPT !["zip"] = Absent]
          /\ JobTo(u, "load") /\ UNCHANGED events
  /\ UNCHANGED <<packaged, bad, webapps, at, read, mixed>>

LoadManifest(u) ==
  /\ job[u] = "load"
  /\ IF Whole(profile) THEN Register(u, u) /\ UNCHANGED events
     ELSE SendError(u) /\ UNCHANGED webapps
  /\ UNCHANGED <<packaged, bad, temp, profile, at, read, mixed>>

(* The callbacks of _registerApp: the manifest has been read, the          *)
(* directory is removed; the registry has been saved.                      *)
RemoveDir(u) ==
  /\ job[u] = "register"
  /\ IF Whole(profile) THEN JobTo(u, "save") /\ temp' = NoFiles
     ELSE JobTo(u, "thrown") /\ UNCHANGED temp
  /\ UNCHANGED <<packaged, bad, profile, webapps, at, read, events, mixed>>

Saved(u) ==
  /\ job[u] = "save" /\ JobTo(u, "over") /\ SendEvent(u, "ok")
  /\ UNCHANGED <<packaged, bad, temp, profile, webapps, at, read, mixed>>

-----------------------------------------------------------------------------
Init ==
  /\ packaged \in BOOLEAN /\ bad \in SUBSET Updates /\ (~packaged => bad = {})
  /\ temp = NoFiles /\ profile = Absent /\ webapps = Absent
  /\ at = [u \in Updates |-> "idle"] /\ job = [u \in Updates |-> "none"]
  /\ read = [u \in Updates |-> Absent] /\ events = [u \in Updates |-> <<>>] /\ mixed = FALSE

Next ==
  \E u \in Updates :
    \/ Begin(u) \/ Written(u) \/ install(u) \/ ReadManifest(u) \/ MoveManifest(u)
    \/ ReadMetadata(u) \/ ExtractManifest(u) \/ LoadManifest(u) \/ RemoveDir(u) \/ Saved(u)

Spec == Init /\ [][Next]_installVars

-----------------------------------------------------------------------------
(* However the updates of an app overlap: an app in the registry has a     *)
(* manifest in the profile, and an installation is reported once at most.  *)
(* Where they do not: an installation that was accepted is reported when   *)
(* it is over, and one that was reported as done is the one that is in the *)
(* profile and in the registry until the next begins to move its files.    *)
Last(u) == \A v \in Updates : v > u => job[v] \in {"none", "manifest", "move", "zip"}
InstallsAgree ==
  /\ webapps # Absent => profile # Absent
  /\ \A u \in Updates :
       /\ Len(events[u]) =< 1
       /\ ~mixed =>
            /\ job[u] # "thrown"
            /\ job[u] = "over" <=> events[u] # <<>>
            /\ events[u] = <<"ok">> /\ Last(u) => profile = u /\ webapps = u
            /\ events[u] = <<"error">> => u \in bad

=============================================================================
