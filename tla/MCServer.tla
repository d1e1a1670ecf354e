-------------------------------- MODULE MCServer --------------------------------
(***************************************************************************)
(* What the dashboard asks for, in one run: the server of adb, how a       *)
(* device lets it in, the push of an app to a device, the registry of      *)
(* apps, their installation in the simulator, the apps that run there with *)
(* the toolbox of one, what the page shows of them, the list of devices it *)
(* is told, and other programs that use a server of adb.  Here they share  *)
(* no state, so a behaviour is one of one of them: `part` names it, the    *)
(* others stay as they begin.                                              *)
(***************************************************************************)
EXTENDS AdbServer

CONSTANTS c1, c2, h, t1, t2, i1, i2, NoOne, a1, a2, u1, u2, v1, v2, v3

VARIABLES
    part,
    followed,       \* which client, key, program or transport AllAnswered looks at
    sim, handlers, requests, installed, registry, task, needsAll, sweep, crossed,
    plugged, forward, updates, devices, hasDevice, deviceConnected, adbReady, debuggerReady,
    debuggerClient, webappsActor, link, push, pushed, installedOn, overtaken, own,
    adbkey, pubkey, weak, server, key_list, key, connection_state, online, device, auth_enabled,
    trusts, up, down,
    simulator, present, frame, actors, byOrigin, launching, asks, tells, running, step, target,
    second, current, toolbox, manifestURL, shown, touches, unseen, again, deaf, late,
    packaged, bad, temp, profile, webapps, at, job, read, events, mixed,
    port, begun, kind, dying, call, pc, fd, open, checked, seen, killed,
    told, life, list, registration, conn, banners,
    apps, page, rows, cut, isOpen, toPage, fromPage, jobs, checks, commands, gen, receipts,
    muddled

appsVars == <<simulator, present, frame, actors, byOrigin, launching, asks, tells, running, step,
              target, second, current, toolbox, manifestURL, shown, touches, unseen, again, deaf,
              late>>
installVars == <<packaged, bad, temp, profile, webapps, at, job, read, events, mixed>>
listVars == <<told, life, list, registration, conn, banners>>
pageVars == <<apps, page, rows, cut, isOpen, toPage, fromPage, jobs, checks, commands, gen,
              receipts, muddled>>
progVars == <<port, begun, kind, dying, call, pc, fd, open, checked, seen, killed>>
authVars == <<adbkey, pubkey, weak, server, key_list, key, connection_state, online, device,
              auth_enabled, trusts, up, down>>
regVars == <<sim, handlers, requests, installed, registry, task, needsAll, sweep, crossed>>
pushVars == <<plugged, forward, updates, devices, hasDevice, deviceConnected, adbReady,
              debuggerReady, debuggerClient, webappsActor, link, push, pushed, installedOn,
              overtaken, own>>
Reg == INSTANCE AppRegistry WITH
    Apps <- {h}, Hosted <- {h}, Tasks <- {t1, t2}, MaxGen <- 1, MaxQueue <- 2, MaxSweeps <- 1
Push == INSTANCE DevicePush WITH
    Devices <- Device, Flaky <- {}, Pushes <- {i1, i2}, Packaged <- {i1}, MaxUpdates <- 1,
    client <- debuggerClient, got <- pushed, installed <- installedOn, crossed <- overtaken
Auth == INSTANCE AdbAuth WITH User <- "user", Vendor <- <<"vendor1", "vendor2">>
Toolbox == INSTANCE SimApps WITH Apps <- {a1, a2}, MaxConns <- 2, MaxTouches <- 2
Installs == INSTANCE WebappsInstall WITH MaxUpdates <- 3
Programs == INSTANCE AdbClient WITH Clients <- {u1, u2}, Remote <- {u2}, MaxServers <- 2
List == INSTANCE DeviceList WITH
    Transports <- {v1, v2, v3}, Room <- 2, MaxBanners <- 1, connection_state <- conn
Page == INSTANCE DashboardPage WITH
    Apps <- {a1, a2}, Generated <- {a2}, Before <- [a \in {a1, a2} |-> {a1} \ {a}],
    Receipts <- {"ok"}, Jobs <- 1..2, MaxGen <- 2,
    MaxCommands <- 4, list <- page, open <- isOpen, down <- toPage, up <- fromPage, job <- jobs,
    installed <- receipts, crossed <- muddled
ASSUME PartsConstants ==
    /\ Reg!RegistryAssumption /\ Push!PushAssumption /\ Auth!AuthAssumption
    /\ Programs!AdbClientAssumption /\ List!ListAssumption /\ Page!PageAssumption

PartsInit ==
    /\ part \in {"server", "registry", "push", "auth", "toolbox", "install", "program", "list",
                "page"}
    /\ Init /\ Reg!Init /\ Push!Init /\ Auth!Init /\ Toolbox!Init /\ Installs!Init
    /\ Programs!Init /\ List!Init /\ Page!Init
    /\ followed \in (IF part \in {"auth", "program"} THEN {1, 2} ELSE {1})
    /\ part # "registry" => needsAll = FALSE
    /\ part # "auth" => weak = {} /\ trusts = {} /\ ~auth_enabled
    /\ part # "toolbox" => present = {}
    /\ part # "install" => packaged /\ bad = {}
    /\ call[u1] \in (IF part = "program" THEN {"start-server", "device", "command"} ELSE {"host"})
    /\ call[u2] \in (IF part = "program" THEN {"device", "query"} ELSE {"host"})
Alone(p) ==
    /\ part = p /\ UNCHANGED <<part, followed>>
    /\ p # "server" => UNCHANGED vars
    /\ p # "registry" => UNCHANGED regVars
    /\ p # "push" => UNCHANGED pushVars
    /\ p # "auth" => UNCHANGED authVars
    /\ p # "toolbox" => UNCHANGED appsVars
    /\ p # "install" => UNCHANGED installVars
    /\ p # "program" => UNCHANGED progVars
    /\ p # "list" => UNCHANGED listVars
    /\ p # "page" => UNCHANGED pageVars
PartsNext ==
    \/ Alone("server") /\ Next
    \/ Alone("registry") /\ Reg!Next
    \/ Alone("push") /\ Push!Next
    \/ Alone("auth") /\ Auth!Next
    \/ Alone("toolbox") /\ Toolbox!Next
    \/ Alone("install") /\ Installs!Next
    \/ Alone("program") /\ Programs!Next
    \/ Alone("list") /\ List!Next
    \/ Alone("page") /\ Page!Next
(* The fairness of each module, in its part. *)
PartsFairness ==
    /\ \A c \in Client : WF_vars(part = "server" /\ WaitStep(c))
    /\ WF_authVars(part = "auth" /\ Auth!Handles)
    /\ \A u \in {u1, u2} : WF_progVars(part = "program" /\ Programs!Goes(u))
    /\ WF_progVars(part = "program" /\ dying /\ Programs!ServerEnds)
    /\ WF_listVars(part = "list" /\ List!transport_registration_func)
    /\ \A v \in {v1, v2, v3} : WF_listVars(part = "list" /\ List!remove_transport(v))
PartsSpec ==
    /\ PartsInit
    /\ [][PartsNext]_<<part, followed, vars, regVars, pushVars, authVars, appsVars, installVars,
         progVars, listVars, pageVars>>
    /\ PartsFairness

(* The type invariants, and the properties of the other parts (the modules  *)
(* state them in words): installed is what the dashboard says, and what an  *)
(* installation that succeeded has put there; ready is what says so, online *)
(* is what has let adb in, a push finds its files; a toolbox is of an app   *)
(* that runs, and the apps that run are those the dashboard counts; a       *)
(* program is served by a server of its version; the devices the dashboard  *)
(* was told of are those of the list.                                       *)
TypesOK ==
    /\ part = "server" => TypeOK
    /\ part = "registry" => Reg!TypeOK
    /\ part = "push" => Push!TypeOK
    /\ part = "auth" => Auth!TypeOK
InstalledAgrees ==
    /\ part = "registry" => Reg!InstalledAgrees
    /\ part = "install" => Installs!InstallsAgree
    /\ part = "page" => Page!PageAgrees
ReadyAgrees ==
    /\ part = "push" => Push!ReadyAgrees /\ Push!InstallWhole
    /\ part = "auth" => Auth!LetIn
    /\ part = "toolbox" => Toolbox!OneToolbox /\ Toolbox!RunningAgrees /\ Toolbox!ListenAgrees
    /\ part = "program" => Programs!ServedRight
    /\ part = "list" => List!ListTold

(* A client that waits for a device, a device that waits for a key, and a   *)
(* program that uses the server, and a transport that is lost: WaitAnswered, *)
(* TokenAnswered and KnownOpens, ClientEnds and GoneTold, for the one that  *)
(* is followed; the clients are alike, and so are the transports.           *)
Program == <<u1, u2>>[followed]
Awaits ==
    CASE part = "server" -> Waits(c1)
      [] part = "auth" -> IF followed = 1 THEN Auth!Asks ELSE Auth!Known
      [] part = "list" -> List!Lost(v1)
      [] part = "program" -> Programs!Began(Program)
      [] OTHER -> FALSE
GotAnswer ==
    CASE part = "server" -> Told(c1)
      [] part = "auth" -> IF followed = 1 THEN Auth!Answered ELSE Auth!Opened
      [] part = "list" -> ~List!Shown(v1)
      [] part = "program" -> Programs!Ended(Program)
      [] OTHER -> TRUE
AllAnswered == Awaits ~> GotAnswer

=============================================================================
