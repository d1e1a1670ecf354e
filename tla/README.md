# A verification project for the Firefox OS Simulator and its adb

The repository is the Firefox OS Simulator: a Firefox add-on that runs a B2G
desktop build, keeps a list of apps and pushes them to the simulator or to a
device, and that carries its own adb server, compiled as a library (`libadb`)
and driven from chrome workers. This directory holds TLA+ models of the parts
that have state worth arguing about, the TLC runs that check them and TLAPS
proofs of what matters most.

Sections: 1 inventory, 2 plan, 3 what each module models, 4 the runs,
5 fairness, 6 proofs, 7 what the models show of the code, 8 what is not
modelled.

## 1. Inventory

### The adb server (`android-tools/adb-bin`)

| part | state it keeps | operations | what makes it hard |
|---|---|---|---|
| stream multiplexer (`sockets.c`, `handle_packet` in `adb.cpp`) | lists of local sockets and of closing ones, queue of packets, READ/WRITE interest, peer pointers, remote ids | OPEN, OKAY, WRTE, CLSE handlers, descriptor events, close cascades | credits carried by OKAY, partial writes, data owed by a closed socket, closes crossing on the wire, loss of the cable |
| smart sockets and host services (`sockets.c`, `services.cpp`, `handle_host_request`) | the request read so far, the transport chosen | parse the length, host requests, hand over to the device | a request that fails halfway, a device lost between two requests |
| transports (`transport.cpp`, `transport_usb.cpp`) | the list of transports, `ref_count`, `kicked`, `online`, `sync_token`, disconnect list | register, io threads, kick, unref, remove, `kill_io_pump` | three threads and a worker terminated from outside, the object freed when the count reaches zero |
| list of devices (`transport.cpp`) | the transports listed, what trackers were told | register, remove, unregister, update | changes that tell nobody |
| event loop (`fdevent.cpp`) | table of fdevents, wanted and pending events, pending list | install, set, add, del, remove, loop | callbacks that change the events still pending, shutdown |
| listeners (`adb.cpp`) | list of listeners, each with target and transport | install, rebind, remove, disconnect | a listener whose transport dies |
| USB backends (`usb_linux.c`, `usb_osx.cpp`, `usb_windows.cpp`), `adb-win-api` | handles, transfers, `dead`; on Windows a map of handles of counted objects | scan, register, read, write, kick, close | a kick against a blocked transfer |
| USB of a device (`usb_linux_client.c`) | one handle, its files | open thread, read, write, kick | one handle for successive transports |
| transports over TCP (`transport_local.cpp`) | descriptors, the table of emulators | connect, io threads, kick, close | descriptor numbers that are used again |
| authentication (`adb_auth_host.cpp`, AUTH in `adb.cpp`) | two key files, the list of keys, the key tried last | generate, sign, send the public key | files half written, keys tried in turn |
| file service (`file_sync_client.cpp`, `file_sync_service.c`) | state of one connection, files, list of what to copy | push, pull, sync, list | failures in the middle, two sessions and one file |
| client programs (`adb_client.cpp`) | one connection at a time | version check, kill, launch, command | several programs and one port |
| Windows emulation (`sysdeps_win32.cpp`) | table of descriptors, buffers of socket pairs, event hooks | open, close, read, write, select | buffers at their limits, hooks against events, a table used by all threads |

### The add-on (`addon/lib`, `addon/data`)

| part | state it keeps | operations | what makes it hard |
|---|---|---|---|
| worker messages (`adb/evented-chrome-worker.js`) | counters, callbacks by message and count | emit, listen, once, terminate | answers matched by counter, pieces of answers matched by name |
| adb life cycle (`adb/adb.js`, `adb-server-thread.js`) | ready, `didRunInitially`, workers, `server_die_fd` | start, close, restart, reset | restart against shutdown |
| choice of an adb (`simulator.js`, `adb/adb-running-checker.js`, `adb/adb-fallback.js`) | which adb is used; conversations over sockets | check, attach, detach, track, command, push | one data event taken for one answer, an adb that ends or appears |
| device tracker, file transfer (`adb/adb-*.js`, `debugger.js`) | devices known; one debugger client | list of devices, forward, push, install | devices that change between two steps of a push |
| simulator process (`remote-simulator-client.js`) | process, port, debugger client, timers | run, connect, kill | retry and timeout timers, a process that dies while another starts |
| app registry (`simulator.js`) | apps, removed flags | add, update, remove, undo, flush | an update overtaken by a removal |
| running apps and toolbox (`simulator.js`) | `gRunningApps`, the current toolbox | run, connect, display, close | an app closed while its toolbox is prepared |
| dashboard page (`addon/data/content/js`) | a copy of the records | commands, messages | two copies brought up to date by messages that cross |

### Around them

`prosthesis/` is the add-on inside the simulator: the debugger's actors for
apps and their installation, the window manager. `android-tools/libcutils` and
`libzipfile` are support libraries of Android, of which adb uses single calls;
`build/` holds packaging scripts; `addon/data` the markup, with third-party
`vendor` code.

### Hazards

`PROJECT.json` lists under `hazards` what is hard to test here, each at its
line with the properties that would catch it going wrong.

## 2. Plan

What every use of a device goes through came first, then what the dashboard
does with it, then the platforms.

1. *Done:* streams (`AdbStream` implementing `StreamPipe`), transports, event
   loop, server front, life cycle of adb, USB on Linux.
2. *Done:* simulator process, registry, push to a device, file service and its
   commands, worker messages, installation, running apps, dashboard page.
3. *Done:* Windows emulation (socket pairs, event hooks, descriptors), Windows
   USB library, USB on Windows, OS X and on a device, transports over TCP,
   authentication, the fallback to another adb, client programs, list of devices.
4. *Done, theorems* (section 6): the streams whole, with the refinement of
   `StreamPipe`; transports, server front and registry; all of `MCLoops`; the types
   and `OneChannel` of `MCLifecycle`; of `MCDevices` the safety properties of every
   part.
   *Next:* the parts that only runs check. In `MCAdbStream` the modules beside
   `AdbStream`: `ObjectsKept` of `WinHandles`, `FdsKept` of `LocalTransport`,
   `FilesKept` of `WinFiles`, `GadgetKept` of `UsbGadget`, `ChoiceKept` of
   `AdbFallback`; in `MCServer` `ListTold` of `DeviceList` and the parts of
   `ReadyAgrees`. These modules have no RECURSIVE operator, and name what they assume
   of their constants.
5. *Next, composition.* A transport as `AdbServer` sees it (a state and a phase)
   refined by `AdbTransport`; a pushed file of `DevicePush` refined by `FileSync`.

## 3. What is modelled

### Streams, transports, loops

| module | what it models | code |
|---|---|---|
| `AdbStream` | the stream multiplexer: both ends and the wire between them | `sockets.c`, `handle_packet` of `adb.cpp` |
| `StreamPipe` | what the multiplexer promises: a pair of ordered, bounded pipes per stream | abstract |
| `AdbTransport` | a transport from the plug to the free: io threads, event loop, references, `kill_io_pump` | `transport.cpp`, `adb.js` |
| `LocalTransport` | transports over TCP, who owns which descriptor number | `transport_local.cpp`, `transport.cpp` |
| `DeviceList` | the list of transports and what trackers are told of it | `transport.cpp`, `adb.cpp` |
| `FdEvent` | the select loop: wanted and pending events, handlers that change others | `fdevent.cpp` |
| `WinEvents` | the loop of the Windows build: event hooks over sockets and socket pairs | `sysdeps_win32.cpp` |
| `BipBuffer` | one direction of an emulated socket pair | `sysdeps_win32.cpp` |
| `WinFiles` | the table of descriptors of the Windows build | `sysdeps_win32.cpp` |

### Server and its clients

| module | what it models | code |
|---|---|---|
| `AdbServer` | listeners, smart socket, host requests, choice of and waiting for a device | `adb.cpp`, `sockets.c`, `transport.cpp`, `services.cpp` |
| `AdbAuth` | both ends of the handshake with keys, and the key files | `adb_auth_host.cpp`, `adb.cpp` |
| `AdbClient` | programs that find, start, end and use a server | `adb_client.cpp`, `adb.cpp` |
| `FileSync` | sessions of the file service with the commands that push, pull and sync | `file_sync_client.cpp`, `file_sync_service.c`, `adb-file-transfer.js` |
| `FileLists` | the list of files a command makes before it copies them | `file_sync_client.cpp`, `file_sync_service.c` |

### USB

| module | what it models | code |
|---|---|---|
| `UsbLinux` | poll thread and io threads on Linux: scan, kick, transfers, close, locks | `usb_linux.c`, `transport.cpp` |
| `UsbWindows` | the same on Windows, where no scan looks for what is gone | `usb_windows.cpp` |
| `WinHandles` | the objects of the Windows USB library and the map of their handles | `adb-win-api` |
| `UsbOsx` | run loop, notices and io threads on OS X | `usb_osx.cpp` |
| `UsbGadget` | the device's side: one handle for successive transports | `usb_linux_client.c` |

### The add-on

| module | what it models | code |
|---|---|---|
| `AdbLifecycle` | start, workers, fatal errors, close and restart, on three platforms | `addon/lib/adb/*.js`, `usb_windows.cpp`, `usb_osx.cpp`, `sysdeps_win32.cpp` |
| `WorkerMessages` | queries over the messages of the utility and io workers | `evented-chrome-worker.js`, `adb.js`, `io-utils.js` |
| `AdbFallback` | which adb is used, and the conversations with it over sockets | `adb-running-checker.js`, `adb-fallback.js`, `simulator.js` |
| `DevicePush` | tracker, forwarded port, debugger connection, push of an app | `adb-device-tracker.js`, `debugger.js`, `simulator.js` |
| `SimProcess` | the simulator process and the debugger connection to it | `remote-simulator-client.js`, `simulator.js` |
| `AppRegistry` | registered apps against what is installed | `simulator.js` |
| `WebappsInstall` | one installation, in the simulator | `dbg-webapps-actors.js` |
| `SimApps` | running apps, and the toolbox of one of them | `simulator.js`, `dbg-simulator-actors.js`, `dbg-webapps-actors.js` |
| `DashboardPage` | the page's copy of the records, adding by URL, receipts | `addon/data/content/js`, `simulator.js` |

The theorems are in `AdbStreamProofs` and `AdbStreamPipes` (which extends it),
`AdbTransportProofs`, `AdbServerProofs`, `AddonProofs` (about `AppRegistry`), and, about
the parts of a run together, in `FdEventProofs` (`MCLoops`), `AdbLifecycleProofs`
(`MCLifecycle`) and `DevicesProofs` (`MCDevices`).

### How the models meet

A stream's `wire` is what `AdbTransport` splits into socketpair, io threads and
cable. A transport appears in `AdbServer` as its connection state and a phase,
with the order of the steps that `AdbTransport` takes (offline, disconnects,
sockets swept, freed); `DeviceList` and `LocalTransport` take the same phases.
The events of `FdEvent` are the descriptor actions of `AdbStream` (`DrainAll`,
`ReadSome`, ...). The shutdown that `AdbTransport` has as one `Close` and
`KillStep` is the subject of `AdbLifecycle`. The device that `AdbTransport` has
as one `Broken` read or write is what the USB modules open up. A file that
`DevicePush` has pushed, or not, is a session of `FileSync`; the query with which
it begins is one of `WorkerMessages`. `AppRegistry` has a request to the simulator
as one step, `WebappsInstall` and `SimApps` what it is made of.

Each model is complete in itself: none instantiates another but `StreamPipe`,
which `AdbStream` implements. The MC modules put several side by side in one run:
a variable `part` says whose behaviour it is, and the others stay as they begin,
so the state space is the sum and not the product, and a property of the run is a
conjunction over the parts.

| MC module | parts |
|---|---|
| `MCAdbStream` | `AdbStream` with two streams, `WinHandles`, `LocalTransport`, `AdbFallback`, `UsbGadget`, `WinFiles` |
| `MCLoops` | `FdEvent`, `WinEvents`, `BipBuffer` |
| `MCServer` | `AdbServer`, `AppRegistry`, `DevicePush`, `AdbAuth`, `SimApps`, `WebappsInstall`, `AdbClient`, `DeviceList`, `DashboardPage` |
| `MCLifecycle` | `AdbLifecycle`, `SimProcess`, `WorkerMessages` |
| `MCDevices` | `UsbLinux`, `UsbWindows`, `UsbOsx`, `FileSync`, `FileLists` |

### Notes on the modules

**AdbStream.** A local socket is `<<end, id>>`; the state follows the fields of
`asocket`: `list` (local list, closing list, freed), `peer` and `rid` (the remote
socket and its id), `pkts` (`pkt_first`), `rd` and `wr` (FDE_READ, FDE_WRITE),
`notify` (rigged with `local_socket_ready_notify`). A handler of a message or of a
descriptor is an action; the branches of `handle_packet`, `local_socket_enqueue`
and `local_socket_event_func` are its disjuncts. `LinkLost` and `CloseAllSockets`
are the loss of the cable: messages under way are lost and each end sweeps its
sockets when it notices. Each end runs one event loop, so a handler is one step.

**AdbTransport.** One program counter for each output thread, input thread and for
`kill_io_pump`. The flags `started` and `ended`, the counts and `kicked` are as in
the code, `transport_lock` makes a step of what it encloses. A handler of a client
takes two steps, because an input thread's `close_all_sockets` does not wait for
it. `Terminate` takes the code's word that it finds the output thread in its read,
or not in native code at all; the comment at `transport.cpp:294` doubts it.

**LocalTransport.** `fds` is the process's table of descriptors, `hand` the number
an io thread has read from its transport. The lowest free number is given out, the
rest of the process takes and gives back numbers too. After the second close of
`t->fd` has closed another's (`stolen`) nothing is said about descriptors.

**FdEvent, WinEvents, BipBuffer.** `calls` is the stack of handlers that run.
`SUBSET Event` is what a handler may ask for through `fdevent_set`, `_add` and
`_del`. In `WinEvents` a socket's records are Winsock's (asked for by the last
`WSAEventSelect`, handed over once). A pair has the state of its two buffers (`can`)
and their events (`signaled`), which agree until an end closes: the close sets both
events and no flag, and the read that then empties the buffer resets `evt_read` again
(section 7). In `BipBuffer` the bytes are numbered, `a_start`, `a_end` and `b_end`
are the code's, and the close is three steps, since it takes no lock.

**WinFiles.** The lock of the table is initialised by each allocation before it is
taken, so two allocations can be inside together (`overlapped`); a close takes no
lock and may run under a call on the same descriptor (`under`). What happens
before either has come about is what `FilesKept` speaks of.

**AdbServer.** A request is one value. `client[c]` is the local socket with what it
waits for; `listener` and `dis` are `listener_list` and the disconnect list of each
transport, which `install_listener` and `free_listener` must keep in step.
`Acquire` is `acquire_one_transport`; the thread of `wait_for_state` is `WaitStep`.

**AdbAuth.** `adbkey` and `pubkey` outlive the server; a generation writes one and
then the other and may stop between. A key is a name, a signature the name of its
key. A device keeps the keys it trusts and asks its user about another; one with
`auth_enabled` off, which is what `adb.cpp:60` sets, answers CNXN with CNXN and asks
for nothing. `LetIn` says what is true of both.

**AdbClient.** One port and the server that has it. A client is a program counter
through `_adb_connect`, `adb_connect`, `adb_command` and `adb_query`, with the call
it makes chosen at the start.

**DeviceList.** Requests for registration and removal go over a socket pair and
are handled one at a time, each followed by `update_transports`. `unlinked` is
what `unregister_usb_transport` does to a transport without permission.

**FileSync, FileLists.** A session is one connection: a command, the service, two
directions of a stream lost together. A chunk is its writer and its number, so a
mixture of two files shows. A path names a file object, because an unlinked one
stays with those who have it open. Lists are made by recursion in the code; the
model keeps the stack of directories still to be read.

**UsbLinux.** A handle is `usb_handle` with its transport. `reader` and `writer`
are its output and input thread, `poll` the poll thread. `urbIn` and `urbOut` are
what the kernel knows of the transfers, `busy` is `urb_out_busy`: only the reader
reaps (`Reap` is the `REAPURB` without the lock of the handle, `Reaped` what follows
under it). `poll = "kick"` is the time `usb_lock` is held, `listLock` who holds
`transport_lock` across steps. `skipped` are the files a scan passed over because a
directory of the bus could not be opened, `unsure` counts the failed writes that
were reported as done (section 7).

**UsbWindows, WinHandles, UsbOsx, UsbGadget.** On Windows a kicked handle loses its
name, so its interface may be opened again meanwhile. In the library a call looks
its handle up under the lock of the map, works on the object without it and gives
its reference back; an object without references deletes itself and then gives
back that of its parent. The test of the system's handle and its close are two steps
(`TestDevice`, `CloseDevice`), so two closers of one object may both come to the
close. An interface of WinUSB whose `CreateHandle` fails after `CreateFile` is
`unmade`, and `lost` once it is deleted: its device stays open. On OS X a thread
finds `handle->interface` set in one step and uses or releases it in another:
`tested` has those about to release it, in `io` those in `use` are about to call into
it; `second` and `late` record who came after the release. On a device the one handle
has successive transports, of which the former's threads may still run.

**AdbLifecycle.** `inbox[w]` is the queue of messages of a worker to the main
thread. `life[w]` says how far a worker is: not created, created, its script run,
inside native code, leaving it, returned. The main thread is in one place at a
time (`main`): handling messages, or inside `close`, whose waits on Windows are
polling loops (`adb_cond_wait` is given the address of a handle, so it returns at
once and the condition is tested again). The registration message is the first of
each worker; `RegistersFirst` says so.

**WorkerMessages.** A request carries the worker's counter and an answer the same;
the pieces of an answer carry the name of the service only. `shared` marks the
queries that listened at a time with another of the same service, whose pieces mix.

**AdbFallback.** A conversation has a state, what it was asked and the events on
their way. An event may be a whole answer, a part or two; `odd` marks where it was
not one whole. A page that is opened starts a check whether one is under way or not;
there are two at most, `check` and `recheck`, and whichever ends later decides. Unload
waits for neither, and `hasty` is set when it came under one. Sockets end with the
adb that served them.

**DevicePush, SimProcess.** Main-thread handlers are steps; events, answers and timers
come in any order. Clients of the debugger are objects with an identity, which the
global variables of `debugger.js` name or no longer name.

**AppRegistry, WebappsInstall, SimApps, DashboardPage.** A record, an update or a
connection is a number, so that an answer that comes for an older one is told from
one for the newer. `crossed`, `mixed`, `unseen`, `again`, `late` and `deaf` record
that one of the cases of section 7 has come about, which the properties except. In
`DashboardPage` `checks` are the app caches asked for: `validateAppCache` adds to a
record's errors when the answer comes, after the page was told of the others
(`simulator.js:873`, `validator.js:34`). A record that was never validated ends the
rendering where it stands (`applist.js:97`); `cut` says that one has.

## 4. Runs

| run | what it shows | bounds, and why they are enough |
|---|---|---|
| `stream_one` | credits are neither doubled nor lost, no missing peer in a drain; `StreamPipe` is implemented: order and a bounded window; requests answered, ended clients closed, data delivered | one socket at each end, two units of each client, up to two to a payload: a full payload, two in a row, and partial writes |
| `stream_two` | `StreamsApart`: a message meets the socket it is for, a conversation what it was sent. `ResourcesKept`, `ClosedStays`: what is open is what its owner thinks | two sockets at each end over two connections, one unit in all, and three of the four clients end their input: ids of a lost connection against those of the next. Three objects and three handle values: an interface, its endpoint, a transfer. Two transports, used in one order, and six descriptor numbers, which is what two take: a number given back is the next one given out. One device, one list more than the first, two conversations at a time (two checks, or a check and another; not a command with a push). Three openings of the device's files. Two threads and two descriptors |
| `transport_safe` | counts, removal, SYNC protocol; pulled devices are freed, closing ends the threads | two devices one after the other, two packets of each, one client |
| `transport_leak` | **violation**: with devices that overlap the clean-up flags are shared | two devices, one packet |
| `fdevent_loop` | pending list against flags, no inherited event, service; hooks against fdevents; regions of a buffer, order of its bytes, no sleeper forgotten | two descriptors and two operations of handlers: a handler acts on the other and on itself. A socket and a pair. A buffer of three bytes, calls of up to three, five bytes in all: full, empty, split and wrapped |
| `fdevent_wanted` | **violation**: an event no longer wanted is signalled | same |
| `server` | forwards, disconnects, sockets, a client of a service gets one status at most, also from the step that closes it, a rebinding or disconnect leaves the others (`ForwardsOnline`, `DisconnectsAgree`, `NoSocketLeft`, `OneStatus`, `OthersStay`); `InstalledAgrees`: records, page and profile; `ReadyAgrees`: flags, keys, toolboxes, servers and lists say what is; `AllAnswered` | two devices (one to be rebound to, or two that match), two clients, one port beside the smart socket. One app with two updates and one sweep; three updates for the installation of one; two apps on the page, one with a manifest, one made from a page, two jobs and four commands. Two apps and two devices to push to. Two apps to run, two connections. Two clients and two servers. Three transports of which an update has room for two |
| `server_status` | **violation**: a client closed without a status | one device, one client |
| `lifecycle` | one clean-up, what the waits give, nothing spawned afterwards, the server obeys, `close` returns; one debugger connection, each query its own answer (`OneChannel`); runs, toggles and queries settle (`RunSettles`) | the three platforms, one device, one helper worker, one fatal error, and unload. Two clients and two ports: the old process's against the new one's. Two queries of the same or of two services, two pieces |
| `lifecycle_quiet` | **violation**: clean-up under the poll thread on Windows | same, Windows only |
| `usb` | no use of a freed handle, no double release (`NothingFreed`), no false success, what is gone is closed and only that (`DevicesGo`); files whole, lists right (`FilesWhole`), commands end (`CommandEnds`) | Linux: one device file (two in `usb_deadlock`), one handle at a time used again and again, one transfer taken by the device and one failed write reported as done. Windows: two interfaces, one foreign, two handles, so that an interface is opened again under its old transport; the handles are alike, and `DevicesGo` looks at the one in `Followed`. OS X: one interface. Files of two chunks, one by two sessions (a push against the add-on's, a sync against a pull) or two by one (push, sync or pull of a directory). Trees of two directories, every kind of entry |
| `usb_deadlock` | **violation**: `usb_lock` and `transport_lock` are taken in both orders | two device files, one of them without permission, no transfer taken |

Bounds that are constants are named where they are declared, those of a run in its
MC module. In `MCAdbStream` the constraint `Few` has a case for each part: it bounds
what the clients of the streams write together (`TotalUnits`) and how many end their
input (`TotalShut`), takes the transports over TCP in one order, bounds the
conversations at a time, and ends the behaviours of `WinFiles` after which nothing is
promised; no liveness is checked in that run.

Deadlock is not checked as such: the user may leave the program alone, a bound may
be reached, and a closed adb has nothing left to do. Threads that wait for each other
for ever show in the liveness properties (`IoEnds`, `DevicesGo`, `CloseEnds`,
`CommandEnds`) and in `usb_deadlock`.

The violations are disagreements of the code with its own comments, listed in
`PROJECT.json` under `findings` with the lines quoted. They have their runs apart
so that the rest is checked where they do not matter: `transport_safe` has
`Overlap = FALSE`, since after the leak of a transport nothing more can be said of
it; `NoOrphan` and `EofCloses` name the one half-open stream the code leaves
(the client failed before the answer came).

## 5. Fairness

* `AdbStream`: weak fairness of each end's message handler, sweep, drains and
  reads: the select loop serves every ready descriptor. A client that has not gone
  keeps reading; no client need write or end.
* `AdbTransport`: weak fairness of each thread; strong fairness of the event loop's
  steps for a descriptor, because a handler of another descriptor disables them for
  a moment, and `select` comes back to every ready one. A device need not send
  anything and need not be pulled out. A thread that reads from a device that is
  gone comes back from the read.
* `FdEvent`, `WinEvents`, `BipBuffer`: loop, handlers, writer and reader go on once
  they are woken; the kernel and the operations of handlers owe nothing.
* `AdbServer`: only the thread that waits for a device, which looks again every
  second. `AdbAuth`: packets that were sent are handled. `AdbClient`: a client's
  steps, none of which waits for anything but a server's answer or end, and the end
  of a server that was told to end. `DeviceList`: the event loop, and the thread
  that has to remove a transport.
* `UsbLinux`: the threads run; a thread that wants `transport_lock` or `usb_lock`
  gets it if it is free again and again (strong fairness of the steps that take
  one: the poll thread sleeps a second without a lock); the input thread comes to
  each packet of its queue; a transfer to a device that is gone fails. A device
  that is there need not answer. `UsbWindows`, `UsbOsx`: the io threads, and of OS X
  the run loop; no device need be pulled.
* `FileSync`: each service and each command goes on while its stream lasts; the loss of the
  stream is not fair. `FileLists`: the command goes on.
* `AdbLifecycle`: weak fairness of the main thread's messages and of `close`, of the
  native threads and of the scripts of workers. Worker scripts are taken to load
  while the main thread waits inside `close`.
* `WorkerMessages`: each message is handled. `SimProcess`: process, answers and
  timers; a process need not listen, and the user need not do anything.

The other modules have no liveness property and no fairness.

## 6. Proofs

All from the named assumptions on the constants alone, for every value of them;
those about transports have one hypothesis more, which is said there. Each
inductive invariant was checked by TLC on a small instance before it was proved.

### Streams

`AdbStreamProofs.TypeCorrect`: by a lemma for each helper that changes sequences
and one step per action. Not a formality here: that `taken` never passes `wrote`,
and that ids stay in range through `LinkUp`, is part of it.

The module goes on to `CreditsKept` (the permission to send is there once at
most, and while the cable holds once at least, and what may drain has a peer) and
`NeverStrangers` (a message that meets an open socket is its mate's). Neither is
inductive. `CInv` adds, in the order the argument needs them:

* `Ids`, `Sockets`, `Session`: ids are given out in order; what reads or holds data
  is connected, and only a host socket is open without a peer; after a
  connection's end and sweep nothing is open at that end. So a message of a lost
  connection has nobody to meet.
* `Wires`, `OpensOnce`: OKAY and WRTE carry the two ids of a pair, an OPEN that of a
  host socket nobody is connected to yet, and there is one of it.
* `Pairs`: the device's socket knows its mate first, and no two know the same.
* `AllEarly`: the OKAY that opens a stream is before its data on the wire. Without
  this, the data would find a socket without a peer, be refused, and the
  permission be lost.
* `Credit`: for the two ends `x`, `y` of a stream the permission is with `x`
  (`rd`), in its WRTE, in the data `y` holds or in the OKAY of `y`. `AtMostOne` says
  these exclude each other, `AtLeastOne` that one of them holds. Each action moves it
  from one place to the next; the queues are never counted, it is enough that a
  message is there and there once.

`AdbStreamPipes.PipesImplemented`: `Spec` implements `StreamPipe` under the mapping
that `AdbStream` declares. `PInv` adds to `CInv` where the data is (`Flows`: when `x`
may read, all it has read has been written at `y`; otherwise what is missing is what
`y` holds, or is in the one WRTE under way, and continues what was written), that what
was written is 1, 2, 3, ... (`Ordered`), and that an unconnected socket has neither
read nor written (`Unused`). A step that touches no pipe maps to a stutter
(`SameSeen`), each other one to the step of `StreamPipe` of its kind.

`AdbStreamPipes.NoneOrphaned` is `[]NoOrphan`: while the cable holds, a socket whose
far end is gone is told of it. `OInv` adds to `CInv`: a socket without a peer
still has its answer to wait for (`Waiting`); CNXN, which closes all sockets of its
receiver, comes once and finds none (`Greeting`); a CLSE without a sender's id is
about a host socket that has no service and will not get one (`Ended`), so it
orphans nobody on the device; an OPEN is of a client that waits or was failed
(`Asked`). The exception `told = "fail"` is the one half-open stream of section 4.

### Transports

`AdbTransportProofs`, each with the hypothesis `~Overlap` (a device comes when the
transport of the one before is freed): `TypeCorrect`, `FreedLast` (`FreedOnce`: a
transport is removed and freed once, after its last use), `ClientsGone` (`NoClientLeft`)
and `SyncsKept` (`SyncKept`: an output thread that is through has told the input thread,
and no packet comes to one not yet active). The comment in `output_thread` takes it that
there is one transport; when two overlap they share the flags of the clean-up,
`transport_leak` shows what comes of it, and the theorems would be false. The invariant
is `TypeOK /\ Registered /\ Counted /\ OneVictim /\ Talking /\ Clients`: each
registration is queued once and agrees with the life of its transport; each thread that
still needs a transport has a reference of its own, `kill_io_pump` that of the thread it
terminated (`Counted`); the flags are about the last transport spawned (`OneVictim`);
SYNC(0,0) is the last packet to the event loop and nothing but packets of this session
is on the way (`Talking`).

### Event loops

`FdEventProofs`, about `MCLoops`: `TypeCorrect`, and `PendingExact`, that `FDE_PENDING`,
the pending list and `fde->events` agree (`EventsAgree`) whatever handlers do to each
other's fdevents. The two are inductive together; the lemmas are about taking a node out
of a list that holds each once, and about the order in which `select` queues.
`WindowsExact` (`WindowsAgree`) is about the Windows build: `HooksAgree` is inductive
with the types; `PairsSignal` (an open pair's events are set as its flags are, a closed
one's wherever a flag is) follows with it; and for `BipBuffer` the regions agree, and
the bytes are in their order until a call was split.

### Server and life cycle

* `AdbServerProofs`: `ForwardsOnline` is not inductive. A listener can only be
  bound to a device that is not offline, and a device that went offline must not
  come back while it still has listeners, so
  `IInv == Types /\ StaysOffline /\ ForwardsOnline /\ DisconnectsAgree /\ BoundToLive`:
  a transport that went offline stays so until it is freed, each disconnect list is
  exact (or the clean-up would miss a listener), and sockets are bound to
  transports not yet swept. From it follow `NoForwardOutlives`,
  `DisconnectsExact`, `NoSocketOutlives` and the action property `OnlyItsOwn`.
  `StatusOnce` (`OneStatus`) and `TypeCorrect` need the statuses written at each
  stage of a request (`GotSoFar`): the rig is undone as the status is written.
  `OneStatus` is about steps, those that close the stream included, so the proof
  takes each step of a client in service (`InServiceTold`).
* `AdbLifecycleProofs`: `IInv == TypeOK /\ NotStarted /\ ClosedOnce /\
  RegistersFirst /\ KnowsServer`. `close` goes past its first test once
  (`ClosedOnce` ties the flag `hasStartedShutdown` to where `close` is and to
  `cleaned`), which gives `CleanedUpOnce`. For `NothingSpawned` the argument runs:
  `close` gets to its clean-up only with the die descriptor; that came in a message
  of the server's worker; its registration came before (`RegistersFirst`,
  `KnowsServer`); so the worker is in the list `close` terminates, and only that
  worker asks for others. `ThreadsAwaited` (`Awaited`): on Windows each wait of
  `close` is over when a notice came that a thread gives once; that it is once
  rests on each worker being created once, and that on the messages
  that ask for one (`SpawnedOnce`, then `Notices` and `Waited`).

  The same module goes on to the other parts of `MCLifecycle`. `PartsTyped` are
  their types, and `ChannelsOne` is `OneChannel`. Of the simulator process: an attempt
  to connect is a client that tries, the connection, a closed socket or a timer, one
  after the other. `Channel` counts them, clients not closed plus timers, and says
  that there is one at most and where `_clientConnecting` and `_clientConnected`
  stand. It holds while each run began with nothing left of the run before
  (`orderly`); when one starts before the old client is closed there are two
  attempts, and neither theorem nor property claims otherwise. It assumes finitely
  many clients. Of the workers: a request is in one channel, its counter finds its
  query's callback (`Queue`), and the pieces on their way and those in the result are
  what was read (`Whole`).

### Devices

`DevicesProofs`, about `MCDevices`, for any device files, interfaces, handles, files,
plans and trees. `DevicesTyped` are the types.

* *USB on Linux.* `HandleOutlives` (`NoUseAfterFree`): `ref[h]` is exact (`Counts`) for
  the io threads, and the poll thread keeps `usb_lock` from the list it takes to the
  end of its walk (`Walks`). `OnlyGone` (an action property, `OnlyGoneKicked`): a scan
  kicks what is gone or what it could not look at (`skipped`), and nothing else;
  `Marked` says that what it has passed and found stays marked until it ends.
  `NoFalseReport` (`NoFalseSuccess`): no more writes are reported than were taken,
  but for the failed ones reported at `ETIMEDOUT` bytes (`unsure`); a transfer counts
  for one write (`Paid`). Both exceptions are states the code reaches (section 7), and
  the theorems say that there are no others.
* *`BackendsFreeNothing`* (`NothingFreed`) adds to that Windows, where a reference
  counts as on Linux and an open interface is in one handle (`WinIs`), and OS X
  (`ReleasedOnce`, from `OsxIs`). There the handle has no lock, and the theorem says
  how far that goes: never two io threads about to release; a second release only
  of a device that is gone, whose notice came while its transport was kicked; a call
  into a released interface only after such a notice or at the end of the run loop,
  or, of a write, after the kick of the reader.
* *Files.* `CopiesWhole` (`FilesWhole`): what the stream holds follows from what the
  service is doing and what the command waits for (`SyncIs`), within the room there
  is (`Roomy`); in a list under way a file is listed or a directory still to be read
  has it (`ListIs`).

### The add-on

`AddonProofs`, for any apps and any number of updateAlls:

* `RegistryTypes` (`TypeOK` of `AppRegistry`) and `InstalledExact`
  (`InstalledAgrees`): once nothing is under way for an app, and no request of it
  failed, was lost or overtook another (`crossed`), the simulator has it installed
  exactly if its record is not marked removed. That says nothing of a state with
  requests, so `IInv` adds to `TypeOK` what they are on their way to: `AllRight` (the
  requests of an app wait in one of the two queues only, name its record, and the
  last of them leaves it as the record says), `Phases` (requests and handlers of
  `ready` exist only in the phases of the simulator that can have them), `Swept` (an
  app that an updateAll has still to look at is among the crossed) and `Tokens` (the
  callback that moves an updateAll on is in one place, so it goes on once).

### Only model-checked

All liveness properties and `ENABLED` (temporal reasoning under fairness is beyond
the provers installed); `ReadyAgrees`, `ResourcesKept` and `ClosedStays`; of
`StreamsApart` the part about the conversations of `AdbFallback`, of `InstalledAgrees`
those about one installation and the dashboard's page; the types of the modules in
`MCAdbStream` and `MCServer` beside `AdbStream`, `AdbServer` and `AppRegistry`. What a
sequence of bytes or a tree of files becomes under recursion is induction over data,
which these provers cannot do.

## 7. What the models show of the code

Five disagreements with a comment have a run and a finding (section 4). What
follows is modelled as the code does it; the properties except these cases by name,
so that each exception is visible.

*Streams and transports.* `input_thread` closes the sockets of its transport while
the event loop may be in the handler of one (`InClose` against `busy` in
`AdbTransport`), although the pump is called single threaded at `transport.cpp:701`.
A device without permission that is kicked before the event loop has listed it stays
listed (`UsbLinux`, `DeviceList`); its transport and handle are never freed.
`update_transports` is to be called "each time the transport list has changed"
(`transport.cpp:490`), but `unregister_usb_transport`, SYNC(0) and a banner of a host
tell nobody. Over TCP `remote_close` closes `t->fd` and the removal closes it again
(`transport_local.cpp:236`, `transport.cpp:589`); `local_connect` says connected
although `init_socket_transport` refused; two `host:connect` of one device before
its registration is handled make two transports.

*Keys and clients.* Authentication is off in the sources here (`adb.cpp:60`): a device
built from them goes online without any key. Keys that were generated by half are never
repaired. `t->key` is kept, so a second run of tokens on one transport starts after the
last good key. The library's server answers "unknown host service" to `host:version`, so
that any adb client takes it for out of date and kills it; a second client can kill the
server that the first has just launched; `adb_command` leaves its socket open.

*Files.* `sync_send` and `sync_recv` ignore results of theirs, so a file not read
whole is reported as pushed. A failed `stat` leaves what the entry before said, and a
dangling link after a directory is taken for one; an unreadable directory gives no
files and no error; a local list follows a cycle of links until `PATH_MAX`.
`pushFile`'s `onclose` leaves its promise open.

*USB on Linux.* A write to a dead handle, and one that is not reaped in time, returns
`ETIMEDOUT` (`usb_linux.c:347`), which `usb_write` compares with the number of bytes
(`:455`): of a packet of 110 bytes it says that it was sent. `find_usb_device` passes
over a directory it cannot open (`:142`, `:149`); a device in it that was known is not
marked, and the same scan kicks it although it is there.

*Windows.* `bip_buffer_write` and `_read` copy the second part from and to where the
first was (`sysdeps_win32.cpp:994`, `:1082`), so `SameBytes` speaks of calls that were
not split. The table's lock is initialised by each `_fh_alloc` ("TODO: Should this be
here?"); `socket_loopback_server` keeps its descriptor when `socket` fails. `usb_read`
never closes its completion handle, though `adb_api.h:158` asks for it; `CreateHandle`
of a WinUSB interface that fails after `CreateFile` leaves that handle open when its
object is deleted (`adb_winusb_interface.cpp:67-108`); two that close one object may
close the system's handle twice (`:129-137`); the failure path of `do_usb_open` frees a
name it never set. `bip_buffer_read` resets `evt_read` when it empties the buffer
(`sysdeps_win32.cpp:1093`), after the close of the other end as before; a reader that
stops there, having exactly the `MAX_PAYLOAD` bytes it wants (`sockets.c:331`), which is
the size of the buffer too, is never told of the end: `Noticed` excepts that case, and
`MissedByRead` says it is the only one. `close` waits for ever when the server found its
port in use or when the poll worker does not exist yet: `CloseReturnsWhenUp` holds with
its antecedent `Up` only.

*OS X and devices.* `usb_read`, `usb_write` and `usb_kick` test `interface` and use or
release it afterwards, without a lock (`usb_osx.cpp:499`, `:542`, `:576`): the notice of
a device that was pulled can release it between, or a second time; the interest
notification is asked for after an interface was released; a transport still queued
at `usb_cleanup` is never kicked. On a device `bulk_read` and `bulk_write` spin when a
call returns 0; the input thread of a kicked transport may write into the files of
the next.

*Life cycle of adb.* `restart` stops at `adb.js:233`, where `debug` is not defined in
that file, so a fatal error closes adb and does not start it again. A close before
`kill-server-fd` hands null to `write_fd` (`adb.js:195`) and throws. A read that fails
in the io worker answers nothing: its query never settles and its listener takes the
pieces of the next (`io-utils.js:56`); two queries of one service at a time mix their
pieces (`adb.js:98`); `freeListener` deletes by one index in two lists
(`evented-chrome-worker.js:169`); queries pending at a close never settle. With the adb
of the system a status that comes alone leaves a promise open, closes the tracker, or
passes for "no adb"; the second list of one event is lost; an own adb that found its
port taken is forgotten when the fallback takes over; and an unload does not wait for a
check that is under way, so that the check may start the library when the add-on is
gone, and nobody closes it (`simulator.js:77`, `:123`).

*Dashboard.* The tracker keeps devices that an update no longer names; a late answer
sets `adbReady`; a failed `forwardPort` leaves its promise open (`simulator.js:1552`).
No code sets `deleted`, on which the comment at `simulator.js:207` relies. The handler
of `appClose` throws when the URL of the current toolbox is set and the toolbox is not
yet (`simulator.js:1358`); a toolbox displayed after `onExit` is not closed; `listApps`
between the making of a frame and `appwillopen` suppresses `appOpen`; an app debugged
and brought to the foreground is told twice. The packaged path of an installation goes
on after "Error Parsing manifest.webapp" (`dbg-webapps-actors.js:225`); a refused update
removes the first one's files. The "none" receipt and a page that is closed make
callbacks throw (`simulator.js:449`, `:1421`); a late receipt goes into a record that
was replaced; what is wrong with an app cache is found after the page was told and shows
with the next message about the app only; a record without validation hides the apps
after it.

## 8. What is not modelled

`PROJECT.json` lists each part with its reason. In short: what has no state of its
own (the ctypes bridge, services that are single calls, markup, validation of
manifests, packaging, arithmetic of keys), vendored code, `libcutils` and `libzipfile`
(support libraries of Android, of which message queue and hash map are not
compiled into adb), the `dirent` and `adb_api.h` headers; and inside the parts that
are modelled, text formats and names. Integers are unbounded in the code's sense only
where a bound of the model names them: the 32-bit ids of sockets are never used
twice here. A Windows build runs no authentication, the scan for emulators is never
started by the library, and the epoll variant of the event loop is compiled out.
