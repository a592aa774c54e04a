# MacroTooth: a TLA+ model of the daemon

MacroTooth makes a Linux box look like a Bluetooth keyboard.  One process,
`main.cpp`, takes text commands from a Unix socket, turns them into HID
reports and sends these to a Bluetooth Low Energy host (HID over GATT, through
BlueZ's D-Bus interface) and to a Classic Bluetooth host (an L2CAP socket that
BlueZ hands over).  All paths below are relative to the repository.

This directory models the daemon in TLA+, checks the models with TLC on small
instances and proves theorems about each of them with TLAPS.

## 1. Inventory

### Threads

| thread | runs | shares |
|---|---|---|
| main | start-up, a loop that dispatches D-Bus messages of *all* components (they share one bus connection), clean-up | everything |
| accept thread | `IpcServer::acceptLoop` | `server_fd_`, `running_` |
| one detached thread per IPC client | `handleClient`, main's callbacks, `HIDReporter`, both `sendInputReport` | `keyboard_report_`, `input_report_`, `notify_enabled_`, `interrupt_fd_` |
| one detached thread per Classic connection | the reader lambda in `bluez_profile.cpp:70-91` | `interrupt_fd_`, descriptor numbers |
| one event thread per `UHIDDevice` (not in the build) | `UHIDDevice::eventLoop` | `fd_`, `running_` |

### Components

| component | state | operations | what makes it correct |
|---|---|---|---|
| `BlueZProfile` | `interrupt_fd_` (atomic), `published`, descriptor numbers captured by threads | `registerHIDProfile`, `NewConnection`, `RequestDisconnection`, reader threads, `sendInputReport`, `unregisterProfile` | reports, closes and the compare-and-swap should reach the connection they were meant for (they do not always: section 3); nothing leaks; a dead connection is not left published |
| `HIDReporter` | `keyboard_report_`, no lock | `keyPress`, `keyRelease`, `keyCombo`, `typeString`, key map, mouse | a host reads the text that was typed; a client's report is its own |
| `GattApplication` | `registered_`, `adv_registered_`, `notify_enabled_`, `protocol_mode_`, `input_report_`, `mutex_` | `start`, `stop`, `sendInputReport`, ten D-Bus handlers | its flags follow BlueZ's; the attribute tables agree; nothing is left registered; the stored report is the current one |
| `IpcServer` | `server_fd_`, `running_`, the socket file, one stdio stream per client | `start`, `stop`, `acceptLoop`, `handleClient`, `processCommand` | every client is served and every command answered once, through crashes, restarts and shutdown |
| `main` | the running flag | start-up order, callbacks, loop, clean-up | a signal ends the process; handlers go before their objects on every way out; commands reach both transports |
| `BluetoothAdapter` | object path | property calls made once | start-up goes on, and ends, whichever setting times out |
| `BluetoothAgent` | registered flag | `start`, `stop`, answers to pairing requests | every pairing request reaches it and is answered; its flag follows BlueZ |
| `UHIDDevice` | `/dev/uhid` descriptor, event thread | `create`, `destroy`, `sendInputReport` | nothing is left behind when it has no device; requests of the kernel are answered; `destroy()` returns. Not in the CMake build |
| `config.h`, `logger.h` | constants, syslog macros | | |

Hard behaviours: descriptor numbers that outlive their file; one report buffer
written by many threads; a notification queued after the lock was dropped; the
blocking D-Bus calls made by the thread that should answer BlueZ; detached
threads at shutdown; reading and writing on one stdio stream; crashes and
restarts of the daemon and of bluetoothd.  `PROJECT.json` lists each at its
line under "hazards".

## 2. Modules

Each component has one specification module.  An `MC...` module extends it with
what TLC needs (symmetry, sets of commands or characters), and a
`...Proofs` module with the theorems.  An operator whose comment begins with
`Fault:` is not part of a specification: it is a deliberately faulty variant of
the operator below it, kept to confirm that a property can fail.

### BlueZProfile (`src/src/bluez_profile.cpp`)

Files are kept apart from the numbers that name them: `fdtab` is the kernel's
table, `new_fd`, `old_fd` and `sfd` are the numbers that threads hold in local
variables.  `messageHandler` is split where other threads can run, at the
exchange, the close, the start of the reader and the callback
(`NewConnection`, `CloseOld`, `SpawnReader`, `ConnectedCallback`; likewise for
`RequestDisconnection`).  A reader thread is `ReadCall`, `ReadData`/`ReadEnd`,
`ReaderClears` (the compare-and-swap), `ReaderCallback`, `ReaderCloses`.  A
sender is `SendLoads` and `SendReturns`.  `close()` does not wake a thread that
is blocked in `read()`, and such a thread holds the file until the call returns.

The kernel hands out the lowest free number, as POSIX demands, the moment it is
closed (`Available`), to the next connection or to any other file of the
process (`Others`: IPC clients, D-Bus).  Two facts about a run are remembered:
`clash`, a number was handed out that a thread of the profile had still to
close, and `cut`, the handler or `main` took a number out of the slot that no
reader had cleared.  They sort the properties:

* what holds always: `WatchedUntilCleared`, `NoLeak`, `SocketReleased`;
* what holds until the first `clash`: `StoredFdIsNewest`,
  `ClearsOwnUnlessClash` and the refinement.  A clash is therefore the one way
  in which the slot goes wrong;
* when no clash can happen: as long as there was no `cut`
  (`InTurnHarmless`), that is, while every host leaves by itself and its reader
  notices before the next one comes.  With a `cut` the number is closed twice,
  by the handler and by the reader;
* what a reader of the code expects and what does not hold:
  `ReaderClearsOwn`, `OthersIntact`, `SenderAimed`, each shown violated by a
  run of its own.  `SenderAimed` fails even without a clash, since a sender
  holds a number that it never closes.

`HostSlot` says what the profile promises its callers: one slot with the newest
host or nobody.  `Slot == INSTANCE HostSlot WITH ...` maps the published number
to the file it names, and `clash` to `broken`, after which the slot promises
nothing.  `ImplementsHostSlot` is checked by the run and proved.

### ReportPath (`hid_reporter.cpp`, `main.cpp`, `gatt_application.cpp`)

A command of an IPC client down to both hosts.  `keyboard_report_` has no
lock, so each of its bytes 0 (modifier) and 2 (key) is stored and loaded in a
step of its own; the other six are always zero.  `Fill`, `StoreMod`, `StoreKey`
are `keyPress`/`keyRelease`; `CheckRegistered` to `Emit` are
`GattApplication::sendInputReport`, in which the copy is made under `mutex_`
and the notification built and queued after it; `ClassicLoads` and
`ClassicWrites` are the second half of main's send callback.  A command is
abstracted to the sequence of reports it puts into the buffer.  `OneClient`
marks what holds only as long as one client has issued commands.  Two steps
are coarser than the code: `fill(0)` clears both bytes at once, and
`ClassicLoads` copies both.

`KeyStream` is what a client may count on while it is alone: a stream of
strokes, each stored, then sent to the BLE host, and sent to the Classic host,
whole, once to each, before the next one is.  A host that listens when its turn
comes must be told; only these are passed over (`Excused`): a host that does
not listen, one that began to listen in the middle of the stroke (`late`), and
the store and the BLE host after `gatt.stop()`.  `Stream == INSTANCE KeyStream
WITH ...` takes the strokes from the client's `todo`, the receivers that had
their turn from where it is in the code (`Offered`), their last reports from
`input_report` and the hosts (`Has`), and who listens from `notify_enabled` and
`classic` (`Listening`); from the second client's first command on all are
empty, since nothing of this is true any more.  `late` is a Classic host that
connected after the descriptor of an earlier one was loaded (`lost`).
`ImplementsStream` is checked by the run and proved.

### IpcServer (`ipc_server.cpp`, `main.cpp`)

`Procs` are successive runs of the daemon, so that crashes and restarts meet
the socket file a killed run left behind.  Main thread: `Socket` to
`SpawnAcceptor` (start), `Stop` to `Exit` (stop, the clean-up of main, the end
of the process).  Accept thread: `AcceptCheck`, `AcceptCall`, `AcceptClient`,
`SpawnHandler`, `AcceptWoken`.  Client thread: `Fdopen`, `FillBuffer`,
`ReadLine`, `Execute`, `Reply`, `Fclose`.  A line is a kind, not text; a line of 1024 bytes or more is
two chunks, which is what `fgets` makes of it.  `Reply` has the outcomes of
writing to a stream with unread input in its buffer (undefined in C without a
seek in between): the unread input is gone, and the answer may be.  glibc 2.36
on a socket loses both.

`CommandChannel` is what the socket promises a client that waits for each
answer; `Channel == INSTANCE CommandChannel` takes its two variables, `conn` and
`owed`, from the server's own, and `ImplementsChannel` is checked through
crashes, restarts and shutdown.

One run at a time is assumed (`Socket`).  Nothing in the code enforces it: a
second daemon would remove the file of the first (`ipc_server.cpp:31`).

### GattApplication (`gatt_application.cpp`)

The daemon's main thread, the D-Bus connection as two FIFO queues, and the part
of BlueZ that the daemon talks to.  `Call`/`TakeReply`/`GiveUp` are
`dbus_connection_send_with_reply_and_block`; each `Handle...` action is one
branch of `onMessage`; `Bluez...` and `Host...` are the environment.
`ManagedObjects`, `ReadValue` and `GetAll` are the three attribute tables the
source writes out separately.

`Inline` says whether handlers run while a call blocks.  The comment at
`gatt_application.cpp:347-348` takes it for granted; libdbus reads until the
reply has come and leaves everything else queued.  The run takes the comment's
word (`Inline = TRUE`), since otherwise there is nothing after registration to
look at.  What libdbus does is theorem `NeverRegisters`: with `Inline = FALSE`
the application is never registered, whatever BlueZ does.  The other theorems
hold for either value.

`HandleCharacteristicWrite` has the writes that can change something: those of
the protocol mode, with a value.  An empty write, and writes to any other
characteristic, are answered and change nothing.

### HidReporter (`ipc_server.cpp`, `hid_reporter.cpp`)

One caller.  `processCommand` is four actions (`LinePresses`, `LineReleases`,
`LineTypes`, `LineChangesNothing`).  A line is a record: the command in either
case, the numbers of KEY_PRESS, the characters after TYPE; the blanks between
words, which `>>` skips, are not kept.  Letters and digits stand for themselves,
other characters have their X11 names.  A number is a sign and a value, and
`strtoul` saturates and wraps it in 16 bits instead of 64.  The key map and the
shift table are translated entry by entry, as tables whose rows are found by
their first column, and a host with the US layout of the
HID usage tables (`UsLayout`) decodes the reports.  `TypeString` stands for a direct caller, the only way for a line
feed to be typed.

The host is reached over one of `Links`.  It comes and goes at any time, and
the BLE application may be unregistered under a running command (`main`'s
clean-up does not wait for the client threads).  A press or release is answered
with what `GattApplication::sendInputReport` returned (`SendBuffer`): OK when
the application is registered, even if no host has subscribed, and ERROR when
it is not, even if a Classic host was sent the report.  TYPE is answered OK
even if nobody was sent anything.

### Daemon (`main.cpp`, `bt_adapter.cpp`, `bt_agent.cpp`)

The main thread from `main()` to exit.  `todo` holds what it has still to do:
`StartUp` (settings, agent, GATT, profile, socket), after the loop `CleanUp`,
and on every `return 1` the destructors of what was constructed (`Destroy`).
`Call` and `Returns` are a blocking call that is answered, refused or times
out; `SetClassOfDevice` is `system()`.  `installed` are the handlers on the
shared connection and `Route` is libdbus's choice among them: filters, then the
exact path, then the fallback.  `Dispatch` handles one call of BlueZ; a pairing
request of any kind is `pair`.  BlueZ may refuse, be late, or restart, the
process may be killed or lose the bus, and SIGINT or SIGTERM may come at any
step (ignored by `system()` while the tool runs, if it is SIGINT).  That
`dbus_bus_get()` fails is left out; it ends the program before it began.

The three registrations of `gatt` are one call here, with one outcome: their
order, their flags, and the application that stays registered when its
advertisement is refused are GattApplication's subject.  `SetClassOfDevice`
always calls the tool (the test of the adapter's name cannot fail for
`config.h`'s index 0), and the tool is assumed to end.  Here a handler cannot
run during a blocking call, as with libdbus.  An answer that comes after the
call was given up is read and dropped, also while the main thread is in
`system()`.

### UhidDevice (`uhid_device.cpp`)

The owner's `create()` (`OpenFails`, `Open`, `CreateFails`, `GiveUp`,
`WriteCreate`, `StartThread`, `Created`) and `destroy()` (`Destroy`,
`WriteDestroy`, `Join`, `CloseFd`), and the event thread (`TestRunning`,
`ReadEvent`, `ReadFails`, `Reply`).  The kernel is external, after Linux's
`drivers/hid/uhid.c`: a worker binds a driver some time after UHID_CREATE2 or
fails; UHID_DESTROY queues UHID_STOP only if a driver was bound; a full queue
drops events; one report request is outstanding, and a reply counts only with
its kind and id.  A blocked `read()` is woken by an event and by nothing else.
A file's number may go to another file as soon as it is closed.

### How they fit together

ReportPath takes the Classic socket as a flag; what can happen to its
descriptor between the check and the write is BlueZProfile's subject.
GattApplication stores a report in one step (`StoreReport`); what happens
around that step is ReportPath's.  IpcServer's `Execute` is one of
HidReporter's lines, and one of ReportPath's commands.  Daemon orders the life
of all of them; its `StopIpc`, `StopGatt` and `StopProfile` are one step where
the modules of these components have several.  UhidDevice stands alone.  The
components share no other state than these.

## 3. Runs

| run | instance | question |
|---|---|---|
| `BlueZProfile` | 2 connections, 1 other file, 2 numbers, 1 sender, fairness | is the published number always watched, does nothing leak, is every ended connection released; is the profile a slot for one host until a number is handed out too early, and can that happen while hosts come in turn? |
| `BlueZProfileClearsNewer` | 2 connections, 1 other file, 2 numbers | **violated**: may a reader clear a newer connection? |
| `BlueZProfileClosesOther` | 1 connection, 1 other file, 2 numbers | **violated**: may a reader close a file that is not the profile's? |
| `BlueZProfileSendsAstray` | 1 connection, 1 other file, 2 numbers, 1 sender | **violated**: may a report be written to a file that is not the host's? |
| `ReportPath` | 2 clients, one with 2 commands, TYPE among them, and one with 1 press or release, both hosts, fairness | does the stored report end as the keyboard report whatever the interleaving; is every command answered; with one active client, does every host get what was asked, and is the whole one stream of strokes? |
| `ReportPathStuckKey` | 2 clients, 2 commands each | **violated**: does the host hold no key after every client released? |
| `IpcServer` | 2 runs, 2 clients, 2 lines each, 2 descriptors, clients wait for each answer | does a run find its socket's name free, does the file lead to the serving run, has each connection its thread; is the whole one channel, with one answer to each command? |
| `IpcServerLive` | 1 run, 2 clients, 1 line each (also long, also QUIT after a blank) | does `stop()` return, are queued clients served, do the short commands get their answers? |
| `GattApplication` | BlueZ accepts, refuses, hangs or restarts once; 3 waiting calls | do the flags follow BlueZ, do the tables agree, is nothing left registered, do `start()` and `stop()` return? |
| `HidReporter` | all texts of up to 2 of the layout's characters, after each key press left down by a line with 0 to 2 of 4 numbers; a host on either link that comes and goes, the application unregistered at any step | does a host that stays read what was written, and is nothing held afterwards; is a documented key press or release obeyed, or answered ERROR? |
| `Daemon` | 3 calls of BlueZ, 1 restart of it, any signal, refusal, timeout or kill, fairness | does a signal end the process; does each request reach its component, and get its turn; do handlers go before their objects, and is only what was constructed destroyed; does the agent's flag follow BlueZ? |
| `UhidDevice` | 2 numbers, a queue of 2, 3 requests, fairness | is nothing left behind, no other file touched, each request answered; does `destroy()` return? |

Every component's module states its type invariant as `TypeOK`, and in each it
is a theorem (`TypeCorrect`); the run `BlueZProfile` also checks it.

`CHECK_DEADLOCK FALSE` stands where the program may really stop: the commands
of the bounded clients are used up, or the process has exited.

Why the bounds are enough.  *BlueZProfile*: every hazard takes an old
connection, whose number is closed twice or still held by a sender, and a third
party that is given the number: the newer connection or the other file.  Two
numbers fill up, so that -1 is stored too.  The theorems cover any number of
each.  *ReportPath*: two clients suffice for every conflict on one buffer, and
a second command of one, or its TYPE of a character, for the press and release
that the other interrupts; two TYPEs at once are in `ReportPathStuckKey`, and
in the theorems.
*IpcServer*: two runs for a crash and a restart, two clients for one in the
backlog while another is served, two descriptors so that `accept()` can fail.
*GattApplication*: three waiting calls let a subscription, its end and a release
cross the daemon's own calls.  *HidReporter*: a text of two has the doubled
letter and every pair of neighbours; a report depends on nothing older.  The
text is the last command (`TextFrom`): another text before it leaves nothing
that a key press does not.
Its four numbers are none, a key, and the same key as a number beyond a byte
and as a negative one.  *Daemon*:
three requests are one for each component, or a Release between two others; a
second restart adds nothing to the first, since nothing notices it.
*UhidDevice*: the queue of two overflows with a request in it, and the third
request meets the late reply to the first.

### Fairness

* Every thread of the daemon is scheduled: weak fairness of its steps
  (`Handler`, readers, client steps, `MainStep`, `AcceptStep`, `Main`,
  `Handle`, `OwnerReturns`, `EventLoop`).  No step waits for a condition that comes and goes, except `Lock`
  on `mutex_`: its clients issue finitely many commands, so weak fairness is
  enough there too.
* BlueZ drops a Classic link after it asked for it to be given up.  No fairness
  for hosts: none must connect, send or leave.  In `GattApplication` not even
  BlueZ is fair (`MainSpec`): the blocking calls time out.
* In `Daemon` fairness of `Main` includes the timeout of each blocking call,
  which libdbus guarantees (25 s where the code passes -1).  In `UhidDevice`
  nothing is asked of the kernel, not even that it gives a request up.
* Nothing forces a signal, a crash, a command or a client.

### What the violated runs show

* **BlueZProfileClearsNewer.**  The comment at `bluez_profile.cpp:77-78` says
  the number is cleared "only if it still matches the one this thread was
  reading, to avoid clearing a newer FD".  It compares numbers: after
  `RequestDisconnection` closed the number, a new connection can be given the
  same one, and the old reader takes it away.
* **BlueZProfileClosesOther.**  The comment at `bluez_profile.cpp:88` speaks of
  "our copy of the FD"; the thread has no copy, only the number that the
  handler closed.  Another file that got it meanwhile is closed.
* **BlueZProfileSendsAstray.**  `sendInputReport()` is documented to write "to
  that socket" (`bluez_profile.h:13`).  It loads the number once and writes to
  it later, when it may name another file: a report then goes there.
* **ReportPathStuckKey.**  A notification built by one client before, and
  queued after, another client's release leaves the key down on the host,
  while the stored report is empty.

### Other disagreements met while modelling

Not checked, because each can be read off one place of the code.

* `bluez_profile.cpp:79` says a failed compare-and-swap "means a new connection
  replaced this one"; it also fails after `RequestDisconnection`, line 116.
* The reader is started before `conn_callback_(true)` (`bluez_profile.cpp:100`):
  a short connection can report `false` first and `true` last.
* The type callback answers OK whatever the transports returned
  (`main.cpp:181`); a key press is answered ERROR if the BLE application is not
  registered, though a Classic host received it (`main.cpp:159-164`).
* BlueZ asks for `GetManagedObjects` before it replies, and the comment at
  `gatt_application.cpp:347-348` expects that the handler "processes it inline"
  while the call blocks.  libdbus leaves it queued: the call times out, and
  `main` returns 1 (theorem `NeverRegisters`).
* `fprintf` follows `fgets` on one stream without repositioning
  (`ipc_server.cpp:112-113`), which C leaves undefined while input is buffered.
  Two commands sent at once: the second is not executed and, with glibc,
  neither is answered; the rest of a line longer than the buffer is lost in the
  same way.  `Reply` has these outcomes, so `ImplementsChannel` holds for
  clients that wait.
* `accept()` failing once, for want of a descriptor, ends the accept loop for
  good (`ipc_server.cpp:84`); `ClientsAreServed` holds only with descriptors
  enough.
* A client thread can run a command while `main` destroys the server and the
  reporter (`ipc_server.cpp:90`); the comment above it says handlers "finish
  naturally".
* `QUIT` after a blank is answered OK and the connection stays
  (`ipc_server.cpp:116`); a line longer than the buffer is two commands.
* The STATUS answer is documented as `STATUS connected=<0|1>`
  (`ipc_server.h:24`); `main.cpp:188-190` words it differently.
* `output_cb_` is reachable only for CHAR4, which hosts may not write
  (`gatt_application.cpp:640, 784`).
* Nothing notices a restart of bluetoothd: `isConnected()` and `registered_`
  stay as they were.
* `bt_agent.h:18` asks for a powered adapter and `main` ignores whether powering
  succeeded; the adapter is discoverable and pairable before the agent exists
  (`main.cpp:97-104`), though `bt_agent.cpp:136` wants "all pairing" to go
  through it.
* `RegisterAgent` timing out leaves BlueZ with an agent whose handler is gone
  (`bt_agent.cpp:89, 129`): `RequestsReachOwner` excepts it.
* The agent's Introspect is answered by the profile's filter, which looks at
  every path (`bluez_profile.cpp:40`).  `UnregisterProfile` is sent twice, by
  `main` and by the destructor, also if the profile was never registered.
* `bt_adapter.cpp:201` caps the adapter's number at 99; a name of six
  characters is `hci100` and passes.  `bt_adapter.h:15` promises that the
  adapter's path is validated; `init` does not look.
* `dispatchFor` (`main.cpp:57`) has no caller.
* `destroy()` hangs if no driver was bound to the device (`uhid_device.cpp:87`),
  for instance right after `create()`; `isCreated()` stays true for a device
  that the kernel could not add.
* `test_hid_reporter.cpp:9` says `keyCombo()` calls the send callback twice;
  it does not, and lines 115-119 of the same test say so.

## 4. Proofs

Theorems hold for all values of the constants, under the modules' named
assumptions, which TLC evaluates on every run: `FilesAssumption` (numbers,
connections and other files are distinct things), `CommandsAssumption` (commands
are well formed, zero is a modifier and a key), `IpcAssumption`,
`DaemonAssumption`, `GattAssumption`, `HidAssumption` and `UhidAssumption` (the
bounds are numbers, -1 is no descriptor, a queue holds something, the inputs are
of their types).  No theorem assumes a finite set.  A theorem that needs more
says so: `Patient`, `~Inline`.

Each proof has the same outline.  The property is not inductive; the module of
proofs names the strengthening, shows that every action keeps it, with one step
for each action, and that it implies the property.  What the strengthenings
say is the argument for the code:

**BlueZProfileProofs**

* `TypeCorrect`: `Spec => []TypeOK`.
* `Watched` (`WatchedUntilCleared`) and `NothingLeaks` (`NoLeak`), whatever is
  reused.  Neither is inductive.  The strengthening says what each place of the
  handler and of each reader implies for `newest`, `new_fd` and the table: a
  connection not yet seen has no number and no reader, and a number that names a
  connection is the one its own reader captured.
* `InTurn` (`InTurnHarmless`).  `InOrder` says, for a run without a `cut`, that
  every number a reader has still to close names that reader's connection, and
  that the handler holds none; so no close can be the second one.
* `NewestOnly`, and for the action property `ClearsOwnUnlessClash`
  `ReadersClearOwn`.  The strengthening (`Exclusive`) says that, without a
  `clash`, a number some thread has still to close names that thread's own file
  or nothing, and the published one the newest host's.
* `ImplementsSlot`: every step of the profile is a step of `HostSlot` or a
  stutter (lemma `SlotStep`, from `Exclusive`).

**ReportPathProofs**

* `TypeCorrect`: `Spec => []TypeOK`.
* `StoredCorrect` (`StoredIsCurrent`) and `NoKeyLeft` (`NoKeyLeftStored`), for
  any number of clients.  Three ideas make them inductive.  `Locked`: who is
  between the lock and the store holds `mutex_`.  `Fresh`: if nobody is `Dirty`
  (has written the buffer and has still to copy it), the stored report is the
  buffer, byte by byte as far as a copy has come; a copy that reads a torn
  report is repaired by whoever is dirty then.  `Pressed`: a key in the buffer
  belongs to some client whose last stroke was a press.
* `OwnStrokeSent` (`SendsOwnStroke`) and `HostsAreTold` (`HostsFollow`), which
  hold when one client is active (their statement says so).  `Reaches` follows
  the stroke through the buffer, the copy, the stored report and both loads;
  `BleTold` and `ClassicTold` say that a host either has the last report or the
  client is on its way to it.
* `IsStream` (`ImplementsStream`), with no condition on the clients: every step
  is a step of `KeyStream` or a stutter.  `Reaches` gives the report that a
  listening receiver is told, `OnlyOne` that no other client has a step of its own while
  the stream lasts; the second client's first command is the step `Crowd`.

**IpcServerProofs**

* `TypeCorrect`; `PathLeads` (`PathLeadsToServer`) from `OneRun` (one process
  runs at a time) and `Bound` (the name is free between the first `unlink()`
  and `bind()`, and from there to the last `unlink()` the file is this run's,
  whatever a crashed run left); `OpenHandled` (`OpenIsHandled`) from
  `Handled` (between `accept()` and the detached thread there is at most one
  connection, the accept thread's); and the action property `NoneStarted`
  (`NoneAfterStop`) from `Joined` (the accept thread exists only between start
  and join).
* `IsChannel`: the server implements `CommandChannel`, for clients that are
  `Patient` (each waits for its answer and sends no line longer than the
  buffer); `fprintf` after `fgets` makes it false for others.  `Asked` is why:
  when a patient client's answer is written, the stdio buffer is empty.

**DaemonProofs**

* `TypeCorrect`, and `Outlived` (`HandlersOutlived`) from `Plan` (where in the
  start-up or clean-up the main thread is, told by what is left in `todo`, and
  that the clean-up stops or destroys nothing it has destroyed) and `Built`
  (which objects and handlers exist at each step of the start-up).
* `RequestsReach` (`RequestsReachOwner`) from `Calls` (the call waited for is
  the last in the outbox or has been answered) and `Asked` (BlueZ can have a
  request for the agent only when the agent has its handler, or its registration
  was given up), and `AgentFlag` (`AgentFlagFollows`) from `Stands` (until a
  restart, a registered agent is known to BlueZ or its Release is on its way).
* These proofs found two mistakes of the model, since corrected: a late answer
  that comes during `hciconfig` was taken for the answer to a call, and two arms
  of `Route` overlapped.

**GattApplicationProofs**, for either value of `Inline` except the last

* `TypeCorrect`.
* `ReadsFollow` (`ReadsSeeWrites`).  `ModeSeen` looks through the queue: what
  the protocol mode will be when the messages before a read have been handled is
  what the host wrote last before it asked.
* `ServesWhatIsKnown` (`KnownWhileServing`) from `Fresh`: until bluetoothd
  restarts, the messages in the two queues that are not a host's are exactly one
  conversation, at one of its stages.  `ConnectedIsSubscribed` (`NotifyFollows`)
  from `NotifySeen`, which is to `notify_enabled_` what `ModeSeen` is to the
  mode; it needs `Fresh`, since an unregistered application loses its
  subscribers.
* `StopLeavesNothing` (`StopUnregisters`), whatever restarts.  `Ask` says of
  each registration that while it is on its way nothing else of it is anywhere;
  and that what the daemon does not believe in (`registered_` false, and not
  waiting for it) BlueZ does not have either, or an unregistration is behind it
  in the queue.  A registration that was given up is excepted, as in the
  property: the daemon never undoes it.
* `ReadsAreAnnounced` (`TablesAgree`) is about definitions alone, for all their
  values: a path that `ManagedObjects` lists as readable has there the value that
  `ReadValue` answers, and what `GetAll` answers is what is listed.
* `NeverRegisters` (`NotRegistered`), for `~Inline`: while the daemon waits
  it answers no request for the objects (`Unanswered`), and without the answer
  BlueZ does not accept.

**HidReporterProofs**

* `LinesAnswered` (`LinesObeyed`), for any words as numbers, whatever becomes
  of the link and the registration meanwhile.  `LineStands`: from the parsing of
  a press or release to its answer, the buffer or the host that stayed has the
  stroke it asks for, and a host that got nothing has the one it had.  `ByteKept` is the arithmetic: `strtoul` and the cast to
  `uint8_t` change no number that fits a byte.
* `HostReads` (`HostReadsText`), for texts of any length.  `TextStands`: what the
  host has read is the part of the text typed so far that the key map has keys
  for, in order (`Picks`), and until the first of these characters the host
  still has the report it had before: the first one is lost if its key was down
  in it, and no other.  `PicksOneMore` extends this by one
  character.
* `KeyMapRight` is about definitions alone: the source has a key for exactly the
  characters of the layout, and `UsLayout` reads each of them from the stroke
  that `StrokeOf` finds for it.  It is shown entry by entry, from the tables as
  the source writes them.
* `TypeCorrect`.

**UhidDeviceProofs**

* `TypeCorrect`, `Clean` (`NothingLeft`), `ReaderSafe` (`ReaderKeepsFile`) and
  `OthersSafe` (`OthersIntact`), for any numbers, queue length and requests.
  The invariant `Owned` says who holds what: from `open()` to `close()` `fd_` is
  the only `/dev/uhid` of the process, and the event thread exists only between
  its start and the join.

Only model-checked: liveness (`SocketReleased`, `Answered`, `StopReturns`,
`ClientsAreServed`, `AnswersCome`, `CallsReturn`, `SignalEndsDaemon`,
`RequestsAnswered`, `DestroyReturns`), which is beyond the prover.

## 5. Not modelled

* `config.h`, `logger.h`: no behaviour.  The mouse operations of HIDReporter and
  the getters of BluetoothAdapter, which nothing calls.
* The wording of answers, failures to allocate a D-Bus message, the bytes of the
  advertisement and of the SDP record.
* Two daemons at once, and several threads calling one `UHIDDevice`: nothing in
  the code says that they may, and nothing would make them safe.

## 6. Plan

All components are modelled except the mouse, and every invariant and action
property that the passing runs check is a theorem, as are the three
refinements.  What is left:

1. An abstract registration for GattApplication, as a two-sided agreement that
   holds until bluetoothd restarts (`Fresh` is its refinement mapping).
2. The mouse operations of HIDReporter, should a caller appear.
