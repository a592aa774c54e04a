----------------------------- MODULE ReportPath -----------------------------
(***************************************************************************)
(* The way of a keystroke: from the IPC client threads through the one     *)
(* keyboard report of HIDReporter and the stored characteristic of         *)
(* GattApplication to the hosts.                                           *)
(*   hid_reporter.cpp      keyPress, keyRelease, typeString                *)
(*   main.cpp              the send, key press, key release, type callbacks*)
(*   gatt_application.cpp  sendInputReport, Start/StopNotify               *)
(*                                                                         *)
(* keyboard_report_ has no lock: each of its bytes is stored and loaded by *)
(* a step of its own.  input_report_ and notify_enabled_ are under mutex_, *)
(* but a notification is built after the lock is dropped, from the shared  *)
(* keyboard report.  A report is a record of its modifier byte [0] and its *)
(* key byte [2]; the other six bytes are always zero.                      *)
(***************************************************************************)
EXTENDS Integers, Sequences

CONSTANTS
    Clients,        \* IPC client threads
    Keys, Mods,     \* key codes and modifier masks a command may name
    Commands,       \* the commands clients issue: [kind, strokes]
    MaxCommands,    \* bound: how many commands each client issues
    MaxStrokes,     \* bound: how many strokes each of its commands has
    HasClassic,     \* whether a Classic host may connect
    HostLeaves,     \* whether a subscribed BLE host may unsubscribe
    NoClient        \* nobody holds mutex_

Reports == [mod : Mods, key : Keys]
Zero == [mod |-> 0, key |-> 0]

(* A command is the sequence of reports it puts into the buffer: one for   *)
(* KEY_PRESS, Zero for KEY_RELEASE, report and Zero in turn for TYPE (the  *)
(* characters typeString cannot map contribute none).                      *)
Kinds == {"press", "release", "type"}

WellFormed(cmd) ==
    CASE cmd.kind = "press"   -> Len(cmd.strokes) = 1 /\ cmd.strokes[1] # Zero
      [] cmd.kind = "release" -> cmd.strokes = <<Zero>>
      [] cmd.kind = "type"    ->
            /\ Len(cmd.strokes) % 2 = 0
            /\ \A i \in 1..Len(cmd.strokes) :
                  (cmd.strokes[i] = Zero) <=> (i % 2 = 0)

ASSUME CommandsAssumption ==
    /\ 0 \in Mods /\ 0 \in Keys
    /\ Commands \subseteq [kind : Kinds, strokes : Seq(Reports)]
    /\ \A cmd \in Commands : WellFormed(cmd)
    /\ MaxCommands \in [Clients -> Nat] /\ MaxStrokes \in [Clients -> Nat]
    /\ HasClassic \in BOOLEAN /\ HostLeaves \in BOOLEAN
    /\ NoClient \notin Clients

NotSeen == [mod |-> -1, key |-> -1]   \* a host that has no report yet

VARIABLES
    keyboard_report,    \* HIDReporter::keyboard_report_, bytes 0 and 2
    input_report,       \* GattApplication::input_report_
    mutex,              \* who holds GattApplication::mutex_
    registered,         \* registered_: TRUE until stop()
    notify_enabled,     \* the BLE host subscribed
    ble_view,           \* the last report the subscribed BLE host was sent
    classic,            \* a Classic host is connected
    classic_view,       \* the last report written to it
    lost,               \* the threads whose descriptor's host has left
    pc,                 \* where each client thread is
    todo,               \* the strokes it has still to send, the current first
    tmp,                \* the bytes it has loaded
    down,               \* its last stroke pressed a key (history)
    issued              \* commands it has issued (bounded)

vars == <<keyboard_report, input_report, mutex, registered, notify_enabled,
          ble_view, classic, classic_view, lost, pc, todo, tmp, down,
          issued>>

hostVars == <<registered, notify_enabled, classic, lost>>

Pcs == {"idle", "stroke", "mod", "key", "check", "lock", "copy", "store",
        "load_mod", "load_key", "emit", "classic", "write", "next"}

TypeOK ==
    /\ keyboard_report \in Reports
    /\ input_report \in Reports
    /\ mutex \in Clients \cup {NoClient}
    /\ registered \in BOOLEAN
    /\ notify_enabled \in BOOLEAN
    /\ ble_view \in Reports \cup {NotSeen}
    /\ classic \in BOOLEAN
    /\ classic_view \in Reports \cup {NotSeen}
    /\ lost \subseteq Clients
    /\ pc \in [Clients -> Pcs]
    /\ todo \in [Clients -> Seq(Reports)]
    /\ tmp \in [Clients -> Reports]
    /\ down \in [Clients -> BOOLEAN]
    /\ issued \in [Clients -> Nat]

Init ==
    /\ keyboard_report = Zero
    /\ input_report = Zero
    /\ mutex = NoClient
    /\ registered = TRUE
    /\ notify_enabled = FALSE
    /\ ble_view = NotSeen
    /\ classic = FALSE
    /\ classic_view = NotSeen
    /\ lost = {}
    /\ pc = [c \in Clients |-> "idle"]
    /\ todo = [c \in Clients |-> << >>]
    /\ tmp = [c \in Clients |-> Zero]
    /\ down = [c \in Clients |-> FALSE]
    /\ issued = [c \in Clients |-> 0]

Goto(c, from, to) == pc[c] = from /\ pc' = [pc EXCEPT ![c] = to]

-----------------------------------------------------------------------------
(* processCommand calls one of main's callbacks.                           *)
Issue(c) ==
    /\ Goto(c, "idle", "stroke")
    /\ issued[c] < MaxCommands[c]
    /\ issued' = [issued EXCEPT ![c] = @ + 1]
    /\ \E cmd \in Commands :
        /\ Len(cmd.strokes) <= MaxStrokes[c]
        /\ todo' = [todo EXCEPT ![c] = cmd.strokes]
    /\ UNCHANGED <<keyboard_report, input_report, mutex, hostVars, ble_view,
                   classic_view, tmp, down>>

(* The callback returns, and processCommand with it.                       *)
Answer(c) ==
    /\ todo[c] = << >>
    /\ Goto(c, "stroke", "idle")
    /\ UNCHANGED <<keyboard_report, input_report, mutex, hostVars, ble_view,
                   classic_view, todo, tmp, down, issued>>

-----------------------------------------------------------------------------
(* Fault: keyRelease does not clear the report.                            *)
FillKeeps(c) ==
    /\ todo[c] # << >>
    /\ Goto(c, "stroke", IF Head(todo[c]) = Zero THEN "check" ELSE "mod")
    /\ keyboard_report' =
          IF Head(todo[c]) = Zero THEN keyboard_report ELSE Zero
    /\ down' = [down EXCEPT ![c] = Head(todo[c]) # Zero]
    /\ UNCHANGED <<input_report, mutex, hostVars, ble_view, classic_view,
                   issued, todo, tmp>>

(* keyPress and keyRelease: three stores, or the fill(0) alone.            *)
Fill(c) ==
    /\ todo[c] # << >>
    /\ Goto(c, "stroke", IF Head(todo[c]) = Zero THEN "check" ELSE "mod")
    /\ keyboard_report' = Zero
    /\ down' = [down EXCEPT ![c] = Head(todo[c]) # Zero]
    /\ UNCHANGED <<input_report, mutex, hostVars, ble_view, classic_view,
                   issued, todo, tmp>>

(* Fault: the modifier is stored in the key's byte.                        *)
StoreModMisplaced(c) ==
    /\ Goto(c, "mod", "key")
    /\ keyboard_report' = [keyboard_report EXCEPT !.key = Head(todo[c]).mod]
    /\ UNCHANGED <<input_report, mutex, hostVars, ble_view, classic_view,
                   issued, todo, tmp, down>>

StoreMod(c) ==
    /\ Goto(c, "mod", "key")
    /\ keyboard_report' = [keyboard_report EXCEPT !.mod = Head(todo[c]).mod]
    /\ UNCHANGED <<input_report, mutex, hostVars, ble_view, classic_view,
                   issued, todo, tmp, down>>

StoreKey(c) ==
    /\ Goto(c, "key", "check")
    /\ keyboard_report' = [keyboard_report EXCEPT !.key = Head(todo[c]).key]
    /\ UNCHANGED <<input_report, mutex, hostVars, ble_view, classic_view,
                   issued, todo, tmp, down>>

-----------------------------------------------------------------------------
(* GattApplication::sendInputReport(keyboard_report_).                     *)

(* registered_ is read without the lock.                                   *)
CheckRegistered(c) ==
    /\ Goto(c, "check", IF registered THEN "lock" ELSE "classic")
    /\ UNCHANGED <<keyboard_report, input_report, mutex, hostVars, ble_view,
                   classic_view, issued, todo, tmp, down>>

Lock(c) ==
    /\ Goto(c, "lock", "copy")
    /\ mutex = NoClient
    /\ mutex' = c
    /\ UNCHANGED <<keyboard_report, input_report, hostVars, ble_view,
                   classic_view, issued, todo, tmp, down>>

LoadMod(c) == tmp' = [tmp EXCEPT ![c].mod = keyboard_report.mod]
LoadKey(c) == tmp' = [tmp EXCEPT ![c].key = keyboard_report.key]

(* The copy under the lock: the lock does not protect its source.          *)
Copy(c) ==
    /\ Goto(c, "copy", "store")
    /\ LoadMod(c)
    /\ UNCHANGED <<keyboard_report, input_report, mutex, hostVars, ble_view,
                   classic_view, issued, todo, down>>

(* Fault: the copy is a byte short.                                        *)
StoreShort(c) ==
    /\ Goto(c, "store", IF notify_enabled THEN "load_mod" ELSE "classic")
    /\ LoadKey(c)
    /\ input_report' = [input_report EXCEPT !.mod = tmp[c].mod]
    /\ mutex' = NoClient
    /\ UNCHANGED <<keyboard_report, hostVars, ble_view, classic_view, issued,
                   todo, down>>

(* Fault: the lock is not given back.                                      *)
StoreKeepsLock(c) ==
    /\ Goto(c, "store", IF notify_enabled THEN "load_mod" ELSE "classic")
    /\ LoadKey(c)
    /\ input_report' = tmp'[c]
    /\ UNCHANGED <<keyboard_report, mutex, hostVars, ble_view, classic_view,
                   issued, todo, down>>

Store(c) ==
    /\ Goto(c, "store", IF notify_enabled THEN "load_mod" ELSE "classic")
    /\ LoadKey(c)
    /\ input_report' = tmp'[c]
    /\ mutex' = NoClient
    /\ UNCHANGED <<keyboard_report, hostVars, ble_view, classic_view, issued,
                   todo, down>>

(* appendAyVariant reads the shared report again, without the lock.        *)
NotifyLoadsMod(c) ==
    /\ Goto(c, "load_mod", "load_key")
    /\ LoadMod(c)
    /\ UNCHANGED <<keyboard_report, input_report, mutex, hostVars, ble_view,
                   classic_view, issued, todo, down>>

NotifyLoadsKey(c) ==
    /\ Goto(c, "load_key", "emit")
    /\ LoadKey(c)
    /\ UNCHANGED <<keyboard_report, input_report, mutex, hostVars, ble_view,
                   classic_view, issued, todo, down>>

(* The signal is queued; BlueZ forwards it if the host still listens.      *)
Emit(c) ==
    /\ Goto(c, "emit", "classic")
    /\ ble_view' = IF notify_enabled THEN tmp[c] ELSE ble_view
    /\ UNCHANGED <<keyboard_report, input_report, mutex, hostVars,
                   classic_view, issued, todo, tmp, down>>

-----------------------------------------------------------------------------
(* profile.isConnected() and the load of profile.sendInputReport().        *)
ClassicLoads(c) ==
    /\ IF classic
       THEN /\ Goto(c, "classic", "write")
            /\ tmp' = [tmp EXCEPT ![c] = keyboard_report]
       ELSE Goto(c, "classic", "next") /\ UNCHANGED tmp
    /\ UNCHANGED <<keyboard_report, input_report, mutex, hostVars, ble_view,
                   classic_view, issued, todo, down>>

(* The descriptor loaded names the host that was connected then, not one   *)
(* that came since; what else its number may name is BlueZProfile's subject*)
ClassicWrites(c) ==
    /\ Goto(c, "write", "next")
    /\ classic_view' =
          IF classic /\ c \notin lost THEN tmp[c] ELSE classic_view
    /\ lost' = lost \ {c}
    /\ UNCHANGED <<keyboard_report, input_report, mutex, registered,
                   notify_enabled, classic, ble_view, issued, todo, tmp, down>>

(* typeString sleeps and goes on; any other command is at its end.  What   *)
(* was loaded is forgotten.                                                *)
NextStroke(c) ==
    /\ Goto(c, "next", "stroke")
    /\ todo' = [todo EXCEPT ![c] = Tail(@)]
    /\ tmp' = [tmp EXCEPT ![c] = Zero]
    /\ UNCHANGED <<keyboard_report, input_report, mutex, hostVars, ble_view,
                   classic_view, issued, down>>

-----------------------------------------------------------------------------
(* The main thread: the hosts' requests, dispatched one by one, and stop().*)

clientVars == <<keyboard_report, input_report, mutex, issued, pc, todo, tmp,
                down>>

StartNotify ==
    /\ ~notify_enabled
    /\ registered
    /\ mutex = NoClient
    /\ notify_enabled' = TRUE
    /\ UNCHANGED <<clientVars, registered, classic, lost, ble_view,
                   classic_view>>

(* Both are dispatched by main's loop, which ends before stop().           *)
(* A host that stops listening forgets what it was told.                   *)
StopNotify ==
    /\ HostLeaves
    /\ notify_enabled
    /\ registered
    /\ mutex = NoClient
    /\ notify_enabled' = FALSE
    /\ ble_view' = NotSeen
    /\ UNCHANGED <<clientVars, registered, classic, lost, classic_view>>

ClassicConnects ==
    /\ HasClassic
    /\ ~classic
    /\ classic' = TRUE
    /\ UNCHANGED <<clientVars, registered, notify_enabled, lost, ble_view,
                   classic_view>>

ClassicDisconnects ==
    /\ classic
    /\ classic' = FALSE
    /\ classic_view' = NotSeen
    /\ lost' = {c \in Clients : pc[c] = "write"}
    /\ UNCHANGED <<clientVars, registered, notify_enabled, ble_view>>

(* gatt.stop() on shutdown clears registered_; client threads are detached *)
(* and may still be running.                                               *)
Unregister ==
    /\ registered
    /\ registered' = FALSE
    /\ UNCHANGED <<clientVars, notify_enabled, classic, lost, ble_view,
                   classic_view>>

-----------------------------------------------------------------------------
ClientStep(c) ==
    \/ Answer(c) \/ Fill(c) \/ StoreMod(c) \/ StoreKey(c)
    \/ CheckRegistered(c) \/ Lock(c) \/ Copy(c) \/ Store(c)
    \/ NotifyLoadsMod(c) \/ NotifyLoadsKey(c) \/ Emit(c)
    \/ ClassicLoads(c) \/ ClassicWrites(c) \/ NextStroke(c)

Next ==
    \/ \E c \in Clients : Issue(c) \/ ClientStep(c)
    \/ StartNotify \/ StopNotify
    \/ ClassicConnects \/ ClassicDisconnects
    \/ Unregister

Spec == Init /\ [][Next]_vars

(* Every client thread is scheduled; nothing forces a client to issue a    *)
(* command or a host to subscribe.                                         *)
FairSpec == Spec /\ \A c \in Clients : WF_vars(ClientStep(c))

-----------------------------------------------------------------------------
(* Properties.                                                             *)

Quiet == \A c \in Clients : pc[c] = "idle"
AllReleased == Quiet /\ \A c \in Clients : ~down[c]

(* However the clients interleave, once every command is answered the      *)
(* stored characteristic is the keyboard report: the copy that reads the   *)
(* unlocked report while others write it is always repaired by the last.   *)
StoredIsCurrent ==
    registered /\ Quiet => input_report = keyboard_report

(* Once every command is answered and every client's last stroke was a     *)
(* release, both copies of the report are empty: a host that reads or      *)
(* re-subscribes later sees no stuck key.                                  *)
NoKeyLeftStored ==
    registered /\ AllReleased =>
        keyboard_report = Zero /\ input_report = Zero

(* No two clients have issued commands: what follows is all that one may   *)
(* count on, since HostReleased fails as soon as there are two.            *)
OneClient == \A c, d \in Clients : issued[c] > 0 /\ issued[d] > 0 => c = d

(* What a thread is about to send is the stroke it is executing: reports   *)
(* are neither torn, nor another client's, nor out of order.               *)
SendsOwnStroke ==
    OneClient => \A c \in Clients :
        pc[c] \in {"emit", "write"} => tmp[c] = Head(todo[c])

(* Between commands, a subscribed host's last notification is the stored   *)
(* report, and a Classic host's last report is the one in the buffer.      *)
HostsFollow ==
    OneClient /\ Quiet =>
        /\ ble_view # NotSeen => ble_view = input_report
        /\ classic_view # NotSeen => classic_view = keyboard_report

(* "KEY_RELEASE - release all keys": with every client done and released,  *)
(* the BLE host holds no key down.                                         *)
HostReleased == registered /\ AllReleased => ble_view \in {Zero, NotSeen}

(* Every command is answered, however many clients wait for mutex_: again  *)
(* and again there comes a time when all of them are.                      *)
Answered == []<>Quiet

(* Where the only client is: what it has still to send, whose turn with the*)
(* stroke is over, and what was last stored and sent.                      *)
Places == {"store", "ble", "classic"}
Issued == {c \in Clients : issued[c] > 0}
Strokes ==
    IF OneClient /\ Issued # {} THEN todo[CHOOSE c \in Issued : TRUE]
                               ELSE << >>
Past(place) ==
    CASE place = "store"   -> {"load_mod", "load_key", "emit", "classic",
                               "write", "next"}
      [] place = "ble"     -> {"classic", "write", "next"}
      [] place = "classic" -> {"next"}
Offered ==
    {place \in Places : OneClient /\ \E c \in Clients : pc[c] \in Past(place)}
Has ==
    [place \in Places |-> IF ~OneClient THEN NotSeen
                          ELSE IF place = "store" THEN input_report
                          ELSE IF place = "ble" THEN ble_view
                          ELSE classic_view]

(* Who listens: the BLE host that subscribed, the Classic host that is     *)
(* connected; and who came too late for the stroke being written.          *)
Listening ==
    {host \in {"ble", "classic"} :
        OneClient /\ IF host = "ble" THEN notify_enabled ELSE classic}
Late == IF OneClient /\ classic /\ lost # {} THEN {"classic"} ELSE {}

(* Threads, lock, torn copies and the two re-reads of the shared report    *)
(* together implement the stream of strokes that a single client expects:  *)
(* each one is stored and reaches every host that listens when its turn    *)
(* comes, whole, once and before the next.                                 *)
Stream == INSTANCE KeyStream WITH
    Nothing <- NotSeen,
    alone <- OneClient, serving <- registered,
    strokes <- Strokes, offered <- Offered, has <- Has,
    listening <- Listening, late <- Late

ImplementsStream == Stream!Spec
=============================================================================
