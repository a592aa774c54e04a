--------------------------- MODULE GattApplication ---------------------------
(***************************************************************************)
(* The BLE side of the daemon: src/src/gatt_application.cpp, as main.cpp   *)
(* drives it, and the part of BlueZ it talks to.                           *)
(*                                                                         *)
(* Both directions of the D-Bus connection are FIFO queues: outbox holds   *)
(* the daemon's calls and answers, inbox BlueZ's calls and its replies.    *)
(* BlueZ answers RegisterApplication only after GetManagedObjects was      *)
(* answered, and RegisterAdvertisement only after GetAll was.  Inline says *)
(* whether the D-Bus library runs the handlers while a call blocks, as the *)
(* comment at registerGattApplication has it; libdbus does not.            *)
(***************************************************************************)
EXTENDS FiniteSets, Integers, Sequences, SequencesExt

CONSTANTS
    Inline,         \* TRUE: handlers run while send_with_reply_and_block waits
    Rejects,        \* BlueZ may refuse a registration
    Timeouts,       \* a blocking call may give up before its reply arrives
    MaxRestarts,    \* bound: restarts of bluetoothd
    MaxInbox,       \* bound: BlueZ calls on behalf of hosts that wait
    Modes,          \* protocol mode bytes a host may write
    Reports         \* input reports the daemon may store; 0 is the empty one

ASSUME GattAssumption ==
    /\ Inline \in BOOLEAN /\ Rejects \in BOOLEAN /\ Timeouts \in BOOLEAN
    /\ MaxRestarts \in Nat /\ MaxInbox \in Nat
    /\ Modes \subseteq 0..255
    /\ 0 \in Reports

VARIABLES
    pc,                 \* where the main thread is
    fallback,           \* the handler for /com/macrotooth is registered
    registered,         \* registered_
    adv_registered,     \* adv_registered_
    notify_enabled,     \* notify_enabled_
    protocol_mode,      \* protocol_mode_
    input_report,       \* input_report_
    outbox,             \* sent to BlueZ and not yet processed
    inbox,              \* sent by BlueZ and not yet processed
    app,                \* what BlueZ knows of the application
    adv,                \* ... and of the advertisement
    subscribed,         \* a host is subscribed to the input report
    wrote,              \* the protocol mode the host wrote last
    restarts,
    abandoned           \* a registration call was given up (history)

gattVars  == <<fallback, registered, adv_registered, notify_enabled,
               protocol_mode, input_report>>
bluezVars == <<app, adv, subscribed, wrote, restarts, abandoned>>
vars == <<pc, gattVars, outbox, inbox, bluezVars>>

(* Blocking calls, and where the main thread waits for each.               *)
Waits == [app_wait   |-> "RegisterApplication",
          adv_wait   |-> "RegisterAdvertisement",
          unadv_wait |-> "UnregisterAdvertisement",
          unapp_wait |-> "UnregisterApplication"]

-----------------------------------------------------------------------------
(* The attributes, as the source spells them out three times: in           *)
(* GetManagedObjects, in the two ReadValue handlers and in GetAll.         *)

Service(uuid) == [UUID |-> uuid, Primary |-> TRUE]

(* Fault: writable characteristics are announced with the control point's  *)
(* value.                                                                  *)
CharWithoutValue(uuid, service, flags, value) ==
    [UUID |-> uuid, Service |-> service, Flags |-> flags,
     Value |-> IF "write-without-response" \in flags THEN <<0>> ELSE value]

Char(uuid, service, flags, value) ==
    [UUID |-> uuid, Service |-> service, Flags |-> flags, Value |-> value]

HID_INFO   == <<17, 1, 0, 2>>
REPORT_REF == <<0, 1>>

Paths == {"SVC0", "SVC1", "DESC0"}
         \cup {"CHAR0", "CHAR1", "CHAR2", "CHAR3", "CHAR4", "CHAR5", "CHAR6"}

Notifying(char, on) == [UUID |-> char.UUID, Service |-> char.Service,
                        Flags |-> char.Flags, Value |-> char.Value,
                        Notifying |-> on]

ManagedObjects == [path \in Paths |->
    CASE path = "SVC0"  -> Service("HID_SVC")
      [] path = "CHAR0" -> Char("REPORT_MAP", "SVC0", {"read"}, "report_desc_")
      [] path = "CHAR1" -> Char("HID_INFO", "SVC0", {"read"}, HID_INFO)
      [] path = "CHAR2" -> Char("HID_CP", "SVC0", {"write-without-response"},
                                <<0>>)
      [] path = "CHAR3" -> Char("PROTO_MODE", "SVC0",
                                {"read", "write-without-response"},
                                <<protocol_mode>>)
      [] path = "CHAR4" -> Notifying(Char("REPORT", "SVC0",
                                          {"read", "notify"}, input_report),
                                     notify_enabled)
      [] path = "DESC0" -> [UUID |-> "REPORT_REF", Characteristic |-> "CHAR4",
                            Flags |-> {"read"}, Value |-> REPORT_REF]
      [] path = "SVC1"  -> Service("DEVINFO")
      [] path = "CHAR5" -> Char("MFR_NAME", "SVC1", {"read"}, "Logitech")
      [] path = "CHAR6" -> Char("PNP_ID", "SVC1", {"read"}, "pnp_id_")]

(* handleCharacteristicRead and handleDescriptorRead; an unknown path is   *)
(* answered with no bytes.                                                 *)
ReadValue(path) ==
    CASE path = "CHAR0" -> "report_desc_"
      [] path = "CHAR1" -> HID_INFO
      [] path = "CHAR2" -> <<0>>
      [] path = "CHAR3" -> <<protocol_mode>>
      [] path = "CHAR4" -> input_report
      [] path = "CHAR5" -> "Logitech"
      [] path = "CHAR6" -> "pnp_id_"
      [] path = "DESC0" -> REPORT_REF
      [] OTHER          -> << >>

(* handleGetAllProperties: the services, the input report and the          *)
(* advertisement; nothing for any other path.                              *)
GetAll(path) ==
    CASE path = "ADV"   -> [Type |-> "peripheral",
                            ServiceUUIDs |-> {"HID_SVC"}]
      [] path = "SVC0"  -> [UUID |-> "HID_SVC", Primary |-> TRUE]
      [] path = "SVC1"  -> [UUID |-> "DEVINFO", Primary |-> TRUE]
      [] path = "CHAR4" -> [UUID |-> "REPORT", Service |-> "SVC0",
                            Flags |-> {"read", "notify"},
                            Value |-> input_report,
                            Notifying |-> notify_enabled]
      [] OTHER          -> << >>

-----------------------------------------------------------------------------
(* Messages.                                                               *)
Reply(call, ok) == [call |-> "reply", to |-> call, ok |-> ok]
Message ==
         [call : {"GetManagedObjects", "StartNotify", "StopNotify",
                  "Release"}]
    \cup [call : {"GetAll"}, path : {"ADV"}]
    \cup [call : {"WriteValue"}, path : {"CHAR3"}, value : Modes]
    \cup [call : {"ReadValue"}, path : {"CHAR3"}, expect : 0..255]
    \cup [call : {"reply"}, to : {Waits[w] : w \in DOMAIN Waits},
          ok : BOOLEAN]

Pending(call) == \E i \in DOMAIN inbox : inbox[i].call = call
HostCalls == SelectSeq(inbox, LAMBDA m : m.call # "reply")
Room == Len(HostCalls) < MaxInbox

TypeOK ==
    /\ pc \in {"start", "serving", "stop", "stop_app", "stopped"}
              \cup DOMAIN Waits
    /\ fallback \in BOOLEAN /\ registered \in BOOLEAN
    /\ adv_registered \in BOOLEAN /\ notify_enabled \in BOOLEAN
    /\ protocol_mode \in 0..255 /\ input_report \in Reports
    /\ inbox \in Seq(Message)
    /\ outbox \in Seq({Waits[w] : w \in DOMAIN Waits}
                       \cup {"objects", "props"})
    /\ {app, adv} \subseteq {"none", "listing", "known"}
    /\ subscribed \in BOOLEAN /\ wrote \in 0..255
    /\ restarts \in 0..MaxRestarts
    /\ abandoned \in BOOLEAN

Init ==
    /\ pc = "start"
    /\ fallback = FALSE /\ registered = FALSE /\ adv_registered = FALSE
    /\ notify_enabled = FALSE /\ protocol_mode = 1 /\ input_report = 0
    /\ outbox = << >> /\ inbox = << >>
    /\ app = "none" /\ adv = "none"
    /\ subscribed = FALSE /\ wrote = 1
    /\ restarts = 0
    /\ abandoned = FALSE

-----------------------------------------------------------------------------
(* start() and stop(), on the main thread.                                 *)

Call(from, to) ==
    /\ pc = from /\ pc' = to
    /\ outbox' = Append(outbox, Waits[to])

(* The blocking call returns.  If handlers run inline, what precedes the   *)
(* reply was handled before; if not, it stays queued.                      *)
TakeReply(ok) ==
    \E i \in DOMAIN inbox :
        /\ inbox[i] = Reply(Waits[pc], ok)
        /\ Inline => i = 1
        /\ inbox' = RemoveAt(inbox, i)

(* Fault: blocking calls without a timeout.                                *)
NeverGiveUp == FALSE

GiveUp == Timeouts /\ UNCHANGED inbox

(* connectDBus, then RegisterApplication; without a bus start() fails and  *)
(* stop() finds no connection.                                             *)
Start ==
    /\ \/ Call("start", "app_wait") /\ fallback' = TRUE
       \/ /\ pc = "start" /\ pc' = "stopped"
          /\ UNCHANGED <<outbox, fallback>>
    /\ UNCHANGED <<registered, adv_registered, notify_enabled, protocol_mode,
                   input_report, inbox, bluezVars>>

RegisterApplicationReturns ==
    /\ \/ /\ Call("app_wait", "adv_wait")
          /\ TakeReply(TRUE)
          /\ registered' = TRUE
          /\ UNCHANGED abandoned
       \/ /\ pc = "app_wait" /\ pc' = "stop"
          /\ \/ TakeReply(FALSE) /\ UNCHANGED abandoned
             \/ GiveUp /\ abandoned' = TRUE
          /\ UNCHANGED <<outbox, registered>>
    /\ UNCHANGED <<fallback, adv_registered, notify_enabled, protocol_mode,
                   input_report, app, adv, subscribed, wrote, restarts>>

(* When start() fails main returns, and the destructor calls stop().       *)
RegisterAdvertisementReturns ==
    /\ pc = "adv_wait"
    /\ \/ /\ pc' = "serving"
          /\ TakeReply(TRUE)
          /\ adv_registered' = TRUE
          /\ UNCHANGED abandoned
       \/ /\ pc' = "stop"
          /\ \/ TakeReply(FALSE) /\ UNCHANGED abandoned
             \/ GiveUp /\ abandoned' = TRUE
          /\ UNCHANGED adv_registered
    /\ UNCHANGED <<fallback, registered, notify_enabled, protocol_mode,
                   input_report, outbox, app, adv, subscribed, wrote,
                   restarts>>

(* SIGINT or SIGTERM ends main's loop.                                     *)
EndLoop ==
    /\ pc = "serving" /\ pc' = "stop"
    /\ UNCHANGED <<gattVars, outbox, inbox, bluezVars>>

UnregisterAdvertisement ==
    /\ IF adv_registered
       THEN Call("stop", "unadv_wait")
       ELSE pc = "stop" /\ pc' = "stop_app" /\ UNCHANGED outbox
    /\ UNCHANGED <<gattVars, inbox, bluezVars>>

UnregisterAdvertisementReturns ==
    /\ pc = "unadv_wait" /\ pc' = "stop_app"
    /\ TakeReply(TRUE) \/ TakeReply(FALSE) \/ GiveUp
    /\ adv_registered' = FALSE
    /\ UNCHANGED <<fallback, registered, notify_enabled, protocol_mode,
                   input_report, outbox, bluezVars>>

(* Fault: nothing is undone unless both registrations stood.               *)
UnregisterIfAdvertised ==
    /\ IF registered /\ adv_registered
       THEN Call("stop_app", "unapp_wait") /\ UNCHANGED fallback
       ELSE /\ pc = "stop_app" /\ pc' = "stopped"
            /\ fallback' = FALSE
            /\ UNCHANGED outbox
    /\ UNCHANGED <<registered, adv_registered, notify_enabled, protocol_mode,
                   input_report, inbox, bluezVars>>

UnregisterApplication ==
    /\ IF registered
       THEN Call("stop_app", "unapp_wait") /\ UNCHANGED fallback
       ELSE /\ pc = "stop_app" /\ pc' = "stopped"
            /\ fallback' = FALSE
            /\ UNCHANGED outbox
    /\ UNCHANGED <<registered, adv_registered, notify_enabled, protocol_mode,
                   input_report, inbox, bluezVars>>

UnregisterApplicationReturns ==
    /\ pc = "unapp_wait" /\ pc' = "stopped"
    /\ TakeReply(TRUE) \/ TakeReply(FALSE) \/ GiveUp
    /\ registered' = FALSE
    /\ fallback' = FALSE
    /\ UNCHANGED <<adv_registered, notify_enabled, protocol_mode, input_report,
                   outbox, bluezVars>>

(* The locked part of sendInputReport, on an IPC thread; what it sends is  *)
(* ReportPath's subject.                                                   *)
StoreReport(report) ==
    /\ registered /\ pc \notin {"app_wait", "adv_wait"}
    /\ input_report' = report
    /\ UNCHANGED <<pc, fallback, registered, adv_registered, notify_enabled,
                   protocol_mode, outbox, inbox, bluezVars>>

-----------------------------------------------------------------------------
(* onMessage, for the first message of the queue: in main's loop, and      *)
(* inside blocking calls if they dispatch.                                 *)
Dispatching == fallback /\ (pc = "serving" \/ (Inline /\ pc \in DOMAIN Waits))

Take(call) ==
    /\ Dispatching
    /\ inbox # << >>
    /\ Head(inbox).call = call
    /\ inbox' = Tail(inbox)

HandleGetManagedObjects ==
    /\ Take("GetManagedObjects")
    /\ outbox' = Append(outbox, "objects")
    /\ UNCHANGED <<pc, gattVars, bluezVars>>

HandleGetAllProperties ==
    /\ Take("GetAll")
    /\ outbox' = Append(outbox, "props")
    /\ UNCHANGED <<pc, gattVars, bluezVars>>

(* The answer, ReadValue of the path, goes back to the host.               *)
HandleCharacteristicRead ==
    /\ Take("ReadValue")
    /\ UNCHANGED <<pc, gattVars, outbox, bluezVars>>

(* Fault: the mode goes to the control point's branch.                     *)
WriteMisrouted ==
    /\ Take("WriteValue")
    /\ protocol_mode' = IF Head(inbox).path = "CHAR2" THEN Head(inbox).value
                                                      ELSE protocol_mode
    /\ UNCHANGED <<pc, fallback, registered, adv_registered, notify_enabled,
                   input_report, outbox, bluezVars>>

(* Any byte becomes the protocol mode; a report for CHAR4 is an output     *)
(* report; a control point write is only logged.                           *)
HandleCharacteristicWrite ==
    /\ Take("WriteValue")
    /\ protocol_mode' = IF Head(inbox).path = "CHAR3" THEN Head(inbox).value
                                                      ELSE protocol_mode
    /\ UNCHANGED <<pc, fallback, registered, adv_registered, notify_enabled,
                   input_report, outbox, bluezVars>>

HandleStartNotify ==
    /\ Take("StartNotify")
    /\ notify_enabled' = TRUE
    /\ UNCHANGED <<pc, fallback, registered, adv_registered, protocol_mode,
                   input_report, outbox, bluezVars>>

(* Fault: StopNotify is answered and forgotten.                            *)
StopNotifyIgnored ==
    /\ Take("StopNotify")
    /\ UNCHANGED <<pc, gattVars, outbox, bluezVars>>

HandleStopNotify ==
    /\ Take("StopNotify")
    /\ notify_enabled' = FALSE
    /\ UNCHANGED <<pc, fallback, registered, adv_registered, protocol_mode,
                   input_report, outbox, bluezVars>>

(* Fault: Release is answered and forgotten.                               *)
ReleaseIgnored ==
    /\ Take("Release")
    /\ UNCHANGED <<pc, gattVars, outbox, bluezVars>>

HandleAdvertisementRelease ==
    /\ Take("Release")
    /\ adv_registered' = FALSE
    /\ UNCHANGED <<pc, fallback, registered, notify_enabled, protocol_mode,
                   input_report, outbox, bluezVars>>

(* The reply to a call that was given up: nobody waits for it.             *)
DropLateReply ==
    /\ Take("reply")
    /\ pc \in DOMAIN Waits => Head(inbox).to # Waits[pc]
    /\ UNCHANGED <<pc, gattVars, outbox, bluezVars>>

Handle ==
    \/ HandleGetManagedObjects \/ HandleGetAllProperties
    \/ HandleCharacteristicRead \/ HandleCharacteristicWrite
    \/ HandleStartNotify \/ HandleStopNotify
    \/ HandleAdvertisementRelease \/ DropLateReply

-----------------------------------------------------------------------------
(* BlueZ.                                                                  *)
Send(m) == inbox' = Append(inbox, m)

Receive(m) ==
    /\ outbox # << >> /\ Head(outbox) = m
    /\ outbox' = Tail(outbox)
    /\ UNCHANGED <<pc, gattVars, wrote, restarts, abandoned>>

(* Before it takes a registration BlueZ asks for the objects, or for the   *)
(* advertisement's properties; it may refuse at once or afterwards.        *)
BluezRegistersApplication ==
    /\ UNCHANGED <<adv, subscribed>>
    /\ \/ /\ Receive("RegisterApplication")
          /\ app' = "listing" /\ Send([call |-> "GetManagedObjects"])
       \/ /\ Receive("objects") /\ app = "listing"
          /\ app' = "known" /\ Send(Reply("RegisterApplication", TRUE))
       \/ /\ Rejects
          /\ Receive("RegisterApplication") \/ Receive("objects")
          /\ app' = "none" /\ Send(Reply("RegisterApplication", FALSE))
       \/ /\ Receive("objects") /\ app # "listing"
          /\ UNCHANGED <<app, inbox>>

BluezRegistersAdvertisement ==
    /\ UNCHANGED <<app, subscribed>>
    /\ \/ /\ Receive("RegisterAdvertisement")
          /\ adv' = "listing" /\ Send([call |-> "GetAll", path |-> "ADV"])
       \/ /\ Receive("props") /\ adv = "listing"
          /\ adv' = "known" /\ Send(Reply("RegisterAdvertisement", TRUE))
       \/ /\ Rejects
          /\ Receive("RegisterAdvertisement") \/ Receive("props")
          /\ adv' = "none" /\ Send(Reply("RegisterAdvertisement", FALSE))
       \/ /\ Receive("props") /\ adv # "listing"
          /\ UNCHANGED <<adv, inbox>>

BluezUnregisters ==
    \/ /\ Receive("UnregisterAdvertisement")
       /\ Send(Reply("UnregisterAdvertisement", adv = "known"))
       /\ adv' = "none"
       /\ UNCHANGED <<app, subscribed>>
    \/ /\ Receive("UnregisterApplication")
       /\ Send(Reply("UnregisterApplication", app = "known"))
       /\ app' = "none" /\ subscribed' = FALSE
       /\ UNCHANGED adv

HostSubscribes ==
    /\ app = "known" /\ ~subscribed /\ Room
    /\ subscribed' = TRUE
    /\ Send([call |-> "StartNotify"])
    /\ UNCHANGED <<pc, gattVars, outbox, app, adv, wrote, restarts,
                   abandoned>>

HostUnsubscribes ==
    /\ subscribed /\ Room
    /\ subscribed' = FALSE
    /\ Send([call |-> "StopNotify"])
    /\ UNCHANGED <<pc, gattVars, outbox, app, adv, wrote, restarts,
                   abandoned>>

(* BlueZ passes on only what the flags allow.                              *)
MayWrite(path) ==
    app = "known" /\ "write-without-response" \in ManagedObjects[path].Flags

HostWritesMode(mode) ==
    /\ MayWrite("CHAR3") /\ Room
    /\ wrote' = mode
    /\ Send([call |-> "WriteValue", path |-> "CHAR3", value |-> mode])
    /\ UNCHANGED <<pc, gattVars, outbox, app, adv, subscribed,
                   restarts, abandoned>>

(* expect: what the host wrote before it asked (history).                  *)
HostReadsMode ==
    /\ app = "known" /\ Room
    /\ Send([call |-> "ReadValue", path |-> "CHAR3", expect |-> wrote])
    /\ UNCHANGED <<pc, gattVars, outbox, bluezVars>>

(* The adapter goes away or is switched off.                               *)
BluezReleasesAdvertisement ==
    /\ adv = "known" /\ Room
    /\ adv' = "none"
    /\ Send([call |-> "Release"])
    /\ UNCHANGED <<pc, gattVars, outbox, app, subscribed, wrote,
                   restarts, abandoned>>

(* bluetoothd is restarted: it has forgotten everything, and the bus tells *)
(* a caller that is still waiting that there will be no reply.             *)
BluezRestarts ==
    /\ restarts < MaxRestarts
    /\ restarts' = restarts + 1
    /\ app' = "none" /\ adv' = "none" /\ subscribed' = FALSE
    /\ outbox' = << >>
    /\ IF pc \in DOMAIN Waits
          /\ \A ok \in BOOLEAN : ~Contains(inbox, Reply(Waits[pc], ok))
       THEN Send(Reply(Waits[pc], FALSE))
       ELSE UNCHANGED inbox
    /\ UNCHANGED <<pc, gattVars, wrote, abandoned>>

-----------------------------------------------------------------------------
Main ==
    \/ Start \/ RegisterApplicationReturns \/ RegisterAdvertisementReturns
    \/ UnregisterAdvertisement \/ UnregisterAdvertisementReturns
    \/ UnregisterApplication \/ UnregisterApplicationReturns

Bluez == BluezRegistersApplication \/ BluezRegistersAdvertisement
         \/ BluezUnregisters

Next ==
    \/ Main \/ Handle \/ Bluez
    \/ EndLoop
    \/ \E report \in Reports : StoreReport(report)
    \/ HostSubscribes \/ HostUnsubscribes
    \/ \E mode \in Modes : HostWritesMode(mode)
    \/ HostReadsMode
    \/ BluezReleasesAdvertisement \/ BluezRestarts

Spec == Init /\ [][Next]_vars

(* The main thread runs.  BlueZ may hang; hosts need not do anything.      *)
MainSpec == Spec /\ WF_vars(Main) /\ WF_vars(Handle)

-----------------------------------------------------------------------------
(* Properties.                                                             *)

(* ReadValue answers what GetManagedObjects announced, in every state, and *)
(* so does GetAll for the objects it knows: the three tables are written   *)
(* out separately, and the values change.                                  *)
TablesAgree ==
    \A path \in Paths :
        /\ path \notin {"SVC0", "SVC1"}
               /\ "read" \in ManagedObjects[path].Flags
           => ReadValue(path) = ManagedObjects[path].Value
        /\ GetAll(path) # << >> => GetAll(path) = ManagedObjects[path]

(* As long as bluetoothd is not restarted, the daemon serves only what     *)
(* BlueZ has: both registrations stand, unless BlueZ has already said that *)
(* it dropped the advertisement.                                           *)
KnownWhileServing ==
    restarts = 0 /\ pc = "serving" =>
        /\ registered /\ app = "known"
        /\ adv_registered <=> (adv = "known" \/ Pending("Release"))

(* "A reliable proxy for BLE connection state": once the calls in flight   *)
(* are handled, isConnected() is whether a host is subscribed.  A restart  *)
(* of bluetoothd ends that: no StopNotify comes.                           *)
NotifyFollows ==
    /\ restarts = 0 /\ pc = "serving"
    /\ ~Pending("StartNotify") /\ ~Pending("StopNotify")
    => notify_enabled = subscribed

(* A host that reads the protocol mode gets what it wrote before.          *)
ReadsSeeWrites ==
    Dispatching /\ inbox # << >> /\ Head(inbox).call = "ReadValue" =>
        ReadValue(Head(inbox).path) = <<Head(inbox).expect>>

(* Also when only the second registration failed, nothing of the daemon is *)
(* left in BlueZ after stop(), once BlueZ has worked off what it was sent. *)
(* The exception is a registration call that timed out: the daemon forgets *)
(* it, and BlueZ may complete it.                                          *)
StopUnregisters ==
    pc = "stopped" /\ outbox = << >> /\ ~abandoned =>
        app = "none" /\ adv = "none"

(* What start() promises, never kept: proved for a library that runs no    *)
(* handler inside a blocking call (GattApplicationProofs, NeverRegisters). *)
NotRegistered == ~registered /\ pc # "serving"

(* start() and stop() return even if BlueZ never answers.                  *)
CallsReturn ==
    /\ pc = "start" ~> pc \in {"serving", "stopped"}
    /\ pc = "stop" ~> pc = "stopped"
=============================================================================
