------------------------------- MODULE Daemon -------------------------------
(***************************************************************************)
(* The main thread from start-up to exit, and the bus connection that all  *)
(* its components share.                                                   *)
(*   main.cpp         start-up, signal handler, dispatch loop, clean-up    *)
(*   bt_adapter.cpp   the adapter's settings, one blocking call each       *)
(*   bt_agent.cpp     registration of the agent, its handler               *)
(*   bluez_profile.cpp, gatt_application.cpp, ipc_server.cpp               *)
(*                    registration and clean-up (the rest is in the        *)
(*                    modules BlueZProfile, GattApplication, IpcServer)    *)
(*                                                                         *)
(* The two registrations of GattApplication::start are one call here.  The *)
(* environment is BlueZ, which may answer, refuse, hang or restart, the    *)
(* bus, and whoever sends signals.                                         *)
(***************************************************************************)
EXTENDS Integers, Sequences, FiniteSets

CONSTANTS
    MaxRequests,    \* bound: calls BlueZ makes to the daemon
    MaxRestarts     \* bound: restarts of bluetoothd

ASSUME DaemonAssumption == MaxRequests \in Nat /\ MaxRestarts \in Nat

(* What the main thread does, in order: <<verb, object>>.                  *)
Settings == {"Powered", "Alias", "DiscoverableTimeout", "Discoverable",
             "Pairable"}
Objects == {"agent", "gatt", "profile", "ipc"}
Op == ({"set"} \X (Settings \cup {"Class"}))
        \cup ({"start", "stop", "destroy"} \X Objects)
        \cup {<<"start", "default">>}

StartUp ==
    << <<"set", "Powered">>, <<"set", "Alias">>, <<"set", "Class">>,
       <<"set", "DiscoverableTimeout">>, <<"set", "Discoverable">>,
       <<"set", "Pairable">>, <<"start", "agent">>, <<"start", "default">>,
       <<"start", "gatt">>, <<"start", "profile">>, <<"start", "ipc">> >>

(* The destructors of what was constructed, last first.                    *)
Destroy(objects) ==
    LET Of(object) ==
          IF object \in objects THEN << <<"destroy", object>> >> ELSE << >>
    IN  Of("ipc") \o Of("profile") \o Of("gatt") \o Of("agent")

CleanUp ==
    << <<"stop", "ipc">>, <<"stop", "gatt">>, <<"stop", "profile">>,
       <<"stop", "agent">> >> \o Destroy(Objects)

(* The handlers of the shared connection, and the object each belongs to.  *)
Owner == [agent |-> "agent", fallback |-> "gatt", hid |-> "profile",
          filter |-> "profile"]
Handlers == DOMAIN Owner

(* What BlueZ asks of the daemon, and who should answer.                   *)
Addressee == [pair |-> "agent", release |-> "agent", connect |-> "profile",
              read |-> "gatt"]
Requests == DOMAIN Addressee

VARIABLES
    phase,              \* "start", "loop", "dispatch", "stop", "exited"
    todo,               \* what main has still to do, the current first
    waiting,            \* in a blocking call, or in system()
    reply,              \* the reply that has come: "none", "ok", "error"
    g_running,          \* the flag of the signal handler
    installed,          \* handlers registered with the connection
    alive,              \* objects constructed and not destroyed
    agent_registered,   \* BluetoothAgent::registered_
    gatt_registered,    \* GattApplication::registered_
    outbox,             \* calls on their way to BlueZ
    inbox,              \* calls of BlueZ that wait to be dispatched
    known,              \* which of the daemon's objects BlueZ knows
    gave_up,            \* RegisterAgent timed out (history)
    requests, restarts  \* (bounded)

mainVars == <<phase, todo, waiting, reply, gave_up>>
objectVars == <<installed, alive, agent_registered, gatt_registered>>
bluezVars == <<known, requests, restarts>>
vars == <<mainVars, objectVars, bluezVars, g_running, outbox, inbox>>

TypeOK ==
    /\ phase \in {"start", "loop", "dispatch", "stop", "exited"}
    /\ todo \in Seq(Op)
    /\ waiting \in BOOLEAN /\ reply \in {"none", "ok", "error"}
    /\ g_running \in BOOLEAN
    /\ installed \subseteq Handlers /\ alive \subseteq Objects
    /\ agent_registered \in BOOLEAN /\ gatt_registered \in BOOLEAN
    /\ outbox \in Seq(Op) /\ inbox \in Seq(Requests)
    /\ known \subseteq Objects
    /\ gave_up \in BOOLEAN
    /\ requests \in 0..MaxRequests /\ restarts \in 0..MaxRestarts

Init ==
    /\ phase = "start" /\ todo = StartUp
    /\ waiting = FALSE /\ reply = "none" /\ gave_up = FALSE
    /\ g_running = TRUE
    /\ installed = {} /\ alive = {}
    /\ agent_registered = FALSE /\ gatt_registered = FALSE
    /\ outbox = << >> /\ inbox = << >>
    /\ known = {} /\ requests = 0 /\ restarts = 0

-----------------------------------------------------------------------------
(* Blocking calls.  libdbus runs no handler while it waits.                *)
At(op) == todo # << >> /\ Head(todo) = op /\ phase \in {"start", "stop"}

Call(op) ==
    /\ At(op) /\ ~waiting /\ waiting' = TRUE
    /\ outbox' = Append(outbox, op)
    /\ UNCHANGED <<phase, todo, reply, gave_up, g_running, inbox, bluezVars>>

(* Fault: the call has no timeout.                                         *)
ReturnsAnswered(op, ok) ==
    /\ At(op) /\ waiting /\ waiting' = FALSE
    /\ reply = (IF ok THEN "ok" ELSE "error")
    /\ reply' = "none"
    /\ UNCHANGED <<gave_up, g_running, outbox, inbox, bluezVars>>

(* The reply, or the timeout; an answer that comes later is dropped.       *)
Returns(op, ok) ==
    /\ At(op) /\ waiting /\ waiting' = FALSE
    /\ \/ reply = (IF ok THEN "ok" ELSE "error") /\ UNCHANGED gave_up
       \/ /\ reply = "none" /\ ~ok
          /\ gave_up' = (gave_up \/ op = <<"start", "agent">>)
    /\ reply' = "none"
    /\ UNCHANGED <<g_running, outbox, inbox, bluezVars>>

Proceed == todo' = Tail(todo) /\ UNCHANGED phase

(* main returns: the destructors run.                                      *)
Unwind == phase' = "stop" /\ todo' = Destroy(alive)

Without == UNCHANGED <<waiting, reply, gave_up, g_running, inbox, bluezVars>>

-----------------------------------------------------------------------------
(* Start-up.  BluetoothAdapter: main ignores what the setters return.      *)
SetProperty(name) == Call(<<"set", name>>) /\ UNCHANGED objectVars

SetPropertyReturns(name) ==
    /\ \E ok \in BOOLEAN : Returns(<<"set", name>>, ok)
    /\ Proceed /\ UNCHANGED objectVars

(* setClassOfDevice: system() waits for hciconfig.  Its test of the        *)
(* adapter's name cannot fail: the index is config.h's 0.                  *)
SetClassOfDevice ==
    /\ At(<<"set", "Class">>)
    /\ \/ ~waiting /\ waiting' = TRUE /\ UNCHANGED <<phase, todo>>
       \/ waiting /\ waiting' = FALSE /\ Proceed
    /\ UNCHANGED <<reply, gave_up, objectVars, g_running, outbox, inbox,
                   bluezVars>>

(* Fault: no handler of the agent's own, it falls under the fallback.      *)
StartAgentWithoutPath ==
    /\ Call(<<"start", "agent">>)
    /\ alive' = alive \cup {"agent"}
    /\ UNCHANGED <<installed, agent_registered, gatt_registered>>

StartAgent ==
    /\ Call(<<"start", "agent">>)
    /\ alive' = alive \cup {"agent"}
    /\ installed' = installed \cup {"agent"}
    /\ UNCHANGED <<agent_registered, gatt_registered>>

(* Without RegisterAgent no RequestDefaultAgent, and main goes on.         *)
StartAgentReturns(ok) ==
    /\ Returns(<<"start", "agent">>, ok)
    /\ IF ok
       THEN Proceed /\ UNCHANGED installed
       ELSE /\ todo' = Tail(Tail(todo)) /\ UNCHANGED phase
            /\ installed' = installed \ {"agent"}
    /\ UNCHANGED <<alive, agent_registered, gatt_registered>>

RequestDefaultAgent == Call(<<"start", "default">>) /\ UNCHANGED objectVars

(* The agent counts as registered whatever the second call returned.       *)
RequestDefaultAgentReturns ==
    /\ \E ok \in BOOLEAN : Returns(<<"start", "default">>, ok)
    /\ Proceed
    /\ agent_registered' = TRUE
    /\ UNCHANGED <<installed, alive, gatt_registered>>

StartGatt ==
    /\ Call(<<"start", "gatt">>)
    /\ alive' = alive \cup {"gatt"}
    /\ installed' = installed \cup {"fallback"}
    /\ UNCHANGED <<agent_registered, gatt_registered>>

StartGattReturns(ok) ==
    /\ Returns(<<"start", "gatt">>, ok)
    /\ gatt_registered' = ok
    /\ IF ok THEN Proceed ELSE Unwind
    /\ UNCHANGED <<installed, alive, agent_registered>>

StartProfile ==
    /\ Call(<<"start", "profile">>)
    /\ alive' = alive \cup {"profile"}
    /\ installed' = installed \cup {"hid", "filter"}
    /\ UNCHANGED <<agent_registered, gatt_registered>>

(* BLE only, if it failed; the handlers stay.                              *)
StartProfileReturns ==
    /\ \E ok \in BOOLEAN : Returns(<<"start", "profile">>, ok)
    /\ Proceed /\ UNCHANGED objectVars

StartIpc(ok) ==
    /\ At(<<"start", "ipc">>)
    /\ alive' = alive \cup {"ipc"}
    /\ IF ok THEN phase' = "loop" /\ todo' = << >>
             ELSE phase' = "stop" /\ todo' = Destroy(alive')
    /\ Without
    /\ UNCHANGED <<installed, agent_registered, gatt_registered, outbox>>

-----------------------------------------------------------------------------
(* Fault: the loop waits for the signal and dispatches nothing.            *)
LoopWithoutDispatch ==
    /\ phase = "loop"
    /\ IF g_running THEN UNCHANGED <<phase, todo>>
                    ELSE phase' = "stop" /\ todo' = CleanUp
    /\ Without /\ UNCHANGED <<objectVars, outbox>>

(* while (g_running), and what follows it.                                 *)
Loop ==
    /\ phase = "loop"
    /\ IF g_running THEN phase' = "dispatch" /\ UNCHANGED todo
                    ELSE phase' = "stop" /\ todo' = CleanUp
    /\ Without /\ UNCHANGED <<objectVars, outbox>>

(* The filter comes first, and takes only the profile's calls; then the    *)
(* handler of the very path; then the fallback, which covers every path of *)
(* the daemon, the agent's too, and does not know the agent's interface.   *)
Route(request) ==
    LET ToAgent == request \in {"pair", "release"} /\ "agent" \in installed IN
    CASE request = "connect" /\ installed \cap {"filter", "hid"} # {}
            -> "profile"
      [] ToAgent -> "agent"
      [] request # "connect" /\ ~ToAgent /\ "fallback" \in installed -> "gatt"
      [] OTHER -> "nobody"

(* Fault: Release is answered and forgotten.                               *)
DispatchForgets ==
    /\ phase = "dispatch" /\ phase' = "loop"
    /\ inbox' = IF inbox = << >> THEN inbox ELSE Tail(inbox)
    /\ UNCHANGED <<todo, waiting, reply, gave_up, objectVars, g_running,
                   outbox, bluezVars>>

AgentReleased ==
    inbox # << >> /\ Head(inbox) = "release" /\ Route("release") = "agent"

(* gatt.dispatch(10): one message, or none in 10 ms.  Every handler        *)
(* answers at once; Release is the agent's only call that changes anything.*)
Dispatch ==
    /\ phase = "dispatch" /\ phase' = "loop"
    /\ inbox' = IF inbox = << >> THEN inbox ELSE Tail(inbox)
    /\ agent_registered' = (agent_registered /\ ~AgentReleased)
    /\ UNCHANGED <<todo, waiting, reply, gave_up, installed, alive,
                   gatt_registered, g_running, outbox, bluezVars>>

-----------------------------------------------------------------------------
(* Clean-up.  Each destructor calls stop() again.                          *)
Stops(object) ==
    /\ \E verb \in {"stop", "destroy"} : At(<<verb, object>>)
    /\ alive' = IF Head(todo)[1] = "destroy" THEN alive \ {object} ELSE alive
    /\ Proceed

StopIpc ==
    /\ Stops("ipc") /\ Without
    /\ UNCHANGED <<installed, agent_registered, gatt_registered, outbox>>

UnregisterGatt ==
    /\ gatt_registered
    /\ \E verb \in {"stop", "destroy"} : Call(<<verb, "gatt">>)
    /\ UNCHANGED objectVars

(* Fault: nothing to do unless the registration stood.                     *)
StopGattIfRegistered ==
    /\ Stops("gatt")
    /\ IF gatt_registered
       THEN /\ \E ok \in BOOLEAN : Returns(Head(todo), ok)
            /\ installed' = installed \ {"fallback"}
       ELSE Without /\ UNCHANGED <<outbox, installed>>
    /\ gatt_registered' = FALSE
    /\ UNCHANGED agent_registered

StopGatt ==
    /\ Stops("gatt")
    /\ IF gatt_registered
       THEN \E ok \in BOOLEAN : Returns(Head(todo), ok)
       ELSE Without /\ UNCHANGED outbox
    /\ gatt_registered' = FALSE
    /\ installed' = installed \ {"fallback"}
    /\ UNCHANGED agent_registered

(* The call is sent whether or not the profile was ever registered, and    *)
(* the filter stays.                                                       *)
StopProfile ==
    /\ Stops("profile") /\ Without
    /\ installed' = installed \ {"hid"}
    /\ outbox' = Append(outbox, Head(todo))
    /\ UNCHANGED <<agent_registered, gatt_registered>>

StopAgent ==
    /\ Stops("agent") /\ Without
    /\ installed' = installed \ {"agent"}
    /\ outbox' = IF agent_registered THEN Append(outbox, Head(todo))
                                     ELSE outbox
    /\ agent_registered' = FALSE
    /\ UNCHANGED gatt_registered

(* The process is gone, and with it its name on the bus.                   *)
Gone ==
    /\ phase' = "exited" /\ todo' = << >>
    /\ known' = {} /\ inbox' = << >> /\ outbox' = << >>
    /\ waiting' = FALSE /\ reply' = "none"
    /\ UNCHANGED <<gave_up, g_running, objectVars, requests, restarts>>

Exit == phase = "stop" /\ todo = << >> /\ Gone

(* Killed, or the bus is lost: dbus_bus_get() made that end the process.   *)
Killed == phase # "exited" /\ Gone

(* system() ignores SIGINT while the tool runs.                            *)
SignalHandler(signum) ==
    /\ phase # "exited"
    /\ g_running' = (signum = "SIGINT" /\ waiting /\ At(<<"set", "Class">>)
                        /\ g_running)
    /\ UNCHANGED <<mainVars, objectVars, outbox, inbox, bluezVars>>

-----------------------------------------------------------------------------
(* BlueZ.  The call that main waits for is always the last of the outbox;  *)
(* for hciconfig it waits without a call.                                  *)
InCall == waiting /\ ~At(<<"set", "Class">>)
Awaited == InCall /\ Len(outbox) = 1

(* Properties.Set and the manager interfaces: Register*, Unregister*.      *)
BluezAnswers(ok) ==
    LET op == Head(outbox) IN
    /\ phase # "exited" /\ outbox # << >>
    /\ outbox' = Tail(outbox)
    /\ reply' = IF Awaited THEN IF ok THEN "ok" ELSE "error" ELSE reply
    /\ known' =
          CASE op[1] = "start" /\ ok -> known \cup ({op[2]} \cap Objects)
            [] op[1] \in {"stop", "destroy"} -> known \ {op[2]}
            [] OTHER -> known
    /\ (op = <<"start", "default">> /\ ok) => "agent" \in known
    /\ UNCHANGED <<phase, todo, waiting, gave_up, objectVars, g_running,
                   inbox, requests, restarts>>

(* A call of BlueZ to an object it knows; or it lets go of the agent.      *)
BluezRequests(request) ==
    /\ Addressee[request] \in known
    /\ requests < MaxRequests /\ requests' = requests + 1
    /\ inbox' = Append(inbox, request)
    /\ known' = IF request = "release" THEN known \ {"agent"} ELSE known
    /\ UNCHANGED <<mainVars, objectVars, g_running, outbox, restarts>>

(* What it had received is lost, and the bus says so to whoever waits.     *)
BluezRestarts ==
    /\ phase # "exited"
    /\ restarts < MaxRestarts /\ restarts' = restarts + 1
    /\ known' = {}
    /\ \E n \in 0..Len(outbox) :
          /\ outbox' = SubSeq(outbox, n + 1, Len(outbox))
          /\ reply' = IF InCall /\ n = Len(outbox) /\ n > 0 THEN "error"
                                                           ELSE reply
    /\ UNCHANGED <<phase, todo, waiting, gave_up, objectVars, g_running,
                   inbox, requests>>

-----------------------------------------------------------------------------
Main ==
    \/ \E name \in Settings : SetProperty(name) \/ SetPropertyReturns(name)
    \/ SetClassOfDevice
    \/ StartAgent \/ RequestDefaultAgent \/ RequestDefaultAgentReturns
    \/ StartGatt \/ StartProfile \/ StartProfileReturns
    \/ \E ok \in BOOLEAN :
          StartAgentReturns(ok) \/ StartGattReturns(ok) \/ StartIpc(ok)
    \/ Loop \/ Dispatch
    \/ StopIpc \/ UnregisterGatt \/ StopGatt \/ StopProfile \/ StopAgent
    \/ Exit

Environment ==
    \/ Killed
    \/ \E signum \in {"SIGINT", "SIGTERM"} : SignalHandler(signum)
    \/ \E ok \in BOOLEAN : BluezAnswers(ok)
    \/ \E request \in Requests : BluezRequests(request)
    \/ BluezRestarts

Next == Main \/ Environment

Spec == Init /\ [][Next]_vars

(* The main thread runs on, and its calls time out.  BlueZ need not work.  *)
FairSpec == Spec /\ WF_vars(Main)

-----------------------------------------------------------------------------
(* Properties.                                                             *)

(* A signal that reaches the flag ends the process, at whatever point of   *)
(* start-up or service it comes and whether or not BlueZ answers.          *)
SignalEndsDaemon == ~g_running ~> phase = "exited"

(* What BlueZ asks is answered after at most the rest of the start-up, or  *)
(* the process ends: no request waits for ever behind a blocking call.     *)
RequestsAnswered == []<>(inbox = << >> \/ phase = "exited")

(* Three components share one connection and nested paths: each request is *)
(* dispatched to its addressee.  Only an agent whose registration timed out*)
(* and was completed later by BlueZ is asked in vain.                      *)
RequestsReachOwner ==
    phase = "dispatch" /\ inbox # << >>
        => \/ Route(Head(inbox)) = Addressee[Head(inbox)]
           \/ /\ Addressee[Head(inbox)] = "agent"
              /\ gave_up

(* On every way out of main what is stopped or destroyed had been          *)
(* constructed, and was not destroyed before; and a handler goes before its*)
(* object.  The filter never goes, but nothing is dispatched any more.     *)
HandlersOutlived ==
    /\ \A i \in DOMAIN todo :
          todo[i][1] \in {"stop", "destroy"} => todo[i][2] \in alive
    /\ \A h \in installed :
          \/ Owner[h] \in alive
          \/ h = "filter" /\ phase \in {"stop", "exited"}

(* The agent takes itself for registered only if BlueZ knows it or has sent*)
(* a Release that is still queued, until the first restart of bluetoothd.  *)
AgentFlagFollows ==
    agent_registered /\ restarts = 0 /\ phase # "exited"
        => "agent" \in known \/ \E i \in DOMAIN inbox : inbox[i] = "release"
=============================================================================
