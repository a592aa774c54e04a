---------------------------- MODULE DaemonProofs ----------------------------
(***************************************************************************)
(* Theorems about Daemon, for any number of requests and restarts.         *)
(*                                                                         *)
(* Where the start-up has got to is told by how many steps are left, and   *)
(* most of what follows is about one of them: 5 is the registration of the *)
(* agent, 4 RequestDefaultAgent, 3 the GATT application, 2 the profile and *)
(* 1 the command socket.                                                   *)
(***************************************************************************)
EXTENDS Daemon, SequenceTheorems, TLAPS

AgentOps == {<<"stop", "agent">>, <<"destroy", "agent">>}

(* Stopping and destroying what is in live, and nothing that the list has  *)
(* destroyed already.                                                      *)
Stopping(list, live) ==
    \A i \in DOMAIN list :
        /\ list[i][1] \in {"stop", "destroy"}
        /\ list[i][2] \in live
        /\ \A j \in DOMAIN list :
              i < j /\ list[i][1] = "destroy" => list[j][2] # list[i][2]

(* What main has still to do.                                              *)
Left == Len(todo)
Plan ==
    /\ phase = "start" =>
          /\ Left \in 1..11
          /\ \A i \in 1..Left : todo[i] = StartUp[11 - Left + i]
    /\ phase \in {"loop", "dispatch", "exited"} => todo = << >>
    /\ phase \in {"loop", "dispatch"} => alive = Objects
    /\ phase = "stop" => Stopping(todo, alive)

(* The start-up has sent the call of its step n.                           *)
Past(n) == Left < n \/ (Left = n /\ waiting)

(* Which objects and handlers exist.                                       *)
Built ==
    /\ phase = "start" =>
          /\ Past(5) => "agent" \in alive
          /\ Past(3) => "gatt" \in alive /\ "fallback" \in installed
          /\ Past(2) => /\ "profile" \in alive
                        /\ "hid" \in installed /\ "filter" \in installed
    /\ phase \in {"loop", "dispatch"} =>
          {"fallback", "hid", "filter"} \subseteq installed
    /\ \A h \in installed :
          \/ Owner[h] \in alive
          \/ h = "filter" /\ phase \in {"stop", "exited"}

(* The call of the start-up that main waits for is the last on its way, or *)
(* it has its answer.                                                      *)
Calls ==
    phase = "start" =>
        /\ reply # "none" => InCall
        /\ InCall => IF reply = "none"
                     THEN /\ outbox # << >>
                          /\ outbox[Len(outbox)] = Head(todo)
                     ELSE outbox = << >>

(* BlueZ has not heard of the agent, or has given it up.                   *)
Unasked ==
    /\ "agent" \notin known
    /\ \A i \in DOMAIN inbox : inbox[i] \notin {"pair", "release"}

(* The registration of the agent: what BlueZ may ask of it, and when it    *)
(* has a handler.                                                          *)
Asked ==
    /\ /\ phase = "start"
       /\ Left >= 6 \/ (Left = 5 /\ ~(waiting /\ reply = "ok"))
       => Unasked
    /\ phase = "start" /\ Left >= 5 => ~gave_up
    /\ phase = "start" /\ Left >= 4 => ~agent_registered
    /\ \A i \in DOMAIN outbox : outbox[i] = <<"start", "agent">> =>
          \/ gave_up
          \/ /\ phase = "start" /\ Left = 5 /\ waiting /\ reply = "none"
             /\ i = Len(outbox)
    /\ phase = "start" /\ (Left = 4 \/ (Left = 5 /\ waiting))
          => "agent" \in installed
    /\ phase \in {"start", "loop", "dispatch"} /\ "agent" \notin installed
          => ~agent_registered /\ (gave_up \/ Unasked)

(* What registered_ of the agent rests on.                                 *)
Stands ==
    /\ \A i \in DOMAIN outbox : outbox[i] \in AgentOps
          => phase = "stop" /\ ~agent_registered
    /\ /\ restarts = 0 /\ phase # "exited"
       /\ \/ agent_registered
          \/ /\ phase = "start"
             /\ Left = 4 \/ (Left = 5 /\ waiting /\ reply = "ok")
       => "agent" \in known \/ \E i \in DOMAIN inbox : inbox[i] = "release"

-----------------------------------------------------------------------------
(* The operations, one by one.                                             *)
LEMMA StartOps ==
    /\ StartUp[1] = <<"set", "Powered">> /\ StartUp[2] = <<"set", "Alias">>
    /\ StartUp[3] = <<"set", "Class">>
    /\ StartUp[4] = <<"set", "DiscoverableTimeout">>
    /\ StartUp[5] = <<"set", "Discoverable">>
    /\ StartUp[6] = <<"set", "Pairable">>
    /\ StartUp[7] = <<"start", "agent">>
    /\ StartUp[8] = <<"start", "default">>
    /\ StartUp[9] = <<"start", "gatt">>
    /\ StartUp[10] = <<"start", "profile">>
    /\ StartUp[11] = <<"start", "ipc">>
    /\ Len(StartUp) = 11
  BY DEF StartUp

LEMMA StartUpOps == StartUp \in Seq(Op)
<1>1. /\ \A name \in Settings \cup {"Class"} : <<"set", name>> \in Op
      /\ \A o \in Objects : <<"start", o>> \in Op
      /\ <<"start", "default">> \in Op
  BY DEF Op
<1>2. /\ <<"set", "Powered">> \in Op /\ <<"set", "Alias">> \in Op
      /\ <<"set", "Class">> \in Op /\ <<"set", "DiscoverableTimeout">> \in Op
      /\ <<"set", "Discoverable">> \in Op /\ <<"set", "Pairable">> \in Op
  BY <1>1 DEF Settings
<1>3. /\ <<"start", "agent">> \in Op /\ <<"start", "default">> \in Op
      /\ <<"start", "gatt">> \in Op /\ <<"start", "profile">> \in Op
      /\ <<"start", "ipc">> \in Op
  BY <1>1 DEF Objects
<1>. QED
  BY <1>2, <1>3 DEF StartUp

LEMMA StopOps ==
    ASSUME NEW verb \in {"stop", "destroy"}, NEW object \in Objects
    PROVE  /\ << <<verb, object>> >> \in Seq(Op)
           /\ Stopping(<< <<verb, object>> >>, {object})
<1>1. <<verb, object>> \in Op
  BY DEF Op
<1>. QED
  BY <1>1 DEF Stopping

(* Two lists in a row, the second not about what the first destroys.       *)
LEMMA StopBoth ==
    ASSUME NEW a \in Seq(Op), NEW b \in Seq(Op), NEW S, NEW T,
           Stopping(a, S), Stopping(b, T),
           \A i \in DOMAIN a : a[i][1] = "destroy" => a[i][2] \notin T
    PROVE  a \o b \in Seq(Op) /\ Stopping(a \o b, S \cup T)
<1>. DEFINE ab == a \o b
<1>1. /\ ab \in Seq(Op) /\ Len(ab) = Len(a) + Len(b)
      /\ \A i \in 1..Len(a) : ab[i] = a[i]
      /\ \A i \in Len(a)+1..Len(ab) :
            ab[i] = b[i - Len(a)] /\ i - Len(a) \in 1..Len(b)
      /\ Len(a) \in Nat /\ Len(b) \in Nat
      /\ DOMAIN a = 1..Len(a) /\ DOMAIN b = 1..Len(b)
      /\ DOMAIN ab = 1..Len(ab)
  OBVIOUS
<1>. HIDE DEF ab
<1>2. ASSUME NEW i \in DOMAIN ab
      PROVE  /\ ab[i][1] \in {"stop", "destroy"} /\ ab[i][2] \in S \cup T
             /\ \A j \in DOMAIN ab :
                   i < j /\ ab[i][1] = "destroy" => ab[j][2] # ab[i][2]
  <2>1. CASE i \in 1..Len(a)
    <3>1. /\ ab[i] = a[i] /\ a[i][1] \in {"stop", "destroy"} /\ a[i][2] \in S
      BY <1>1, <2>1 DEF Stopping
    <3>2. ASSUME NEW j \in DOMAIN ab, i < j, ab[i][1] = "destroy"
          PROVE  ab[j][2] # ab[i][2]
      <4>1. CASE j \in 1..Len(a)
        BY <1>1, <2>1, <3>2, <4>1 DEF Stopping
      <4>2. CASE j \in Len(a)+1..Len(ab)
        <5>1. ab[j][2] \in T
          BY <1>1, <4>2 DEF Stopping
        <5>. QED
          BY <1>1, <2>1, <3>1, <3>2, <5>1
      <4>. QED
        BY <1>1, <4>1, <4>2
    <3>. QED
      BY <3>1, <3>2
  <2>2. CASE i \in Len(a)+1..Len(ab)
    <3>1. /\ ab[i] = b[i - Len(a)] /\ i - Len(a) \in DOMAIN b
      BY <1>1, <2>2
    <3>2. \A j \in DOMAIN ab : i < j =>
             ab[j] = b[j - Len(a)] /\ j - Len(a) \in DOMAIN b
      BY <1>1, <2>2
    <3>3. \A j \in DOMAIN ab : i < j => i - Len(a) < j - Len(a)
      BY <1>1, <2>2
    <3>. QED
      BY <3>1, <3>2, <3>3 DEF Stopping
  <2>. QED
    BY <1>1, <2>1, <2>2
<1>3. Stopping(ab, S \cup T)
  BY <1>2 DEF Stopping
<1>. QED
  BY <1>1, <1>3 DEF ab

(* Every destructor that runs has an object to destroy, and only one.      *)
LEMMA DestroyOps ==
    ASSUME NEW S \in SUBSET Objects
    PROVE  Destroy(S) \in Seq(Op) /\ Stopping(Destroy(S), S)
<1>. DEFINE Of(object) == IF object \in S THEN << <<"destroy", object>> >>
                                          ELSE << >>
<1>1. ASSUME NEW object \in Objects
      PROVE  /\ Of(object) \in Seq(Op)
             /\ Stopping(Of(object), {object} \cap S)
  <2>1. CASE object \in S
    BY <2>1, StopOps DEF Stopping
  <2>2. CASE object \notin S
    BY <2>2 DEF Stopping
  <2>. QED
    BY <2>1, <2>2
<1>. HIDE DEF Of
<1>2. /\ "ipc" \in Objects /\ "profile" \in Objects
      /\ "gatt" \in Objects /\ "agent" \in Objects
  BY DEF Objects
<1>3. ASSUME NEW a \in Seq(Op), NEW T, Stopping(a, T),
             NEW object \in Objects, object \notin T
      PROVE  /\ a \o Of(object) \in Seq(Op)
             /\ Stopping(a \o Of(object), T \cup ({object} \cap S))
  <2>1. \A i \in DOMAIN a : a[i][2] \notin {object} \cap S
    BY <1>3 DEF Stopping
  <2>. QED
    BY <1>1, <1>3, <2>1, StopBoth
<1>4. LET a == Of("ipc") \o Of("profile")
      IN  /\ a \in Seq(Op)
          /\ Stopping(a, ({"ipc"} \cap S) \cup ({"profile"} \cap S))
  BY <1>1, <1>2, <1>3
<1>5. LET a == Of("ipc") \o Of("profile") \o Of("gatt")
      IN  /\ a \in Seq(Op)
          /\ Stopping(a, ({"ipc"} \cap S) \cup ({"profile"} \cap S)
                           \cup ({"gatt"} \cap S))
  BY <1>2, <1>3, <1>4
<1>6. LET a == Of("ipc") \o Of("profile") \o Of("gatt") \o Of("agent")
      IN  /\ a \in Seq(Op)
          /\ Stopping(a, ({"ipc"} \cap S) \cup ({"profile"} \cap S)
                           \cup ({"gatt"} \cap S) \cup ({"agent"} \cap S))
  BY <1>2, <1>3, <1>5
<1>7. ({"ipc"} \cap S) \cup ({"profile"} \cap S) \cup ({"gatt"} \cap S)
        \cup ({"agent"} \cap S) = S
  BY DEF Objects
<1>. QED
  BY <1>6, <1>7 DEF Destroy, Of

LEMMA CleanUpOps == CleanUp \in Seq(Op) /\ Stopping(CleanUp, Objects)
<1>. DEFINE stops == << <<"stop", "ipc">>, <<"stop", "gatt">>,
                        <<"stop", "profile">>, <<"stop", "agent">> >>
<1>1. /\ <<"stop", "ipc">> \in Op /\ <<"stop", "gatt">> \in Op
      /\ <<"stop", "profile">> \in Op /\ <<"stop", "agent">> \in Op
  BY DEF Op, Objects
<1>2. stops \in Seq(Op)
  BY <1>1
<1>3. DOMAIN stops = 1..4 /\ \A i \in 1..4 : stops[i][1] = "stop"
  OBVIOUS
<1>4. \A i \in 1..4 : stops[i][2] \in Objects
  BY DEF Objects
<1>. HIDE DEF stops
<1>5. Stopping(stops, Objects)
  BY <1>3, <1>4 DEF Stopping
<1>6. CleanUp = stops \o Destroy(Objects)
  BY DEF CleanUp, stops
<1>7. \A i \in DOMAIN stops : stops[i][1] = "destroy"
                                => stops[i][2] \notin Objects
  BY <1>3
<1>8. Objects \cup Objects = Objects
  OBVIOUS
<1>. QED
  BY <1>2, <1>5, <1>6, <1>7, <1>8, DestroyOps, StopBoth

-----------------------------------------------------------------------------
LEMMA StartPlace ==
    ASSUME NEW n \in 1..11, NEW op, op = StartUp[12 - n]
    PROVE  /\ op[1] \in {"set", "start"}
           /\ op = <<"set", "Class">> <=> n = 9
           /\ op[1] = "set" => n > 5
           /\ op = <<"start", "agent">> <=> n = 5
           /\ op = <<"start", "default">> <=> n = 4
           /\ op = <<"start", "gatt">> <=> n = 3
           /\ op = <<"start", "profile">> <=> n = 2
           /\ op = <<"start", "ipc">> <=> n = 1
<1>1. CASE n \in {9, 10, 11}
  <2>1. /\ n = 9 => op = <<"set", "Class">>
        /\ n = 10 => op = <<"set", "Alias">>
        /\ n = 11 => op = <<"set", "Powered">>
    BY <1>1, StartOps
  <2>. QED
    BY <1>1, <2>1
<1>2. CASE n \in {6, 7, 8}
  <2>1. /\ n = 6 => op = <<"set", "Pairable">>
        /\ n = 7 => op = <<"set", "Discoverable">>
        /\ n = 8 => op = <<"set", "DiscoverableTimeout">>
    BY <1>2, StartOps
  <2>. QED
    BY <1>2, <2>1
<1>3. CASE n \in {1, 2, 3, 4, 5}
  <2>1. /\ n = 1 => op = <<"start", "ipc">>
        /\ n = 2 => op = <<"start", "profile">>
        /\ n = 3 => op = <<"start", "gatt">>
        /\ n = 4 => op = <<"start", "default">>
        /\ n = 5 => op = <<"start", "agent">>
    BY <1>3, StartOps
  <2>. QED
    BY <1>3, <2>1
<1>. QED
  BY <1>1, <1>2, <1>3

(* A step of main is told by its place in the start-up, or it belongs to   *)
(* the clean-up.                                                           *)
LEMMA Places ==
    ASSUME Plan, todo \in Seq(Op), NEW op, At(op)
    PROVE  /\ todo # << >> /\ Head(todo) = op /\ op = todo[1]
           /\ phase = "start" =>
                /\ op[1] \in {"set", "start"}
                /\ op = <<"set", "Class">> <=> Left = 9
                /\ op[1] = "set" => Left > 5
                /\ op = <<"start", "agent">> <=> Left = 5
                /\ op = <<"start", "default">> <=> Left = 4
                /\ op = <<"start", "gatt">> <=> Left = 3
                /\ op = <<"start", "profile">> <=> Left = 2
                /\ op = <<"start", "ipc">> <=> Left = 1
           /\ phase = "stop" =>
                op[1] \in {"stop", "destroy"} /\ op[2] \in alive
           /\ phase \in {"start", "stop"}
<1>1. todo # << >> /\ Head(todo) = op /\ op = todo[1] /\ 1 \in DOMAIN todo
  BY DEF At
<1>2. ASSUME phase = "stop"
      PROVE  op[1] \in {"stop", "destroy"} /\ op[2] \in alive
  BY <1>1, <1>2 DEF Plan, Stopping
<1>3. ASSUME phase = "start"
      PROVE  Left \in 1..11 /\ op = StartUp[12 - Left]
  <2>1. /\ Left \in 1..11 /\ 1 \in 1..Left
        /\ \A i \in 1..Left : todo[i] = StartUp[11 - Left + i]
    BY <1>3 DEF Plan
  <2>2. 11 - Left + 1 = 12 - Left
    BY <2>1
  <2>. QED
    BY <1>1, <2>1, <2>2
<1>4. ASSUME phase = "start"
      PROVE  /\ op[1] \in {"set", "start"}
             /\ op = <<"set", "Class">> <=> Left = 9
             /\ op[1] = "set" => Left > 5
             /\ op = <<"start", "agent">> <=> Left = 5
             /\ op = <<"start", "default">> <=> Left = 4
             /\ op = <<"start", "gatt">> <=> Left = 3
             /\ op = <<"start", "profile">> <=> Left = 2
             /\ op = <<"start", "ipc">> <=> Left = 1
  BY <1>3, <1>4, StartPlace
<1>. QED
  BY <1>1, <1>2, <1>4 DEF At

(* The rest of a list.                                                     *)
LEMMA Rest ==
    ASSUME Plan, todo \in Seq(Op), todo # << >>
    PROVE  /\ Tail(todo) \in Seq(Op) /\ Len(Tail(todo)) = Len(todo) - 1
           /\ \A i \in 1..Len(Tail(todo)) : Tail(todo)[i] = todo[i + 1]
           /\ phase = "stop" => Stopping(Tail(todo), alive)
<1>. DEFINE t == Tail(todo)
<1>1. /\ t \in Seq(Op) /\ Len(t) = Len(todo) - 1
      /\ \A i \in 1..Len(t) : t[i] = todo[i + 1]
      /\ Len(todo) \in Nat /\ DOMAIN todo = 1..Len(todo)
      /\ DOMAIN t = 1..Len(t)
  OBVIOUS
<1>. HIDE DEF t
<1>2. ASSUME phase = "stop" PROVE Stopping(t, alive)
  <2>1. Stopping(todo, alive)
    BY <1>2 DEF Plan
  <2>2. ASSUME NEW i \in DOMAIN t
        PROVE  /\ t[i][1] \in {"stop", "destroy"} /\ t[i][2] \in alive
               /\ \A j \in DOMAIN t :
                     i < j /\ t[i][1] = "destroy" => t[j][2] # t[i][2]
    <3>1. t[i] = todo[i + 1] /\ i + 1 \in DOMAIN todo
      BY <1>1
    <3>2. \A j \in DOMAIN t :
             t[j] = todo[j + 1] /\ j + 1 \in DOMAIN todo
      BY <1>1
    <3>3. \A j \in DOMAIN t : i < j => i + 1 < j + 1
      BY <1>1
    <3>. QED
      BY <2>1, <3>1, <3>2, <3>3 DEF Stopping
  <2>. QED
    BY <2>2 DEF Stopping
<1>. QED
  BY <1>1, <1>2 DEF t

LEMMA SameLeft == todo' = todo => Left' = Left
  BY DEF Left

(* main starts with the whole list and nothing constructed.                *)
LEMMA TypeInit == Init => TypeOK /\ Plan /\ Built
<1>. SUFFICES ASSUME Init PROVE TypeOK /\ Plan /\ Built
  OBVIOUS
<1>0. Left = 11
  BY StartOps DEF Init, Left
<1>1. Plan
  BY <1>0, StartOps DEF Init, Plan
<1>2. Built
  BY <1>0 DEF Init, Built, Past
<1>3. outbox \in Seq(Op) /\ inbox \in Seq(Requests)
  BY DEF Init
<1>4. requests \in 0..MaxRequests /\ restarts \in 0..MaxRestarts
  BY DaemonAssumption DEF Init
<1>5. todo \in Seq(Op)
  BY StartUpOps DEF Init
<1>6. installed \subseteq Handlers /\ alive \subseteq Objects
      /\ known \subseteq Objects
  BY DEF Init
<1>7. TypeOK
  BY <1>3, <1>4, <1>5, <1>6 DEF Init, TypeOK
<1>. QED
  BY <1>1, <1>2, <1>7

(* The steps of main that wait for nobody, and those of everybody else,    *)
(* keep the types.                                                         *)
LEMMA TypeStep == TypeOK /\ Plan /\ [Next]_vars => TypeOK'
<1>. SUFFICES ASSUME TypeOK, Plan, [Next]_vars PROVE TypeOK'
  OBVIOUS
<1>0. /\ phase \in {"start", "loop", "dispatch", "stop", "exited"}
      /\ todo \in Seq(Op) /\ outbox \in Seq(Op) /\ inbox \in Seq(Requests)
      /\ waiting \in BOOLEAN /\ reply \in {"none", "ok", "error"}
      /\ g_running \in BOOLEAN /\ gave_up \in BOOLEAN
      /\ installed \subseteq Handlers /\ alive \subseteq Objects
      /\ agent_registered \in BOOLEAN /\ gatt_registered \in BOOLEAN
      /\ known \subseteq Objects
      /\ requests \in 0..MaxRequests /\ restarts \in 0..MaxRestarts
  BY DEF TypeOK
<1>. DEFINE ListOK == /\ todo' \in Seq(Op) /\ outbox' \in Seq(Op)
                      /\ phase' \in {"start", "loop", "dispatch", "stop",
                                     "exited"}
                      /\ waiting' \in BOOLEAN
                      /\ reply' \in {"none", "ok", "error"}
                      /\ gave_up' \in BOOLEAN
            ObjectOK == /\ installed' \subseteq Handlers
                        /\ alive' \subseteq Objects
                        /\ agent_registered' \in BOOLEAN
                        /\ gatt_registered' \in BOOLEAN
            BluezOK == /\ inbox' \in Seq(Requests) /\ known' \subseteq Objects
                       /\ requests' \in 0..MaxRequests
                       /\ restarts' \in 0..MaxRestarts
                       /\ g_running' \in BOOLEAN
<1>1. ListOK /\ ObjectOK /\ BluezOK => TypeOK'
  BY DEF TypeOK
<1>. USE DEF bluezVars
<1>2. ASSUME NEW op, Call(op) PROVE ListOK /\ BluezOK
  <2>1. op \in Op
    BY <1>0, <1>2 DEF Call, At
  <2>. QED
    BY <1>0, <1>2, <2>1 DEF Call
<1>3. ASSUME NEW op, NEW ok \in BOOLEAN, Returns(op, ok)
      PROVE  /\ BluezOK /\ outbox' \in Seq(Op) /\ waiting' \in BOOLEAN
             /\ reply' \in {"none", "ok", "error"} /\ gave_up' \in BOOLEAN
             /\ todo # << >>
  BY <1>0, <1>3 DEF Returns, At
<1>4. todo # << >> => Tail(todo) \in Seq(Op)
  BY <1>0
<1>5. Destroy(alive) \in Seq(Op)
  BY <1>0, DestroyOps
<1>6. ASSUME NEW name \in Settings, SetProperty(name) PROVE TypeOK'
  BY <1>0, <1>1, <1>2, <1>6 DEF SetProperty, objectVars
<1>7. CASE StartAgent \/ RequestDefaultAgent \/ StartGatt \/ StartProfile
  <2>1. ListOK /\ BluezOK
    BY <1>2, <1>7 DEF StartAgent, RequestDefaultAgent, StartGatt, StartProfile
  <2>2. ObjectOK
    BY <1>0, <1>7
       DEF StartAgent, RequestDefaultAgent, StartGatt, StartProfile,
           objectVars, Objects, Handlers, Owner
  <2>. QED
    BY <1>1, <2>1, <2>2
<1>8. ASSUME NEW name \in Settings, SetPropertyReturns(name) PROVE TypeOK'
  BY <1>0, <1>1, <1>3, <1>4, <1>8 DEF SetPropertyReturns, Proceed, objectVars
<1>9. CASE RequestDefaultAgentReturns \/ StartProfileReturns
  <2>1. ListOK /\ BluezOK
    BY <1>0, <1>3, <1>4, <1>9
       DEF RequestDefaultAgentReturns, StartProfileReturns, Proceed
  <2>2. ObjectOK
    BY <1>0, <1>9 DEF RequestDefaultAgentReturns, StartProfileReturns,
                      objectVars
  <2>. QED
    BY <1>1, <2>1, <2>2
<1>10. CASE SetClassOfDevice
  <2>1. todo # << >> /\ waiting' \in BOOLEAN
        /\ (todo' = todo \/ todo' = Tail(todo)) /\ phase' = phase
    BY <1>10 DEF SetClassOfDevice, At, Proceed
  <2>. QED
    BY <1>0, <1>1, <1>4, <1>10, <2>1 DEF SetClassOfDevice, objectVars
<1>11. ASSUME NEW ok \in BOOLEAN, StartAgentReturns(ok) PROVE TypeOK'
  <2>1. At(<<"start", "agent">>)
    BY <1>11 DEF StartAgentReturns, Returns
  <2>2. phase = "start" /\ Len(todo) = 5 /\ todo # << >>
    <3>1. <<"start", "agent">>[1] \notin {"stop", "destroy"}
      OBVIOUS
    <3>. QED
      BY <1>0, <2>1, <3>1, Places DEF Left
  <2>3. Tail(todo) \in Seq(Op) /\ Len(Tail(todo)) = 4
    BY <1>0, <2>2, Rest
  <2>4. Tail(Tail(todo)) \in Seq(Op)
    BY <2>3
  <2>5. todo' \in Seq(Op) /\ phase' = phase
    BY <1>11, <2>3, <2>4 DEF StartAgentReturns, Proceed
  <2>6. installed' \subseteq Handlers
    BY <1>0, <1>11 DEF StartAgentReturns
  <2>. QED
    BY <1>0, <1>1, <1>3, <1>11, <2>5, <2>6 DEF StartAgentReturns
<1>12. ASSUME NEW ok \in BOOLEAN, StartGattReturns(ok) PROVE TypeOK'
  <2>1. todo' \in Seq(Op) /\ phase' \in {phase, "stop"}
    BY <1>3, <1>4, <1>5, <1>12 DEF StartGattReturns, Proceed, Unwind
  <2>. QED
    BY <1>0, <1>1, <1>3, <1>12, <2>1 DEF StartGattReturns
<1>13. ASSUME NEW ok \in BOOLEAN, StartIpc(ok) PROVE TypeOK'
  <2>1. alive' \subseteq Objects
    BY <1>0, <1>13 DEF StartIpc, Objects
  <2>2. todo' \in Seq(Op) /\ phase' \in {"loop", "stop"}
    <3>1. Destroy(alive') \in Seq(Op) /\ << >> \in Seq(Op)
      BY <2>1, DestroyOps
    <3>. QED
      BY <1>13, <3>1 DEF StartIpc
  <2>. QED
    BY <1>0, <1>1, <1>13, <2>1, <2>2 DEF StartIpc, Without
<1>14. CASE Loop
  <2>1. todo' \in Seq(Op) /\ phase' \in {"dispatch", "stop"}
    BY <1>0, <1>14, CleanUpOps DEF Loop
  <2>. QED
    BY <1>0, <1>1, <1>14, <2>1 DEF Loop, Without, objectVars
<1>15. CASE Dispatch
  <2>1. inbox' \in Seq(Requests)
    BY <1>0, <1>15 DEF Dispatch
  <2>2. agent_registered' \in BOOLEAN
    BY <1>0, <1>15 DEF Dispatch
  <2>. QED
    BY <1>0, <1>1, <1>15, <2>1, <2>2 DEF Dispatch
<1>16. CASE UnregisterGatt
  <2>1. ListOK /\ BluezOK
    BY <1>2, <1>16 DEF UnregisterGatt
  <2>. QED
    BY <1>0, <1>1, <1>16, <2>1 DEF UnregisterGatt, objectVars
<1>17. ASSUME NEW object, Stops(object)
       PROVE  /\ todo' \in Seq(Op) /\ phase' = phase
              /\ alive' \subseteq Objects /\ Head(todo) \in Op
  BY <1>0, <1>4, <1>17 DEF Stops, At, Proceed
<1>18. CASE StopIpc
  BY <1>0, <1>1, <1>17, <1>18 DEF StopIpc, Without
<1>19. CASE StopGatt
  <2>1. \/ \E ok \in BOOLEAN : Returns(Head(todo), ok)
        \/ Without /\ outbox' = outbox
    BY <1>19 DEF StopGatt
  <2>2. /\ BluezOK /\ outbox' \in Seq(Op) /\ waiting' \in BOOLEAN
        /\ reply' \in {"none", "ok", "error"} /\ gave_up' \in BOOLEAN
    BY <1>0, <1>3, <2>1 DEF Without
  <2>. QED
    BY <1>0, <1>1, <1>17, <1>19, <2>2 DEF StopGatt
<1>20. CASE StopProfile \/ StopAgent
  <2>1. todo' \in Seq(Op) /\ phase' = phase /\ alive' \subseteq Objects
        /\ Head(todo) \in Op
    BY <1>17, <1>20 DEF StopProfile, StopAgent
  <2>2. outbox' \in Seq(Op)
    <3>1. outbox' \in {outbox, Append(outbox, Head(todo))}
      BY <1>20 DEF StopProfile, StopAgent
    <3>2. Append(outbox, Head(todo)) \in Seq(Op)
      BY <1>0, <2>1
    <3>. QED
      BY <1>0, <3>1, <3>2
  <2>3. ObjectOK
    BY <1>0, <1>20, <2>1 DEF StopProfile, StopAgent
  <2>4. Without
    BY <1>20 DEF StopProfile, StopAgent
  <2>. QED
    BY <1>0, <1>1, <2>1, <2>2, <2>3, <2>4 DEF Without
<1>21. CASE Exit \/ Killed
  <2>1. Gone
    BY <1>21 DEF Exit, Killed
  <2>2. /\ << >> \in Seq(Op) /\ << >> \in Seq(Requests)
    OBVIOUS
  <2>. QED
    BY <1>0, <1>1, <2>1, <2>2 DEF Gone, objectVars
<1>22. ASSUME NEW signum, SignalHandler(signum) PROVE TypeOK'
  <2>1. g_running' \in BOOLEAN
    BY <1>22 DEF SignalHandler
  <2>. QED
    BY <1>0, <1>1, <1>22, <2>1 DEF SignalHandler, mainVars, objectVars
<1>23. ASSUME NEW ok \in BOOLEAN, BluezAnswers(ok) PROVE TypeOK'
  <2>1. outbox' \in Seq(Op)
    BY <1>0, <1>23 DEF BluezAnswers
  <2>2. known' \subseteq Objects
    BY <1>0, <1>23 DEF BluezAnswers
  <2>3. reply' \in {"none", "ok", "error"}
    BY <1>0, <1>23 DEF BluezAnswers
  <2>. QED
    BY <1>0, <1>1, <1>23, <2>1, <2>2, <2>3 DEF BluezAnswers, objectVars
<1>24. ASSUME NEW request \in Requests, BluezRequests(request) PROVE TypeOK'
  <2>1. requests' \in 0..MaxRequests /\ inbox' \in Seq(Requests)
    BY <1>0, <1>24, DaemonAssumption DEF BluezRequests
  <2>2. known' \subseteq Objects
    BY <1>0, <1>24 DEF BluezRequests
  <2>. QED
    BY <1>0, <1>1, <1>24, <2>1, <2>2
       DEF BluezRequests, mainVars, objectVars
<1>25. CASE BluezRestarts
  <2>1. PICK n \in 0..Len(outbox) :
           outbox' = SubSeq(outbox, n + 1, Len(outbox))
    BY <1>25 DEF BluezRestarts
  <2>2. outbox' \in Seq(Op)
    BY <1>0, <2>1
  <2>3. restarts' \in 0..MaxRestarts
    BY <1>0, <1>25, DaemonAssumption DEF BluezRestarts
  <2>4. reply' \in {"none", "ok", "error"}
    BY <1>0, <1>25 DEF BluezRestarts
  <2>. QED
    BY <1>0, <1>1, <1>25, <2>2, <2>3, <2>4 DEF BluezRestarts, objectVars
<1>26. CASE UNCHANGED vars
  BY <1>0, <1>1, <1>26 DEF vars, mainVars, objectVars
<1>. QED
  BY <1>6, <1>7, <1>8, <1>9, <1>10, <1>11, <1>12, <1>13, <1>14, <1>15, <1>16,
     <1>18, <1>19, <1>20, <1>21, <1>22, <1>23, <1>24, <1>25, <1>26
     DEF Next, Main, Environment

-----------------------------------------------------------------------------
(* A call of the start-up has returned.                                    *)
LEMMA Proceeds ==
    ASSUME Plan, Built, todo \in Seq(Op), phase = "start", Left > 1,
           waiting, phase' = phase, todo' = Tail(todo), ~waiting',
           installed' = installed, alive' = alive
    PROVE  Plan' /\ Built'
<1>1. todo # << >> /\ Left \in 2..11
  <2>1. Left \in 1..11
    BY DEF Plan
  <2>2. todo # << >>
    BY <2>1 DEF Left
  <2>. QED
    BY <2>1, <2>2
<1>2. /\ Left' = Left - 1
      /\ \A i \in 1..Left' : todo'[i] = todo[i + 1]
  BY <1>1, Rest DEF Left
<1>3. Plan'
  <2>1. Left' \in 1..11
    BY <1>1, <1>2
  <2>2. ASSUME NEW i \in 1..Left'
        PROVE  todo'[i] = StartUp[11 - Left' + i]
    <3>1. i + 1 \in 1..Left
      BY <1>1, <1>2
    <3>2. todo[i + 1] = StartUp[11 - Left + (i + 1)]
      BY <3>1 DEF Plan
    <3>3. 11 - Left + (i + 1) = 11 - Left' + i
      BY <1>1, <1>2
    <3>. QED
      BY <1>2, <3>2, <3>3
  <2>. QED
    BY <2>1, <2>2 DEF Plan
<1>4. \A n \in 1..11 : (Past(n)') => Past(n)
  BY <1>1, <1>2 DEF Past
<1>5. Built'
  BY <1>4 DEF Built
<1>. QED
  BY <1>3, <1>5

(* What is destroyed is not mentioned again.                               *)
LEMMA StopsOne ==
    ASSUME Plan, todo \in Seq(Op), NEW object, Stops(object)
    PROVE  /\ phase = "stop" /\ phase' = "stop" /\ Plan'
           /\ alive \ {object} \subseteq alive'
<1>1. PICK verb \in {"stop", "destroy"} : At(<<verb, object>>)
  BY DEF Stops
<1>2. /\ todo # << >> /\ Head(todo) = <<verb, object>>
      /\ todo[1] = <<verb, object>> /\ phase = "stop"
  <2>1. <<verb, object>>[1] \notin {"set", "start"}
    OBVIOUS
  <2>. QED
    BY <1>1, <2>1, Places
<1>3. /\ Len(Tail(todo)) = Len(todo) - 1
      /\ \A i \in 1..Len(Tail(todo)) : Tail(todo)[i] = todo[i + 1]
      /\ Stopping(Tail(todo), alive) /\ Tail(todo) \in Seq(Op)
  BY <1>2, Rest
<1>4. todo' = Tail(todo) /\ phase' = phase
  BY DEF Stops, Proceed
<1>5. alive' = IF verb = "destroy" THEN alive \ {object} ELSE alive
  BY <1>2 DEF Stops
<1>6. Stopping(Tail(todo), alive')
  <2>1. CASE verb = "stop"
    BY <1>3, <1>5, <2>1
  <2>2. CASE verb = "destroy"
    <3>1. \A i \in DOMAIN Tail(todo) : Tail(todo)[i][2] # object
      <4>1. /\ Len(todo) \in Nat /\ DOMAIN todo = 1..Len(todo)
            /\ DOMAIN Tail(todo) = 1..Len(Tail(todo)) /\ 1 \in DOMAIN todo
        BY <1>2, <1>3
      <4>2. \A j \in DOMAIN todo : 1 < j => todo[j][2] # object
        BY <1>2, <2>2, <4>1 DEF Plan, Stopping
      <4>3. \A i \in DOMAIN Tail(todo) : i + 1 \in DOMAIN todo /\ 1 < i + 1
        BY <1>3, <4>1
      <4>. QED
        BY <1>3, <4>1, <4>2, <4>3
    <3>. QED
      BY <1>3, <1>5, <2>2, <3>1 DEF Stopping
  <2>. QED
    BY <2>1, <2>2
<1>. QED
  BY <1>2, <1>4, <1>5, <1>6 DEF Plan

(* main and its clean-up, from whatever point it is reached.               *)
LEMMA PlanStep == TypeOK /\ Plan /\ Built /\ [Next]_vars => Plan' /\ Built'
<1>. SUFFICES ASSUME TypeOK, Plan, Built, [Next]_vars PROVE Plan' /\ Built'
  OBVIOUS
<1>0. todo \in Seq(Op) /\ alive \in SUBSET Objects
      /\ installed \in SUBSET Handlers
  BY DEF TypeOK
<1>1. ASSUME UNCHANGED <<phase, todo, waiting, alive, installed>>
      PROVE  Plan' /\ Built'
  <2>1. Left' = Left
    BY <1>1, SameLeft
  <2>. QED
    BY <1>1, <2>1 DEF Plan, Built, Past
<1>2. ASSUME NEW name \in Settings, SetProperty(name) PROVE Plan' /\ Built'
  <2>1. phase = "start" /\ Left > 5
    <3>1. <<"set", name>>[1] = "set"
      OBVIOUS
    <3>. QED
      BY <1>0, <1>2, <3>1, Places DEF SetProperty, Call
  <2>2. UNCHANGED <<phase, todo, alive, installed>>
    BY <1>2 DEF SetProperty, Call, objectVars
  <2>3. \A n \in 1..5 : Past(n)' <=> Past(n)
    BY <2>1, <2>2, SameLeft DEF Past, Plan
  <2>4. Left' = Left
    BY <2>2, SameLeft
  <2>. QED
    BY <2>1, <2>2, <2>3, <2>4 DEF Plan, Built
<1>3. CASE StartAgent
  <2>1. At(<<"start", "agent">>) /\ waiting'
        /\ UNCHANGED <<phase, todo>> /\ alive' = alive \cup {"agent"}
        /\ installed' = installed \cup {"agent"}
    BY <1>3 DEF StartAgent, Call
  <2>2. phase = "start" /\ Left = 5
    <3>1. <<"start", "agent">>[1] = "start"
      OBVIOUS
    <3>. QED
      BY <1>0, <2>1, <3>1, Places
  <2>3. Left' = Left
    BY <2>1, SameLeft
  <2>. QED
    BY <2>1, <2>2, <2>3 DEF Plan, Built, Past, Owner
<1>4. CASE RequestDefaultAgent
  <2>1. At(<<"start", "default">>) /\ waiting'
        /\ UNCHANGED <<phase, todo, alive, installed>>
    BY <1>4 DEF RequestDefaultAgent, Call, objectVars
  <2>2. phase = "start" /\ Left = 4
    <3>1. <<"start", "default">>[1] = "start"
      OBVIOUS
    <3>. QED
      BY <1>0, <2>1, <3>1, Places
  <2>3. Left' = Left
    BY <2>1, SameLeft
  <2>. QED
    BY <2>1, <2>2, <2>3 DEF Plan, Built, Past
<1>5. CASE StartGatt
  <2>1. At(<<"start", "gatt">>) /\ waiting'
        /\ UNCHANGED <<phase, todo>> /\ alive' = alive \cup {"gatt"}
        /\ installed' = installed \cup {"fallback"}
    BY <1>5 DEF StartGatt, Call
  <2>2. phase = "start" /\ Left = 3
    <3>1. <<"start", "gatt">>[1] = "start"
      OBVIOUS
    <3>. QED
      BY <1>0, <2>1, <3>1, Places
  <2>3. Left' = Left
    BY <2>1, SameLeft
  <2>. QED
    BY <2>1, <2>2, <2>3 DEF Plan, Built, Past, Owner
<1>6. CASE StartProfile
  <2>1. At(<<"start", "profile">>) /\ waiting'
        /\ UNCHANGED <<phase, todo>> /\ alive' = alive \cup {"profile"}
        /\ installed' = installed \cup {"hid", "filter"}
    BY <1>6 DEF StartProfile, Call
  <2>2. phase = "start" /\ Left = 2
    <3>1. <<"start", "profile">>[1] = "start"
      OBVIOUS
    <3>. QED
      BY <1>0, <2>1, <3>1, Places
  <2>3. Left' = Left
    BY <2>1, SameLeft
  <2>. QED
    BY <2>1, <2>2, <2>3 DEF Plan, Built, Past, Owner
<1>7. ASSUME NEW op, NEW ok, Returns(op, ok), Proceed,
             op[1] \in {"set", "start"}, op # <<"start", "ipc">>,
             installed' = installed, alive' = alive
      PROVE  Plan' /\ Built'
  <2>1. At(op) /\ waiting /\ ~waiting' /\ todo' = Tail(todo)
        /\ phase' = phase
    BY <1>7 DEF Returns, Proceed
  <2>2. phase = "start" /\ Left # 1
    BY <1>0, <1>7, <2>1, Places
  <2>3. Left > 1
    BY <2>2 DEF Plan
  <2>. QED
    BY <1>0, <1>7, <2>1, <2>2, <2>3, Proceeds
<1>8. ASSUME NEW name \in Settings, SetPropertyReturns(name)
      PROVE  Plan' /\ Built'
  BY <1>7, <1>8 DEF SetPropertyReturns, objectVars
<1>9. CASE RequestDefaultAgentReturns \/ StartProfileReturns
  BY <1>7, <1>9 DEF RequestDefaultAgentReturns, StartProfileReturns,
                    objectVars
<1>10. CASE SetClassOfDevice
  <2>1. /\ At(<<"set", "Class">>)
        /\ UNCHANGED <<alive, installed>>
        /\ \/ waiting' /\ UNCHANGED <<phase, todo>>
           \/ waiting /\ ~waiting' /\ todo' = Tail(todo) /\ phase' = phase
    BY <1>10 DEF SetClassOfDevice, Proceed, objectVars
  <2>2. phase = "start" /\ Left = 9
    <3>1. <<"set", "Class">>[1] = "set"
      OBVIOUS
    <3>. QED
      BY <1>0, <2>1, <3>1, Places
  <2>3. CASE waiting' /\ UNCHANGED <<phase, todo>>
    <3>1. Left' = Left
      BY <2>3, SameLeft
    <3>. QED
      BY <2>1, <2>2, <2>3, <3>1 DEF Plan, Built, Past
  <2>4. CASE waiting /\ ~waiting' /\ todo' = Tail(todo) /\ phase' = phase
    BY <1>0, <2>1, <2>2, <2>4, Proceeds
  <2>. QED
    BY <2>1, <2>3, <2>4
<1>11. CASE StartAgentReturns(TRUE) \/ StartGattReturns(TRUE)
  BY <1>7, <1>11 DEF StartAgentReturns, StartGattReturns
<1>12. CASE StartAgentReturns(FALSE)
  <2>1. /\ At(<<"start", "agent">>) /\ waiting /\ ~waiting'
        /\ todo' = Tail(Tail(todo)) /\ phase' = phase
        /\ alive' = alive /\ installed' = installed \ {"agent"}
    BY <1>12 DEF StartAgentReturns, Returns
  <2>2. phase = "start" /\ Left = 5 /\ todo # << >>
    <3>1. <<"start", "agent">>[1] = "start"
      OBVIOUS
    <3>. QED
      BY <1>0, <2>1, <3>1, Places
  <2>3. /\ Tail(todo) \in Seq(Op) /\ Len(Tail(todo)) = 4
        /\ \A i \in 1..4 : Tail(todo)[i] = todo[i + 1]
    BY <1>0, <2>2, Rest DEF Left
  <2>4. Left' = 3 /\ \A i \in 1..3 : todo'[i] = todo[i + 2]
    <3>1. Tail(todo) # << >>
      <4>. SUFFICES ASSUME Tail(todo) = << >> PROVE FALSE
        OBVIOUS
      <4>1. Len(<< >>) = 4
        BY <2>3, Zenon
      <4>. QED
        BY <4>1
    <3>2. /\ Len(Tail(Tail(todo))) = Len(Tail(todo)) - 1
          /\ \A i \in 1..Len(Tail(Tail(todo))) :
                Tail(Tail(todo))[i] = Tail(todo)[i + 1]
      BY <2>3, <3>1, HeadTailProperties
    <3>3. /\ Left' = 3
          /\ \A i \in 1..3 : todo'[i] = Tail(todo)[i + 1]
      <4>1. Len(Tail(Tail(todo))) = 3
        BY <2>3, <3>2
      <4>. QED
        BY <2>1, <3>2, <4>1 DEF Left
    <3>4. \A i \in 1..3 : i + 1 \in 1..4 /\ (i + 1) + 1 = i + 2
      OBVIOUS
    <3>. QED
      BY <2>3, <3>3, <3>4
  <2>5. \A i \in 1..5 : todo[i] = StartUp[6 + i]
    BY <2>2 DEF Plan
  <2>6. \A i \in 1..3 : todo'[i] = StartUp[8 + i]
    BY <2>4, <2>5
  <2>7. Plan'
    <3>1. \A i \in 1..Left' : todo'[i] = StartUp[11 - Left' + i]
      BY <2>4, <2>6
    <3>2. phase' = "start" /\ Left' \in 1..11
      BY <2>1, <2>2, <2>4
    <3>. QED
      BY <3>1, <3>2 DEF Plan
  <2>8. Built'
    BY <2>1, <2>2, <2>4 DEF Built, Past
  <2>. QED
    BY <2>7, <2>8
<1>13. CASE StartGattReturns(FALSE)
  <2>1. /\ phase' = "stop" /\ todo' = Destroy(alive)
        /\ alive' = alive /\ installed' = installed
        /\ At(<<"start", "gatt">>)
    BY <1>13 DEF StartGattReturns, Returns, Unwind
  <2>2. phase = "start"
    <3>1. <<"start", "gatt">>[1] = "start"
      OBVIOUS
    <3>. QED
      BY <1>0, <2>1, <3>1, Places
  <2>3. Plan'
    BY <1>0, <2>1, DestroyOps DEF Plan
  <2>4. Built'
    BY <2>1, <2>2 DEF Built
  <2>. QED
    BY <2>3, <2>4
<1>14. ASSUME NEW ok \in BOOLEAN, StartIpc(ok) PROVE Plan' /\ Built'
  <2>1. /\ At(<<"start", "ipc">>) /\ alive' = alive \cup {"ipc"}
        /\ installed' = installed
        /\ \/ phase' = "loop" /\ todo' = << >>
           \/ phase' = "stop" /\ todo' = Destroy(alive')
    BY <1>14 DEF StartIpc
  <2>2. phase = "start" /\ Left = 1
    <3>1. <<"start", "ipc">>[1] = "start"
      OBVIOUS
    <3>. QED
      BY <1>0, <2>1, <3>1, Places
  <2>3. /\ alive' = Objects
        /\ {"fallback", "hid", "filter"} \subseteq installed
    <3>1. Past(5) /\ Past(3) /\ Past(2)
      BY <2>2 DEF Past
    <3>. QED
      BY <1>0, <2>1, <2>2, <3>1 DEF Built, Objects
  <2>4. Plan'
    BY <2>1, <2>3, DestroyOps DEF Plan
  <2>5. Built'
    BY <2>1, <2>2, <2>3 DEF Built
  <2>. QED
    BY <2>4, <2>5
<1>15. CASE Loop
  <2>1. /\ phase = "loop" /\ alive' = alive /\ installed' = installed
        /\ \/ phase' = "dispatch" /\ todo' = todo
           \/ phase' = "stop" /\ todo' = CleanUp
    BY <1>15 DEF Loop, objectVars
  <2>2. Plan'
    BY <2>1, CleanUpOps DEF Plan
  <2>3. Built'
    BY <2>1 DEF Built
  <2>. QED
    BY <2>2, <2>3
<1>16. CASE Dispatch
  <2>1. phase = "dispatch" /\ phase' = "loop"
        /\ UNCHANGED <<todo, alive, installed>>
    BY <1>16 DEF Dispatch
  <2>. QED
    BY <2>1 DEF Plan, Built
<1>17. CASE UnregisterGatt
  <2>1. PICK verb \in {"stop", "destroy"} :
           At(<<verb, "gatt">>) /\ UNCHANGED <<phase, todo, alive, installed>>
    BY <1>17 DEF UnregisterGatt, Call, objectVars
  <2>2. phase = "stop"
    <3>1. <<verb, "gatt">>[1] \notin {"set", "start"}
      OBVIOUS
    <3>. QED
      BY <1>0, <2>1, <3>1, Places
  <2>. QED
    BY <2>1, <2>2 DEF Plan, Built
<1>18. CASE StopIpc
  <2>1. Stops("ipc") /\ installed' = installed
    BY <1>18 DEF StopIpc
  <2>2. phase = "stop" /\ phase' = "stop" /\ Plan'
        /\ alive \ {"ipc"} \subseteq alive'
    BY <1>0, <2>1, StopsOne
  <2>3. Built'
    BY <1>0, <2>1, <2>2 DEF Built, Handlers, Owner
  <2>. QED
    BY <2>2, <2>3
<1>19. CASE StopGatt
  <2>1. Stops("gatt") /\ installed' = installed \ {"fallback"}
    BY <1>19 DEF StopGatt
  <2>2. phase = "stop" /\ phase' = "stop" /\ Plan'
        /\ alive \ {"gatt"} \subseteq alive'
    BY <1>0, <2>1, StopsOne
  <2>3. Built'
    BY <1>0, <2>1, <2>2 DEF Built, Handlers, Owner
  <2>. QED
    BY <2>2, <2>3
<1>20. CASE StopProfile
  <2>1. Stops("profile") /\ installed' = installed \ {"hid"}
    BY <1>20 DEF StopProfile
  <2>2. phase = "stop" /\ phase' = "stop" /\ Plan'
        /\ alive \ {"profile"} \subseteq alive'
    BY <1>0, <2>1, StopsOne
  <2>3. Built'
    BY <1>0, <2>1, <2>2 DEF Built, Handlers, Owner
  <2>. QED
    BY <2>2, <2>3
<1>21. CASE StopAgent
  <2>1. Stops("agent") /\ installed' = installed \ {"agent"}
    BY <1>21 DEF StopAgent
  <2>2. phase = "stop" /\ phase' = "stop" /\ Plan'
        /\ alive \ {"agent"} \subseteq alive'
    BY <1>0, <2>1, StopsOne
  <2>3. Built'
    BY <1>0, <2>1, <2>2 DEF Built, Handlers, Owner
  <2>. QED
    BY <2>2, <2>3
<1>22. CASE Exit \/ Killed
  <2>1. phase' = "exited" /\ todo' = << >> /\ UNCHANGED <<alive, installed>>
    BY <1>22 DEF Exit, Killed, Gone, objectVars
  <2>2. Built'
    BY <2>1 DEF Built
  <2>. QED
    BY <2>1, <2>2 DEF Plan
<1>23. CASE \/ \E signum \in {"SIGINT", "SIGTERM"} : SignalHandler(signum)
            \/ \E ok \in BOOLEAN : BluezAnswers(ok)
            \/ \E request \in Requests : BluezRequests(request)
            \/ BluezRestarts \/ UNCHANGED vars
  BY <1>1, <1>23 DEF SignalHandler, BluezAnswers, BluezRequests,
                     BluezRestarts, mainVars, objectVars, vars
<1>. QED
  BY <1>2, <1>3, <1>4, <1>5, <1>6, <1>8, <1>9, <1>10, <1>11, <1>12, <1>13,
     <1>14, <1>15, <1>16, <1>17, <1>18, <1>19, <1>20, <1>21, <1>22, <1>23
     DEF Next, Main, Environment

LEMMA PlanInvariant == Spec => [](TypeOK /\ Plan /\ Built)
  BY TypeInit, TypeStep, PlanStep, PTL DEF Spec

(* Every variable of the main thread and of the bus keeps its type.        *)
THEOREM TypeCorrect == Spec => []TypeOK
  BY PlanInvariant, PTL

(* On every way out of main each object is stopped and destroyed once, and *)
(* its handlers on the shared connection go before it.                     *)
THEOREM Outlived == Spec => []HandlersOutlived
<1>1. TypeOK /\ Plan /\ Built => HandlersOutlived
  <2>. SUFFICES ASSUME TypeOK, Plan, Built PROVE HandlersOutlived
    OBVIOUS
  <2>0. /\ phase \in {"start", "loop", "dispatch", "stop", "exited"}
        /\ todo \in Seq(Op)
    BY DEF TypeOK
  <2>1. ASSUME NEW i \in DOMAIN todo, todo[i][1] \in {"stop", "destroy"}
        PROVE  todo[i][2] \in alive
    <3>1. CASE phase = "start"
      <4>1. /\ Left \in 1..11 /\ i \in 1..Left
            /\ todo[i] = StartUp[11 - Left + i]
        BY <2>0, <3>1 DEF Plan, Left
      <4>2. PICK n \in 1..11 : n = Left + 1 - i
        BY <4>1
      <4>3. 11 - Left + i = 12 - n
        BY <4>1, <4>2
      <4>. QED
        BY <2>1, <4>1, <4>3, StartPlace
    <3>2. CASE phase = "stop"
      BY <2>1, <3>2 DEF Plan, Stopping
    <3>3. CASE phase \in {"loop", "dispatch", "exited"}
      BY <2>1, <3>3 DEF Plan
    <3>. QED
      BY <2>0, <3>1, <3>2, <3>3
  <2>. QED
    BY <2>1 DEF Built, HandlersOutlived
<1>. QED
  BY <1>1, PlanInvariant, PTL

-----------------------------------------------------------------------------
(* A call goes to the end of the outbox; BlueZ takes the first ones.       *)
LEMMA Sends ==
    ASSUME outbox \in Seq(Op), NEW op \in Op, outbox' = Append(outbox, op)
    PROVE  /\ outbox' # << >> /\ outbox'[Len(outbox')] = op
           /\ \A i \in DOMAIN outbox' :
                 \/ i = Len(outbox')
                 \/ i \in DOMAIN outbox /\ outbox'[i] = outbox[i]
<1>1. /\ Len(outbox') = Len(outbox) + 1 /\ Len(outbox) \in Nat
      /\ DOMAIN outbox' = 1..(Len(outbox) + 1)
      /\ DOMAIN outbox = 1..Len(outbox)
      /\ \A i \in 1..Len(outbox) : outbox'[i] = outbox[i]
      /\ outbox'[Len(outbox) + 1] = op
  OBVIOUS
<1>2. outbox' # << >>
  BY <1>1
<1>. QED
  BY <1>1, <1>2

LEMMA Takes ==
    ASSUME outbox \in Seq(Op), NEW n \in 0..Len(outbox),
           outbox' = SubSeq(outbox, n + 1, Len(outbox))
    PROVE  /\ \A i \in DOMAIN outbox' :
                 /\ i + n \in DOMAIN outbox /\ outbox'[i] = outbox[i + n]
                 /\ i + n = Len(outbox) => i = Len(outbox')
                 /\ n # Len(outbox)
           /\ n # Len(outbox) => /\ outbox' # << >>
                                 /\ outbox'[Len(outbox')] = outbox[Len(outbox)]
           /\ n = Len(outbox) => outbox' = << >>
<1>1. /\ outbox' \in Seq(Op) /\ Len(outbox) \in Nat
      /\ Len(outbox') = Len(outbox) - n
      /\ \A i \in 1..(Len(outbox) - n) : outbox'[i] = outbox[n + i]
      /\ DOMAIN outbox = 1..Len(outbox) /\ DOMAIN outbox' = 1..Len(outbox')
  OBVIOUS
<1>2. PICK k \in Nat : k = Len(outbox)
  BY <1>1
<1>3. PICK m \in Nat : m = Len(outbox') /\ m = k - n
  <2>1. n \in 0..k /\ Len(outbox') = k - n
    BY <1>1, <1>2, Zenon
  <2>2. ASSUME NEW l, l = k - n PROVE l \in Nat
    BY <2>1, <2>2
  <2>. QED
    BY <2>1, <2>2, Zenon
<1>4. n \in 0..k /\ k = m + n /\ n \in Nat
  BY <1>2, <1>3
<1>5. /\ DOMAIN outbox' = 1..m /\ DOMAIN outbox = 1..k
      /\ \A i \in 1..m : outbox'[i] = outbox[n + i]
  BY <1>1, <1>2, <1>3
<1>6. \A i \in 1..m : /\ i + n \in 1..k /\ n + i = i + n /\ n # k
                      /\ i + n = k => i = m
  BY <1>4
<1>7. n # k => m \in 1..m
  BY <1>4
<1>8. m = 0 <=> n = k
  BY <1>4
<1>9. outbox' = << >> <=> m = 0
  BY <1>1, <1>3, EmptySeq
<1>. QED
  BY <1>2, <1>3, <1>4, <1>5, <1>6, <1>7, <1>8, <1>9

LEMMA TakesOne ==
    ASSUME outbox \in Seq(Op), outbox # << >>, outbox' = Tail(outbox)
    PROVE  /\ outbox' = SubSeq(outbox, 1 + 1, Len(outbox))
           /\ 1 \in 0..Len(outbox) /\ 1 \in DOMAIN outbox
           /\ Head(outbox) = outbox[1]
  OBVIOUS

(* Requests come at the end and are dispatched from the front.             *)
LEMMA Comes ==
    ASSUME inbox \in Seq(Requests), NEW request \in Requests,
           inbox' = Append(inbox, request)
    PROVE  /\ \A i \in DOMAIN inbox : i \in DOMAIN inbox'
                                      /\ inbox'[i] = inbox[i]
           /\ \A i \in DOMAIN inbox' :
                 inbox'[i] = request \/ (i \in DOMAIN inbox
                                         /\ inbox'[i] = inbox[i])
           /\ \E i \in DOMAIN inbox' : inbox'[i] = request
<1>1. /\ Len(inbox) \in Nat /\ DOMAIN inbox = 1..Len(inbox)
      /\ DOMAIN inbox' = 1..(Len(inbox) + 1)
      /\ \A i \in 1..Len(inbox) : inbox'[i] = inbox[i]
      /\ inbox'[Len(inbox) + 1] = request
  OBVIOUS
<1>. QED
  BY <1>1

LEMMA Goes ==
    ASSUME inbox \in Seq(Requests), inbox # << >>, inbox' = Tail(inbox)
    PROVE  /\ \A i \in DOMAIN inbox' : i + 1 \in DOMAIN inbox
                                       /\ inbox'[i] = inbox[i + 1]
           /\ \A i \in DOMAIN inbox : i = 1 \/ (i - 1 \in DOMAIN inbox'
                                                /\ inbox'[i - 1] = inbox[i])
           /\ 1 \in DOMAIN inbox /\ Head(inbox) = inbox[1]
<1>1. /\ Len(inbox) \in Nat /\ DOMAIN inbox = 1..Len(inbox)
      /\ inbox' \in Seq(Requests) /\ DOMAIN inbox' = 1..(Len(inbox) - 1)
      /\ \A i \in 1..(Len(inbox) - 1) : inbox'[i] = inbox[i + 1]
      /\ Head(inbox) = inbox[1] /\ 1 \in DOMAIN inbox
  OBVIOUS
<1>. QED
  BY <1>1

-----------------------------------------------------------------------------
(* A call of the start-up is sent.                                         *)
LEMMA SentStep ==
    ASSUME TypeOK, Plan, Calls, Asked, Stands,
           NEW op, Call(op), op[1] \in {"set", "start"},
           agent_registered' = agent_registered,
           installed \subseteq installed',
           op = <<"start", "agent">> => "agent" \in installed'
    PROVE  Calls' /\ Asked' /\ Stands'
<1>1. /\ todo \in Seq(Op) /\ outbox \in Seq(Op)
      /\ At(op) /\ ~waiting /\ waiting' /\ outbox' = Append(outbox, op)
      /\ UNCHANGED <<phase, todo, reply, gave_up, inbox, known, restarts>>
  BY DEF TypeOK, Call, bluezVars
<1>2. /\ phase = "start" /\ Head(todo) = op /\ op \in Op
      /\ op = <<"start", "agent">> <=> Left = 5
      /\ op[1] = "set" => Left > 5
      /\ Left \in 1..11
  BY <1>1, Places DEF Plan, At
<1>3. Left' = Left
  BY <1>1, SameLeft
<1>4. reply = "none"
  BY <1>1, <1>2 DEF Calls, InCall
<1>5. /\ outbox' # << >> /\ outbox'[Len(outbox')] = op
      /\ \A i \in DOMAIN outbox' :
            \/ i = Len(outbox')
            \/ i \in DOMAIN outbox /\ outbox'[i] = outbox[i]
  BY <1>1, <1>2, Sends
<1>6. Calls'
  BY <1>1, <1>2, <1>4, <1>5 DEF Calls
<1>7. Unasked' <=> Unasked
  BY <1>1 DEF Unasked
<1>8. Asked'
  <2>1. \A i \in DOMAIN outbox' : outbox'[i] = <<"start", "agent">> =>
           gave_up' \/ (Left' = 5 /\ i = Len(outbox'))
    BY <1>1, <1>2, <1>3, <1>5 DEF Asked
  <2>. QED
    BY <1>1, <1>2, <1>3, <1>4, <1>7, <2>1 DEF Asked
<1>9. Stands'
  <2>1. op \notin AgentOps
    BY <1>2 DEF AgentOps
  <2>2. \A i \in DOMAIN outbox' : outbox'[i] \notin AgentOps
    BY <1>2, <1>5, <2>1 DEF Stands
  <2>. QED
    BY <1>1, <1>2, <1>3, <1>4, <2>2 DEF Stands
<1>. QED
  BY <1>6, <1>8, <1>9

(* A call of the start-up returns, or system() does, other than            *)
(* RegisterAgent.                                                          *)
LEMMA ReturnedStep ==
    ASSUME TypeOK, Plan, Calls, Asked, Stands,
           phase = "start", Left # 5, Left # 1, waiting, ~waiting',
           reply' = "none",
           UNCHANGED <<gave_up, outbox, inbox, known, restarts, installed>>,
           phase' = phase, todo' = Tail(todo),
           \/ agent_registered' = agent_registered
           \/ Left = 4 /\ agent_registered'
    PROVE  Calls' /\ Asked' /\ Stands'
<1>1. Left \in 1..11 /\ Left' = Left - 1
  <2>1. Left \in 1..11
    BY DEF Plan
  <2>2. todo # << >> /\ todo \in Seq(Op)
    BY <2>1 DEF Left, TypeOK
  <2>. QED
    BY <2>1, <2>2, Rest DEF Left
<1>2. Calls'
  BY DEF Calls, InCall
<1>3. Unasked' <=> Unasked
  BY DEF Unasked
<1>4. Asked'
  BY <1>1, <1>3 DEF Asked
<1>5. Stands'
  BY <1>1 DEF Stands
<1>. QED
  BY <1>2, <1>4, <1>5

(* RegisterAgent returns: it succeeded, or BlueZ refused or never got it,  *)
(* or main gave up waiting.                                                *)
LEMMA AgentReturnedStep ==
    ASSUME TypeOK, Plan, Calls, Asked, Stands, NEW ok \in BOOLEAN,
           StartAgentReturns(ok)
    PROVE  Calls' /\ Asked' /\ Stands'
<1>1. /\ At(<<"start", "agent">>) /\ waiting /\ ~waiting' /\ reply' = "none"
      /\ \/ reply = (IF ok THEN "ok" ELSE "error") /\ gave_up' = gave_up
         \/ reply = "none" /\ ~ok /\ gave_up'
      /\ UNCHANGED <<outbox, inbox, known, restarts, agent_registered, phase>>
  BY DEF StartAgentReturns, Returns, bluezVars, Proceed
<1>2. phase = "start" /\ Left = 5 /\ todo # << >> /\ todo \in Seq(Op)
  <2>1. <<"start", "agent">>[1] = "start"
    OBVIOUS
  <2>2. todo \in Seq(Op)
    BY DEF TypeOK
  <2>. QED
    BY <1>1, <2>1, <2>2, Places
<1>3. Tail(todo) \in Seq(Op) /\ Len(Tail(todo)) = 4
  BY <1>2, Rest DEF Left
<1>4. Calls'
  BY <1>1 DEF Calls, InCall
<1>5. Unasked' <=> Unasked
  BY <1>1 DEF Unasked
<1>6. CASE ok
  <2>1. Left' = 4 /\ installed' = installed /\ gave_up' = gave_up
        /\ reply = "ok"
    BY <1>1, <1>3, <1>6 DEF StartAgentReturns, Proceed, Left
  <2>2. Asked'
    BY <1>1, <1>2, <1>5, <2>1 DEF Asked
  <2>3. Stands'
    BY <1>1, <1>2, <2>1 DEF Stands
  <2>. QED
    BY <1>4, <2>2, <2>3
<1>7. CASE ~ok
  <2>1. Left' = 3 /\ installed' = installed \ {"agent"}
    <3>1. Tail(todo) # << >>
      <4>. SUFFICES ASSUME Tail(todo) = << >> PROVE FALSE
        OBVIOUS
      <4>1. Len(<< >>) = 4
        BY <1>3, Zenon
      <4>. QED
        BY <4>1
    <3>2. Len(Tail(Tail(todo))) = Len(Tail(todo)) - 1
      BY <1>3, <3>1, HeadTailProperties
    <3>3. Len(Tail(Tail(todo))) = 3
      <4>1. Len(Tail(Tail(todo))) = 4 - 1
        BY <1>3, <3>2, Zenon
      <4>. QED
        BY <4>1
    <3>. QED
      BY <1>7, <3>3 DEF StartAgentReturns, Left
  <2>2. Asked'
    BY <1>1, <1>2, <1>5, <1>7, <2>1 DEF Asked
  <2>3. Stands'
    BY <1>1, <1>2, <2>1 DEF Stands
  <2>. QED
    BY <1>4, <2>2, <2>3
<1>. QED
  BY <1>6, <1>7
(* hciconfig is started, or it has ended.                                  *)
LEMMA ClassStep ==
    ASSUME TypeOK, Plan, Calls, Asked, Stands, SetClassOfDevice
    PROVE  Calls' /\ Asked' /\ Stands'
<1>1. /\ At(<<"set", "Class">>)
      /\ UNCHANGED <<reply, gave_up, outbox, inbox, known, restarts,
                     agent_registered, installed, phase>>
      /\ \/ waiting' /\ todo' = todo
         \/ waiting /\ ~waiting' /\ todo' = Tail(todo)
  BY DEF SetClassOfDevice, objectVars, bluezVars, Proceed
<1>2. phase = "start" /\ Left = 9
  <2>1. <<"set", "Class">>[1] = "set"
    OBVIOUS
  <2>2. todo \in Seq(Op)
    BY DEF TypeOK
  <2>. QED
    BY <1>1, <2>1, <2>2, Places
<1>3. reply = "none"
  BY <1>1, <1>2 DEF Calls, InCall
<1>4. CASE waiting' /\ todo' = todo
  <2>1. Left' = Left
    BY <1>4, SameLeft
  <2>2. ~InCall' /\ (Unasked' <=> Unasked)
    BY <1>1, <1>4 DEF InCall, At, Unasked
  <2>. QED
    BY <1>1, <1>2, <1>3, <2>1, <2>2 DEF Calls, Asked, Stands
<1>5. CASE waiting /\ ~waiting' /\ todo' = Tail(todo)
  BY <1>1, <1>2, <1>3, <1>5, ReturnedStep
<1>. QED
  BY <1>1, <1>4, <1>5

(* Start-up ends, well or badly, and so does the loop.                     *)
LEMMA OnwardStep ==
    ASSUME Asked, Stands,
           phase = "loop" \/ (phase = "start" /\ (Left = 3 \/ Left = 1)),
           phase' \in {"loop", "dispatch", "stop"},
           UNCHANGED <<gave_up, outbox, inbox, known, restarts,
                       agent_registered, installed>>
    PROVE  Calls' /\ Asked' /\ Stands'
<1>1. Unasked' <=> Unasked
  BY DEF Unasked
<1>2. \A i \in DOMAIN outbox :
         /\ outbox[i] = <<"start", "agent">> => gave_up
         /\ outbox[i] \notin AgentOps
  BY DEF Asked, Stands
<1>3. Asked'
  BY <1>1, <1>2 DEF Asked
<1>. QED
  BY <1>2, <1>3 DEF Calls, Stands

(* Nothing that the bookkeeping is about changes.                          *)
LEMMA SameStep ==
    ASSUME Calls, Asked, Stands,
           UNCHANGED <<phase, todo, waiting, reply, gave_up, outbox, inbox,
                       known, restarts, agent_registered, installed>>
    PROVE  Calls' /\ Asked' /\ Stands'
<1>1. Left' = Left /\ (Unasked' <=> Unasked) /\ (InCall' <=> InCall)
  BY SameLeft DEF Unasked, InCall, At
<1>. QED
  BY <1>1 DEF Calls, Asked, Stands

(* Who gets a call of BlueZ.                                               *)
LEMMA Routes ==
    /\ installed \cap {"filter", "hid"} # {} => Route("connect") = "profile"
    /\ "agent" \in installed => Route("pair") = "agent"
                              /\ Route("release") = "agent"
    /\ "fallback" \in installed => Route("read") = "gatt"
<1>1. installed \cap {"filter", "hid"} # {} => Route("connect") = "profile"
  BY DEF Route
<1>2. "agent" \in installed => Route("pair") = "agent"
  BY DEF Route
<1>3. "agent" \in installed => Route("release") = "agent"
  BY DEF Route
<1>4. "fallback" \in installed => Route("read") = "gatt"
  BY DEF Route
<1>. QED
  BY <1>1, <1>2, <1>3, <1>4

(* One message is dispatched: a Release finds the agent that is registered.*)
LEMMA DispatchStep ==
    ASSUME TypeOK, Asked, Stands, Dispatch
    PROVE  Calls' /\ Asked' /\ Stands'
<1>1. /\ phase = "dispatch" /\ phase' = "loop"
      /\ inbox' = IF inbox = << >> THEN inbox ELSE Tail(inbox)
      /\ agent_registered' = (agent_registered /\ ~AgentReleased)
      /\ UNCHANGED <<gave_up, outbox, known, restarts, installed>>
      /\ inbox \in Seq(Requests)
  BY DEF Dispatch, bluezVars, TypeOK
<1>2. \A i \in DOMAIN outbox :
         /\ outbox[i] = <<"start", "agent">> => gave_up
         /\ outbox[i] \notin AgentOps
  BY <1>1 DEF Asked, Stands
<1>3. Unasked => Unasked'
  <2>1. CASE inbox = << >>
    BY <1>1, <2>1 DEF Unasked
  <2>2. CASE inbox # << >>
    <3>1. \A i \in DOMAIN inbox' : i + 1 \in DOMAIN inbox
                                   /\ inbox'[i] = inbox[i + 1]
      BY <1>1, <2>2, Goes
    <3>. QED
      BY <1>1, <3>1 DEF Unasked
  <2>. QED
    BY <2>1, <2>2
<1>4. Asked'
  BY <1>1, <1>2, <1>3 DEF Asked
<1>5. ASSUME agent_registered', restarts' = 0
      PROVE  "agent" \in known' \/ \E i \in DOMAIN inbox' :
                                      inbox'[i] = "release"
  <2>1. agent_registered /\ ~AgentReleased /\ restarts = 0
    BY <1>1, <1>5
  <2>2. "agent" \in installed
    BY <1>1, <2>1 DEF Asked
  <2>3. "agent" \in known \/ \E i \in DOMAIN inbox : inbox[i] = "release"
    BY <1>1, <2>1 DEF Stands
  <2>4. CASE inbox = << >>
    BY <1>1, <2>3, <2>4
  <2>5. CASE inbox # << >>
    <3>1. /\ \A i \in DOMAIN inbox : i = 1 \/ (i - 1 \in DOMAIN inbox'
                                               /\ inbox'[i - 1] = inbox[i])
          /\ Head(inbox) = inbox[1]
      BY <1>1, <2>5, Goes
    <3>2. inbox[1] # "release"
      BY <2>1, <2>2, <2>5, <3>1, Routes DEF AgentReleased
    <3>. QED
      BY <1>1, <2>3, <3>1, <3>2
  <2>. QED
    BY <2>4, <2>5
<1>6. Stands'
  BY <1>1, <1>2, <1>5 DEF Stands
<1>. QED
  BY <1>1, <1>4, <1>6 DEF Calls

(* A step of the clean-up: the agent says good-bye after it has dropped its*)
(* flag.                                                                   *)
LEMMA CleanStep ==
    ASSUME TypeOK, Asked, Stands, phase = "stop", phase' = "stop",
           UNCHANGED <<inbox, known, restarts>>,
           gave_up => gave_up',
           agent_registered' => agent_registered,
           \/ outbox' = outbox
           \/ \E op \in Op : /\ op[1] \in {"stop", "destroy"}
                             /\ op \in AgentOps => ~agent_registered'
                             /\ outbox' = Append(outbox, op)
    PROVE  Calls' /\ Asked' /\ Stands'
<1>1. \A i \in DOMAIN outbox :
         /\ outbox[i] = <<"start", "agent">> => gave_up
         /\ outbox[i] \in AgentOps => ~agent_registered
  BY DEF Asked, Stands
<1>2. \A i \in DOMAIN outbox' :
         /\ outbox'[i] = <<"start", "agent">> => gave_up'
         /\ outbox'[i] \in AgentOps => ~agent_registered'
  <2>1. CASE outbox' = outbox
    BY <1>1, <2>1
  <2>2. ASSUME NEW op \in Op, op[1] \in {"stop", "destroy"},
               op \in AgentOps => ~agent_registered',
               outbox' = Append(outbox, op)
        PROVE  \A i \in DOMAIN outbox' :
                  /\ outbox'[i] = <<"start", "agent">> => gave_up'
                  /\ outbox'[i] \in AgentOps => ~agent_registered'
    <3>1. /\ outbox'[Len(outbox')] = op
          /\ \A i \in DOMAIN outbox' :
                \/ i = Len(outbox')
                \/ i \in DOMAIN outbox /\ outbox'[i] = outbox[i]
      BY <2>2, Sends DEF TypeOK
    <3>2. op # <<"start", "agent">>
      BY <2>2
    <3>. QED
      BY <1>1, <2>2, <3>1, <3>2
  <2>. QED
    BY <2>1, <2>2
<1>3. Asked'
  BY <1>2 DEF Asked
<1>. QED
  BY <1>2, <1>3 DEF Calls, Stands
(* BlueZ takes the first call; the answer to the one that main waits for   *)
(* is its own.                                                             *)
LEMMA AnswerStep ==
    ASSUME TypeOK, Plan, Calls, Asked, Stands, NEW ok \in BOOLEAN,
           BluezAnswers(ok)
    PROVE  Calls' /\ Asked' /\ Stands'
<1>. DEFINE op == outbox[1]
<1>1. /\ outbox \in Seq(Op) /\ todo \in Seq(Op) /\ outbox # << >>
      /\ outbox' = Tail(outbox) /\ phase # "exited"
      /\ reply' = IF Awaited THEN IF ok THEN "ok" ELSE "error" ELSE reply
      /\ UNCHANGED <<phase, todo, waiting, gave_up, inbox, restarts,
                     agent_registered, installed>>
  BY DEF TypeOK, BluezAnswers, objectVars
<1>2. /\ outbox' = SubSeq(outbox, 1 + 1, Len(outbox))
      /\ 1 \in 0..Len(outbox) /\ 1 \in DOMAIN outbox
      /\ Head(outbox) = op
  BY <1>1, TakesOne
<1>3. /\ \A i \in DOMAIN outbox' :
            /\ i + 1 \in DOMAIN outbox /\ outbox'[i] = outbox[i + 1]
            /\ i + 1 = Len(outbox) => i = Len(outbox')
            /\ 1 # Len(outbox)
      /\ 1 # Len(outbox) => /\ outbox' # << >>
                            /\ outbox'[Len(outbox')] = outbox[Len(outbox)]
      /\ 1 = Len(outbox) => outbox' = << >>
  BY <1>1, <1>2, Takes
<1>4. Left' = Left /\ (InCall' <=> InCall)
  BY <1>1, SameLeft DEF InCall, At
<1>5. /\ op[1] = "start" /\ op[2] = "agent" => op = <<"start", "agent">>
      /\ op[1] \in {"stop", "destroy"} /\ op[2] = "agent" => op \in AgentOps
  <2>1. op \in Op
    BY <1>1, <1>2
  <2>. QED
    BY <2>1 DEF Op, AgentOps
<1>6. known' = CASE op[1] = "start" /\ ok -> known \cup ({op[2]} \cap Objects)
                 [] op[1] \in {"stop", "destroy"} -> known \ {op[2]}
                 [] OTHER -> known
  BY <1>2 DEF BluezAnswers
<1>. HIDE DEF op
<1>7. ASSUME "agent" \in known', "agent" \notin known
      PROVE  ok /\ op = <<"start", "agent">>
  BY <1>5, <1>6, <1>7
<1>8. ASSUME "agent" \notin known', "agent" \in known
      PROVE  phase = "stop" /\ ~agent_registered
  <2>1. op \in AgentOps
    BY <1>5, <1>6, <1>8
  <2>. QED
    BY <1>2, <2>1 DEF Stands, op
<1>9. ASSUME op = <<"start", "agent">>, ~gave_up
      PROVE  /\ phase = "start" /\ Left = 5 /\ waiting /\ reply = "none"
             /\ Awaited
  <2>1. /\ phase = "start" /\ Left = 5 /\ waiting /\ reply = "none"
        /\ 1 = Len(outbox)
    BY <1>2, <1>9 DEF Asked, op
  <2>2. ~At(<<"set", "Class">>)
    BY <1>1, <2>1, Places
  <2>. QED
    BY <2>1, <2>2 DEF Awaited, InCall
<1>10. Calls'
  <2>. SUFFICES ASSUME phase = "start"
                PROVE  /\ reply' # "none" => InCall
                       /\ InCall => IF reply' = "none"
                                    THEN /\ outbox' # << >>
                                         /\ outbox'[Len(outbox')] = Head(todo)
                                    ELSE outbox' = << >>
    BY <1>1, <1>4 DEF Calls
  <2>1. reply' # "none" => InCall
    BY <1>1 DEF Calls, Awaited
  <2>2. ASSUME InCall
        PROVE  IF reply' = "none"
               THEN outbox' # << >> /\ outbox'[Len(outbox')] = Head(todo)
               ELSE outbox' = << >>
    <3>1. reply = "none" /\ outbox[Len(outbox)] = Head(todo)
      BY <1>1, <2>2 DEF Calls
    <3>2. CASE Len(outbox) = 1
      BY <1>1, <1>3, <2>2, <3>2 DEF Awaited
    <3>3. CASE Len(outbox) # 1
      BY <1>1, <1>3, <3>1, <3>3 DEF Awaited
    <3>. QED
      BY <3>2, <3>3
  <2>. QED
    BY <2>1, <2>2
<1>11. ASSUME Unasked, ~gave_up,
              ~(phase = "start" /\ Left = 5 /\ waiting /\ reply' = "ok")
       PROVE  Unasked'
  BY <1>1, <1>7, <1>9, <1>11 DEF Unasked
<1>12. ASSUME phase = "start",
              Left >= 6 \/ (Left = 5 /\ ~(waiting /\ reply' = "ok"))
       PROVE  Unasked'
  <2>1. ~gave_up /\ Left \in 5..11
    BY <1>12 DEF Asked, Plan
  <2>2. ~(Left = 5 /\ waiting /\ reply = "ok")
    <3>. SUFFICES ASSUME Left = 5, waiting, reply = "ok" PROVE FALSE
      OBVIOUS
    <3>1. ~At(<<"set", "Class">>)
      BY <1>1, <1>12, Places
    <3>. QED
      BY <1>1, <1>12, <3>1 DEF Calls, InCall
  <2>3. Unasked
    BY <1>12, <2>1, <2>2 DEF Asked
  <2>. QED
    BY <1>11, <1>12, <2>1, <2>3
<1>13. ASSUME NEW i \in DOMAIN outbox',
              outbox'[i] = <<"start", "agent">>, ~gave_up
       PROVE  /\ phase = "start" /\ Left = 5 /\ waiting /\ reply' = "none"
              /\ i = Len(outbox')
  <2>1. /\ i + 1 \in DOMAIN outbox /\ outbox[i + 1] = <<"start", "agent">>
        /\ i + 1 = Len(outbox) => i = Len(outbox')
        /\ 1 # Len(outbox)
    BY <1>3, <1>13
  <2>. QED
    BY <1>1, <1>13, <2>1 DEF Asked, Awaited
<1>14. ASSUME phase \in {"start", "loop", "dispatch"},
              "agent" \notin installed
       PROVE  ~agent_registered /\ (gave_up \/ Unasked')
  <2>1. ~agent_registered /\ (gave_up \/ Unasked)
        /\ ~(phase = "start" /\ Left = 5 /\ waiting)
    BY <1>14 DEF Asked
  <2>. QED
    BY <1>11, <2>1
<1>15. Asked'
  <2>1. /\ phase = "start" /\ Left >= 5 => ~gave_up
        /\ phase = "start" /\ Left >= 4 => ~agent_registered
        /\ phase = "start" /\ (Left = 4 \/ (Left = 5 /\ waiting))
              => "agent" \in installed
    BY DEF Asked
  <2>2. \A i \in DOMAIN outbox' : outbox'[i] = <<"start", "agent">> =>
           \/ gave_up
           \/ /\ phase = "start" /\ Left = 5 /\ waiting /\ reply' = "none"
              /\ i = Len(outbox')
    BY <1>13
  <2>. QED
    BY <1>1, <1>4, <1>12, <1>14, <2>1, <2>2 DEF Asked
<1>16. ASSUME restarts = 0,
              \/ agent_registered
              \/ /\ phase = "start"
                 /\ Left = 4 \/ (Left = 5 /\ waiting /\ reply' = "ok")
       PROVE  "agent" \in known' \/ \E i \in DOMAIN inbox :
                                       inbox[i] = "release"
  <2>1. CASE \/ agent_registered
             \/ /\ phase = "start"
                /\ Left = 4 \/ (Left = 5 /\ waiting /\ reply = "ok")
    BY <1>1, <1>8, <1>16, <2>1 DEF Stands
  <2>2. CASE phase = "start" /\ Left = 5 /\ waiting /\ reply # "ok"
             /\ reply' = "ok"
    <3>1. Awaited /\ ok /\ InCall
      BY <1>1, <2>2 DEF Awaited
    <3>2. reply = "none"
      BY <1>1, <2>2, <3>1 DEF Calls
    <3>3. outbox[Len(outbox)] = Head(todo) /\ Len(outbox) = 1
      BY <2>2, <3>1, <3>2 DEF Calls, Awaited
    <3>4. Head(todo) = <<"start", "agent">>
      <4>1. todo # << >> /\ At(Head(todo))
        <5>1. todo # << >>
          <6>. SUFFICES ASSUME todo = << >> PROVE FALSE
            OBVIOUS
          <6>1. Len(<< >>) = 5
            BY <2>2, Zenon DEF Left
          <6>. QED
            BY <6>1
        <5>. QED
          BY <2>2, <5>1 DEF At
      <4>. QED
        BY <1>1, <2>2, <4>1, Places
    <3>5. op = <<"start", "agent">>
      BY <3>3, <3>4 DEF op
    <3>. QED
      BY <1>6, <3>1, <3>5 DEF Objects
  <2>. QED
    BY <1>16, <2>1, <2>2
<1>17. Stands'
  <2>1. \A i \in DOMAIN outbox' : outbox'[i] \in AgentOps
           => phase = "stop" /\ ~agent_registered
    BY <1>3 DEF Stands
  <2>. QED
    BY <1>1, <1>4, <1>16, <2>1 DEF Stands
<1>. QED
  BY <1>10, <1>15, <1>17

(* A request comes only for what BlueZ knows; a Release is the good-bye of *)
(* the agent.                                                              *)
LEMMA RequestStep ==
    ASSUME TypeOK, Calls, Asked, Stands, NEW request \in Requests,
           BluezRequests(request)
    PROVE  Calls' /\ Asked' /\ Stands'
<1>1. /\ inbox \in Seq(Requests) /\ inbox' = Append(inbox, request)
      /\ Addressee[request] \in known
      /\ known' = IF request = "release" THEN known \ {"agent"} ELSE known
      /\ UNCHANGED <<phase, todo, waiting, reply, gave_up, outbox, restarts,
                     agent_registered, installed>>
  BY DEF TypeOK, BluezRequests, mainVars, objectVars
<1>2. Left' = Left /\ (InCall' <=> InCall)
  BY <1>1, SameLeft DEF InCall, At
<1>3. /\ \A i \in DOMAIN inbox : i \in DOMAIN inbox' /\ inbox'[i] = inbox[i]
      /\ \A i \in DOMAIN inbox' : inbox'[i] = request
                                  \/ (i \in DOMAIN inbox
                                      /\ inbox'[i] = inbox[i])
      /\ \E i \in DOMAIN inbox' : inbox'[i] = request
  BY <1>1, Comes
<1>4. Unasked => Unasked'
  <2>1. Unasked => request \notin {"pair", "release"}
    BY <1>1 DEF Unasked, Addressee
  <2>. QED
    BY <1>1, <1>3, <2>1 DEF Unasked
<1>5. Asked'
  BY <1>1, <1>2, <1>4 DEF Asked
<1>6. ("agent" \in known \/ \E i \in DOMAIN inbox : inbox[i] = "release")
        => "agent" \in known' \/ \E i \in DOMAIN inbox' : inbox'[i] = "release"
  BY <1>1, <1>3
<1>7. Stands'
  BY <1>1, <1>2, <1>6 DEF Stands
<1>. QED
  BY <1>1, <1>2, <1>5, <1>7 DEF Calls

(* bluetoothd restarts: it knows nothing, and main is told if its call was *)
(* among what is lost.                                                     *)
LEMMA RestartStep ==
    ASSUME TypeOK, Plan, Calls, Asked, Stands, BluezRestarts
    PROVE  Calls' /\ Asked' /\ Stands'
<1>1. /\ outbox \in Seq(Op) /\ todo \in Seq(Op) /\ Len(outbox) \in Nat
      /\ restarts' # 0 /\ known' = {}
      /\ UNCHANGED <<phase, todo, waiting, gave_up, inbox,
                     agent_registered, installed>>
  BY DEF TypeOK, BluezRestarts, objectVars
<1>2. PICK n \in 0..Len(outbox) :
         /\ outbox' = SubSeq(outbox, n + 1, Len(outbox))
         /\ reply' = IF InCall /\ n = Len(outbox) /\ n > 0 THEN "error"
                                                          ELSE reply
  BY DEF BluezRestarts
<1>3. /\ \A i \in DOMAIN outbox' :
            /\ i + n \in DOMAIN outbox /\ outbox'[i] = outbox[i + n]
            /\ i + n = Len(outbox) => i = Len(outbox')
            /\ n # Len(outbox)
      /\ n # Len(outbox) => /\ outbox' # << >>
                            /\ outbox'[Len(outbox')] = outbox[Len(outbox)]
      /\ n = Len(outbox) => outbox' = << >>
  BY <1>1, <1>2, Takes
<1>4. Left' = Left /\ (InCall' <=> InCall)
  BY <1>1, SameLeft DEF InCall, At
<1>5. n = Len(outbox) /\ outbox # << >> => n > 0
  BY <1>1, EmptySeq
<1>6. outbox = << >> => reply' = reply /\ outbox' = << >>
  <2>. SUFFICES ASSUME outbox = << >>
                PROVE  reply' = reply /\ outbox' = << >>
    OBVIOUS
  <2>1. Len(outbox) = 0
    BY EmptySeq
  <2>2. n = 0
    BY <2>1
  <2>. QED
    BY <1>2, <1>3, <2>1, <2>2
<1>7. Calls'
  <2>. SUFFICES ASSUME phase = "start"
                PROVE  /\ reply' # "none" => InCall
                       /\ InCall => IF reply' = "none"
                                    THEN /\ outbox' # << >>
                                         /\ outbox'[Len(outbox')] = Head(todo)
                                    ELSE outbox' = << >>
    BY <1>1, <1>4 DEF Calls
  <2>1. reply' # "none" => InCall
    BY <1>2 DEF Calls
  <2>2. ASSUME InCall
        PROVE  IF reply' = "none"
               THEN outbox' # << >> /\ outbox'[Len(outbox')] = Head(todo)
               ELSE outbox' = << >>
    <3>1. CASE outbox = << >>
      BY <1>6, <2>2, <3>1 DEF Calls
    <3>2. CASE outbox # << >>
      <4>1. reply = "none" /\ outbox[Len(outbox)] = Head(todo)
        BY <2>2, <3>2 DEF Calls
      <4>2. CASE n = Len(outbox)
        BY <1>2, <1>3, <1>5, <2>2, <3>2, <4>2
      <4>3. CASE n # Len(outbox)
        BY <1>2, <1>3, <4>1, <4>3
      <4>. QED
        BY <4>2, <4>3
    <3>. QED
      BY <3>1, <3>2
  <2>. QED
    BY <2>1, <2>2
<1>8. ASSUME phase = "start",
             Left >= 6 \/ (Left = 5 /\ ~(waiting /\ reply' = "ok"))
      PROVE  Unasked'
  <2>1. ~(Left = 5 /\ waiting /\ reply = "ok")
    <3>. SUFFICES ASSUME Left = 5, waiting, reply = "ok" PROVE FALSE
      OBVIOUS
    <3>1. InCall
      BY <1>1, <1>8, Places DEF InCall
    <3>2. outbox = << >>
      BY <1>8, <3>1 DEF Calls
    <3>. QED
      BY <1>6, <1>8, <3>2
  <2>2. Left \in 5..11
    BY <1>8 DEF Plan
  <2>3. Unasked
    BY <1>8, <2>1, <2>2 DEF Asked
  <2>. QED
    BY <1>1, <2>3 DEF Unasked
<1>9. ASSUME NEW i \in DOMAIN outbox',
             outbox'[i] = <<"start", "agent">>, ~gave_up
      PROVE  /\ phase = "start" /\ Left = 5 /\ waiting /\ reply' = "none"
             /\ i = Len(outbox')
  <2>1. /\ i + n \in DOMAIN outbox /\ outbox[i + n] = <<"start", "agent">>
        /\ i + n = Len(outbox) => i = Len(outbox')
        /\ n # Len(outbox)
    BY <1>3, <1>9
  <2>. QED
    BY <1>2, <1>9, <2>1 DEF Asked
<1>10. Unasked => Unasked'
  BY <1>1 DEF Unasked
<1>11. Asked'
  <2>1. /\ phase = "start" /\ Left >= 5 => ~gave_up
        /\ phase = "start" /\ Left >= 4 => ~agent_registered
        /\ phase = "start" /\ (Left = 4 \/ (Left = 5 /\ waiting))
              => "agent" \in installed
        /\ phase \in {"start", "loop", "dispatch"} /\ "agent" \notin installed
              => ~agent_registered /\ (gave_up \/ Unasked)
    BY DEF Asked
  <2>2. \A i \in DOMAIN outbox' : outbox'[i] = <<"start", "agent">> =>
           \/ gave_up
           \/ /\ phase = "start" /\ Left = 5 /\ waiting /\ reply' = "none"
              /\ i = Len(outbox')
    BY <1>9
  <2>. QED
    BY <1>1, <1>4, <1>8, <1>10, <2>1, <2>2 DEF Asked
<1>12. Stands'
  <2>1. \A i \in DOMAIN outbox' : outbox'[i] \in AgentOps
           => phase = "stop" /\ ~agent_registered
    BY <1>3 DEF Stands
  <2>. QED
    BY <1>1, <1>4, <2>1 DEF Stands
<1>. QED
  BY <1>7, <1>11, <1>12
(* Who answers what, and what the agent takes itself for.                  *)
Served == Calls /\ Asked /\ Stands

LEMMA ServedInit == Init => Served
<1>. SUFFICES ASSUME Init PROVE Served
  OBVIOUS
<1>1. Left = 11
  BY StartOps DEF Init, Left
<1>2. ~InCall /\ Unasked
  BY DEF Init, InCall, Unasked
<1>. QED
  BY <1>1, <1>2 DEF Init, Served, Calls, Asked, Stands

LEMMA ServedStep == TypeOK /\ Plan /\ Served /\ [Next]_vars => Served'
<1>. SUFFICES ASSUME TypeOK, Plan, Calls, Asked, Stands, [Next]_vars
              PROVE  Calls' /\ Asked' /\ Stands'
  BY DEF Served
<1>0. todo \in Seq(Op) /\ outbox \in Seq(Op)
  BY DEF TypeOK
<1>1. ASSUME NEW name \in Settings, SetProperty(name)
      PROVE  Calls' /\ Asked' /\ Stands'
  <2>1. <<"set", name>>[1] = "set"
    OBVIOUS
  <2>. QED
    BY <1>1, <2>1, SentStep DEF SetProperty, objectVars
<1>2. CASE StartAgent \/ RequestDefaultAgent \/ StartGatt \/ StartProfile
  <2>1. ASSUME NEW object, Call(<<"start", object>>),
               agent_registered' = agent_registered,
               installed \subseteq installed',
               object = "agent" => "agent" \in installed'
        PROVE  Calls' /\ Asked' /\ Stands'
    <3>1. /\ <<"start", object>>[1] = "start"
          /\ <<"start", object>> = <<"start", "agent">> => object = "agent"
      OBVIOUS
    <3>. QED
      BY <2>1, <3>1, SentStep
  <2>. QED
    BY <1>2, <2>1
       DEF StartAgent, RequestDefaultAgent, StartGatt, StartProfile,
           objectVars
<1>3. ASSUME NEW op, NEW ok, Returns(op, ok), Proceed,
             op[1] \in {"set", "start"}, op # <<"start", "agent">>,
             op # <<"start", "ipc">>, installed' = installed,
             \/ agent_registered' = agent_registered
             \/ op = <<"start", "default">> /\ agent_registered'
      PROVE  Calls' /\ Asked' /\ Stands'
  <2>1. /\ At(op) /\ waiting /\ ~waiting' /\ reply' = "none"
        /\ UNCHANGED <<gave_up, outbox, inbox, known, restarts>>
    <3>1. gave_up' = gave_up
      BY <1>3 DEF Returns, TypeOK
    <3>. QED
      BY <1>3, <3>1 DEF Returns, bluezVars
  <2>2. /\ phase = "start" /\ Left # 5 /\ Left # 1
        /\ op = <<"start", "default">> => Left = 4
    BY <1>0, <1>3, <2>1, Places
  <2>. QED
    BY <1>3, <2>1, <2>2, ReturnedStep DEF Proceed
<1>4. ASSUME NEW name \in Settings, SetPropertyReturns(name)
      PROVE  Calls' /\ Asked' /\ Stands'
  BY <1>3, <1>4 DEF SetPropertyReturns, objectVars
<1>5. CASE RequestDefaultAgentReturns \/ StartProfileReturns
  BY <1>3, <1>5 DEF RequestDefaultAgentReturns, StartProfileReturns,
                    objectVars
<1>6. CASE StartGattReturns(TRUE)
  BY <1>3, <1>6 DEF StartGattReturns
<1>7. CASE StartGattReturns(FALSE)
  <2>1. /\ At(<<"start", "gatt">>) /\ phase' = "stop"
        /\ UNCHANGED <<gave_up, outbox, inbox, known, restarts,
                       agent_registered, installed>>
    <3>1. gave_up' = gave_up
      BY <1>7 DEF StartGattReturns, Returns, TypeOK
    <3>. QED
      BY <1>7, <3>1 DEF StartGattReturns, Returns, Unwind, bluezVars
  <2>2. phase = "start" /\ Left = 3
    <3>1. <<"start", "gatt">>[1] = "start"
      OBVIOUS
    <3>. QED
      BY <1>0, <2>1, <3>1, Places
  <2>. QED
    BY <2>1, <2>2, OnwardStep
<1>8. ASSUME NEW ok \in BOOLEAN, StartIpc(ok)
      PROVE  Calls' /\ Asked' /\ Stands'
  <2>1. /\ At(<<"start", "ipc">>) /\ phase' \in {"loop", "stop"}
        /\ UNCHANGED <<gave_up, outbox, inbox, known, restarts,
                       agent_registered, installed>>
    BY <1>8 DEF StartIpc, Without, bluezVars
  <2>2. phase = "start" /\ Left = 1
    <3>1. <<"start", "ipc">>[1] = "start"
      OBVIOUS
    <3>. QED
      BY <1>0, <2>1, <3>1, Places
  <2>. QED
    BY <2>1, <2>2, OnwardStep
<1>9. CASE Loop
  BY <1>9, OnwardStep DEF Loop, Without, objectVars, bluezVars
<1>10. ASSUME NEW op, At(op), op[1] \notin {"set", "start"}
       PROVE  phase = "stop" /\ op \in Op /\ op[1] \in {"stop", "destroy"}
              /\ Head(todo) = op
  BY <1>0, <1>10, Places
<1>11. CASE UnregisterGatt
  <2>1. PICK verb \in {"stop", "destroy"} : Call(<<verb, "gatt">>)
    BY <1>11 DEF UnregisterGatt
  <2>2. /\ <<verb, "gatt">>[1] = verb
        /\ <<verb, "gatt">> \notin AgentOps
    BY DEF AgentOps
  <2>3. phase = "stop" /\ <<verb, "gatt">> \in Op
    BY <1>10, <2>1, <2>2 DEF Call
  <2>. QED
    BY <1>11, <2>1, <2>2, <2>3, CleanStep
       DEF UnregisterGatt, Call, objectVars, bluezVars
<1>12. ASSUME NEW object, Stops(object)
       PROVE  /\ phase = "stop" /\ phase' = "stop"
              /\ Head(todo) \in Op /\ Head(todo)[1] \in {"stop", "destroy"}
              /\ Head(todo)[2] = object
  <2>1. PICK verb \in {"stop", "destroy"} : At(<<verb, object>>)
    BY <1>12 DEF Stops
  <2>2. <<verb, object>>[1] = verb /\ <<verb, object>>[2] = object
    OBVIOUS
  <2>. QED
    BY <1>10, <1>12, <2>1, <2>2 DEF Stops, Proceed
<1>13. CASE StopIpc
  BY <1>12, <1>13, CleanStep DEF StopIpc, Without, bluezVars
<1>14. CASE StopGatt
  <2>1. UNCHANGED <<inbox, known, restarts, outbox, agent_registered>>
        /\ (gave_up => gave_up')
    <3>1. CASE \E ok \in BOOLEAN : Returns(Head(todo), ok)
      <4>1. PICK ok \in BOOLEAN : Returns(Head(todo), ok)
        BY <3>1
      <4>2. UNCHANGED <<inbox, known, restarts, outbox>>
        BY <4>1 DEF Returns, bluezVars
      <4>3. gave_up => gave_up'
        BY <4>1 DEF Returns, TypeOK
      <4>. QED
        BY <1>14, <4>2, <4>3 DEF StopGatt
    <3>2. CASE Without /\ UNCHANGED outbox
      BY <1>14, <3>2 DEF Without, StopGatt, bluezVars
    <3>. QED
      BY <1>14, <3>1, <3>2 DEF StopGatt
  <2>. QED
    BY <1>12, <1>14, <2>1, CleanStep DEF StopGatt
<1>15. CASE StopProfile
  <2>1. Head(todo) \notin AgentOps
    <3>1. Head(todo)[2] = "profile"
      BY <1>12, <1>15 DEF StopProfile
    <3>. QED
      BY <3>1 DEF AgentOps
  <2>. QED
    BY <1>12, <1>15, <2>1, CleanStep DEF StopProfile, Without, bluezVars
<1>16. CASE StopAgent
  BY <1>12, <1>16, CleanStep DEF StopAgent, Without, bluezVars
<1>17. CASE Exit \/ Killed
  <2>1. phase' = "exited" /\ outbox' = << >>
    BY <1>17 DEF Exit, Killed, Gone
  <2>. QED
    BY <2>1 DEF Calls, Asked, Stands
<1>18. CASE \/ \E signum \in {"SIGINT", "SIGTERM"} : SignalHandler(signum)
            \/ UNCHANGED vars
  BY <1>18, SameStep
     DEF SignalHandler, vars, mainVars, objectVars, bluezVars
<1>. QED
  BY <1>1, <1>2, <1>4, <1>5, <1>6, <1>7, <1>8, <1>9, <1>11, <1>13, <1>14,
     <1>15, <1>16, <1>17, <1>18, ClassStep, AgentReturnedStep, DispatchStep,
     AnswerStep, RequestStep, RestartStep
     DEF Next, Main, Environment

LEMMA ServedInvariant == Spec => [](TypeOK /\ Built /\ Served)
  BY PlanInvariant, ServedInit, ServedStep, PTL DEF Spec

(* Whatever BlueZ has queued, at whatever point of the start-up: when main *)
(* dispatches it, the object that it is for has its handler, and no other  *)
(* handler takes it; but for an agent whose registration main gave up.     *)
THEOREM RequestsReach == Spec => []RequestsReachOwner
<1>1. TypeOK /\ Built /\ Served => RequestsReachOwner
  <2>. SUFFICES ASSUME TypeOK, Built, Asked,
                       phase = "dispatch", inbox # << >>
                PROVE  \/ Route(Head(inbox)) = Addressee[Head(inbox)]
                       \/ Addressee[Head(inbox)] = "agent" /\ gave_up
    BY DEF Served, RequestsReachOwner
  <2>1. /\ 1 \in DOMAIN inbox /\ Head(inbox) = inbox[1]
        /\ inbox[1] \in {"pair", "release", "connect", "read"}
    BY DEF TypeOK, Requests, Addressee
  <2>2. {"fallback", "hid", "filter"} \subseteq installed
    BY DEF Built
  <2>3. CASE inbox[1] = "connect"
    BY <2>1, <2>2, <2>3, Routes DEF Addressee
  <2>4. CASE inbox[1] = "read"
    BY <2>1, <2>2, <2>4, Routes DEF Addressee
  <2>5. CASE inbox[1] \in {"pair", "release"}
    <3>1. "agent" \in installed \/ gave_up
      BY <2>1, <2>5 DEF Asked, Unasked
    <3>. QED
      BY <2>1, <2>5, <3>1, Routes DEF Addressee
  <2>. QED
    BY <2>1, <2>3, <2>4, <2>5
<1>. QED
  BY <1>1, ServedInvariant, PTL

(* Until bluetoothd restarts, registered_ of the agent is not left standing*)
(* by a Release, a refused RequestDefaultAgent or the clean-up.            *)
THEOREM AgentFlag == Spec => []AgentFlagFollows
<1>1. Served => AgentFlagFollows
  BY DEF Served, Stands, AgentFlagFollows
<1>. QED
  BY <1>1, ServedInvariant, PTL
=============================================================================
