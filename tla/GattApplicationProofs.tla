----------------------- MODULE GattApplicationProofs -----------------------
(***************************************************************************)
(* Theorems about GattApplication, whether or not handlers run inside a    *)
(* blocking call, whether or not calls time out or are refused, and for    *)
(* any number of restarts of bluetoothd and of calls of hosts.             *)
(***************************************************************************)
EXTENDS GattApplication, SequenceTheorems, TLAPS

-----------------------------------------------------------------------------
(* Queues.  One message more, at the end; and one less, at place k: n is   *)
(* the length of the shorter queue.                                        *)
Added(s, t, x, n) ==
    /\ n \in Nat /\ DOMAIN s = 1..n /\ DOMAIN t = 1..(n + 1)
    /\ t[n + 1] = x
    /\ \A i \in 1..n : t[i] = s[i]

Removed(s, t, k, n) ==
    /\ n \in Nat /\ k \in 1..(n + 1)
    /\ DOMAIN s = 1..(n + 1) /\ DOMAIN t = 1..n
    /\ \A i \in 1..n : t[i] = IF i < k THEN s[i] ELSE s[i + 1]

LEMMA Appended ==
    ASSUME NEW S, NEW s \in Seq(S), NEW x \in S, NEW t, t = Append(s, x)
    PROVE  t \in Seq(S) /\ \E n \in Nat : Added(s, t, x, n)
<1>1. /\ t \in Seq(S) /\ Len(s) \in Nat /\ Len(t) = Len(s) + 1
      /\ DOMAIN s = 1..Len(s) /\ DOMAIN t = 1..Len(t)
      /\ \A i \in 1..Len(s) : t[i] = s[i]
      /\ t[Len(s) + 1] = x
  OBVIOUS
<1>. QED
  BY <1>1 DEF Added

LEMMA Beheaded ==
    ASSUME NEW S, NEW s \in Seq(S), s # << >>, NEW t, t = Tail(s)
    PROVE  /\ t \in Seq(S) /\ Head(s) = s[1] /\ 1 \in DOMAIN s
           /\ \E n \in Nat : Removed(s, t, 1, n)
<1>1. /\ t \in Seq(S) /\ Len(s) \in Nat /\ Len(t) \in Nat
      /\ Len(t) = Len(s) - 1
      /\ DOMAIN s = 1..Len(s) /\ DOMAIN t = 1..Len(t)
      /\ \A i \in 1..Len(t) : t[i] = s[i + 1]
      /\ Head(s) = s[1] /\ 1 \in DOMAIN s
  OBVIOUS
<1>2. PICK n \in Nat : n = Len(t)
  BY <1>1
<1>3. Len(s) = n + 1
  BY <1>1, <1>2
<1>4. Removed(s, t, 1, n)
  BY <1>1, <1>2, <1>3 DEF Removed
<1>. QED
  BY <1>1, <1>4

LEMMA TakenOut ==
    ASSUME NEW S, NEW s \in Seq(S), NEW k \in DOMAIN s,
           NEW t, t = RemoveAt(s, k)
    PROVE  t \in Seq(S) /\ \E n \in Nat : Removed(s, t, k, n)
<1>1. PICK n \in Nat : Len(s) = n + 1 /\ k \in 1..(n + 1)
  <2>1. Len(s) \in Nat /\ k \in 1..Len(s)
    BY LenProperties
  <2>2. PICK l \in Nat : l = Len(s)
    BY <2>1
  <2>3. l - 1 \in Nat /\ l = (l - 1) + 1
    BY <2>1, <2>2
  <2>. QED
    BY <2>1, <2>2, <2>3
<1>2. DOMAIN s = 1..(n + 1)
  BY <1>1, LenProperties
<1>. DEFINE a == SubSeq(s, 1, k - 1)
            b == SubSeq(s, k + 1, n + 1)
<1>3. /\ a \in Seq(S) /\ Len(a) = k - 1
      /\ \A i \in 1..(k - 1) : a[i] = s[i]
  <2>1. \A i \in 1..(k - 1) : s[i] \in S
    BY <1>1, <1>2
  <2>2. /\ a \in Seq(S) /\ Len(a) = IF 1 <= k - 1 THEN k - 1 - 1 + 1 ELSE 0
        /\ \A i \in 1..(k - 1 - 1 + 1) : a[i] = s[1 + i - 1]
    BY <1>1, <2>1, SubSeqProperties
  <2>. HIDE DEF a
  <2>. QED
    BY <1>1, <2>2
<1>4. /\ b \in Seq(S) /\ Len(b) = n + 1 - k
      /\ \A i \in 1..(n + 1 - k) : b[i] = s[k + i]
  <2>1. \A i \in (k + 1)..(n + 1) : s[i] \in S
    BY <1>1, <1>2
  <2>2. /\ b \in Seq(S)
        /\ Len(b) = IF k + 1 <= n + 1 THEN n + 1 - (k + 1) + 1 ELSE 0
        /\ \A i \in 1..(n + 1 - (k + 1) + 1) : b[i] = s[k + 1 + i - 1]
    BY <1>1, <2>1, SubSeqProperties
  <2>. HIDE DEF b
  <2>3. \A i \in 1..(n + 1 - k) : k + 1 + i - 1 = k + i
    BY <1>1
  <2>. QED
    BY <1>1, <2>2, <2>3
<1>. HIDE DEF a, b
<1>5. t = a \o b
  BY <1>1 DEF RemoveAt, a, b
<1>6. /\ t \in Seq(S) /\ Len(t) = Len(a) + Len(b)
      /\ \A i \in 1..(Len(a) + Len(b)) :
            t[i] = IF i <= Len(a) THEN a[i] ELSE b[i - Len(a)]
      /\ DOMAIN t = 1..Len(t)
  <2>1. /\ a \o b \in Seq(S) /\ Len(a \o b) = Len(a) + Len(b)
        /\ \A i \in 1..(Len(a) + Len(b)) :
              (a \o b)[i] = IF i <= Len(a) THEN a[i] ELSE b[i - Len(a)]
    BY <1>3, <1>4, ConcatProperties
  <2>2. DOMAIN t = 1..Len(t)
    BY <1>5, <2>1, LenProperties
  <2>. QED
    BY <1>5, <2>1, <2>2
<1>7. Len(a) + Len(b) = n
  BY <1>1, <1>3, <1>4
<1>8. ASSUME NEW i \in 1..n
      PROVE  t[i] = IF i < k THEN s[i] ELSE s[i + 1]
  <2>1. t[i] = IF i <= k - 1 THEN a[i] ELSE b[i - (k - 1)]
    BY <1>3, <1>6, <1>7
  <2>2. CASE i < k
    BY <1>1, <1>3, <2>1, <2>2
  <2>3. CASE ~(i < k)
    <3>1. i - (k - 1) \in 1..(n + 1 - k) /\ k + (i - (k - 1)) = i + 1
          /\ ~(i <= k - 1)
      BY <1>1, <2>3
    <3>. QED
      BY <1>4, <2>1, <2>3, <3>1
  <2>. QED
    BY <2>2, <2>3
<1>. QED
  BY <1>1, <1>2, <1>6, <1>7, <1>8 DEF Removed

-----------------------------------------------------------------------------
(* Messages.                                                               *)
Notes == [call : {"StartNotify", "StopNotify"}]
Writes == [call : {"WriteValue"}, path : {"CHAR3"}, value : Modes]
AskedObjects == [call |-> "GetManagedObjects"]
AskedProps == [call |-> "GetAll", path |-> "ADV"]
Released == [call |-> "Release"]
Replies == [call : {"reply"}, to : {Waits[w] : w \in DOMAIN Waits},
            ok : BOOLEAN]
Op == {Waits[w] : w \in DOMAIN Waits} \cup {"objects", "props"}

LEMMA Ops ==
    /\ DOMAIN Waits = {"app_wait", "adv_wait", "unadv_wait", "unapp_wait"}
    /\ Waits["app_wait"] = "RegisterApplication"
    /\ Waits["adv_wait"] = "RegisterAdvertisement"
    /\ Waits["unadv_wait"] = "UnregisterAdvertisement"
    /\ Waits["unapp_wait"] = "UnregisterApplication"
    /\ Op = {"RegisterApplication", "RegisterAdvertisement",
             "UnregisterAdvertisement", "UnregisterApplication",
             "objects", "props"}
<1>1. DOMAIN Waits = {"app_wait", "adv_wait", "unadv_wait", "unapp_wait"}
  BY DEF Waits
<1>2. /\ Waits["app_wait"] = "RegisterApplication"
      /\ Waits["adv_wait"] = "RegisterAdvertisement"
      /\ Waits["unadv_wait"] = "UnregisterAdvertisement"
      /\ Waits["unapp_wait"] = "UnregisterApplication"
  BY DEF Waits
<1>. QED
  BY <1>1, <1>2 DEF Op

LEMMA Kinds ==
    ASSUME NEW m \in Message
    PROVE  /\ m.call \in {"GetManagedObjects", "GetAll", "StartNotify",
                          "StopNotify", "WriteValue", "ReadValue", "Release",
                          "reply"}
           /\ m.call \in {"StartNotify", "StopNotify"} <=> m \in Notes
           /\ m.call = "WriteValue" <=> m \in Writes
           /\ m.call = "ReadValue" => m.path = "CHAR3" /\ m.expect \in 0..255
           /\ m.call = "GetManagedObjects" <=> m = AskedObjects
           /\ m.call = "GetAll" <=> m = AskedProps
           /\ m.call = "Release" <=> m = Released
           /\ m.call = "reply" <=> m \in Replies
<1>1. CASE m \in [call : {"GetManagedObjects", "StartNotify", "StopNotify",
                          "Release"}]
  BY <1>1 DEF Notes, Writes, AskedObjects, AskedProps, Released, Replies
<1>2. CASE m \in [call : {"GetAll"}, path : {"ADV"}]
  BY <1>2 DEF Notes, Writes, AskedObjects, AskedProps, Released, Replies
<1>3. CASE m \in Writes
  BY <1>3 DEF Notes, Writes, AskedObjects, AskedProps, Released, Replies
<1>4. CASE m \in [call : {"ReadValue"}, path : {"CHAR3"}, expect : 0..255]
  BY <1>4 DEF Notes, Writes, AskedObjects, AskedProps, Released, Replies
<1>5. CASE m \in Replies
  BY <1>5 DEF Notes, Writes, AskedObjects, AskedProps, Released, Replies
<1>. QED
  BY <1>1, <1>2, <1>3, <1>4, <1>5 DEF Message, Writes, Replies

LEMMA Sendable ==
    /\ \A w \in DOMAIN Waits, ok \in BOOLEAN :
          /\ Reply(Waits[w], ok) \in Message
          /\ Reply(Waits[w], ok) \in Replies
          /\ Reply(Waits[w], ok).to = Waits[w]
          /\ Reply(Waits[w], ok).ok = ok
    /\ AskedObjects \in Message /\ AskedProps \in Message
    /\ Released \in Message
    /\ [call |-> "StartNotify"] \in Message
    /\ [call |-> "StopNotify"] \in Message
    /\ [call |-> "StartNotify"] \in Notes
    /\ [call |-> "StopNotify"] \in Notes
    /\ \A mode \in Modes :
          /\ [call |-> "WriteValue", path |-> "CHAR3", value |-> mode]
                \in Message
          /\ [call |-> "WriteValue", path |-> "CHAR3", value |-> mode]
                \in Writes
    /\ \A byte \in 0..255 :
          [call |-> "ReadValue", path |-> "CHAR3", expect |-> byte] \in Message
<1>1. \A w \in DOMAIN Waits, ok \in BOOLEAN :
          /\ Reply(Waits[w], ok) \in Message
          /\ Reply(Waits[w], ok) \in Replies
          /\ Reply(Waits[w], ok).to = Waits[w]
          /\ Reply(Waits[w], ok).ok = ok
  BY DEF Message, Replies, Reply
<1>2. /\ AskedObjects \in Message /\ AskedProps \in Message
      /\ Released \in Message
  BY DEF Message, AskedObjects, AskedProps, Released
<1>3. /\ [call |-> "StartNotify"] \in Message
      /\ [call |-> "StopNotify"] \in Message
      /\ [call |-> "StartNotify"] \in Notes
      /\ [call |-> "StopNotify"] \in Notes
  BY DEF Message, Notes
<1>4. \A mode \in Modes :
          /\ [call |-> "WriteValue", path |-> "CHAR3", value |-> mode]
                \in Message
          /\ [call |-> "WriteValue", path |-> "CHAR3", value |-> mode]
                \in Writes
  BY DEF Message, Writes
<1>5. \A byte \in 0..255 :
          [call |-> "ReadValue", path |-> "CHAR3", expect |-> byte] \in Message
  BY DEF Message
<1>. QED
  BY <1>1, <1>2, <1>3, <1>4, <1>5

(* A blocking call takes its reply, wherever it is in the queue; a handler *)
(* takes the first message.                                                *)
LEMMA TakesReply ==
    ASSUME inbox \in Seq(Message), NEW ok, TakeReply(ok)
    PROVE  /\ inbox' \in Seq(Message)
           /\ \E k \in DOMAIN inbox :
                 /\ inbox[k] = Reply(Waits[pc], ok)
                 /\ \E n \in Nat : Removed(inbox, inbox', k, n)
  BY TakenOut DEF TakeReply

LEMMA TakesFirst ==
    ASSUME inbox \in Seq(Message), NEW call, Take(call)
    PROVE  /\ inbox' \in Seq(Message)
           /\ inbox[1].call = call /\ Head(inbox) = inbox[1]
           /\ 1 \in DOMAIN inbox
           /\ \E n \in Nat : Removed(inbox, inbox', 1, n)
<1>1. inbox # << >> /\ Head(inbox).call = call /\ inbox' = Tail(inbox)
  BY DEF Take
<1>2. /\ inbox' \in Seq(Message) /\ Head(inbox) = inbox[1]
      /\ 1 \in DOMAIN inbox
      /\ \E n \in Nat : Removed(inbox, inbox', 1, n)
  BY <1>1, Beheaded
<1>. QED
  BY <1>1, <1>2

LEMMA Sends ==
    ASSUME inbox \in Seq(Message), NEW m \in Message, Send(m)
    PROVE  /\ inbox' \in Seq(Message)
           /\ \E n \in Nat : Added(inbox, inbox', m, n)
  BY Appended DEF Send

(* BlueZ takes the first of what the daemon has sent.                      *)
LEMMA Receives ==
    ASSUME outbox \in Seq(Op), NEW m, Receive(m)
    PROVE  /\ outbox' \in Seq(Op) /\ outbox[1] = m /\ 1 \in DOMAIN outbox
           /\ \E n \in Nat : Removed(outbox, outbox', 1, n)
<1>1. outbox # << >> /\ Head(outbox) = m /\ outbox' = Tail(outbox)
  BY DEF Receive
<1>2. /\ outbox' \in Seq(Op) /\ Head(outbox) = outbox[1]
      /\ 1 \in DOMAIN outbox
      /\ \E n \in Nat : Removed(outbox, outbox', 1, n)
  BY <1>1, Beheaded
<1>. QED
  BY <1>1, <1>2

LEMMA CallsOut ==
    ASSUME outbox \in Seq(Op), NEW from, NEW to \in DOMAIN Waits,
           Call(from, to)
    PROVE  /\ outbox' \in Seq(Op)
           /\ \E n \in Nat : Added(outbox, outbox', Waits[to], n)
<1>1. Waits[to] \in Op
  BY DEF Op
<1>. QED
  BY <1>1, Appended DEF Call

-----------------------------------------------------------------------------
LEMMA TypeInit == Init => TypeOK
<1>. SUFFICES ASSUME Init PROVE TypeOK
  OBVIOUS
<1>1. inbox \in Seq(Message) /\ outbox \in Seq(Op)
  BY DEF Init
<1>2. restarts \in 0..MaxRestarts /\ input_report \in Reports
  BY GattAssumption DEF Init
<1>3. /\ pc \in {"start", "serving", "stop", "stop_app", "stopped"}
                \cup DOMAIN Waits
      /\ app \in {"none", "listing", "known"}
      /\ adv \in {"none", "listing", "known"}
      /\ protocol_mode \in 0..255 /\ wrote \in 0..255
  BY DEF Init
<1>4. /\ fallback \in BOOLEAN /\ registered \in BOOLEAN
      /\ adv_registered \in BOOLEAN /\ notify_enabled \in BOOLEAN
      /\ subscribed \in BOOLEAN /\ abandoned \in BOOLEAN
  BY DEF Init
<1>. QED
  BY <1>1, <1>2, <1>3, <1>4 DEF TypeOK, Op

LEMMA TypeStep == TypeOK /\ [Next]_vars => TypeOK'
<1>. SUFFICES ASSUME TypeOK, [Next]_vars PROVE TypeOK'
  OBVIOUS
<1>0. /\ pc \in {"start", "serving", "stop", "stop_app", "stopped"}
                \cup DOMAIN Waits
      /\ inbox \in Seq(Message) /\ outbox \in Seq(Op)
      /\ fallback \in BOOLEAN /\ registered \in BOOLEAN
      /\ adv_registered \in BOOLEAN /\ notify_enabled \in BOOLEAN
      /\ protocol_mode \in 0..255 /\ input_report \in Reports
      /\ app \in {"none", "listing", "known"}
      /\ adv \in {"none", "listing", "known"}
      /\ subscribed \in BOOLEAN /\ wrote \in 0..255
      /\ restarts \in 0..MaxRestarts /\ abandoned \in BOOLEAN
  BY DEF TypeOK, Op
<1>. DEFINE MainOK == /\ pc' \in {"start", "serving", "stop", "stop_app",
                                  "stopped"} \cup DOMAIN Waits
                      /\ fallback' \in BOOLEAN /\ registered' \in BOOLEAN
                      /\ adv_registered' \in BOOLEAN
                      /\ notify_enabled' \in BOOLEAN
                      /\ protocol_mode' \in 0..255
                      /\ input_report' \in Reports
            BoxOK == inbox' \in Seq(Message) /\ outbox' \in Seq(Op)
            BluezOK == /\ app' \in {"none", "listing", "known"}
                       /\ adv' \in {"none", "listing", "known"}
                       /\ subscribed' \in BOOLEAN /\ wrote' \in 0..255
                       /\ restarts' \in 0..MaxRestarts
                       /\ abandoned' \in BOOLEAN
<1>1. MainOK /\ BoxOK /\ BluezOK => TypeOK'
  BY DEF TypeOK, Op
<1>. USE DEF gattVars, bluezVars
<1>2. ASSUME NEW from, NEW to \in DOMAIN Waits, Call(from, to)
      PROVE  outbox' \in Seq(Op) /\ pc' \in DOMAIN Waits
  BY <1>0, <1>2, CallsOut DEF Call
<1>3. ASSUME NEW ok, TakeReply(ok) \/ GiveUp PROVE inbox' \in Seq(Message)
  BY <1>0, <1>3, TakesReply DEF GiveUp
<1>4. CASE Start
  BY <1>0, <1>1, <1>2, <1>4, Ops DEF Start
<1>5. CASE RegisterApplicationReturns
  BY <1>0, <1>1, <1>2, <1>3, <1>5, Ops DEF RegisterApplicationReturns
<1>6. CASE RegisterAdvertisementReturns
  BY <1>0, <1>1, <1>3, <1>6 DEF RegisterAdvertisementReturns
<1>7. CASE UnregisterAdvertisement
  BY <1>0, <1>1, <1>2, <1>7, Ops DEF UnregisterAdvertisement
<1>8. CASE UnregisterAdvertisementReturns
  BY <1>0, <1>1, <1>3, <1>8 DEF UnregisterAdvertisementReturns
<1>9. CASE UnregisterApplication
  BY <1>0, <1>1, <1>2, <1>9, Ops DEF UnregisterApplication
<1>10. CASE UnregisterApplicationReturns
  BY <1>0, <1>1, <1>3, <1>10 DEF UnregisterApplicationReturns
<1>11. CASE EndLoop
  <2>1. UNCHANGED <<gattVars, outbox, inbox, bluezVars>> /\ pc' = "stop"
    BY <1>11 DEF EndLoop
  <2>. QED
    BY <1>0, <1>1, <2>1
<1>27. ASSUME NEW report \in Reports, StoreReport(report) PROVE TypeOK'
  <2>1. MainOK
    BY <1>0, <1>27 DEF StoreReport
  <2>2. BoxOK /\ BluezOK
    BY <1>0, <1>27 DEF StoreReport
  <2>. QED
    BY <1>1, <2>1, <2>2
<1>12. ASSUME NEW call, Take(call)
       PROVE  /\ inbox' \in Seq(Message) /\ Head(inbox) \in Message
              /\ Head(inbox).call = call
  BY <1>0, <1>12, TakesFirst
<1>13. CASE HandleGetManagedObjects \/ HandleGetAllProperties
  <2>1. outbox' \in {Append(outbox, "objects"), Append(outbox, "props")}
    BY <1>13 DEF HandleGetManagedObjects, HandleGetAllProperties
  <2>2. outbox' \in Seq(Op)
    BY <1>0, <2>1, Ops, Appended
  <2>3. inbox' \in Seq(Message) /\ UNCHANGED <<pc, gattVars, bluezVars>>
    BY <1>12, <1>13 DEF HandleGetManagedObjects, HandleGetAllProperties
  <2>. QED
    BY <1>0, <1>1, <2>2, <2>3
<1>14. CASE HandleCharacteristicRead \/ HandleStartNotify \/ HandleStopNotify
            \/ HandleAdvertisementRelease \/ DropLateReply
  <2>1. inbox' \in Seq(Message)
    BY <1>12, <1>14
       DEF HandleCharacteristicRead, HandleStartNotify, HandleStopNotify,
           HandleAdvertisementRelease, DropLateReply
  <2>2. /\ UNCHANGED <<pc, fallback, registered, protocol_mode, input_report,
                       outbox, bluezVars>>
        /\ notify_enabled' \in BOOLEAN /\ adv_registered' \in BOOLEAN
    BY <1>0, <1>14
       DEF HandleCharacteristicRead, HandleStartNotify, HandleStopNotify,
           HandleAdvertisementRelease, DropLateReply
  <2>. QED
    BY <1>0, <1>1, <2>1, <2>2
<1>15. CASE HandleCharacteristicWrite
  <2>1. protocol_mode' \in 0..255
    <3>1. Head(inbox) \in Writes
      BY <1>12, <1>15, Kinds DEF HandleCharacteristicWrite
    <3>2. Head(inbox).value \in 0..255
      BY <3>1, GattAssumption DEF Writes
    <3>. QED
      BY <1>0, <1>15, <3>2 DEF HandleCharacteristicWrite
  <2>. QED
    BY <1>0, <1>1, <1>12, <1>15, <2>1 DEF HandleCharacteristicWrite
<1>16. ASSUME NEW m, Receive(m) PROVE outbox' \in Seq(Op)
  BY <1>0, <1>16, Receives
<1>17. ASSUME NEW m \in Message, Send(m) PROVE inbox' \in Seq(Message)
  BY <1>0, <1>17, Sends
<1>18. CASE BluezRegistersApplication
  <2>1. \E m : Receive(m)
    BY <1>18 DEF BluezRegistersApplication
  <2>2. inbox' \in Seq(Message)
    BY <1>0, <1>17, <1>18, Ops, Sendable
       DEF BluezRegistersApplication, AskedObjects
  <2>3. outbox' \in Seq(Op) /\ UNCHANGED <<pc, gattVars, wrote, restarts,
                                           abandoned>>
    BY <1>16, <2>1 DEF Receive
  <2>4. /\ app' \in {app, "none", "listing", "known"}
        /\ adv' \in {adv, "none", "listing", "known"}
        /\ subscribed' = subscribed
    BY <1>18 DEF BluezRegistersApplication
  <2>. QED
    BY <1>0, <1>1, <2>2, <2>3, <2>4
<1>19. CASE BluezRegistersAdvertisement
  <2>1. \E m : Receive(m)
    BY <1>19 DEF BluezRegistersAdvertisement
  <2>2. inbox' \in Seq(Message)
    BY <1>0, <1>17, <1>19, Ops, Sendable
       DEF BluezRegistersAdvertisement, AskedProps
  <2>3. outbox' \in Seq(Op) /\ UNCHANGED <<pc, gattVars, wrote, restarts,
                                           abandoned>>
    BY <1>16, <2>1 DEF Receive
  <2>4. /\ app' \in {app, "none", "listing", "known"}
        /\ adv' \in {adv, "none", "listing", "known"}
        /\ subscribed' = subscribed
    BY <1>19 DEF BluezRegistersAdvertisement
  <2>. QED
    BY <1>0, <1>1, <2>2, <2>3, <2>4
<1>20. CASE BluezUnregisters
  <2>1. \E m : Receive(m)
    BY <1>20 DEF BluezUnregisters
  <2>2. inbox' \in Seq(Message)
    BY <1>17, <1>20, Ops, Sendable DEF BluezUnregisters
  <2>3. outbox' \in Seq(Op) /\ UNCHANGED <<pc, gattVars, wrote, restarts,
                                           abandoned>>
    BY <1>16, <2>1 DEF Receive
  <2>4. /\ app' \in {app, "none"} /\ adv' \in {adv, "none"}
        /\ subscribed' \in BOOLEAN
    BY <1>0, <1>20 DEF BluezUnregisters
  <2>. QED
    BY <1>0, <1>1, <2>2, <2>3, <2>4
<1>21. CASE HostSubscribes \/ HostUnsubscribes
  <2>1. inbox' \in Seq(Message)
    BY <1>17, <1>21, Sendable DEF HostSubscribes, HostUnsubscribes
  <2>2. /\ UNCHANGED <<pc, gattVars, outbox, app, adv, wrote, restarts,
                       abandoned>>
        /\ subscribed' \in BOOLEAN
    BY <1>21 DEF HostSubscribes, HostUnsubscribes
  <2>. QED
    BY <1>0, <1>1, <2>1, <2>2
<1>22. ASSUME NEW mode \in Modes, HostWritesMode(mode) PROVE TypeOK'
  <2>1. inbox' \in Seq(Message)
    BY <1>17, <1>22, Sendable DEF HostWritesMode
  <2>2. wrote' \in 0..255
    BY <1>22, GattAssumption DEF HostWritesMode
  <2>. QED
    BY <1>0, <1>1, <1>22, <2>1, <2>2 DEF HostWritesMode
<1>23. CASE HostReadsMode
  <2>1. inbox' \in Seq(Message)
    BY <1>0, <1>17, <1>23, Sendable DEF HostReadsMode
  <2>. QED
    BY <1>0, <1>1, <1>23, <2>1 DEF HostReadsMode
<1>24. CASE BluezReleasesAdvertisement
  <2>1. inbox' \in Seq(Message)
    BY <1>17, <1>24, Sendable DEF BluezReleasesAdvertisement, Released
  <2>. QED
    BY <1>0, <1>1, <1>24, <2>1 DEF BluezReleasesAdvertisement
<1>25. CASE BluezRestarts
  <2>1. inbox' \in Seq(Message)
    BY <1>0, <1>17, <1>25, Sendable DEF BluezRestarts
  <2>2. restarts' \in 0..MaxRestarts
    BY <1>0, <1>25, GattAssumption DEF BluezRestarts
  <2>3. outbox' \in Seq(Op)
    BY <1>25 DEF BluezRestarts
  <2>. QED
    BY <1>0, <1>1, <1>25, <2>1, <2>2, <2>3 DEF BluezRestarts
<1>26. CASE UNCHANGED vars
  BY <1>0, <1>1, <1>26 DEF vars
<1>. QED
  BY <1>4, <1>5, <1>6, <1>7, <1>8, <1>9, <1>10, <1>11, <1>13, <1>14, <1>15,
     <1>18, <1>19, <1>20, <1>21, <1>22, <1>23, <1>24, <1>25, <1>26, <1>27
     DEF Next, Main, Handle, Bluez

(* The flags, the queues and what BlueZ knows keep their types, and every  *)
(* byte that a host writes fits the protocol mode.                         *)
THEOREM TypeCorrect == Spec => []TypeOK
  BY TypeInit, TypeStep, PTL DEF Spec

-----------------------------------------------------------------------------
(* Messages of W set a variable, each to its val.  What a variable that is *)
(* m now will be when the messages before place p have been handled, and   *)
(* when all have.                                                          *)
Before(s, p, W, val, m, v) ==
    \/ \E j \in DOMAIN s :
          /\ j < p /\ s[j] \in W /\ val[s[j]] = v
          /\ \A l \in DOMAIN s : j < l /\ l < p => s[l] \notin W
    \/ m = v /\ \A l \in DOMAIN s : l < p => s[l] \notin W

AtEnd(s, W, val, m, v) ==
    \/ \E j \in DOMAIN s :
          /\ s[j] \in W /\ val[s[j]] = v
          /\ \A l \in DOMAIN s : j < l => s[l] \notin W
    \/ m = v /\ \A l \in DOMAIN s : s[l] \notin W

LEMMA AddedLast ==
    ASSUME NEW s, NEW t, NEW x, NEW n, Added(s, t, x, n),
           NEW W, NEW val, NEW m, NEW v, AtEnd(s, W, val, m, v)
    PROVE  /\ x \notin W => AtEnd(t, W, val, m, v)
           /\ x \in W => AtEnd(t, W, val, m, val[x])
           /\ Before(t, n + 1, W, val, m, v)
<1>1. /\ n \in Nat /\ DOMAIN s = 1..n /\ DOMAIN t = 1..(n + 1)
      /\ t[n + 1] = x /\ \A i \in 1..n : t[i] = s[i]
  BY DEF Added
<1>2. \A i \in 1..(n + 1) : i < n + 1 <=> i \in 1..n
  BY <1>1
<1>3. n + 1 \in DOMAIN t /\ \A i \in DOMAIN t : ~(n + 1 < i)
  BY <1>1
<1>4. x \in W => AtEnd(t, W, val, m, val[x])
  BY <1>1, <1>3 DEF AtEnd
<1>5. CASE \E j \in DOMAIN s : /\ s[j] \in W /\ val[s[j]] = v
                               /\ \A l \in DOMAIN s : j < l => s[l] \notin W
  <2>1. PICK j \in 1..n : /\ s[j] \in W /\ val[s[j]] = v
                          /\ \A l \in 1..n : j < l => s[l] \notin W
    BY <1>1, <1>5
  <2>2. /\ j \in DOMAIN t /\ j < n + 1 /\ t[j] \in W /\ val[t[j]] = v
        /\ \A l \in DOMAIN t : j < l /\ l < n + 1 => t[l] \notin W
    BY <1>1, <1>2, <2>1
  <2>3. x \notin W => \A l \in DOMAIN t : j < l => t[l] \notin W
    BY <1>1, <1>2, <2>1
  <2>. QED
    BY <1>4, <2>2, <2>3 DEF AtEnd, Before
<1>6. CASE m = v /\ \A l \in DOMAIN s : s[l] \notin W
  <2>1. \A l \in DOMAIN t : l < n + 1 => t[l] \notin W
    BY <1>1, <1>2, <1>6
  <2>2. x \notin W => \A l \in DOMAIN t : t[l] \notin W
    BY <1>1, <1>2, <1>6
  <2>. QED
    BY <1>4, <1>6, <2>1, <2>2 DEF AtEnd, Before
<1>. QED
  BY <1>5, <1>6 DEF AtEnd

LEMMA AddedBefore ==
    ASSUME NEW s, NEW t, NEW x, NEW n, Added(s, t, x, n), NEW p \in DOMAIN s,
           NEW W, NEW val, NEW m, NEW v, Before(s, p, W, val, m, v)
    PROVE  Before(t, p, W, val, m, v)
<1>1. /\ n \in Nat /\ DOMAIN s = 1..n /\ DOMAIN t = 1..(n + 1)
      /\ t[n + 1] = x /\ \A i \in 1..n : t[i] = s[i]
  BY DEF Added
<1>2. \A i \in DOMAIN t : i < p => i \in DOMAIN s /\ t[i] = s[i]
  BY <1>1
<1>3. \A i \in DOMAIN s : i \in DOMAIN t /\ t[i] = s[i]
  BY <1>1
<1>. QED
  BY <1>2, <1>3 DEF Before

(* A message that sets nothing goes.                                       *)
LEMMA RemovedLast ==
    ASSUME NEW s, NEW t, NEW k, NEW n, Removed(s, t, k, n),
           NEW W, NEW val, NEW m, NEW v, s[k] \notin W
    PROVE  /\ AtEnd(s, W, val, m, v) => AtEnd(t, W, val, m, v)
           /\ \A p \in DOMAIN t :
                 Before(s, IF p < k THEN p ELSE p + 1, W, val, m, v)
                    => Before(t, p, W, val, m, v)
<1>1. /\ n \in Nat /\ k \in 1..(n + 1)
      /\ DOMAIN s = 1..(n + 1) /\ DOMAIN t = 1..n
      /\ \A i \in 1..n : t[i] = IF i < k THEN s[i] ELSE s[i + 1]
  BY DEF Removed
<1>. DEFINE to(i) == IF i < k THEN i ELSE i + 1
            fr(i) == IF i < k THEN i ELSE i - 1
<1>2. \A i \in DOMAIN t : to(i) \in DOMAIN s /\ t[i] = s[to(i)]
  BY <1>1
<1>3. \A i \in DOMAIN s : s[i] \in W => /\ fr(i) \in DOMAIN t
                                        /\ t[fr(i)] = s[i]
                                        /\ to(fr(i)) = i
  BY <1>1
<1>4. \A i, j \in DOMAIN t : i < j <=> to(i) < to(j)
  BY <1>1
<1>. HIDE DEF to, fr
<1>5. ASSUME AtEnd(s, W, val, m, v) PROVE AtEnd(t, W, val, m, v)
  <2>1. CASE \E j \in DOMAIN s : /\ s[j] \in W /\ val[s[j]] = v
                                 /\ \A l \in DOMAIN s : j < l => s[l] \notin W
    <3>1. PICK j \in DOMAIN s : /\ s[j] \in W /\ val[s[j]] = v
                                /\ \A l \in DOMAIN s : j < l => s[l] \notin W
      BY <2>1
    <3>2. /\ fr(j) \in DOMAIN t /\ t[fr(j)] = s[j] /\ to(fr(j)) = j
      BY <1>3, <3>1
    <3>3. \A l \in DOMAIN t : fr(j) < l => t[l] \notin W
      BY <1>2, <1>4, <3>1, <3>2
    <3>. QED
      BY <3>1, <3>2, <3>3 DEF AtEnd
  <2>2. CASE m = v /\ \A l \in DOMAIN s : s[l] \notin W
    BY <1>2, <2>2 DEF AtEnd
  <2>. QED
    BY <1>5, <2>1, <2>2 DEF AtEnd
<1>6. ASSUME NEW p \in DOMAIN t, Before(s, to(p), W, val, m, v)
      PROVE  Before(t, p, W, val, m, v)
  <2>1. CASE \E j \in DOMAIN s :
                /\ j < to(p) /\ s[j] \in W /\ val[s[j]] = v
                /\ \A l \in DOMAIN s : j < l /\ l < to(p) => s[l] \notin W
    <3>1. PICK j \in DOMAIN s :
                /\ j < to(p) /\ s[j] \in W /\ val[s[j]] = v
                /\ \A l \in DOMAIN s : j < l /\ l < to(p) => s[l] \notin W
      BY <2>1
    <3>2. /\ fr(j) \in DOMAIN t /\ t[fr(j)] = s[j] /\ to(fr(j)) = j
      BY <1>3, <3>1
    <3>3. \A l \in DOMAIN t : fr(j) < l /\ l < p => t[l] \notin W
      BY <1>2, <1>4, <3>1, <3>2
    <3>4. fr(j) < p
      BY <1>4, <3>1, <3>2
    <3>. QED
      BY <3>1, <3>2, <3>3, <3>4 DEF Before
  <2>2. CASE m = v /\ \A l \in DOMAIN s : l < to(p) => s[l] \notin W
    BY <1>2, <1>4, <2>2 DEF Before
  <2>. QED
    BY <1>6, <2>1, <2>2 DEF Before
<1>. QED
  BY <1>5, <1>6 DEF to

(* The first message is handled and sets the variable.                     *)
LEMMA HandledLast ==
    ASSUME NEW s, NEW t, NEW n, Removed(s, t, 1, n),
           NEW W, NEW val, NEW m, NEW v, s[1] \in W
    PROVE  /\ AtEnd(s, W, val, m, v) => AtEnd(t, W, val, val[s[1]], v)
           /\ \A p \in DOMAIN t : Before(s, p + 1, W, val, m, v)
                                    => Before(t, p, W, val, val[s[1]], v)
<1>1. /\ n \in Nat /\ 1 \in DOMAIN s
      /\ DOMAIN s = 1..(n + 1) /\ DOMAIN t = 1..n
      /\ \A i \in DOMAIN t : t[i] = s[i + 1] /\ i + 1 \in DOMAIN s
  BY DEF Removed
<1>2. \A j \in DOMAIN s : j = 1 \/ (/\ j - 1 \in DOMAIN t /\ t[j - 1] = s[j]
                                    /\ (j - 1) + 1 = j)
  BY <1>1
<1>3. \A i \in DOMAIN t : 1 < i + 1
  BY <1>1
<1>4. \A i, j \in DOMAIN t : i < j <=> i + 1 < j + 1
  BY <1>1
<1>5. ASSUME AtEnd(s, W, val, m, v) PROVE AtEnd(t, W, val, val[s[1]], v)
  <2>1. PICK j \in DOMAIN s : /\ s[j] \in W /\ val[s[j]] = v
                              /\ \A l \in DOMAIN s : j < l => s[l] \notin W
    BY <1>1, <1>5 DEF AtEnd
  <2>2. CASE j = 1
    BY <1>1, <1>3, <2>1, <2>2 DEF AtEnd
  <2>3. CASE j # 1
    <3>1. j - 1 \in DOMAIN t /\ t[j - 1] = s[j] /\ (j - 1) + 1 = j
      BY <1>2, <2>3
    <3>2. \A l \in DOMAIN t : j - 1 < l => t[l] \notin W
      BY <1>1, <1>4, <2>1, <3>1
    <3>. QED
      BY <2>1, <3>1, <3>2 DEF AtEnd
  <2>. QED
    BY <2>2, <2>3
<1>6. ASSUME NEW p \in DOMAIN t, Before(s, p + 1, W, val, m, v)
      PROVE  Before(t, p, W, val, val[s[1]], v)
  <2>1. PICK j \in DOMAIN s :
           /\ j < p + 1 /\ s[j] \in W /\ val[s[j]] = v
           /\ \A l \in DOMAIN s : j < l /\ l < p + 1 => s[l] \notin W
    BY <1>1, <1>3, <1>6 DEF Before
  <2>2. CASE j = 1
    BY <1>1, <1>3, <1>4, <2>1, <2>2 DEF Before
  <2>3. CASE j # 1
    <3>1. j - 1 \in DOMAIN t /\ t[j - 1] = s[j] /\ (j - 1) + 1 = j
      BY <1>2, <2>3
    <3>2. \A l \in DOMAIN t : j - 1 < l /\ l < p => t[l] \notin W
      BY <1>1, <1>4, <2>1, <3>1
    <3>3. j - 1 < p
      BY <1>4, <2>1, <3>1
    <3>. QED
      BY <2>1, <3>1, <3>2, <3>3 DEF Before
  <2>. QED
    BY <2>2, <2>3
<1>. QED
  BY <1>5, <1>6

-----------------------------------------------------------------------------
(* The protocol mode: every write that is on its way comes before the reads*)
(* that were asked for after it.                                           *)
Written == [m \in Writes |-> m.value]
ModeSeen ==
    /\ AtEnd(inbox, Writes, Written, protocol_mode, wrote)
    /\ \A i \in DOMAIN inbox : inbox[i].call = "ReadValue" =>
          Before(inbox, i, Writes, Written, protocol_mode, inbox[i].expect)

LEMMA ModeInit == Init => ModeSeen
  BY DEF Init, ModeSeen, AtEnd

LEMMA ModeStep == TypeOK /\ ModeSeen /\ [Next]_vars => ModeSeen'
<1>. SUFFICES ASSUME TypeOK, ModeSeen, [Next]_vars PROVE ModeSeen'
  OBVIOUS
<1>0. inbox \in Seq(Message) /\ pc \in {"start", "serving", "stop",
                                       "stop_app", "stopped"} \cup DOMAIN Waits
      /\ wrote \in 0..255
  BY DEF TypeOK
<1>1. ASSUME UNCHANGED <<inbox, protocol_mode, wrote>> PROVE ModeSeen'
  BY <1>1 DEF ModeSeen
<1>2. ASSUME NEW x \in Message, Send(x),
             x.call = "ReadValue" => x.expect = wrote,
             protocol_mode' = protocol_mode,
             wrote' = IF x \in Writes THEN x.value ELSE wrote
      PROVE  ModeSeen'
  <2>1. PICK n \in Nat : Added(inbox, inbox', x, n)
    BY <1>0, <1>2, Sends
  <2>2. AtEnd(inbox, Writes, Written, protocol_mode, wrote)
    BY DEF ModeSeen
  <2>3. /\ x \notin Writes => AtEnd(inbox', Writes, Written, protocol_mode,
                                   wrote)
        /\ x \in Writes => AtEnd(inbox', Writes, Written, protocol_mode,
                                Written[x])
        /\ Before(inbox', n + 1, Writes, Written, protocol_mode, wrote)
    BY <2>1, <2>2, AddedLast
  <2>4. x \in Writes => Written[x] = x.value
    BY DEF Written
  <2>5. AtEnd(inbox', Writes, Written, protocol_mode, wrote')
    BY <1>2, <2>3, <2>4
  <2>6. ASSUME NEW i \in DOMAIN inbox', inbox'[i].call = "ReadValue"
        PROVE  Before(inbox', i, Writes, Written, protocol_mode,
                      inbox'[i].expect)
    <3>1. CASE i \in DOMAIN inbox
      <4>1. inbox'[i] = inbox[i]
        BY <2>1, <3>1 DEF Added
      <4>2. Before(inbox, i, Writes, Written, protocol_mode, inbox[i].expect)
        BY <2>6, <3>1, <4>1 DEF ModeSeen
      <4>. QED
        BY <2>1, <3>1, <4>1, <4>2, AddedBefore
    <3>2. CASE i \notin DOMAIN inbox
      <4>1. i = n + 1 /\ inbox'[i] = x
        BY <2>1, <2>6, <3>2 DEF Added
      <4>. QED
        BY <1>2, <2>3, <2>6, <4>1
    <3>. QED
      BY <3>1, <3>2
  <2>7. Written' = Written /\ Writes' = Writes
    BY DEF Written, Writes
  <2>. QED
    BY <1>2, <2>5, <2>6 DEF ModeSeen
<1>3. ASSUME NEW k, NEW n, Removed(inbox, inbox', k, n),
             inbox[k] \notin Writes,
             UNCHANGED <<protocol_mode, wrote>>
      PROVE  ModeSeen'
  <2>1. AtEnd(inbox', Writes, Written, protocol_mode, wrote)
    BY <1>3, RemovedLast DEF ModeSeen
  <2>2. ASSUME NEW i \in DOMAIN inbox', inbox'[i].call = "ReadValue"
        PROVE  Before(inbox', i, Writes, Written, protocol_mode,
                      inbox'[i].expect)
    <3>. DEFINE j == IF i < k THEN i ELSE i + 1
    <3>1. j \in DOMAIN inbox /\ inbox'[i] = inbox[j]
      BY <1>3, <2>2 DEF Removed
    <3>2. Before(inbox, j, Writes, Written, protocol_mode, inbox[j].expect)
      BY <2>2, <3>1 DEF ModeSeen
    <3>. QED
      BY <1>3, <2>2, <3>1, <3>2, RemovedLast
  <2>. QED
    BY <1>3, <2>1, <2>2 DEF ModeSeen
<1>4. ASSUME NEW call, Take(call), call # "WriteValue",
             UNCHANGED <<protocol_mode, wrote>>
      PROVE  ModeSeen'
  <2>1. inbox[1].call = call /\ 1 \in DOMAIN inbox /\ inbox[1] \in Message
        /\ \E n \in Nat : Removed(inbox, inbox', 1, n)
    BY <1>0, <1>4, TakesFirst
  <2>2. inbox[1] \notin Writes
    BY <1>4, <2>1, Kinds
  <2>. QED
    BY <1>3, <1>4, <2>1, <2>2
<1>5. ASSUME NEW ok, TakeReply(ok), UNCHANGED <<protocol_mode, wrote>>
      PROVE  ModeSeen'
  <2>1. PICK k \in DOMAIN inbox :
           /\ inbox[k] = Reply(Waits[pc], ok)
           /\ \E n \in Nat : Removed(inbox, inbox', k, n)
    BY <1>0, <1>5, TakesReply
  <2>2. inbox[k] \notin Writes
    BY <2>1 DEF Reply, Writes
  <2>. QED
    BY <1>3, <1>5, <2>1, <2>2
<1>6. CASE HandleCharacteristicWrite
  <2>1. /\ inbox[1].call = "WriteValue" /\ Head(inbox) = inbox[1]
        /\ inbox[1] \in Message
    BY <1>0, <1>6, TakesFirst DEF HandleCharacteristicWrite
  <2>2. PICK n \in Nat : Removed(inbox, inbox', 1, n)
    BY <1>0, <1>6, TakesFirst DEF HandleCharacteristicWrite
  <2>3. inbox[1] \in Writes
    BY <2>1, Kinds
  <2>4. protocol_mode' = Written[inbox[1]] /\ wrote' = wrote
    BY <1>6, <2>1, <2>3
       DEF HandleCharacteristicWrite, Writes, Written, bluezVars
  <2>5. AtEnd(inbox', Writes, Written, protocol_mode', wrote)
    BY <2>2, <2>3, <2>4, HandledLast DEF ModeSeen
  <2>6. ASSUME NEW i \in DOMAIN inbox', inbox'[i].call = "ReadValue"
        PROVE  Before(inbox', i, Writes, Written, protocol_mode',
                      inbox'[i].expect)
    <3>1. i + 1 \in DOMAIN inbox /\ inbox'[i] = inbox[i + 1]
      BY <2>2, <2>6 DEF Removed
    <3>2. Before(inbox, i + 1, Writes, Written, protocol_mode,
                 inbox[i + 1].expect)
      BY <2>6, <3>1 DEF ModeSeen
    <3>. QED
      BY <2>2, <2>3, <2>4, <2>6, <3>1, <3>2, HandledLast
  <2>. QED
    BY <2>4, <2>5, <2>6 DEF ModeSeen
<1>. USE DEF gattVars, bluezVars
<1>7. CASE Start \/ UnregisterAdvertisement \/ UnregisterApplication
           \/ EndLoop \/ (\E report \in Reports : StoreReport(report))
           \/ UNCHANGED vars
  BY <1>1, <1>7 DEF Start, UnregisterAdvertisement, UnregisterApplication,
                    EndLoop, StoreReport, vars
<1>8. CASE RegisterApplicationReturns \/ RegisterAdvertisementReturns
           \/ UnregisterAdvertisementReturns \/ UnregisterApplicationReturns
  <2>1. (\E ok : TakeReply(ok)) \/ inbox' = inbox
    BY <1>8 DEF RegisterApplicationReturns, RegisterAdvertisementReturns,
                UnregisterAdvertisementReturns, UnregisterApplicationReturns,
                GiveUp
  <2>2. UNCHANGED <<protocol_mode, wrote>>
    BY <1>8 DEF RegisterApplicationReturns, RegisterAdvertisementReturns,
                UnregisterAdvertisementReturns, UnregisterApplicationReturns
  <2>. QED
    BY <1>1, <1>5, <2>1, <2>2
<1>9. CASE Handle
  <2>1. CASE HandleCharacteristicWrite
    BY <1>6, <2>1
  <2>2. CASE ~HandleCharacteristicWrite
    <3>1. \E call : Take(call) /\ call # "WriteValue"
      BY <1>9, <2>2
         DEF Handle, HandleGetManagedObjects, HandleGetAllProperties,
             HandleCharacteristicRead, HandleStartNotify, HandleStopNotify,
             HandleAdvertisementRelease, DropLateReply
    <3>2. UNCHANGED <<protocol_mode, wrote>>
      BY <1>9, <2>2
         DEF Handle, HandleGetManagedObjects, HandleGetAllProperties,
             HandleCharacteristicRead, HandleStartNotify, HandleStopNotify,
             HandleAdvertisementRelease, DropLateReply
    <3>. QED
      BY <1>4, <3>1, <3>2
  <2>. QED
    BY <2>1, <2>2
<1>10. CASE Bluez \/ HostSubscribes \/ HostUnsubscribes
            \/ BluezReleasesAdvertisement \/ BluezRestarts
  <2>1. inbox' = inbox \/ \E x \in Message : /\ Send(x) /\ x \notin Writes
                                             /\ x.call # "ReadValue"
    <3>. DEFINE Plain(x) == x \in Message /\ x \notin Writes
                            /\ x.call # "ReadValue"
    <3>1. /\ \A w \in DOMAIN Waits, ok \in BOOLEAN : Plain(Reply(Waits[w], ok))
          /\ Plain(AskedObjects) /\ Plain(AskedProps) /\ Plain(Released)
          /\ Plain([call |-> "StartNotify"]) /\ Plain([call |-> "StopNotify"])
      BY Sendable
         DEF Writes, Reply, AskedObjects, AskedProps, Released
    <3>. HIDE DEF Plain
    <3>2. inbox' = inbox \/ \E x : Send(x) /\ Plain(x)
      <4>1. CASE BluezRegistersApplication
        BY <3>1, <4>1, Ops DEF BluezRegistersApplication, AskedObjects
      <4>2. CASE BluezRegistersAdvertisement
        BY <3>1, <4>2, Ops DEF BluezRegistersAdvertisement, AskedProps
      <4>3. CASE BluezUnregisters
        <5>1. (adv = "known") \in BOOLEAN /\ (app = "known") \in BOOLEAN
          OBVIOUS
        <5>. QED
          BY <3>1, <4>3, <5>1, Ops DEF BluezUnregisters
      <4>4. CASE HostSubscribes \/ HostUnsubscribes
        BY <3>1, <4>4 DEF HostSubscribes, HostUnsubscribes
      <4>5. CASE BluezReleasesAdvertisement
        BY <3>1, <4>5 DEF BluezReleasesAdvertisement, Released
      <4>6. CASE BluezRestarts
        BY <3>1, <4>6 DEF BluezRestarts
      <4>. QED
        BY <1>10, <4>1, <4>2, <4>3, <4>4, <4>5, <4>6 DEF Bluez
    <3>. QED
      BY <3>2 DEF Plain
  <2>2. UNCHANGED <<protocol_mode, wrote>>
    BY <1>10 DEF Bluez, BluezRegistersApplication, BluezUnregisters,
                 BluezRegistersAdvertisement, HostSubscribes, Receive,
                 HostUnsubscribes, BluezReleasesAdvertisement, BluezRestarts
  <2>. QED
    BY <1>1, <1>2, <2>1, <2>2
<1>11. ASSUME NEW mode \in Modes, HostWritesMode(mode) PROVE ModeSeen'
  <2>. DEFINE x == [call |-> "WriteValue", path |-> "CHAR3", value |-> mode]
  <2>1. x \in Message /\ x \in Writes /\ x.value = mode
        /\ x.call # "ReadValue"
    BY Sendable
  <2>2. Send(x) /\ wrote' = mode /\ protocol_mode' = protocol_mode
    BY <1>11 DEF HostWritesMode
  <2>. HIDE DEF x
  <2>. QED
    BY <1>2, <2>1, <2>2
<1>12. CASE HostReadsMode
  <2>. DEFINE x == [call |-> "ReadValue", path |-> "CHAR3", expect |-> wrote]
  <2>1. x \in Message /\ x \notin Writes /\ x.expect = wrote
    BY <1>0, Sendable DEF Writes
  <2>2. Send(x) /\ wrote' = wrote /\ protocol_mode' = protocol_mode
    BY <1>12 DEF HostReadsMode
  <2>. HIDE DEF x
  <2>. QED
    BY <1>2, <2>1, <2>2
<1>. QED
  BY <1>7, <1>8, <1>9, <1>10, <1>11, <1>12 DEF Next, Main

(* The handler of ReadValue answers with what the host wrote last before it*)
(* asked, for any number of writes and reads on their way.                 *)
THEOREM ReadsFollow == Spec => []ReadsSeeWrites
<1>1. TypeOK /\ ModeSeen => ReadsSeeWrites
  <2>. SUFFICES ASSUME TypeOK, ModeSeen, inbox # << >>,
                       Head(inbox).call = "ReadValue"
                PROVE  ReadValue(Head(inbox).path) = <<Head(inbox).expect>>
    BY DEF ReadsSeeWrites
  <2>1. /\ 1 \in DOMAIN inbox /\ Head(inbox) = inbox[1]
        /\ inbox[1] \in Message
        /\ \A i \in DOMAIN inbox : ~(i < 1)
    BY DEF TypeOK
  <2>2. inbox[1].expect = protocol_mode
    BY <2>1 DEF ModeSeen, Before
  <2>3. Head(inbox).path = "CHAR3"
    BY <2>1, Kinds
  <2>. QED
    BY <2>1, <2>2, <2>3 DEF ReadValue
<1>. QED
  BY <1>1, TypeInit, TypeStep, ModeInit, ModeStep, PTL DEF Spec

-----------------------------------------------------------------------------
(* Calls on behalf of a host, and the queues that hold nothing else, one   *)
(* other message, or two.                                                  *)
Host(m) == m.call \in {"StartNotify", "StopNotify", "WriteValue", "ReadValue"}
HostOnly(s) == \A i \in DOMAIN s : Host(s[i])
Single(s, m) ==
    \E k \in DOMAIN s : /\ s[k] = m
                        /\ \A i \in DOMAIN s : i # k => Host(s[i])
Double(s, m1, m2) ==
    \E k, l \in DOMAIN s : /\ k < l /\ s[k] = m1 /\ s[l] = m2
                           /\ \A i \in DOMAIN s : i # k /\ i # l => Host(s[i])

LEMMA AddedHost ==
    ASSUME NEW s, NEW t, NEW x, NEW n, Added(s, t, x, n), Host(x)
    PROVE  /\ HostOnly(s) => HostOnly(t)
           /\ \A m : Single(s, m) => Single(t, m)
           /\ \A m1, m2 : Double(s, m1, m2) => Double(t, m1, m2)
<1>1. /\ \A i \in DOMAIN s : i \in DOMAIN t /\ t[i] = s[i]
      /\ \A i \in DOMAIN t : i \in DOMAIN s \/ t[i] = x
  BY DEF Added
<1>2. \A i \in DOMAIN t : i \notin DOMAIN s => Host(t[i])
  BY <1>1
<1>. QED
  BY <1>1, <1>2 DEF HostOnly, Single, Double

LEMMA AddedOther ==
    ASSUME NEW s, NEW t, NEW x, NEW n, Added(s, t, x, n)
    PROVE  /\ HostOnly(s) => Single(t, x)
           /\ \A m : Single(s, m) => Double(t, m, x)
<1>1. /\ \A i \in DOMAIN s : i \in DOMAIN t /\ t[i] = s[i] /\ i < n + 1
      /\ \A i \in DOMAIN t : i \in DOMAIN s \/ i = n + 1
      /\ n + 1 \in DOMAIN t /\ t[n + 1] = x
  BY DEF Added
<1>2. HostOnly(s) => Single(t, x)
  BY <1>1 DEF HostOnly, Single
<1>3. ASSUME NEW m, Single(s, m) PROVE Double(t, m, x)
  <2>1. PICK k \in DOMAIN s : /\ s[k] = m
                              /\ \A i \in DOMAIN s : i # k => Host(s[i])
    BY <1>3 DEF Single
  <2>2. k \in DOMAIN t /\ k < n + 1 /\ t[k] = m
    BY <1>1, <2>1
  <2>3. \A i \in DOMAIN t : i # k /\ i # n + 1 => Host(t[i])
    BY <1>1, <2>1
  <2>. QED
    BY <1>1, <2>2, <2>3 DEF Double
<1>. QED
  BY <1>2, <1>3

(* Where the messages of the shorter queue were in the longer one.         *)
LEMMA Places ==
    ASSUME NEW s, NEW t, NEW k, NEW n, Removed(s, t, k, n)
    PROVE  /\ k \in DOMAIN s
           /\ \A i \in DOMAIN t : \E j \in DOMAIN s : j # k /\ t[i] = s[j]
           /\ \A j \in DOMAIN s : j # k => \E i \in DOMAIN t : t[i] = s[j]
<1>1. /\ n \in Nat /\ k \in 1..(n + 1)
      /\ DOMAIN s = 1..(n + 1) /\ DOMAIN t = 1..n
      /\ \A i \in 1..n : t[i] = IF i < k THEN s[i] ELSE s[i + 1]
  BY DEF Removed
<1>2. ASSUME NEW i \in DOMAIN t PROVE \E j \in DOMAIN s : j # k /\ t[i] = s[j]
  <2>. DEFINE j == IF i < k THEN i ELSE i + 1
  <2>1. j \in DOMAIN s /\ j # k /\ t[i] = s[j]
    BY <1>1, <1>2
  <2>. QED
    BY <2>1
<1>3. ASSUME NEW j \in DOMAIN s, j # k PROVE \E i \in DOMAIN t : t[i] = s[j]
  <2>. DEFINE i == IF j < k THEN j ELSE j - 1
  <2>1. i \in DOMAIN t /\ t[i] = s[j]
    BY <1>1, <1>3
  <2>. QED
    BY <2>1
<1>. QED
  BY <1>1, <1>2, <1>3

LEMMA RemovedHost ==
    ASSUME NEW s, NEW t, NEW k, NEW n, Removed(s, t, k, n), Host(s[k])
    PROVE  /\ HostOnly(s) => HostOnly(t)
           /\ \A m : ~Host(m) /\ Single(s, m) => Single(t, m)
           /\ \A m1, m2 : ~Host(m1) /\ ~Host(m2) /\ Double(s, m1, m2)
                            => Double(t, m1, m2)
<1>1. /\ n \in Nat /\ k \in 1..(n + 1)
      /\ DOMAIN s = 1..(n + 1) /\ DOMAIN t = 1..n
      /\ \A i \in 1..n : t[i] = IF i < k THEN s[i] ELSE s[i + 1]
  BY DEF Removed
<1>. DEFINE to(i) == IF i < k THEN i ELSE i + 1
            fr(i) == IF i < k THEN i ELSE i - 1
<1>2. \A i \in DOMAIN t : to(i) \in DOMAIN s /\ t[i] = s[to(i)]
                          /\ fr(to(i)) = i
  BY <1>1
<1>3. \A i \in DOMAIN s : i # k => /\ fr(i) \in DOMAIN t
                                   /\ t[fr(i)] = s[i]
                                   /\ to(fr(i)) = i
  BY <1>1
<1>4. \A i, j \in DOMAIN t : i < j <=> to(i) < to(j)
  BY <1>1
<1>. HIDE DEF to, fr
<1>5. HostOnly(s) => HostOnly(t)
  BY <1>2 DEF HostOnly
<1>6. ASSUME NEW m, ~Host(m), Single(s, m) PROVE Single(t, m)
  <2>1. PICK a \in DOMAIN s : /\ s[a] = m
                              /\ \A i \in DOMAIN s : i # a => Host(s[i])
    BY <1>6 DEF Single
  <2>2. fr(a) \in DOMAIN t /\ t[fr(a)] = m /\ to(fr(a)) = a
    BY <1>3, <1>6, <2>1
  <2>3. \A i \in DOMAIN t : i # fr(a) => Host(t[i])
    BY <1>2, <2>1, <2>2
  <2>. QED
    BY <2>2, <2>3 DEF Single
<1>7. ASSUME NEW m1, NEW m2, ~Host(m1), ~Host(m2), Double(s, m1, m2)
      PROVE  Double(t, m1, m2)
  <2>1. PICK a, b \in DOMAIN s :
           /\ a < b /\ s[a] = m1 /\ s[b] = m2
           /\ \A i \in DOMAIN s : i # a /\ i # b => Host(s[i])
    BY <1>7 DEF Double
  <2>2. /\ fr(a) \in DOMAIN t /\ t[fr(a)] = m1 /\ to(fr(a)) = a
        /\ fr(b) \in DOMAIN t /\ t[fr(b)] = m2 /\ to(fr(b)) = b
    BY <1>3, <1>7, <2>1
  <2>3. fr(a) < fr(b)
    BY <1>4, <2>1, <2>2
  <2>4. \A i \in DOMAIN t : i # fr(a) /\ i # fr(b) => Host(t[i])
    BY <1>2, <2>1, <2>2
  <2>. QED
    BY <2>2, <2>3, <2>4 DEF Double
<1>. QED
  BY <1>5, <1>6, <1>7

LEMMA RemovedOther ==
    ASSUME NEW s, NEW t, NEW k, NEW n, Removed(s, t, k, n), ~Host(s[k])
    PROVE  /\ ~HostOnly(s)
           /\ \A m : Single(s, m) => s[k] = m /\ HostOnly(t)
           /\ \A m1, m2 : Double(s, m1, m2) /\ s[k] # m2
                            => s[k] = m1 /\ Single(t, m2)
           /\ \A m1, m2 : Double(s, m1, m2) /\ ~Host(m1) /\ k = 1
                            => s[k] = m1
<1>1. /\ k \in DOMAIN s
      /\ \A i \in DOMAIN t : \E j \in DOMAIN s : j # k /\ t[i] = s[j]
  BY Places
<1>2. ~HostOnly(s)
  BY <1>1 DEF HostOnly
<1>3. ASSUME NEW m, Single(s, m) PROVE s[k] = m /\ HostOnly(t)
  BY <1>1, <1>3 DEF Single, HostOnly
<1>4. ASSUME NEW m1, NEW m2, Double(s, m1, m2), s[k] # m2
      PROVE  s[k] = m1 /\ Single(t, m2)
  <2>1. PICK a, b \in DOMAIN s :
           /\ a < b /\ s[a] = m1 /\ s[b] = m2
           /\ \A i \in DOMAIN s : i # a /\ i # b => Host(s[i])
    BY <1>4 DEF Double
  <2>2. k = a
    BY <1>1, <1>4, <2>1
  <2>3. /\ n \in Nat /\ k \in 1..(n + 1)
        /\ DOMAIN s = 1..(n + 1) /\ DOMAIN t = 1..n
        /\ \A i \in 1..n : t[i] = IF i < k THEN s[i] ELSE s[i + 1]
    BY DEF Removed
  <2>4. b - 1 \in DOMAIN t /\ t[b - 1] = m2
    BY <2>1, <2>2, <2>3
  <2>5. ASSUME NEW i \in DOMAIN t, i # b - 1 PROVE Host(t[i])
    <3>. DEFINE j == IF i < k THEN i ELSE i + 1
    <3>1. j \in DOMAIN s /\ t[i] = s[j] /\ j # k /\ j # b
      BY <2>1, <2>2, <2>3, <2>5
    <3>. QED
      BY <2>1, <2>2, <3>1
  <2>. QED
    BY <2>1, <2>2, <2>4, <2>5 DEF Single
<1>5. ASSUME NEW m1, NEW m2, Double(s, m1, m2), ~Host(m1), k = 1
      PROVE  s[k] = m1
  <2>1. PICK a, b \in DOMAIN s :
           /\ a < b /\ s[a] = m1 /\ s[b] = m2
           /\ \A i \in DOMAIN s : i # a /\ i # b => Host(s[i])
    BY <1>5 DEF Double
  <2>2. ~(b <= 1)
    BY <2>1 DEF Removed
  <2>3. k = a \/ k = b
    BY <1>1, <2>1
  <2>4. k = a
    BY <1>5, <2>1, <2>2, <2>3 DEF Removed
  <2>. QED
    BY <2>1, <2>4
<1>. QED
  BY <1>2, <1>3, <1>4, <1>5

-----------------------------------------------------------------------------
(* Until bluetoothd is restarted for the first time: how far a registration*)
(* has come, by what is in the two queues.                                 *)
RegApp(ok) == Reply("RegisterApplication", ok)
RegAdv(ok) == Reply("RegisterAdvertisement", ok)

AppWait ==
    \/ outbox = <<"RegisterApplication">> /\ HostOnly(inbox) /\ app = "none"
    \/ outbox = << >> /\ Single(inbox, AskedObjects) /\ app = "listing"
    \/ outbox = <<"objects">> /\ HostOnly(inbox) /\ app = "listing"
    \/ outbox = << >> /\ Single(inbox, RegApp(TRUE)) /\ app = "known"
    \/ outbox = << >> /\ Single(inbox, RegApp(FALSE)) /\ app = "none"

AdvWait ==
    \/ outbox = <<"RegisterAdvertisement">> /\ HostOnly(inbox) /\ adv = "none"
    \/ outbox = << >> /\ Single(inbox, AskedProps) /\ adv = "listing"
    \/ outbox = <<"props">> /\ HostOnly(inbox) /\ adv = "listing"
    \/ outbox = << >> /\ Single(inbox, RegAdv(TRUE)) /\ adv = "known"
    \/ outbox = << >> /\ Double(inbox, RegAdv(TRUE), Released) /\ adv = "none"
    \/ outbox = << >> /\ Single(inbox, RegAdv(FALSE)) /\ adv = "none"

Served ==
    \/ HostOnly(inbox) /\ adv = "known" /\ adv_registered = TRUE
    \/ Single(inbox, Released) /\ adv = "none" /\ adv_registered = TRUE
    \/ HostOnly(inbox) /\ adv = "none" /\ adv_registered = FALSE

FreshAt(at) ==
    /\ at = "start" => /\ outbox = << >> /\ HostOnly(inbox)
                       /\ app = "none" /\ adv = "none"
    /\ at = "app_wait" => AppWait /\ adv = "none"
    /\ at = "adv_wait" => AdvWait /\ app = "known" /\ registered = TRUE
    /\ at = "serving" => /\ Served /\ outbox = << >>
                         /\ app = "known" /\ registered = TRUE
Fresh == restarts = 0 => FreshAt(pc)

LEMMA FreshInit == Init => Fresh
  BY DEF Init, Fresh, FreshAt, HostOnly

(* The messages that are not calls of hosts, told apart.                   *)
LEMMA Others ==
    /\ ~Host(AskedObjects) /\ ~Host(AskedProps) /\ ~Host(Released)
    /\ \A to, ok : ~Host(Reply(to, ok))
    /\ \A to : Reply(to, TRUE) # Reply(to, FALSE)
    /\ AskedObjects # AskedProps /\ AskedObjects # Released
    /\ AskedProps # Released
    /\ AskedObjects.call = "GetManagedObjects"
    /\ AskedProps.call = "GetAll" /\ Released.call = "Release"
    /\ \A to, ok : /\ Reply(to, ok).call = "reply"
                   /\ Reply(to, ok).to = to /\ Reply(to, ok).ok = ok
<1>1. /\ ~Host(AskedObjects) /\ ~Host(AskedProps) /\ ~Host(Released)
      /\ AskedObjects # AskedProps /\ AskedObjects # Released
      /\ AskedProps # Released
      /\ AskedObjects.call = "GetManagedObjects"
      /\ AskedProps.call = "GetAll" /\ Released.call = "Release"
  BY DEF Host, AskedObjects, AskedProps, Released
<1>2. \A to, ok : /\ Reply(to, ok).call = "reply"
                  /\ Reply(to, ok).to = to /\ Reply(to, ok).ok = ok
                  /\ ~Host(Reply(to, ok))
  BY DEF Host, Reply
<1>3. \A to : Reply(to, TRUE) # Reply(to, FALSE)
  BY DEF Reply
<1>. QED
  BY <1>1, <1>2, <1>3

LEMMA Ones ==
    /\ \A x : << >> # <<x>> /\ <<x>> # << >>
    /\ \A x, y : <<x>> = <<y>> => x = y
    /\ \A x : Append(<< >>, x) = <<x>>
    /\ \A x : Tail(<<x>>) = << >> /\ Head(<<x>>) = x
<1>1. \A x : Len(<<x>>) = 1 /\ Len(<< >>) = 0
  OBVIOUS
<1>2. \A x : Append(<< >>, x) = <<x>>
  OBVIOUS
<1>3. \A x : Tail(<<x>>) = << >> /\ Head(<<x>>) = x
  OBVIOUS
<1>. QED
  BY <1>1, <1>2, <1>3

(* A host may call at any time, and its calls are handled at any time.     *)
LEMMA FreshHost ==
    ASSUME Fresh,
           UNCHANGED <<pc, registered, adv_registered, outbox, app, adv,
                       restarts>>,
           HostOnly(inbox) => HostOnly(inbox'),
           \A m : ~Host(m) /\ Single(inbox, m) => Single(inbox', m),
           \A m1, m2 : ~Host(m1) /\ ~Host(m2) /\ Double(inbox, m1, m2)
                         => Double(inbox', m1, m2)
    PROVE  Fresh'
<1>1. /\ AppWait => AppWait'
      /\ AdvWait => AdvWait'
      /\ Served => Served'
  <2>1. AppWait => AppWait'
    BY Others DEF AppWait, RegApp
  <2>2. AdvWait => AdvWait'
    BY Others DEF AdvWait, RegAdv
  <2>3. Served => Served'
    BY Others DEF Served
  <2>. QED
    BY <2>1, <2>2, <2>3
<1>2. FreshAt(pc) => FreshAt(pc)'
  BY <1>1 DEF FreshAt
<1>. QED
  BY <1>2 DEF Fresh

LEMMA FreshHandled == ASSUME TypeOK, Fresh, Handle PROVE Fresh'
<1>0. /\ inbox \in Seq(Message) /\ outbox \in Seq(Op)
      /\ registered \in BOOLEAN /\ adv_registered \in BOOLEAN
  BY DEF TypeOK, Op
<1>. USE DEF gattVars, bluezVars
<1>1. ASSUME NEW call, Take(call)
      PROVE  /\ \E n \in Nat : Removed(inbox, inbox', 1, n)
             /\ inbox[1].call = call /\ inbox[1] \in Message
             /\ Head(inbox) = inbox[1]
             /\ pc \in {"serving", "app_wait", "adv_wait", "unadv_wait",
                        "unapp_wait"}
  <2>1. pc = "serving" \/ pc \in DOMAIN Waits
    BY <1>1 DEF Take, Dispatching
  <2>2. inbox[1] \in Message
    BY <1>0, <1>1, TakesFirst
  <2>. QED
    BY <1>0, <1>1, <2>1, <2>2, TakesFirst, Ops
<1>2. CASE HandleCharacteristicRead \/ HandleCharacteristicWrite
           \/ HandleStartNotify \/ HandleStopNotify
  <2>1. \E call \in {"ReadValue", "WriteValue", "StartNotify", "StopNotify"} :
           Take(call)
    BY <1>2 DEF HandleCharacteristicRead, HandleCharacteristicWrite,
                HandleStartNotify, HandleStopNotify
  <2>2. Host(inbox[1]) /\ \E n \in Nat : Removed(inbox, inbox', 1, n)
    BY <1>1, <2>1 DEF Host
  <2>3. UNCHANGED <<pc, registered, adv_registered, outbox, app, adv,
                    restarts>>
    BY <1>2 DEF HandleCharacteristicRead, HandleCharacteristicWrite,
                HandleStartNotify, HandleStopNotify
  <2>4. /\ HostOnly(inbox) => HostOnly(inbox')
        /\ \A m : ~Host(m) /\ Single(inbox, m) => Single(inbox', m)
        /\ \A m1, m2 : ~Host(m1) /\ ~Host(m2) /\ Double(inbox, m1, m2)
                         => Double(inbox', m1, m2)
    BY <2>2, RemovedHost
  <2>. QED
    BY <2>3, <2>4, FreshHost
<1>3. ASSUME NEW call, Take(call), NEW n \in Nat,
             Removed(inbox, inbox', 1, n), ~Host(inbox[1])
      PROVE  /\ ~HostOnly(inbox)
             /\ \A m : Single(inbox, m) => inbox[1] = m /\ HostOnly(inbox')
             /\ \A m1, m2 : Double(inbox, m1, m2) /\ inbox[1] # m2
                              => inbox[1] = m1 /\ Single(inbox', m2)
             /\ \A m1, m2 : Double(inbox, m1, m2) /\ ~Host(m1)
                              => inbox[1] = m1
  BY <1>3, RemovedOther
<1>4. CASE HandleGetManagedObjects
  <2>1. /\ Take("GetManagedObjects") /\ outbox' = Append(outbox, "objects")
        /\ UNCHANGED <<pc, gattVars, bluezVars>>
    BY <1>4 DEF HandleGetManagedObjects
  <2>2. inbox[1] = AskedObjects /\ \E n \in Nat : Removed(inbox, inbox', 1, n)
    BY <1>1, <2>1, Kinds
  <2>3. /\ ~HostOnly(inbox)
        /\ \A m : Single(inbox, m) => AskedObjects = m /\ HostOnly(inbox')
        /\ \A m1, m2 : Double(inbox, m1, m2) /\ ~Host(m1)
                         => AskedObjects = m1
    BY <1>3, <2>1, <2>2, Others
  <2>4. AskedObjects \notin {RegApp(TRUE), RegApp(FALSE), AskedProps,
                             RegAdv(TRUE), RegAdv(FALSE), Released}
    BY Others DEF RegApp, RegAdv
  <2>5. ~Host(RegAdv(TRUE))
    BY Others DEF RegAdv
  <2>6. ~AdvWait /\ ~Served
    BY <2>3, <2>4, <2>5 DEF AdvWait, Served
  <2>7. AppWait => AppWait'
    <3>. SUFFICES ASSUME AppWait PROVE AppWait'
      OBVIOUS
    <3>1. outbox = << >> /\ Single(inbox, AskedObjects) /\ app = "listing"
      BY <2>3, <2>4 DEF AppWait
    <3>2. outbox' = <<"objects">> /\ HostOnly(inbox') /\ app' = "listing"
      BY <2>1, <2>3, <3>1, Ones
    <3>. QED
      BY <3>2 DEF AppWait
  <2>8. pc' # "start" /\ pc' = pc /\ restarts' = restarts /\ adv' = adv
    BY <1>1, <2>1
  <2>. QED
    BY <2>6, <2>7, <2>8 DEF Fresh, FreshAt
<1>5. CASE HandleGetAllProperties
  <2>1. /\ Take("GetAll") /\ outbox' = Append(outbox, "props")
        /\ UNCHANGED <<pc, gattVars, bluezVars>>
    BY <1>5 DEF HandleGetAllProperties
  <2>2. inbox[1] = AskedProps /\ \E n \in Nat : Removed(inbox, inbox', 1, n)
    BY <1>1, <2>1, Kinds
  <2>3. /\ ~HostOnly(inbox)
        /\ \A m : Single(inbox, m) => AskedProps = m /\ HostOnly(inbox')
        /\ \A m1, m2 : Double(inbox, m1, m2) /\ ~Host(m1)
                         => AskedProps = m1
    BY <1>3, <2>1, <2>2, Others
  <2>4. AskedProps \notin {RegApp(TRUE), RegApp(FALSE), AskedObjects,
                           RegAdv(TRUE), RegAdv(FALSE), Released}
    BY Others DEF RegApp, RegAdv
  <2>5. ~Host(RegAdv(TRUE))
    BY Others DEF RegAdv
  <2>6. ~AppWait /\ ~Served
    BY <2>3, <2>4, <2>5 DEF AppWait, Served
  <2>7. AdvWait => AdvWait'
    <3>. SUFFICES ASSUME AdvWait PROVE AdvWait'
      OBVIOUS
    <3>1. outbox = << >> /\ Single(inbox, AskedProps) /\ adv = "listing"
      BY <2>3, <2>4, <2>5 DEF AdvWait
    <3>2. outbox' = <<"props">> /\ HostOnly(inbox') /\ adv' = "listing"
      BY <2>1, <2>3, <3>1, Ones
    <3>. QED
      BY <3>2 DEF AdvWait
  <2>8. /\ pc' # "start" /\ pc' = pc /\ restarts' = restarts /\ app' = app
        /\ registered' = registered
    BY <1>1, <2>1
  <2>. QED
    BY <2>6, <2>7, <2>8 DEF Fresh, FreshAt
<1>6. CASE HandleAdvertisementRelease
  <2>1. /\ Take("Release") /\ adv_registered' = FALSE
        /\ UNCHANGED <<pc, registered, outbox, bluezVars>>
    BY <1>6 DEF HandleAdvertisementRelease
  <2>2. inbox[1] = Released /\ \E n \in Nat : Removed(inbox, inbox', 1, n)
    BY <1>1, <2>1, Kinds
  <2>3. /\ ~HostOnly(inbox)
        /\ \A m : Single(inbox, m) => Released = m /\ HostOnly(inbox')
        /\ \A m1, m2 : Double(inbox, m1, m2) /\ ~Host(m1) => Released = m1
    BY <1>3, <2>1, <2>2, Others
  <2>4. Released \notin {RegApp(TRUE), RegApp(FALSE), AskedProps,
                         AskedObjects, RegAdv(TRUE), RegAdv(FALSE)}
    BY Others DEF RegApp, RegAdv
  <2>5. ~Host(RegAdv(TRUE))
    BY Others DEF RegAdv
  <2>6. ~AppWait /\ ~AdvWait
    BY <2>3, <2>4, <2>5 DEF AppWait, AdvWait
  <2>7. Served => Served'
    <3>. SUFFICES ASSUME Served PROVE Served'
      OBVIOUS
    <3>1. Single(inbox, Released) /\ adv = "none"
      BY <2>3 DEF Served
    <3>2. HostOnly(inbox') /\ adv' = "none" /\ adv_registered' = FALSE
      BY <2>1, <2>3, <3>1
    <3>. QED
      BY <3>2 DEF Served
  <2>8. /\ pc' # "start" /\ pc' = pc /\ restarts' = restarts
        /\ UNCHANGED <<app, adv, registered, outbox>>
    BY <1>1, <2>1
  <2>. QED
    BY <2>6, <2>7, <2>8 DEF Fresh, FreshAt
<1>7. CASE DropLateReply
  <2>1. /\ Take("reply") /\ UNCHANGED <<pc, gattVars, outbox, bluezVars>>
        /\ pc \in DOMAIN Waits => inbox[1].to # Waits[pc]
    BY <1>1, <1>7 DEF DropLateReply
  <2>2. /\ inbox[1].call = "reply" /\ ~Host(inbox[1])
        /\ \E n \in Nat : Removed(inbox, inbox', 1, n)
    BY <1>1, <2>1 DEF Host
  <2>3. /\ ~HostOnly(inbox)
        /\ \A m : Single(inbox, m) => inbox[1] = m
        /\ \A m1, m2 : Double(inbox, m1, m2) /\ ~Host(m1) => inbox[1] = m1
    BY <1>3, <2>1, <2>2
  <2>4. /\ inbox[1] \notin {AskedObjects, AskedProps, Released}
        /\ pc = "app_wait" => inbox[1] \notin {RegApp(TRUE), RegApp(FALSE)}
        /\ pc = "adv_wait" => inbox[1] \notin {RegAdv(TRUE), RegAdv(FALSE)}
    <3>1. inbox[1] \notin {AskedObjects, AskedProps, Released}
      BY <2>2, Others
    <3>2. \A ok : /\ RegApp(ok).to = Waits["app_wait"]
                  /\ RegAdv(ok).to = Waits["adv_wait"]
      BY Others, Ops DEF RegApp, RegAdv
    <3>3. pc \in {"app_wait", "adv_wait"} => inbox[1].to # Waits[pc]
      BY <2>1, Ops
    <3>4. /\ pc = "app_wait" => inbox[1].to # Waits["app_wait"]
          /\ pc = "adv_wait" => inbox[1].to # Waits["adv_wait"]
      BY <3>3
    <3>. QED
      BY <3>1, <3>2, <3>4
  <2>5. ~Host(RegAdv(TRUE))
    BY Others DEF RegAdv
  <2>6. /\ pc = "app_wait" => ~AppWait
        /\ pc = "adv_wait" => ~AdvWait
        /\ ~Served
    <3>1. pc = "app_wait" => ~AppWait
      BY <2>3, <2>4 DEF AppWait
    <3>2. pc = "adv_wait" => ~AdvWait
      BY <2>3, <2>4, <2>5 DEF AdvWait
    <3>3. ~Served
      BY <2>3, <2>4 DEF Served
    <3>. QED
      BY <3>1, <3>2, <3>3
  <2>8. pc # "start" /\ pc' = pc /\ restarts' = restarts
    BY <1>1, <2>1
  <2>. QED
    BY <2>6, <2>8 DEF Fresh, FreshAt
<1>. QED
  BY <1>2, <1>4, <1>5, <1>6, <1>7 DEF Handle

LEMMA FreshBluez == ASSUME TypeOK, Fresh, Bluez PROVE Fresh'
<1>0. inbox \in Seq(Message) /\ outbox \in Seq(Op)
  BY DEF TypeOK, Op
<1>1. ASSUME NEW m, Receive(m)
      PROVE  /\ outbox # << >>
             /\ \A x : outbox = <<x>> => x = m /\ outbox' = << >>
             /\ UNCHANGED <<pc, registered, adv_registered, restarts>>
  BY <1>1, Ones DEF Receive, gattVars
<1>2. ASSUME NEW x \in Message, Send(x)
      PROVE  /\ HostOnly(inbox) => Single(inbox', x)
             /\ \A m : Single(inbox, m) => Double(inbox', m, x)
  BY <1>0, <1>2, Sends, AddedOther
<1>3. ASSUME NEW m, Receive(m), restarts = 0
      PROVE  /\ pc # "start" /\ pc # "serving"
             /\ pc = "app_wait" =>
                   \/ m = "RegisterApplication" /\ HostOnly(inbox)
                      /\ app = "none" /\ outbox' = << >>
                   \/ m = "objects" /\ HostOnly(inbox)
                      /\ app = "listing" /\ outbox' = << >>
             /\ pc = "adv_wait" =>
                   \/ m = "RegisterAdvertisement" /\ HostOnly(inbox)
                      /\ adv = "none" /\ outbox' = << >>
                   \/ m = "props" /\ HostOnly(inbox)
                      /\ adv = "listing" /\ outbox' = << >>
  <2>1. FreshAt(pc)
    BY <1>3 DEF Fresh
  <2>2. pc # "start" /\ pc # "serving"
    BY <1>1, <1>3, <2>1 DEF FreshAt
  <2>5. /\ outbox # << >>
        /\ outbox = <<"RegisterApplication">>
              => m = "RegisterApplication" /\ outbox' = << >>
        /\ outbox = <<"objects">> => m = "objects" /\ outbox' = << >>
        /\ outbox = <<"RegisterAdvertisement">>
              => m = "RegisterAdvertisement" /\ outbox' = << >>
        /\ outbox = <<"props">> => m = "props" /\ outbox' = << >>
    BY <1>1, <1>3
  <2>3. AppWait => \/ m = "RegisterApplication" /\ HostOnly(inbox)
                      /\ app = "none" /\ outbox' = << >>
                   \/ m = "objects" /\ HostOnly(inbox)
                      /\ app = "listing" /\ outbox' = << >>
    BY <2>5 DEF AppWait
  <2>4. AdvWait => \/ m = "RegisterAdvertisement" /\ HostOnly(inbox)
                      /\ adv = "none" /\ outbox' = << >>
                   \/ m = "props" /\ HostOnly(inbox)
                      /\ adv = "listing" /\ outbox' = << >>
    BY <2>5 DEF AdvWait
  <2>. QED
    BY <2>1, <2>2, <2>3, <2>4 DEF FreshAt
<1>4. /\ RegApp(TRUE) \in Message /\ RegApp(FALSE) \in Message
      /\ RegAdv(TRUE) \in Message /\ RegAdv(FALSE) \in Message
      /\ AskedObjects \in Message /\ AskedProps \in Message
  BY Sendable, Ops DEF RegApp, RegAdv
<1>. SUFFICES ASSUME restarts' = 0 PROVE FreshAt(pc)'
  BY DEF Fresh
<1>5. CASE BluezRegistersApplication
  <2>1. UNCHANGED <<pc, registered, adv_registered, restarts>>
        /\ UNCHANGED adv
    BY <1>1, <1>5 DEF BluezRegistersApplication
  <2>2. FreshAt(pc) /\ restarts = 0
    BY <2>1 DEF Fresh
  <2>3. Receive("RegisterApplication") \/ Receive("objects")
    BY <1>5 DEF BluezRegistersApplication
  <2>4. pc # "start" /\ pc # "serving" /\ pc # "adv_wait"
    BY <1>3, <2>2, <2>3
  <2>5. ASSUME pc = "app_wait" PROVE AppWait'
    <3>1. /\ HostOnly(inbox) /\ outbox' = << >>
          /\ Receive("objects") => app = "listing"
      BY <1>3, <2>2, <2>3, <2>5
    <3>2. \/ app' = "listing" /\ Send(AskedObjects)
          \/ app' = "known" /\ Send(RegApp(TRUE))
          \/ app' = "none" /\ Send(RegApp(FALSE))
      BY <1>5, <3>1 DEF BluezRegistersApplication, AskedObjects, RegApp
    <3>3. CASE app' = "listing" /\ Send(AskedObjects)
      BY <1>2, <1>4, <3>1, <3>3 DEF AppWait
    <3>4. CASE app' = "known" /\ Send(RegApp(TRUE))
      BY <1>2, <1>4, <3>1, <3>4 DEF AppWait
    <3>5. CASE app' = "none" /\ Send(RegApp(FALSE))
      BY <1>2, <1>4, <3>1, <3>5 DEF AppWait
    <3>. QED
      BY <3>2, <3>3, <3>4, <3>5
  <2>. QED
    BY <2>1, <2>2, <2>4, <2>5 DEF FreshAt
<1>6. CASE BluezRegistersAdvertisement
  <2>1. UNCHANGED <<pc, registered, adv_registered, restarts>>
        /\ UNCHANGED app
    BY <1>1, <1>6 DEF BluezRegistersAdvertisement
  <2>2. FreshAt(pc) /\ restarts = 0
    BY <2>1 DEF Fresh
  <2>3. Receive("RegisterAdvertisement") \/ Receive("props")
    BY <1>6 DEF BluezRegistersAdvertisement
  <2>4. pc # "start" /\ pc # "serving" /\ pc # "app_wait"
    BY <1>3, <2>2, <2>3
  <2>5. ASSUME pc = "adv_wait" PROVE AdvWait'
    <3>1. /\ HostOnly(inbox) /\ outbox' = << >>
          /\ Receive("props") => adv = "listing"
      BY <1>3, <2>2, <2>3, <2>5
    <3>2. \/ adv' = "listing" /\ Send(AskedProps)
          \/ adv' = "known" /\ Send(RegAdv(TRUE))
          \/ adv' = "none" /\ Send(RegAdv(FALSE))
      BY <1>6, <3>1 DEF BluezRegistersAdvertisement, AskedProps, RegAdv
    <3>3. CASE adv' = "listing" /\ Send(AskedProps)
      BY <1>2, <1>4, <3>1, <3>3 DEF AdvWait
    <3>4. CASE adv' = "known" /\ Send(RegAdv(TRUE))
      BY <1>2, <1>4, <3>1, <3>4 DEF AdvWait
    <3>5. CASE adv' = "none" /\ Send(RegAdv(FALSE))
      BY <1>2, <1>4, <3>1, <3>5 DEF AdvWait
    <3>. QED
      BY <3>2, <3>3, <3>4, <3>5
  <2>. QED
    BY <2>1, <2>2, <2>4, <2>5 DEF FreshAt
<1>7. CASE BluezUnregisters
  <2>1. Receive("UnregisterAdvertisement") \/ Receive("UnregisterApplication")
    BY <1>7 DEF BluezUnregisters
  <2>2. pc' = pc /\ restarts = 0
    BY <1>1, <2>1
  <2>3. pc \notin {"start", "app_wait", "adv_wait", "serving"}
    BY <1>3, <2>1, <2>2
  <2>. QED
    BY <2>2, <2>3 DEF FreshAt
<1>. QED
  BY <1>5, <1>6, <1>7 DEF Bluez

LEMMA FreshMain == ASSUME TypeOK, Fresh, Main PROVE Fresh'
<1>0. inbox \in Seq(Message)
  BY DEF TypeOK
<1>. USE DEF gattVars, bluezVars
<1>. SUFFICES ASSUME restarts' = 0,
                     pc' \in {"start", "app_wait", "adv_wait", "serving"}
              PROVE  FreshAt(pc)'
  BY DEF Fresh, FreshAt
<1>1. ASSUME TakeReply(TRUE)
      PROVE  \E k, n : /\ Removed(inbox, inbox', k, n)
                       /\ inbox[k] = Reply(Waits[pc], TRUE)
  BY <1>0, <1>1, TakesReply
<1>2. CASE Start
  <2>1. pc = "start" /\ pc' = "app_wait" /\ restarts = 0
        /\ outbox' = Append(outbox, "RegisterApplication")
        /\ UNCHANGED <<inbox, app, adv>>
    BY <1>2, Ops DEF Start, Call
  <2>2. /\ outbox = << >> /\ HostOnly(inbox)
        /\ app = "none" /\ adv = "none"
    BY <2>1 DEF Fresh, FreshAt
  <2>3. outbox' = <<"RegisterApplication">>
    BY <2>1, <2>2, Ones
  <2>. QED
    BY <2>1, <2>2, <2>3 DEF FreshAt, AppWait
<1>3. CASE RegisterApplicationReturns
  <2>1. /\ pc = "app_wait" /\ pc' = "adv_wait" /\ restarts = 0
        /\ outbox' = Append(outbox, "RegisterAdvertisement")
        /\ TakeReply(TRUE) /\ registered' = TRUE /\ UNCHANGED <<app, adv>>
    BY <1>3, Ops DEF RegisterApplicationReturns, Call
  <2>2. AppWait /\ adv = "none"
    BY <2>1 DEF Fresh, FreshAt
  <2>3. PICK k, n : /\ Removed(inbox, inbox', k, n)
                    /\ inbox[k] = RegApp(TRUE)
    BY <1>1, <2>1, Ops DEF RegApp
  <2>4. ~Host(inbox[k])
    <3>1. ~Host(RegApp(TRUE))
      BY Others DEF RegApp
    <3>. QED
      BY <2>3, <3>1
  <2>5. /\ ~HostOnly(inbox)
        /\ \A m : Single(inbox, m) => inbox[k] = m /\ HostOnly(inbox')
    BY <2>3, <2>4, RemovedOther
  <2>6. RegApp(TRUE) # AskedObjects /\ RegApp(TRUE) # RegApp(FALSE)
    <3>1. RegApp(TRUE).call = "reply"
      BY Others DEF RegApp
    <3>. QED
      BY <3>1, Others DEF RegApp
  <2>7. outbox = << >> /\ app = "known" /\ HostOnly(inbox')
    BY <2>2, <2>3, <2>5, <2>6 DEF AppWait
  <2>8. outbox' = <<"RegisterAdvertisement">>
    BY <2>1, <2>7, Ones
  <2>9. AdvWait'
    BY <2>1, <2>2, <2>7, <2>8 DEF AdvWait
  <2>. QED
    BY <2>1, <2>7, <2>9 DEF FreshAt
<1>4. CASE RegisterAdvertisementReturns
  <2>1. /\ pc = "adv_wait" /\ pc' = "serving" /\ restarts = 0
        /\ TakeReply(TRUE) /\ adv_registered' = TRUE
        /\ UNCHANGED <<outbox, registered, app, adv>>
    BY <1>4 DEF RegisterAdvertisementReturns
  <2>2. AdvWait /\ app = "known" /\ registered = TRUE
    BY <2>1 DEF Fresh, FreshAt
  <2>3. PICK k, n : /\ Removed(inbox, inbox', k, n)
                    /\ inbox[k] = RegAdv(TRUE)
    BY <1>1, <2>1, Ops DEF RegAdv
  <2>4. ~Host(inbox[k])
    <3>1. ~Host(RegAdv(TRUE))
      BY Others DEF RegAdv
    <3>. QED
      BY <2>3, <3>1
  <2>5. /\ ~HostOnly(inbox)
        /\ \A m : Single(inbox, m) => inbox[k] = m /\ HostOnly(inbox')
        /\ \A m1, m2 : Double(inbox, m1, m2) /\ inbox[k] # m2
                         => inbox[k] = m1 /\ Single(inbox', m2)
    BY <2>3, <2>4, RemovedOther
  <2>6. /\ RegAdv(TRUE) # AskedProps /\ RegAdv(TRUE) # Released
        /\ RegAdv(TRUE) # RegAdv(FALSE)
    <3>1. RegAdv(TRUE).call = "reply"
      BY Others DEF RegAdv
    <3>. QED
      BY <3>1, Others DEF RegAdv
  <2>7. /\ outbox = << >>
        /\ \/ HostOnly(inbox') /\ adv = "known"
           \/ Single(inbox', Released) /\ adv = "none"
    BY <2>2, <2>3, <2>5, <2>6 DEF AdvWait
  <2>8. Served'
    BY <2>1, <2>7 DEF Served
  <2>. QED
    BY <2>1, <2>2, <2>7, <2>8 DEF FreshAt
<1>5. CASE UnregisterAdvertisement \/ UnregisterAdvertisementReturns
           \/ UnregisterApplication \/ UnregisterApplicationReturns
  BY <1>5 DEF UnregisterAdvertisement, UnregisterAdvertisementReturns,
              UnregisterApplication, UnregisterApplicationReturns, Call
<1>. QED
  BY <1>2, <1>3, <1>4, <1>5 DEF Main

LEMMA FreshStep == TypeOK /\ Fresh /\ [Next]_vars => Fresh'
<1>. SUFFICES ASSUME TypeOK, Fresh, [Next]_vars PROVE Fresh'
  OBVIOUS
<1>0. inbox \in Seq(Message) /\ restarts \in Nat
  BY DEF TypeOK
<1>. USE DEF gattVars, bluezVars
<1>1. CASE Main
  BY <1>1, FreshMain
<1>2. CASE Handle
  BY <1>2, FreshHandled
<1>3. CASE Bluez
  BY <1>3, FreshBluez
<1>4. CASE EndLoop
  BY <1>4 DEF EndLoop, Fresh, FreshAt
<1>5. CASE UNCHANGED vars \/ \E report \in Reports : StoreReport(report)
  <2>1. UNCHANGED <<pc, registered, adv_registered, inbox, outbox, app, adv,
                    restarts>>
    BY <1>5 DEF vars, StoreReport
  <2>. QED
    BY <2>1, FreshHost
<1>6. CASE \/ HostSubscribes \/ HostUnsubscribes
           \/ \E mode \in Modes : HostWritesMode(mode)
           \/ HostReadsMode
  <2>1. UNCHANGED <<pc, registered, adv_registered, outbox, app, adv,
                    restarts>>
    BY <1>6 DEF HostSubscribes, HostUnsubscribes, HostWritesMode,
                HostReadsMode
  <2>2. \E x \in Message : Host(x) /\ Send(x)
    <3>1. CASE HostSubscribes \/ HostUnsubscribes
      BY <3>1, Sendable DEF HostSubscribes, HostUnsubscribes, Host
    <3>2. CASE \E mode \in Modes : HostWritesMode(mode)
      <4>1. PICK mode \in Modes : HostWritesMode(mode)
        BY <3>2
      <4>. DEFINE x == [call |-> "WriteValue", path |-> "CHAR3",
                        value |-> mode]
      <4>2. x \in Message /\ x.call = "WriteValue"
        BY Sendable
      <4>3. Send(x)
        BY <4>1 DEF HostWritesMode
      <4>. QED
        BY <4>2, <4>3 DEF Host
    <3>3. CASE HostReadsMode
      <4>. DEFINE x == [call |-> "ReadValue", path |-> "CHAR3",
                        expect |-> wrote]
      <4>1. x \in Message /\ x.call = "ReadValue"
        BY Sendable DEF TypeOK
      <4>2. Send(x)
        BY <3>3 DEF HostReadsMode
      <4>. QED
        BY <4>1, <4>2 DEF Host
    <3>. QED
      BY <1>6, <3>1, <3>2, <3>3
  <2>3. PICK x \in Message : Host(x) /\ \E n : Added(inbox, inbox', x, n)
    BY <1>0, <2>2, Sends
  <2>4. /\ HostOnly(inbox) => HostOnly(inbox')
        /\ \A m : Single(inbox, m) => Single(inbox', m)
        /\ \A m1, m2 : Double(inbox, m1, m2) => Double(inbox', m1, m2)
    BY <2>3, AddedHost
  <2>. QED
    BY <2>1, <2>4, FreshHost
<1>7. CASE BluezReleasesAdvertisement
  <2>1. /\ adv = "known" /\ adv' = "none" /\ Send(Released)
        /\ UNCHANGED <<pc, registered, adv_registered, outbox, app, restarts>>
    BY <1>7 DEF BluezReleasesAdvertisement, Released
  <2>2. /\ HostOnly(inbox) => Single(inbox', Released)
        /\ \A m : Single(inbox, m) => Double(inbox', m, Released)
    BY <1>0, <2>1, Sends, Sendable, AddedOther
  <2>3. AdvWait => AdvWait'
    BY <2>1, <2>2 DEF AdvWait
  <2>4. Served => Served'
    BY <2>1, <2>2 DEF Served
  <2>. QED
    BY <2>1, <2>3, <2>4 DEF Fresh, FreshAt
<1>8. CASE BluezRestarts
  <2>1. restarts' # 0
    BY <1>0, <1>8 DEF BluezRestarts
  <2>. QED
    BY <2>1 DEF Fresh
<1>. QED
  BY <1>1, <1>2, <1>3, <1>4, <1>5, <1>6, <1>7, <1>8 DEF Next

(* As long as bluetoothd has not been restarted, the daemon serves only    *)
(* what BlueZ has: the application, and the advertisement unless its       *)
(* Release is on its way or was handled.                                   *)
THEOREM ServesWhatIsKnown == Spec => []KnownWhileServing
<1>1. Fresh => KnownWhileServing
  <2>. SUFFICES ASSUME Fresh, restarts = 0, pc = "serving"
                PROVE  /\ registered /\ app = "known"
                       /\ adv_registered <=> (adv = "known"
                                              \/ Pending("Release"))
    BY DEF KnownWhileServing
  <2>1. Served /\ registered = TRUE /\ app = "known"
    BY DEF Fresh, FreshAt
  <2>2. HostOnly(inbox) => ~Pending("Release")
    BY DEF HostOnly, Host, Pending
  <2>3. Single(inbox, Released) => Pending("Release")
    BY DEF Single, Released, Pending
  <2>. QED
    BY <2>1, <2>2, <2>3 DEF Served
<1>. QED
  BY <1>1, TypeInit, TypeStep, FreshInit, FreshStep, PTL DEF Spec

-----------------------------------------------------------------------------
(* Notifications: until a restart and while the application is registered, *)
(* notify_enabled_ will be what BlueZ has when the calls that are on their *)
(* way have been handled.                                                  *)
Note == [m \in Notes |-> m.call = "StartNotify"]
Serves(at) == at \in {"start", "app_wait", "adv_wait", "serving"}
NotifySeen ==
    restarts = 0 /\ Serves(pc) =>
        AtEnd(inbox, Notes, Note, notify_enabled, subscribed)

LEMMA NotifyInit == Init => NotifySeen
<1>. SUFFICES ASSUME Init PROVE NotifySeen
  OBVIOUS
<1>1. notify_enabled = subscribed
  BY DEF Init
<1>2. DOMAIN inbox = {}
  BY DEF Init
<1>. QED
  BY <1>1, <1>2 DEF NotifySeen, AtEnd

LEMMA NotifyStep ==
    TypeOK /\ Fresh /\ NotifySeen /\ [Next]_vars => NotifySeen'
<1>. SUFFICES ASSUME TypeOK, Fresh, NotifySeen, [Next]_vars,
                     restarts' = 0, Serves(pc')
              PROVE  AtEnd(inbox', Notes, Note, notify_enabled', subscribed')
  BY DEF NotifySeen, Notes, Note
<1>0. inbox \in Seq(Message) /\ outbox \in Seq(Op) /\ restarts \in Nat
  BY DEF TypeOK, Op
<1>. DEFINE L == AtEnd(inbox, Notes, Note, notify_enabled, subscribed)
<1>. USE DEF gattVars, bluezVars
<1>1. restarts = 0 /\ ~BluezRestarts
  <2>1. ~BluezRestarts
    <3>. SUFFICES ASSUME BluezRestarts PROVE FALSE
      OBVIOUS
    <3>1. restarts' = restarts + 1
      BY DEF BluezRestarts
    <3>. QED
      BY <1>0, <3>1
  <2>2. restarts' = restarts
    <3>1. Main => restarts' = restarts
      BY DEF Main, Start, RegisterApplicationReturns,
             RegisterAdvertisementReturns, UnregisterAdvertisement,
             UnregisterAdvertisementReturns, UnregisterApplication,
             UnregisterApplicationReturns
    <3>2. Handle => restarts' = restarts
      BY DEF Handle, HandleGetManagedObjects, HandleGetAllProperties,
             HandleCharacteristicRead, HandleCharacteristicWrite,
             HandleStartNotify, HandleStopNotify,
             HandleAdvertisementRelease, DropLateReply
    <3>3. Bluez => restarts' = restarts
      BY DEF Bluez, BluezRegistersApplication, BluezRegistersAdvertisement,
             BluezUnregisters, Receive
    <3>. QED
      BY <2>1, <3>1, <3>2, <3>3
         DEF Next, vars, EndLoop, StoreReport, HostSubscribes,
             HostUnsubscribes, HostWritesMode, HostReadsMode,
             BluezReleasesAdvertisement
  <2>. QED
    BY <2>1, <2>2
<1>2. ASSUME Serves(pc), UNCHANGED <<inbox, notify_enabled, subscribed>>
      PROVE  AtEnd(inbox', Notes, Note, notify_enabled', subscribed')
  BY <1>1, <1>2 DEF NotifySeen
<1>3. ASSUME Serves(pc), NEW x \in Message, Send(x), x \notin Notes,
             UNCHANGED <<notify_enabled, subscribed>>
      PROVE  AtEnd(inbox', Notes, Note, notify_enabled', subscribed')
  <2>1. L
    BY <1>1, <1>3 DEF NotifySeen
  <2>2. \E n : Added(inbox, inbox', x, n)
    BY <1>0, <1>3, Sends
  <2>. QED
    BY <1>3, <2>1, <2>2, AddedLast
<1>4. ASSUME Serves(pc), NEW k, NEW n, Removed(inbox, inbox', k, n),
             inbox[k] \notin Notes, UNCHANGED <<notify_enabled, subscribed>>
      PROVE  AtEnd(inbox', Notes, Note, notify_enabled', subscribed')
  <2>1. L
    BY <1>1, <1>4 DEF NotifySeen
  <2>. QED
    BY <1>4, <2>1, RemovedLast
<1>5. CASE Main
  <2>1. Serves(pc) /\ UNCHANGED <<notify_enabled, subscribed>>
    BY <1>5 DEF Serves, Main, Start, RegisterApplicationReturns, Call,
                RegisterAdvertisementReturns, UnregisterAdvertisement,
                UnregisterAdvertisementReturns, UnregisterApplication,
                UnregisterApplicationReturns
  <2>2. inbox' = inbox \/ \E ok : TakeReply(ok)
    BY <1>5 DEF Main, Start, RegisterApplicationReturns, GiveUp,
                RegisterAdvertisementReturns, UnregisterAdvertisement,
                UnregisterAdvertisementReturns, UnregisterApplication,
                UnregisterApplicationReturns
  <2>3. ASSUME NEW ok, TakeReply(ok)
        PROVE  AtEnd(inbox', Notes, Note, notify_enabled', subscribed')
    <3>1. PICK k, n : /\ inbox[k] = Reply(Waits[pc], ok)
                      /\ Removed(inbox, inbox', k, n)
      BY <1>0, <2>3, TakesReply
    <3>2. inbox[k] \notin Notes
      BY <3>1 DEF Reply, Notes
    <3>. QED
      BY <1>4, <2>1, <3>1, <3>2
  <2>. QED
    BY <1>2, <2>1, <2>2, <2>3
<1>6. CASE Handle
  <2>1. pc' = pc /\ subscribed' = subscribed
    BY <1>6 DEF Handle, HandleGetManagedObjects, HandleGetAllProperties,
                HandleCharacteristicRead, HandleCharacteristicWrite,
                HandleStartNotify, HandleStopNotify,
                HandleAdvertisementRelease, DropLateReply
  <2>2. L /\ Serves(pc)
    BY <1>1, <2>1 DEF NotifySeen
  <2>3. ASSUME NEW call, Take(call),
               \/ call = "StartNotify" /\ notify_enabled' = TRUE
               \/ call = "StopNotify" /\ notify_enabled' = FALSE
        PROVE  AtEnd(inbox', Notes, Note, notify_enabled', subscribed')
    <3>1. inbox[1].call = call /\ inbox[1] \in Message
      BY <1>0, <2>3, TakesFirst
    <3>2. PICK n : Removed(inbox, inbox', 1, n)
      BY <1>0, <2>3, TakesFirst
    <3>3. inbox[1] \in Notes
      BY <2>3, <3>1, Kinds
    <3>4. Note[inbox[1]] = notify_enabled'
      <4>1. Note[inbox[1]] = (inbox[1].call = "StartNotify")
        BY <3>3 DEF Note
      <4>2. CASE call = "StartNotify" /\ notify_enabled' = TRUE
        BY <3>1, <4>1, <4>2
      <4>3. CASE call = "StopNotify" /\ notify_enabled' = FALSE
        BY <3>1, <4>1, <4>3
      <4>. QED
        BY <2>3, <4>2, <4>3
    <3>. QED
      BY <2>1, <2>2, <3>2, <3>3, <3>4, HandledLast
  <2>4. CASE HandleStartNotify \/ HandleStopNotify
    <3>1. CASE HandleStartNotify
      <4>1. Take("StartNotify") /\ notify_enabled' = TRUE
        BY <3>1 DEF HandleStartNotify
      <4>. QED
        BY <2>3, <4>1
    <3>2. CASE HandleStopNotify
      <4>1. Take("StopNotify") /\ notify_enabled' = FALSE
        BY <3>2 DEF HandleStopNotify
      <4>. QED
        BY <2>3, <4>1
    <3>. QED
      BY <2>4, <3>1, <3>2
  <2>5. CASE ~(HandleStartNotify \/ HandleStopNotify)
    <3>1. /\ \E call : Take(call) /\ call \notin {"StartNotify", "StopNotify"}
          /\ notify_enabled' = notify_enabled
      BY <1>6, <2>5
         DEF Handle, HandleGetManagedObjects, HandleGetAllProperties,
             HandleCharacteristicRead, HandleCharacteristicWrite,
             HandleAdvertisementRelease, DropLateReply
    <3>2. PICK call : Take(call) /\ call \notin {"StartNotify", "StopNotify"}
      BY <3>1
    <3>3. inbox[1].call = call /\ inbox[1] \in Message
      BY <1>0, <3>2, TakesFirst
    <3>4. PICK n : Removed(inbox, inbox', 1, n)
      BY <1>0, <3>2, TakesFirst
    <3>5. inbox[1] \notin Notes
      BY <3>2, <3>3, Kinds
    <3>. QED
      BY <1>4, <2>1, <2>2, <3>1, <3>4, <3>5
  <2>. QED
    BY <2>4, <2>5
<1>7. CASE Bluez
  <2>1. pc' = pc /\ notify_enabled' = notify_enabled
    BY <1>7 DEF Bluez, BluezRegistersApplication, Receive,
                BluezRegistersAdvertisement, BluezUnregisters
  <2>2. ~Receive("UnregisterApplication")
    <3>1. FreshAt(pc) /\ Serves(pc)
      BY <1>1, <2>1 DEF Fresh
    <3>2. \/ outbox = << >>
          \/ \E x \in {"RegisterApplication", "objects",
                       "RegisterAdvertisement", "props"} : outbox = <<x>>
      BY <3>1 DEF FreshAt, Serves, AppWait, AdvWait
    <3>. QED
      BY <3>2, Ones DEF Receive
  <2>3. subscribed' = subscribed
    BY <1>7, <2>2 DEF Bluez, BluezRegistersApplication,
                      BluezRegistersAdvertisement, BluezUnregisters
  <2>. DEFINE Plain(x) == x \in Message /\ x \notin Notes
  <2>4. /\ \A w \in DOMAIN Waits, ok \in BOOLEAN : Plain(Reply(Waits[w], ok))
        /\ Plain(AskedObjects) /\ Plain(AskedProps)
    BY Sendable DEF Notes, Reply, AskedObjects, AskedProps
  <2>. HIDE DEF Plain
  <2>5. inbox' = inbox \/ \E x : Send(x) /\ Plain(x)
    <3>1. CASE BluezRegistersApplication
      BY <2>4, <3>1, Ops DEF BluezRegistersApplication, AskedObjects
    <3>2. CASE BluezRegistersAdvertisement
      BY <2>4, <3>2, Ops DEF BluezRegistersAdvertisement, AskedProps
    <3>3. CASE BluezUnregisters
      <4>1. (adv = "known") \in BOOLEAN /\ (app = "known") \in BOOLEAN
        OBVIOUS
      <4>. QED
        BY <2>4, <3>3, <4>1, Ops DEF BluezUnregisters
    <3>. QED
      BY <1>7, <3>1, <3>2, <3>3 DEF Bluez
  <2>. QED
    BY <1>2, <1>3, <2>1, <2>3, <2>5 DEF Plain
<1>8. ASSUME NEW x, x \in Message, x \in Notes, Send(x),
             subscribed' = (x.call = "StartNotify"),
             UNCHANGED <<pc, notify_enabled>>
      PROVE  AtEnd(inbox', Notes, Note, notify_enabled', subscribed')
  <2>1. L
    BY <1>1, <1>8 DEF NotifySeen
  <2>2. \E n : Added(inbox, inbox', x, n)
    BY <1>0, <1>8, Sends
  <2>3. Note[x] = subscribed'
    BY <1>8 DEF Note
  <2>. QED
    BY <1>8, <2>1, <2>2, <2>3, AddedLast
<1>9. CASE HostSubscribes
  <2>. DEFINE x == [call |-> "StartNotify"]
  <2>1. x \in Message /\ x \in Notes /\ (x.call = "StartNotify") = TRUE
    BY Sendable
  <2>2. Send(x) /\ subscribed' = TRUE /\ UNCHANGED <<pc, notify_enabled>>
    BY <1>9 DEF HostSubscribes
  <2>. HIDE DEF x
  <2>. QED
    BY <1>8, <2>1, <2>2
<1>10. CASE HostUnsubscribes
  <2>. DEFINE x == [call |-> "StopNotify"]
  <2>1. x \in Message /\ x \in Notes /\ (x.call = "StartNotify") = FALSE
    BY Sendable
  <2>2. Send(x) /\ subscribed' = FALSE /\ UNCHANGED <<pc, notify_enabled>>
    BY <1>10 DEF HostUnsubscribes
  <2>. HIDE DEF x
  <2>. QED
    BY <1>8, <2>1, <2>2
<1>11. ASSUME NEW mode \in Modes, HostWritesMode(mode)
       PROVE  AtEnd(inbox', Notes, Note, notify_enabled', subscribed')
  <2>. DEFINE x == [call |-> "WriteValue", path |-> "CHAR3", value |-> mode]
  <2>1. x \in Message /\ x \notin Notes
    BY Sendable DEF Notes
  <2>2. Send(x) /\ UNCHANGED <<pc, notify_enabled, subscribed>>
    BY <1>11 DEF HostWritesMode
  <2>. HIDE DEF x
  <2>. QED
    BY <1>3, <2>1, <2>2
<1>12. CASE HostReadsMode
  <2>. DEFINE x == [call |-> "ReadValue", path |-> "CHAR3", expect |-> wrote]
  <2>1. x \in Message /\ x \notin Notes
    BY Sendable DEF Notes, TypeOK
  <2>2. Send(x) /\ UNCHANGED <<pc, notify_enabled, subscribed>>
    BY <1>12 DEF HostReadsMode
  <2>. HIDE DEF x
  <2>. QED
    BY <1>3, <2>1, <2>2
<1>13. CASE BluezReleasesAdvertisement
  <2>1. Released \in Message /\ Released \notin Notes
    BY Sendable DEF Notes, Released
  <2>2. Send(Released) /\ UNCHANGED <<pc, notify_enabled, subscribed>>
    BY <1>13 DEF BluezReleasesAdvertisement, Released
  <2>. QED
    BY <1>3, <2>1, <2>2
<1>14. CASE EndLoop
  BY <1>14 DEF EndLoop, Serves
<1>15. CASE UNCHANGED vars \/ \E report \in Reports : StoreReport(report)
  <2>1. UNCHANGED <<pc, inbox, notify_enabled, subscribed>>
    BY <1>15 DEF vars, StoreReport
  <2>. QED
    BY <1>2, <2>1
<1>. QED
  BY <1>1, <1>5, <1>6, <1>7, <1>9, <1>10, <1>11, <1>12, <1>13, <1>14, <1>15
     DEF Next

(* isConnected() answers notify_enabled_: once no StartNotify or StopNotify*)
(* is on its way, that is whether a host is subscribed.                    *)
THEOREM ConnectedIsSubscribed == Spec => []NotifyFollows
<1>1. TypeOK /\ NotifySeen => NotifyFollows
  <2>. SUFFICES ASSUME TypeOK, NotifySeen, restarts = 0, pc = "serving",
                       ~Pending("StartNotify"), ~Pending("StopNotify")
                PROVE  notify_enabled = subscribed
    BY DEF NotifyFollows
  <2>1. AtEnd(inbox, Notes, Note, notify_enabled, subscribed)
    BY DEF NotifySeen, Serves
  <2>2. \A i \in DOMAIN inbox : inbox[i] \notin Notes
    BY DEF Pending, Notes
  <2>. QED
    BY <2>1, <2>2 DEF AtEnd
<1>. QED
  BY <1>1, TypeInit, TypeStep, FreshInit, FreshStep, NotifyInit, NotifyStep,
     PTL DEF Spec

-----------------------------------------------------------------------------
(* What is left in BlueZ when the daemon has stopped: what each queue      *)
(* holds, at any time and after any number of restarts of bluetoothd.      *)
Has(s, x) == \E i \in DOMAIN s : s[i] = x
Once(s, x) == \A i, j \in DOMAIN s : s[i] = x /\ s[j] = x => i = j

(* Before either registration was tried, and before the second was.        *)
NoApp == /\ outbox = << >> /\ app = "none"
         /\ ~Has(inbox, AskedObjects)
         /\ ~Has(inbox, RegApp(TRUE)) /\ ~Has(inbox, RegApp(FALSE))
NoAdv == /\ registered = FALSE /\ adv_registered = FALSE /\ adv = "none"
         /\ ~Has(outbox, "RegisterAdvertisement") /\ ~Has(outbox, "props")
         /\ ~Has(inbox, AskedProps) /\ ~Has(inbox, Released)
         /\ ~Has(inbox, RegAdv(TRUE)) /\ ~Has(inbox, RegAdv(FALSE))
Untried == /\ pc = "start" => NoApp
           /\ pc \in {"start", "app_wait"} => NoAdv

(* While a registration is on its way nothing of it is anywhere else, and  *)
(* what was refused or dropped is not there.                               *)
AppAsked ==
    /\ Once(outbox, "RegisterApplication")
    /\ Has(outbox, "RegisterApplication") =>
          /\ app = "none" /\ registered = FALSE
          /\ ~Has(outbox, "objects") /\ ~Has(inbox, AskedObjects)
          /\ ~Has(inbox, RegApp(TRUE)) /\ ~Has(inbox, RegApp(FALSE))
    /\ Has(inbox, RegApp(FALSE)) => app = "none"
AdvAsked ==
    /\ Once(outbox, "RegisterAdvertisement")
    /\ Has(outbox, "RegisterAdvertisement") =>
          /\ adv = "none" /\ adv_registered = FALSE
          /\ ~Has(outbox, "props") /\ ~Has(inbox, AskedProps)
          /\ ~Has(inbox, RegAdv(TRUE)) /\ ~Has(inbox, RegAdv(FALSE))
          /\ ~Has(inbox, Released)
    /\ Has(inbox, RegAdv(FALSE)) \/ Has(inbox, Released) => adv = "none"

(* What the daemon does not believe in is not there, or it is being undone.*)
AppGone == /\ ~Has(outbox, "RegisterApplication")
           /\ app = "none" \/ Has(outbox, "UnregisterApplication")
AdvGone == /\ ~Has(outbox, "RegisterAdvertisement")
           /\ adv = "none" \/ Has(outbox, "UnregisterAdvertisement")
Undone ==
    /\ abandoned = FALSE /\ (pc = "unapp_wait" \/ (registered = FALSE
                                                   /\ pc # "app_wait"))
         => AppGone
    /\ abandoned = FALSE /\ (pc = "unadv_wait" \/ (adv_registered = FALSE
                                                   /\ pc # "adv_wait"))
         => AdvGone
Forgotten ==
    /\ pc \in {"stop_app", "unapp_wait", "stopped"} => adv_registered = FALSE
    /\ pc = "stopped" => registered = FALSE

Ask == Untried /\ AppAsked /\ AdvAsked /\ Undone /\ Forgotten

LEMMA AskInit == Init => Ask
<1>. SUFFICES ASSUME Init PROVE Ask
  OBVIOUS
<1>1. /\ \A x : ~Has(inbox, x) /\ ~Has(outbox, x)
      /\ \A x : Once(outbox, x)
  BY DEF Init, Has, Once
<1>2. /\ pc = "start" /\ outbox = << >> /\ app = "none" /\ adv = "none"
      /\ registered = FALSE /\ adv_registered = FALSE
  BY DEF Init
<1>. QED
  BY <1>1, <1>2 DEF Ask, Untried, NoApp, NoAdv, AppAsked, AdvAsked, Undone,
                    AppGone, AdvGone, Forgotten

(* How the queues change.                                                  *)
LEMMA HasAdded ==
    ASSUME NEW s, NEW t, NEW x, NEW n, Added(s, t, x, n)
    PROVE  /\ \A y : Has(t, y) <=> Has(s, y) \/ y = x
           /\ \A y : Once(s, y) /\ (y # x \/ ~Has(s, y)) => Once(t, y)
<1>1. /\ \A i \in DOMAIN s : i \in DOMAIN t /\ t[i] = s[i]
      /\ \A i \in DOMAIN t : i \in DOMAIN s \/ i = n + 1
      /\ n + 1 \in DOMAIN t /\ t[n + 1] = x
  BY DEF Added
<1>2. \A y : Has(t, y) <=> Has(s, y) \/ y = x
  BY <1>1 DEF Has
<1>3. ASSUME NEW y, Once(s, y), y # x \/ ~Has(s, y),
             NEW i \in DOMAIN t, NEW j \in DOMAIN t, t[i] = y, t[j] = y
      PROVE  i = j
  BY <1>1, <1>3 DEF Has, Once
<1>. QED
  BY <1>2, <1>3 DEF Once

LEMMA HasRemoved ==
    ASSUME NEW s, NEW t, NEW k, NEW n, Removed(s, t, k, n)
    PROVE  /\ Has(s, s[k])
           /\ \A y : Has(t, y) => Has(s, y)
           /\ \A y : Has(s, y) /\ y # s[k] => Has(t, y)
           /\ \A y : Once(s, y) => Once(t, y)
           /\ Once(s, s[k]) => ~Has(t, s[k])
<1>1. /\ k \in DOMAIN s
      /\ \A i \in DOMAIN t : \E j \in DOMAIN s : j # k /\ t[i] = s[j]
      /\ \A j \in DOMAIN s : j # k => \E i \in DOMAIN t : t[i] = s[j]
  BY Places
<1>2. \A i, j \in DOMAIN t : i # j =>
         \E a, b \in DOMAIN s : a # b /\ t[i] = s[a] /\ t[j] = s[b]
  <2>1. /\ n \in Nat /\ k \in 1..(n + 1)
        /\ DOMAIN s = 1..(n + 1) /\ DOMAIN t = 1..n
        /\ \A i \in 1..n : t[i] = IF i < k THEN s[i] ELSE s[i + 1]
    BY DEF Removed
  <2>. TAKE i, j \in DOMAIN t
  <2>. HAVE i # j
  <2>. DEFINE a == IF i < k THEN i ELSE i + 1
              b == IF j < k THEN j ELSE j + 1
  <2>2. a \in DOMAIN s /\ b \in DOMAIN s /\ a # b
    BY <2>1
  <2>3. t[i] = s[a] /\ t[j] = s[b]
    BY <2>1
  <2>. QED
    BY <2>2, <2>3
<1>3. Has(s, s[k])
  BY <1>1 DEF Has
<1>4. \A y : Has(t, y) => Has(s, y)
  BY <1>1 DEF Has
<1>5. \A y : Has(s, y) /\ y # s[k] => Has(t, y)
  BY <1>1 DEF Has
<1>6. \A y : Once(s, y) => Once(t, y)
  BY <1>2 DEF Once
<1>7. Once(s, s[k]) => ~Has(t, s[k])
  BY <1>1 DEF Once, Has
<1>. QED
  BY <1>3, <1>4, <1>5, <1>6, <1>7

LEMMA HasSent ==
    ASSUME inbox \in Seq(Message), NEW m \in Message, Send(m)
    PROVE  \A y : Has(inbox', y) <=> Has(inbox, y) \/ y = m
<1>1. \E n : Added(inbox, inbox', m, n)
  BY Sends
<1>. QED
  BY <1>1, HasAdded

LEMMA HasTaken ==
    ASSUME inbox \in Seq(Message), NEW call, Take(call)
    PROVE  /\ Has(inbox, inbox[1]) /\ inbox[1] \in Message
           /\ inbox[1].call = call
           /\ \A y : Has(inbox', y) => Has(inbox, y)
<1>1. inbox[1].call = call /\ inbox[1] \in Message
      /\ \E n : Removed(inbox, inbox', 1, n)
  BY TakesFirst
<1>. QED
  BY <1>1, HasRemoved

LEMMA HasReplied ==
    ASSUME inbox \in Seq(Message), NEW ok, TakeReply(ok)
    PROVE  /\ Has(inbox, Reply(Waits[pc], ok))
           /\ \A y : Has(inbox', y) => Has(inbox, y)
<1>1. \E k, n : Removed(inbox, inbox', k, n) /\ inbox[k] = Reply(Waits[pc], ok)
  BY TakesReply
<1>. QED
  BY <1>1, HasRemoved

LEMMA HasReceived ==
    ASSUME outbox \in Seq(Op), NEW m, Receive(m)
    PROVE  /\ Has(outbox, m)
           /\ \A y : Has(outbox', y) => Has(outbox, y)
           /\ \A y : Has(outbox, y) /\ y # m => Has(outbox', y)
           /\ \A y : Once(outbox, y) => Once(outbox', y)
           /\ Once(outbox, m) => ~Has(outbox', m)
<1>1. outbox[1] = m /\ \E n : Removed(outbox, outbox', 1, n)
  BY Receives
<1>. QED
  BY <1>1, HasRemoved

LEMMA HasCalled ==
    ASSUME outbox \in Seq(Op), NEW x \in Op, outbox' = Append(outbox, x)
    PROVE  /\ \A y : Has(outbox', y) <=> Has(outbox, y) \/ y = x
           /\ \A y : Once(outbox, y) /\ (y # x \/ ~Has(outbox, y))
                       => Once(outbox', y)
<1>1. \E n : Added(outbox, outbox', x, n)
  BY Appended
<1>. QED
  BY <1>1, HasAdded

(* What any handler and any host may do without touching a registration.   *)
Named == {AskedObjects, AskedProps, Released, RegApp(TRUE), RegApp(FALSE),
          RegAdv(TRUE), RegAdv(FALSE)}

LEMMA AskKept ==
    ASSUME Ask,
           UNCHANGED <<pc, registered, adv_registered, outbox, app, adv,
                       abandoned>>,
           \A y \in Named : Has(inbox', y) => Has(inbox, y)
    PROVE  Ask'
<1>1. /\ Has(inbox', AskedObjects) => Has(inbox, AskedObjects)
      /\ Has(inbox', AskedProps) => Has(inbox, AskedProps)
      /\ Has(inbox', Released) => Has(inbox, Released)
      /\ Has(inbox', RegApp(TRUE)) => Has(inbox, RegApp(TRUE))
      /\ Has(inbox', RegApp(FALSE)) => Has(inbox, RegApp(FALSE))
      /\ Has(inbox', RegAdv(TRUE)) => Has(inbox, RegAdv(TRUE))
      /\ Has(inbox', RegAdv(FALSE)) => Has(inbox, RegAdv(FALSE))
  BY DEF Named
<1>2. Untried'
  BY <1>1 DEF Ask, Untried, NoApp, NoAdv
<1>3. AppAsked' /\ AdvAsked'
  BY <1>1 DEF Ask, AppAsked, AdvAsked
<1>4. Undone' /\ Forgotten'
  BY DEF Ask, Undone, Forgotten, AppGone, AdvGone
<1>. QED
  BY <1>2, <1>3, <1>4 DEF Ask

LEMMA AskHandled == ASSUME TypeOK, Ask, Handle PROVE Ask'
<1>0. inbox \in Seq(Message) /\ outbox \in Seq(Op)
  BY DEF TypeOK, Op
<1>. USE DEF gattVars, bluezVars
<1>1. ASSUME NEW call, Take(call)
      PROVE  /\ Has(inbox, inbox[1]) /\ inbox[1] \in Message
             /\ inbox[1].call = call
             /\ \A y : Has(inbox', y) => Has(inbox, y)
             /\ pc # "start" /\ pc \notin {"stop_app", "stopped"}
  <2>1. pc # "start" /\ pc \notin {"stop_app", "stopped"}
    BY <1>1, Ops DEF Take, Dispatching
  <2>. QED
    BY <1>0, <1>1, <2>1, HasTaken
<1>2. CASE HandleCharacteristicRead \/ HandleCharacteristicWrite
           \/ HandleStartNotify \/ HandleStopNotify \/ DropLateReply
  <2>1. /\ \E call : Take(call)
        /\ UNCHANGED <<pc, registered, adv_registered, outbox, app, adv,
                       abandoned>>
    BY <1>2 DEF HandleCharacteristicRead, HandleCharacteristicWrite,
                HandleStartNotify, HandleStopNotify, DropLateReply
  <2>. QED
    BY <1>1, <2>1, AskKept
<1>3. CASE HandleGetManagedObjects
  <2>1. /\ Take("GetManagedObjects") /\ outbox' = Append(outbox, "objects")
        /\ UNCHANGED <<pc, gattVars, bluezVars>>
    BY <1>3 DEF HandleGetManagedObjects
  <2>2. /\ Has(inbox, AskedObjects) /\ pc # "start"
        /\ \A y : Has(inbox', y) => Has(inbox, y)
    BY <1>1, <2>1, Kinds
  <2>3. /\ \A y : Has(outbox', y) <=> Has(outbox, y) \/ y = "objects"
        /\ \A y : Once(outbox, y) /\ y # "objects" => Once(outbox', y)
    BY <1>0, <2>1, HasCalled DEF Op
  <2>4. Untried'
    BY <2>1, <2>2, <2>3 DEF Ask, Untried, NoAdv
  <2>5. AppAsked'
    BY <2>1, <2>2, <2>3 DEF Ask, AppAsked
  <2>6. AdvAsked'
    BY <2>1, <2>2, <2>3 DEF Ask, AdvAsked
  <2>7. Undone' /\ Forgotten'
    BY <2>1, <2>3 DEF Ask, Undone, Forgotten, AppGone, AdvGone
  <2>. QED
    BY <2>4, <2>5, <2>6, <2>7 DEF Ask
<1>4. CASE HandleGetAllProperties
  <2>1. /\ Take("GetAll") /\ outbox' = Append(outbox, "props")
        /\ UNCHANGED <<pc, gattVars, bluezVars>>
    BY <1>4 DEF HandleGetAllProperties
  <2>2. /\ Has(inbox, AskedProps) /\ pc # "start"
        /\ \A y : Has(inbox', y) => Has(inbox, y)
    BY <1>1, <2>1, Kinds
  <2>3. /\ \A y : Has(outbox', y) <=> Has(outbox, y) \/ y = "props"
        /\ \A y : Once(outbox, y) /\ y # "props" => Once(outbox', y)
    BY <1>0, <2>1, HasCalled DEF Op
  <2>4. Untried'
    BY <2>1, <2>2, <2>3 DEF Ask, Untried, NoAdv
  <2>5. AppAsked'
    BY <2>1, <2>2, <2>3 DEF Ask, AppAsked
  <2>6. AdvAsked'
    BY <2>1, <2>2, <2>3 DEF Ask, AdvAsked
  <2>7. Undone' /\ Forgotten'
    BY <2>1, <2>3 DEF Ask, Undone, Forgotten, AppGone, AdvGone
  <2>. QED
    BY <2>4, <2>5, <2>6, <2>7 DEF Ask
<1>5. CASE HandleAdvertisementRelease
  <2>1. /\ Take("Release") /\ adv_registered' = FALSE
        /\ UNCHANGED <<pc, registered, outbox, bluezVars>>
    BY <1>5 DEF HandleAdvertisementRelease
  <2>2. /\ Has(inbox, Released)
        /\ \A y : Has(inbox', y) => Has(inbox, y)
    BY <1>1, <2>1, Kinds
  <2>3. adv = "none" /\ ~Has(outbox, "RegisterAdvertisement")
    BY <2>2 DEF Ask, AdvAsked
  <2>4. Untried'
    BY <2>1, <2>2 DEF Ask, Untried, NoApp, NoAdv
  <2>5. AppAsked'
    BY <2>1, <2>2 DEF Ask, AppAsked
  <2>6. AdvAsked'
    BY <2>1, <2>2 DEF Ask, AdvAsked
  <2>7. Undone' /\ Forgotten'
    BY <2>1, <2>3 DEF Ask, Undone, Forgotten, AppGone, AdvGone
  <2>. QED
    BY <2>4, <2>5, <2>6, <2>7 DEF Ask
<1>. QED
  BY <1>2, <1>3, <1>4, <1>5 DEF Handle

(* The main thread, on its way in.                                         *)
LEMMA AskStarts ==
    ASSUME TypeOK, Ask, Start \/ RegisterApplicationReturns
                        \/ RegisterAdvertisementReturns
    PROVE  Ask'
<1>0. inbox \in Seq(Message) /\ outbox \in Seq(Op)
  BY DEF TypeOK, Op
<1>. USE DEF gattVars, bluezVars
<1>1. ASSUME NEW ok, TakeReply(ok)
      PROVE  /\ Has(inbox, Reply(Waits[pc], ok))
             /\ \A y : Has(inbox', y) => Has(inbox, y)
  BY <1>0, <1>1, HasReplied
<1>2. CASE Start
  <2>1. /\ pc = "start" /\ UNCHANGED <<registered, adv_registered, inbox, app,
                                       adv, abandoned>>
        /\ \/ /\ pc' = "app_wait"
              /\ outbox' = Append(outbox, "RegisterApplication")
           \/ pc' = "stopped" /\ outbox' = outbox
    BY <1>2, Ops DEF Start, Call
  <2>2. NoApp /\ NoAdv
    BY <2>1 DEF Ask, Untried
  <2>3. CASE /\ pc' = "app_wait"
             /\ outbox' = Append(outbox, "RegisterApplication")
    <3>1. /\ \A y : Has(outbox', y)
                       <=> Has(outbox, y) \/ y = "RegisterApplication"
          /\ \A y : Once(outbox, y)
                    /\ (y # "RegisterApplication" \/ ~Has(outbox, y))
                    => Once(outbox', y)
      BY <1>0, <2>3, HasCalled, Ops
    <3>2. \A y : ~Has(outbox, y)
      BY <2>2 DEF NoApp, Has
    <3>3. Untried'
      BY <2>1, <2>2, <2>3, <3>1 DEF Untried, NoAdv
    <3>4. AppAsked'
      BY <2>1, <2>2, <3>1, <3>2 DEF Ask, AppAsked, NoApp, NoAdv
    <3>5. AdvAsked'
      BY <2>1, <3>1, <3>2 DEF Ask, AdvAsked
    <3>6. Undone' /\ Forgotten'
      BY <2>1, <2>2, <2>3, <3>1 DEF Undone, Forgotten, AdvGone, NoAdv
    <3>. QED
      BY <3>3, <3>4, <3>5, <3>6 DEF Ask
  <2>4. CASE pc' = "stopped" /\ outbox' = outbox
    <3>1. \A y : ~Has(outbox, y)
      BY <2>2 DEF NoApp, Has
    <3>2. Untried' /\ AppAsked' /\ AdvAsked'
      BY <2>1, <2>4 DEF Ask, Untried, AppAsked, AdvAsked
    <3>3. Undone' /\ Forgotten'
      BY <2>1, <2>2, <2>4, <3>1
         DEF Undone, Forgotten, AppGone, AdvGone, NoApp, NoAdv
    <3>. QED
      BY <3>2, <3>3 DEF Ask
  <2>. QED
    BY <2>1, <2>3, <2>4
<1>3. CASE RegisterApplicationReturns
  <2>1. pc = "app_wait" /\ UNCHANGED <<adv_registered, app, adv>>
    BY <1>3 DEF RegisterApplicationReturns, Call
  <2>2. NoAdv
    BY <2>1 DEF Ask, Untried
  <2>3. \/ /\ pc' = "adv_wait" /\ TakeReply(TRUE) /\ registered' = TRUE
           /\ outbox' = Append(outbox, "RegisterAdvertisement")
           /\ abandoned' = abandoned
        \/ /\ pc' = "stop" /\ TakeReply(FALSE) /\ abandoned' = abandoned
           /\ UNCHANGED <<outbox, registered>>
        \/ /\ pc' = "stop" /\ inbox' = inbox /\ abandoned' = TRUE
           /\ UNCHANGED <<outbox, registered>>
    BY <1>3, Ops DEF RegisterApplicationReturns, Call, GiveUp
  <2>4. CASE /\ pc' = "adv_wait" /\ TakeReply(TRUE) /\ registered' = TRUE
             /\ outbox' = Append(outbox, "RegisterAdvertisement")
             /\ abandoned' = abandoned
    <3>1. /\ \A y : Has(outbox', y)
                       <=> Has(outbox, y) \/ y = "RegisterAdvertisement"
          /\ \A y : Once(outbox, y)
                    /\ (y # "RegisterAdvertisement" \/ ~Has(outbox, y))
                    => Once(outbox', y)
      BY <1>0, <2>4, HasCalled, Ops
    <3>2. /\ Has(inbox, RegApp(TRUE))
          /\ \A y : Has(inbox', y) => Has(inbox, y)
      BY <1>1, <2>1, <2>4, Ops DEF RegApp
    <3>3. ~Has(outbox, "RegisterApplication")
      BY <3>2 DEF Ask, AppAsked
    <3>4. Untried' /\ Forgotten'
      BY <2>4 DEF Untried, Forgotten
    <3>5. AppAsked'
      BY <2>1, <3>1, <3>2, <3>3 DEF Ask, AppAsked
    <3>6. AdvAsked'
      BY <2>1, <2>2, <3>1, <3>2 DEF Ask, AdvAsked, NoAdv
    <3>7. Undone'
      BY <2>4 DEF Undone
    <3>. QED
      BY <3>4, <3>5, <3>6, <3>7 DEF Ask
  <2>5. CASE /\ pc' = "stop" /\ TakeReply(FALSE) /\ abandoned' = abandoned
             /\ UNCHANGED <<outbox, registered>>
    <3>1. /\ Has(inbox, RegApp(FALSE))
          /\ \A y : Has(inbox', y) => Has(inbox, y)
      BY <1>1, <2>1, <2>5, Ops DEF RegApp
    <3>2. ~Has(outbox, "RegisterApplication") /\ app = "none"
      BY <3>1 DEF Ask, AppAsked
    <3>3. Untried' /\ Forgotten'
      BY <2>5 DEF Untried, Forgotten
    <3>4. AppAsked' /\ AdvAsked'
      BY <2>1, <2>5, <3>1 DEF Ask, AppAsked, AdvAsked
    <3>5. Undone'
      BY <2>1, <2>2, <2>5, <3>2 DEF Undone, AppGone, AdvGone, NoAdv
    <3>. QED
      BY <3>3, <3>4, <3>5 DEF Ask
  <2>6. CASE /\ pc' = "stop" /\ inbox' = inbox /\ abandoned' = TRUE
             /\ UNCHANGED <<outbox, registered>>
    BY <2>1, <2>6 DEF Ask, Untried, AppAsked, AdvAsked, Undone, Forgotten
  <2>. QED
    BY <2>3, <2>4, <2>5, <2>6
<1>4. CASE RegisterAdvertisementReturns
  <2>1. pc = "adv_wait" /\ UNCHANGED <<registered, outbox, app, adv>>
    BY <1>4 DEF RegisterAdvertisementReturns
  <2>2. \/ /\ pc' = "serving" /\ TakeReply(TRUE) /\ adv_registered' = TRUE
           /\ abandoned' = abandoned
        \/ /\ pc' = "stop" /\ TakeReply(FALSE) /\ abandoned' = abandoned
           /\ adv_registered' = adv_registered
        \/ /\ pc' = "stop" /\ inbox' = inbox /\ abandoned' = TRUE
           /\ adv_registered' = adv_registered
    BY <1>4 DEF RegisterAdvertisementReturns, GiveUp
  <2>3. Untried' /\ Forgotten'
    BY <2>2 DEF Untried, Forgotten
  <2>4. CASE /\ pc' = "serving" /\ TakeReply(TRUE) /\ adv_registered' = TRUE
             /\ abandoned' = abandoned
    <3>1. /\ Has(inbox, RegAdv(TRUE))
          /\ \A y : Has(inbox', y) => Has(inbox, y)
      BY <1>1, <2>1, <2>4, Ops DEF RegAdv
    <3>2. ~Has(outbox, "RegisterAdvertisement")
      BY <3>1 DEF Ask, AdvAsked
    <3>3. AppAsked' /\ AdvAsked'
      BY <2>1, <3>1, <3>2 DEF Ask, AppAsked, AdvAsked
    <3>4. Undone'
      BY <2>1, <2>4 DEF Ask, Undone, AppGone
    <3>. QED
      BY <2>3, <3>3, <3>4 DEF Ask
  <2>5. CASE /\ pc' = "stop" /\ TakeReply(FALSE) /\ abandoned' = abandoned
             /\ adv_registered' = adv_registered
    <3>1. /\ Has(inbox, RegAdv(FALSE))
          /\ \A y : Has(inbox', y) => Has(inbox, y)
      BY <1>1, <2>1, <2>5, Ops DEF RegAdv
    <3>2. ~Has(outbox, "RegisterAdvertisement") /\ adv = "none"
      BY <3>1 DEF Ask, AdvAsked
    <3>3. AppAsked' /\ AdvAsked'
      BY <2>1, <2>5, <3>1 DEF Ask, AppAsked, AdvAsked
    <3>4. Undone'
      BY <2>1, <2>5, <3>2 DEF Ask, Undone, AppGone, AdvGone
    <3>. QED
      BY <2>3, <3>3, <3>4 DEF Ask
  <2>6. CASE /\ pc' = "stop" /\ inbox' = inbox /\ abandoned' = TRUE
             /\ adv_registered' = adv_registered
    BY <2>1, <2>3, <2>6 DEF Ask, AppAsked, AdvAsked, Undone
  <2>. QED
    BY <2>2, <2>4, <2>5, <2>6
<1>. QED
  BY <1>2, <1>3, <1>4

(* ... and on its way out.                                                 *)
LEMMA AskStops ==
    ASSUME TypeOK, Ask, \/ UnregisterAdvertisement
                        \/ UnregisterAdvertisementReturns
                        \/ UnregisterApplication
                        \/ UnregisterApplicationReturns
                        \/ EndLoop
    PROVE  Ask'
<1>0. /\ inbox \in Seq(Message) /\ outbox \in Seq(Op)
      /\ registered \in BOOLEAN /\ adv_registered \in BOOLEAN
  BY DEF TypeOK, Op
<1>. USE DEF gattVars, bluezVars
<1>1. ASSUME TakeReply(TRUE) \/ TakeReply(FALSE) \/ GiveUp
      PROVE  \A y : Has(inbox', y) => Has(inbox, y)
  BY <1>0, <1>1, HasReplied DEF GiveUp
<1>2. ASSUME NEW from, NEW to \in DOMAIN Waits, Call(from, to)
      PROVE  /\ pc = from /\ pc' = to
             /\ \A y : Has(outbox', y) <=> Has(outbox, y) \/ y = Waits[to]
             /\ \A y : Once(outbox, y) /\ y # Waits[to] => Once(outbox', y)
  <2>1. Waits[to] \in Op
    BY DEF Op
  <2>. QED
    BY <1>0, <1>2, <2>1, HasCalled DEF Call
<1>3. CASE EndLoop
  <2>1. /\ pc = "serving" /\ pc' = "stop"
        /\ UNCHANGED <<gattVars, outbox, inbox, bluezVars>>
    BY <1>3 DEF EndLoop
  <2>2. Untried' /\ Forgotten'
    BY <2>1 DEF Untried, Forgotten
  <2>3. AppAsked' /\ AdvAsked' /\ Undone'
    BY <2>1 DEF Ask, AppAsked, AdvAsked, Undone, AppGone, AdvGone
  <2>. QED
    BY <2>2, <2>3 DEF Ask
<1>4. CASE UnregisterAdvertisement
  <2>1. UNCHANGED <<registered, adv_registered, inbox, app, adv, abandoned>>
    BY <1>4 DEF UnregisterAdvertisement
  <2>2. CASE adv_registered
    <3>1. Call("stop", "unadv_wait")
      BY <1>4, <2>2 DEF UnregisterAdvertisement
    <3>2. /\ pc = "stop" /\ pc' = "unadv_wait"
          /\ \A y : Has(outbox', y)
                       <=> Has(outbox, y) \/ y = "UnregisterAdvertisement"
          /\ \A y : Once(outbox, y) /\ y # "UnregisterAdvertisement"
                       => Once(outbox', y)
      BY <1>2, <3>1, Ops
    <3>3. ~Has(outbox, "RegisterAdvertisement")
      BY <2>2 DEF Ask, AdvAsked
    <3>4. Untried' /\ Forgotten'
      BY <3>2 DEF Untried, Forgotten
    <3>5. AppAsked' /\ AdvAsked'
      BY <2>1, <3>2 DEF Ask, AppAsked, AdvAsked
    <3>6. Undone'
      BY <2>1, <3>2, <3>3 DEF Ask, Undone, AppGone, AdvGone
    <3>. QED
      BY <3>4, <3>5, <3>6 DEF Ask
  <2>3. CASE ~adv_registered
    <3>1. pc = "stop" /\ pc' = "stop_app" /\ outbox' = outbox
      BY <1>4, <2>3 DEF UnregisterAdvertisement
    <3>2. Untried' /\ Forgotten'
      BY <1>0, <2>1, <2>3, <3>1 DEF Untried, Forgotten
    <3>3. AppAsked' /\ AdvAsked' /\ Undone'
      BY <2>1, <3>1 DEF Ask, AppAsked, AdvAsked, Undone, AppGone, AdvGone
    <3>. QED
      BY <3>2, <3>3 DEF Ask
  <2>. QED
    BY <2>2, <2>3
<1>5. CASE UnregisterAdvertisementReturns
  <2>1. /\ pc = "unadv_wait" /\ pc' = "stop_app" /\ adv_registered' = FALSE
        /\ UNCHANGED <<registered, outbox, app, adv, abandoned>>
        /\ \A y : Has(inbox', y) => Has(inbox, y)
    BY <1>1, <1>5 DEF UnregisterAdvertisementReturns
  <2>2. Untried' /\ Forgotten'
    BY <2>1 DEF Untried, Forgotten
  <2>3. AppAsked' /\ AdvAsked'
    BY <2>1 DEF Ask, AppAsked, AdvAsked
  <2>4. Undone'
    BY <2>1 DEF Ask, Undone, AppGone, AdvGone
  <2>. QED
    BY <2>2, <2>3, <2>4 DEF Ask
<1>6. CASE UnregisterApplication
  <2>1. UNCHANGED <<registered, adv_registered, inbox, app, adv, abandoned>>
    BY <1>6 DEF UnregisterApplication
  <2>2. CASE registered
    <3>1. Call("stop_app", "unapp_wait")
      BY <1>6, <2>2 DEF UnregisterApplication
    <3>2. /\ pc = "stop_app" /\ pc' = "unapp_wait"
          /\ \A y : Has(outbox', y)
                       <=> Has(outbox, y) \/ y = "UnregisterApplication"
          /\ \A y : Once(outbox, y) /\ y # "UnregisterApplication"
                       => Once(outbox', y)
      BY <1>2, <3>1, Ops
    <3>3. ~Has(outbox, "RegisterApplication")
      BY <2>2 DEF Ask, AppAsked
    <3>4. Untried' /\ Forgotten'
      BY <2>1, <3>2 DEF Ask, Untried, Forgotten
    <3>5. AppAsked' /\ AdvAsked'
      BY <2>1, <3>2 DEF Ask, AppAsked, AdvAsked
    <3>6. Undone'
      BY <2>1, <3>2, <3>3 DEF Ask, Undone, AppGone, AdvGone
    <3>. QED
      BY <3>4, <3>5, <3>6 DEF Ask
  <2>3. CASE ~registered
    <3>1. pc = "stop_app" /\ pc' = "stopped" /\ outbox' = outbox
      BY <1>6, <2>3 DEF UnregisterApplication
    <3>2. Untried' /\ Forgotten'
      BY <1>0, <2>1, <2>3, <3>1 DEF Ask, Untried, Forgotten
    <3>3. AppAsked' /\ AdvAsked' /\ Undone'
      BY <2>1, <3>1 DEF Ask, AppAsked, AdvAsked, Undone, AppGone, AdvGone
    <3>. QED
      BY <3>2, <3>3 DEF Ask
  <2>. QED
    BY <2>2, <2>3
<1>7. CASE UnregisterApplicationReturns
  <2>1. /\ pc = "unapp_wait" /\ pc' = "stopped" /\ registered' = FALSE
        /\ UNCHANGED <<adv_registered, outbox, app, adv, abandoned>>
        /\ \A y : Has(inbox', y) => Has(inbox, y)
    BY <1>1, <1>7 DEF UnregisterApplicationReturns
  <2>2. Untried' /\ Forgotten'
    BY <2>1 DEF Ask, Untried, Forgotten
  <2>3. AppAsked' /\ AdvAsked'
    BY <2>1 DEF Ask, AppAsked, AdvAsked
  <2>4. Undone'
    BY <2>1 DEF Ask, Undone, AppGone, AdvGone
  <2>. QED
    BY <2>2, <2>3, <2>4 DEF Ask
<1>. QED
  BY <1>3, <1>4, <1>5, <1>6, <1>7

(* BlueZ takes a call or an answer.                                        *)
LEMMA AskBluez == ASSUME TypeOK, Ask, Bluez PROVE Ask'
<1>0. inbox \in Seq(Message) /\ outbox \in Seq(Op)
  BY DEF TypeOK, Op
<1>1. ASSUME NEW m, Receive(m)
      PROVE  /\ Has(outbox, m) /\ pc # "start"
             /\ \A y : Has(outbox', y) => Has(outbox, y)
             /\ \A y : Has(outbox, y) /\ y # m => Has(outbox', y)
             /\ \A y : Once(outbox, y) => Once(outbox', y)
             /\ Once(outbox, m) => ~Has(outbox', m)
             /\ UNCHANGED <<pc, registered, adv_registered, abandoned>>
  <2>1. UNCHANGED <<pc, registered, adv_registered, abandoned>>
        /\ outbox # << >>
    BY <1>1 DEF Receive, gattVars
  <2>2. pc # "start"
    BY <2>1 DEF Ask, Untried, NoApp
  <2>. QED
    BY <1>0, <1>1, <2>1, <2>2, HasReceived
<1>2. ASSUME NEW x \in Message, Send(x)
      PROVE  \A y : Has(inbox', y) <=> Has(inbox, y) \/ y = x
  BY <1>0, <1>2, HasSent
<1>3. /\ RegApp(TRUE) \in Message /\ RegApp(FALSE) \in Message
      /\ RegAdv(TRUE) \in Message /\ RegAdv(FALSE) \in Message
      /\ AskedObjects \in Message /\ AskedProps \in Message
  BY Sendable, Ops DEF RegApp, RegAdv
<1>4. /\ RegApp(TRUE) # RegApp(FALSE) /\ RegAdv(TRUE) # RegAdv(FALSE)
      /\ \A a, b \in BOOLEAN : RegApp(a) # RegAdv(b)
      /\ \A a \in BOOLEAN :
            /\ RegApp(a) \notin {AskedObjects, AskedProps, Released}
            /\ RegAdv(a) \notin {AskedObjects, AskedProps, Released}
      /\ AskedObjects # AskedProps /\ AskedObjects # Released
      /\ AskedProps # Released
  <2>1. \A a \in BOOLEAN : /\ RegApp(a).call = "reply"
                           /\ RegApp(a).to = "RegisterApplication"
                           /\ RegAdv(a).call = "reply"
                           /\ RegAdv(a).to = "RegisterAdvertisement"
    BY Others DEF RegApp, RegAdv
  <2>2. RegApp(TRUE) # RegApp(FALSE) /\ RegAdv(TRUE) # RegAdv(FALSE)
    BY Others DEF RegApp, RegAdv
  <2>3. \A a, b \in BOOLEAN : RegApp(a) # RegAdv(b)
    BY <2>1
  <2>4. \A a \in BOOLEAN :
            /\ RegApp(a) \notin {AskedObjects, AskedProps, Released}
            /\ RegAdv(a) \notin {AskedObjects, AskedProps, Released}
    BY <2>1, Others
  <2>. QED
    BY <2>2, <2>3, <2>4, Others
<1>5. CASE BluezRegistersApplication
  <2>1. PICK m \in {"RegisterApplication", "objects"} : Receive(m)
    BY <1>5 DEF BluezRegistersApplication
  <2>2. /\ UNCHANGED <<adv, pc, registered, adv_registered, abandoned>>
        /\ Has(outbox, m) /\ pc # "start"
        /\ \A y : Has(outbox', y) => Has(outbox, y)
        /\ \A y : Has(outbox, y) /\ y # m => Has(outbox', y)
        /\ Once(outbox', "RegisterApplication")
        /\ Once(outbox', "RegisterAdvertisement")
    BY <1>1, <1>5, <2>1 DEF BluezRegistersApplication, Ask, AppAsked, AdvAsked
  <2>3. ~Has(outbox', "RegisterApplication")
    BY <1>1, <2>1, <2>2 DEF Ask, AppAsked
  <2>4. \/ app' = "listing" /\ Send(AskedObjects) /\ m = "RegisterApplication"
        \/ app' = "known" /\ Send(RegApp(TRUE)) /\ app = "listing"
        \/ app' = "none" /\ Send(RegApp(FALSE))
        \/ UNCHANGED <<app, inbox>>
    <3>1. ASSUME Receive("RegisterApplication") PROVE m = "RegisterApplication"
      BY <2>1, <3>1 DEF Receive
    <3>. QED
      BY <1>5, <3>1 DEF BluezRegistersApplication, AskedObjects, RegApp
  <2>5. m = "RegisterApplication" => ~Has(inbox, RegApp(FALSE))
    BY <2>2 DEF Ask, AppAsked
  <2>6. app = "listing" => ~Has(inbox, RegApp(FALSE))
    BY DEF Ask, AppAsked
  <2>7. \A y \in {AskedProps, Released, RegAdv(TRUE), RegAdv(FALSE)} :
           Has(inbox', y) => Has(inbox, y)
    BY <1>2, <1>3, <1>4, <2>4
  <2>8. Untried'
    BY <2>2, <2>7 DEF Ask, Untried, NoAdv
  <2>9. AdvAsked'
    BY <2>2, <2>7 DEF Ask, AdvAsked
  <2>10. AppAsked'
    <3>1. Has(inbox', RegApp(FALSE)) => app' = "none"
      <4>1. CASE app' = "listing" /\ Send(AskedObjects)
                 /\ m = "RegisterApplication"
        BY <1>2, <1>3, <1>4, <2>5, <4>1
      <4>2. CASE app' = "known" /\ Send(RegApp(TRUE)) /\ app = "listing"
        BY <1>2, <1>3, <1>4, <2>6, <4>2
      <4>3. CASE UNCHANGED <<app, inbox>>
        BY <4>3 DEF Ask, AppAsked
      <4>. QED
        BY <2>4, <4>1, <4>2, <4>3
    <3>. QED
      BY <2>2, <2>3, <3>1 DEF AppAsked
  <2>11. Undone' /\ Forgotten'
    <3>1. Forgotten'
      BY <2>2 DEF Ask, Forgotten
    <3>2. AdvGone => AdvGone'
      BY <2>1, <2>2 DEF AdvGone
    <3>3. AppGone => AppGone'
      <4>. SUFFICES ASSUME AppGone PROVE AppGone'
        OBVIOUS
      <4>1. m = "objects"
        BY <2>1, <2>2 DEF AppGone
      <4>2. Has(outbox, "UnregisterApplication")
               => Has(outbox', "UnregisterApplication")
        BY <2>2, <4>1
      <4>3. app = "none" => app' = "none"
        BY <2>4, <4>1
      <4>. QED
        BY <2>3, <4>2, <4>3 DEF AppGone
    <3>. QED
      BY <2>2, <3>1, <3>2, <3>3 DEF Ask, Undone
  <2>. QED
    BY <2>8, <2>9, <2>10, <2>11 DEF Ask
<1>6. CASE BluezRegistersAdvertisement
  <2>1. PICK m \in {"RegisterAdvertisement", "props"} : Receive(m)
    BY <1>6 DEF BluezRegistersAdvertisement
  <2>2. /\ UNCHANGED <<app, pc, registered, adv_registered, abandoned>>
        /\ Has(outbox, m) /\ pc # "start"
        /\ \A y : Has(outbox', y) => Has(outbox, y)
        /\ \A y : Has(outbox, y) /\ y # m => Has(outbox', y)
        /\ Once(outbox', "RegisterApplication")
        /\ Once(outbox', "RegisterAdvertisement")
    BY <1>1, <1>6, <2>1
       DEF BluezRegistersAdvertisement, Ask, AppAsked, AdvAsked
  <2>3. ~Has(outbox', "RegisterAdvertisement") /\ pc # "app_wait"
    BY <1>1, <2>1, <2>2 DEF Ask, AdvAsked, Untried, NoAdv
  <2>4. \/ adv' = "listing" /\ Send(AskedProps) /\ m = "RegisterAdvertisement"
        \/ adv' = "known" /\ Send(RegAdv(TRUE)) /\ adv = "listing"
        \/ adv' = "none" /\ Send(RegAdv(FALSE))
        \/ UNCHANGED <<adv, inbox>>
    <3>1. ASSUME Receive("RegisterAdvertisement")
          PROVE  m = "RegisterAdvertisement"
      BY <2>1, <3>1 DEF Receive
    <3>. QED
      BY <1>6, <3>1 DEF BluezRegistersAdvertisement, AskedProps, RegAdv
  <2>5. m = "RegisterAdvertisement" => /\ ~Has(inbox, RegAdv(FALSE))
                                       /\ ~Has(inbox, Released)
    BY <2>2 DEF Ask, AdvAsked
  <2>6. adv = "listing" => /\ ~Has(inbox, RegAdv(FALSE))
                           /\ ~Has(inbox, Released)
    BY DEF Ask, AdvAsked
  <2>7. \A y \in {AskedObjects, RegApp(TRUE), RegApp(FALSE)} :
           Has(inbox', y) => Has(inbox, y)
    BY <1>2, <1>3, <1>4, <2>4
  <2>8. Untried'
    BY <2>2, <2>3 DEF Untried
  <2>9. AppAsked'
    BY <2>2, <2>7 DEF Ask, AppAsked
  <2>10. AdvAsked'
    <3>1. Has(inbox', RegAdv(FALSE)) \/ Has(inbox', Released) => adv' = "none"
      <4>1. CASE adv' = "listing" /\ Send(AskedProps)
                 /\ m = "RegisterAdvertisement"
        BY <1>2, <1>3, <1>4, <2>5, <4>1
      <4>2. CASE adv' = "known" /\ Send(RegAdv(TRUE)) /\ adv = "listing"
        BY <1>2, <1>3, <1>4, <2>6, <4>2
      <4>3. CASE UNCHANGED <<adv, inbox>>
        BY <4>3 DEF Ask, AdvAsked
      <4>. QED
        BY <2>4, <4>1, <4>2, <4>3
    <3>. QED
      BY <2>2, <2>3, <3>1 DEF AdvAsked
  <2>11. Undone' /\ Forgotten'
    <3>1. Forgotten'
      BY <2>2 DEF Ask, Forgotten
    <3>2. AppGone => AppGone'
      BY <2>1, <2>2 DEF AppGone
    <3>3. AdvGone => AdvGone'
      <4>. SUFFICES ASSUME AdvGone PROVE AdvGone'
        OBVIOUS
      <4>1. m = "props"
        BY <2>1, <2>2 DEF AdvGone
      <4>2. Has(outbox, "UnregisterAdvertisement")
               => Has(outbox', "UnregisterAdvertisement")
        BY <2>2, <4>1
      <4>3. adv = "none" => adv' = "none"
        BY <2>4, <4>1
      <4>. QED
        BY <2>3, <4>2, <4>3 DEF AdvGone
    <3>. QED
      BY <2>2, <3>1, <3>2, <3>3 DEF Ask, Undone
  <2>. QED
    BY <2>8, <2>9, <2>10, <2>11 DEF Ask
<1>7. CASE BluezUnregisters
  <2>1. PICK m \in {"UnregisterAdvertisement", "UnregisterApplication"} :
           /\ Receive(m) /\ \E ok \in BOOLEAN : Send(Reply(m, ok))
           /\ \/ /\ m = "UnregisterAdvertisement"
                 /\ adv' = "none" /\ app' = app
              \/ /\ m = "UnregisterApplication"
                 /\ app' = "none" /\ adv' = adv
    <3>1. (adv = "known") \in BOOLEAN /\ (app = "known") \in BOOLEAN
      OBVIOUS
    <3>. QED
      BY <1>7, <3>1 DEF BluezUnregisters
  <2>2. PICK ok \in BOOLEAN : Send(Reply(m, ok))
    BY <2>1
  <2>3. Reply(m, ok) \in Message /\ Reply(m, ok) \notin Named
    <3>1. Reply(m, ok) \in Message
      BY Sendable, Ops
    <3>2. Reply(m, ok).call = "reply" /\ Reply(m, ok).to = m
      BY Others
    <3>3. \A y \in Named : y.call = "reply" =>
             y.to \in {"RegisterApplication", "RegisterAdvertisement"}
      <4>1. \A a \in BOOLEAN : /\ RegApp(a).to = "RegisterApplication"
                               /\ RegAdv(a).to = "RegisterAdvertisement"
        BY Others DEF RegApp, RegAdv
      <4>2. /\ AskedObjects.call # "reply" /\ AskedProps.call # "reply"
            /\ Released.call # "reply"
        BY Others
      <4>. QED
        BY <4>1, <4>2 DEF Named
    <3>. QED
      BY <3>1, <3>2, <3>3
  <2>4. \A y \in Named : Has(inbox', y) => Has(inbox, y)
    BY <1>2, <2>2, <2>3
  <2>5. /\ Has(inbox', AskedObjects) => Has(inbox, AskedObjects)
        /\ Has(inbox', AskedProps) => Has(inbox, AskedProps)
        /\ Has(inbox', Released) => Has(inbox, Released)
        /\ Has(inbox', RegApp(TRUE)) => Has(inbox, RegApp(TRUE))
        /\ Has(inbox', RegApp(FALSE)) => Has(inbox, RegApp(FALSE))
        /\ Has(inbox', RegAdv(TRUE)) => Has(inbox, RegAdv(TRUE))
        /\ Has(inbox', RegAdv(FALSE)) => Has(inbox, RegAdv(FALSE))
    BY <2>4 DEF Named
  <2>6. /\ UNCHANGED <<pc, registered, adv_registered, abandoned>>
        /\ Has(outbox, m) /\ pc # "start"
        /\ \A y : Has(outbox', y) => Has(outbox, y)
        /\ \A y : Has(outbox, y) /\ y # m => Has(outbox', y)
        /\ Once(outbox', "RegisterApplication")
        /\ Once(outbox', "RegisterAdvertisement")
    BY <1>1, <2>1 DEF Ask, AppAsked, AdvAsked
  <2>7. /\ app' = "none" \/ app' = app
        /\ adv' = "none" \/ adv' = adv
    BY <2>1
  <2>8. Untried'
    BY <2>5, <2>6, <2>7 DEF Ask, Untried, NoAdv
  <2>9. AppAsked' /\ AdvAsked'
    BY <2>5, <2>6, <2>7 DEF Ask, AppAsked, AdvAsked
  <2>10. AppGone => AppGone'
    BY <2>1, <2>6, <2>7 DEF AppGone
  <2>11. AdvGone => AdvGone'
    BY <2>1, <2>6, <2>7 DEF AdvGone
  <2>12. Undone' /\ Forgotten'
    BY <2>6, <2>10, <2>11 DEF Ask, Undone, Forgotten
  <2>. QED
    BY <2>8, <2>9, <2>12 DEF Ask
<1>. QED
  BY <1>5, <1>6, <1>7 DEF Bluez

LEMMA AskStep == TypeOK /\ Ask /\ [Next]_vars => Ask'
<1>. SUFFICES ASSUME TypeOK, Ask, [Next]_vars PROVE Ask'
  OBVIOUS
<1>0. inbox \in Seq(Message) /\ outbox \in Seq(Op) /\ wrote \in 0..255
  BY DEF TypeOK, Op
<1>. USE DEF gattVars, bluezVars
<1>1. ASSUME NEW x \in Message, Send(x), x \notin Named,
             UNCHANGED <<pc, registered, adv_registered, outbox, app, adv,
                         abandoned>>
      PROVE  Ask'
  <2>1. \A y \in Named : Has(inbox', y) => Has(inbox, y)
    BY <1>0, <1>1, HasSent
  <2>. QED
    BY <1>1, <2>1, AskKept
<1>2. \A y \in Named : y.call \in {"GetManagedObjects", "GetAll", "Release",
                                   "reply"}
  <2>1. \A a \in BOOLEAN : /\ RegApp(a).call = "reply"
                           /\ RegAdv(a).call = "reply"
    BY Others DEF RegApp, RegAdv
  <2>. QED
    BY <2>1, Others DEF Named
<1>3. CASE Main \/ EndLoop
  BY <1>3, AskStarts, AskStops DEF Main
<1>4. CASE Handle
  BY <1>4, AskHandled
<1>5. CASE Bluez
  BY <1>5, AskBluez
<1>6. CASE UNCHANGED vars \/ \E report \in Reports : StoreReport(report)
  <2>1. UNCHANGED <<pc, registered, adv_registered, inbox, outbox, app, adv,
                    abandoned>>
    BY <1>6 DEF vars, StoreReport
  <2>. QED
    BY <2>1, AskKept
<1>7. CASE HostSubscribes \/ HostUnsubscribes
  <2>1. \E call \in {"StartNotify", "StopNotify"} : Send([call |-> call])
    BY <1>7 DEF HostSubscribes, HostUnsubscribes
  <2>2. PICK call \in {"StartNotify", "StopNotify"} : Send([call |-> call])
    BY <2>1
  <2>3. [call |-> call] \in Message /\ [call |-> call] \notin Named
    BY <1>2, Sendable
  <2>4. UNCHANGED <<pc, registered, adv_registered, outbox, app, adv,
                    abandoned>>
    BY <1>7 DEF HostSubscribes, HostUnsubscribes
  <2>. QED
    BY <1>1, <2>2, <2>3, <2>4
<1>8. ASSUME NEW mode \in Modes, HostWritesMode(mode) PROVE Ask'
  <2>. DEFINE x == [call |-> "WriteValue", path |-> "CHAR3", value |-> mode]
  <2>1. x \in Message /\ x.call = "WriteValue"
    BY Sendable
  <2>2. Send(x) /\ UNCHANGED <<pc, registered, adv_registered, outbox, app,
                               adv, abandoned>>
    BY <1>8 DEF HostWritesMode
  <2>. HIDE DEF x
  <2>3. x \notin Named
    BY <1>2, <2>1
  <2>. QED
    BY <1>1, <2>1, <2>2, <2>3
<1>9. CASE HostReadsMode
  <2>. DEFINE x == [call |-> "ReadValue", path |-> "CHAR3", expect |-> wrote]
  <2>1. x \in Message /\ x.call = "ReadValue"
    BY <1>0, Sendable
  <2>2. Send(x) /\ UNCHANGED <<pc, registered, adv_registered, outbox, app,
                               adv, abandoned>>
    BY <1>9 DEF HostReadsMode
  <2>. HIDE DEF x
  <2>3. x \notin Named
    BY <1>2, <2>1
  <2>. QED
    BY <1>1, <2>1, <2>2, <2>3
<1>10. CASE BluezReleasesAdvertisement
  <2>1. /\ adv = "known" /\ adv' = "none" /\ Send(Released)
        /\ UNCHANGED <<pc, registered, adv_registered, outbox, app,
                       abandoned>>
    BY <1>10 DEF BluezReleasesAdvertisement, Released
  <2>2. \A y : Has(inbox', y) <=> Has(inbox, y) \/ y = Released
    BY <1>0, <2>1, HasSent, Sendable
  <2>3. \A a \in BOOLEAN : RegApp(a) # Released /\ RegAdv(a) # Released
    <3>1. \A a \in BOOLEAN : /\ RegApp(a).call = "reply"
                             /\ RegAdv(a).call = "reply"
      BY Others DEF RegApp, RegAdv
    <3>. QED
      BY <3>1, Others
  <2>4. /\ Has(inbox', AskedObjects) => Has(inbox, AskedObjects)
        /\ Has(inbox', AskedProps) => Has(inbox, AskedProps)
        /\ Has(inbox', RegApp(TRUE)) => Has(inbox, RegApp(TRUE))
        /\ Has(inbox', RegApp(FALSE)) => Has(inbox, RegApp(FALSE))
        /\ Has(inbox', RegAdv(TRUE)) => Has(inbox, RegAdv(TRUE))
        /\ Has(inbox', RegAdv(FALSE)) => Has(inbox, RegAdv(FALSE))
    BY <2>2, <2>3, Others
  <2>5. Untried'
    BY <2>1, <2>4 DEF Ask, Untried, NoApp, NoAdv
  <2>6. AppAsked' /\ AdvAsked'
    BY <2>1, <2>4 DEF Ask, AppAsked, AdvAsked
  <2>7. Undone' /\ Forgotten'
    BY <2>1 DEF Ask, Undone, Forgotten, AppGone, AdvGone
  <2>. QED
    BY <2>5, <2>6, <2>7 DEF Ask
<1>11. CASE BluezRestarts
  <2>1. /\ outbox' = << >> /\ app' = "none" /\ adv' = "none"
        /\ UNCHANGED <<pc, registered, adv_registered, abandoned>>
    BY <1>11 DEF BluezRestarts
  <2>2. \A x : ~Has(outbox', x) /\ Once(outbox', x)
    BY <2>1 DEF Has, Once
  <2>3. \/ pc \in DOMAIN Waits /\ Send(Reply(Waits[pc], FALSE))
        \/ inbox' = inbox
    BY <1>11 DEF BluezRestarts
  <2>4. pc = "start" => inbox' = inbox
    BY <2>3, Ops
  <2>5. pc = "app_wait" =>
           \A y \in {AskedProps, Released, RegAdv(TRUE), RegAdv(FALSE)} :
              Has(inbox', y) => Has(inbox, y)
    <3>1. CASE inbox' = inbox
      BY <3>1
    <3>2. CASE pc = "app_wait" /\ Send(RegApp(FALSE))
      <4>1. RegApp(FALSE) \in Message
        BY Sendable, Ops DEF RegApp
      <4>2. \A y : Has(inbox', y) <=> Has(inbox, y) \/ y = RegApp(FALSE)
        BY <1>0, <3>2, <4>1, HasSent
      <4>3. RegApp(FALSE).call = "reply"
            /\ RegApp(FALSE).to = "RegisterApplication"
        BY Others DEF RegApp
      <4>4. \A a \in BOOLEAN : RegAdv(a).to = "RegisterAdvertisement"
        BY Others DEF RegAdv
      <4>. QED
        BY <4>2, <4>3, <4>4, Others
    <3>. QED
      BY <2>3, <3>1, <3>2, Ops DEF RegApp
  <2>6. Untried'
    <3>1. pc = "start" => NoApp' /\ NoAdv'
      BY <2>1, <2>2, <2>4 DEF Ask, Untried, NoApp, NoAdv
    <3>2. pc = "app_wait" => NoAdv'
      BY <2>1, <2>2, <2>5 DEF Ask, Untried, NoAdv
    <3>. QED
      BY <2>1, <3>1, <3>2 DEF Untried
  <2>7. AppAsked' /\ AdvAsked'
    BY <2>1, <2>2 DEF AppAsked, AdvAsked
  <2>8. Undone' /\ Forgotten'
    BY <2>1, <2>2 DEF Ask, Undone, Forgotten, AppGone, AdvGone
  <2>. QED
    BY <2>6, <2>7, <2>8 DEF Ask
<1>. QED
  BY <1>3, <1>4, <1>5, <1>6, <1>7, <1>8, <1>9, <1>10, <1>11 DEF Next

(* After stop(), once BlueZ has worked off what it was sent, it knows      *)
(* neither the application nor the advertisement, also when a registration *)
(* was refused or bluetoothd was restarted in between; unless a            *)
(* registration call timed out.                                            *)
THEOREM StopLeavesNothing == Spec => []StopUnregisters
<1>1. TypeOK /\ Ask => StopUnregisters
  <2>. SUFFICES ASSUME TypeOK, Ask, pc = "stopped", outbox = << >>, ~abandoned
                PROVE  app = "none" /\ adv = "none"
    BY DEF StopUnregisters
  <2>1. abandoned = FALSE
    BY DEF TypeOK
  <2>2. registered = FALSE /\ adv_registered = FALSE
    BY DEF Ask, Forgotten
  <2>3. AppGone /\ AdvGone
    BY <2>1, <2>2 DEF Ask, Undone
  <2>4. \A x : ~Has(outbox, x)
    BY DEF Has
  <2>. QED
    BY <2>3, <2>4 DEF AppGone, AdvGone
<1>. QED
  BY <1>1, TypeInit, TypeStep, AskInit, AskStep, PTL DEF Spec

-----------------------------------------------------------------------------
(* What a host reads from an attribute is what BlueZ was told of it when   *)
(* the application was registered, and GetAll agrees, in every state.      *)
LEMMA Tables == TablesAgree
<1>. SUFFICES ASSUME NEW path \in Paths
              PROVE  /\ path \notin {"SVC0", "SVC1"}
                            /\ "read" \in ManagedObjects[path].Flags
                        => ReadValue(path) = ManagedObjects[path].Value
                     /\ GetAll(path) # << >>
                        => GetAll(path) = ManagedObjects[path]
  BY DEF TablesAgree
<1>1. CASE path \in {"SVC0", "SVC1"}
  <2>1. CASE path = "SVC0"
    BY <2>1 DEF ManagedObjects, Service, GetAll
  <2>2. CASE path = "SVC1"
    BY <2>2 DEF ManagedObjects, Service, GetAll
  <2>. QED
    BY <1>1, <2>1, <2>2
<1>2. CASE path = "CHAR4"
  <2>1. ManagedObjects[path] =
           Notifying(Char("REPORT", "SVC0", {"read", "notify"}, input_report),
                     notify_enabled)
    BY <1>2 DEF ManagedObjects
  <2>2. ReadValue(path) = input_report
    BY <1>2 DEF ReadValue
  <2>3. GetAll(path) = [UUID |-> "REPORT", Service |-> "SVC0",
                        Flags |-> {"read", "notify"},
                        Value |-> input_report,
                        Notifying |-> notify_enabled]
    BY <1>2 DEF GetAll
  <2>. QED
    BY <2>1, <2>2, <2>3 DEF Notifying, Char
<1>3. CASE path \in {"CHAR0", "CHAR1", "CHAR2", "CHAR3", "CHAR5", "CHAR6",
                     "DESC0"}
  <2>1. GetAll(path) = << >>
    BY <1>3 DEF GetAll
  <2>2. CASE path = "CHAR0"
    BY <2>1, <2>2 DEF ManagedObjects, Char, ReadValue
  <2>3. CASE path = "CHAR1"
    BY <2>1, <2>3 DEF ManagedObjects, Char, ReadValue
  <2>4. CASE path = "CHAR2"
    BY <2>1, <2>4 DEF ManagedObjects, Char, ReadValue
  <2>5. CASE path = "CHAR3"
    BY <2>1, <2>5 DEF ManagedObjects, Char, ReadValue
  <2>6. CASE path = "CHAR5"
    BY <2>1, <2>6 DEF ManagedObjects, Char, ReadValue
  <2>7. CASE path = "CHAR6"
    BY <2>1, <2>7 DEF ManagedObjects, Char, ReadValue
  <2>8. CASE path = "DESC0"
    BY <2>1, <2>8 DEF ManagedObjects, ReadValue
  <2>. QED
    BY <1>3, <2>2, <2>3, <2>4, <2>5, <2>6, <2>7, <2>8
<1>. QED
  BY <1>1, <1>2, <1>3 DEF Paths

(* The three tables of attributes agree, whatever report was stored last,  *)
(* whichever protocol mode was written and whoever is subscribed.          *)
THEOREM ReadsAreAnnounced == Spec => []TablesAgree
  BY Tables, PTL

-----------------------------------------------------------------------------
(* Without handlers inside a blocking call, GetManagedObjects is never     *)
(* answered, so BlueZ never accepts the application.                       *)
Unanswered ==
    /\ NotRegistered /\ pc # "adv_wait"
    /\ \A i \in DOMAIN outbox : outbox[i] # "objects"
    /\ \A i \in DOMAIN inbox :
          inbox[i] # Reply("RegisterApplication", TRUE)

(* A queue that gains a harmless message, or loses one, stays harmless.    *)
LEMMA GainsHarmless ==
    ASSUME NEW s, NEW t, NEW bad, NEW x, NEW n,
           \A i \in DOMAIN s : s[i] # bad, Added(s, t, x, n), x # bad
    PROVE  \A i \in DOMAIN t : t[i] # bad
<1>. SUFFICES ASSUME NEW i \in DOMAIN t PROVE t[i] # bad
  OBVIOUS
<1>1. n \in Nat /\ i \in 1..(n + 1) /\ DOMAIN s = 1..n
  BY DEF Added
<1>2. i = n + 1 \/ i \in 1..n
  BY <1>1
<1>. QED
  BY <1>1, <1>2 DEF Added

LEMMA LosesOne ==
    ASSUME NEW s, NEW t, NEW bad, NEW k, NEW n,
           \A i \in DOMAIN s : s[i] # bad, Removed(s, t, k, n)
    PROVE  \A i \in DOMAIN t : t[i] # bad
<1>. SUFFICES ASSUME NEW i \in DOMAIN t PROVE t[i] # bad
  OBVIOUS
<1>1. n \in Nat /\ i \in 1..n /\ DOMAIN s = 1..(n + 1)
  BY DEF Removed
<1>2. i \in DOMAIN s /\ i + 1 \in DOMAIN s
  BY <1>1
<1>3. t[i] = IF i < k THEN s[i] ELSE s[i + 1]
  BY <1>1 DEF Removed
<1>. QED
  BY <1>2, <1>3

LEMMA UnansweredStep ==
    ASSUME ~Inline, TypeOK, Unanswered, [Next]_vars
    PROVE  Unanswered'
<1>0. /\ inbox \in Seq(Message) /\ outbox \in Seq(Op)
      /\ \A i \in DOMAIN outbox : outbox[i] # "objects"
      /\ \A i \in DOMAIN inbox :
            inbox[i] # Reply("RegisterApplication", TRUE)
      /\ ~registered /\ pc # "serving" /\ pc # "adv_wait"
  BY DEF TypeOK, Op, Unanswered, NotRegistered
<1>. DEFINE Rest == ~registered' /\ pc' # "serving" /\ pc' # "adv_wait"
            NoObjects == \A i \in DOMAIN outbox' : outbox'[i] # "objects"
            NoAccept == \A i \in DOMAIN inbox' :
                           inbox'[i] # Reply("RegisterApplication", TRUE)
<1>1. Rest /\ NoObjects /\ NoAccept => Unanswered'
  BY DEF Unanswered, NotRegistered
<1>. HIDE DEF Rest, NoObjects, NoAccept
<1>2. inbox' = inbox => NoAccept
  BY <1>0 DEF NoAccept
<1>3. outbox' = outbox => NoObjects
  BY <1>0 DEF NoObjects
<1>4. UNCHANGED <<pc, registered>> => Rest
  BY <1>0 DEF Rest
<1>5. ASSUME NEW from, NEW to \in DOMAIN Waits, Call(from, to)
      PROVE  NoObjects
  <2>1. PICK n \in Nat : Added(outbox, outbox', Waits[to], n)
    BY <1>0, <1>5, CallsOut
  <2>2. Waits[to] # "objects"
    BY Ops
  <2>. QED
    BY <1>0, <2>1, <2>2, GainsHarmless DEF NoObjects
<1>6. ASSUME NEW ok, TakeReply(ok) PROVE NoAccept
  <2>1. PICK k \in DOMAIN inbox, n \in Nat : Removed(inbox, inbox', k, n)
    BY <1>0, <1>6, TakesReply
  <2>. QED
    BY <1>0, <2>1, LosesOne DEF NoAccept
<1>7. ASSUME NEW m \in Message, Send(m),
             m # Reply("RegisterApplication", TRUE)
      PROVE  NoAccept
  <2>1. PICK n \in Nat : Added(inbox, inbox', m, n)
    BY <1>0, <1>7, Sends
  <2>. QED
    BY <1>0, <1>7, <2>1, GainsHarmless DEF NoAccept
<1>8. ASSUME NEW m, Receive(m)
      PROVE  NoObjects /\ Rest /\ m # "objects"
  <2>1. outbox[1] = m /\ 1 \in DOMAIN outbox
    BY <1>0, <1>8, Receives
  <2>2. PICK n \in Nat : Removed(outbox, outbox', 1, n)
    BY <1>0, <1>8, Receives
  <2>3. NoObjects
    BY <1>0, <2>2, LosesOne DEF NoObjects
  <2>. QED
    BY <1>0, <1>4, <1>8, <2>1, <2>3 DEF Receive, gattVars
<1>9. CASE Start
  <2>1. pc' \in {"app_wait", "stopped"}
    BY <1>9 DEF Start, Call
  <2>2. NoObjects
    BY <1>3, <1>5, <1>9, Ops DEF Start
  <2>3. UNCHANGED <<registered, inbox>>
    BY <1>9 DEF Start
  <2>. QED
    BY <1>0, <1>1, <1>2, <2>1, <2>2, <2>3 DEF Rest
<1>10. CASE RegisterApplicationReturns
  <2>1. ~(Call("app_wait", "adv_wait") /\ TakeReply(TRUE))
    <3>. SUFFICES ASSUME pc = "app_wait", TakeReply(TRUE) PROVE FALSE
      BY DEF Call
    <3>1. \E k \in DOMAIN inbox : inbox[k] = Reply(Waits[pc], TRUE)
      BY DEF TakeReply
    <3>. QED
      BY <1>0, <3>1, Ops
  <2>2. /\ pc' = "stop" /\ UNCHANGED <<outbox, registered>>
        /\ TakeReply(FALSE) \/ UNCHANGED inbox
    BY <1>10, <2>1 DEF RegisterApplicationReturns, GiveUp
  <2>. QED
    BY <1>0, <1>1, <1>2, <1>3, <1>6, <2>2 DEF Rest
<1>11. CASE UnregisterAdvertisement
  <2>1. pc' \in {"unadv_wait", "stop_app"}
    BY <1>11 DEF UnregisterAdvertisement, Call
  <2>2. NoObjects
    BY <1>3, <1>5, <1>11, Ops DEF UnregisterAdvertisement
  <2>3. UNCHANGED <<registered, inbox>>
    BY <1>11 DEF UnregisterAdvertisement, gattVars
  <2>. QED
    BY <1>0, <1>1, <1>2, <2>1, <2>2, <2>3 DEF Rest
<1>12. CASE UnregisterAdvertisementReturns
  <2>1. /\ pc' = "stop_app" /\ UNCHANGED <<registered, outbox>>
        /\ TakeReply(TRUE) \/ TakeReply(FALSE) \/ UNCHANGED inbox
    BY <1>12 DEF UnregisterAdvertisementReturns, GiveUp
  <2>. QED
    BY <1>0, <1>1, <1>2, <1>3, <1>6, <2>1 DEF Rest
<1>13. CASE UnregisterApplication
  <2>1. /\ pc' = "stopped" /\ UNCHANGED <<registered, outbox, inbox>>
    BY <1>0, <1>13 DEF UnregisterApplication
  <2>. QED
    BY <1>0, <1>1, <1>2, <1>3, <2>1 DEF Rest
<1>14. CASE UnregisterApplicationReturns
  <2>1. /\ pc' = "stopped" /\ registered' = FALSE /\ UNCHANGED outbox
        /\ TakeReply(TRUE) \/ TakeReply(FALSE) \/ UNCHANGED inbox
    BY <1>14 DEF UnregisterApplicationReturns, GiveUp
  <2>. QED
    BY <1>1, <1>2, <1>3, <1>6, <2>1 DEF Rest
<1>15. ~RegisterAdvertisementReturns /\ ~EndLoop
  BY <1>0 DEF RegisterAdvertisementReturns, EndLoop
<1>16. ~Handle
  <2>1. ~Dispatching
    BY <1>0 DEF Dispatching
  <2>. QED
    BY <2>1 DEF Handle, Take, HandleGetManagedObjects,
       HandleGetAllProperties, HandleCharacteristicRead,
       HandleCharacteristicWrite, HandleStartNotify, HandleStopNotify,
       HandleAdvertisementRelease, DropLateReply
<1>17. CASE BluezRegistersApplication
  <2>1. \A m : Receive(m) => NoObjects /\ Rest /\ m # "objects"
    BY <1>8
  <2>2. NoObjects /\ Rest
    BY <1>17, <2>1 DEF BluezRegistersApplication
  <2>3. \/ Send(AskedObjects)
        \/ Send(Reply("RegisterApplication", FALSE))
        \/ UNCHANGED inbox
    BY <1>17, <2>1 DEF BluezRegistersApplication, AskedObjects
  <2>4. /\ AskedObjects \in Message
        /\ Reply("RegisterApplication", FALSE) \in Message
        /\ AskedObjects # Reply("RegisterApplication", TRUE)
        /\ Reply("RegisterApplication", FALSE)
              # Reply("RegisterApplication", TRUE)
    BY Sendable, Ops DEF AskedObjects, Reply
  <2>5. NoAccept
    BY <1>2, <1>7, <2>3, <2>4
  <2>. QED
    BY <1>1, <2>2, <2>5
<1>18. CASE BluezRegistersAdvertisement \/ BluezUnregisters
  <2>1. NoObjects /\ Rest
    BY <1>8, <1>18 DEF BluezRegistersAdvertisement, BluezUnregisters
  <2>2. \/ Send(AskedProps) \/ UNCHANGED inbox
        \/ \E w \in DOMAIN Waits \ {"app_wait"}, ok \in BOOLEAN :
              Send(Reply(Waits[w], ok))
    BY <1>18, Ops DEF BluezRegistersAdvertisement, BluezUnregisters,
                      AskedProps
  <2>3. /\ AskedProps \in Message
        /\ AskedProps # Reply("RegisterApplication", TRUE)
    BY Sendable DEF AskedProps, Reply
  <2>4. \A w \in DOMAIN Waits \ {"app_wait"}, ok \in BOOLEAN :
           /\ Reply(Waits[w], ok) \in Message
           /\ Reply(Waits[w], ok) # Reply("RegisterApplication", TRUE)
    BY Sendable, Ops DEF Reply
  <2>5. NoAccept
    BY <1>2, <1>7, <2>2, <2>3, <2>4
  <2>. QED
    BY <1>1, <2>1, <2>5
<1>19. CASE \/ HostSubscribes \/ HostUnsubscribes
            \/ \E mode \in Modes : HostWritesMode(mode)
            \/ HostReadsMode \/ BluezReleasesAdvertisement
  <2>1. UNCHANGED <<pc, registered, outbox>>
    BY <1>19 DEF HostSubscribes, HostUnsubscribes, HostWritesMode,
                 HostReadsMode, BluezReleasesAdvertisement, gattVars
  <2>2. PICK m \in Message : Send(m) /\ m.call # "reply"
    BY <1>0, <1>19, Sendable
    DEF HostSubscribes, HostUnsubscribes, HostWritesMode, HostReadsMode,
        BluezReleasesAdvertisement, TypeOK, Released
  <2>3. m # Reply("RegisterApplication", TRUE)
    BY <2>2 DEF Reply
  <2>. QED
    BY <1>1, <1>3, <1>4, <1>7, <2>1, <2>2, <2>3
<1>20. CASE BluezRestarts
  <2>1. outbox' = << >> /\ UNCHANGED <<pc, registered>>
    BY <1>20 DEF BluezRestarts, gattVars
  <2>2. \/ UNCHANGED inbox
        \/ pc \in DOMAIN Waits /\ Send(Reply(Waits[pc], FALSE))
    BY <1>20 DEF BluezRestarts
  <2>3. pc \in DOMAIN Waits =>
          /\ Reply(Waits[pc], FALSE) \in Message
          /\ Reply(Waits[pc], FALSE) # Reply("RegisterApplication", TRUE)
    BY Sendable DEF Reply
  <2>4. NoAccept
    BY <1>2, <1>7, <2>2, <2>3
  <2>5. NoObjects
    BY <2>1 DEF NoObjects
  <2>. QED
    BY <1>1, <1>4, <2>1, <2>4, <2>5
<1>21. CASE (\E report \in Reports : StoreReport(report)) \/ UNCHANGED vars
  <2>1. UNCHANGED <<pc, registered, outbox, inbox>>
    BY <1>21 DEF StoreReport, vars, gattVars
  <2>. QED
    BY <1>1, <1>2, <1>3, <1>4, <2>1
<1>. QED
  BY <1>9, <1>10, <1>11, <1>12, <1>13, <1>14, <1>15, <1>16, <1>17, <1>18,
     <1>19, <1>20, <1>21
  DEF Next, Main, Bluez

(* registerGattApplication (gatt_application.cpp:347-362) counts on the    *)
(* fallback handler to run while it blocks.  With a library that runs no   *)
(* handler there, as libdbus, start() never succeeds and no report is ever *)
(* sent: whether or not calls time out, whatever BlueZ and the hosts do.   *)
THEOREM NeverRegisters == ASSUME ~Inline PROVE Spec => []NotRegistered
<1>1. Init => Unanswered
  BY DEF Init, Unanswered, NotRegistered
<1>2. TypeOK /\ Unanswered /\ [Next]_vars => Unanswered'
  BY UnansweredStep
<1>3. Unanswered => NotRegistered
  BY DEF Unanswered
<1>. QED
  BY <1>1, <1>2, <1>3, TypeCorrect, PTL DEF Spec
=============================================================================
