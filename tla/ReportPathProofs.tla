--------------------------- MODULE ReportPathProofs ---------------------------
(***************************************************************************)
(* Proofs about ReportPath, for every number of clients and any commands.  *)
(*                                                                         *)
(* The copy that sendInputReport stores is read, byte by byte, from a      *)
(* report that other threads are rewriting, so it can be wrong when it is  *)
(* stored.  Fresh says why it does not stay wrong: whoever makes the two   *)
(* differ is a thread that has still to copy (Dirty).  What reaches the    *)
(* hosts is guaranteed to one client only: InOrder follows its stroke.     *)
(***************************************************************************)
EXTENDS ReportPath, SequenceTheorems, TLAPS

(* A thread that may have changed the report and has still to store it.    *)
Dirty(c) == pc[c] \in {"mod", "key", "check", "lock", "copy", "store"}

(* mutex_ guards the copy, and a thread in a stroke has one.               *)
Locked == \A c \in Clients : mutex = c <=> pc[c] \in {"copy", "store"}
Busy == \A c \in Clients : pc[c] \notin {"idle", "stroke"} => todo[c] # << >>

Fresh ==
    registered =>
        /\ input_report # keyboard_report => \E c \in Clients : Dirty(c)
        /\ \A c \in Clients :
              pc[c] = "store" /\ tmp[c].mod # keyboard_report.mod
                  => \E d \in Clients \ {c} : Dirty(d)

Pressed ==
    /\ keyboard_report # Zero => \E c \in Clients : down[c]
    /\ \A c \in Clients : pc[c] \in {"mod", "key"} => down[c]

(* Where the stroke of the only client has got to.                         *)
Alone == \A c \in Clients : issued[c] = 0 => pc[c] = "idle"
Reaches(c) ==
    /\ pc[c] = "mod" => keyboard_report = Zero
    /\ pc[c] = "key" =>
          keyboard_report = [mod |-> Head(todo[c]).mod, key |-> 0]
    /\ pc[c] \notin {"idle", "stroke", "mod", "key"} =>
          keyboard_report = Head(todo[c])
    /\ pc[c] \in {"store", "load_key"} => tmp[c].mod = Head(todo[c]).mod
    /\ pc[c] \in {"load_mod", "load_key", "emit"} =>
          input_report = Head(todo[c])
    /\ pc[c] \in {"emit", "write"} => tmp[c] = Head(todo[c])

(* What the hosts were told, unless a thread is on its way to tell them.   *)
BleTold ==
    ble_view # NotSeen =>
        /\ notify_enabled
        /\ \/ ble_view = input_report
           \/ \E c \in Clients : pc[c] \in {"load_mod", "load_key", "emit"}
ClassicTold ==
    /\ classic_view # NotSeen =>
        /\ classic /\ lost = {}
        /\ \/ classic_view = keyboard_report
           \/ \E c \in Clients : pc[c] \notin {"idle", "stroke", "next"}
    /\ \A c \in lost : pc[c] = "write"
InOrder ==
    OneClient => BleTold /\ ClassicTold /\ \A c \in Clients : Reaches(c)

-----------------------------------------------------------------------------
(* The released report is a report: 0 is a modifier mask and a key code.   *)
LEMMA ZeroIsReport == Zero \in Reports
BY CommandsAssumption DEF Zero, Reports

(* What a thread in the middle of a stroke has left to send.               *)
LEMMA StrokesLeft ==
    ASSUME TypeOK, Busy, NEW c \in Clients, pc[c] \notin {"idle", "stroke"}
    PROVE  Head(todo[c]) \in Reports /\ Tail(todo[c]) \in Seq(Reports)
<1>1. todo[c] \in Seq(Reports) /\ todo[c] # << >>
  BY DEF TypeOK, Busy
<1>. QED
  BY <1>1, HeadTailProperties

(* main starts with empty reports and idle threads.                        *)
LEMMA TypeInit == Init => TypeOK /\ Busy
<1>. SUFFICES ASSUME Init PROVE TypeOK /\ Busy
  OBVIOUS
<1>1. todo \in [Clients -> Seq(Reports)]
  BY DEF Init
<1>2. tmp \in [Clients -> Reports]
  BY ZeroIsReport DEF Init
<1>3. issued \in [Clients -> Nat]
  BY DEF Init
<1>4. /\ pc \in [Clients -> Pcs]
      /\ down \in [Clients -> BOOLEAN]
  BY DEF Init, Pcs
<1>. QED
  BY <1>1, <1>2, <1>3, <1>4, ZeroIsReport DEF Init, TypeOK, Busy

(* Every step of a thread or of the main loop keeps the types, and a       *)
(* thread leaves its stroke only when it is done with it.                  *)
LEMMA TypeStep == TypeOK /\ Busy /\ [Next]_vars => TypeOK' /\ Busy'
<1>. SUFFICES ASSUME TypeOK, Busy, [Next]_vars PROVE TypeOK' /\ Busy'
  OBVIOUS
<1>. USE CommandsAssumption DEF TypeOK, Busy, Pcs, Kinds, Reports
<1>1. ASSUME NEW c \in Clients, Issue(c) PROVE TypeOK' /\ Busy'
  <2>1. PICK cmd \in Commands : todo' = [todo EXCEPT ![c] = cmd.strokes]
    BY <1>1 DEF Issue
  <2>2. cmd.strokes \in Seq(Reports)
    OBVIOUS
  <2>3. issued' \in [Clients -> Nat]
    BY <1>1 DEF Issue
  <2>. QED
    BY <1>1, <2>1, <2>2, <2>3 DEF Issue, Goto, hostVars
<1>2. ASSUME NEW c \in Clients, Answer(c) PROVE TypeOK' /\ Busy'
  BY <1>2 DEF Answer, Goto, hostVars
<1>3. ASSUME NEW c \in Clients, Fill(c) PROVE TypeOK' /\ Busy'
  BY <1>3, ZeroIsReport DEF Fill, Goto, hostVars
<1>4. ASSUME NEW c \in Clients, StoreMod(c) PROVE TypeOK' /\ Busy'
  <2>1. Head(todo[c]) \in Reports
    BY <1>4, StrokesLeft DEF StoreMod, Goto
  <2>. QED
    BY <1>4, <2>1 DEF StoreMod, Goto, hostVars
<1>5. ASSUME NEW c \in Clients, StoreKey(c) PROVE TypeOK' /\ Busy'
  <2>1. Head(todo[c]) \in Reports
    BY <1>5, StrokesLeft DEF StoreKey, Goto
  <2>. QED
    BY <1>5, <2>1 DEF StoreKey, Goto, hostVars
<1>6. ASSUME NEW c \in Clients, CheckRegistered(c) PROVE TypeOK' /\ Busy'
  BY <1>6 DEF CheckRegistered, Goto, hostVars
<1>7. ASSUME NEW c \in Clients, Lock(c) PROVE TypeOK' /\ Busy'
  BY <1>7 DEF Lock, Goto, hostVars
<1>8. ASSUME NEW c \in Clients, Copy(c) PROVE TypeOK' /\ Busy'
  BY <1>8 DEF Copy, LoadMod, Goto, hostVars
<1>9. ASSUME NEW c \in Clients, Store(c) PROVE TypeOK' /\ Busy'
  BY <1>9 DEF Store, LoadKey, Goto, hostVars
<1>10. ASSUME NEW c \in Clients, NotifyLoadsMod(c) PROVE TypeOK' /\ Busy'
  BY <1>10 DEF NotifyLoadsMod, LoadMod, Goto, hostVars
<1>11. ASSUME NEW c \in Clients, NotifyLoadsKey(c) PROVE TypeOK' /\ Busy'
  BY <1>11 DEF NotifyLoadsKey, LoadKey, Goto, hostVars
<1>12. ASSUME NEW c \in Clients, Emit(c) PROVE TypeOK' /\ Busy'
  BY <1>12 DEF Emit, Goto, hostVars
<1>13. ASSUME NEW c \in Clients, ClassicLoads(c) PROVE TypeOK' /\ Busy'
  <2>1. tmp' \in [Clients -> Reports]
    BY <1>13 DEF ClassicLoads
  <2>2. pc' = [pc EXCEPT ![c] = "write"] \/ pc' = [pc EXCEPT ![c] = "next"]
    BY <1>13 DEF ClassicLoads, Goto
  <2>3. Busy'
    BY <1>13 DEF ClassicLoads, Goto
  <2>. QED
    BY <1>13, <2>1, <2>2, <2>3 DEF ClassicLoads, hostVars
<1>14. ASSUME NEW c \in Clients, ClassicWrites(c) PROVE TypeOK' /\ Busy'
  BY <1>14 DEF ClassicWrites, Goto, hostVars
<1>15. ASSUME NEW c \in Clients, NextStroke(c) PROVE TypeOK' /\ Busy'
  <2>1. Tail(todo[c]) \in Seq(Reports)
    BY <1>15, StrokesLeft DEF NextStroke, Goto
  <2>. QED
    BY <1>15, <2>1, ZeroIsReport DEF NextStroke, Goto, hostVars
<1>16. CASE StartNotify
  BY <1>16 DEF StartNotify, clientVars, hostVars
<1>17. CASE StopNotify
  BY <1>17 DEF StopNotify, clientVars, hostVars
<1>18. CASE ClassicConnects
  BY <1>18 DEF ClassicConnects, clientVars, hostVars
<1>19. CASE ClassicDisconnects
  BY <1>19 DEF ClassicDisconnects, clientVars, hostVars
<1>20. CASE Unregister
  BY <1>20 DEF Unregister, clientVars, hostVars
<1>21. CASE UNCHANGED vars
  BY <1>21 DEF vars, hostVars
<1>. QED
  BY <1>1, <1>2, <1>3, <1>4, <1>5, <1>6, <1>7, <1>8, <1>9, <1>10, <1>11,
     <1>12, <1>13, <1>14, <1>15, <1>16, <1>17, <1>18, <1>19, <1>20, <1>21
     DEF Next, ClientStep

(* Every variable keeps its type.                                          *)
THEOREM TypeCorrect == Spec => []TypeOK
<1>. QED
  BY TypeInit, TypeStep, PTL DEF Spec

-----------------------------------------------------------------------------
(* sendInputReport's lock_guard: taken before the copy, dropped after it.  *)
LEMMA LockedStep == TypeOK /\ Locked /\ [Next]_vars => Locked'
<1>. SUFFICES ASSUME TypeOK, Locked, [Next]_vars PROVE Locked'
  OBVIOUS
<1>. USE CommandsAssumption DEF TypeOK, Locked
<1>1. ASSUME NEW c \in Clients, Issue(c) PROVE Locked'
  BY <1>1 DEF Issue, Goto
<1>2. ASSUME NEW c \in Clients, Answer(c) PROVE Locked'
  BY <1>2 DEF Answer, Goto
<1>3. ASSUME NEW c \in Clients, Fill(c) PROVE Locked'
  BY <1>3 DEF Fill, Goto
<1>4. ASSUME NEW c \in Clients, StoreMod(c) PROVE Locked'
  BY <1>4 DEF StoreMod, Goto
<1>5. ASSUME NEW c \in Clients, StoreKey(c) PROVE Locked'
  BY <1>5 DEF StoreKey, Goto
<1>6. ASSUME NEW c \in Clients, CheckRegistered(c) PROVE Locked'
  BY <1>6 DEF CheckRegistered, Goto
<1>7. ASSUME NEW c \in Clients, Lock(c) PROVE Locked'
  BY <1>7 DEF Lock, Goto
<1>8. ASSUME NEW c \in Clients, Copy(c) PROVE Locked'
  BY <1>8 DEF Copy, LoadMod, Goto
<1>9. ASSUME NEW c \in Clients, Store(c) PROVE Locked'
  BY <1>9 DEF Store, LoadKey, Goto
<1>10. ASSUME NEW c \in Clients, NotifyLoadsMod(c) PROVE Locked'
  BY <1>10 DEF NotifyLoadsMod, LoadMod, Goto
<1>11. ASSUME NEW c \in Clients, NotifyLoadsKey(c) PROVE Locked'
  BY <1>11 DEF NotifyLoadsKey, LoadKey, Goto
<1>12. ASSUME NEW c \in Clients, Emit(c) PROVE Locked'
  BY <1>12 DEF Emit, Goto
<1>13. ASSUME NEW c \in Clients, ClassicLoads(c) PROVE Locked'
  BY <1>13 DEF ClassicLoads, Goto
<1>14. ASSUME NEW c \in Clients, ClassicWrites(c) PROVE Locked'
  BY <1>14 DEF ClassicWrites, Goto
<1>15. ASSUME NEW c \in Clients, NextStroke(c) PROVE Locked'
  BY <1>15 DEF NextStroke, Goto
<1>16. CASE StartNotify
  BY <1>16 DEF StartNotify, clientVars
<1>17. CASE StopNotify
  BY <1>17 DEF StopNotify, clientVars
<1>18. CASE ClassicConnects
  BY <1>18 DEF ClassicConnects, clientVars
<1>19. CASE ClassicDisconnects
  BY <1>19 DEF ClassicDisconnects, clientVars
<1>20. CASE Unregister
  BY <1>20 DEF Unregister, clientVars
<1>21. CASE UNCHANGED vars
  BY <1>21 DEF vars, hostVars
<1>. QED
  BY <1>1, <1>2, <1>3, <1>4, <1>5, <1>6, <1>7, <1>8, <1>9, <1>10, <1>11,
     <1>12, <1>13, <1>14, <1>15, <1>16, <1>17, <1>18, <1>19, <1>20, <1>21
     DEF Next, ClientStep

(* A stored report that is not the current one is about to be replaced.    *)
LEMMA FreshStep ==
    TypeOK /\ Locked /\ Fresh /\ [Next]_vars => Fresh'
<1>. SUFFICES ASSUME TypeOK, Locked, Fresh, [Next]_vars PROVE Fresh'
  OBVIOUS
<1>. USE CommandsAssumption DEF TypeOK, Locked, Fresh, Dirty
<1>1. ASSUME NEW c \in Clients, Issue(c) PROVE Fresh'
  BY <1>1 DEF Issue, Goto, hostVars, Reports, Zero
<1>2. ASSUME NEW c \in Clients, Answer(c) PROVE Fresh'
  BY <1>2 DEF Answer, Goto, hostVars, Reports, Zero
<1>3. ASSUME NEW c \in Clients, Fill(c) PROVE Fresh'
  BY <1>3 DEF Fill, Goto, hostVars, Reports, Zero
<1>4. ASSUME NEW c \in Clients, StoreMod(c) PROVE Fresh'
  BY <1>4 DEF StoreMod, Goto, hostVars, Reports, Zero
<1>5. ASSUME NEW c \in Clients, StoreKey(c) PROVE Fresh'
  BY <1>5 DEF StoreKey, Goto, hostVars, Reports, Zero
<1>6. ASSUME NEW c \in Clients, CheckRegistered(c) PROVE Fresh'
  BY <1>6 DEF CheckRegistered, Goto, hostVars, Reports, Zero
<1>7. ASSUME NEW c \in Clients, Lock(c) PROVE Fresh'
  BY <1>7 DEF Lock, Goto, hostVars, Reports, Zero
<1>8. ASSUME NEW c \in Clients, Copy(c) PROVE Fresh'
  BY <1>8 DEF Copy, LoadMod, Goto, hostVars, Reports, Zero
<1>9. ASSUME NEW c \in Clients, Store(c) PROVE Fresh'
  BY <1>9 DEF Store, LoadKey, Goto, hostVars, Reports, Zero
<1>10. ASSUME NEW c \in Clients, NotifyLoadsMod(c) PROVE Fresh'
  BY <1>10 DEF NotifyLoadsMod, LoadMod, Goto, hostVars, Reports, Zero
<1>11. ASSUME NEW c \in Clients, NotifyLoadsKey(c) PROVE Fresh'
  BY <1>11 DEF NotifyLoadsKey, LoadKey, Goto, hostVars, Reports, Zero
<1>12. ASSUME NEW c \in Clients, Emit(c) PROVE Fresh'
  BY <1>12 DEF Emit, Goto, hostVars, Reports, Zero
<1>13. ASSUME NEW c \in Clients, ClassicLoads(c) PROVE Fresh'
  <2>1. CASE classic
    BY <1>13, <2>1 DEF ClassicLoads, Goto, hostVars
  <2>2. CASE ~classic
    BY <1>13, <2>2 DEF ClassicLoads, Goto, hostVars
  <2>. QED
    BY <2>1, <2>2
<1>14. ASSUME NEW c \in Clients, ClassicWrites(c) PROVE Fresh'
  BY <1>14 DEF ClassicWrites, Goto, hostVars, Reports, Zero
<1>15. ASSUME NEW c \in Clients, NextStroke(c) PROVE Fresh'
  BY <1>15 DEF NextStroke, Goto, hostVars, Reports, Zero
<1>16. CASE StartNotify
  BY <1>16 DEF StartNotify, clientVars, hostVars, Reports, Zero
<1>17. CASE StopNotify
  BY <1>17 DEF StopNotify, clientVars, hostVars, Reports, Zero
<1>18. CASE ClassicConnects
  BY <1>18 DEF ClassicConnects, clientVars, hostVars, Reports, Zero
<1>19. CASE ClassicDisconnects
  BY <1>19
     DEF ClassicDisconnects, clientVars, hostVars, Reports, Zero
<1>20. CASE Unregister
  BY <1>20 DEF Unregister, clientVars, hostVars, Reports, Zero
<1>21. CASE UNCHANGED vars
  BY <1>21 DEF vars, hostVars
<1>. QED
  BY <1>1, <1>2, <1>3, <1>4, <1>5, <1>6, <1>7, <1>8, <1>9, <1>10, <1>11,
     <1>12, <1>13, <1>14, <1>15, <1>16, <1>17, <1>18, <1>19, <1>20, <1>21
     DEF Next, ClientStep

(* Only a client that has not released puts a key into the report.         *)
LEMMA PressedStep == TypeOK /\ Pressed /\ [Next]_vars => Pressed'
<1>. SUFFICES ASSUME TypeOK, Pressed, [Next]_vars PROVE Pressed'
  OBVIOUS
<1>. USE DEF TypeOK, Pressed
<1>1. ASSUME NEW c \in Clients, Issue(c) PROVE Pressed'
  BY <1>1 DEF Issue, Goto
<1>2. ASSUME NEW c \in Clients, Answer(c) PROVE Pressed'
  BY <1>2 DEF Answer, Goto
<1>3. ASSUME NEW c \in Clients, Fill(c) PROVE Pressed'
  BY <1>3 DEF Fill, Goto
<1>4. ASSUME NEW c \in Clients, StoreMod(c) PROVE Pressed'
  BY <1>4 DEF StoreMod, Goto
<1>5. ASSUME NEW c \in Clients, StoreKey(c) PROVE Pressed'
  BY <1>5 DEF StoreKey, Goto
<1>6. ASSUME NEW c \in Clients, CheckRegistered(c) PROVE Pressed'
  BY <1>6 DEF CheckRegistered, Goto
<1>7. ASSUME NEW c \in Clients, Lock(c) PROVE Pressed'
  BY <1>7 DEF Lock, Goto
<1>8. ASSUME NEW c \in Clients, Copy(c) PROVE Pressed'
  BY <1>8 DEF Copy, LoadMod, Goto
<1>9. ASSUME NEW c \in Clients, Store(c) PROVE Pressed'
  BY <1>9 DEF Store, LoadKey, Goto
<1>10. ASSUME NEW c \in Clients, NotifyLoadsMod(c) PROVE Pressed'
  BY <1>10 DEF NotifyLoadsMod, LoadMod, Goto
<1>11. ASSUME NEW c \in Clients, NotifyLoadsKey(c) PROVE Pressed'
  BY <1>11 DEF NotifyLoadsKey, LoadKey, Goto
<1>12. ASSUME NEW c \in Clients, Emit(c) PROVE Pressed'
  BY <1>12 DEF Emit, Goto
<1>13. ASSUME NEW c \in Clients, ClassicLoads(c) PROVE Pressed'
  BY <1>13 DEF ClassicLoads, Goto
<1>14. ASSUME NEW c \in Clients, ClassicWrites(c) PROVE Pressed'
  BY <1>14 DEF ClassicWrites, Goto
<1>15. ASSUME NEW c \in Clients, NextStroke(c) PROVE Pressed'
  BY <1>15 DEF NextStroke, Goto
<1>16. CASE StartNotify
  BY <1>16 DEF StartNotify, clientVars
<1>17. CASE StopNotify
  BY <1>17 DEF StopNotify, clientVars
<1>18. CASE ClassicConnects
  BY <1>18 DEF ClassicConnects, clientVars
<1>19. CASE ClassicDisconnects
  BY <1>19 DEF ClassicDisconnects, clientVars
<1>20. CASE Unregister
  BY <1>20 DEF Unregister, clientVars
<1>21. CASE UNCHANGED vars
  BY <1>21 DEF vars, hostVars
<1>. QED
  BY <1>1, <1>2, <1>3, <1>4, <1>5, <1>6, <1>7, <1>8, <1>9, <1>10, <1>11,
     <1>12, <1>13, <1>14, <1>15, <1>16, <1>17, <1>18, <1>19, <1>20, <1>21
     DEF Next, ClientStep

(* Whatever the clients do at once, the stored characteristic is the       *)
(* keyboard report once all is quiet: no copy of a torn or older report    *)
(* stays behind in GattApplication::sendInputReport.                       *)
THEOREM StoredCorrect == Spec => []StoredIsCurrent
<1>1. Init => Locked /\ Fresh
  BY CommandsAssumption DEF Init, Locked, Fresh, Dirty
<1>2. Fresh => StoredIsCurrent
  BY DEF Fresh, StoredIsCurrent, Quiet, Dirty
<1>. QED
  BY <1>1, <1>2, TypeCorrect, LockedStep, FreshStep, PTL DEF Spec

(* Once every client's last stroke was a release and all is quiet, the     *)
(* stored characteristic holds no key, although keyPress and keyRelease    *)
(* write their bytes unlocked.                                             *)
THEOREM NoKeyLeft == Spec => []NoKeyLeftStored
<1>1. Init => Locked /\ Fresh /\ Pressed
  BY CommandsAssumption DEF Init, Locked, Fresh, Pressed, Dirty
<1>2. Fresh /\ Pressed => NoKeyLeftStored
  BY DEF Fresh, Pressed, NoKeyLeftStored, AllReleased, Quiet, Dirty
<1>. QED
  BY <1>1, <1>2, TypeCorrect, LockedStep, FreshStep, PressedStep, PTL DEF Spec

-----------------------------------------------------------------------------
(* A thread runs because its client has issued a command.                  *)
LEMMA AloneStep == TypeOK /\ Alone /\ [Next]_vars => Alone'
<1>. SUFFICES ASSUME TypeOK, Alone, [Next]_vars PROVE Alone'
  OBVIOUS
<1>0. /\ pc \in [Clients -> Pcs] /\ issued \in [Clients -> Nat]
  BY DEF TypeOK
<1>. USE DEF Goto, hostVars
<1>1. ASSUME NEW c \in Clients, Issue(c) PROVE Alone'
  BY <1>0, <1>1 DEF Issue, Alone
<1>2. ASSUME NEW c \in Clients, ClientStep(c) PROVE Alone'
  <2>1. pc[c] # "idle" /\ issued' = issued
        /\ \E to : pc' = [pc EXCEPT ![c] = to]
    <3>1. CASE ClassicLoads(c)
      BY <3>1 DEF ClassicLoads
    <3>2. CASE ~ClassicLoads(c)
      BY <1>2, <3>2
         DEF ClientStep, Answer, Fill, StoreMod, StoreKey, CheckRegistered,
             Lock, Copy, Store, NotifyLoadsMod, NotifyLoadsKey, Emit,
             ClassicWrites, NextStroke
    <3>. QED
      BY <3>1, <3>2
  <2>. QED
    BY <1>0, <2>1 DEF Alone
<1>3. CASE \/ StartNotify \/ StopNotify \/ ClassicConnects
           \/ ClassicDisconnects \/ Unregister \/ UNCHANGED vars
  <2>1. pc' = pc /\ issued' = issued
    BY <1>3 DEF StartNotify, StopNotify, ClassicConnects, ClassicDisconnects,
                Unregister, clientVars, vars
  <2>. QED
    BY <2>1 DEF Alone
<1>. QED
  BY <1>1, <1>2, <1>3 DEF Next

(* No client's first command can make two active clients one again.        *)
LEMMA IssuedStep ==
    ASSUME TypeOK, [Next]_vars
    PROVE  \A d \in Clients : issued[d] > 0 => issued'[d] > 0
<1>1. issued \in [Clients -> Nat]
  BY DEF TypeOK
<1>2. ASSUME NEW c \in Clients, Issue(c), NEW d \in Clients, issued[d] > 0
      PROVE  issued'[d] > 0
  BY <1>1, <1>2 DEF Issue
<1>3. (\A c \in Clients : ~Issue(c)) => issued' = issued
  BY DEF Next, ClientStep, Answer, Fill, StoreMod, StoreKey,
         CheckRegistered, Lock, Copy, Store, NotifyLoadsMod,
         NotifyLoadsKey, Emit, ClassicLoads, ClassicWrites, NextStroke,
         StartNotify, StopNotify, ClassicConnects, ClassicDisconnects,
         Unregister, clientVars, vars
<1>. QED
  BY <1>2, <1>3

(* The steps of the only client find every other one at rest.              *)
LEMMA OnlyOne ==
    ASSUME TypeOK, Alone, [Next]_vars, OneClient'
    PROVE  /\ OneClient
           /\ \A c \in Clients :
                Issue(c) \/ ClientStep(c) =>
                   \A d \in Clients \ {c} : pc[d] = "idle" /\ pc'[d] = "idle"
<1>0. pc \in [Clients -> Pcs] /\ issued \in [Clients -> Nat]
  BY DEF TypeOK
<1>1. \A c \in Clients : issued[c] > 0 => issued'[c] > 0
  BY IssuedStep
<1>. USE DEF Goto, hostVars
<1>2. OneClient
  BY <1>1 DEF OneClient
<1>3. ASSUME NEW c \in Clients, Issue(c) \/ ClientStep(c)
      PROVE  /\ issued'[c] > 0
             /\ \E to : pc' = [pc EXCEPT ![c] = to]
  <2>1. CASE Issue(c)
    <3>1. \E to : pc' = [pc EXCEPT ![c] = to]
      BY <2>1 DEF Issue, Goto
    <3>2. issued[c] \in Nat /\ issued'[c] = issued[c] + 1
      BY <1>0, <2>1 DEF Issue
    <3>3. issued'[c] > 0
      BY <3>2
    <3>. QED
      BY <3>1, <3>3
  <2>2. CASE ClassicLoads(c)
    <3>1. pc[c] # "idle" /\ \E to : pc' = [pc EXCEPT ![c] = to]
      BY <2>2 DEF ClassicLoads, Goto
    <3>2. issued[c] > 0
      BY <1>0, <3>1 DEF Alone
    <3>. QED
      BY <1>1, <3>1, <3>2
  <2>3. CASE ClientStep(c) /\ ~ClassicLoads(c)
    <3>1. pc[c] # "idle" /\ \E to : pc' = [pc EXCEPT ![c] = to]
      BY <2>3
         DEF ClientStep, Answer, Fill, StoreMod, StoreKey, CheckRegistered,
             Lock, Copy, Store, NotifyLoadsMod, NotifyLoadsKey, Emit,
             ClassicWrites, NextStroke, Goto
    <3>2. issued[c] > 0
      BY <1>0, <3>1 DEF Alone
    <3>. QED
      BY <1>1, <3>1, <3>2
  <2>. QED
    BY <1>3, <2>1, <2>2, <2>3
<1>4. ASSUME NEW c \in Clients, Issue(c) \/ ClientStep(c),
             NEW d \in Clients \ {c}
      PROVE  pc[d] = "idle" /\ pc'[d] = "idle"
  <2>1. ~(issued'[d] > 0)
    BY <1>3, <1>4 DEF OneClient
  <2>2. issued[d] = 0
    BY <1>0, <1>1, <2>1
  <2>. QED
    BY <1>0, <1>3, <1>4, <2>2 DEF Alone
<1>. QED
  BY <1>2, <1>4

(* With one client, nobody writes the report between its stores and its    *)
(* loads, so the stroke arrives as it was.                                 *)
LEMMA OrderStep ==
    TypeOK /\ Busy /\ Alone /\ InOrder /\ [Next]_vars => InOrder'
<1>. SUFFICES ASSUME TypeOK, Busy, Alone, InOrder, [Next]_vars, OneClient'
              PROVE  /\ BleTold' /\ ClassicTold'
                     /\ \A c \in Clients : Reaches(c)'
  BY DEF InOrder
<1>0. /\ pc \in [Clients -> Pcs] /\ issued \in [Clients -> Nat]
      /\ todo \in [Clients -> Seq(Reports)] /\ tmp \in [Clients -> Reports]
      /\ keyboard_report \in Reports /\ input_report \in Reports
      /\ lost \subseteq Clients
  BY DEF TypeOK
<1>1. /\ BleTold /\ ClassicTold
      /\ \A c \in Clients : Reaches(c)
      /\ \A c \in Clients :
           Issue(c) \/ ClientStep(c) =>
              \A d \in Clients \ {c} : pc[d] = "idle" /\ pc'[d] = "idle"
  BY OnlyOne DEF InOrder
<1>. DEFINE Goal == BleTold' /\ ClassicTold' /\ \A c \in Clients : Reaches(c)'
            BleAt(c) == ble_view # NotSeen =>
                          /\ notify_enabled
                          /\ \/ ble_view = input_report
                             \/ pc[c] \in {"load_mod", "load_key", "emit"}
            ClassicAt(c) == /\ classic_view # NotSeen =>
                                 /\ classic /\ lost = {}
                                 /\ \/ classic_view = keyboard_report
                                    \/ pc[c] \notin {"idle", "stroke", "next"}
                            /\ lost \subseteq {c}
                            /\ c \in lost => pc[c] = "write"
<1>2. ASSUME NEW c \in Clients, Issue(c) \/ ClientStep(c),
             BleAt(c)', ClassicAt(c)', Reaches(c)'
      PROVE  Goal
  <2>1. \A d \in Clients \ {c} : Reaches(d)'
    BY <1>1, <1>2 DEF Reaches
  <2>2. BleTold' /\ ClassicTold'
    BY <1>2 DEF BleTold, ClassicTold
  <2>. QED
    BY <1>2, <2>1, <2>2
<1>3. ASSUME NEW c \in Clients, Issue(c) \/ ClientStep(c)
      PROVE  BleAt(c) /\ ClassicAt(c) /\ Reaches(c)
  <2>1. \A d \in Clients \ {c} : pc[d] = "idle"
    BY <1>1, <1>3
  <2>. QED
    BY <1>0, <1>1, <2>1 DEF BleTold, ClassicTold
<1>4. ASSUME NEW c \in Clients, pc[c] \notin {"idle", "stroke"}
      PROVE  Head(todo[c]) \in Reports
  BY <1>4, StrokesLeft
<1>. USE DEF Goto, hostVars
<1>5. ASSUME NEW c \in Clients, Issue(c) \/ Answer(c) \/ NextStroke(c)
      PROVE  Goal
  <2>1. /\ UNCHANGED <<keyboard_report, input_report, hostVars, ble_view,
                       classic_view>>
        /\ pc[c] \in {"idle", "stroke", "next"}
        /\ pc'[c] \in {"idle", "stroke", "next"}
        /\ pc'[c] \in {"idle", "stroke"}
    BY <1>0, <1>5 DEF Issue, Answer, NextStroke
  <2>2. Reaches(c)'
    BY <2>1 DEF Reaches
  <2>3. BleAt(c) /\ ClassicAt(c)
    BY <1>3, <1>5 DEF ClientStep
  <2>4. BleAt(c)' /\ ClassicAt(c)'
    BY <2>1, <2>3
  <2>. QED
    BY <1>2, <1>5, <2>2, <2>4 DEF ClientStep
<1>6. ASSUME NEW c \in Clients, Fill(c) \/ StoreMod(c) \/ StoreKey(c)
      PROVE  Goal
  <2>1. BleAt(c) /\ ClassicAt(c) /\ Reaches(c)
    BY <1>3, <1>6 DEF ClientStep
  <2>2. /\ UNCHANGED <<input_report, hostVars, ble_view, classic_view, todo>>
        /\ pc[c] \in {"stroke", "mod", "key"}
        /\ pc'[c] \in {"mod", "key", "check"}
    BY <1>0, <1>6 DEF Fill, StoreMod, StoreKey
  <2>3. Reaches(c)'
    <3>1. CASE Fill(c)
      BY <1>0, <2>2, <3>1 DEF Fill, Reaches
    <3>2. CASE StoreMod(c)
      BY <1>0, <2>1, <2>2, <3>2 DEF StoreMod, Reaches, Zero
    <3>3. CASE StoreKey(c)
      <4>1. Head(todo[c]) \in Reports
        BY <1>4, <3>3 DEF StoreKey
      <4>2. keyboard_report' = [mod |-> Head(todo[c]).mod,
                                key |-> Head(todo[c]).key]
        <5>1. keyboard_report = [mod |-> Head(todo[c]).mod, key |-> 0]
          BY <2>1, <3>3 DEF StoreKey, Reaches
        <5>2. keyboard_report' =
                 [keyboard_report EXCEPT !.key = Head(todo[c]).key]
          BY <3>3 DEF StoreKey
        <5>. QED
          BY <5>1, <5>2
      <4>3. keyboard_report' = Head(todo[c])
        BY <4>1, <4>2 DEF Reports
      <4>4. pc'[c] = "check"
        BY <1>0, <3>3 DEF StoreKey
      <4>. QED
        BY <2>2, <4>3, <4>4 DEF Reaches
    <3>. QED
      BY <1>6, <3>1, <3>2, <3>3
  <2>4. BleAt(c)' /\ ClassicAt(c)'
    BY <2>1, <2>2
  <2>. QED
    BY <1>2, <1>6, <2>3, <2>4 DEF ClientStep
<1>7. ASSUME NEW c \in Clients, CheckRegistered(c) \/ Lock(c) \/ Copy(c)
      PROVE  Goal
  <2>1. BleAt(c) /\ ClassicAt(c) /\ Reaches(c)
    BY <1>3, <1>7 DEF ClientStep
  <2>2. /\ UNCHANGED <<keyboard_report, input_report, hostVars, ble_view,
                       classic_view, todo>>
        /\ pc[c] \in {"check", "lock", "copy"}
        /\ pc'[c] \in {"lock", "copy", "classic", "store"}
        /\ pc'[c] = "store" => tmp'[c].mod = keyboard_report.mod
    <3>1. CASE CheckRegistered(c)
      BY <1>0, <3>1 DEF CheckRegistered
    <3>2. CASE Lock(c)
      BY <1>0, <3>2 DEF Lock
    <3>3. CASE Copy(c)
      BY <1>0, <3>3 DEF Copy, LoadMod
    <3>. QED
      BY <1>7, <3>1, <3>2, <3>3
  <2>3. Reaches(c)'
    BY <2>1, <2>2 DEF Reaches
  <2>4. BleAt(c)' /\ ClassicAt(c)'
    BY <2>1, <2>2
  <2>. QED
    BY <1>2, <1>7, <2>3, <2>4 DEF ClientStep
<1>8. ASSUME NEW c \in Clients,
             Store(c) \/ NotifyLoadsMod(c) \/ NotifyLoadsKey(c)
      PROVE  Goal
  <2>1. BleAt(c) /\ ClassicAt(c) /\ Reaches(c)
    BY <1>3, <1>8 DEF ClientStep
  <2>2. /\ UNCHANGED <<keyboard_report, hostVars, ble_view, classic_view,
                       todo>>
        /\ pc[c] \in {"store", "load_mod", "load_key"}
        /\ pc'[c] \in {"load_mod", "load_key", "emit", "classic"}
        /\ pc'[c] = "classic" => ~notify_enabled
        /\ keyboard_report = Head(todo[c])
    BY <1>0, <1>8, <2>1 DEF Store, NotifyLoadsMod, NotifyLoadsKey, Reaches
  <2>3. LoadKey(c) /\ tmp[c].mod = Head(todo[c]).mod
           => tmp'[c] = Head(todo[c])
    <3>. SUFFICES ASSUME LoadKey(c), tmp[c].mod = Head(todo[c]).mod
                  PROVE  tmp'[c] = Head(todo[c])
      OBVIOUS
    <3>1. tmp'[c] = [tmp[c] EXCEPT !.key = keyboard_report.key]
      BY <1>0 DEF LoadKey
    <3>2. tmp[c] \in Reports /\ Head(todo[c]) \in Reports
      BY <1>0, <2>2
    <3>. QED
      BY <2>2, <3>1, <3>2 DEF Reports
  <2>4. Reaches(c)'
    <3>1. CASE Store(c)
      BY <1>0, <2>1, <2>2, <2>3, <3>1 DEF Store, Reaches
    <3>2. CASE NotifyLoadsMod(c)
      BY <1>0, <2>1, <2>2, <3>2 DEF NotifyLoadsMod, LoadMod, Reaches
    <3>3. CASE NotifyLoadsKey(c)
      BY <1>0, <2>1, <2>2, <2>3, <3>3 DEF NotifyLoadsKey, Reaches
    <3>. QED
      BY <1>8, <3>1, <3>2, <3>3
  <2>5. BleAt(c)' /\ ClassicAt(c)'
    BY <2>1, <2>2
  <2>. QED
    BY <1>2, <1>8, <2>4, <2>5 DEF ClientStep
<1>9. ASSUME NEW c \in Clients, Emit(c) PROVE Goal
  <2>1. BleAt(c) /\ ClassicAt(c) /\ Reaches(c)
    BY <1>3, <1>9 DEF ClientStep
  <2>2. /\ UNCHANGED <<keyboard_report, input_report, hostVars, classic_view,
                       todo>>
        /\ pc[c] = "emit" /\ pc'[c] = "classic"
        /\ ble_view' = IF notify_enabled THEN tmp[c] ELSE ble_view
    BY <1>0, <1>9 DEF Emit
  <2>3. Reaches(c)' /\ BleAt(c)' /\ ClassicAt(c)'
    BY <2>1, <2>2 DEF Reaches
  <2>. QED
    BY <1>2, <1>9, <2>3 DEF ClientStep
<1>10. ASSUME NEW c \in Clients, ClassicLoads(c) PROVE Goal
  <2>1. BleAt(c) /\ ClassicAt(c) /\ Reaches(c)
    BY <1>3, <1>10 DEF ClientStep
  <2>2. /\ UNCHANGED <<keyboard_report, input_report, hostVars, ble_view,
                       classic_view, todo>>
        /\ pc[c] = "classic"
        /\ \/ classic /\ pc'[c] = "write" /\ tmp'[c] = keyboard_report
           \/ ~classic /\ pc'[c] = "next"
    <3>1. CASE classic
      BY <1>0, <1>10, <3>1 DEF ClassicLoads
    <3>2. CASE ~classic
      BY <1>0, <1>10, <3>2 DEF ClassicLoads
    <3>. QED
      BY <3>1, <3>2
  <2>3. Reaches(c)' /\ BleAt(c)' /\ ClassicAt(c)'
    BY <2>1, <2>2 DEF Reaches
  <2>. QED
    BY <1>2, <1>10, <2>3 DEF ClientStep
<1>11. ASSUME NEW c \in Clients, ClassicWrites(c) PROVE Goal
  <2>1. BleAt(c) /\ ClassicAt(c) /\ Reaches(c)
    BY <1>3, <1>11 DEF ClientStep
  <2>2. /\ UNCHANGED <<keyboard_report, input_report, registered,
                       notify_enabled, classic, ble_view, todo>>
        /\ pc[c] = "write" /\ pc'[c] = "next" /\ lost' = lost \ {c}
        /\ classic_view' =
              IF classic /\ c \notin lost THEN tmp[c] ELSE classic_view
    BY <1>0, <1>11 DEF ClassicWrites
  <2>3. Reaches(c)' /\ BleAt(c)' /\ ClassicAt(c)'
    BY <2>1, <2>2 DEF Reaches
  <2>. QED
    BY <1>2, <1>11, <2>3 DEF ClientStep
<1>12. CASE \/ StartNotify \/ StopNotify \/ ClassicConnects
            \/ ClassicDisconnects \/ Unregister \/ UNCHANGED vars
  <2>1. UNCHANGED <<pc, todo, tmp, keyboard_report, input_report>>
    BY <1>12 DEF StartNotify, StopNotify, ClassicConnects,
                 ClassicDisconnects, Unregister, clientVars, vars
  <2>2. \A c \in Clients : Reaches(c)'
    BY <1>1, <2>1 DEF Reaches
  <2>3. \/ notify_enabled' = notify_enabled /\ ble_view' = ble_view
        \/ notify_enabled' /\ ble_view' = ble_view
        \/ ble_view' = NotSeen
    BY <1>12 DEF StartNotify, StopNotify, ClassicConnects,
                 ClassicDisconnects, Unregister, vars
  <2>4. \/ /\ classic' = classic \/ classic'
           /\ classic_view' = classic_view /\ lost' = lost
        \/ /\ classic_view' = NotSeen
           /\ lost' = {c \in Clients : pc[c] = "write"}
    BY <1>12 DEF StartNotify, StopNotify, ClassicConnects,
                 ClassicDisconnects, Unregister, vars
  <2>5. BleTold'
    BY <1>1, <2>1, <2>3 DEF BleTold
  <2>6. ClassicTold'
    BY <1>1, <2>1, <2>4 DEF ClassicTold
  <2>. QED
    BY <2>2, <2>5, <2>6
<1>. QED
  BY <1>5, <1>6, <1>7, <1>8, <1>9, <1>10, <1>11, <1>12 DEF Next, ClientStep

LEMMA OrderInvariant == Spec => [](TypeOK /\ Busy /\ Alone /\ InOrder)
<1>1. Init => Alone /\ InOrder
  BY DEF Init, Alone, InOrder, BleTold, ClassicTold, Reaches
<1>. QED
  BY <1>1, TypeInit, TypeStep, AloneStep, OrderStep, PTL DEF Spec

(* A single client's reports leave whole and in the order of its strokes,  *)
(* although both send functions read the shared report again, unlocked.    *)
THEOREM OwnStrokeSent == Spec => []SendsOwnStroke
<1>1. InOrder => SendsOwnStroke
  BY DEF InOrder, SendsOwnStroke, Reaches
<1>. QED
  BY <1>1, OrderInvariant, PTL

(* Between a single client's commands, a subscribed BLE host was told what *)
(* is stored and a Classic host what is in the buffer.                     *)
THEOREM HostsAreTold == Spec => []HostsFollow
<1>1. InOrder => HostsFollow
  BY DEF InOrder, HostsFollow, Quiet, BleTold, ClassicTold
<1>. QED
  BY <1>1, OrderInvariant, PTL

-----------------------------------------------------------------------------
(* The stream.  A client at rest has nothing left to send, and of one that *)
(* is alone the mapping sees its own strokes and its own place.            *)
Rest == \A c \in Clients : pc[c] = "idle" => todo[c] = << >>

LEMMA RestStep == TypeOK /\ Rest /\ [Next]_vars => Rest'
<1>. SUFFICES ASSUME TypeOK, Rest, [Next]_vars PROVE Rest'
  OBVIOUS
<1>0. pc \in [Clients -> Pcs] /\ todo \in [Clients -> Seq(Reports)]
  BY DEF TypeOK
<1>. USE DEF Goto, hostVars, Rest
<1>1. ASSUME NEW c \in Clients, Issue(c) PROVE Rest'
  BY <1>0, <1>1 DEF Issue
<1>2. ASSUME NEW c \in Clients, NextStroke(c) PROVE Rest'
  BY <1>0, <1>2 DEF NextStroke
<1>3. ASSUME NEW c \in Clients, ClientStep(c), ~NextStroke(c) PROVE Rest'
  <2>1. todo' = todo
    BY <1>3 DEF ClientStep, Answer, Fill, StoreMod, StoreKey, CheckRegistered,
                Lock, Copy, Store, NotifyLoadsMod, NotifyLoadsKey, Emit,
                ClassicLoads, ClassicWrites
  <2>2. pc'[c] = "idle" => todo[c] = << >>
    <3>1. CASE ClassicLoads(c)
      BY <1>0, <3>1 DEF ClassicLoads
    <3>2. CASE ~ClassicLoads(c)
      BY <1>0, <1>3, <3>2
         DEF ClientStep, Answer, Fill, StoreMod, StoreKey, CheckRegistered,
             Lock, Copy, Store, NotifyLoadsMod, NotifyLoadsKey, Emit,
             ClassicWrites
    <3>. QED
      BY <3>1, <3>2
  <2>3. \E to : pc' = [pc EXCEPT ![c] = to]
    <3>1. CASE ClassicLoads(c)
      BY <3>1 DEF ClassicLoads
    <3>2. CASE ~ClassicLoads(c)
      BY <1>3, <3>2
         DEF ClientStep, Answer, Fill, StoreMod, StoreKey, CheckRegistered,
             Lock, Copy, Store, NotifyLoadsMod, NotifyLoadsKey, Emit,
             ClassicWrites
    <3>. QED
      BY <3>1, <3>2
  <2>. QED
    BY <1>0, <2>1, <2>2, <2>3
<1>4. CASE \/ StartNotify \/ StopNotify \/ ClassicConnects
           \/ ClassicDisconnects \/ Unregister \/ UNCHANGED vars
  BY <1>4 DEF StartNotify, StopNotify, ClassicConnects, ClassicDisconnects,
              Unregister, clientVars, vars
<1>. QED
  BY <1>1, <1>2, <1>3, <1>4 DEF Next

LEMMA SeenAlone ==
    ASSUME OneClient, NEW c \in Clients, issued[c] > 0
    PROVE  Strokes = todo[c]
<1>1. Issued = {c}
  BY DEF OneClient, Issued
<1>. QED
  BY <1>1 DEF Strokes

LEMMA SeenBefore ==
    ASSUME OneClient, TypeOK, Rest, NEW c \in Clients, pc[c] = "idle",
           \A d \in Clients \ {c} : ~(issued[d] > 0)
    PROVE  Strokes = << >>
<1>1. CASE issued[c] > 0
  BY <1>1, SeenAlone DEF Rest
<1>2. CASE ~(issued[c] > 0)
  BY <1>2 DEF Strokes, Issued
<1>. QED
  BY <1>1, <1>2

LEMMA SeenOffered ==
    ASSUME OneClient, NEW c \in Clients,
           \A d \in Clients \ {c} : pc[d] = "idle"
    PROVE  Offered = {place \in Places : pc[c] \in Past(place)}
<1>1. \A place \in Places : "idle" \notin Past(place)
  BY DEF Places, Past
<1>. QED
  BY <1>1 DEF Offered

LEMMA StreamInit == Init => Stream!Init
<1>. SUFFICES ASSUME Init PROVE Stream!Init
  OBVIOUS
<1>1. /\ issued = [c \in Clients |-> 0] /\ pc = [c \in Clients |-> "idle"]
      /\ input_report = Zero /\ ble_view = NotSeen /\ classic_view = NotSeen
      /\ registered = TRUE /\ notify_enabled = FALSE /\ classic = FALSE
  BY DEF Init
<1>2. OneClient = TRUE /\ Strokes = << >>
  BY <1>1 DEF OneClient, Strokes, Issued
<1>3. \A place \in Places : "idle" \notin Past(place)
  BY DEF Places, Past
<1>4. Offered = {}
  BY <1>1, <1>3 DEF Offered
<1>5. Has = [r \in Places |-> IF r = "store" THEN Zero ELSE NotSeen]
  BY <1>1, <1>2 DEF Has
<1>6. Listening = {} /\ Late = {}
  BY <1>1 DEF Listening, Late
<1>. QED
  BY <1>1, <1>2, <1>4, <1>5, <1>6
  DEF Stream!Init, Stream!Receivers, Stream!Hosts, Places

(* Once several clients are active nothing is promised.                    *)
LEMMA StreamCrowd ==
    ASSUME TypeOK, [Next]_vars, ~OneClient'
    PROVE  [Stream!Next]_(Stream!vars)
<1>1. Strokes' = << >> /\ Offered' = {}
      /\ Has' = [r \in Places |-> NotSeen]
      /\ Listening' = {} /\ Late' = {}
  BY DEF Strokes, Offered, Has, Listening, Late
<1>2. CASE OneClient
  <2>1. ~(issued' = issued)
    BY <1>2 DEF OneClient
  <2>2. registered' = registered
    BY <2>1 DEF Next, ClientStep, Issue, Answer, Fill, StoreMod, StoreKey,
                CheckRegistered, Lock, Copy, Store, NotifyLoadsMod,
                NotifyLoadsKey, Emit, ClassicLoads, ClassicWrites, NextStroke,
                StartNotify, StopNotify, ClassicConnects, ClassicDisconnects,
                Unregister, clientVars, hostVars, vars
  <2>3. Stream!Crowd
    BY <1>1, <1>2, <2>2
    DEF Stream!Crowd, Stream!Receivers, Stream!Hosts, Places
  <2>. QED
    BY <1>2, <2>3 DEF Stream!Next
<1>3. CASE ~OneClient
  <2>1. Strokes = << >> /\ Offered = {}
        /\ Has = [r \in Places |-> NotSeen]
        /\ Listening = {} /\ Late = {}
    BY <1>3 DEF Strokes, Offered, Has, Listening, Late
  <2>2. OneClient = FALSE /\ OneClient' = FALSE
    BY <1>3 DEF OneClient
  <2>3. CASE Unregister
    <3>1. Stream!Stop /\ registered
      BY <1>1, <2>1, <2>2, <2>3 DEF Unregister, Stream!Stop, Stream!hostVars
    <3>. QED
      BY <3>1 DEF Stream!Next
  <2>4. CASE ~Unregister
    <3>1. registered' = registered
      BY <2>4
      DEF Next, ClientStep, Issue, Answer, Fill, StoreMod, StoreKey,
          CheckRegistered, Lock, Copy, Store, NotifyLoadsMod, NotifyLoadsKey,
          Emit, ClassicLoads, ClassicWrites, NextStroke, StartNotify,
          StopNotify, ClassicConnects, ClassicDisconnects, clientVars,
          hostVars, vars
    <3>. QED
      BY <1>1, <2>1, <2>2, <3>1 DEF Stream!vars
  <2>. QED
    BY <2>3, <2>4
<1>. QED
  BY <1>2, <1>3

(* The second half of a copy: the key joins the modifier loaded before.    *)
LEMMA LoadedWhole ==
    ASSUME TypeOK, NEW c \in Clients, NEW stroke \in Reports,
           keyboard_report = stroke, tmp[c].mod = stroke.mod, LoadKey(c)
    PROVE  tmp'[c] = stroke
<1>1. tmp \in [Clients -> Reports]
  BY DEF TypeOK
<1>2. tmp'[c] = [tmp[c] EXCEPT !.key = keyboard_report.key]
  BY <1>1 DEF LoadKey
<1>. QED
  BY <1>1, <1>2 DEF Reports

(* A step of the only client.                                              *)
LEMMA StreamClient ==
    ASSUME TypeOK, Busy, Rest, Alone, InOrder, OneClient, OneClient',
           TypeOK', NEW c \in Clients, Issue(c) \/ ClientStep(c),
           \A d \in Clients \ {c} : pc[d] = "idle" /\ pc'[d] = "idle",
           [Next]_vars
    PROVE  [Stream!Next]_(Stream!vars)
<1>0. /\ pc \in [Clients -> Pcs] /\ issued \in [Clients -> Nat]
      /\ todo \in [Clients -> Seq(Reports)] /\ tmp \in [Clients -> Reports]
      /\ keyboard_report \in Reports /\ input_report \in Reports
      /\ todo' \in [Clients -> Seq(Reports)]
  BY DEF TypeOK
<1>1. /\ Offered = {place \in Places : pc[c] \in Past(place)}
      /\ Offered' = {place \in Places : pc'[c] \in Past(place)}
  <2>1. Offered = {place \in Places : pc[c] \in Past(place)}
    BY SeenOffered
  <2>2. \A place \in Places : "idle" \notin Past(place)
    BY DEF Places, Past
  <2>3. Offered' = {place \in Places : pc'[c] \in Past(place)}
    BY <2>2 DEF Offered
  <2>. QED
    BY <2>1, <2>3
<1>2. /\ Has = [place \in Places |->
                   IF place = "store" THEN input_report
                   ELSE IF place = "ble" THEN ble_view ELSE classic_view]
      /\ Has' = [place \in Places |->
                   IF place = "store" THEN input_report'
                   ELSE IF place = "ble" THEN ble_view' ELSE classic_view']
  BY DEF Has
<1>3. registered' = registered /\ Listening' = Listening
  BY DEF Listening, ClientStep, Issue, Answer, Fill, StoreMod, StoreKey,
         CheckRegistered, Lock, Copy, Store, NotifyLoadsMod,
         NotifyLoadsKey, Emit, ClassicLoads, ClassicWrites, NextStroke,
         hostVars
<1>. USE DEF Goto, hostVars
<1>4. CASE Issue(c)
  <2>1. pc[c] = "idle" /\ pc'[c] = "stroke" /\ issued'[c] > 0
        /\ input_report' = input_report /\ ble_view' = ble_view
        /\ classic_view' = classic_view
    <3>1. issued'[c] = issued[c] + 1 /\ issued[c] \in Nat
      BY <1>0, <1>4 DEF Issue
    <3>2. issued'[c] > 0
      BY <3>1
    <3>. QED
      BY <1>0, <1>4, <3>2 DEF Issue
  <2>2. \A d \in Clients \ {c} : ~(issued[d] > 0)
    BY <2>1, IssuedStep DEF OneClient
  <2>3. Strokes = << >>
    BY <2>1, <2>2, SeenBefore
  <2>4. Strokes' = todo'[c]
    <3>1. Issued' = {c}
      BY <2>1 DEF OneClient, Issued
    <3>. QED
      BY <3>1 DEF Strokes
  <2>5. Offered' = Offered
    BY <1>1, <2>1 DEF Places, Past
  <2>6. Has' = Has
    BY <1>2, <2>1
  <2>7. Stream!Command
    <3>1. Late' = Late
      BY <1>4 DEF Issue, Late
    <3>. QED
      BY <1>0, <1>3, <2>3, <2>4, <2>5, <2>6, <3>1
      DEF Stream!Command, Stream!hostVars
  <2>. QED
    BY <2>7 DEF Stream!Next
<1>5. CASE ClientStep(c)
  <2>1. pc[c] # "idle" /\ issued' = issued
    <3>1. CASE ClassicLoads(c)
      BY <3>1 DEF ClassicLoads
    <3>2. CASE ~ClassicLoads(c)
      BY <1>5, <3>2
         DEF ClientStep, Answer, Fill, StoreMod, StoreKey, CheckRegistered,
             Lock, Copy, Store, NotifyLoadsMod, NotifyLoadsKey, Emit,
             ClassicWrites, NextStroke
    <3>. QED
      BY <3>1, <3>2
  <2>2. issued[c] > 0
    BY <1>0, <2>1 DEF Alone
  <2>3. Strokes = todo[c]
    BY <2>2, SeenAlone
  <2>4. Strokes' = todo'[c]
    <3>1. Issued' = {c}
      BY <2>1, <2>2 DEF OneClient, Issued
    <3>. QED
      BY <3>1 DEF Strokes
  <2>5. Reaches(c)
    BY DEF InOrder
  <2>6. /\ Listening = {host \in {"ble", "classic"} :
                         IF host = "ble" THEN notify_enabled ELSE classic}
        /\ Late = IF classic /\ lost # {} THEN {"classic"} ELSE {}
        /\ Late' = {} /\ (pc[c] # "write" => Late = {})
    <3>1. lost \subseteq {c} /\ (c \in lost => pc[c] = "write")
      BY DEF InOrder, ClassicTold, TypeOK
    <3>2. lost' = {}
      <4>1. CASE ClassicWrites(c)
        BY <3>1, <4>1 DEF ClassicWrites
      <4>2. CASE ClassicLoads(c)
        BY <3>1, <4>2 DEF ClassicLoads
      <4>3. CASE ~ClassicWrites(c) /\ ~ClassicLoads(c)
        BY <1>5, <3>1, <4>3
           DEF ClientStep, Answer, Fill, StoreMod, StoreKey, CheckRegistered,
               Lock, Copy, Store, NotifyLoadsMod, NotifyLoadsKey, Emit,
               NextStroke
      <4>. QED
        BY <4>1, <4>2, <4>3
    <3>. QED
      BY <3>1, <3>2 DEF Listening, Late
  <2>. DEFINE Turn(turn, told) ==
                /\ turn \subseteq Places \ Offered /\ turn # {}
                /\ told \subseteq turn
                /\ todo' = todo /\ todo[c] # << >>
                /\ Offered' = Offered \cup turn
                /\ "ble" \in Offered' => "store" \in Offered'
                /\ Late \subseteq turn
                /\ told \subseteq {"store"} \cup Listening
                /\ \A r \in turn \ told :
                      \/ r \in {"store", "ble"} /\ ~registered
                      \/ /\ r \in {"ble", "classic"}
                         /\ r \notin Listening \/ r \in Late
                /\ Has' = [r \in Places |->
                              IF r \in told THEN Head(todo[c]) ELSE Has[r]]
  <2>7. ASSUME NEW turn, NEW told, Turn(turn, told) PROVE Stream!Next
    <3>1. Stream!Offer(turn)
      BY <1>3, <2>3, <2>4, <2>6, <2>7
      DEF Stream!Offer, Stream!Excused, Stream!Receivers, Stream!Hosts, Places
    <3>. QED
      BY <2>7, <3>1 DEF Stream!Next, Stream!Receivers, Stream!Hosts, Places
  <2>. HIDE DEF Turn
  <2>8. ASSUME todo' = todo, Offered' = Offered, input_report' = input_report,
               ble_view' = ble_view, classic_view' = classic_view,
               pc[c] # "write"
        PROVE  [Stream!Next]_(Stream!vars)
    <3>1. Has' = Has
      BY <1>2, <2>8
    <3>. QED
      BY <1>3, <2>3, <2>4, <2>6, <2>8, <3>1 DEF Stream!vars
  <2>9. CASE \/ Answer(c) \/ Fill(c) \/ StoreMod(c) \/ StoreKey(c)
             \/ Lock(c) \/ Copy(c) \/ NotifyLoadsMod(c)
             \/ NotifyLoadsKey(c)
    <3>1. /\ pc[c] \in {"stroke", "mod", "key", "lock", "copy", "load_mod",
                         "load_key"}
          /\ pc'[c] \in {"idle", "mod", "key", "check", "copy", "store",
                          "load_key", "emit"}
          /\ pc[c] \in {"load_mod", "load_key"}
                <=> pc'[c] \in {"load_key", "emit"}
          /\ todo' = todo /\ input_report' = input_report
          /\ ble_view' = ble_view /\ classic_view' = classic_view
      BY <1>0, <2>9 DEF Answer, Fill, StoreMod, StoreKey, Lock, Copy,
                        NotifyLoadsMod, NotifyLoadsKey
    <3>2. Offered' = Offered
      BY <1>1, <3>1 DEF Places, Past
    <3>. QED
      BY <2>8, <3>1, <3>2
  <2>10. CASE CheckRegistered(c)
    <3>1. /\ pc[c] = "check" /\ todo' = todo /\ todo[c] # << >>
          /\ pc'[c] = IF registered THEN "lock" ELSE "classic"
          /\ input_report' = input_report /\ ble_view' = ble_view
          /\ classic_view' = classic_view
      BY <1>0, <2>10 DEF CheckRegistered, Busy
    <3>2. CASE registered
      <4>1. Offered' = Offered
        BY <1>1, <3>1, <3>2 DEF Places, Past
      <4>. QED
        BY <2>8, <3>1, <4>1
    <3>3. CASE ~registered
      <4>1. Offered = {} /\ Offered' = {"store", "ble"}
        BY <1>1, <3>1, <3>3 DEF Places, Past
      <4>2. Has' = [r \in Places |-> IF r \in {} THEN Head(todo[c])
                                                ELSE Has[r]]
        BY <1>2, <3>1 DEF Places
      <4>3. Turn({"store", "ble"}, {})
        BY <2>6, <3>1, <3>3, <4>1, <4>2 DEF Places, Turn
      <4>. QED
        BY <2>7, <4>3
    <3>. QED
      BY <3>2, <3>3
  <2>11. CASE Store(c)
    <3>1. /\ pc[c] = "store" /\ todo' = todo /\ todo[c] # << >>
          /\ pc'[c] = IF notify_enabled THEN "load_mod" ELSE "classic"
          /\ input_report' = tmp'[c] /\ LoadKey(c)
          /\ ble_view' = ble_view /\ classic_view' = classic_view
      BY <1>0, <2>11 DEF Store, Busy
    <3>2. tmp'[c] = Head(todo[c])
      BY <1>0, <2>5, <3>1, StrokesLeft, LoadedWhole DEF Reaches
    <3>3. Has' = [r \in Places |-> IF r \in {"store"} THEN Head(todo[c])
                                                     ELSE Has[r]]
      BY <1>2, <3>1, <3>2 DEF Places
    <3>4. CASE notify_enabled
      <4>1. Offered = {} /\ Offered' = {"store"}
        BY <1>1, <3>1, <3>4 DEF Places, Past
      <4>2. Turn({"store"}, {"store"})
        BY <2>6, <3>1, <3>3, <4>1 DEF Places, Turn
      <4>. QED
        BY <2>7, <4>2
    <3>5. CASE ~notify_enabled
      <4>1. Offered = {} /\ Offered' = {"store", "ble"}
        BY <1>1, <3>1, <3>5 DEF Places, Past
      <4>2. "ble" \notin Listening
        BY <2>6, <3>5
      <4>3. Turn({"store", "ble"}, {"store"})
        BY <2>6, <3>1, <3>3, <4>1, <4>2 DEF Places, Turn
      <4>. QED
        BY <2>7, <4>3
    <3>. QED
      BY <3>4, <3>5
  <2>12. CASE Emit(c)
    <3>1. /\ pc[c] = "emit" /\ pc'[c] = "classic"
          /\ todo' = todo /\ todo[c] # << >>
          /\ ble_view' = IF notify_enabled THEN tmp[c] ELSE ble_view
          /\ input_report' = input_report /\ classic_view' = classic_view
          /\ tmp[c] = Head(todo[c])
      BY <1>0, <2>5, <2>12 DEF Emit, Busy, Reaches
    <3>2. Offered = {"store"} /\ Offered' = {"store", "ble"}
      BY <1>1, <3>1 DEF Places, Past
    <3>4. CASE notify_enabled
      <4>1. Has' = [r \in Places |-> IF r \in {"ble"} THEN Head(todo[c])
                                                     ELSE Has[r]]
        BY <1>2, <3>1, <3>4 DEF Places
      <4>2. Turn({"ble"}, {"ble"})
        BY <2>6, <3>1, <3>2, <3>4, <4>1 DEF Places, Turn
      <4>. QED
        BY <2>7, <4>2
    <3>5. CASE ~notify_enabled
      <4>1. Has' = [r \in Places |-> IF r \in {} THEN Head(todo[c])
                                                ELSE Has[r]]
        BY <1>2, <3>1, <3>5 DEF Places
      <4>2. "ble" \notin Listening
        BY <2>6, <3>5
      <4>3. Turn({"ble"}, {})
        BY <2>6, <3>1, <3>2, <4>1, <4>2 DEF Places, Turn
      <4>. QED
        BY <2>7, <4>3
    <3>. QED
      BY <3>4, <3>5
  <2>13. CASE ClassicLoads(c)
    <3>1. /\ pc[c] = "classic" /\ todo' = todo /\ todo[c] # << >>
          /\ pc'[c] = IF classic THEN "write" ELSE "next"
          /\ input_report' = input_report /\ ble_view' = ble_view
          /\ classic_view' = classic_view
      <4>1. CASE classic
        BY <1>0, <2>13, <4>1 DEF ClassicLoads, Busy
      <4>2. CASE ~classic
        BY <1>0, <2>13, <4>2 DEF ClassicLoads, Busy
      <4>. QED
        BY <4>1, <4>2
    <3>2. CASE classic
      <4>1. Offered' = Offered
        BY <1>1, <3>1, <3>2 DEF Places, Past
      <4>. QED
        BY <2>8, <3>1, <4>1
    <3>3. CASE ~classic
      <4>1. Offered = {"store", "ble"} /\ Offered' = Places
        BY <1>1, <3>1, <3>3 DEF Places, Past
      <4>2. Has' = [r \in Places |-> IF r \in {} THEN Head(todo[c])
                                                ELSE Has[r]]
        BY <1>2, <3>1 DEF Places
      <4>3. "classic" \notin Listening
        BY <2>6, <3>3
      <4>4. Turn({"classic"}, {})
        BY <2>6, <3>1, <4>1, <4>2, <4>3 DEF Places, Turn
      <4>. QED
        BY <2>7, <4>4
    <3>. QED
      BY <3>2, <3>3
  <2>14. CASE ClassicWrites(c)
    <3>1. /\ pc[c] = "write" /\ pc'[c] = "next"
          /\ todo' = todo /\ todo[c] # << >>
          /\ classic_view' =
                IF classic /\ c \notin lost THEN tmp[c] ELSE classic_view
          /\ input_report' = input_report /\ ble_view' = ble_view
          /\ tmp[c] = Head(todo[c])
      BY <1>0, <2>5, <2>14 DEF ClassicWrites, Busy, Reaches
    <3>2. Offered = {"store", "ble"} /\ Offered' = Places
      BY <1>1, <3>1 DEF Places, Past
    <3>4. CASE classic /\ c \notin lost
      <4>1. Has' = [r \in Places |-> IF r \in {"classic"} THEN Head(todo[c])
                                                         ELSE Has[r]]
        BY <1>2, <3>1, <3>4 DEF Places
      <4>2. Turn({"classic"}, {"classic"})
        BY <2>6, <3>1, <3>2, <3>4, <4>1 DEF Places, Turn
      <4>. QED
        BY <2>7, <4>2
    <3>5. CASE ~(classic /\ c \notin lost)
      <4>1. Has' = [r \in Places |-> IF r \in {} THEN Head(todo[c])
                                                ELSE Has[r]]
        BY <1>2, <3>1, <3>5 DEF Places
      <4>2. "classic" \notin Listening \/ "classic" \in Late
        BY <2>6, <3>5
      <4>3. Turn({"classic"}, {})
        BY <2>6, <3>1, <3>2, <4>1, <4>2 DEF Places, Turn
      <4>. QED
        BY <2>7, <4>3
    <3>. QED
      BY <3>4, <3>5
  <2>15. CASE NextStroke(c)
    <3>1. /\ pc[c] = "next" /\ pc'[c] = "stroke"
          /\ todo'[c] = Tail(todo[c]) /\ todo[c] # << >>
          /\ input_report' = input_report /\ ble_view' = ble_view
          /\ classic_view' = classic_view
      BY <1>0, <2>15 DEF NextStroke, Busy
    <3>2. Offered = Places /\ Offered' = {}
      BY <1>1, <3>1 DEF Places, Past
    <3>3. Has' = Has
      BY <1>2, <3>1
    <3>4. Stream!NextStroke
      BY <1>3, <2>3, <2>4, <2>6, <3>1, <3>2, <3>3
      DEF Stream!NextStroke, Stream!Receivers, Stream!Hosts, Places
    <3>. QED
      BY <3>4 DEF Stream!Next
  <2>. QED
    BY <1>5, <2>9, <2>10, <2>11, <2>12, <2>13, <2>14, <2>15 DEF ClientStep
<1>. QED
  BY <1>4, <1>5

(* A step of the main thread or of a host.                                 *)
LEMMA StreamHosts ==
    ASSUME TypeOK, Busy, Alone, InOrder, OneClient, OneClient',
           \/ StartNotify \/ StopNotify \/ ClassicConnects
           \/ ClassicDisconnects \/ Unregister \/ UNCHANGED vars
    PROVE  [Stream!Next]_(Stream!vars)
<1>1. UNCHANGED <<pc, todo, issued, input_report>>
  BY DEF StartNotify, StopNotify, ClassicConnects, ClassicDisconnects,
         Unregister, clientVars, vars
<1>2. Issued' = Issued /\ OneClient' = OneClient
  BY <1>1 DEF Issued, OneClient
<1>3. Strokes' = Strokes /\ Offered' = Offered
  BY <1>1, <1>2 DEF Strokes, Offered
<1>4. /\ Has = [place \in Places |->
                   IF place = "store" THEN input_report
                   ELSE IF place = "ble" THEN ble_view ELSE classic_view]
      /\ Has' = [place \in Places |->
                   IF place = "store" THEN input_report'
                   ELSE IF place = "ble" THEN ble_view' ELSE classic_view']
  BY DEF Has
<1>5. /\ "ble" \in Listening <=> notify_enabled
      /\ "classic" \in Listening <=> classic
      /\ Listening \subseteq {"ble", "classic"}
      /\ "ble" \in Listening' <=> notify_enabled'
      /\ "classic" \in Listening' <=> classic'
      /\ Listening' \subseteq {"ble", "classic"}
  BY DEF Listening
<1>6. /\ Late = IF classic /\ lost # {} THEN {"classic"} ELSE {}
      /\ Late' = IF classic' /\ lost' # {} THEN {"classic"} ELSE {}
  BY DEF Late
<1>same. ASSUME UNCHANGED <<notify_enabled, classic>>
         PROVE  Listening' = Listening
  BY <1>2, <1>same DEF Listening
<1>7. CASE UNCHANGED <<ble_view, classic_view, registered, notify_enabled,
                       classic, lost>>
  <2>1. Has' = Has
    BY <1>1, <1>4, <1>7
  <2>2. Listening' = Listening /\ Late' = Late
    BY <1>6, <1>7, <1>same
  <2>. QED
    BY <1>2, <1>3, <1>7, <2>1, <2>2 DEF Stream!vars
<1>8. CASE StartNotify
  <2>1. /\ UNCHANGED <<ble_view, classic_view, registered, classic, lost>>
        /\ ~notify_enabled /\ notify_enabled'
    BY <1>8 DEF StartNotify
  <2>2. Has' = Has /\ Late' = Late
    BY <1>1, <1>4, <1>6, <2>1
  <2>3. "ble" \notin Listening /\ Listening' = Listening \cup {"ble"}
    BY <1>5, <2>1
  <2>4. Stream!Join("ble")
    BY <1>2, <1>3, <2>1, <2>2, <2>3 DEF Stream!Join
  <2>. QED
    BY <2>4 DEF Stream!Next, Stream!Hosts
<1>9. CASE ClassicConnects
  <2>1. /\ UNCHANGED <<ble_view, classic_view, registered, notify_enabled,
                       lost>>
        /\ ~classic /\ classic'
    BY <1>9 DEF ClassicConnects
  <2>2. Has' = Has
    BY <1>1, <1>4, <2>1
  <2>3. "classic" \notin Listening
        /\ Listening' = Listening \cup {"classic"}
    BY <1>5, <2>1
  <2>4. /\ Late = {} /\ (lost = {} => Late' = {})
        /\ lost # {} => Late' = {"classic"}
    BY <1>6, <2>1
  <2>5. lost # {} => Strokes # << >>
    <3>. SUFFICES ASSUME NEW c \in lost PROVE Strokes # << >>
      OBVIOUS
    <3>1. c \in Clients /\ pc[c] = "write"
      BY DEF TypeOK, InOrder, ClassicTold
    <3>2. issued[c] > 0 /\ todo[c] # << >>
      BY <3>1 DEF TypeOK, Alone, Busy
    <3>. QED
      BY <3>1, <3>2, SeenAlone
  <2>6. Stream!Join("classic")
    BY <1>2, <1>3, <2>1, <2>2, <2>3, <2>4, <2>5 DEF Stream!Join
  <2>. QED
    BY <2>6 DEF Stream!Next, Stream!Hosts
<1>10. CASE StopNotify
  <2>1. /\ UNCHANGED <<classic_view, registered, classic, lost>>
        /\ ble_view' = NotSeen /\ notify_enabled /\ ~notify_enabled'
    BY <1>10 DEF StopNotify
  <2>2. Has' = [Has EXCEPT !["ble"] = NotSeen]
    BY <1>1, <1>4, <2>1 DEF Places
  <2>3. "ble" \in Listening /\ Listening' = Listening \ {"ble"}
    BY <1>5, <2>1
  <2>4. Late' = Late \ {"ble"}
    BY <1>6, <2>1
  <2>5. Stream!Leave("ble")
    BY <1>2, <1>3, <2>1, <2>2, <2>3, <2>4 DEF Stream!Leave
  <2>. QED
    BY <2>5 DEF Stream!Next, Stream!Hosts
<1>11. CASE ClassicDisconnects
  <2>1. /\ UNCHANGED <<ble_view, registered, notify_enabled>>
        /\ classic_view' = NotSeen /\ classic /\ ~classic'
    BY <1>11 DEF ClassicDisconnects
  <2>2. Has' = [Has EXCEPT !["classic"] = NotSeen]
    BY <1>1, <1>4, <2>1 DEF Places
  <2>3. "classic" \in Listening /\ Listening' = Listening \ {"classic"}
    BY <1>5, <2>1
  <2>4. Late' = Late \ {"classic"}
    BY <1>6, <2>1
  <2>5. Stream!Leave("classic")
    BY <1>2, <1>3, <2>1, <2>2, <2>3, <2>4 DEF Stream!Leave
  <2>. QED
    BY <2>5 DEF Stream!Next, Stream!Hosts
<1>12. CASE Unregister
  <2>1. /\ UNCHANGED <<ble_view, classic_view, notify_enabled, classic, lost>>
        /\ registered /\ registered' = FALSE
    BY <1>12 DEF Unregister
  <2>2. Has' = Has /\ Late' = Late
    BY <1>1, <1>4, <1>6, <2>1
  <2>3. Listening' = Listening
    BY <2>1, <1>same
  <2>4. Stream!Stop
    BY <1>2, <1>3, <2>1, <2>2, <2>3 DEF Stream!Stop, Stream!hostVars
  <2>. QED
    BY <2>1, <2>4 DEF Stream!Next
<1>. QED
  BY <1>7, <1>8, <1>9, <1>10, <1>11, <1>12 DEF vars

LEMMA StreamStep ==
    ASSUME TypeOK, TypeOK', Busy, Rest, Alone, InOrder, [Next]_vars
    PROVE  [Stream!Next]_(Stream!vars)
<1>1. CASE ~OneClient'
  BY <1>1, StreamCrowd
<1>2. CASE OneClient'
  <2>1. OneClient
    BY <1>2, OnlyOne
  <2>2. ASSUME NEW c \in Clients, Issue(c) \/ ClientStep(c)
        PROVE  [Stream!Next]_(Stream!vars)
    <3>1. \A d \in Clients \ {c} : pc[d] = "idle" /\ pc'[d] = "idle"
      BY <1>2, <2>2, OnlyOne
    <3>. QED
      BY <1>2, <2>1, <2>2, <3>1, StreamClient
  <2>3. CASE \/ StartNotify \/ StopNotify \/ ClassicConnects
             \/ ClassicDisconnects \/ Unregister \/ UNCHANGED vars
    BY <1>2, <2>1, <2>3, StreamHosts
  <2>. QED
    BY <2>2, <2>3 DEF Next
<1>. QED
  BY <1>1, <1>2

(* The threads, the lock and the unlocked re-reads of the shared report    *)
(* implement a stream of strokes: as long as one client alone has issued   *)
(* commands, its strokes are stored and reach every host that listens when *)
(* its turn comes, whole, once each, and in their order.                   *)
THEOREM IsStream == Spec => ImplementsStream
<1>1. Init => Rest
  BY DEF Init, Rest
<1>2. Spec => []Rest
  BY <1>1, TypeCorrect, RestStep, PTL DEF Spec
<1>3. TypeOK /\ TypeOK' /\ Busy /\ Rest /\ Alone /\ InOrder /\ [Next]_vars
        => [Stream!Next]_(Stream!vars)
  BY StreamStep
<1>. QED
  BY <1>2, <1>3, StreamInit, OrderInvariant, PTL
     DEF Spec, ImplementsStream, Stream!Spec
=============================================================================
