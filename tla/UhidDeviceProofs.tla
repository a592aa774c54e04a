-------------------------- MODULE UhidDeviceProofs --------------------------
(***************************************************************************)
(* Theorems about UhidDevice, for any descriptor numbers, any length of    *)
(* the kernel's queue and any number of requests.                          *)
(***************************************************************************)
EXTENDS UhidDevice, TLAPS

LEMMA QueuedType ==
    ASSUME TypeOK, NEW e \in Requests \cup Notices
    PROVE  Queued(e) \in Seq(Requests \cup Notices)
             /\ Len(Queued(e)) <= MaxQueue
  BY UhidAssumption DEF Queued, TypeOK

LEMMA ClosedType ==
    ASSUME TypeOK, NEW n \in Fds, Closed(n)
    PROVE  /\ file' \in [Fds -> {"free", "uhid", "other"}]
           /\ device' \in {"none", "adding", "bound", "unbound", "failed",
                           "stopped", "removed"}
           /\ queue' \in Seq(Requests \cup Notices) /\ Len(queue') <= MaxQueue
           /\ request' \in Requests \cup {Nothing}
           /\ requests' \in 0..MaxRequests
<1>1. CASE file[n] = "uhid"
  BY <1>1, UhidAssumption DEF Closed, TypeOK
<1>2. CASE file[n] # "uhid"
  BY <1>2, UhidAssumption DEF Closed, TypeOK
<1>. QED
  BY <1>1, <1>2

(* Who holds what: from open() to close() fd_ is the only /dev/uhid; the   *)
(* event thread exists only between StartThread and Join.                  *)
Holds ==
    owner # "idle" \/ created =>
        /\ fd \in Fds /\ file[fd] = "uhid"
        /\ \A n \in Fds : file[n] = "uhid" => n = fd
Empty ==
    owner = "idle" /\ ~created =>
        /\ \A n \in Fds : file[n] # "uhid"
        /\ device = "none"
Phases ==
    /\ owner \in {"opened", "giveup", "written", "threaded"} => ~created
    /\ owner \in {"destroy", "join", "close"} => created
    /\ owner \in {"opened", "giveup"} => device = "none"
    /\ owner \in {"opened", "giveup", "written", "close"} => reader = "none"
    /\ owner = "idle" /\ ~created => reader = "none"
Owned == Holds /\ Empty /\ Phases

LEMMA TypeStep == TypeOK /\ Owned /\ [Next]_vars => TypeOK'
<1>. SUFFICES ASSUME TypeOK, Owned, [Next]_vars PROVE TypeOK'
  OBVIOUS
<1>a. \A k \in {"start", "stop", "output"} : Notice(k) \in Notices
  BY DEF Notice, Notices
<1>b. owner # "idle" \/ created => fd \in Fds
  BY DEF Owned, Holds
<1>1. CASE OpenFails \/ Open
  BY <1>1 DEF OpenFails, Open, TypeOK, kernel
<1>2. CASE CreateFails \/ WriteCreate \/ StartThread \/ Created
  BY <1>2 DEF CreateFails, WriteCreate, StartThread, Created, TypeOK, kernel,
              object
<1>3. CASE GiveUp \/ CloseFd
  <2>1. Closed(fd) /\ fd \in Fds
    BY <1>3, <1>b DEF GiveUp, CloseFd
  <2>. QED
    BY <1>3, <2>1, ClosedType DEF GiveUp, CloseFd, TypeOK, object
<1>4. CASE Destroy \/ Join
  BY <1>4 DEF Destroy, Join, TypeOK, kernel, object
<1>5. CASE WriteDestroy
  BY <1>5, <1>a, QueuedType DEF WriteDestroy, TypeOK, object
<1>6. CASE TestRunning \/ ReadFails
  BY <1>6 DEF TestRunning, ReadFails, TypeOK, kernel, object
<1>7. CASE ReadEvent
  <2>1. Head(queue) \in Requests \cup Notices
           /\ Tail(queue) \in Seq(Requests \cup Notices)
           /\ Len(Tail(queue)) <= MaxQueue
    BY <1>7, UhidAssumption DEF ReadEvent, TypeOK
  <2>. QED
    BY <1>7, <2>1 DEF ReadEvent, TypeOK, object
<1>8. CASE Reply
  BY <1>8 DEF Reply, TypeOK, object
<1>9. CASE DriverBinds \/ DriverUnbinds
  BY <1>9, <1>a, QueuedType DEF DriverBinds, DriverUnbinds, TypeOK, object
<1>10. CASE AddFails \/ RequestTimesOut
  BY <1>10 DEF AddFails, RequestTimesOut, TypeOK, object
<1>11. CASE HostOutputs
  <2>1. Append(queue, Notice("output")) \in Seq(Requests \cup Notices)
           /\ Len(Append(queue, Notice("output"))) <= MaxQueue
    BY <1>11, <1>a, UhidAssumption DEF HostOutputs, TypeOK
  <2>. QED
    BY <1>11, <2>1 DEF HostOutputs, TypeOK, object
<1>12. ASSUME NEW kind \in Kinds, HostRequests(kind) PROVE TypeOK'
  <2>1. requests' \in 0..MaxRequests /\ request' \in Requests
    BY <1>12, UhidAssumption DEF HostRequests, TypeOK, Requests
  <2>2. queue' \in Seq(Requests \cup Notices) /\ Len(queue') <= MaxQueue
    BY <1>12, <2>1, QueuedType DEF HostRequests
  <2>. QED
    BY <1>12, <2>1, <2>2 DEF HostRequests, TypeOK, object
<1>13. ASSUME NEW n \in Fds, OtherOpens(n) \/ OtherCloses(n) PROVE TypeOK'
  BY <1>13 DEF OtherOpens, OtherCloses, TypeOK, object
<1>14. CASE UNCHANGED vars
  BY <1>14 DEF vars, TypeOK
<1>. QED
  BY <1>1, <1>2, <1>3, <1>4, <1>5, <1>6, <1>7, <1>8, <1>9, <1>10, <1>11,
     <1>12, <1>13, <1>14 DEF Next, OwnerReturns, EventLoop, Kernel

LEMMA OwnedStep == TypeOK /\ Owned /\ [Next]_vars => Owned'
<1>. SUFFICES ASSUME TypeOK, Owned, [Next]_vars PROVE Owned'
  OBVIOUS
<1>. USE UhidAssumption DEF TypeOK, Owned, Holds, Empty, Phases
<1>1. CASE OpenFails
  BY <1>1 DEF OpenFails, kernel
<1>2. CASE Open
  BY <1>2 DEF Open
<1>3. CASE CreateFails
  BY <1>3 DEF CreateFails, kernel, object
<1>4. CASE GiveUp
  BY <1>4 DEF GiveUp, Closed, object
<1>5. CASE WriteCreate
  BY <1>5 DEF WriteCreate, object
<1>6. CASE StartThread
  BY <1>6 DEF StartThread, kernel
<1>7. CASE Created
  BY <1>7 DEF Created, kernel
<1>8. CASE Destroy
  BY <1>8 DEF Destroy, kernel
<1>9. CASE WriteDestroy
  BY <1>9 DEF WriteDestroy, object
<1>10. CASE Join
  BY <1>10 DEF Join, kernel, object
<1>11. CASE CloseFd
  BY <1>11 DEF CloseFd, Closed
<1>12. CASE TestRunning \/ ReadEvent \/ Reply \/ ReadFails
  BY <1>12 DEF TestRunning, ReadEvent, Reply, ReadFails, kernel, object
<1>13. CASE Kernel
  BY <1>13 DEF Kernel, DriverBinds, AddFails, DriverUnbinds, HostOutputs,
               RequestTimesOut, HostRequests, object
<1>14. ASSUME NEW n \in Fds, OtherOpens(n) \/ OtherCloses(n) PROVE Owned'
  BY <1>14 DEF OtherOpens, OtherCloses, object
<1>15. CASE UNCHANGED vars
  BY <1>15 DEF vars
<1>. QED
  BY <1>1, <1>2, <1>3, <1>4, <1>5, <1>6, <1>7, <1>8, <1>9, <1>10, <1>11,
     <1>12, <1>13, <1>14, <1>15 DEF Next, OwnerReturns, EventLoop

LEMMA Invariant == Spec => [](TypeOK /\ Owned)
<1>1. Init => TypeOK /\ Owned
  <2>. SUFFICES ASSUME Init PROVE TypeOK /\ Owned
    OBVIOUS
  <2>1. << >> \in Seq(Requests \cup Notices) /\ Len(<< >>) <= MaxQueue
    BY UhidAssumption
  <2>2. TypeOK
    <3>1. queue \in Seq(Requests \cup Notices) /\ Len(queue) <= MaxQueue
      BY <2>1 DEF Init
    <3>2. requests \in 0..MaxRequests
      BY UhidAssumption DEF Init
    <3>3. file \in [Fds -> {"free", "uhid", "other"}]
      BY DEF Init
    <3>. QED
      BY <3>1, <3>2, <3>3 DEF Init, TypeOK
  <2>3. Owned
    BY DEF Init, Owned, Holds, Empty, Phases
  <2>. QED
    BY <2>2, <2>3
<1>. QED
  BY <1>1, TypeStep, OwnedStep, PTL DEF Spec

(* Every variable of UHIDDevice and of the kernel keeps its type, the      *)
(* kernel's queue its bound.                                               *)
THEOREM TypeCorrect == Spec => []TypeOK
  BY Invariant, PTL

(* A UHIDDevice that says it has no device has no descriptor, no event     *)
(* thread and no device in the kernel, whichever step of create() failed.  *)
THEOREM Clean == Spec => []NothingLeft
<1>1. Owned => NothingLeft
  BY DEF Owned, Empty, Phases, NothingLeft
<1>. QED
  BY <1>1, Invariant, PTL

(* As long as eventLoop() may read or reply, fd_ is the open /dev/uhid.    *)
THEOREM ReaderSafe == Spec => []ReaderKeepsFile
<1>1. TypeOK /\ Owned => ReaderKeepsFile
  BY UhidAssumption DEF TypeOK, Owned, Holds, Phases, ReaderKeepsFile
<1>. QED
  BY <1>1, Invariant, PTL

(* No close() of create() or destroy() hits a file of the rest of the      *)
(* process, although a failed create() leaves its number in fd_.           *)
THEOREM OthersSafe == Spec => OthersIntact
<1>. DEFINE Intact == \A n \in Fds :
                        file[n] = "other" /\ file'[n] # "other"
                            => OtherCloses(n)
<1>1. TypeOK /\ Owned /\ [Next]_vars => [Intact]_vars
  <2>. SUFFICES ASSUME TypeOK, Owned, [Next]_vars PROVE Intact
    OBVIOUS
  <2>. SUFFICES ASSUME NEW n \in Fds, file[n] = "other", file'[n] # "other"
                PROVE  OtherCloses(n)
    OBVIOUS
  <2>1. CASE Open
    BY <2>1 DEF Open, TypeOK
  <2>2. CASE GiveUp \/ CloseFd
    BY <2>2 DEF GiveUp, CloseFd, Closed, TypeOK, Owned, Holds
  <2>3. CASE \E m \in Fds : OtherOpens(m) \/ OtherCloses(m)
    BY <2>3 DEF OtherOpens, OtherCloses, TypeOK
  <2>4. CASE OpenFails \/ CreateFails \/ WriteCreate \/ StartThread \/ Created
                \/ Destroy \/ WriteDestroy \/ Join
    BY <2>4 DEF OpenFails, CreateFails, WriteCreate, StartThread, Created,
                Destroy, WriteDestroy, Join, kernel
  <2>5. CASE EventLoop \/ ReadFails \/ Kernel
    BY <2>5 DEF EventLoop, TestRunning, ReadEvent, Reply, ReadFails, Kernel,
                DriverBinds, AddFails, DriverUnbinds, HostOutputs,
                RequestTimesOut, HostRequests, kernel
  <2>6. CASE UNCHANGED vars
    BY <2>6 DEF vars
  <2>. QED
    BY <2>1, <2>2, <2>3, <2>4, <2>5, <2>6 DEF Next, OwnerReturns
<1>. QED
  BY <1>1, Invariant, PTL DEF Spec, OthersIntact
=============================================================================
