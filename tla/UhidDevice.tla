----------------------------- MODULE UhidDevice -----------------------------
(***************************************************************************)
(* UHIDDevice (src/src/uhid_device.cpp): the thread that owns the object   *)
(* creates and destroys the device, an event thread reads /dev/uhid and    *)
(* answers the kernel's requests.  The kernel's half is external: a queue  *)
(* of events per open file, a driver that is bound by a worker some time   *)
(* after UHID_CREATE2, one report request at a time, given up after 5 s.   *)
(***************************************************************************)
EXTENDS Naturals, Sequences

CONSTANTS
    Fds,            \* descriptor numbers
    NoFd,           \* -1
    MaxQueue,       \* the kernel drops events beyond so many (32 in Linux)
    MaxRequests     \* bound: report requests

ASSUME UhidAssumption ==
    NoFd \notin Fds /\ MaxQueue \in Nat \ {0} /\ MaxRequests \in Nat

Kinds == {"get", "set"}
Requests == [kind : Kinds, id : 1..MaxRequests]
Notices == [kind : {"start", "stop", "output"}, id : {0}]
Nothing == [kind |-> "none", id |-> 0]
Notice(kind) == [kind |-> kind, id |-> 0]

VARIABLES
    fd, running, created,   \* fd_, running_, created_
    owner,          \* where the thread that owns the object is
    reader,         \* where the event thread is; "none": not joinable
    event,          \* ev in eventLoop()
    file,           \* what each descriptor number names
    device,         \* the kernel's device
    queue,          \* events the kernel has queued for read()
    request,        \* the request the kernel waits for
    requests        \* requests made so far (bounded)

object == <<fd, running, created>>
kernel == <<file, device, queue, request, requests>>
vars == <<fd, running, created, owner, reader, event, file, device, queue,
          request, requests>>

TypeOK ==
    /\ fd \in Fds \cup {NoFd} /\ running \in BOOLEAN /\ created \in BOOLEAN
    /\ owner \in {"idle", "opened", "giveup", "written", "threaded",
                  "destroy", "join", "close"}
    /\ reader \in {"none", "test", "read", "handle", "done"}
    /\ event \in Requests \cup Notices \cup {Nothing}
    /\ file \in [Fds -> {"free", "uhid", "other"}]
    /\ device \in {"none", "adding", "bound", "unbound", "failed",
                   "stopped", "removed"}
    /\ queue \in Seq(Requests \cup Notices) /\ Len(queue) <= MaxQueue
    /\ request \in Requests \cup {Nothing}
    /\ requests \in 0..MaxRequests

Init ==
    /\ fd = NoFd /\ running = FALSE /\ created = FALSE
    /\ owner = "idle" /\ reader = "none" /\ event = Nothing
    /\ file = [n \in Fds |-> "free"]
    /\ device = "none" /\ queue = << >>
    /\ request = Nothing /\ requests = 0

-----------------------------------------------------------------------------
(* The kernel's answers to the calls below.                                *)

Queued(e) == IF Len(queue) < MaxQueue THEN Append(queue, e) ELSE queue

(* Closing the last descriptor of an open file takes its device away.      *)
Closed(n) ==
    /\ file' = [file EXCEPT ![n] = "free"]
    /\ IF file[n] = "uhid"
       THEN device' = "none" /\ queue' = << >> /\ request' = Nothing
       ELSE UNCHANGED <<device, queue, request>>
    /\ UNCHANGED requests

-----------------------------------------------------------------------------
(* create(); it returns at once if created_.                               *)

OpenFails ==
    /\ owner = "idle" /\ ~created
    /\ fd' = NoFd
    /\ UNCHANGED <<running, created, owner, reader, event, kernel>>

Open ==
    /\ owner = "idle" /\ ~created
    /\ owner' = "opened"
    /\ \E n \in Fds :
          /\ file[n] = "free" /\ fd' = n
          /\ file' = [file EXCEPT ![n] = "uhid"]
    /\ UNCHANGED <<running, created, reader, event, device, queue, request,
                   requests>>

(* The report descriptor is too large, or UHID_CREATE2 cannot be written.  *)
CreateFails ==
    /\ owner = "opened" /\ owner' = "giveup"
    /\ UNCHANGED <<object, reader, event, kernel>>

(* Fault: the descriptor is left open.                                     *)
GiveUpOpen ==
    /\ owner = "giveup" /\ owner' = "idle"
    /\ UNCHANGED <<object, reader, event, kernel>>

(* fd_ keeps the number.                                                   *)
GiveUp ==
    /\ owner = "giveup" /\ owner' = "idle"
    /\ Closed(fd)
    /\ UNCHANGED <<object, reader, event>>

WriteCreate ==
    /\ owner = "opened" /\ owner' = "written"
    /\ device' = "adding"
    /\ UNCHANGED <<object, reader, event, file, queue, request, requests>>

StartThread ==
    /\ owner = "written" /\ owner' = "threaded"
    /\ running' = TRUE
    /\ reader' = "test"
    /\ UNCHANGED <<fd, created, event, kernel>>

Created ==
    /\ owner = "threaded" /\ owner' = "idle"
    /\ created' = TRUE
    /\ UNCHANGED <<fd, running, reader, event, kernel>>

-----------------------------------------------------------------------------
(* destroy(), also as the destructor; it returns at once if ~created_.     *)

(* Fault: fd_ >= 0 is taken for a device that was created.                 *)
DestroyByNumber ==
    /\ owner = "idle" /\ fd # NoFd
    /\ owner' = "destroy"
    /\ running' = FALSE
    /\ UNCHANGED <<fd, created, reader, event, kernel>>

(* Fault: running_ is left alone.                                          *)
DestroyStillRunning ==
    /\ owner = "idle" /\ created
    /\ owner' = "destroy"
    /\ UNCHANGED <<object, reader, event, kernel>>

Destroy ==
    /\ owner = "idle" /\ created
    /\ owner' = "destroy"
    /\ running' = FALSE
    /\ UNCHANGED <<fd, created, reader, event, kernel>>

(* UHID_DESTROY.  A bound driver is stopped, and that queues UHID_STOP; a  *)
(* device that could not be added refuses the write, which goes unnoticed. *)
WriteDestroy ==
    /\ owner = "destroy" /\ owner' = "join"
    /\ IF file[fd] = "uhid" /\ device \in {"adding", "bound", "unbound"}
       THEN /\ device' = IF device = "bound" THEN "stopped" ELSE "removed"
            /\ queue' = IF device = "bound" THEN Queued(Notice("stop"))
                                            ELSE queue
            /\ request' = Nothing
       ELSE UNCHANGED <<device, queue, request>>
    /\ UNCHANGED <<object, reader, event, file, requests>>

(* Fault: the thread is detached instead.                                  *)
JoinNobody ==
    /\ owner = "join" /\ owner' = "close"
    /\ UNCHANGED <<object, reader, event, kernel>>

Join ==
    /\ owner = "join" /\ owner' = "close"
    /\ reader \in {"none", "done"} /\ reader' = "none"
    /\ UNCHANGED <<object, event, kernel>>

CloseFd ==
    /\ owner = "close" /\ owner' = "idle"
    /\ Closed(fd)
    /\ fd' = NoFd
    /\ created' = FALSE
    /\ UNCHANGED <<running, reader, event>>

-----------------------------------------------------------------------------
(* eventLoop()                                                             *)

TestRunning ==
    /\ reader = "test"
    /\ reader' = IF running THEN "read" ELSE "done"
    /\ UNCHANGED <<object, owner, event, kernel>>

(* read() waits for an event.  What is not a request is only logged or     *)
(* handed to the data callback.                                            *)
ReadEvent ==
    /\ reader = "read" /\ queue # << >>
    /\ event' = Head(queue)
    /\ queue' = Tail(queue)
    /\ reader' = IF Head(queue).kind \in Kinds THEN "handle" ELSE "test"
    /\ UNCHANGED <<object, owner, file, device, request, requests>>

ReadFails ==
    /\ reader = "read" /\ reader' = "done"
    /\ UNCHANGED <<object, owner, event, kernel>>

(* Fault: the reply has the id of a memset.                                *)
ReplyWithoutId ==
    /\ reader = "handle" /\ reader' = "test"
    /\ request' = IF request = [event EXCEPT !.id = 0] THEN Nothing
                                                       ELSE request
    /\ UNCHANGED <<object, owner, event, file, device, queue, requests>>

(* The control callback, and the reply: the kernel takes it if it has the  *)
(* kind and the id of the request it waits for.                            *)
Reply ==
    /\ reader = "handle" /\ reader' = "test"
    /\ request' = IF request = event THEN Nothing ELSE request
    /\ UNCHANGED <<object, owner, event, file, device, queue, requests>>

-----------------------------------------------------------------------------
(* The kernel and the rest of the process.                                 *)

DriverBinds ==
    /\ device \in {"adding", "unbound"}
    /\ device' = "bound"
    /\ queue' = Queued(Notice("start"))
    /\ UNCHANGED <<object, owner, reader, event, file, request, requests>>

AddFails ==
    /\ device = "adding" /\ device' = "failed"
    /\ UNCHANGED <<object, owner, reader, event, file, queue, request,
                   requests>>

(* An administrator takes the driver off the device.                       *)
DriverUnbinds ==
    /\ device = "bound" /\ device' = "unbound"
    /\ queue' = Queued(Notice("stop"))
    /\ UNCHANGED <<object, owner, reader, event, file, request, requests>>

(* UHID_OUTPUT, and likewise UHID_OPEN and UHID_CLOSE.                     *)
HostOutputs ==
    /\ device = "bound" /\ Len(queue) < MaxQueue
    /\ queue' = Append(queue, Notice("output"))
    /\ UNCHANGED <<object, owner, reader, event, file, device, request,
                   requests>>

HostRequests(kind) ==
    /\ device = "bound" /\ request = Nothing
    /\ requests < MaxRequests
    /\ requests' = requests + 1
    /\ request' = [kind |-> kind, id |-> requests + 1]
    /\ queue' = Queued(request')
    /\ UNCHANGED <<object, owner, reader, event, file, device>>

RequestTimesOut ==
    /\ request # Nothing /\ request' = Nothing
    /\ UNCHANGED <<object, owner, reader, event, file, device, queue,
                   requests>>

OtherOpens(n) ==
    /\ file[n] = "free"
    /\ file' = [file EXCEPT ![n] = "other"]
    /\ UNCHANGED <<object, owner, reader, event, device, queue, request,
                   requests>>

OtherCloses(n) ==
    /\ file[n] = "other"
    /\ file' = [file EXCEPT ![n] = "free"]
    /\ UNCHANGED <<object, owner, reader, event, device, queue, request,
                   requests>>

-----------------------------------------------------------------------------
OwnerReturns ==
    CreateFails \/ GiveUp \/ WriteCreate \/ StartThread \/ Created
        \/ WriteDestroy \/ Join \/ CloseFd

EventLoop == TestRunning \/ ReadEvent \/ Reply

Kernel ==
    \/ DriverBinds \/ AddFails \/ DriverUnbinds \/ HostOutputs
    \/ RequestTimesOut
    \/ \E kind \in Kinds : HostRequests(kind)

Next ==
    \/ OpenFails \/ Open \/ Destroy \/ OwnerReturns
    \/ EventLoop \/ ReadFails
    \/ Kernel
    \/ \E n \in Fds : OtherOpens(n) \/ OtherCloses(n)

Spec == Init /\ [][Next]_vars

(* Both threads are scheduled.  Nothing is asked of the kernel.            *)
FairSpec == Spec /\ WF_vars(OwnerReturns) /\ WF_vars(EventLoop)

-----------------------------------------------------------------------------
(* Properties.                                                             *)

(* When the object says that it has no device, it has none: no descriptor  *)
(* is open, no event thread is left and the kernel has no device, whichever*)
(* step of create() failed and whatever became of the device meanwhile.    *)
NothingLeft ==
    owner = "idle" /\ ~created =>
        /\ \A n \in Fds : file[n] # "uhid"
        /\ reader = "none" /\ device = "none"

(* While the event thread may read or answer, fd_ is the open /dev/uhid:   *)
(* it cannot read from, or reply into, a file that took the number.        *)
ReaderKeepsFile ==
    reader \in {"test", "read", "handle"} => fd # NoFd /\ file[fd] = "uhid"

(* No step of this class closes a file of the rest of the process, also    *)
(* after a failed create() that leaves its number in fd_.                  *)
OthersIntact ==
    [][\A n \in Fds : file[n] = "other" /\ file'[n] # "other"
                        => OtherCloses(n)]_vars

(* A request that was queued is answered with its own reply, or given up,  *)
(* as long as the event thread has not ended; a late reply to a request    *)
(* that timed out does not stand for the next one.                         *)
Waiting(r) ==
    /\ request = r
    /\ \/ \E i \in DOMAIN queue : queue[i] = r
       \/ reader = "handle" /\ event = r
RequestsAnswered ==
    \A r \in Requests : Waiting(r) ~> (request # r \/ reader = "done")

(* destroy() returns, unless no driver was bound to the device when it     *)
(* wrote UHID_DESTROY: then nothing wakes an event thread that waits in    *)
(* read(), and destroy() waits for it for ever.                            *)
DestroyReturns ==
    owner = "destroy" ~>
        \/ owner = "idle"
        \/ owner = "join" /\ device \in {"removed", "failed"}
=============================================================================
