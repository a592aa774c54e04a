---------------------------- MODULE BlueZProfile ----------------------------
(***************************************************************************)
(* The Classic Bluetooth side of the daemon: src/src/bluez_profile.cpp.    *)
(*                                                                         *)
(* One atomic integer, interrupt_fd, names the L2CAP socket of the host    *)
(* that is being typed at.  The D-Bus handler (always the main thread)     *)
(* replaces it, a detached reader thread per connection clears it, and the *)
(* IPC client threads load it to write a report.  A descriptor is only a   *)
(* NUMBER: read, write and close look it up in the process's table at the  *)
(* moment of the call, and the kernel hands a closed number out again: it  *)
(* gives the lowest one that is free.  Files are therefore modelled apart  *)
(* from the numbers that name them.                                        *)
(*                                                                         *)
(* The handler is split at the points where the other threads can run: the *)
(* exchange, the close and the callback are separate steps.                *)
(***************************************************************************)
EXTENDS FiniteSets, Integers

CONSTANTS
    Conns,      \* host connections, in no particular order; each connects once
    Others,     \* every other file the process opens (IPC sockets, D-Bus, ...)
    Fds,        \* the descriptor numbers of the process (its RLIMIT_NOFILE)
    Senders,    \* IPC client threads, which call sendInputReport
    NoFd,       \* -1
    NoFile      \* what a closed number names

ASSUME FilesAssumption ==
    /\ Fds \subseteq Nat
    /\ NoFd \notin Fds
    /\ Conns \cap Others = {}
    /\ NoFile \notin Conns \cup Others

VARIABLES
    published,      \* BlueZ knows the profile and may call it
    interrupt_fd,   \* std::atomic<int> interrupt_fd_
    fdtab,          \* the kernel's table: the file each number names
    link,           \* what BlueZ and the host did to each connection
    newest,         \* the connection of the last NewConnection (history)
    pc,             \* where the main thread is in messageHandler
    old_fd,         \* the handler's local: the value exchange() returned
    new_fd,         \* the number each reader thread captured
    rpc,            \* where each connection's reader thread is
    rfile,          \* the file a blocked read() holds
    spc,            \* where each sender is in sendInputReport
    sfd,            \* the sender's local fd
    sto,            \* the connection that number meant when loaded (history)
    other,          \* the number the rest of the process holds for its files
    reported,       \* the last value given to conn_callback_
    clash,          \* a number was handed out that a thread of the profile had
                    \* still to close (history)
    cut             \* the handler or main took a number out of interrupt_fd
                    \* that no reader had cleared (history)

vars == <<published, interrupt_fd, fdtab, link, newest, pc, old_fd, new_fd,
          rpc, rfile, spc, sfd, sto, other, reported, clash, cut>>

history == <<clash, cut>>

handlerVars == <<published, newest, pc, old_fd>>
readerVars  == <<new_fd, rpc, rfile>>
senderVars  == <<spc, sfd, sto>>

Files == Conns \cup Others
MaybeFd == Fds \cup {NoFd}
MaybeFile == Files \cup {NoFile}

HandlerPcs == {"start", "idle", "close_old", "spawn", "callback_true",
               "close_asked", "callback_false", "close_last", "stopped"}
ReaderPcs  == {"none", "read", "blocked", "cas", "callback", "close", "done"}
LinkStates == {"unused", "up", "ending", "down"}

TypeOK ==
    /\ published \in BOOLEAN
    /\ interrupt_fd \in MaybeFd
    /\ fdtab \in [Fds -> MaybeFile]
    /\ link \in [Conns -> LinkStates]
    /\ newest \in Conns \cup {NoFile}
    /\ pc \in HandlerPcs
    /\ old_fd \in MaybeFd
    /\ new_fd \in [Conns -> MaybeFd]
    /\ rpc \in [Conns -> ReaderPcs]
    /\ rfile \in [Conns -> MaybeFile]
    /\ spc \in [Senders -> {"idle", "write"}]
    /\ sfd \in [Senders -> MaybeFd]
    /\ sto \in [Senders -> Conns \cup {NoFile}]
    /\ other \in [Others -> MaybeFd]
    /\ reported \in BOOLEAN
    /\ clash \in BOOLEAN
    /\ cut \in BOOLEAN

Init ==
    /\ published = FALSE
    /\ interrupt_fd = NoFd
    /\ fdtab = [f \in Fds |-> NoFile]
    /\ link = [c \in Conns |-> "unused"]
    /\ newest = NoFile
    /\ pc = "start"
    /\ old_fd = NoFd
    /\ new_fd = [c \in Conns |-> NoFd]
    /\ rpc = [c \in Conns |-> "none"]
    /\ rfile = [c \in Conns |-> NoFile]
    /\ spc = [s \in Senders |-> "idle"]
    /\ sfd = [s \in Senders |-> NoFd]
    /\ sto = [s \in Senders |-> NoFile]
    /\ other = [o \in Others |-> NoFd]
    /\ reported = FALSE
    /\ clash = FALSE
    /\ cut = FALSE

-----------------------------------------------------------------------------
(* The kernel's descriptor table.                                          *)

FileAt(fd) == IF fd \in Fds THEN fdtab[fd] ELSE NoFile

(* close(fd): frees whatever the number names NOW; close of a free number  *)
(* or of -1 is an ignored EBADF.                                           *)
CloseFd(fd) == fdtab' = [f \in Fds |-> IF f = fd THEN NoFile ELSE fdtab[f]]

(* The number dup() or accept() returns: the lowest free one (POSIX), -1   *)
(* when the table is full.                                                 *)
Free == {f \in Fds : fdtab[f] = NoFile}

Available ==
    IF Free = {} THEN {NoFd} ELSE {f \in Free : \A g \in Free : f <= g}

(* A number some thread of the profile will still pass to close().         *)
ToBeClosed(fd) ==
    /\ fd # NoFd
    /\ old_fd = fd \/ \E c \in Conns : new_fd[c] = fd /\ rpc[c] # "done"

-----------------------------------------------------------------------------
(* messageHandler, on the main thread.                                     *)

(* registerHIDProfile: bus connection, filter, object path and the blocking*)
(* RegisterProfile call.  When one of them fails main goes on without a    *)
(* Classic profile; after a lost reply BlueZ may know it all the same.     *)
RegisterHIDProfile ==
    /\ pc = "start"
    /\ published' \in BOOLEAN
    /\ pc' = "idle"
    /\ UNCHANGED <<interrupt_fd, fdtab, link, newest, old_fd, readerVars,
                   senderVars, other, reported, history>>

(* Profile1.NewConnection up to the exchange: libdbus dups the descriptor  *)
(* in the message for the caller (-1 if that fails), and the number is     *)
(* published before anyone reads from it.                                  *)
NewConnection(c) ==
    /\ pc = "idle"
    /\ published
    /\ link[c] = "unused"
    /\ \E fd \in Available :
        /\ fdtab' = [f \in Fds |-> IF f = fd THEN c ELSE fdtab[f]]
        /\ new_fd' = [new_fd EXCEPT ![c] = fd]
        /\ interrupt_fd' = fd
        /\ clash' = (clash \/ ToBeClosed(fd))
    /\ old_fd' = interrupt_fd
    /\ cut' = (cut \/ interrupt_fd # NoFd)
    /\ newest' = c
    /\ link' = [link EXCEPT ![c] = "up"]
    /\ pc' = "close_old"
    /\ UNCHANGED <<published, rpc, rfile, senderVars, other, reported>>

CloseOld ==
    /\ pc = "close_old"
    /\ CloseFd(old_fd)
    /\ old_fd' = NoFd
    /\ pc' = "spawn"
    /\ UNCHANGED <<published, interrupt_fd, link, newest, readerVars,
                   senderVars, other, reported, history>>

(* The detached reader thread is started, then the reply is sent.          *)
SpawnReader ==
    /\ pc = "spawn"
    /\ rpc' = [rpc EXCEPT ![newest] = "read"]
    /\ pc' = "callback_true"
    /\ UNCHANGED <<published, interrupt_fd, fdtab, link, newest, old_fd,
                   new_fd, rfile, senderVars, other, reported, history>>

ConnectedCallback ==
    /\ pc = "callback_true"
    /\ reported' = TRUE
    /\ pc' = "idle"
    /\ UNCHANGED <<published, interrupt_fd, fdtab, link, newest, old_fd,
                   readerVars, senderVars, other, history>>

(* Fault: load() instead of exchange(), so the closed number stays.        *)
RequestDisconnectionLoads(c) ==
    /\ pc = "idle"
    /\ link[c] = "up"
    /\ link' = [link EXCEPT ![c] = "ending"]
    /\ old_fd' = interrupt_fd
    /\ cut' = (cut \/ interrupt_fd # NoFd)
    /\ pc' = "close_asked"
    /\ UNCHANGED <<published, interrupt_fd, fdtab, newest, readerVars,
                   senderVars, other, reported, clash>>

(* Profile1.RequestDisconnection(c): the device path is only logged; the   *)
(* stored number is taken whichever connection it belongs to.              *)
RequestDisconnection(c) ==
    /\ pc = "idle"
    /\ link[c] = "up"
    /\ link' = [link EXCEPT ![c] = "ending"]
    /\ old_fd' = interrupt_fd
    /\ cut' = (cut \/ interrupt_fd # NoFd)
    /\ interrupt_fd' = NoFd
    /\ pc' = "close_asked"
    /\ UNCHANGED <<published, fdtab, newest, readerVars, senderVars, other,
                   reported, clash>>

CloseAsked ==
    /\ pc = "close_asked"
    /\ CloseFd(old_fd)
    /\ old_fd' = NoFd
    /\ pc' = "callback_false"
    /\ UNCHANGED <<published, interrupt_fd, link, newest, readerVars,
                   senderVars, other, reported, history>>

DisconnectedCallback ==
    /\ pc = "callback_false"
    /\ reported' = FALSE
    /\ pc' = "idle"
    /\ UNCHANGED <<published, interrupt_fd, fdtab, link, newest, old_fd,
                   readerVars, senderVars, other, history>>

(* unregisterProfile: main calls it once its loop is over, so no handler   *)
(* runs afterwards.  The destructor's second call exchanges -1 for -1.     *)
UnregisterProfile ==
    /\ pc = "idle"
    /\ old_fd' = interrupt_fd
    /\ cut' = (cut \/ interrupt_fd # NoFd)
    /\ interrupt_fd' = NoFd
    /\ pc' = "close_last"
    /\ UNCHANGED <<published, fdtab, link, newest, readerVars, senderVars,
                   other, reported, clash>>

CloseLast ==
    /\ pc = "close_last"
    /\ CloseFd(old_fd)
    /\ old_fd' = NoFd
    /\ published' = FALSE
    /\ pc' = "stopped"
    /\ UNCHANGED <<interrupt_fd, link, newest, readerVars, senderVars, other,
                   reported, history>>

-----------------------------------------------------------------------------
(* The detached reader thread of connection c.                             *)

(* read() looks the number up; a closed one is an error and ends the loop. *)
(* The file found is held until the call returns, even if the number is    *)
(* closed meanwhile.                                                       *)
ReadCall(c) ==
    /\ rpc[c] = "read"
    /\ IF FileAt(new_fd[c]) = NoFile
       THEN rpc' = [rpc EXCEPT ![c] = "cas"] /\ UNCHANGED rfile
       ELSE /\ rpc' = [rpc EXCEPT ![c] = "blocked"]
            /\ rfile' = [rfile EXCEPT ![c] = FileAt(new_fd[c])]
    /\ UNCHANGED <<interrupt_fd, fdtab, link, handlerVars, new_fd, senderVars,
                   other, reported, history>>

(* A file at its end; what the process's other files do is not modelled.   *)
AtEnd(file) == file \in Others \/ (file \in Conns /\ link[file] = "down")

HasData(file) == file \in Others \/ (file \in Conns /\ link[file] # "down")

(* The host sent an output report (LEDs): logged, and read() again.        *)
ReadData(c) ==
    /\ rpc[c] = "blocked"
    /\ HasData(rfile[c])
    /\ rpc' = [rpc EXCEPT ![c] = "read"]
    /\ rfile' = [rfile EXCEPT ![c] = NoFile]
    /\ UNCHANGED <<interrupt_fd, fdtab, link, handlerVars, new_fd, senderVars,
                   other, reported, history>>

ReadEnd(c) ==
    /\ rpc[c] = "blocked"
    /\ AtEnd(rfile[c])
    /\ rpc' = [rpc EXCEPT ![c] = "cas"]
    /\ rfile' = [rfile EXCEPT ![c] = NoFile]
    /\ UNCHANGED <<interrupt_fd, fdtab, link, handlerVars, new_fd, senderVars,
                   other, reported, history>>

(* Fault: a plain store instead of the compare-and-swap.                   *)
ReaderStores(c) ==
    /\ rpc[c] = "cas"
    /\ interrupt_fd' = NoFd
    /\ rpc' = [rpc EXCEPT ![c] = "callback"]
    /\ UNCHANGED <<fdtab, link, handlerVars, new_fd, rfile, senderVars, other,
                   reported, history>>

(* Fault: cleared to 0, which is a descriptor.                             *)
ReaderClearsToZero(c) ==
    /\ rpc[c] = "cas"
    /\ interrupt_fd' = IF interrupt_fd = new_fd[c] THEN 0 ELSE interrupt_fd
    /\ rpc' = [rpc EXCEPT ![c] = "callback"]
    /\ UNCHANGED <<fdtab, link, handlerVars, new_fd, rfile, senderVars, other,
                   reported, history>>

(* Fault: the reader never clears.                                         *)
ReaderClearsNothing(c) ==
    /\ rpc[c] = "cas"
    /\ rpc' = [rpc EXCEPT ![c] = "close"]
    /\ UNCHANGED <<interrupt_fd, fdtab, link, handlerVars, new_fd, rfile,
                   senderVars, other, reported, history>>

(* Fault: the number is closed as soon as the thread leaves its loop, and  *)
(* once more at its end.                                                   *)
ReaderClosesEarly(c) ==
    /\ rpc[c] = "cas"
    /\ CloseFd(new_fd[c])
    /\ IF interrupt_fd = new_fd[c]
       THEN interrupt_fd' = NoFd /\ rpc' = [rpc EXCEPT ![c] = "callback"]
       ELSE UNCHANGED interrupt_fd /\ rpc' = [rpc EXCEPT ![c] = "close"]
    /\ UNCHANGED <<link, handlerVars, new_fd, rfile, senderVars, other,
                   reported, history>>

(* compare_exchange_strong(new_fd, -1): it compares NUMBERS.               *)
ReaderClears(c) ==
    /\ rpc[c] = "cas"
    /\ IF interrupt_fd = new_fd[c]
       THEN interrupt_fd' = NoFd /\ rpc' = [rpc EXCEPT ![c] = "callback"]
       ELSE UNCHANGED interrupt_fd /\ rpc' = [rpc EXCEPT ![c] = "close"]
    /\ UNCHANGED <<fdtab, link, handlerVars, new_fd, rfile, senderVars, other,
                   reported, history>>

(* Fault: return after the callback, without the close.                    *)
ReaderCallbackReturns(c) ==
    /\ rpc[c] = "callback"
    /\ reported' = FALSE
    /\ rpc' = [rpc EXCEPT ![c] = "done"]
    /\ UNCHANGED <<interrupt_fd, fdtab, link, handlerVars, new_fd, rfile,
                   senderVars, other, history>>

ReaderCallback(c) ==
    /\ rpc[c] = "callback"
    /\ reported' = FALSE
    /\ rpc' = [rpc EXCEPT ![c] = "close"]
    /\ UNCHANGED <<interrupt_fd, fdtab, link, handlerVars, new_fd, rfile,
                   senderVars, other, history>>

ReaderCloses(c) ==
    /\ rpc[c] = "close"
    /\ CloseFd(new_fd[c])
    /\ rpc' = [rpc EXCEPT ![c] = "done"]
    /\ UNCHANGED <<interrupt_fd, link, handlerVars, new_fd, rfile, senderVars,
                   other, reported, history>>

-----------------------------------------------------------------------------
(* sendInputReport, on an IPC client's thread.                             *)

SendLoads(s) ==
    /\ spc[s] = "idle"
    /\ interrupt_fd # NoFd
    /\ spc' = [spc EXCEPT ![s] = "write"]
    /\ sfd' = [sfd EXCEPT ![s] = interrupt_fd]
    /\ sto' = [sto EXCEPT ![s] = newest]
    /\ UNCHANGED <<interrupt_fd, fdtab, link, handlerVars, readerVars, other,
                   reported, history>>

(* The last write() of the loop: done, or EBADF / EPIPE.  Either way the   *)
(* call returns and the number is forgotten.                               *)
SendReturns(s) ==
    /\ spc[s] = "write"
    /\ spc' = [spc EXCEPT ![s] = "idle"]
    /\ sfd' = [sfd EXCEPT ![s] = NoFd]
    /\ sto' = [sto EXCEPT ![s] = NoFile]
    /\ UNCHANGED <<interrupt_fd, fdtab, link, handlerVars, readerVars, other,
                   reported, history>>

-----------------------------------------------------------------------------
(* The environment: hosts that leave, and the rest of the process.         *)

(* The host goes away, or BlueZ drops the link it asked to be given up.    *)
HangUp(c) ==
    /\ link[c] \in {"up", "ending"}
    /\ link' = [link EXCEPT ![c] = "down"]
    /\ UNCHANGED <<interrupt_fd, fdtab, handlerVars, readerVars, senderVars,
                   other, reported, history>>

(* Another part of the process opens a file (accept, fdopen, ...).         *)
OtherOpens(o) ==
    /\ other[o] = NoFd
    /\ \E fd \in Available \ {NoFd} :
        /\ fdtab' = [fdtab EXCEPT ![fd] = o]
        /\ other' = [other EXCEPT ![o] = fd]
        /\ clash' = (clash \/ ToBeClosed(fd))
    /\ UNCHANGED <<interrupt_fd, link, handlerVars, readerVars, senderVars,
                   reported, cut>>

OtherCloses(o) ==
    /\ other[o] # NoFd
    /\ CloseFd(other[o])
    /\ other' = [other EXCEPT ![o] = NoFd]
    /\ UNCHANGED <<interrupt_fd, link, handlerVars, readerVars, senderVars,
                   reported, history>>

-----------------------------------------------------------------------------
Handler == RegisterHIDProfile \/ CloseOld \/ SpawnReader
           \/ ConnectedCallback \/ CloseAsked \/ DisconnectedCallback
           \/ CloseLast

Reader(c) == ReadCall(c) \/ ReadData(c) \/ ReadEnd(c) \/ ReaderClears(c)
             \/ ReaderCallback(c) \/ ReaderCloses(c)

Sender(s) == SendLoads(s) \/ SendReturns(s)

Next ==
    \/ \E c \in Conns : NewConnection(c) \/ RequestDisconnection(c)
    \/ Handler
    \/ UnregisterProfile
    \/ \E c \in Conns : Reader(c) \/ HangUp(c)
    \/ \E s \in Senders : Sender(s)
    \/ \E o \in Others : OtherOpens(o) \/ OtherCloses(o)

Spec == Init /\ [][Next]_vars

(* The scheduler runs every thread, and BlueZ drops a link it asked to be  *)
(* given up.  Nothing forces a host to connect, to send or to leave.       *)
Fairness ==
    /\ WF_vars(Handler)
    /\ \A c \in Conns :
        /\ WF_vars(ReadCall(c) \/ ReadEnd(c) \/ ReaderClears(c)
                   \/ ReaderCallback(c) \/ ReaderCloses(c))
        /\ WF_vars(link[c] = "ending" /\ HangUp(c))

FairSpec == Spec /\ Fairness

-----------------------------------------------------------------------------
(* Properties.                                                             *)

(* A published number is being watched: a reader thread that captured it   *)
(* has not tried its compare-and-swap yet, or the handler is about to      *)
(* start that thread.  Otherwise a dead connection would stay published    *)
(* until the next NewConnection.  True whatever numbers the kernel reuses. *)
WatchedUntilCleared ==
    interrupt_fd # NoFd =>
        /\ newest \in Conns
        /\ new_fd[newest] = interrupt_fd
        /\ \/ rpc[newest] \in {"read", "blocked", "cas"}
           \/ pc \in {"close_old", "spawn"} /\ rpc[newest] = "none"

(* No leak: as long as a connection's socket is open, under the number its *)
(* own reader captured, that reader has still to run its closing step.     *)
NoLeak ==
    \A f \in Fds, c \in Conns :
        fdtab[f] = c => new_fd[c] = f /\ rpc[c] # "done"

(* The published number names the open socket of the connection announced  *)
(* last: no report is aimed at a closed descriptor, at a replaced host or  *)
(* at a file of another part of the daemon.  It goes wrong in one way only:*)
(* a number that a thread has still to close is handed out, and that late  *)
(* close takes the new owner's file away.                                  *)
StoredFdIsNewest ==
    ~clash => (interrupt_fd # NoFd => FileAt(interrupt_fd) = newest)

(* Files of the rest of the process are closed by their owner only: the    *)
(* reader's close, which comes after the handler's of the same number,     *)
(* never hits one.                                                         *)
OthersIntact ==
    \A o \in Others : other[o] # NoFd => FileAt(other[o]) = o

(* Hosts that come one after another are harmless, whatever else the       *)
(* process opens and closes meanwhile: as long as each host leaves by      *)
(* itself, and is noticed, before the next one comes, only readers close,  *)
(* each its own number, once; so no number is handed out too early and no  *)
(* other file is hit.                                                      *)
InTurnHarmless == ~cut => ~clash /\ OthersIntact

(* A sender between its load and its write aims at the host it loaded the  *)
(* number for, or at a closed number: never at another host or file.       *)
SenderAimed ==
    \A s \in Senders :
        spc[s] = "write" => FileAt(sfd[s]) \in {sto[s], NoFile}

(* A reader thread takes away only its own, finished connection.           *)
ClearsOwn ==
    \A c \in Conns :
        (rpc[c] = "cas" /\ rpc'[c] = "callback" /\ interrupt_fd # NoFd)
            => newest = c /\ link[c] = "down"

ReaderClearsOwn == [][ClearsOwn]_vars

(* The same, as long as no number was handed out that a thread had still to*)
(* close.                                                                  *)
ClearsOwnUnlessClash == [][~clash => ClearsOwn]_vars

(* A connection that is over, by the host or at BlueZ's request, gives its *)
(* descriptor back.                                                        *)
Unreferenced(c) ==
    /\ \A f \in Fds : fdtab[f] # c
    /\ rfile[c] # c

SocketReleased ==
    \A c \in Conns : link[c] \in {"ending", "down"} ~> Unreferenced(c)

(* The handler and its threads implement the abstract slot: what the       *)
(* published number names changes only by a connection, a request, a       *)
(* departure noticed by the host's own reader, or shutdown; until, if      *)
(* ever, a number is handed out that a thread has still to close.          *)
Slot == INSTANCE HostSlot WITH
    Hosts <- Conns, NoHost <- NoFile,
    slot <- FileAt(interrupt_fd), open <- pc \notin {"close_last", "stopped"},
    broken <- clash

ImplementsHostSlot == Slot!Spec
=============================================================================
