------------------------------ MODULE IpcServer ------------------------------
(***************************************************************************)
(* The command socket: src/src/ipc_server.cpp, started and stopped by      *)
(* main.cpp.                                                               *)
(*                                                                         *)
(* A daemon process binds a socket file, an accept thread hands each       *)
(* client to a detached thread, and that thread reads lines, runs them and *)
(* answers through one stdio stream.  Processes can be killed and started  *)
(* again; each element of Procs is one run of the program, from main to    *)
(* its exit.  A line is what fgets makes of it: one chunk, or two when it  *)
(* is longer than the 1024-byte buffer.                                    *)
(***************************************************************************)
EXTENDS FiniteSets, Integers, Sequences, SequencesExt

CONSTANTS
    Procs,      \* runs of the daemon
    Clients,    \* each connects once
    Lines,      \* the kinds of line each client sends
    MaxLines,   \* bound: lines per client
    Window,     \* commands a client sends ahead of the answers
    Backlog,    \* listen()'s backlog
    FdLimit,    \* descriptors a process has for clients
    NoProc

LineKinds == {"command", "empty", "quit", "spaced_quit", "long"}

ASSUME IpcAssumption ==
    /\ Lines \in [Clients -> SUBSET LineKinds]
    /\ MaxLines \in Nat /\ Window \in Nat /\ Backlog \in Nat /\ FdLimit \in Nat
    /\ NoProc \notin Procs

(* fgets(line, 1024) returns a longer line in pieces.                      *)
Chunks(line) == IF line = "long" THEN <<"head", "rest">> ELSE <<line>>
ChunkKinds == (LineKinds \ {"long"}) \cup {"head", "rest"}

VARIABLES
    path,       \* the run whose socket the file names, or NoProc: no file
    main,       \* where the main thread of each run is
    running,    \* running_
    listener,   \* server_fd_ as the kernel sees it
    shut,       \* shutdown() was called on it
    acceptor,   \* where the accept thread is
    handler,    \* where the client's thread is
    server,     \* the run a client is connected to
    conn,       \* the client's connection
    hungup,     \* the client closed its end
    inq,        \* chunks sent and not yet read
    buf,        \* chunks in the stdio buffer, read and not yet returned
    cur,        \* the chunk being executed
    sent,       \* lines sent (bounded)
    owed        \* commands sent minus answers received

procVars   == <<main, running, listener, shut, acceptor>>
streamVars == <<inq, buf, cur, sent, owed>>
clientVars == <<handler, server, conn, hungup>>
vars == <<path, procVars, clientVars, streamVars>>

Alive == {"socket", "bind", "listen", "spawn", "serving", "shutdown", "close",
          "join", "unlink", "cleanup", "destroyed"}

TypeOK ==
    /\ path \in Procs \cup {NoProc}
    /\ main \in [Procs -> Alive \cup {"new", "exited"}]
    /\ running \in [Procs -> BOOLEAN]
    /\ listener \in [Procs -> {"none", "open", "listening", "closed"}]
    /\ shut \in [Procs -> BOOLEAN]
    /\ acceptor \in [Procs ->
          {"none", "check", "accept", "blocked", "accepted", "done"}]
    /\ handler \in [Clients ->
          {"none", "fdopen", "read", "exec", "reply", "close", "done"}]
    /\ server \in [Clients -> Procs \cup {NoProc}]
    /\ conn \in [Clients -> {"none", "queued", "open", "closed"}]
    /\ hungup \in [Clients -> BOOLEAN]
    /\ inq \in [Clients -> Seq(ChunkKinds)]
    /\ buf \in [Clients -> Seq(ChunkKinds)]
    /\ cur \in [Clients -> ChunkKinds]
    /\ sent \in [Clients -> 0..MaxLines]
    /\ owed \in [Clients -> Int]

Init ==
    /\ path = NoProc
    /\ main = [p \in Procs |-> "new"]
    /\ running = [p \in Procs |-> FALSE]
    /\ listener = [p \in Procs |-> "none"]
    /\ shut = [p \in Procs |-> FALSE]
    /\ acceptor = [p \in Procs |-> "none"]
    /\ handler = [c \in Clients |-> "none"]
    /\ server = [c \in Clients |-> NoProc]
    /\ conn = [c \in Clients |-> "none"]
    /\ hungup = [c \in Clients |-> FALSE]
    /\ inq = [c \in Clients |-> << >>]
    /\ buf = [c \in Clients |-> << >>]
    /\ cur = [c \in Clients |-> "empty"]
    /\ sent = [c \in Clients |-> 0]
    /\ owed = [c \in Clients |-> 0]

Main(p, from, to) == main[p] = from /\ main' = [main EXCEPT ![p] = to]
Acceptor(p, from, to) ==
    acceptor[p] = from /\ acceptor' = [acceptor EXCEPT ![p] = to]
Handler(c, from, to) ==
    handler[c] = from /\ handler' = [handler EXCEPT ![c] = to]

Queued(p) == {c \in Clients : conn[c] = "queued" /\ server[c] = p}
Open(p) == {c \in Clients : conn[c] = "open" /\ server[c] = p}

(* The kernel closes the server's end of a set of connections.             *)
Disconnect(S) ==
    conn' = [c \in Clients |-> IF c \in S THEN "closed" ELSE conn[c]]

-----------------------------------------------------------------------------
(* start(), on the main thread of run p.                                   *)

(* One run at a time.  main gets as far as ipc.start(), or it or socket()  *)
(* fails before and main returns 1.                                        *)
Socket(p) ==
    /\ \A q \in Procs \ {p} : main[q] \in {"new", "exited"}
    /\ \/ /\ Main(p, "new", "socket")
          /\ listener' = [listener EXCEPT ![p] = "open"]
       \/ Main(p, "new", "exited") /\ UNCHANGED listener
    /\ UNCHANGED <<path, running, shut, acceptor, clientVars, streamVars>>

(* Fault: start() leaves the socket file of a killed run where it is.      *)
UnlinkMissing(p) ==
    /\ Main(p, "socket", "bind")
    /\ UNCHANGED <<path, running, listener, shut, acceptor, clientVars,
                   streamVars>>

(* "Remove stale socket file from a previous run": whoever bound it.       *)
UnlinkStale(p) ==
    /\ Main(p, "socket", "bind")
    /\ path' = NoProc
    /\ UNCHANGED <<running, listener, shut, acceptor, clientVars, streamVars>>

(* bind() needs the name to be free; it may fail for other reasons too, and *)
(* then start() gives up.                                                  *)
Bind(p) ==
    /\ \/ /\ path = NoProc
          /\ Main(p, "bind", "listen")
          /\ path' = p
          /\ UNCHANGED listener
       \/ /\ Main(p, "bind", "exited")
          /\ listener' = [listener EXCEPT ![p] = "closed"]
          /\ UNCHANGED path
    /\ UNCHANGED <<running, shut, acceptor, clientVars, streamVars>>

(* listen() may fail: start() gives up, the file stays.                    *)
Listen(p) ==
    /\ \/ /\ Main(p, "listen", "spawn")
          /\ listener' = [listener EXCEPT ![p] = "listening"]
       \/ /\ Main(p, "listen", "exited")
          /\ listener' = [listener EXCEPT ![p] = "closed"]
    /\ UNCHANGED <<path, running, shut, acceptor, clientVars, streamVars>>

(* running_ is set before the accept thread is created.                    *)
SpawnAcceptor(p) ==
    /\ Main(p, "spawn", "serving")
    /\ running' = [running EXCEPT ![p] = TRUE]
    /\ Acceptor(p, "none", "check")
    /\ UNCHANGED <<path, listener, shut, clientVars, streamVars>>

-----------------------------------------------------------------------------
(* stop() and the end of main, after SIGINT or SIGTERM ended the loop.     *)
Stop(p) ==
    /\ Main(p, "serving", "shutdown")
    /\ running' = [running EXCEPT ![p] = FALSE]
    /\ UNCHANGED <<path, listener, shut, acceptor, clientVars, streamVars>>

(* Fault: close() alone.                                                   *)
ShutdownMissing(p) ==
    /\ Main(p, "shutdown", "close")
    /\ UNCHANGED <<path, running, listener, shut, acceptor, clientVars,
                   streamVars>>

Shutdown(p) ==
    /\ Main(p, "shutdown", "close")
    /\ shut' = [shut EXCEPT ![p] = TRUE]
    /\ UNCHANGED <<path, running, listener, acceptor, clientVars, streamVars>>

(* Clients still in the backlog are cut off.                               *)
CloseListener(p) ==
    /\ Main(p, "close", "join")
    /\ listener' = [listener EXCEPT ![p] = "closed"]
    /\ Disconnect(Queued(p))
    /\ UNCHANGED <<path, running, shut, acceptor, handler, server, hungup,
                   streamVars>>

(* Fault: the accept thread is not waited for.                             *)
JoinMissing(p) ==
    /\ Main(p, "join", "unlink")
    /\ UNCHANGED <<path, running, listener, shut, acceptor, clientVars,
                   streamVars>>

Join(p) ==
    /\ acceptor[p] = "done"
    /\ Main(p, "join", "unlink")
    /\ UNCHANGED <<path, running, listener, shut, acceptor, clientVars,
                   streamVars>>

UnlinkLast(p) ==
    /\ Main(p, "unlink", "cleanup")
    /\ path' = NoProc
    /\ UNCHANGED <<running, listener, shut, acceptor, clientVars, streamVars>>

(* gatt.stop(), unregisterProfile(), agent.stop(); then the locals of main *)
(* are destroyed, the server first.  No client thread is waited for.       *)
Destroy(p) ==
    /\ Main(p, "cleanup", "destroyed")
    /\ UNCHANGED <<path, running, listener, shut, acceptor, clientVars,
                   streamVars>>

(* Every thread of the process is gone, and its descriptors with it.       *)
Ends(p) ==
    /\ main' = [main EXCEPT ![p] = "exited"]
    /\ listener' = [listener EXCEPT ![p] = "closed"]
    /\ acceptor' = [acceptor EXCEPT ![p] = "done"]
    /\ Disconnect(Queued(p) \cup Open(p))
    /\ handler' = [c \in Clients |->
                     IF server[c] = p THEN "done" ELSE handler[c]]
    /\ UNCHANGED <<path, running, shut, server, hungup, streamVars>>

Exit(p) == main[p] = "destroyed" /\ Ends(p)

(* SIGKILL or a crash: the socket file stays.                              *)
Crash(p) == main[p] \in Alive /\ Ends(p)

-----------------------------------------------------------------------------
(* acceptLoop.                                                             *)
AcceptCheck(p) ==
    /\ Acceptor(p, "check", IF running[p] THEN "accept" ELSE "done")
    /\ UNCHANGED <<path, main, running, listener, shut, clientVars,
                   streamVars>>

(* accept() fails at once on a closed number or when no descriptor is left *)
(* for the new client; the loop ends, whatever running_ says.              *)
AcceptCall(p) ==
    /\ Acceptor(p, "accept",
          IF listener[p] = "closed" \/ Cardinality(Open(p)) >= FdLimit
          THEN "done" ELSE "blocked")
    /\ UNCHANGED <<path, main, running, listener, shut, clientVars,
                   streamVars>>

(* A client was waiting.                                                   *)
AcceptClient(p, c) ==
    /\ Acceptor(p, "blocked", "accepted")
    /\ c \in Queued(p)
    /\ conn' = [conn EXCEPT ![c] = "open"]
    /\ UNCHANGED <<path, main, running, listener, shut, handler, server,
                   hungup, streamVars>>

(* Fault: the loop ends after its first client.                            *)
SpawnLastHandler(p, c) ==
    /\ Acceptor(p, "accepted", "done")
    /\ c \in Open(p)
    /\ Handler(c, "none", "fdopen")
    /\ UNCHANGED <<path, main, running, listener, shut, server, conn, hungup,
                   streamVars>>

(* The client's detached thread is started.                                *)
SpawnHandler(p, c) ==
    /\ Acceptor(p, "accepted", "check")
    /\ c \in Open(p)
    /\ Handler(c, "none", "fdopen")
    /\ UNCHANGED <<path, main, running, listener, shut, server, conn, hungup,
                   streamVars>>

(* Only shutdown() interrupts a blocked accept(); close() does not.        *)
AcceptWoken(p) ==
    /\ shut[p]
    /\ Acceptor(p, "blocked", "done")
    /\ UNCHANGED <<path, main, running, listener, shut, clientVars,
                   streamVars>>

-----------------------------------------------------------------------------
(* handleClient, on the client's thread.                                   *)

(* Fault: no close() when fdopen() fails.                                  *)
FdopenLeaks(c) ==
    /\ Handler(c, "fdopen", "read") \/ Handler(c, "fdopen", "done")
    /\ UNCHANGED <<path, procVars, server, conn, hungup, streamVars>>

(* fdopen(); if it fails the descriptor is closed.                         *)
Fdopen(c) ==
    /\ \/ Handler(c, "fdopen", "read") /\ UNCHANGED conn
       \/ Handler(c, "fdopen", "done") /\ Disconnect({c})
    /\ UNCHANGED <<path, procVars, server, hungup, streamVars>>

(* stdio refills its buffer with what has arrived.                         *)
FillBuffer(c) ==
    /\ handler[c] = "read"
    /\ buf[c] = << >>
    /\ \E n \in 1..Len(inq[c]) :
        /\ buf' = [buf EXCEPT ![c] = SubSeq(inq[c], 1, n)]
        /\ inq' = [inq EXCEPT ![c] = SubSeq(@, n + 1, Len(@))]
    /\ UNCHANGED <<path, procVars, clientVars, cur, sent, owed>>

(* Fault: an empty line is executed and answered.                          *)
ReadLineOfAnyLength(c) ==
    /\ buf[c] # << >>
    /\ Handler(c, "read", "exec")
    /\ cur' = [cur EXCEPT ![c] = Head(buf[c])]
    /\ buf' = [buf EXCEPT ![c] = Tail(@)]
    /\ UNCHANGED <<path, procVars, server, conn, hungup, inq, sent, owed>>

(* fgets returns a chunk; an empty line is skipped without an answer.      *)
ReadLine(c) ==
    /\ buf[c] # << >>
    /\ Handler(c, "read", IF Head(buf[c]) = "empty" THEN "read" ELSE "exec")
    /\ cur' = [cur EXCEPT ![c] = Head(buf[c])]
    /\ buf' = [buf EXCEPT ![c] = Tail(@)]
    /\ UNCHANGED <<path, procVars, server, conn, hungup, inq, sent, owed>>

ReadEof(c) ==
    /\ hungup[c]
    /\ inq[c] = << >> /\ buf[c] = << >>
    /\ Handler(c, "read", "close")
    /\ UNCHANGED <<path, procVars, server, conn, hungup, streamVars>>

(* processCommand and the callback it runs.                                *)
Execute(c) ==
    /\ Handler(c, "exec", "reply")
    /\ UNCHANGED <<path, procVars, server, conn, hungup, streamVars>>

(* Fault: no fflush(), so the answer stays in the buffer.                  *)
ReplyUnflushed(c) ==
    /\ Handler(c, "reply", IF cur[c] = "quit" THEN "close" ELSE "read")
    /\ buf' = [buf EXCEPT ![c] = << >>]
    /\ UNCHANGED <<path, procVars, server, conn, hungup, inq, cur, sent, owed>>

(* fprintf and fflush on the stream just read from.  With unread input in  *)
(* its buffer that is undefined (C11 7.21.5.3p7, no fseek in between): the *)
(* unread input is gone, and the answer may be gone with it.  Then the     *)
(* QUIT test: on the line as it came, where processCommand skips blanks.   *)
Reply(c) ==
    /\ Handler(c, "reply", IF cur[c] = "quit" THEN "close" ELSE "read")
    /\ \E written \in {TRUE} \cup (IF buf[c] = << >> THEN {} ELSE {FALSE}) :
        owed' = [owed EXCEPT ![c] = IF written THEN @ - 1 ELSE @]
    /\ buf' = [buf EXCEPT ![c] = << >>]
    /\ UNCHANGED <<path, procVars, server, conn, hungup, inq, cur, sent>>

Fclose(c) ==
    /\ Handler(c, "close", "done")
    /\ Disconnect({c})
    /\ UNCHANGED <<path, procVars, server, hungup, streamVars>>

-----------------------------------------------------------------------------
(* Client programs.                                                        *)
Connect(c) ==
    /\ conn[c] = "none"
    /\ path # NoProc
    /\ listener[path] = "listening" /\ ~shut[path]
    /\ Cardinality(Queued(path)) < Backlog
    /\ conn' = [conn EXCEPT ![c] = "queued"]
    /\ server' = [server EXCEPT ![c] = path]
    /\ UNCHANGED <<path, procVars, handler, hungup, streamVars>>

Send(c) ==
    /\ conn[c] \in {"queued", "open"} /\ ~hungup[c]
    /\ sent[c] < MaxLines /\ owed[c] < Window
    /\ \E line \in Lines[c] :
        /\ inq' = [inq EXCEPT ![c] = @ \o Chunks(line)]
        /\ owed' = [owed EXCEPT ![c] = IF line = "empty" THEN @ ELSE @ + 1]
    /\ sent' = [sent EXCEPT ![c] = @ + 1]
    /\ UNCHANGED <<path, procVars, clientVars, buf, cur>>

HangUp(c) ==
    /\ conn[c] \in {"queued", "open"} /\ ~hungup[c]
    /\ hungup' = [hungup EXCEPT ![c] = TRUE]
    /\ UNCHANGED <<path, procVars, handler, server, conn, streamVars>>

-----------------------------------------------------------------------------
MainStep(p) ==
    \/ UnlinkStale(p) \/ Bind(p) \/ Listen(p) \/ SpawnAcceptor(p)
    \/ Shutdown(p) \/ CloseListener(p) \/ Join(p) \/ UnlinkLast(p)
    \/ Destroy(p) \/ Exit(p)

AcceptStep(p) ==
    \/ AcceptCheck(p) \/ AcceptCall(p) \/ AcceptWoken(p)
    \/ \E c \in Clients : AcceptClient(p, c) \/ SpawnHandler(p, c)

HandlerStep(c) ==
    \/ Fdopen(c) \/ FillBuffer(c) \/ ReadLine(c) \/ ReadEof(c)
    \/ Execute(c) \/ Reply(c) \/ Fclose(c)

Next ==
    \/ \E p \in Procs : Socket(p) \/ Stop(p) \/ Crash(p)
    \/ \E p \in Procs : MainStep(p) \/ AcceptStep(p)
    \/ \E c \in Clients : HandlerStep(c)
    \/ \E c \in Clients : Connect(c) \/ Send(c) \/ HangUp(c)

Spec == Init /\ [][Next]_vars

(* Every thread is scheduled.  Nothing forces a run to start or a signal,  *)
(* a crash or a client to come.                                            *)
FairSpec ==
    /\ Spec
    /\ \A p \in Procs : WF_vars(MainStep(p)) /\ WF_vars(AcceptStep(p))
    /\ \A c \in Clients : WF_vars(HandlerStep(c))

-----------------------------------------------------------------------------
(* Properties.                                                             *)

(* A run finds the name of its socket free when it binds it, although runs *)
(* before it may have been killed at any step, before or after they bound  *)
(* it; and while it serves the socket file leads to it: neither such a     *)
(* crash nor its own steps leave clients without a way in.                 *)
PathLeadsToServer ==
    \A p \in Procs :
        /\ main[p] = "bind" => path = NoProc
        /\ main[p] \in {"serving", "shutdown"} => path = p

(* An accepted connection has a thread that will close it, or the accept   *)
(* thread is about to start one; and no thread works on a closed one.      *)
OpenIsHandled ==
    \A c \in Clients :
        /\ conn[c] = "open" =>
              \/ handler[c] \notin {"none", "done"}
              \/ handler[c] = "none" /\ acceptor[server[c]] = "accepted"
        /\ handler[c] \notin {"none", "done"} => conn[c] = "open"

(* No client thread is created once stop() has returned.                   *)
NoneAfterStop ==
    [][\A c \in Clients :
        handler[c] = "none" /\ handler'[c] = "fdopen"
            => main[server[c]] \notin {"unlink", "cleanup", "destroyed"}]_vars

(* stop() returns, and the process with it, also while clients are         *)
(* connected and while accept() is blocked.                                *)
StopReturns ==
    \A p \in Procs : main[p] = "shutdown" ~> main[p] = "exited"

(* A command is answered, or its connection ends.  (Of a line longer than  *)
(* the buffer the answers may be two or none.)                             *)
AnswersCome ==
    \A c \in Clients :
        "long" \notin Lines[c] =>
            (owed[c] > 0 ~> owed[c] = 0 \/ conn[c] = "closed")

(* "Each connecting client gets its own thread", unless the run ends.      *)
ClientsAreServed ==
    \A c \in Clients : conn[c] = "queued" ~> conn[c] # "queued"

(* To clients that wait for each answer and send short lines, the server,  *)
(* its accept thread and its client threads are one channel: no answer     *)
(* without a command, none to a client not accepted or already gone, and   *)
(* no second connection, through crashes and restarts.                     *)
Channel == INSTANCE CommandChannel

ImplementsChannel == Channel!Spec
=============================================================================
